------------------------------ MODULE History ------------------------------
(***************************************************************************)
(* What the database keeps of sessions: the answers of their turns with    *)
(* what each turn recorded about itself, and the tables they have loaded   *)
(* (core/database.py).  A turn is put down in several transactions, each   *)
(* of which may fail by itself.  The event loop does one such sequence at  *)
(* a time; the reaper and the imports run on threads beside it, and the    *)
(* server may stop.  Two sessions load a table of one name.                *)
(***************************************************************************)
EXTENDS Naturals, FiniteSetsExt

CONSTANTS
    MaxWork,   \* bound: turns, uploads and imports, of both sessions
    MaxFaults, \* bound: transactions that fail
    Looked     \* the answers get_last_assistant_turn looks at, 12 in the code

ASSUME HistoryAssumption == {MaxWork, MaxFaults} \subseteq Nat /\ Looked \in Nat \ {0}

Owners == {"s", "t"}  \* sessions
NoOwner == "nobody"
Workflows == {"task", "converse"}

\* What a task records beside its answer.  No route reads what is put under "analysis":
\* analysis_state and plan_revisions.
Kinds == {"memory", "analysis", "evidence", "run"}

VARIABLES
    present,  \* the sessions there are
    answers,  \* chat_messages of the role assistant: id, session, turn and workflow
    records,  \* the other tables: kind, session, turn, and the id of the message
    lastId,   \* the last id given to a message
    answering,  \* the turns that run, by session
    doing,     \* what the event loop is doing without a wait
    loading,    \* an upload or import of a session, and how far it is
    loaded,    \* the sessions that have the table
    schema,   \* the row of its name in schema_registry: whose it is
    work, faults,
    trailing, \* history: sessions that had something under way as they went, or were not deleted
    unsettled \* history: sessions whose row in schema_registry was taken, lost a write or met a race

rowVars == <<present, answers, records, lastId, answering, doing, loading, loaded, schema, work, faults, trailing, unsettled>>
tableVars == <<loading, loaded, schema, unsettled>>
turnVars == <<answers, records, lastId, answering>>

NoTurnYet == [turn |-> 0, workflow |-> "none"]
FreeLoop == [at |-> "free"]

HistoryTypeOK ==
    /\ {present, loaded, trailing, unsettled} \subseteq SUBSET Owners
    /\ \A m \in answers : m.id \in 1..MaxWork /\ m.session \in Owners /\ m.workflow \in Workflows
    /\ \A r \in records : r.kind \in Kinds /\ r.session \in Owners /\ r.id \in 0..MaxWork
    /\ lastId \in 0..MaxWork
    /\ DOMAIN answering = Owners
    /\ doing.at \in {"free", "memory", "message", "analysis", "evidence", "run", "register", "remove"}
    /\ loading \in [Owners -> {"none", "upload", "import", "imported"}]
    /\ schema \in Owners \cup {NoOwner}

HistoryInit ==
    /\ present = Owners
    /\ answers = {} /\ records = {} /\ lastId = 0
    /\ answering = [s \in Owners |-> NoTurnYet]
    /\ doing = FreeLoop
    /\ loading = [s \in Owners |-> "none"]
    /\ loaded = {} /\ schema = NoOwner
    /\ work = 0 /\ faults = 0
    /\ trailing = {} /\ unsettled = {}

\* A transaction that may fail: nothing is written, the error is logged and the caller goes on.
WriteFails == faults < MaxFaults /\ faults' = faults + 1
WriteSucceeds == UNCHANGED faults

-----------------------------------------------------------------------------
(* A turn is put down. *)

BeginAnswer(s, workflow) ==
    /\ s \in present /\ answering[s].turn = 0 /\ doing = FreeLoop /\ work < MaxWork
    /\ work' = work + 1
    /\ answering' = [answering EXCEPT ![s] = [turn |-> work + 1, workflow |-> workflow]]
    /\ UNCHANGED <<present, answers, records, lastId, doing, tableVars, faults, trailing>>

\* It is cancelled or fails: nothing is put down.
AnswerFails(s) ==
    /\ answering[s].turn # 0 /\ doing = FreeLoop
    /\ answering' = [answering EXCEPT ![s] = NoTurnYet]
    /\ UNCHANGED <<present, answers, records, lastId, doing, tableVars, work, faults, trailing>>

\* It has its answer.  A reply of conversation keeps only that.
Finalize(s) ==
    /\ answering[s].turn # 0 /\ doing = FreeLoop
    /\ doing' = [at |-> IF answering[s].workflow = "task" THEN "memory" ELSE "message",
                session |-> s, turn |-> answering[s].turn, workflow |-> answering[s].workflow, id |-> 0]
    /\ answering' = [answering EXCEPT ![s] = NoTurnYet]
    /\ UNCHANGED <<present, answers, records, lastId, tableVars, work, faults, trailing>>

\* A faulty id: the next one after those in the table, so that one is given twice.
FreshIdReused == Max({m.id : m \in answers} \cup {0}) + 1

\* AUTOINCREMENT.
FreshId == lastId + 1

\* append_chat_message: the id, or 0 when it fails.
AppendMessage ==
    /\ doing.at = "message"
    /\ LET id == FreshId
           next == IF doing.workflow = "task" THEN [doing EXCEPT !.at = "analysis"] ELSE FreeLoop
       IN  \/ /\ WriteSucceeds
              /\ answers' = answers \cup {[id |-> id, session |-> doing.session, turn |-> doing.turn, workflow |-> doing.workflow]}
              /\ lastId' = id
              /\ doing' = IF next = FreeLoop THEN next ELSE [next EXCEPT !.id = id]
           \/ /\ WriteFails
              /\ doing' = next
              /\ UNCHANGED <<answers, lastId>>
    /\ UNCHANGED <<present, records, answering, tableVars, work, trailing>>

NextKind == [memory |-> "message", analysis |-> "evidence", evidence |-> "run"]

Row(kind) == [kind |-> kind, session |-> doing.session, turn |-> doing.turn, id |-> doing.id]

\* A run is stored once for its message: a second one for the same id is left out.
Stored(kind) ==
    IF kind = "run" /\ \E r \in records : r.kind = "run" /\ r.id = doing.id THEN records ELSE records \cup {Row(kind)}

PutDown ==
    /\ doing.at \in Kinds
    /\ \/ WriteSucceeds /\ records' = Stored(doing.at)
       \/ WriteFails /\ UNCHANGED records
    /\ doing' = IF doing.at = "run" THEN FreeLoop ELSE [doing EXCEPT !.at = NextKind[doing.at]]
    /\ UNCHANGED <<present, answers, lastId, answering, tableVars, work, trailing>>

-----------------------------------------------------------------------------
(* A table is loaded and removed. *)

BeginLoad(s, how) ==
    /\ s \in present /\ loading[s] = "none" /\ doing = FreeLoop /\ work < MaxWork
    /\ answering[s].turn = 0
    /\ work' = work + 1
    /\ loading' = [loading EXCEPT ![s] = how]
    /\ UNCHANGED <<present, turnVars, doing, loaded, schema, faults, trailing, unsettled>>

\* An upload has been parsed: refused when a turn has begun, else the table is added, and
\* the loop registers it before it does anything else.
AddUpload(s) ==
    /\ loading[s] = "upload" /\ doing = FreeLoop
    /\ loading' = [loading EXCEPT ![s] = "none"]
    /\ IF answering[s].turn # 0
       THEN UNCHANGED <<loaded, doing>>
       ELSE loaded' = loaded \cup {s} /\ doing' = [at |-> "register", session |-> s]
    /\ UNCHANGED <<present, turnVars, schema, work, faults, trailing, unsettled>>

\* An import adds its table from its thread.
AddImport(s) ==
    /\ loading[s] = "import"
    /\ loading' = [loading EXCEPT ![s] = "imported"]
    /\ loaded' = loaded \cup {s}
    /\ UNCHANGED <<present, turnVars, doing, schema, work, faults, trailing, unsettled>>

\* save_schema: the row of the name is replaced, whosever it was.
Register(s) ==
    /\ \/ doing.at = "register" /\ doing.session = s /\ doing' = FreeLoop /\ UNCHANGED loading
       \/ loading[s] = "imported" /\ loading' = [loading EXCEPT ![s] = "none"] /\ UNCHANGED doing
    /\ \/ /\ WriteSucceeds
          /\ schema' = s
          /\ unsettled' = (unsettled \ (IF s \in loaded THEN {s} ELSE {})) \cup ({schema} \ {s, NoOwner})
                          \cup (IF s \notin loaded \/ (doing.at = "remove" /\ doing.session = s) THEN {s} ELSE {})
       \/ /\ WriteFails
          /\ unsettled' = unsettled \cup {s}
          /\ UNCHANGED schema
    /\ UNCHANGED <<present, turnVars, loaded, work, trailing>>

\* remove_dataset: first the table, then its row.
Remove(s) ==
    /\ s \in present \cap loaded /\ doing = FreeLoop /\ answering[s].turn = 0
    /\ loaded' = loaded \ {s}
    /\ doing' = [at |-> "remove", session |-> s]
    /\ UNCHANGED <<present, turnVars, loading, schema, work, faults, trailing, unsettled>>

\* delete_schema: the row, if it is still this session's.
DeleteSchema ==
    /\ doing.at = "remove"
    /\ doing' = FreeLoop
    /\ LET s == doing.session
       IN  \/ /\ WriteSucceeds
              /\ schema' = IF schema = s THEN NoOwner ELSE schema
              /\ unsettled' = IF s \in loaded THEN unsettled ELSE unsettled \ {s}
           \/ /\ WriteFails
              /\ unsettled' = unsettled \cup {s}
              /\ UNCHANGED schema
    /\ UNCHANGED <<present, turnVars, loading, loaded, work, trailing>>

-----------------------------------------------------------------------------
(* The end of a session. *)

UnderWay(s) == answering[s].turn # 0 \/ loading[s] # "none" \/ (doing # FreeLoop /\ doing.session = s)

\* dispose: delete_session_data, and then the tables.  The reaper does it on a thread,
\* a drop or an eviction on the loop.
Dispose(s) ==
    /\ s \in present
    /\ present' = present \ {s}
    /\ \/ /\ WriteSucceeds
          /\ answers' = {m \in answers : m.session # s}
          /\ records' = {r \in records : r.session # s}
          /\ schema' = IF schema = s THEN NoOwner ELSE schema
          /\ trailing' = IF UnderWay(s) THEN trailing \cup {s} ELSE trailing
       \/ /\ WriteFails
          /\ trailing' = trailing \cup {s}
          /\ UNCHANGED <<answers, records, schema>>
    /\ loaded' = loaded \ {s}
    /\ UNCHANGED <<lastId, answering, doing, loading, work, unsettled>>

\* The server stops, in order or not: sessions are forgotten, their rows are not.
ServerStops ==
    /\ present # {}
    /\ present' = {} /\ loaded' = {}
    /\ answering' = [s \in Owners |-> NoTurnYet]
    /\ loading' = [s \in Owners |-> "none"]
    /\ doing' = FreeLoop
    /\ trailing' = trailing \cup present
    /\ UNCHANGED <<answers, records, lastId, schema, work, faults, unsettled>>

HistoryNext ==
    \/ \E s \in Owners, w \in Workflows : BeginAnswer(s, w)
    \/ \E s \in Owners, how \in {"upload", "import"} : BeginLoad(s, how)
    \/ \E s \in Owners : AnswerFails(s) \/ Finalize(s) \/ AddUpload(s) \/ AddImport(s) \/ Register(s) \/ Remove(s) \/ Dispose(s)
    \/ AppendMessage \/ PutDown \/ DeleteSchema \/ ServerStops

HistorySpec == HistoryInit /\ [][HistoryNext]_rowVars

-----------------------------------------------------------------------------
(* What is read, and what should hold of it. *)

\* The export of an answer: what its turn recorded, from the run when there is one, else
\* from the rows of its evidence.
Of(id, kind) == {r \in records : r.id = id /\ r.kind = kind}
Exported(m) == IF Of(m.id, "run") # {} THEN Of(m.id, "run") ELSE Of(m.id, "evidence")

\* get_last_assistant_turn for tasks: the last task among the last answers.
Newest(s) == {m \in answers : m.session = s /\ Cardinality({n \in answers : n.session = s /\ n.id > m.id}) < Looked}
LastTask(s) ==
    LET tasks == {m \in Newest(s) : m.workflow = "task"}
    IN  {m \in tasks : \A n \in tasks : n.id <= m.id}

\* An export is of one turn: the code of an answer never goes with the run or the
\* evidence of another turn or session, whichever writes failed (export.py 66-96).
ExportsOneTurn == \A m \in answers : \A r \in Exported(m) : r.turn = m.turn /\ r.session = m.session

\* Nothing of a session is left once it is gone, unless something of it was under way,
\* the deletion failed or the server had stopped.
NothingIsLeft ==
    \A s \in Owners \ (present \cup trailing) :
        s # schema /\ \A r \in answers \cup records : r.session # s

\* The tables that a prompt names are those of the session, and all of them, unless
\* another session took the row, a write failed, or an import met a removal.  (The two
\* writes of a load or a removal are apart.)
SchemaIsOfTables ==
    \A s \in present \ unsettled : ~UnderWay(s) => (schema = s <=> s \in loaded)

\* What a follow-up refers to is the last task of the session, unless more replies of
\* conversation than are looked at have come since.
FollowUpFindsTask ==
    \A s \in present : \A m \in answers :
        m.session = s /\ m.workflow = "task" /\ (\A n \in answers : n.session = s /\ n.workflow = "task" => n.id <= m.id) =>
            LastTask(s) = {m} \/ Cardinality({n \in answers : n.session = s /\ n.id > m.id}) >= Looked

HistoryHolds == ExportsOneTurn /\ NothingIsLeft /\ SchemaIsOfTables /\ FollowUpFindsTask
=============================================================================
