---------------------------- MODULE DataSources ----------------------------
(***************************************************************************)
(* The datasets of a session, the files its child reads them from, and the *)
(* connections some were imported from: SessionData of core/session.py,    *)
(* core/connectors/ingest.py and store.py, and the routes over them.       *)
(*                                                                         *)
(* A handler of the event loop that has no await is one action.  An import *)
(* and the cleaning of an upload are not: they run on threads beside them. *)
(* A frame is the number of the load it came from.                         *)
(***************************************************************************)
EXTENDS Integers, Functions

CONSTANTS
    Files,     \* the names of uploads
    RawName,   \* "dataset.csv", the name the cleaning pass gives what it cleans
    Conns,     \* bound: the connections of a behaviour
    TableKey,  \* DatasetHandle.table_key of every name
    Ruled,     \* bound: the names that get a policy of their own
    Fallible,  \* bound: the names whose files may fail to be written
    MaxLoads,  \* bound: the uploads, cleaning passes and imports of a behaviour
    MaxFailures \* bound: the writes of files that fail

Names == DOMAIN TableKey

ASSUME DataAssumption ==
    /\ Files \subseteq Names /\ RawName \in Files
    /\ MaxLoads \in Nat /\ MaxFailures \in Nat

\* What a connection is called first, and after a rename.  The code knows a
\* source by its name: a connection of the same name may be made again.
ConnNames == {"old", "new"}

VARIABLES
    data,      \* datasets; a place is when the name was put into the dict
    activeData,    \* active_dataset
    tables,    \* tables/<key>.feather
    frame,     \* dataset.feather
    override,  \* DataPolicy.per_dataset: the names with one
    spec,      \* the stored connections and what they are called
    importer,  \* the import on a thread, if there is one
    cleaner,   \* what a cleaning pass has put into the session and not written, or 0
    raced,     \* the selection changed, or a table went, under an import or a cleaning pass
    unwritten, \* the table keys whose last write failed
    frameUnwritten,  \* so did that of dataset.feather
    failures,
    loads

childFiles == <<tables, frame, unwritten, frameUnwritten, failures>>
atWork == <<importer, cleaner, raced>>
dataVars == <<data, activeData, childFiles, override, spec, atWork, loads>>

NoImport == [at |-> "none", name |-> "", conn |-> "", label |-> "", ver |-> 0, bind |-> FALSE]

Loaded == DOMAIN data
Handle(name) == data[name]

\* next(iter(datasets)) of some that are left.
FirstOf(rest) ==
    IF rest = {} THEN "none" ELSE CHOOSE n \in rest : \A m \in rest : data[n].place <= data[m].place

DataTypeOK ==
    /\ Loaded \subseteq Names
    /\ \A n \in Loaded :
          /\ data[n].ver \in 1..MaxLoads /\ data[n].place \in Nat
          /\ data[n].origin = <<>> \/ data[n].origin \in Conns \X ConnNames
    /\ activeData \in Loaded \cup {"none"}
    /\ tables \in [{TableKey[n] : n \in Names} -> 0..MaxLoads]
    /\ frame \in 0..MaxLoads /\ loads \in 0..MaxLoads
    /\ unwritten \subseteq DOMAIN tables /\ cleaner \in 0..MaxLoads /\ failures \in 0..MaxFailures
    /\ override \subseteq Names
    /\ spec \in [Conns -> ConnNames \cup {"none"}]
    /\ importer.at \in {"none", "reading", "landed", "written"}

DataInit ==
    /\ data = <<>> /\ activeData = "none" /\ frame = 0 /\ loads = 0
    /\ tables = [k \in {TableKey[n] : n \in Names} |-> 0]
    /\ override = {}
    /\ spec = [c \in Conns |-> "none"]
    /\ importer = NoImport /\ cleaner = 0 /\ raced = FALSE
    /\ unwritten = {} /\ frameUnwritten = FALSE /\ failures = 0

\* A dict keeps the place of a key that is assigned again.  An upload and what is cleaned are put in
\* as they are counted, an import, of which there is one, some time after.
Put(name, ver, place) ==
    [n \in Loaded \cup {name} |->
        IF n # name THEN data[n]
        ELSE [ver |-> ver, origin |-> <<>>, place |-> IF name \in Loaded THEN data[name].place ELSE place]]

\* The handles of some datasets say where they come from.
Signed(names, origin) ==
    [n \in Loaded |-> IF n \in names THEN [data[n] EXCEPT !.origin = origin] ELSE data[n]]

\* The datasets that say they came from somewhere.
From(origin) == {n \in Loaded : data[n].origin = origin}

\* An import or a cleaning pass has put its handle into the session and not its files.
Exposed == importer.at = "landed" \/ cleaner # 0

\* _materialize: the table of a dataset, then dataset.feather for the active one.  The first write that
\* fails is the last and is not told; its file is left as it was, or cut off and unreadable.
Materialized(name, ver, active) ==
    LET key == TableKey[name]
    IN  \/ /\ tables' = [tables EXCEPT ![key] = ver] /\ unwritten' = unwritten \ {key}
           /\ IF active THEN frame' = ver /\ frameUnwritten' = FALSE ELSE UNCHANGED <<frame, frameUnwritten>>
           /\ UNCHANGED failures
        \/ /\ name \in Fallible
           /\ failures < MaxFailures /\ failures' = failures + 1
           /\ \/ /\ tables' \in {tables, [tables EXCEPT ![key] = 0]} /\ unwritten' = unwritten \cup {key}
                 /\ frameUnwritten' = (active \/ frameUnwritten)
                 /\ UNCHANGED frame
              \/ /\ tables' = [tables EXCEPT ![key] = ver] /\ unwritten' = unwritten \ {key}
                 /\ active /\ frame' \in {frame, 0} /\ frameUnwritten' = TRUE

-----------------------------------------------------------------------------
(* The datasets of the session.                                             *)

\* upload_dataset from its second ensure_idle on: add_dataset, _materialize.
Upload(name) ==
    /\ loads < MaxLoads /\ loads' = loads + 1
    /\ data' = Put(name, loads', 2 * loads')
    /\ activeData' = name
    /\ Materialized(name, loads', TRUE)
    /\ raced' = (raced \/ Exposed)
    /\ UNCHANGED <<override, spec, importer, cleaner>>

\* clean_dataset on a thread, before the upload it cleans: add_dataset of the raw frame.
CleanLands ==
    /\ cleaner = 0
    /\ loads < MaxLoads /\ loads' = loads + 1
    /\ data' = Put(RawName, loads', 2 * loads')
    /\ activeData' = RawName
    /\ cleaner' = loads'
    /\ raced' = (raced \/ Exposed)
    /\ UNCHANGED <<childFiles, override, spec, importer>>

\* Its files.  What the script makes of the frame comes back to the upload.
CleanWrites ==
    /\ cleaner # 0
    /\ Materialized(RawName, cleaner, TRUE)
    /\ cleaner' = 0
    /\ UNCHANGED <<data, activeData, override, spec, importer, raced, loads>>

\* Faulty variant: only the session's own record is changed.
ActivateUnwritten(name) ==
    /\ name \in Loaded
    /\ activeData' = name
    /\ raced' = (raced \/ Exposed)
    /\ UNCHANGED <<data, childFiles, override, spec, importer, cleaner, loads>>

\* set_active
Activate(name) ==
    /\ name \in Loaded
    /\ activeData' = name
    /\ Materialized(name, Handle(name).ver, TRUE)
    /\ raced' = (raced \/ Exposed)
    /\ UNCHANGED <<data, override, spec, importer, cleaner, loads>>

\* Faulty variant: what is removed stays active.
RemovedStaysActive(names) ==
    /\ data' = Restrict(data, Loaded \ names) /\ UNCHANGED activeData
    /\ tables' = [k \in DOMAIN tables |-> IF \E n \in names : TableKey[n] = k THEN 0 ELSE tables[k]]
    /\ raced' = (raced \/ (Exposed /\ names # {}))

\* remove_dataset of each of some names.  The next in the dict becomes active;
\* dataset.feather is not written.
Removed(names) ==
    /\ data' = Restrict(data, Loaded \ names)
    /\ activeData' = IF activeData \in names THEN FirstOf(Loaded \ names) ELSE activeData
    /\ tables' = [k \in DOMAIN tables |-> IF \E n \in names : TableKey[n] = k THEN 0 ELSE tables[k]]
    /\ raced' = (raced \/ (Exposed /\ names # {}))

RemoveDataset(name) ==
    /\ name \in Loaded
    /\ Removed({name})
    /\ override' = override \ {name}
    /\ UNCHANGED <<frame, unwritten, frameUnwritten, failures, spec, importer, cleaner, loads>>

\* set_dataset_policy, clear_dataset_policy
SetPolicy(name) ==
    /\ name \in Loaded \cap Ruled
    /\ override' = override \cup {name}
    /\ UNCHANGED <<data, activeData, childFiles, spec, atWork, loads>>

ClearPolicy(name) ==
    /\ name \in override
    /\ override' = override \ {name}
    /\ UNCHANGED <<data, activeData, childFiles, spec, atWork, loads>>

-----------------------------------------------------------------------------
(* The connections, which every session shares.                             *)

AddConnection(c) ==
    /\ spec[c] = "none"
    /\ spec' = [spec EXCEPT ![c] = "old"]
    /\ UNCHANGED <<data, activeData, childFiles, override, atWork, loads>>

\* update_connection: what was imported under the old name follows, except
\* what a thread has still to sign with it.
Rename(c) ==
    /\ spec[c] = "old"
    /\ spec' = [spec EXCEPT ![c] = "new"]
    /\ data' = Signed(From(<<c, "old">>), <<c, "new">>)
    /\ raced' = (raced \/ importer.conn = c)
    /\ UNCHANGED <<activeData, childFiles, override, importer, cleaner, loads>>

\* delete_connection: remove_dataset of what says it came from there.
Disconnect(c) ==
    LET imported == From(<<c, spec[c]>>)
    IN  /\ spec[c] # "none"
        /\ Removed(imported)
        /\ override' = override \ imported
        /\ spec' = [spec EXCEPT ![c] = "none"]
        /\ UNCHANGED <<frame, unwritten, frameUnwritten, failures, importer, cleaner, loads>>

\* import_from_connection reads the specification, and the thread the rows.
ImportBegins(c, name, bind) ==
    /\ importer.at = "none" /\ spec[c] # "none" /\ name \notin Files
    /\ loads < MaxLoads /\ loads' = loads + 1
    /\ importer' = [at |-> "reading", name |-> name, conn |-> c, label |-> spec[c],
                    ver |-> loads', bind |-> bind]
    /\ UNCHANGED <<data, activeData, childFiles, override, spec, cleaner, raced>>

\* add_dataset under the lock; is_active is what it is now.
ImportLands ==
    /\ importer.at = "reading"
    /\ data' = Put(importer.name, importer.ver, 2 * loads + 1)
    /\ activeData' = IF importer.bind \/ activeData = "none" THEN importer.name ELSE activeData
    /\ importer' = [importer EXCEPT !.at = "landed", !.bind = (activeData' = importer.name)]
    /\ raced' = (raced \/ (cleaner # 0 /\ activeData' # activeData))
    /\ UNCHANGED <<childFiles, override, spec, cleaner, loads>>

\* _materialize
ImportWrites ==
    /\ importer.at = "landed"
    /\ Materialized(importer.name, importer.ver, importer.bind)
    /\ importer' = [importer EXCEPT !.at = "written"]
    /\ UNCHANGED <<data, activeData, override, spec, cleaner, raced, loads>>

\* handle.origin = spec.name, of a handle that may no longer be there, by the
\* name the connection had when the request came.
ImportSigns ==
    /\ importer.at = "written"
    /\ data' = Signed({n \in Loaded : data[n].ver = importer.ver}, <<importer.conn, importer.label>>)
    /\ raced' = (raced \/ spec[importer.conn] # importer.label)
    /\ importer' = NoImport
    /\ UNCHANGED <<activeData, childFiles, override, spec, cleaner, loads>>

\* The source refuses, or the read fails.
ImportFails ==
    /\ importer.at = "reading"
    /\ importer' = NoImport
    /\ UNCHANGED <<data, activeData, childFiles, override, spec, cleaner, raced, loads>>

-----------------------------------------------------------------------------
DataNext ==
    \/ \E n \in Files : Upload(n)
    \/ CleanLands \/ CleanWrites
    \/ \E n \in Names : Activate(n) \/ RemoveDataset(n) \/ SetPolicy(n) \/ ClearPolicy(n)
    \/ \E c \in Conns : AddConnection(c) \/ Rename(c) \/ Disconnect(c)
    \/ \E c \in Conns, n \in Names, bind \in BOOLEAN : ImportBegins(c, n, bind)
    \/ ImportLands \/ ImportWrites \/ ImportSigns \/ ImportFails

DataSpec == DataInit /\ [][DataNext]_dataVars
-----------------------------------------------------------------------------
(* Properties.                                                              *)

Alone(name) == \A n \in Names \ {name} : TableKey[n] # TableKey[name]

\* Session.tables "mirrors what the sandbox daemon builds from the bind mount":
\* every table is on disk as it was last loaded, and the child's df is the
\* active one.
ChildSeesTheSession ==
    importer.at = "none" /\ cleaner = 0 =>
        /\ \A n \in Loaded : tables[TableKey[n]] = Handle(n).ver
        /\ activeData # "none" => frame = Handle(activeData).ver

\* What is left of it: unless something was removed or selected between the two steps of an import or
\* of a cleaning pass, the child's df is the active frame or one that is gone, and a table with a key
\* of its own is the one last loaded; except for a file whose last write failed, until it is written
\* again.
ChildSeesWhatIsLoaded ==
    importer.at = "none" /\ cleaner = 0 /\ ~raced =>
        /\ \A n \in Loaded : Alone(n) => tables[TableKey[n]] = Handle(n).ver \/ TableKey[n] \in unwritten
        /\ \A n \in Loaded : frame = Handle(n).ver => activeData = n \/ frameUnwritten

\* A data policy is dropped with its dataset, by whichever way that goes, "so
\* re-uploading a file of the same name does not silently inherit" it.
NoPolicyIsInherited == override \subseteq Loaded

\* The tables of a connection go with it, whatever it was called when they
\* were imported, unless it was renamed or deleted under the import.
NothingOfADeletedSource ==
    ~raced => \A n \in Loaded :
        data[n].origin # <<>> => spec[data[n].origin[1]] = data[n].origin[2]

\* The child has the data of the session, and nothing is left of what is gone.
DataHolds == ChildSeesWhatIsLoaded /\ NoPolicyIsInherited /\ NothingOfADeletedSource
=============================================================================
