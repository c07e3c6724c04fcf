------------------------------- MODULE Models -------------------------------
(***************************************************************************)
(* Installing a model: ModelDownloader of core/llm/downloader.py, whose    *)
(* threads pull models, beside the listing ModelRegistry keeps of what one *)
(* provider has installed (core/llm/registry.py).                          *)
(***************************************************************************)
EXTENDS Integers, FiniteSets

CONSTANTS
    ModelNames,  \* bound: the models one provider can install
    Listers,     \* bound: threads that list the models at the same time
    MaxPulls     \* bound: downloads started

ASSUME ModelsAssumption == IsFiniteSet(ModelNames) /\ MaxPulls \in Nat

Over == {"completed", "failed", "cancelled"}

VARIABLES
    installed,   \* what the provider has
    dl,          \* DownloadState of each model; "none" when there is no row
    puller,      \* where the thread of each download is
    listed,      \* the cached names, whether they are fresh, whether they were whole when stored
    lister,      \* the answer each listing carries to the cache
    pulls

modelVars == <<installed, dl, puller, listed, lister, pulls>>

NoRow == [status |-> "none", stamped |-> FALSE, old |-> FALSE, stop |-> FALSE]

NoListing == [names |-> {}, busy |-> FALSE, whole |-> FALSE]

ModelsTypeOK ==
    /\ installed \subseteq ModelNames
    /\ dl \in [ModelNames -> [status : {"none", "queued", "downloading"} \cup Over,
                              stamped : BOOLEAN, old : BOOLEAN, stop : BOOLEAN]]
    /\ puller \in [ModelNames -> {"idle", "started", "pulling", "pulled", "raised"} \cup Over]
    /\ listed \in [names : SUBSET ModelNames, fresh : BOOLEAN, whole : BOOLEAN]
    /\ lister \in [Listers -> [names : SUBSET ModelNames, busy : BOOLEAN, whole : BOOLEAN]]
    /\ pulls \in 0..MaxPulls

ModelsInit ==
    /\ installed = {}
    /\ dl = [m \in ModelNames |-> NoRow]
    /\ puller = [m \in ModelNames |-> "idle"]
    /\ listed = [names |-> {}, fresh |-> FALSE, whole |-> FALSE]
    /\ lister = [l \in Listers |-> NoListing]
    /\ pulls = 0

\* Rows that are over and, by their stamp, old: a missing stamp counts as old.
Sweepable(m) == dl[m].status \in Over /\ (~dl[m].stamped \/ dl[m].old)

Swept == [m \in ModelNames |-> IF Sweepable(m) THEN NoRow ELSE dl[m]]

\* The list of downloads, which clients poll.
Poll ==
    /\ \E m \in ModelNames : Sweepable(m)
    /\ dl' = Swept
    /\ UNCHANGED <<installed, puller, listed, lister, pulls>>

Active(rows) == {m \in ModelNames : rows[m].status \in {"queued", "downloading"}}

\* One download at a time for a provider.
StartPull(m) ==
    /\ pulls < MaxPulls
    /\ Active(Swept) = {}
    /\ dl' = [Swept EXCEPT ![m] = [NoRow EXCEPT !.status = "queued"]]
    /\ puller' = [puller EXCEPT ![m] = "started"]
    /\ pulls' = pulls + 1
    /\ UNCHANGED <<installed, listed, lister>>

CancelPull(m) ==
    /\ m \in Active(dl)
    /\ dl' = [dl EXCEPT ![m].stop = TRUE]
    /\ UNCHANGED <<installed, puller, listed, lister, pulls>>

Downloading(m) ==
    /\ puller[m] = "started"
    /\ puller' = [puller EXCEPT ![m] = "pulling"]
    /\ dl' = [dl EXCEPT ![m].status = "downloading"]
    /\ UNCHANGED <<installed, listed, lister, pulls>>

\* The worker returns: the provider reported success, the worker saw the
\* cancellation between two lines, or it raised.
Pulled(m) ==
    /\ puller[m] = "pulling"
    /\ \/ /\ installed' = installed \cup {m}
          /\ puller' = [puller EXCEPT ![m] = "pulled"]
       \/ /\ dl[m].stop
          /\ puller' = [puller EXCEPT ![m] = "pulled"]
          /\ UNCHANGED installed
       \/ /\ puller' = [puller EXCEPT ![m] = "raised"]
          /\ UNCHANGED installed
    /\ UNCHANGED <<dl, listed, lister, pulls>>

\* The cached list is no longer fresh; it says nothing to a listing under way.
Invalidated ==
    /\ listed' = [listed EXCEPT !.fresh = FALSE]
    /\ lister' = [l \in Listers |-> [lister[l] EXCEPT !.whole = FALSE]]

\* _run decides how the download ended, and drops the list when it is installed.
Conclude(m) ==
    /\ puller[m] \in {"pulled", "raised"}
    /\ puller' = [puller EXCEPT ![m] =
                     IF @ = "raised" THEN "failed" ELSE IF dl[m].stop THEN "cancelled" ELSE "completed"]
    /\ IF puller'[m] = "completed" THEN Invalidated ELSE UNCHANGED <<listed, lister>>
    /\ UNCHANGED <<installed, dl, pulls>>

\* Faulty variant: the status first.
FinishPullFlipped(m) ==
    /\ puller[m] \in Over
    /\ IF dl[m].status # puller[m]
       THEN dl' = [dl EXCEPT ![m].status = puller[m]] /\ UNCHANGED puller
       ELSE dl' = [dl EXCEPT ![m].stamped = TRUE] /\ puller' = [puller EXCEPT ![m] = "idle"]
    /\ UNCHANGED <<installed, listed, lister, pulls>>

\* finish: finished_at, then the status, in two writes a poll can come between.
FinishPull(m) ==
    /\ puller[m] \in Over
    /\ IF ~dl[m].stamped
       THEN dl' = [dl EXCEPT ![m].stamped = TRUE] /\ UNCHANGED puller
       ELSE dl' = [dl EXCEPT ![m].status = puller[m]] /\ puller' = [puller EXCEPT ![m] = "idle"]
    /\ UNCHANGED <<installed, listed, lister, pulls>>

\* COMPLETED_TTL_SECONDS pass.
RowAges(m) ==
    /\ dl[m].status \in Over /\ dl[m].stamped /\ ~dl[m].old
    /\ dl' = [dl EXCEPT ![m].old = TRUE]
    /\ UNCHANGED <<installed, puller, listed, lister, pulls>>

\* remove: the provider deletes the model, then the list is dropped.
RemoveModel(m) ==
    /\ m \in installed
    /\ installed' = installed \ {m}
    /\ Invalidated
    /\ UNCHANGED <<dl, puller, pulls>>

ListAges ==
    /\ listed.fresh
    /\ listed' = [listed EXCEPT !.fresh = FALSE]
    /\ UNCHANGED <<installed, dl, puller, lister, pulls>>

\* list_models with no fresh list, or forced: the provider answers, or cannot
\* be reached and the list is empty.
ListBegin(l) ==
    /\ ~lister[l].busy
    /\ \E reached \in BOOLEAN :
          lister' = [lister EXCEPT ![l] =
                        [names |-> IF reached THEN installed ELSE {}, busy |-> TRUE, whole |-> reached]]
    /\ UNCHANGED <<installed, dl, puller, listed, pulls>>

ListStore(l) ==
    /\ lister[l].busy
    /\ listed' = [names |-> lister[l].names, fresh |-> TRUE, whole |-> lister[l].whole]
    /\ lister' = [lister EXCEPT ![l] = NoListing]
    /\ UNCHANGED <<installed, dl, puller, pulls>>

ModelsNext ==
    \/ \E m \in ModelNames :
          \/ StartPull(m) \/ CancelPull(m) \/ Downloading(m) \/ Pulled(m)
          \/ Conclude(m) \/ FinishPull(m) \/ RowAges(m) \/ RemoveModel(m)
    \/ \E l \in Listers : ListBegin(l) \/ ListStore(l)
    \/ Poll \/ ListAges

ModelsSpec == ModelsInit /\ [][ModelsNext]_modelVars
-----------------------------------------------------------------------------
(* Properties.                                                              *)

\* A client that polls until a download is completed and lists the models
\* finds it, unless the list it is given was asked for before the list was
\* dropped and stored after, or comes from a provider that did not answer.
CompletedIsListed ==
    \A m \in installed :
        (dl[m].status = "completed" /\ listed.fresh /\ listed.whole) => m \in listed.names

\* A download that is over keeps its row until COMPLETED_TTL_SECONDS after
\* its end, so that the error of a failed one is seen.
RowsOutliveTheirEnd ==
    [][\A m \in ModelNames :
          (dl[m].status \in Over /\ dl'[m].status = "none") => dl[m].old]_modelVars

\* A client that polls sees how a download ended, and then the model.
DownloadsAreSeen == []CompletedIsListed /\ RowsOutliveTheirEnd
=============================================================================
