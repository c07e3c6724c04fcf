------------------------------ MODULE MCEdges ------------------------------
(***************************************************************************)
(* What stands around the turns of the server, for TLC.  Before it: the    *)
(* cards of a browser tab, the session it is in, what its address is let   *)
(* in with, the processes of the command line, the packages of an          *)
(* installation.  Behind it: the encoder, the solutions that are replayed, *)
(* what a session keeps of its tables.  They share no state here, so a     *)
(* behaviour is one of them; the others stay in an initial state.          *)
(***************************************************************************)
EXTENDS WebInterface, CommandLine, Encoder, Gates, Reuse

CONSTANTS q1, q2, s1, w1, n2, t1, t2, col1, col2, d1, d2, own, join

\* The second question is near to each other, and they are not near to one another.
Nearness == {p \in Wordings \X Wordings : p[1] = p[2] \/ n2 \in {p[1], p[2]}}

\* Both tables have one target, and the second has another; one program reads it beside the active one.
ColumnsOf == [t \in Sheets |-> IF t = t1 THEN {col1} ELSE {col1, col2}]
NoTimes == [t \in Sheets |-> Nothing]
TablesRead == [p \in {own, join} |-> IF p = own THEN {} ELSE {t2}]

VARIABLE part  \* the one that runs

MCInit ==
    /\ part \in {"turns", "session", "processes", "packages", "encoder", "slots", "limits", "solutions", "profiles"}
    /\ ViewInit /\ TabInit /\ SupInit /\ LimitsInit
    /\ ReleaseInit /\ (part = "packages" \/ (installKind = "release" /\ service = NoVersion))
    /\ EncInit
    /\ part = "encoder" \/ (~warming /\ wanted.mode = "hybrid" /\ wanted.embedding = "near" /\ wanted.api = "near" /\ serving = {} /\ ~usable)
    /\ GatesInit /\ (part = "slots" \/ \A c \in Conns : sockets[c].as = s1)
    /\ CacheInit /\ world = [s \in Tabs |-> w1]
    /\ ReuseInit /\ sheet = [t \in Sheets |-> IF t = t1 THEN d1 ELSE d2] /\ front = t1

MCNext ==
    /\ UNCHANGED part
    /\ \/ part = "turns" /\ ViewNext
       \/ part # "turns" /\ UNCHANGED viewVars
    /\ \/ part = "session" /\ TabNext
       \/ part # "session" /\ UNCHANGED tabVars
    /\ \/ part = "processes" /\ SupNext
       \/ part # "processes" /\ UNCHANGED supervisionVars
    /\ \/ part = "packages" /\ ReleaseNext
       \/ part # "packages" /\ UNCHANGED releaseVars
    /\ \/ part = "encoder" /\ EncNext
       \/ part # "encoder" /\ UNCHANGED encVars
    /\ \/ part = "slots" /\ GatesNext
       \/ part # "slots" /\ UNCHANGED gateVars
    /\ \/ part = "limits" /\ LimitsNext
       \/ part # "limits" /\ UNCHANGED limitVars
    /\ \/ part = "solutions" /\ CacheNext
       \/ part # "solutions" /\ UNCHANGED cacheVars
    /\ \/ part = "profiles" /\ ReuseNext
       \/ part # "profiles" /\ UNCHANGED reuseVars

MCSpec ==
    MCInit /\ [][MCNext]_<<viewVars, tabVars, supervisionVars, releaseVars, encVars, gateVars, limitVars, cacheVars, reuseVars, part>>

\* Every variable of the one that runs keeps its type; the others stand still.
EdgeTypesHold ==
    /\ part = "turns" => ViewTypeOK
    /\ part = "session" => TabTypeOK
    /\ part = "processes" => SupTypeOK
    /\ part = "packages" => ReleaseTypeOK
    /\ part = "encoder" => EncTypeOK
    /\ part = "slots" => GatesTypeOK
    /\ part = "limits" => LimitsTypeOK
    /\ part = "solutions" => CacheTypeOK
    /\ part = "profiles" => ReuseTypeOK

\* The browser and its way in: each card ends as its own turn did (TurnView), the socket is in the
\* session that the tab has adopted (TabSession), every slot at an address is that of a socket, and
\* sockets and requests stay under its ceilings (Gates).
WayInHolds == CardsHold /\ SocketFollowsStore /\ SlotsAreSockets /\ SocketCeiling /\ LimitsHold

\* What is looked up instead of asked for: vectors come of the encoder that the settings name
\* (Encoder), replayed code of a question near to this one in what it is asked in (CodeCache), and
\* what a session kept of its tables of these tables, this code and this target (Reuse).
LookupsHold == EncoderHolds /\ SolutionsHold /\ ReuseHolds
=============================================================================
