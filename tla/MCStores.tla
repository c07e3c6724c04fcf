------------------------------ MODULE MCStores ------------------------------
(***************************************************************************)
(* What the program keeps, for TLC: the results of requests, sessions,     *)
(* datasets and connections, a skill and the candidates for one, and       *)
(* models; and what it takes in: files, documents, the figures of an       *)
(* answer, and the lists of providers.  They share no state here, so a     *)
(* behaviour is one of them; the others stay in an initial state.          *)
(***************************************************************************)
EXTENDS IdempotentChat, Sessions, DataSources, Skills, Models, MCIntake, TLC

CONSTANTS up1, up2, sa, sb, sc, r3, r4, r5, k1, k2, s1, s2, ask, tell, third, pulled

\* Two identical requests, one with their key from another session, one with another key and message,
\* one without a key.
MCKeyOf == up1 :> k1 @@ up2 :> k1 @@ r3 :> k1 @@ r4 :> k2 @@ r5 :> NoKey
MCSessionOf == up1 :> s1 @@ up2 :> s1 @@ r3 :> s2 @@ r4 :> s2 @@ r5 :> s1
MCBodyOf == up1 :> ask @@ up2 :> ask @@ r3 :> ask @@ r4 :> tell @@ r5 :> ask

\* Two uploads of one table key, the raw frame of a cleaning pass, and an imported table.
MCTableKey == [n \in {up1, up2, third, pulled} |-> IF n \in {up1, up2} THEN "a" ELSE n]

\* Nothing tells apart the identical requests, the uploads of one key, the models, the threads, the
\* names of documents and the listings asked for, which are up1 and up2.
Symmetry == Permutations({up1, up2})

VARIABLE part  \* the one that runs

MCInit ==
    /\ ReplayInit /\ SessInit /\ DataInit /\ SkInit /\ PromInit /\ ModelsInit
    /\ LoadInit /\ DocInit /\ GroundInit /\ ListingsInit
    /\ part \in {"replies", "sessions", "data", "skills", "candidates", "models",
                 "tables", "documents", "answers", "lists"}
    /\ part = "skills" \/ skillFile["builtin"] = Absent
    /\ part = "tables" \/ upload.file = NoTable
    /\ part = "answers" \/ hasTable
    /\ part = "lists" \/ apiKey = NoApiKey

MCNext ==
    /\ UNCHANGED part
    /\ \/ part = "replies" /\ ReplayNext
       \/ part # "replies" /\ UNCHANGED replayVars
    /\ \/ part = "sessions" /\ SessNext
       \/ part # "sessions" /\ UNCHANGED sessVars
    /\ \/ part = "data" /\ DataNext
       \/ part # "data" /\ UNCHANGED dataVars
    /\ \/ part = "skills" /\ SkNext
       \/ part # "skills" /\ UNCHANGED skillVars
    /\ \/ part = "candidates" /\ PromNext
       \/ part # "candidates" /\ UNCHANGED promVars
    /\ \/ part = "models" /\ ModelsNext
       \/ part # "models" /\ UNCHANGED modelVars
    /\ \/ part = "tables" /\ LoadNext
       \/ part # "tables" /\ UNCHANGED loadVars
    /\ \/ part = "documents" /\ DocNext
       \/ part # "documents" /\ UNCHANGED docVars
    /\ \/ part = "answers" /\ GroundNext
       \/ part # "answers" /\ UNCHANGED groundVars
    /\ \/ part = "lists" /\ ListingsNext
       \/ part # "lists" /\ UNCHANGED listingVars

storeVars == <<replayVars, sessVars, dataVars, skillVars, promVars, modelVars>>
intakeVars == <<loadVars, docVars, groundVars, listingVars>>

MCSpec == MCInit /\ [][MCNext]_<<storeVars, intakeVars, part>>

\* Every variable of the one that runs keeps its type; the others stand still.
TypesHold ==
    /\ part = "replies" => ReplayTypeOK
    /\ part = "sessions" => SessTypeOK
    /\ part = "data" => DataTypeOK
    /\ part = "skills" => SkTypeOK
    /\ part = "candidates" => PromTypeOK
    /\ part = "models" => ModelsTypeOK

\* What comes in is accounted for and what is told of an answer is what it rests on; every variable of
\* the one that runs keeps its type.
IntakeHolds ==
    /\ part = "tables" => LoadTypeOK /\ LoadHolds
    /\ part = "documents" => DocTypeOK /\ DocumentsHold
    /\ part = "answers" => GroundTypeOK /\ GroundsHold
    /\ part = "lists" => ListingsTypeOK /\ ListsHold
=============================================================================
