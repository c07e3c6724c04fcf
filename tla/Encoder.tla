------------------------------ MODULE Encoder ------------------------------
(***************************************************************************)
(* EmbeddingService (core/embeddings.py): which encoder makes the vectors  *)
(* of retrieval, while threads ask for them at once, a warm-up looks for   *)
(* one in the background, providers come and go and the settings change.   *)
(* A provider's encoder is tried first, then a local model, and what needs *)
(* neither is always there.  How long a failure keeps a provider from      *)
(* being asked again is a window that ends at some time.                   *)
(***************************************************************************)
EXTENDS Naturals

CONSTANTS
    Queries,    \* threads that encode
    MaxChanges  \* bound: outages, recoveries and changes of the settings

Providers == {"near", "far"}  \* a local model server and a provider in the cloud
Follows == "follows"  \* no provider of its own for embeddings: that of the models
Modes == {"local-only", "hybrid"}  \* "cloud-only" turns the two providers around
NoRemote == "none"
Warmer == "warm-up"
Unlocked == "free"

Asking == Queries \cup {Warmer}

ASSUME EncoderAssumption == MaxChanges \in Nat /\ {Warmer, Unlocked} \cap Queries = {}

VARIABLES
    wanted,   \* settings: the provider for embeddings and that of the models, the data mode,
              \* whether providers embed at all
    serving,  \* the providers that answer with vectors
    usable,   \* a local model can be loaded
    remote, checked,  \* _remote, _remote_checked
    window,   \* the last failure is too recent to ask a provider again
    local, loadFailed,  \* _model is there; _load_failed
    warming, warmed,
    encLock,
    doing,       \* where each thread is
    using,    \* the provider's encoder a call holds
    stale,    \* history: the provider that is followed changed under the encoder
    overtaken,  \* history: the settings changed while a provider was asked
    changes

encVars == <<wanted, serving, usable, remote, checked, window, local, loadFailed, warming, warmed, encLock, doing, using, stale, overtaken, changes>>

settingsVars == <<wanted, serving, usable, overtaken, changes>>
warmVars == <<warming, warmed>>
remoteVars == <<remote, checked, window, stale>>
localVars == <<local, loadFailed>>

EncTypeOK ==
    /\ wanted \in [embedding : Providers \cup {Follows}, api : Providers, mode : Modes, enabled : BOOLEAN]
    /\ serving \subseteq Providers
    /\ remote \in Providers \cup {NoRemote}
    /\ {usable, stale, overtaken, checked, window, local, loadFailed, warming, warmed} \subseteq BOOLEAN
    /\ encLock \in Asking \cup {Unlocked}
    /\ doing \in [Asking -> {"idle", "begin", "remote", "remote-lock", "probe", "call", "model", "model-lock", "load", "encode"}]
    /\ using \in [Asking -> Providers \cup {NoRemote}]
    /\ changes \in 0..MaxChanges

\* resolve_provider: who is to embed.
Named(settings) == IF settings.embedding = Follows THEN settings.api ELSE settings.embedding
Wanted == Named(wanted)

\* allows_provider.
Allows(mode, p) == mode = "local-only" => p = "near"

EncInit ==
    /\ wanted \in {w \in [embedding : Providers \cup {Follows}, api : Providers, mode : Modes, enabled : {TRUE}] : Allows(w.mode, Named(w))}
    /\ serving \in SUBSET {Wanted} /\ usable \in BOOLEAN
    /\ remote = NoRemote /\ checked = FALSE /\ window = FALSE /\ local = FALSE /\ loadFailed = FALSE
    \* the start of the server begins the warm-up before it takes requests, or
    \* leaves it to a change of the settings
    /\ warming \in BOOLEAN /\ warmed = FALSE
    /\ encLock = Unlocked
    /\ doing = [t \in Asking |-> IF t = Warmer /\ warming THEN "remote" ELSE "idle"]
    /\ using = [t \in Asking |-> NoRemote]
    /\ stale = FALSE /\ overtaken = FALSE /\ changes = 0

----------------------------------------------------------------------------
\* Where a thread goes.

Goes(t, to) == doing' = [doing EXCEPT ![t] = to]

\* With a provider's encoder a warm-up is over and a call uses it.
WithRemote(t, p) ==
    IF t = Warmer
    THEN /\ Goes(t, "idle") /\ warming' = FALSE /\ warmed' = TRUE /\ UNCHANGED using
    ELSE /\ Goes(t, "call") /\ using' = [using EXCEPT ![t] = p] /\ UNCHANGED warmVars

WithoutRemote(t) == Goes(t, "model") /\ UNCHANGED <<using, warming, warmed>>

\* A local model that is there encodes; what needs none is instant.
WithLocal(t, there) ==
    IF t = Warmer
    THEN Goes(t, "idle") /\ warming' = FALSE /\ warmed' = TRUE
    ELSE Goes(t, IF there THEN "encode" ELSE "idle") /\ UNCHANGED warmVars

\* encode_many while the warm-up has found nothing yet: hashed, and done.
Falls == warming /\ remote = NoRemote /\ ~local

AskVectors(t) ==
    /\ t \in Queries /\ doing[t] = "idle" /\ ~Falls
    /\ Goes(t, "remote")
    /\ UNCHANGED <<settingsVars, remoteVars, localVars, warmVars, encLock, using>>

----------------------------------------------------------------------------
\* _get_remote.

CheckRemote(t) ==
    /\ doing[t] = "remote"
    /\ CASE ~wanted.enabled -> WithoutRemote(t)
         [] wanted.enabled /\ remote # NoRemote -> WithRemote(t, remote)
         [] wanted.enabled /\ remote = NoRemote /\ checked /\ window -> WithoutRemote(t)
         [] OTHER -> Goes(t, "remote-lock") /\ UNCHANGED <<using, warming, warmed>>
    /\ UNCHANGED <<settingsVars, remoteVars, localVars, encLock>>

\* With the lock: the settings choose the provider that is asked.
LockRemote(t) ==
    /\ doing[t] = "remote-lock" /\ encLock = Unlocked
    /\ IF remote # NoRemote
       THEN WithRemote(t, remote) /\ UNCHANGED <<remoteVars, encLock>>
       ELSE IF Allows(wanted.mode, Wanted)
       THEN /\ Goes(t, "probe") /\ encLock' = t /\ checked' = TRUE
            /\ using' = [using EXCEPT ![t] = Wanted]
            /\ UNCHANGED <<remote, window, stale, warmVars>>
       ELSE /\ Goes(t, "model") /\ checked' = TRUE /\ window' = TRUE
            /\ UNCHANGED <<remote, stale, encLock, using, warmVars>>
    /\ UNCHANGED <<settingsVars, localVars>>

\* The probe's answer, or its timeout: an encoder that answers is adopted.
Probe(t) ==
    /\ doing[t] = "probe" /\ encLock' = Unlocked
    /\ IF using[t] \in serving
       THEN remote' = using[t] /\ stale' = FALSE /\ WithRemote(t, using[t]) /\ UNCHANGED window
       ELSE /\ Goes(t, "model") /\ using' = [using EXCEPT ![t] = NoRemote] /\ window' = TRUE
            /\ UNCHANGED <<remote, stale, warmVars>>
    /\ UNCHANGED <<settingsVars, checked, localVars>>

\* The vectors; or an encoder that just failed is given up for a while.
CallRemote(t) ==
    /\ doing[t] = "call"
    /\ using' = [using EXCEPT ![t] = NoRemote]
    /\ IF using[t] \in serving
       THEN Goes(t, "idle") /\ UNCHANGED remoteVars
       ELSE Goes(t, "model") /\ remote' = NoRemote /\ checked' = TRUE /\ window' = TRUE /\ stale' = FALSE
    /\ UNCHANGED <<settingsVars, localVars, warmVars, encLock>>

----------------------------------------------------------------------------
\* _get_model, and what it encodes.

CheckLocal(t) ==
    /\ doing[t] = "model"
    /\ IF local \/ loadFailed THEN WithLocal(t, local) ELSE Goes(t, "model-lock") /\ UNCHANGED warmVars
    /\ UNCHANGED <<settingsVars, remoteVars, localVars, encLock, using>>

LockLocal(t) ==
    /\ doing[t] = "model-lock" /\ encLock = Unlocked
    /\ IF local \/ loadFailed
       THEN WithLocal(t, local) /\ UNCHANGED encLock
       ELSE Goes(t, "load") /\ encLock' = t /\ UNCHANGED warmVars
    /\ UNCHANGED <<settingsVars, remoteVars, localVars, using>>

Load(t) ==
    /\ doing[t] = "load" /\ encLock' = Unlocked
    /\ local' = usable /\ loadFailed' = ~usable
    /\ WithLocal(t, usable)
    /\ UNCHANGED <<settingsVars, remoteVars, using>>

\* A model that is loaded but cannot encode is never called again.
EncodeLocal(t) ==
    /\ doing[t] = "encode"
    /\ Goes(t, "idle")
    /\ \/ UNCHANGED localVars
       \/ local' = FALSE /\ loadFailed' = TRUE
    /\ UNCHANGED <<settingsVars, remoteVars, warmVars, encLock, using>>

----------------------------------------------------------------------------
\* The environment.

WindowEnds ==
    /\ window /\ window' = FALSE
    /\ UNCHANGED <<settingsVars, remote, checked, stale, localVars, warmVars, encLock, doing, using>>

Changes == changes < MaxChanges /\ changes' = changes + 1

\* A provider stops or begins to answer.
Outage ==
    /\ Changes
    /\ \E p \in Providers : serving' = (serving \ {p}) \cup ({p} \ serving)
    /\ UNCHANGED <<wanted, usable, overtaken, remoteVars, localVars, warmVars, encLock, doing, using>>

\* Faulty variant: the encoder stays.
ReconfigureKeeping ==
    /\ Changes
    /\ \E p \in Providers \cup {Follows}, e \in BOOLEAN : wanted' = [wanted EXCEPT !.embedding = p, !.enabled = e]
    /\ checked' = FALSE
    /\ IF warming \/ warmed THEN UNCHANGED doing ELSE Goes(Warmer, "begin")
    /\ overtaken' = (overtaken \/ \E t \in Asking : doing[t] = "probe")
    /\ UNCHANGED <<serving, usable, remote, window, stale, localVars, warmVars, encLock, using>>

\* update_server_config: another provider for embeddings, that of the models, or none.  The encoder
\* is dropped, and a warm-up asked for; where one runs or is over it returns.
Reconfigure ==
    /\ Changes
    /\ \E p \in Providers \cup {Follows}, e \in BOOLEAN : wanted' = [wanted EXCEPT !.embedding = p, !.enabled = e]
    /\ remote' = NoRemote /\ checked' = FALSE /\ stale' = FALSE
    /\ IF warming \/ warmed THEN UNCHANGED doing ELSE Goes(Warmer, "begin")
    /\ overtaken' = (overtaken \/ \E t \in Asking : doing[t] = "probe")
    /\ UNCHANGED <<serving, usable, window, localVars, warmVars, encLock, using>>

\* update_server_config: another provider for the models.  The encoder stays,
\* and with it that of the provider that was followed before.
SwitchProvider ==
    /\ Changes
    /\ \E p \in Providers : wanted' = [wanted EXCEPT !.api = p]
    /\ stale' = (stale \/ (wanted.embedding = Follows /\ remote # NoRemote /\ Wanted' # Wanted))
    /\ overtaken' = (overtaken \/ (Wanted' # Wanted /\ \E t \in Asking : doing[t] = "probe"))
    /\ UNCHANGED <<serving, usable, remote, checked, window, localVars, warmVars, encLock, doing, using>>

\* warm, which waits for the lock on the thread of the server.
BeginWarm ==
    /\ doing[Warmer] = "begin" /\ encLock = Unlocked
    /\ Goes(Warmer, "remote") /\ warming' = TRUE
    /\ UNCHANGED <<settingsVars, remoteVars, localVars, warmed, encLock, using>>

\* set_data_mode: the encoder stays.
SwitchMode ==
    /\ Changes
    /\ \E mode \in Modes : wanted' = [wanted EXCEPT !.mode = mode]
    /\ UNCHANGED <<serving, usable, overtaken, remoteVars, localVars, warmVars, encLock, doing, using>>

Step(t) ==
    \/ CheckRemote(t) \/ LockRemote(t) \/ Probe(t) \/ CallRemote(t)
    \/ CheckLocal(t) \/ LockLocal(t) \/ Load(t) \/ EncodeLocal(t)

EncNext ==
    \/ \E t \in Queries : AskVectors(t) /\ UNCHANGED changes
    \/ \E t \in Asking : Step(t)
    \/ BeginWarm \/ WindowEnds \/ Outage \/ Reconfigure \/ SwitchProvider \/ SwitchMode

EncSpec == EncInit /\ [][EncNext]_encVars

----------------------------------------------------------------------------
\* Properties.

\* The lock is held by a thread that asks a provider or loads the model, by no
\* other and for no longer: nobody stands in line for a thread that went on.
LockIsInUse == \A t \in Asking : encLock = t <=> doing[t] \in {"probe", "load"}

\* The warm-up comes to its end with a thread at work on it, and calls are not
\* hashed for ever.
WarmUpIsUnderWay == (warming <=> doing[Warmer] \notin {"idle", "begin"}) /\ ~(warming /\ warmed)

\* The encoder is one of the provider the settings name, whatever was adopted
\* under other settings, but for two ways in which it is kept (findings): these
\* changed while it was asked, or it follows the provider of the models and that
\* changed since.
EncoderIsCurrent ==
    remote # NoRemote /\ ~overtaken => remote = Wanted \/ (stale /\ wanted.embedding = Follows)

\* Threads, the warm-up and the settings agree about the encoder.
EncoderHolds == LockIsInUse /\ WarmUpIsUnderWay /\ EncoderIsCurrent

\* "Empty follows API_PROVIDER" (config.py, EMBEDDING_PROVIDER): where it does,
\* an encoder that nobody asked for meanwhile is of that provider.
EncoderFollows == wanted.embedding = Follows /\ remote # NoRemote /\ ~overtaken => remote = wanted.api

\* "Nothing is sent anywhere" in this mode (data_mode.py, describe_mode).
NothingIsSent == wanted.mode = "local-only" => \A t \in Queries : doing[t] = "call" => using[t] = "near"
=============================================================================
