------------------------------ MODULE Secrets ------------------------------
(***************************************************************************)
(* Keys, connections and settings on disk: credentials.json                *)
(* (core/credentials.py), connections.json (core/connectors/store.py) and  *)
(* backend/.env (api/routes/meta.py).                                      *)
(*                                                                         *)
(* The event loop changes connections and settings without a wait; beside  *)
(* it a thread of the routes that store a provider's key changes the same  *)
(* credentials file.  Every change reads its file, and writes it again as  *)
(* a whole and in place: what a write that fails or is cut off leaves is   *)
(* read as an empty file.  One key of a provider is followed, with the     *)
(* connections, which keep their secrets in the same file under their id.  *)
(***************************************************************************)
EXTENDS Naturals, FiniteSets

CONSTANTS
    Links,      \* connections, by id
    Secretives, \* the secrets and keys that are typed
    MaxEdits,   \* bound: operations
    MaxMishaps  \* bound: reads, writes and restrictions that fail, and crashes

ASSUME SecretsAssumption == {MaxEdits, MaxMishaps} \subseteq Nat /\ "key" \notin Links

Names == Links \cup {"key"}  \* the keyspace of the credentials file
Absent == "absent"
Authors == {"loop", "thread"}

VARIABLES
    creds,     \* credentials.json
    private,   \* only its owner may read it
    links,     \* connections.json
    dotenv,    \* the key in backend/.env
    inForce,   \* the key in settings
    credCache, \* CredentialStore._cache
    linkCache, \* ConnectionStore._cache
    holder,    \* who has CredentialStore._lock
    author,    \* per author: the change it is in
    edits, mishaps,
    promised,  \* history: what the last change of a name that was reported done has left
    spoiled    \* history: what a failure or a crash has broken

secretVars == <<creds, private, links, dotenv, inForce, credCache, linkCache, holder, author, edits, mishaps, promised, spoiled>>
fileVars == <<creds, private, links, dotenv>>

NoCache == [known |-> FALSE, keys |-> [n \in Names |-> Absent]]
Cached(stored) == [known |-> TRUE, keys |-> stored]
Resting == [at |-> "rest", name |-> "key", value |-> Absent, read |-> [n \in Names |-> Absent], then |-> "rest"]

SecretsTypeOK ==
    /\ creds \in [Names -> Secretives \cup {Absent}] /\ private \in BOOLEAN
    /\ links \subseteq Links
    /\ {dotenv, inForce} \subseteq Secretives \cup {Absent}
    /\ holder \in Authors \cup {"none"}
    /\ \A a \in Authors : author[a].at \in {"rest", "lock", "open", "write", "env"}
    /\ spoiled \subseteq {"creds", "links", "env", "pair", "mode"}

SecretsInit ==
    /\ creds = [n \in Names |-> Absent] /\ private = FALSE
    /\ links = {} /\ dotenv = Absent /\ inForce = Absent
    /\ credCache = NoCache /\ linkCache = NoCache
    /\ holder = "none"
    /\ author = [a \in Authors |-> Resting]
    /\ edits = 0 /\ mishaps = 0
    /\ promised = [n \in Names |-> Absent] /\ spoiled = {}

Mishap(what) == mishaps < MaxMishaps /\ mishaps' = mishaps + 1 /\ spoiled' = spoiled \cup {what}
NoMishap == UNCHANGED <<mishaps, spoiled>>
NewEdit(a) == author[a] = Resting /\ edits < MaxEdits /\ edits' = edits + 1
Rests(a) == author' = [author EXCEPT ![a] = Resting]
Change(name, value, then) == [Resting EXCEPT !.at = "lock", !.name = name, !.value = value, !.then = then]

-----------------------------------------------------------------------------
(* The credentials file, by whoever changes it. *)

\* `with self._lock`.
HasLock(a) == holder = "none"

\* set and delete begin with the file, and not with the cache.
ReadCreds(a) ==
    /\ author[a].at = "lock" /\ HasLock(a)
    /\ \/ NoMishap /\ author' = [author EXCEPT ![a].at = "open", ![a].read = creds]
       \/ Mishap("creds") /\ author' = [author EXCEPT ![a].at = "open"]  \* it could not be read
    /\ holder' = a
    /\ UNCHANGED <<fileVars, inForce, credCache, linkCache, edits, promised>>

NothingToDelete(a) == author[a].value = Absent /\ author[a].read[author[a].name] = Absent

\* _write: the file is there and restricted before anything secret is in it.
OpenCreds(a) ==
    /\ author[a].at = "open" /\ ~NothingToDelete(a)
    /\ author' = [author EXCEPT ![a].at = "write"]
    /\ \/ NoMishap /\ private' = TRUE
       \/ Mishap("mode") /\ UNCHANGED private
    /\ UNCHANGED <<creds, links, dotenv, inForce, credCache, linkCache, holder, edits, promised>>

AfterCreds(a) == author' = [author EXCEPT ![a] = IF @.then = "env" THEN [@ EXCEPT !.at = "env"] ELSE Resting]

LeaveUnchanged(a) ==
    /\ author[a].at = "open" /\ NothingToDelete(a)
    /\ credCache' = Cached(author[a].read)
    /\ promised' = [promised EXCEPT ![author[a].name] = Absent]
    /\ holder' = "none" /\ AfterCreds(a)
    /\ UNCHANGED <<fileVars, inForce, linkCache, edits, mishaps, spoiled>>

\* A failed write returns False, and the cache keeps what it was; the file may be cut off.
WriteCreds(a) ==
    /\ author[a].at = "write"
    /\ LET stored == [author[a].read EXCEPT ![author[a].name] = author[a].value] IN
       \/ /\ NoMishap
          /\ creds' = stored /\ credCache' = Cached(stored)
          /\ promised' = [promised EXCEPT ![author[a].name] = author[a].value]
       \/ /\ Mishap("creds")
          /\ creds' \in {creds, [n \in Names |-> Absent]}
          /\ UNCHANGED <<credCache, promised>>
    /\ holder' = "none" /\ AfterCreds(a)
    /\ UNCHANGED <<private, links, dotenv, inForce, linkCache, edits>>

\* get, has, hint and names.  A file that cannot be read counts as no keys, and is cached so.
LoadCreds ==
    /\ holder = "none" /\ ~credCache.known
    /\ \/ NoMishap /\ credCache' = Cached(creds)
       \/ Mishap("creds") /\ credCache' = Cached([n \in Names |-> Absent])
    /\ UNCHANGED <<fileVars, inForce, linkCache, holder, author, edits, promised>>

-----------------------------------------------------------------------------
(* Connections. *)

LinkCached(ids) == Cached([n \in Names |-> IF n \in ids THEN "saved" ELSE Absent])

\* ConnectionStore.save, for a new connection or an edit of one.  Its secret follows: the one that
\* was typed, none, or the one there was.
SaveLink(l, secret) ==
    /\ NewEdit("loop")
    /\ \/ \E read \in {links, {}} :  \* {}: it could not be read
              /\ IF read = links THEN NoMishap ELSE Mishap("links")
              /\ links' = read \cup {l} /\ linkCache' = LinkCached(read \cup {l})
              /\ author' = [author EXCEPT !["loop"] = IF secret = "kept" THEN Resting ELSE Change(l, secret, "rest")]
       \/ /\ Mishap("links")
          /\ links' \in {links, {}}
          /\ UNCHANGED <<linkCache, author>>
    /\ UNCHANGED <<creds, private, dotenv, inForce, credCache, holder, promised>>

\* ConnectionStore.delete.
DeleteLink(l) ==
    /\ l \in links /\ NewEdit("loop")
    /\ \/ \E read \in {links, {}} :
              IF read = links
              THEN /\ NoMishap
                   /\ links' = links \ {l} /\ linkCache' = LinkCached(links \ {l})
                   /\ author' = [author EXCEPT !["loop"] = Change(l, Absent, "rest")]
              ELSE Mishap("links") /\ linkCache' = LinkCached({}) /\ UNCHANGED <<links, author>>
       \/ /\ Mishap("links")
          /\ links' \in {links, {}}
          /\ UNCHANGED <<linkCache, author>>
    /\ UNCHANGED <<creds, private, dotenv, inForce, credCache, holder, promised>>

LoadLinks ==
    /\ ~linkCache.known /\ author["loop"] = Resting
    /\ \/ NoMishap /\ linkCache' = LinkCached(links)
       \/ Mishap("links") /\ linkCache' = LinkCached({})
    /\ UNCHANGED <<fileVars, inForce, credCache, holder, author, edits, promised>>

-----------------------------------------------------------------------------
(* The key of a provider. *)

\* PUT and DELETE of a provider's credentials, on a thread.
StoreProviderKey(value) ==
    /\ NewEdit("thread")
    /\ author' = [author EXCEPT !["thread"] = Change("key", value, "rest")]
    /\ UNCHANGED <<fileVars, inForce, credCache, linkCache, holder, mishaps, promised, spoiled>>

\* PATCH /api/config sets the running value and the credentials, and at its end .env.
PatchSetting(value) ==
    /\ NewEdit("loop")
    /\ inForce' = value
    /\ author' = [author EXCEPT !["loop"] = Change("key", value, "env")]
    /\ UNCHANGED <<fileVars, credCache, linkCache, holder, mishaps, promised, spoiled>>

\* _persist_env_file: every line but the changed one is written as it was, and a failure is logged.
PersistEnv ==
    /\ author["loop"].at = "env"
    /\ \/ NoMishap /\ dotenv' = author["loop"].value
       \/ Mishap("env") /\ dotenv' \in {dotenv, Absent}
    /\ Rests("loop")
    /\ UNCHANGED <<creds, private, links, inForce, credCache, linkCache, holder, edits, promised>>

\* The server is killed and started again: its settings are those of .env.  A write that was
\* under way may be cut off.
Restarts ==
    /\ mishaps < MaxMishaps /\ mishaps' = mishaps + 1
    /\ LET writing == \E a \in Authors : author[a].at = "write" IN
       /\ creds' \in {creds} \cup (IF writing THEN {[n \in Names |-> Absent]} ELSE {})
       /\ dotenv' \in {dotenv} \cup (IF author["loop"].at = "env" THEN {Absent} ELSE {})
       /\ spoiled' = spoiled \cup (IF \E a \in Authors : author[a] # Resting THEN {"pair", "env"} ELSE {})
                             \cup (IF writing THEN {"creds"} ELSE {})
    /\ inForce' = dotenv'
    /\ credCache' = NoCache /\ linkCache' = NoCache /\ holder' = "none"
    /\ author' = [a \in Authors |-> Resting]
    /\ UNCHANGED <<private, links, edits, promised>>

SecretsNext ==
    \/ \E a \in Authors : ReadCreds(a) \/ OpenCreds(a) \/ LeaveUnchanged(a) \/ WriteCreds(a)
    \/ LoadCreds \/ LoadLinks
    \/ \E l \in Links : DeleteLink(l) \/ \E secret \in Secretives \cup {Absent, "kept"} : SaveLink(l, secret)
    \/ \E value \in Secretives \cup {Absent} : StoreProviderKey(value)
    \/ \E value \in Secretives : PatchSetting(value)
    \/ PersistEnv \/ Restarts

-----------------------------------------------------------------------------
(* Properties. *)

InHand(name) == \E a \in Authors : author[a].at # "rest" /\ author[a].name = name

\* A secret that is stored belongs to a connection the user can see, but for the moment in which
\* it is deleted: "both halves together" (store.py:146-165), as far as no write fails and no crash
\* comes between them.
NoOrphanSecret ==
    spoiled = {} => \A l \in Links : creds[l] # Absent => l \in links \/ InHand(l)

\* What was reported as stored or removed is so until the next change of that name, whatever the
\* other author stores meanwhile (credentials.py:122-148).
KeysAreKept ==
    "creds" \notin spoiled => \A n \in Names : creds[n] = promised[n]

\* What a request is told of the stored keys and connections is what the files have
\* (credentials.py:59-72, store.py:50-56).
CachesAreFiles ==
    /\ credCache.known /\ "creds" \notin spoiled /\ holder = "none" => credCache.keys = creds
    /\ linkCache.known /\ "links" \notin spoiled => linkCache = LinkCached(links)

\* Nobody else may read the file while a secret is in it (credentials.py:88-98).
SecretsArePrivate == "mode" \notin spoiled /\ (\E n \in Names : creds[n] # Absent) => private

\* A restart changes no setting that a request has changed and answered (meta.py:339-380).
PatchOutlivesRestart == "env" \notin spoiled /\ author["loop"] = Resting => inForce = dotenv

SecretsHold == NoOrphanSecret /\ KeysAreKept /\ CachesAreFiles /\ SecretsArePrivate /\ PatchOutlivesRestart
=============================================================================
