------------------------------ MODULE Listings ------------------------------
(***************************************************************************)
(* What the picker of models is told (core/llm/registry.py ModelRegistry,  *)
(* as GET /api/models of api/routes/meta.py calls it on threads): a        *)
(* listing per provider, kept for CACHE_TTL_SECONDS, or for                *)
(* FAILURE_TTL_SECONDS when it is empty, the error of the last request of  *)
(* a provider, and a default for each role, beside a change of the key     *)
(* that a hosted provider asks for.                                        *)
(***************************************************************************)
EXTENDS Integers, Sequences, FiniteSets, SequencesExt

CONSTANTS
    Dialect,    \* how each provider is asked: "ollama", "lmstudio", "gemini", "anthropic", or a gateway without an endpoint, "unset"
    Served,     \* what each provider serves: its entries [name, usable, hints, type] in its order; names are numbers, by which they are sorted
    Pinned,     \* the configured model of each role, or NoModel
    Preferred,  \* preferred_defaults: of each provider, the names it would rather take
    NoModel,
    ApiKeys,    \* the keys a user may store
    Pages,      \* bound: requests under way at the same time
    MaxAsked,   \* bound: requests
    MaxKeyChanges \* bound: keys stored or deleted

ASSUME ListingsAssumption ==
    /\ MaxAsked \in Nat /\ MaxKeyChanges \in Nat
    /\ DOMAIN Served = DOMAIN Dialect /\ DOMAIN Preferred = DOMAIN Dialect

Providers == DOMAIN Dialect
Hosted == {p \in Providers : Dialect[p] \in {"gemini", "anthropic"}}
NoApiKey == "none"

VARIABLES
    lists,      \* _cache and _cached_at: the models, whether they are taken, the key they were asked with, and whether it was no longer the key
    faults,     \* _errors
    apiKey,     \* the stored key
    keyRoute,   \* the route that changes it
    page,       \* the requests of GET /api/models
    asked       \* how many there were, and how many changes of the key

listingVars == <<lists, faults, apiKey, keyRoute, page, asked>>

Roles == {"manager", "worker", "vision"}
ForRole == [role \in Roles |-> CASE role = "manager" -> "reasoning" [] role = "worker" -> "code" [] role = "vision" -> "vision"]
NoPage == [at |-> "idle", of |-> NoModel, force |-> FALSE, second |-> FALSE, slow |-> FALSE, key |-> NoApiKey,
           got |-> <<>>, models |-> <<>>, suggested |-> [role \in Roles |-> NoModel], error |-> "none"]

ListingsInit ==
    /\ lists = [p \in Providers |-> [models |-> <<>>, fresh |-> FALSE, key |-> NoApiKey, late |-> FALSE]]
    /\ faults = [p \in Providers |-> "none"]
    /\ apiKey \in ApiKeys \cup {NoApiKey} /\ keyRoute = "idle"
    /\ page = [g \in Pages |-> NoPage]
    /\ asked = [pages |-> 0, keys |-> 0]
-----------------------------------------------------------------------------
(* What a list holds.                                                       *)

\* classify: what the name tells of it.
Classified(e) ==
    IF "embed" \in e.hints THEN {"embedding"}
    ELSE {"chat"} \cup (IF e.hints = {} THEN {"general"} ELSE e.hints)

\* LMSTUDIO_TYPE_CAPABILITIES: what it is listed as comes before what its name tells.
Typed(e) ==
    LET more == Classified(e) \cap {"code", "reasoning"} IN
    CASE e.type = "llm" -> {"general", "chat"} \cup more
      [] e.type = "vlm" -> {"vision", "chat"} \cup more
      [] e.type = "embeddings" -> {"embedding"}
      [] OTHER -> Classified(e)

Model(name, can) == [name |-> name, can |-> can]
ByName(list) == SortSeq(list, LAMBDA a, b : a.name < b.name)
Every(entries, Can(_)) == [i \in DOMAIN entries |-> Model(entries[i].name, Can(entries[i]))]
Chats(entries) == SelectSeq(entries, LAMBDA e : e.usable)

\* Each name once, as where it is first: those that seem to converse.
Gateway(entries) ==
    LET once == FoldLeft(LAMBDA list, e : IF \E i \in DOMAIN list : list[i].name = e.name THEN list ELSE Append(list, e),
                         <<>>, Chats(entries))
    IN  ByName(Every(once, Classified))

Ollama(entries) == ByName(Every(entries, Classified))
LmStudio(entries) == ByName(Every(entries, Typed))
Anthropic(entries) == Reverse(ByName(Every(Chats(entries), Classified)))

\* Without an endpoint there is nothing to ask; what is pinned is listed.
PinnedModels == LET names == {Pinned[r] : r \in {"manager", "worker"}} \ {NoModel} IN
    [i \in 1..Cardinality(names) |-> Model(SetToSortSeq(names, <)[i], {"general", "chat"})]

Native(p) ==
    CASE Dialect[p] = "ollama" -> Ollama(Served[p])
      [] Dialect[p] = "lmstudio" -> LmStudio(Served[p])
      [] Dialect[p] = "anthropic" -> Anthropic(Served[p])
      [] Dialect[p] = "gemini" -> Gateway(Served[p])
      [] Dialect[p] = "unset" -> PinnedModels

\* What suggest picks from a list: the pinned model, one it would rather take, the first that is told
\* to be of that kind, the first.
Suggested(p, list) ==
    LET names == {list[i].name : i \in DOMAIN list}
        rather == SelectSeq(Preferred[p], LAMBDA name : name \in names)
        able(role) == SelectSeq(list, LAMBDA m : ForRole[role] \in m.can)
    IN  [role \in Roles |->
            IF Pinned[role] \in names THEN Pinned[role]
            ELSE IF rather # <<>> THEN Head(rather)
            ELSE IF able(role) # <<>> THEN Head(able(role)).name
            ELSE IF list # <<>> THEN Head(list).name ELSE NoModel]
-----------------------------------------------------------------------------
(* A request: the list, then a suggestion, which lists once more.           *)

AskPage(g, p, force) ==
    /\ page[g].at \in {"idle", "answered"} /\ asked.pages < MaxAsked
    /\ page' = [page EXCEPT ![g] = [NoPage EXCEPT !.at = "look", !.of = p, !.force = force]]
    /\ asked' = [asked EXCEPT !.pages = @ + 1]
    /\ UNCHANGED <<lists, faults, apiKey, keyRoute>>

\* What a request goes on with when a listing has returned.
Given(r, models) ==
    IF r.second THEN [NoPage EXCEPT !.at = "reply", !.of = r.of, !.models = r.models, !.suggested = Suggested(r.of, models)]
    ELSE [NoPage EXCEPT !.at = "look", !.of = r.of, !.second = TRUE, !.models = models]

\* A list that is fresh is taken.
TakeCached(g) ==
    /\ page[g].at = "look" /\ ~page[g].force /\ lists[page[g].of].fresh
    /\ page' = [page EXCEPT ![g] = Given(page[g], lists[page[g].of].models)]
    /\ UNCHANGED <<lists, faults, apiKey, keyRoute, asked>>

\* Otherwise the provider is asked, if there is an endpoint and the key it asks for.
AskProvider(g) ==
    LET p == page[g].of
        missing == IF Dialect[p] = "unset" THEN "no endpoint" ELSE IF p \in Hosted /\ apiKey = NoApiKey THEN "no key" ELSE "none"
    IN  /\ page[g].at = "look" /\ (page[g].force \/ ~lists[p].fresh)
        /\ faults' = IF missing = "none" THEN faults ELSE [faults EXCEPT ![p] = missing]
        /\ page' = [page EXCEPT ![g] =
                       [@ EXCEPT !.key = IF p \in Hosted THEN apiKey ELSE NoApiKey,
                                 !.at = IF missing = "none" THEN "probe" ELSE "store",
                                 !.got = IF missing = "no endpoint" THEN PinnedModels ELSE <<>>]]
        /\ UNCHANGED <<lists, apiKey, keyRoute, asked>>

\* _get_json: it answers, or refuses, or says nothing for the five seconds of its limit.
Probe(g) ==
    LET p == page[g].of IN
    /\ page[g].at = "probe"
    /\ \/ /\ faults' = [faults EXCEPT ![p] = "none"]
          /\ page' = [page EXCEPT ![g] = [@ EXCEPT !.at = "store", !.got = Native(p)]]
       \/ /\ faults' = [faults EXCEPT ![p] = "unreachable"]
          /\ \E limit \in BOOLEAN :
                page' = [page EXCEPT ![g] = [@ EXCEPT !.at = IF Dialect[p] = "lmstudio" THEN "fallback" ELSE "store",
                                                      !.slow = limit]]
    /\ UNCHANGED <<lists, apiKey, keyRoute, asked>>

\* LM Studio may be something else, so the other route is tried; with nothing there, the first error is
\* told, which is put back as soon as the second request is over.
ProbeGateway(g) ==
    LET p == page[g].of
        other == Gateway(Served[p])
    IN  /\ page[g].at = "fallback"
        /\ \/ /\ faults' = [faults EXCEPT ![p] = IF other = <<>> THEN "unreachable" ELSE "none"]
              /\ page' = [page EXCEPT ![g].at = "store", ![g].got = other]
           \/ /\ faults' = [faults EXCEPT ![p] = "unreachable"]
              /\ \E limit \in BOOLEAN :
                    page' = [page EXCEPT ![g].at = "store", ![g].slow = @ \/ limit]
        /\ UNCHANGED <<lists, apiKey, keyRoute, asked>>

\* The time of a listing is that before it was asked for: an empty one that took the five seconds has
\* had its FAILURE_TTL_SECONDS, while CACHE_TTL_SECONDS are longer.
Stored(r) == [models |-> r.got, fresh |-> ~(r.slow /\ r.got = <<>>), key |-> r.key, late |-> r.of \in Hosted /\ r.key # apiKey]

\* Faulty variant: one list for all of them.
StoreListingForAll(g) ==
    /\ page[g].at = "store"
    /\ lists' = [p \in Providers |-> Stored(page[g])]
    /\ page' = [page EXCEPT ![g] = Given(page[g], page[g].got)]
    /\ UNCHANGED <<faults, apiKey, keyRoute, asked>>

\* The list is kept for its provider alone.
StoreListing(g) ==
    /\ page[g].at = "store"
    /\ lists' = [lists EXCEPT ![page[g].of] = Stored(page[g])]
    /\ page' = [page EXCEPT ![g] = Given(page[g], page[g].got)]
    /\ UNCHANGED <<faults, apiKey, keyRoute, asked>>

\* The error is that of the provider now, and is told when the list was empty.
Reply(g) ==
    /\ page[g].at = "reply"
    /\ page' = [page EXCEPT ![g] =
                   [NoPage EXCEPT !.at = "answered", !.of = page[g].of, !.suggested = page[g].suggested,
                                  !.error = IF page[g].models = <<>> THEN faults[page[g].of] ELSE "none"]]
    /\ UNCHANGED <<lists, faults, apiKey, keyRoute, asked>>

ListExpires(p) ==
    /\ lists[p].fresh
    /\ lists' = [lists EXCEPT ![p].fresh = FALSE]
    /\ UNCHANGED <<faults, apiKey, keyRoute, page, asked>>

\* A key is stored or deleted on a thread; then the lists that it opened are dropped.
ChangeKey(key) ==
    /\ keyRoute = "idle" /\ asked.keys < MaxKeyChanges /\ key # apiKey
    /\ apiKey' = key /\ keyRoute' = "changed"
    /\ asked' = [asked EXCEPT !.keys = @ + 1]
    /\ UNCHANGED <<lists, faults, page>>
InvalidateLists ==
    /\ keyRoute = "changed"
    /\ keyRoute' = "idle"
    /\ lists' = [p \in Providers |-> IF p \in Hosted THEN [lists[p] EXCEPT !.fresh = FALSE] ELSE lists[p]]
    /\ UNCHANGED <<faults, apiKey, page, asked>>

ListingsNext ==
    \/ \E g \in Pages :
          \/ \E p \in Providers, force \in BOOLEAN : AskPage(g, p, force)
          \/ TakeCached(g) \/ AskProvider(g) \/ Probe(g) \/ ProbeGateway(g)
          \/ StoreListing(g) \/ Reply(g)
    \/ \E p \in Providers : ListExpires(p)
    \/ \E key \in ApiKeys \cup {NoApiKey} : ChangeKey(key)
    \/ InvalidateLists

ListingsSpec == ListingsInit /\ [][ListingsNext]_listingVars
-----------------------------------------------------------------------------
(* Properties.                                                              *)

CanList(p) == {<<>>, Native(p)} \cup (IF Dialect[p] = "lmstudio" THEN {Gateway(Served[p])} ELSE {})
NamesOf(list) == {list[i].name : i \in DOMAIN list}

ListingsTypeOK ==
    /\ \A p \in Providers : lists[p].fresh \in BOOLEAN /\ lists[p].key \in ApiKeys \cup {NoApiKey} /\ lists[p].late \in BOOLEAN
    /\ \A p \in Providers : faults[p] \in {"none", "unreachable", "no key", "no endpoint"}
    /\ apiKey \in ApiKeys \cup {NoApiKey} /\ keyRoute \in {"idle", "changed"}
    /\ \A g \in Pages : page[g].at # "idle" => page[g].of \in Providers /\ page[g].slow \in BOOLEAN
    /\ asked.pages \in 0..MaxAsked /\ asked.keys \in 0..MaxKeyChanges

\* A session that has its roles on several backends is told the list of each: what is kept, and what a
\* request is given, is what that provider lists in one of its dialects.
ListsAreOwn ==
    /\ \A p \in Providers : lists[p].models \in CanList(p)
    /\ \A g \in Pages : page[g].at # "idle" => page[g].models \in CanList(page[g].of)

\* What is suggested is in it, even where what is pinned is of another provider.
SuggestionsAreListed ==
    \A g \in Pages : page[g].at # "idle" =>
        \A role \in Roles : page[g].suggested[role] \in {NoModel} \cup UNION {NamesOf(list) : list \in CanList(page[g].of)}

\* Once the route that changes a key is done, a list that is still taken was asked for with that key,
\* but for the one of a request that was on its way to the provider meanwhile.
ListsFollowTheKey ==
    \A p \in Hosted : keyRoute = "idle" /\ lists[p].fresh /\ ~lists[p].late => lists[p].key = apiKey

ListsHold == ListsAreOwn /\ SuggestionsAreListed /\ ListsFollowTheKey
=============================================================================
