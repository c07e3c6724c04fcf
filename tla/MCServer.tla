------------------------------ MODULE MCServer ------------------------------
(***************************************************************************)
(* The turns of the server, and what is beside them, for TLC: what a turn  *)
(* costs, which model it asks, which of them this machine holds, how much  *)
(* a call may produce and what its prompts contain, what a turn leaves in  *)
(* the database and on disk, and where its code runs.  They share no state *)
(* here, so a behaviour is one of them; the others stay in an initial      *)
(* state.                                                                  *)
(***************************************************************************)
EXTENDS ChatTurns, ModelAccess, History, Isolation, Secrets, Disclosure, Residency

VARIABLE part  \* the one that runs

\* Three models of which a large and the small one fit together, and two large ones do not.
MCWeights == [n \in {"a", "b", "c"} |-> IF n = "c" THEN 1 ELSE 2]

\* What the parts that stand still are left in.
Unasked == [manager |-> "a", worker |-> "a", vision |-> NoModel, embedding |-> NoModel]
Blank == [ram |-> NotSet, limit |-> NotSet, sessions |-> NotSet]
Terse == [purpose |-> "plan", budget |-> 40, ceiling |-> 32, deep |-> FALSE, direct |-> FALSE, override |-> NotSet]

MCInit ==
    /\ part \in {"turns", "spending", "models", "rows", "cells", "files", "prompts", "memory", "sizes"}
    /\ Init /\ SpendInit
    /\ AccessInit
    /\ part = "models" \/ (dataMode = "hybrid" /\ fallback = "here")
    /\ HistoryInit /\ IsolationInit
    /\ part = "cells" \/ (setting = "docker" /\ engine)
    /\ SecretsInit /\ DisclosureInit
    /\ activeTable = "payroll" /\ markedTables = {"payroll"}
    /\ clouded # {} /\ (part = "prompts" \/ clouded = {"worker"})
    /\ ResidencyInit
    /\ small = "c"
    /\ IF part = "memory" THEN chosen.manager = "a" /\ chosen.worker # "c" ELSE chosen = Unasked
    /\ SizingInit
    /\ IF part = "sizes" THEN host = Blank \/ call = Terse ELSE host = Blank /\ call = Terse

MCNext ==
    /\ UNCHANGED part
    /\ \/ part = "turns" /\ Next
       \/ part # "turns" /\ UNCHANGED vars
    /\ \/ part = "spending" /\ SpendNext
       \/ part # "spending" /\ UNCHANGED spendVars
    /\ \/ part = "models" /\ AccessNext
       \/ part # "models" /\ UNCHANGED accessVars
    /\ \/ part = "rows" /\ HistoryNext
       \/ part # "rows" /\ UNCHANGED rowVars
    /\ \/ part = "cells" /\ IsolationNext
       \/ part # "cells" /\ UNCHANGED isoVars
    /\ \/ part = "files" /\ SecretsNext
       \/ part # "files" /\ UNCHANGED secretVars
    /\ \/ part = "prompts" /\ DisclosureNext
       \/ part # "prompts" /\ UNCHANGED disclosureVars
    /\ \/ part = "memory" /\ ResidencyNext
       \/ part # "memory" /\ UNCHANGED residencyVars
    /\ \/ part = "sizes" /\ SizingNext
       \/ part # "sizes" /\ UNCHANGED sizingVars

allVars == <<vars, spendVars, accessVars, rowVars, isoVars, secretVars, disclosureVars, residencyVars,
             sizingVars, part>>

MCSpec == MCInit /\ [][MCNext]_allVars

\* Every variable of the one that runs keeps its type; the others stand still.
ServerTypesHold ==
    /\ part = "turns" => TypeOK
    /\ part = "spending" => SpendTypeOK
    /\ part = "models" => AccessTypeOK
    /\ part = "rows" => HistoryTypeOK
    /\ part = "cells" => IsolationTypeOK
    /\ part = "files" => SecretsTypeOK
    /\ part = "prompts" => DisclosureTypeOK
    /\ part = "memory" => ResidencyTypeOK
    /\ part = "sizes" => SizingTypeOK

\* The calls of models: a turn is billed what it spent (Spending), each goes where the mode and
\* the policy let it (ModelAccess), carries what the policy trusts that model with (Disclosure), asks
\* this machine to keep no more than fits in it (Residency), and produces no more than it may (Sizing).
CallsHold == SpendingHolds /\ AccessHolds /\ DisclosureHolds /\ ResidencyHolds /\ SizesHold

\* What is kept: the rows of a session and what a turn left in them (History), and the keys,
\* connections and settings on disk (Secrets).
RecordsHold == HistoryHolds /\ SecretsHold
=============================================================================
