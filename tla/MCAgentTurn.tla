---------------------------- MODULE MCAgentTurn ----------------------------
(***************************************************************************)
(* AgentTurn for TLC: two turns over the messages that reach each route,   *)
(* with models of the smallest and the largest tier, three iterations in   *)
(* depth and one correction.                                               *)
(***************************************************************************)
EXTENDS AgentTurn

\* One message per rule of the router, with and without the neighbours that
\* change its route.
Quiet ==
    [tokens |-> 8, clauses |-> 1, question |-> FALSE, names_data |-> FALSE, families |-> 0,
     computing |-> FALSE, heavy |-> 0, only_why |-> FALSE, structure |-> FALSE, condition |-> FALSE,
     visual |-> FALSE, sequencing |-> 0, deliverable |-> FALSE, open_analysis |-> FALSE,
     social |-> FALSE, addresses_you |-> FALSE, plan_requested |-> FALSE, confirms_plan |-> FALSE,
     imperative |-> FALSE]

MCSignals ==
    {[Quiet EXCEPT !.tokens = t, !.clauses = c, !.names_data = n, !.families = f, !.computing = k,
                   !.heavy = h, !.structure = s, !.visual = v, !.social = o, !.addresses_you = a,
                   !.plan_requested = p, !.confirms_plan = e] :
        t \in {5, 31}, c \in {1, 3}, n \in BOOLEAN, f \in 0..2, k \in BOOLEAN, h \in {0, 1},
        s \in BOOLEAN, v \in BOOLEAN, o \in BOOLEAN, a \in BOOLEAN, p \in BOOLEAN, e \in BOOLEAN}

MCIterations ==
    [tier \in {"compact", "full"} |->
        [mode \in {"fast", "auto", "deep"} |-> IF mode = "fast" THEN 1 ELSE IF mode = "deep" /\ tier = "full" THEN 3 ELSE 2]]

MCDatasets == {[completeness |-> 99, rows |-> 500], [completeness |-> 50, rows |-> 10]}
=============================================================================
