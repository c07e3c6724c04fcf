----------------------------- MODULE Grounding -----------------------------
(***************************************************************************)
(* What stands behind the figures of an answer: the steps of one turn, the *)
(* evidence graph they are recorded in (core/analysis/provenance.py), the  *)
(* check of the answer's figures against what was printed and the          *)
(* assumptions read out of the code (core/agent/grounding.py), as the      *)
(* orchestrator calls them (core/agent/orchestrator.py).                   *)
(*                                                                         *)
(* A figure of an output is a number of hundredths.  A figure of an answer *)
(* is what is written: digits, decimal places, a magnitude word, and       *)
(* whether it is in scientific notation or behind a "<".                   *)
(***************************************************************************)
EXTENDS Integers, Sequences, FiniteSets, SequencesExt

CONSTANTS
    Outputs,    \* bound: what a step may print, sets of numbers of hundredths
    Answers,    \* bound: the figures an answer may have, in its order
    Asked,      \* the plain figures of the question, in hundredths
    Trivial,    \* TRIVIAL, in hundredths
    Thresholds, \* STANDARD_THRESHOLDS, in hundredths
    Markers,    \* the markers of CODE_ASSUMPTIONS in their order, each standing for its description
    Caveats,    \* what assumptions_from_profile says of the table
    MaxSteps    \* bound: the steps of a turn

ASSUME GroundingAssumption == MaxSteps \in Nat

VARIABLES
    steps,      \* Investigation.steps
    nodes,      \* EvidenceGraph.nodes, in the order they were added
    edges,      \* EvidenceGraph.edges
    hasTable,   \* a table is active
    output,     \* state.output
    assumed,    \* Investigation.assumptions
    best,       \* state.best_checkpoint: the run that was confirmed last, or 0
    verification, \* what the recomputation said last
    answer,     \* the figures of state.answer, and whether there is one
    report      \* GroundingReport, and whether it was checked

groundVars == <<steps, nodes, edges, hasTable, output, assumed, best, verification, answer, report>>
-----------------------------------------------------------------------------
(* The graph.                                                               *)

\* A node is known by its kind and how many of its kind there were before it.
IdOf(list, kind) == <<kind, Cardinality({i \in DOMAIN list : list[i].id[1] = kind})>>
Added(list, kind, step, shows) == Append(list, [id |-> IdOf(list, kind), step |-> step, shows |-> shows])
Ids(list) == {list[i].id : i \in DOMAIN list}
LastOf(list, kind) == LET n == IdOf(list, kind)[2] IN <<kind, n - 1>>
HasAny(list, kind) == IdOf(list, kind)[2] > 0

\* An edge is only added between nodes that are there.
Linked(list, new) == edges \cup {e \in new : {e[1], e[2]} \subseteq Ids(list)}

\* What a node depends on, itself included: no path is longer than there are nodes.
Trace(id) ==
    FoldLeft(LAMBDA ids, node : ids \cup {e[1] : e \in {f \in edges : f[2] \in ids}}, {id}, nodes)

Verdicts == {"verified", "mismatch", "inconclusive"}

GroundInit ==
    /\ steps = <<>> /\ output = {} /\ assumed = <<>> /\ hasTable \in BOOLEAN
    /\ best = 0 /\ verification = "none"
    /\ nodes = Added(Added(<<>>, "question", 0, {}), "objective", 0, {})
    /\ edges = {<<<<"question", 0>>, <<"objective", 0>>>>}
    /\ answer = [given |-> FALSE, figures |-> <<>>]
    /\ report = [seen |-> {}, grounded |-> <<>>, ungrounded |-> <<>>, warned |-> FALSE]

Recorded(kind, ok, prints, code) ==
    steps' = Append(steps, [kind |-> kind, ok |-> ok, prints |-> prints, code |-> code])
MayStep == ~answer.given /\ Len(steps) < MaxSteps

NoteAll(notes) == FoldLeft(LAMBDA list, note : IF note \in Range(list) THEN list ELSE Append(list, note), assumed, notes)

\* A run that succeeds: what its code assumed is noted, and the table, the step, its code, the
\* execution and the result are linked.
RunCode(prints, markers) ==
    LET k == Len(steps) + 1
        table == IF hasTable /\ ~HasAny(nodes, "dataset") THEN Added(nodes, "dataset", 0, {}) ELSE nodes
        withStep == Added(table, "step", k, {})
        withCode == Added(withStep, "code", k, {})
        withRun == Added(withCode, "execution", k, prints)
        all == Added(withRun, "result", k, prints)
        idOf(kind) == LastOf(all, kind)
    IN  /\ MayStep
        /\ Recorded("code", TRUE, prints, markers)
        /\ output' = prints
        /\ assumed' = NoteAll(SelectSeq(Markers, LAMBDA m : m \in markers))
        /\ nodes' = all
        /\ edges' = Linked(all, {<<idOf("objective"), idOf("step")>>, <<idOf("step"), idOf("code")>>,
                                 <<idOf("code"), idOf("execution")>>, <<idOf("execution"), idOf("result")>>,
                                 <<<<"dataset", 0>>, idOf("execution")>>})
        /\ UNCHANGED <<hasTable, best, verification, answer, report>>

\* The last correction has failed too: the error is the output, and nothing is linked.
RunFails(prints, markers) ==
    /\ MayStep
    /\ Recorded("code", FALSE, prints, markers)
    /\ output' = prints
    /\ UNCHANGED <<nodes, edges, hasTable, assumed, best, verification, answer, report>>

\* The table is described, or documents and skills are read; a passage is a node of its own, without edges.
InspectTable(prints) ==
    /\ MayStep
    /\ Recorded("inspect", TRUE, prints, {})
    /\ UNCHANGED <<nodes, edges, hasTable, output, assumed, best, verification, answer, report>>
ConsultPapers(prints, found, skilled) ==
    /\ MayStep
    /\ Recorded("consult", found \/ skilled, prints, {})
    /\ nodes' = IF found THEN Added(nodes, "source", Len(steps) + 1, prints) ELSE nodes
    /\ UNCHANGED <<edges, hasTable, output, assumed, best, verification, answer, report>>

\* Faulty variant: what the turn printed last.
ExecutedLast == output

\* What every step that succeeded printed, or the output where none did.
Executed ==
    LET done == {k \in DOMAIN steps : steps[k].ok} IN
    IF done = {} THEN output ELSE UNION {steps[k].prints : k \in done}

\* The investigation has ended with a run, whose result is computed in another way and then criticised.
\* A run that is confirmed is the one to go back to; a mismatch goes back to the one before it, and so
\* does a grave finding, which may be about the run that was just confirmed.  A verdict that is taken over
\* from an earlier turn is only told.  The graph stays.
Verify(verdict, stays, grave) ==
    /\ stays => verdict # "inconclusive"
    /\ ~answer.given /\ steps # <<>> /\ Last(steps).kind = "code" /\ Last(steps).ok /\ Last(nodes).id[1] # "validation"
    /\ verification' = verdict
    /\ best' = IF verdict = "verified" /\ ~stays THEN Len(steps) ELSE best
    /\ output' = IF ((verdict = "mismatch" /\ ~stays) \/ grave) /\ best' # 0 THEN steps[best'].prints ELSE Executed
    /\ nodes' = Added(nodes, "validation", Len(steps), {})
    /\ edges' = edges \cup {<<LastOf(nodes', "validation"), LastOf(nodes, "execution")>>}
    /\ UNCHANGED <<steps, hasTable, assumed, answer, report>>
-----------------------------------------------------------------------------
(* The check.                                                               *)

Power(n) == <<1, 10, 100>>[n + 1]
Abs(n) == IF n < 0 THEN -n ELSE n
Larger(m, n) == IF m > n THEN m ELSE n

\* Its value as it stands, and times its magnitude word.
Key(l) == l.digits * Power(2 - l.places)
Value(l) == Key(l) * l.scale
Unit(l) == Power(2 - l.places) * l.scale

\* What the output printed could have been reported so: it is the same, it rounds to it, or it is
\* near.  A number halfway is rounded to the even one, except behind a magnitude word.
RoundsTo(l, n) ==
    LET off == 2 * Abs(Value(l) - n) IN
    off < Unit(l) \/ (off = Unit(l) /\ (l.scale # 1 \/ l.digits % 2 = 0))
Matches(l, n) ==
    LET magnitude == Larger(Abs(Value(l)), Abs(n)) IN
    Value(l) = n \/ RoundsTo(l, n) \/ (magnitude > 0 /\ 200 * Abs(Value(l) - n) <= magnitude)

MatchesScientific(l, n) == 100 * Abs(Value(l) - n) <= Abs(n)

Backed(l, observed) ==
    \/ l.form = "scientific" /\ \E n \in observed : MatchesScientific(l, n)
    \/ l.form # "scientific" /\ (Key(l) \in Asked \/ \E n \in observed : Matches(l, n))
    \/ l.form = "bound" /\ (Key(l) \in Thresholds \/ \E n \in observed : n <= Key(l))

\* A figure is known by how it reads without its magnitude word: one that was seen is not looked at again.
SeenAs(l) == IF l.form = "scientific" THEN <<"scientific", Value(l)>> ELSE <<"plain", Key(l)>>
Passed(l, past) == SeenAs(l) \in past \/ (l.form # "scientific" /\ Key(l) \in Trivial)
CheckFigure(done, l, observed) ==
    IF Passed(l, done.seen) THEN done
    ELSE IF Backed(l, observed)
    THEN [done EXCEPT !.seen = @ \cup {SeenAs(l)}, !.grounded = Append(@, l)]
    ELSE [done EXCEPT !.seen = @ \cup {SeenAs(l)}, !.ungrounded = Append(@, l)]

\* First those in scientific notation, then the others, in the order of the answer.
Checked(figures) ==
    LET isScientific(l) == l.form = "scientific"
        isOther(l) == l.form # "scientific"
        none == [seen |-> {}, grounded |-> <<>>, ungrounded |-> <<>>, warned |-> FALSE]
        done == FoldLeft(LAMBDA r, l : CheckFigure(r, l, Executed), none,
                         SelectSeq(figures, isScientific) \o SelectSeq(figures, isOther))
    IN  [done EXCEPT !.warned = done.ungrounded # <<>>]

\* Each grounded figure is a claim that the last result supports.
Claimed(grounded) ==
    FoldLeft(LAMBDA list, l : Added(list, "claim", Len(steps), {l}), nodes, grounded)
Support == IF HasAny(nodes, "result") THEN LastOf(nodes, "result") ELSE LastOf(nodes, "execution")

\* What the profile of an active table says of how it was read.
CaveatsTold == IF hasTable THEN Caveats ELSE <<>>

Answer(figures) ==
    /\ ~answer.given
    /\ answer' = [given |-> TRUE, figures |-> figures]
    /\ assumed' = NoteAll(CaveatsTold)
    /\ report' = Checked(figures)
    /\ IF HasAny(nodes, "result")
       THEN /\ nodes' = Claimed(report'.grounded)
            /\ edges' = edges \cup {<<Support, <<"claim", i - 1>>>> : i \in DOMAIN report'.grounded}
       ELSE UNCHANGED <<nodes, edges>>
    /\ UNCHANGED <<steps, hasTable, output, best, verification>>

\* The evidence did not do: the turn says so, and no figure is checked.
Declines ==
    /\ ~answer.given
    /\ answer' = [given |-> TRUE, figures |-> <<>>]
    /\ UNCHANGED <<steps, nodes, edges, hasTable, output, assumed, best, verification, report>>

GroundNext ==
    \/ \E prints \in Outputs, markers \in SUBSET Range(Markers) :
          RunCode(prints, markers) \/ RunFails(prints, markers)
    \/ \E prints \in Outputs, found, skilled \in BOOLEAN :
          InspectTable(prints) \/ ConsultPapers(prints, found, skilled)
    \/ \E verdict \in Verdicts, stays, grave \in BOOLEAN : Verify(verdict, stays, grave)
    \/ Declines
    \/ \E figures \in Answers : Answer(figures)
-----------------------------------------------------------------------------
OfKind(kind) == {id \in Ids(nodes) : id[1] = kind}
NodeOf(id) == CHOOSE node \in Range(nodes) : node.id = id
KeysOf(list) == {SeenAs(list[i]) : i \in DOMAIN list}
Judged == Len(report.grounded) + Len(report.ungrounded)

GroundTypeOK ==
    /\ \A i \in DOMAIN steps :
          /\ steps[i].kind \in {"code", "inspect", "consult"} /\ steps[i].ok \in BOOLEAN
          /\ steps[i].prints \subseteq Int /\ steps[i].code \subseteq Range(Markers)
    /\ \A i \in DOMAIN nodes : nodes[i].id[2] \in Nat /\ nodes[i].step \in 0..Len(steps)
    /\ \A e \in edges : {e[1], e[2]} \subseteq Ids(nodes)
    /\ hasTable \in BOOLEAN /\ output \subseteq Int /\ verification \in Verdicts \cup {"none"}
    /\ best \in 0..Len(steps) /\ (best # 0 => steps[best].kind = "code" /\ steps[best].ok)
    /\ Range(assumed) \subseteq Range(Markers) \cup Range(Caveats)
    /\ answer.given \in BOOLEAN /\ answer.figures \in Answers \cup {<<>>}
    /\ report.warned \in BOOLEAN /\ Range(report.grounded) \cup Range(report.ungrounded) \subseteq Range(answer.figures)

\* Every figure of an answer that is not a trivial one is judged, once for each way it reads: it is in
\* one of the report's two lists or reads like one that is, and the user is warned exactly when one of
\* them was not found (grounding.py check_grounding, orchestrator.py _check_grounding).
FiguresAreJudged ==
    /\ \A l \in Range(answer.figures) :
          Passed(l, {}) \/ SeenAs(l) \in KeysOf(report.grounded) \cup KeysOf(report.ungrounded)
    /\ Cardinality(KeysOf(report.grounded) \cup KeysOf(report.ungrounded)) = Judged
    /\ report.warned = (report.ungrounded # <<>>)

\* Nobody is warned of what was computed: a figure reported as not found is in no output of a step that
\* succeeded, however many steps were taken and whatever the turn went back to.
WarningsAreEarned ==
    \A l \in Range(report.ungrounded), i \in DOMAIN steps : steps[i].ok => Value(l) \notin steps[i].prints

\* What a claim rests on reaches back to the question, to a run with its code, and, where a table was
\* active, to the table (provenance.py trace, reports/model.py).
ClaimsReachBack ==
    \A id \in OfKind("claim") :
       LET behind == {x[1] : x \in Trace(id)} IN
       {"question", "objective", "step", "code", "execution", "result"} \cup (IF hasTable THEN {"dataset"} ELSE {}) \subseteq behind

\* The graph tells one run from another: no id is given twice, nothing rests on itself, the runs of a
\* trace are the one that its result came from, and what a node shows is what that step printed.
RunsAreApart ==
    /\ Cardinality(Ids(nodes)) = Len(nodes)
    /\ \A e \in edges : e[2] \notin Trace(e[1])
    /\ \A id \in OfKind("result") :
          /\ \A x \in Trace(id) : x[1] \in {"step", "code", "execution", "result"} => NodeOf(x).step = NodeOf(id).step
          /\ steps[NodeOf(id).step].ok /\ steps[NodeOf(id).step].prints = NodeOf(id).shows

\* What the code of a run that succeeded took for granted is told, once, and so are the caveats of the
\* table by the time figures are judged; nothing is told that neither of them says.
AssumptionsAreTold ==
    LET ran == UNION {steps[i].code : i \in {k \in DOMAIN steps : steps[k].ok}} IN
    /\ ran \subseteq Range(assumed) /\ Range(assumed) \subseteq ran \cup Range(Caveats)
    /\ Cardinality(Range(assumed)) = Len(assumed)
    /\ report.grounded \o report.ungrounded # <<>> /\ hasTable => Range(Caveats) \subseteq Range(assumed)

GroundsHold == FiguresAreJudged /\ WarningsAreEarned /\ ClaimsReachBack /\ RunsAreApart /\ AssumptionsAreTold
=============================================================================
