------------------------------- MODULE Streams -------------------------------
(***************************************************************************)
(* What becomes of a reply while it streams in.  ReasoningStream           *)
(* (llm/reasoning.py) tells a model's thinking from what it says, whatever *)
(* the pieces the text arrives in; split_reasoning does the same of a      *)
(* whole text; EscalationGate (agent/conversation.py) keeps back a reply   *)
(* that may still be the request for an analysis; and the orchestrator     *)
(* shows the pieces and keeps a result.  A text is a sequence of symbols;  *)
(* what the code finds with one search is a pair of them here, so that a   *)
(* piece can end in the middle of it.                                      *)
(***************************************************************************)
EXTENDS Naturals, Sequences, SequencesExt

CONSTANTS
    MaxSymbols,  \* bound: the symbols of a reply
    HeldBack     \* MAX_TAG_CHARS, in symbols

ASSUME StreamsAssumption == MaxSymbols \in Nat /\ HeldBack > 2

\* "less" is a < that begins no tag; the others are halves of <think>, of
\* </think> and of [[NEEDS_ANALYSIS]].
Symbols == {"word", "space", "less", "open", "open>", "close", "close>", "mark", "mark]"}

Halves == {<<"open", "open>">>, <<"close", "close>">>, <<"mark", "mark]">>}

OpenTag == <<"open", "open>">>
CloseTag == <<"close", "close>">>
EscalateSentinel == <<"mark", "mark]">>

\* A second half follows its first half, and nothing else does; a budget that
\* is spent may end a text between the two.
Readable(s) ==
    /\ \A h \in Halves : s # <<>> => s[1] # h[2]
    /\ \A i \in 2..Len(s) : \A h \in Halves : (s[i - 1] = h[1]) <=> (s[i] = h[2])

Replies == {s \in SeqOf(Symbols, MaxSymbols) : Readable(s)}

VARIABLES
    purpose,  \* the call: "plan", "answer" or "converse"
    gated,    \* the conversation may hand the turn to the analysis
    sent,     \* what the model says
    arrived,  \* how much of it has arrived
    splitter, \* the ReasoningStream
    visible, thinking,  \* the texts of the pieces it made, the two kinds apart
    gate,     \* the EscalationGate
    reply,    \* "streaming", "kept", "handed" or "failed"
    result,   \* what the turn keeps
    shown     \* what the panel of the reply shows

streamVars == <<purpose, gated, sent, arrived, splitter, visible, thinking, gate, reply, result, shown>>

StreamsTypeOK ==
    /\ purpose \in {"plan", "answer", "converse"} /\ gated \in BOOLEAN
    /\ sent \in Replies /\ arrived \in 0..Len(sent)
    /\ splitter.pending \in Seq(Symbols) /\ splitter.inside \in BOOLEAN
    /\ {visible, thinking, gate.held, gate.out} \subseteq Seq(Symbols)
    /\ reply \in {"streaming", "kept", "handed", "failed"}
    /\ {result, shown} \subseteq Seq(Symbols \cup {"request", "output", "fallback"})

----------------------------------------------------------------------------
\* Texts.

\* Where tag begins in s first; 0 if nowhere.
Search(s, tag) ==
    LET at == {i \in 1..Len(s) - 1 : <<s[i], s[i + 1]>> = tag} IN
    IF at = {} THEN 0 ELSE CHOOSE i \in at : \A j \in at : i <= j

Before(s, i) == SubSeq(s, 1, i - 1)
After(s, i) == SubSeq(s, i + 2, Len(s))

Blank(s) == \A i \in 1..Len(s) : s[i] = "space"

LStrip(s) ==
    LET rest == {i \in 1..Len(s) : s[i] # "space"} IN
    IF rest = {} THEN <<>> ELSE SubSeq(s, CHOOSE i \in rest : \A j \in rest : i <= j, Len(s))

Strip(s) == Reverse(LStrip(Reverse(LStrip(s))))

Bare(s) == SelectSeq(s, LAMBDA x : x # "space")

----------------------------------------------------------------------------
\* split_reasoning.

\* A complete block after the other is cut out; what the first open tag left
\* begins is thinking that ran out of room.
RECURSIVE Blocks(_, _, _)
Blocks(s, said, thought) ==
    LET o == Search(s, OpenTag)
        c == IF o = 0 THEN 0 ELSE Search(After(s, o), CloseTag)
    IN  CASE o = 0 -> [visible |-> said \o s, thinking |-> thought]
          [] o > 0 /\ c = 0 -> [visible |-> said \o Before(s, o), thinking |-> thought \o After(s, o)]
          [] OTHER -> Blocks(After(After(s, o), c), said \o Before(s, o), thought \o Before(After(s, o), c))

SplitReasoning(s) ==
    LET orphan == Search(s, CloseTag) IN
    IF orphan > 0 /\ Search(s, OpenTag) = 0
    THEN [visible |-> Strip(After(s, orphan)), thinking |-> Strip(Before(s, orphan))]
    ELSE LET parts == Blocks(s, <<>>, <<>>) IN [visible |-> Strip(parts.visible), thinking |-> Strip(parts.thinking)]

----------------------------------------------------------------------------
\* ReasoningStream.

Piece(inside, s) == IF s = <<>> THEN <<>> ELSE <<[inside |-> inside, text |-> s]>>

\* Faulty variant: nothing is held back.
DrainAll(pending, inside, out) ==
    [pending |-> <<>>, inside |-> inside, out |-> out \o Piece(inside, pending)]

\* Emits what cannot be part of a tag any more: all but a < that ends the text
\* and is not too far back for a tag.
Drain(pending, inside, out) ==
    LET marks == {i \in 1..Len(pending) : pending[i] \in {"less", "open", "close"}}
        last == CHOOSE i \in marks : \A j \in marks : j <= i
        cut == IF marks = {} \/ Len(pending) - last + 1 >= HeldBack THEN Len(pending) + 1 ELSE last
    IN  [pending |-> SubSeq(pending, cut, Len(pending)), inside |-> inside,
         out |-> out \o Piece(inside, Before(pending, cut))]

RECURSIVE Classify(_, _, _)
Classify(pending, inside, out) ==
    LET o == IF inside THEN 0 ELSE Search(pending, OpenTag)
        c == Search(pending, CloseTag)
    IN  CASE o > 0 -> Classify(After(pending, o), TRUE, out \o Piece(FALSE, Before(pending, o)))
          \* the end of a thought; or of one whose beginning was in the prompt
          [] o = 0 /\ c > 0 -> Classify(After(pending, c), FALSE, out \o Piece(TRUE, Before(pending, c)))
          [] OTHER -> Drain(pending, inside, out)

----------------------------------------------------------------------------
\* EscalationGate.

NewGate(enabled) == [held |-> <<>>, marker |-> FALSE, decided |-> ~enabled, escalated |-> FALSE, out |-> <<>>]

LetGo(g, s) == [g EXCEPT !.held = <<>>, !.marker = FALSE, !.decided = TRUE, !.out = @ \o s]

\* Behind the marker: a reply that goes on is text without it.
PastMarker(g, s) == IF Blank(s) THEN [g EXCEPT !.marker = TRUE, !.held = s] ELSE LetGo(g, LStrip(s))

FeedGate(g, s) ==
    LET held == g.held \o s
        candidate == LStrip(held)
    IN  CASE g.decided -> [g EXCEPT !.out = @ \o s]
          [] ~g.decided /\ g.marker -> PastMarker(g, held)
          [] ~g.decided /\ ~g.marker /\ IsPrefix(EscalateSentinel, candidate) -> PastMarker(g, After(candidate, 1))
          [] ~g.decided /\ ~g.marker /\ IsPrefix(candidate, EscalateSentinel) /\ candidate # EscalateSentinel -> [g EXCEPT !.held = held]
          [] OTHER -> LetGo(g, held)

FlushGate(g) ==
    CASE g.decided -> g
      [] ~g.decided /\ g.marker -> [g EXCEPT !.held = <<>>, !.decided = TRUE, !.escalated = TRUE]
      [] OTHER -> LetGo(g, g.held)

----------------------------------------------------------------------------
\* The calls of the orchestrator.

StreamsInit ==
    /\ purpose \in {"plan", "answer", "converse"} /\ gated \in BOOLEAN /\ (gated => purpose = "converse")
    /\ sent \in Replies /\ arrived = 0 /\ visible = <<>> /\ thinking = <<>> /\ shown = <<>> /\ result = <<>>
    /\ splitter = [pending |-> <<>>, inside |-> FALSE]
    /\ gate = NewGate(gated)
    /\ reply = "streaming"

TextOf(pieces, inside) ==
    FoldLeft(LAMBDA acc, p : IF p.inside = inside THEN acc \o p.text ELSE acc, <<>>, pieces)

GateAfter(pieces) == FoldLeft(LAMBDA g, p : IF p.inside THEN g ELSE FeedGate(g, p.text), gate, pieces)

\* emit_pieces: thinking goes to its own panel, the rest through the gate, and a
\* fixed text follows.
Emit(pieces, g, fixed) ==
    /\ visible' = visible \o TextOf(pieces, FALSE)
    /\ thinking' = thinking \o TextOf(pieces, TRUE)
    /\ gate' = g
    /\ shown' = shown \o SubSeq(g.out, Len(gate.out) + 1, Len(g.out)) \o fixed

\* on_delta.
Delta(upto) ==
    /\ reply = "streaming" /\ arrived < upto
    /\ arrived' = upto
    /\ LET read == Classify(splitter.pending \o SubSeq(sent, arrived + 1, upto), splitter.inside, <<>>) IN
       /\ splitter' = [pending |-> read.pending, inside |-> read.inside]
       /\ Emit(read.out, GateAfter(read.out), <<>>)
    /\ UNCHANGED <<purpose, gated, sent, reply, result>>

Thought(s) == IF s = <<>> THEN <<"request">> ELSE s

\* The stream ends, in the middle of a tag too when the budget was spent: what
\* is held back comes out, and the turn keeps its result.
Finish ==
    /\ reply = "streaming" /\ arrived = Len(sent)
    /\ LET rest == Piece(splitter.inside, splitter.pending)
           g == FlushGate(GateAfter(rest))
           said == Strip(visible \o TextOf(rest, FALSE))
           whole == SplitReasoning(sent)
           \* a conversation in which nothing was said
           fixed == IF purpose = "converse" /\ ~g.escalated /\ Strip(g.out) = <<>> THEN <<"fallback">> ELSE <<>>
       IN  /\ splitter' = [splitter EXCEPT !.pending = <<>>]
           /\ Emit(rest, g, fixed)
           /\ reply' = IF g.escalated THEN "handed" ELSE "kept"
           /\ result' = CASE purpose = "plan" -> IF whole.visible = <<>> THEN Thought(whole.thinking) ELSE whole.visible
                          [] purpose = "answer" -> IF said = <<>> THEN <<"output">> ELSE said
                          [] OTHER -> IF g.escalated THEN <<>> ELSE Strip(g.out) \o fixed
    /\ UNCHANGED <<purpose, gated, sent, arrived>>

\* LLMUnavailableError: a plan fails the turn; an answer falls back to the raw
\* output and a conversation to a fixed reply, behind what was shown already.
FailStream ==
    /\ reply = "streaming"
    /\ reply' = "failed"
    /\ result' = CASE purpose = "plan" -> <<>> [] purpose = "answer" -> <<"output">> [] OTHER -> <<"fallback">>
    /\ shown' = shown \o result'
    /\ UNCHANGED <<purpose, gated, sent, arrived, splitter, visible, thinking, gate>>

StreamsNext == (\E upto \in 1..Len(sent) : Delta(upto)) \/ Finish \/ FailStream

StreamsSpec == StreamsInit /\ [][StreamsNext]_streamVars

----------------------------------------------------------------------------
\* Properties.

\* Thoughts are closed before the next begins, and none ends that did not begin.
RECURSIVE Balanced(_, _)
Balanced(s, inside) ==
    CASE s = <<>> -> TRUE
      [] s # <<>> /\ Head(s) = "open>" -> ~inside /\ Balanced(Tail(s), TRUE)
      [] s # <<>> /\ Head(s) = "close>" -> inside /\ Balanced(Tail(s), FALSE)
      [] OTHER -> Balanced(Tail(s), inside)

Over == reply \in {"kept", "handed"}

\* Whatever pieces a reply arrives in, a stream tells the thinking from the rest
\* as split_reasoning does of the whole text, so that the plan on the screen is
\* the plan of the later prompts.
SplitAgrees ==
    Over /\ Balanced(sent, FALSE) =>
        /\ Bare(visible) = Bare(SplitReasoning(sent).visible)
        /\ Bare(thinking) = Bare(SplitReasoning(sent).thinking)

\* No symbol of a reply is lost or shown twice, whatever it is: what is neither
\* said nor thought is a tag.
NothingIsLost ==
    Over => \A x \in Symbols \ {"open", "open>", "close", "close>"} :
        Len(SelectSeq(sent, LAMBDA y : y = x)) = Len(SelectSeq(visible \o thinking, LAMBDA y : y = x))

\* The turn is handed to the analysis exactly when the marker is the whole of
\* what the model said, and no other reply loses more than a leading marker.
MarkerAloneEscalates ==
    Over /\ purpose = "converse" =>
        /\ reply = "handed" <=> gated /\ Strip(visible) = EscalateSentinel
        /\ reply = "kept" =>
              gate.out = IF gated /\ IsPrefix(EscalateSentinel, LStrip(visible))
                         THEN LStrip(After(LStrip(visible), 1)) ELSE visible

\* What the turn keeps is what was shown.
KeepsWhatWasShown ==
    Over /\ result # <<>> /\ Balanced(sent, FALSE) /\ Bare(shown) # <<>> => Bare(result) = Bare(shown)

\* A streamed reply means one thing, however it is cut into pieces; and every
\* variable keeps its type.
StreamsAgree == StreamsTypeOK /\ SplitAgrees /\ NothingIsLost /\ MarkerAloneEscalates /\ KeepsWhatWasShown
=============================================================================
