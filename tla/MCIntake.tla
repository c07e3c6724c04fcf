------------------------------ MODULE MCIntake ------------------------------
(***************************************************************************)
(* What comes into the server on a small instance: the files that are      *)
(* uploaded as tables, the documents that are attached and searched, the   *)
(* figures of answers with the evidence behind them, and the models that   *)
(* providers list.  MCStores runs them.                                    *)
(***************************************************************************)
EXTENDS Ingest, Grounding, Listings

CONSTANTS ab, adotb, ab1, blank, price, five, three, words, dropna, partial, nobody

\* Three names that are one when cleaned, one of nothing but blanks, one of money; two texts that are
\* amounts and one that is not.
StemOf == [raw \in {ab, adotb, ab1, blank, price, "noise"} |->
              IF raw \in {ab, adotb} THEN <<ab>> ELSE IF raw = ab1 THEN <<ab, 1>> ELSE IF raw = blank THEN <<>> ELSE <<raw>>]
Amounts == [t \in {five, three} |-> IF t = five THEN 5 ELSE -3]

Cells(n, cell) == [k \in 1..n |-> cell]
Column(raw, cells) == [raw |-> raw, cells |-> cells]
Lines(rows, blanks) == [k \in 1..(rows + blanks) |-> IF k <= rows THEN "row" ELSE "blank"]
Csv(lines, table) ==
    [kind |-> "delimited", chunks |-> 1, as |-> "utf-8", nuls |-> FALSE, cut |-> FALSE, even |-> TRUE,
     lines |-> lines, tables |-> <<table>>]
Whole(kind, sheets) == [Csv(<<>>, <<>>) EXCEPT !.kind = kind, !.tables = sheets]
Counting(n) == [k \in 1..n |-> Num(k)]
Prices(n, bad) == [k \in 1..n |-> IF k <= bad THEN Text(words) ELSE IF k = n THEN Text(three) ELSE Text(five)]
Headed(n) ==
    <<Column(ab, Counting(n)), Column(ab1, Cells(n, Text(words))), Column(adotb, Cells(n, Missing)), Column(blank, Counting(n))>>
Small == Csv(Lines(5, 0), Headed(5))
NoTable == Whole("other", <<>>)

\* A file of each size, kind and encoding; tables above the limit of rows, with one bad amount of five,
\* with two, with columns of numbers and texts, which may be categories, with columns of nothing.
MCUploads ==
    {Small, [Small EXCEPT !.chunks = 2], [Small EXCEPT !.chunks = 3], NoTable,
     [Small EXCEPT !.nuls = TRUE, !.as = "utf-16"],
     [Small EXCEPT !.as = "cp1252"], [Small EXCEPT !.as = "cp1252", !.even = FALSE], [Small EXCEPT !.cut = TRUE],
     Csv(Lines(11, 0), Headed(11)), Csv(Lines(5, 5), Headed(5)), Csv(Lines(0, 1), Headed(0)),
     Csv(Lines(5, 0), <<Column(adotb, Prices(5, 3)), Column(price, Prices(5, 1))>>),
     Csv(Lines(5, 0), <<Column(price, Prices(5, 2)), Column(ab, Cells(5, Missing))>>),
     Csv(Lines(5, 1), <<Column(adotb, Cells(5, Missing)), Column(ab, Prices(5, 5)),
                        Column(price, <<Missing, Missing, Text(three), Num(2), Text(five)>>)>>),
     Whole("sheets", <<Headed(2), <<Column(ab, <<Num(1), Text(words), Missing>>), Column(price, Counting(3))>>, Headed(3)>>),
     Csv(Lines(5, 0), <<Column(adotb, Prices(5, 4)), Column(ab, <<Num(1), Num(1), Text(words), Text(words), Num(1)>>)>>),
     Csv(Lines(5, 0), <<Column(adotb, [Cells(5, Text(words)) EXCEPT ![5] = Missing]), Column(ab, Prices(5, 4)),
                        Column(blank, <<Num(1), Num(2), Text(words), Missing, Num(1)>>)>>),
     Whole("json", <<Headed(7), Headed(8)>>), Whole("frame", <<Headed(6)>>)}

\* Paragraphs that are packed, split and cut, a paged document, one of too many pages, one of another
\* kind and an empty one.
Paper(kind, lengths) == [kind |-> kind, lengths |-> lengths]
MCPapers ==
    {Paper("text", <<<<3>>, <<4>>, <<2>>>>), Paper("pdf", <<<<5>>, <<2, 1>>>>), Paper("text", <<<<2, 6>>>>),
     Paper("text", <<<<3, 3>>, <<1>>>>), Paper("text", <<<<1>>, <<3, 9>>>>), Paper("pdf", <<<<1>>, <<1>>, <<1>>, <<1>>>>),
     Paper("other", <<<<1>>>>), Paper("text", <<>>)}

\* A number and the same one in thousands, one that only reads like it, one that was asked for, one
\* behind a "<", one in scientific notation, one out of nowhere.
Figure(digits, places, scale, form) == [digits |-> digits, places |-> places, scale |-> scale, form |-> form]
Plain(digits, places) == Figure(digits, places, 1, "plain")
MCAnswers ==
    {<<>>, <<Plain(1234, 0), Figure(123, 2, 1000, "plain")>>, <<Plain(123, 2), Figure(123, 2, 1000, "plain")>>,
     <<Plain(20, 0), Plain(7, 0), Plain(7, 0)>>, <<Figure(5, 2, 1, "bound"), Figure(5, 0, 1, "scientific")>>,
     <<Figure(1, 0, 1000, "plain"), Plain(12, 1), Figure(2, 2, 1, "bound")>>}
MCOutputs == {{123400}, {500, 123}, {700, 2}}
MCMarkers == <<dropna>>
MCCaveats == <<partial>>

\* Models of two hosts, one of them known to be of another kind than it is named, and of a hosted
\* provider, which names some twice and some that do not converse.
Served4(name, usable, hints, type) == [name |-> name, usable |-> usable, hints |-> hints, type |-> type]
MCDialect == [ollama |-> "ollama", studio |-> "lmstudio", cloud |-> "anthropic", bare |-> "unset"]
MCServed ==
    [ollama |-> <<Served4(5, TRUE, {}, "none"), Served4(1, FALSE, {"embed"}, "none")>>,
     studio |-> <<Served4(4, TRUE, {"embed"}, "llm"), Served4(3, TRUE, {"code"}, "vlm"), Served4(2, TRUE, {}, "embeddings"), Served4(6, TRUE, {"vision"}, "new")>>,
     cloud |-> <<Served4(7, TRUE, {"reasoning"}, "none"), Served4(8, FALSE, {}, "none"), Served4(7, TRUE, {"reasoning"}, "none")>>,
     bare |-> <<>>]
MCPinned == [manager |-> 5, worker |-> 8, vision |-> nobody]
MCPreferred == [ollama |-> <<>>, studio |-> <<>>, cloud |-> <<9, 7>>, bare |-> <<>>]
=============================================================================
