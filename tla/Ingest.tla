------------------------------- MODULE Ingest -------------------------------
(***************************************************************************)
(* From an uploaded file to the table a session works on: the upload route *)
(* (api/routes/datasets.py), DatasetLoader (core/ingest/loader.py) and the *)
(* files that are written for the child (core/session.py).                 *)
(*                                                                         *)
(* A file is what can be told of it: the lines of a delimited one, or the  *)
(* tables of a workbook, a JSON document or a column format.  A cell is    *)
(* missing, a number or a text.  Narrower types of the same numbers are    *)
(* not told apart.  The cleaning pass of the agent, which may change the   *)
(* frame before it is committed, is left out: what is followed is an       *)
(* upload with clean=false.                                                *)
(***************************************************************************)
EXTENDS Integers, Sequences, FiniteSets, SequencesExt, TLC

CONSTANTS
    Uploads,    \* bound: the files that are sent
    MaxUpload,  \* MAX_UPLOAD_BYTES, in chunks of a megabyte
    RowLimit,   \* MAX_INMEMORY_ROWS
    ParseChunk, \* chunksize of read_csv
    Stem,       \* per raw column name: the parts of its name once it is cleaned, and digits apart
    MoneyNames, \* raw names with one of _CURRENCY_COLUMN_HINTS
    MinRows,    \* CATEGORIZATION_MIN_ROWS
    Ratio,      \* CATEGORIZATION_RATIO_THRESHOLD, in hundredths
    AmountOf    \* per text that is an amount once symbols, commas and brackets are gone: the amount

ASSUME LoadingAssumption == MaxUpload \in Nat /\ {RowLimit, ParseChunk} \subseteq Nat \ {0} /\ {MinRows, Ratio} \subseteq Nat

VARIABLES
    upload,  \* the request: its file, where it is, and what it was answered
    temp,    \* the chunks in the temporary file, or that there is none
    df,      \* the columns, each with its raw name, its name and its cells
    profile, \* DatasetProfile
    folder   \* the workspace: the file under the upload's name, the copies for the child, and what failed

loadVars == <<upload, temp, df, profile, folder>>

NoFile == -1
Missing == <<"missing">>
Num(n) == <<"number", n>>
Text(t) == <<"text", t>>
IsText(cell) == cell[1] = "text"

\* A delimited file has one table, whose rows are its lines of kind "row".
RowCount(table) == IF table = <<>> THEN 0 ELSE Len(table[1].cells)
NoProfile == [truncated |-> FALSE, total |-> 0, renamed |-> <<>>, dropped |-> {}]

\* Nothing is written yet.
Empty == [named |-> <<>>, copy |-> <<>>, preserved |-> TRUE, failed |-> FALSE]

LoadInit ==
    /\ \E file \in Uploads : upload = [file |-> file, at |-> "asked", answer |-> "none"]
    /\ temp = NoFile /\ df = <<>> /\ profile = NoProfile
    /\ folder = Empty

Goes(where) == upload' = [upload EXCEPT !.at = where]

\* The temporary file goes whatever happened: cleanup_path in `finally`.
Refuse(status) ==
    /\ upload' = [upload EXCEPT !.at = "over", !.answer = status]
    /\ temp' = NoFile

Accept ==
    /\ upload.at = "asked"
    /\ \/ upload.file.kind # "other" /\ Goes("spools") /\ temp' = 0
       \/ upload.file.kind = "other" /\ Refuse("422")
    /\ UNCHANGED <<df, profile, folder>>

\* Faulty variant: a chunk is written, and then counted.
SpoolUncounted ==
    /\ upload.at = "spools"
    /\ \/ temp = upload.file.chunks /\ Goes("parses") /\ UNCHANGED temp
       \/ temp < upload.file.chunks /\ temp <= MaxUpload /\ temp' = temp + 1 /\ UNCHANGED upload
       \/ temp < upload.file.chunks /\ temp > MaxUpload /\ Refuse("413")
    /\ UNCHANGED <<df, profile, folder>>

\* A chunk is counted before it is written: one too many is refused with what there is removed.
Spool ==
    /\ upload.at = "spools"
    /\ \/ temp = upload.file.chunks /\ Goes("parses") /\ UNCHANGED temp
       \/ temp < upload.file.chunks /\ temp < MaxUpload /\ temp' = temp + 1 /\ UNCHANGED upload
       \/ temp < upload.file.chunks /\ temp >= MaxUpload /\ Refuse("413")
    /\ UNCHANGED <<df, profile, folder>>
-----------------------------------------------------------------------------
(* Reading.                                                                 *)

\* A block without a NUL is tried as UTF-8 and then as UTF-16, which takes any even number of bytes.
Sniffed(file) ==
    IF file.nuls THEN "utf-16"
    ELSE IF file.as = "utf-8" /\ ~file.cut THEN "utf-8"
    ELSE IF file.even THEN "utf-16"
    ELSE "cp1252"

AtMost(n, rows) == SubSeq(rows, 1, IF n < Len(rows) THEN n ELSE Len(rows))
Pick(table, rows) == [i \in DOMAIN table |-> [table[i] EXCEPT !.cells = [k \in DOMAIN rows |-> table[i].cells[rows[k]]]]]
AllRows(table) == [k \in 1..RowCount(table) |-> k]

\* Every stride-th row of each parsed chunk, up to the limit.  The lines are counted before they are
\* parsed, those among them that are blank, broken or a part of a quoted cell.
Stride(lines) == LET whole == Len(lines) \div RowLimit IN IF whole < 1 THEN 1 ELSE whole
Sampled(file) ==
    LET isKept(k) == ((k - 1) % ParseChunk) % Stride(file.lines) = 0
    IN  AtMost(RowLimit, SelectSeq(AllRows(file.tables[1]), isKept))

\* The first of the largest sheets; the first list of a JSON object; the only table of the others.
ChosenTable(file) ==
    IF file.kind = "sheets"
    THEN LET best == CHOOSE i \in DOMAIN file.tables :
                        \A j \in DOMAIN file.tables :
                            \/ RowCount(file.tables[j]) < RowCount(file.tables[i])
                            \/ RowCount(file.tables[j]) = RowCount(file.tables[i]) /\ i <= j
         IN  file.tables[best]
    ELSE file.tables[1]

\* What comes of a file that is read in another encoding than its own: nothing, or a column of noise.
Noise == {<<>>, <<[raw |-> "noise", cells |-> <<Text("noise")>>]>>}

\* What a reader returns: its columns, whether it left rows out, and of how many.
ReadDelimited(file) ==
    IF Sniffed(file) # file.as
    THEN {[df |-> table, truncated |-> FALSE, total |-> RowCount(table)] : table \in Noise}
    ELSE IF Len(file.lines) > RowLimit
    THEN {[df |-> Pick(file.tables[1], Sampled(file)), truncated |-> TRUE, total |-> Len(file.lines)]}
    ELSE {[df |-> file.tables[1], truncated |-> FALSE, total |-> Len(file.lines)]}
ReadWhole(file) ==
    LET table == ChosenTable(file) IN
    {[df |-> Pick(table, AtMost(RowLimit, AllRows(table))), truncated |-> RowCount(table) > RowLimit, total |-> RowCount(table)]}

\* What a file holds is read, or cannot be; without a row it is refused.
Parse ==
    /\ upload.at = "parses"
    /\ \E got \in IF upload.file.kind = "delimited" THEN ReadDelimited(upload.file) ELSE ReadWhole(upload.file) :
          \/ RowCount(got.df) > 0 /\ Goes("names") /\ UNCHANGED temp
             /\ df' = got.df /\ profile' = [profile EXCEPT !.truncated = got.truncated, !.total = got.total]
          \/ RowCount(got.df) = 0 /\ Refuse("400") /\ UNCHANGED <<df, profile>>
    /\ UNCHANGED folder

ParseFails == upload.at = "parses" /\ Refuse("400") /\ UNCHANGED <<df, profile, folder>>
-----------------------------------------------------------------------------
(* What load does to the frame.                                             *)

\* Faulty variant: the second of a name gets its number without a look at the names there are.
FreshUnseen(base, taken) == IF base \notin taken THEN base ELSE Append(base, 1)

\* A name that is taken gets the first number that makes it another: `seen` counts on from the last
\* number tried, and those before it are taken.
Fresh(base, taken) ==
    IF base \notin taken THEN base
    ELSE Append(base, CHOOSE k \in 1..Cardinality(taken) + 1 :
                          Append(base, k) \notin taken /\ \A l \in 1..k - 1 : Append(base, l) \in taken)
Cleaned(raw, position) == IF Stem[raw] = <<>> THEN <<"column", position>> ELSE Stem[raw]
Sanitized(raws) ==
    FoldLeft(LAMBDA names, raw : Append(names, Fresh(Cleaned(raw, Len(names)), Range(names))), <<>>, raws)

\* `renamed` tells the names that changed; a name with one part is the raw one if that reads the same.
RawNames == [i \in DOMAIN df |-> df[i].raw]
Sanitize ==
    /\ upload.at = "names"
    /\ LET names == Sanitized(RawNames) IN
       /\ df' = [i \in DOMAIN df |-> [raw |-> df[i].raw, name |-> names[i], cells |-> df[i].cells]]
       /\ profile' = [profile EXCEPT !.renamed =
                         [raw \in {df[i].raw : i \in {j \in DOMAIN df : names[j] # <<df[j].raw>>}} |->
                              names[CHOOSE i \in DOMAIN df : df[i].raw = raw]]]
    /\ Goes("drops") /\ UNCHANGED <<temp, folder>>

IsEmpty(column) == \A k \in DOMAIN column.cells : column.cells[k] = Missing
DropEmpty ==
    /\ upload.at = "drops"
    /\ df' = SelectSeq(df, LAMBDA column : ~IsEmpty(column))
    /\ profile' = [profile EXCEPT !.dropped = {df[i].name : i \in {j \in DOMAIN df : IsEmpty(df[j])}}]
    /\ Goes("money") /\ UNCHANGED <<temp, folder>>

\* Four fifths of what is there must be amounts; the rest of it is missing then.
IsAmount(cell) == ~IsText(cell) \/ cell[2] \in DOMAIN AmountOf
Amount(cell) ==
    IF cell = Missing \/ ~IsText(cell) THEN cell
    ELSE IF IsAmount(cell) THEN Num(AmountOf[cell[2]]) ELSE Missing
HoldsText(column) == \E k \in DOMAIN column.cells : IsText(column.cells[k])
IsMoney(column) ==
    LET there == {k \in DOMAIN column.cells : column.cells[k] # Missing}
        amounts == {k \in there : IsAmount(column.cells[k])}
    IN  column.raw \in MoneyNames /\ HoldsText(column) /\ 5 * Cardinality(amounts) >= 4 * Cardinality(there)
NormalizeCurrency ==
    /\ upload.at = "money"
    /\ df' = [i \in DOMAIN df |->
                 IF IsMoney(df[i]) THEN [df[i] EXCEPT !.cells = [k \in DOMAIN @ |-> Amount(@[k])]] ELSE df[i]]
    /\ Goes("loaded") /\ UNCHANGED <<temp, profile, folder>>
-----------------------------------------------------------------------------
(* The table of the session.                                                *)

\* A column of texts in which few different values repeat is a category, whatever else is among them.
IsCategory(column) ==
    /\ HoldsText(column) /\ Len(column.cells) >= MinRows
    /\ 100 * Cardinality(Range(column.cells)) < Ratio * Len(column.cells)

\* Feather takes no column of numbers and texts: such a frame has all its text columns made texts,
\* what is missing in them too, but for the categories, so that one of both is not taken again.
Mixed(column) == HoldsText(column) /\ \E k \in DOMAIN column.cells : column.cells[k][1] = "number"
Stringified(column) ==
    IF HoldsText(column) /\ ~IsCategory(column)
    THEN [column EXCEPT !.cells = [k \in DOMAIN @ |-> IF IsText(@[k]) THEN @[k] ELSE Text(@[k])]]
    ELSE column
ForFeather(columns) ==
    IF \E i \in DOMAIN columns : Mixed(columns[i]) THEN [i \in DOMAIN columns |-> Stringified(columns[i])] ELSE columns
Unwritable(columns) == \E i \in DOMAIN columns : Mixed(ForFeather(columns)[i])

\* _materialize: the file under the name of the upload, and then the copies, which are one here.  The
\* first that cannot be written, for the disk or for what is in it, ends it without a word.
CopiesOf(columns) ==
    [named : {<<>>, columns}, copy : {<<>>}, preserved : {TRUE}, failed : {TRUE}] \cup
    {IF Unwritable(columns) THEN [Empty EXCEPT !.named = columns]
     ELSE [named |-> columns, copy |-> ForFeather(columns), preserved |-> ForFeather(columns) = columns, failed |-> FALSE]}

\* A turn that began meanwhile is in the way.
Commit ==
    /\ upload.at = "loaded"
    /\ \/ /\ upload' = [upload EXCEPT !.at = "over", !.answer = "200"]
          /\ folder' \in CopiesOf(df)
          /\ temp' = NoFile
       \/ Refuse("409") /\ UNCHANGED folder
    /\ UNCHANGED <<df, profile>>

\* The process ends: the temporary file stays.
Stops ==
    /\ upload.at # "over"
    /\ upload' = [upload EXCEPT !.at = "over", !.answer = "lost"]
    /\ UNCHANGED <<temp, df, profile, folder>>

LoadNext ==
    \/ Accept \/ Spool \/ Parse \/ ParseFails
    \/ Sanitize \/ DropEmpty \/ NormalizeCurrency \/ Commit \/ Stops
-----------------------------------------------------------------------------
(* Properties.                                                              *)

IsRead == upload.at \in {"names", "drops", "money", "loaded"} \/ upload.answer = "200"
IsNamed == upload.at \in {"money", "loaded"} \/ upload.answer = "200"
ReadAsWritten == upload.file.kind = "delimited" => Sniffed(upload.file) = upload.file.as
Source == ChosenTable(upload.file)
SourceOf(column) == Source[CHOOSE i \in DOMAIN Source : Source[i].raw = column.raw]

\* The upload keeps to its stages, and its temporary file to the size that is let in.
LoadTypeOK ==
    /\ upload.file \in Uploads
    /\ upload.at \in {"asked", "spools", "parses", "names", "drops", "money", "loaded", "over"}
    /\ upload.answer \in {"none", "200", "400", "409", "413", "422", "lost"}
    /\ temp \in {NoFile} \cup 0..MaxUpload
    /\ \A i \in DOMAIN df : Len(df[i].cells) = RowCount(df)

\* No column is lost on the way, or hidden by another one's name: each that the file has is in the
\* frame, in its place and with a name of its own, or told to be dropped; a new name is told too.
ColumnsAreAccounted ==
    IsNamed /\ ReadAsWritten =>
        /\ \A i, j \in DOMAIN df : i # j => df[i].name # df[j].name
        /\ RawNames = SelectSeq([i \in DOMAIN Source |-> Source[i].raw], LAMBDA raw : raw \in Range(RawNames))
        /\ \A i \in DOMAIN df : df[i].name = (IF df[i].raw \in DOMAIN profile.renamed THEN profile.renamed[df[i].raw] ELSE <<df[i].raw>>)
        /\ Cardinality(profile.dropped) = Len(Source) - Len(df)
        /\ \A i \in DOMAIN df : df[i].name \notin profile.dropped

\* The frame is rows of the file, in its order and none twice, not more than the limit, and all of
\* them where it is not said to be a sample.
RowsAreOfFile ==
    IsRead /\ ReadAsWritten =>
        /\ RowCount(df) <= RowLimit
        /\ ~profile.truncated /\ df # <<>> => RowCount(df) = RowCount(Source)
        /\ \E rows \in SUBSET (1..RowCount(Source)) :
              /\ Cardinality(rows) = RowCount(df) \/ df = <<>>
              /\ LET order == SetToSortSeq(rows, <) IN
                 \A i \in DOMAIN df : \A k \in DOMAIN df[i].cells :
                     LET was == SourceOf(df[i]).cells[order[k]] IN
                     df[i].cells[k] \in {was} \cup (IF df[i].raw \in MoneyNames THEN {Amount(was)} ELSE {})

\* No column loses more than a fifth of what it had to the reading of amounts, and one that is not
\* about money loses nothing.
AmountsAreKept ==
    upload.at = "loaded" /\ ReadAsWritten /\ ~profile.truncated =>
        \A i \in DOMAIN df :
            LET was == SourceOf(df[i]).cells
                there == {k \in DOMAIN was : was[k] # Missing}
            IN  5 * Cardinality({k \in there : df[i].cells[k] = Missing}) <= Cardinality(there)

\* An upload that was answered leaves no temporary file.
NothingIsLeftBehind == upload.at = "over" /\ upload.answer # "lost" => temp = NoFile

\* What the child reads is the frame, or only its text columns differ and the writer was told;
\* except after a write the disk refused, and for a frame with a category of numbers and texts,
\* of which there is no copy and nothing told.
CopyIsTold ==
    upload.answer = "200" /\ ~folder.failed /\ ~(\E i \in DOMAIN df : Mixed(df[i]) /\ IsCategory(df[i])) =>
        /\ Len(folder.copy) = Len(df)
        /\ \A i \in DOMAIN df :
              folder.copy[i] # df[i] =>
                  /\ ~folder.preserved /\ HoldsText(df[i]) /\ ~IsCategory(df[i])
                  /\ folder.copy[i].name = df[i].name

\* What the session works on is what was uploaded, as far as it is told.
LoadHolds == ColumnsAreAccounted /\ RowsAreOfFile /\ AmountsAreKept /\ NothingIsLeftBehind /\ CopyIsTold
-----------------------------------------------------------------------------
(***************************************************************************)
(* The reference documents of a session: their upload                      *)
(* (api/routes/datasets.py), how they are cut into passages and searched   *)
(* (core/ingest/documents.py, core/rag/hybrid_search.py, reranker.py), and *)
(* the turn that searches them on a thread beside the event loop.          *)
(*                                                                         *)
(* A text is paragraphs of sentences of characters, and no two characters  *)
(* of it are alike, so a passage is found where it was and nowhere else.   *)
(* It is one that normalising leaves alone.  How near a passage is to the  *)
(* question is left open: every order may come of either ranking.  The     *)
(* filters of search_documents are left out, because no caller sets one.   *)
(***************************************************************************)

CONSTANTS
    Papers,     \* bound: the files that are sent: a kind, and the lengths of their sentences
    PaperNames, \* bound: the names they are sent under
    ChunkChars, \* CONTEXT_CHUNK_CHARS
    Overlap,    \* CONTEXT_CHUNK_OVERLAP
    TopK,       \* CONTEXT_TOP_K, or the passages of the turn's budget
    MaxPages,   \* CONTEXT_DOC_MAX_PDF_PAGES
    MaxRanked,  \* bound: the passages of a search, four at most
    MaxChanges  \* bound: documents that are attached or removed

ASSUME DocumentsAssumption == ChunkChars \in Nat \ {0} /\ {Overlap, TopK, MaxPages, MaxChanges} \subseteq Nat /\ MaxRanked \in 0..4

VARIABLES
    documents, \* Session.documents in the order of the dict
    search,    \* the search of a turn: what it has gathered and found
    changes    \* how often the documents were changed

docVars == <<documents, search, changes>>
-----------------------------------------------------------------------------
(* Chunking.                                                                *)

Joined(parts, separator) ==
    FoldLeft(LAMBDA text, piece : IF text = <<>> THEN piece ELSE text \o separator \o piece, <<>>, parts)

BlankLine == <<<<0, 0, 0>>, <<0, 0, 0>>>>
Blank == <<<<0, 0, 1>>>>

Sentences(paper, p) ==
    [s \in DOMAIN paper.lengths[p] |-> [i \in 1..paper.lengths[p][s] |-> <<p, s, i>>]]
Paragraph(paper, p) == Joined(Sentences(paper, p), Blank)
Body(paper) == Joined([p \in DOMAIN paper.lengths |-> Paragraph(paper, p)], BlankLine)

\* The last `n` characters of a text, or all of a shorter one.
Ending(n, text) == SubSeq(text, IF n < Len(text) THEN Len(text) - n + 1 ELSE 1, Len(text))

\* A sentence that is too long is cut hard, and before what is being packed is put down.
Cuts(sentence) ==
    [k \in 1..((Len(sentence) + ChunkChars - 1) \div ChunkChars) |->
        SubSeq(sentence, (k - 1) * ChunkChars + 1, IF k * ChunkChars < Len(sentence) THEN k * ChunkChars ELSE Len(sentence))]
PutDown(packed) == IF packed.current = <<>> THEN packed.chunks ELSE Append(packed.chunks, packed.current)
Nothing == [chunks |-> <<>>, current |-> <<>>]

AddSentence(packed, sentence) ==
    LET candidate == Joined(<<packed.current, sentence>>, Blank) IN
    IF Len(sentence) > ChunkChars THEN [packed EXCEPT !.chunks = @ \o Cuts(sentence)]
    ELSE IF Len(candidate) <= ChunkChars THEN [packed EXCEPT !.current = candidate]
    ELSE [chunks |-> PutDown(packed), current |-> sentence]

\* Faulty variant: what is packed last is not put down.
SplitLongUnfinished(sentences) == FoldLeft(AddSentence, Nothing, sentences).chunks
SplitLong(sentences) == PutDown(FoldLeft(AddSentence, Nothing, sentences))

\* A paragraph is packed with those before it, or begins a chunk with the tail of the last one.
AddParagraph(packed, sentences) ==
    LET paragraph == Joined(sentences, Blank)
        candidate == Joined(<<packed.current, paragraph>>, BlankLine)
    IN  IF Len(paragraph) > ChunkChars THEN [chunks |-> PutDown(packed) \o SplitLong(sentences), current |-> <<>>]
        ELSE IF Len(candidate) <= ChunkChars THEN [packed EXCEPT !.current = candidate]
        ELSE [chunks |-> PutDown(packed),
              current |-> IF Overlap = 0 THEN paragraph ELSE Ending(Overlap, packed.current) \o BlankLine \o paragraph]
ChunkText(paper) ==
    PutDown(FoldLeft(AddParagraph, Nothing, [p \in DOMAIN paper.lengths |-> Sentences(paper, p)]))

\* str.find: the first place at or after `offset`, or that there is none.
OccursAt(text, body, spot) == spot + Len(body) <= Len(text) /\ SubSeq(text, spot + 1, spot + Len(body)) = body
Find(text, body, offset) ==
    LET places == {spot \in offset..Len(text) : OccursAt(text, body, spot)} IN
    IF places = {} THEN offset ELSE CHOOSE spot \in places : \A other \in places : spot <= other

\* Each page of a paged document is a paragraph here; its range is told in the text.
PageOf(paper, p) ==
    LET from == Find(Body(paper), Paragraph(paper, p), 0) IN [from |-> from, to |-> from + Len(Paragraph(paper, p))]
PagesOf(paper, from, to) ==
    IF paper.kind = "pdf" THEN {p \in DOMAIN paper.lengths : PageOf(paper, p).from < to /\ PageOf(paper, p).to > from} ELSE {}

\* The passages of a document, each looked for after the end of the one before.
Located(paper) ==
    FoldLeft(LAMBDA done, body :
                LET from == Find(Body(paper), body, IF done = <<>> THEN 0 ELSE Last(done).to)
                    to == from + Len(body)
                IN  Append(done, [text |-> body, from |-> from, to |-> to, pages |-> PagesOf(paper, from, to)]),
             <<>>, ChunkText(paper))

Extracts(paper) == paper.kind \in {"text", "pdf"} /\ paper.lengths # <<>> /\ (paper.kind = "pdf" => Len(paper.lengths) <= MaxPages)
-----------------------------------------------------------------------------
(* The session.                                                             *)

NoSearch == [at |-> "none", past |-> 0, size |-> 0, began |-> 0, chunks |-> <<>>, hits |-> <<>>]

DocInit == documents = <<>> /\ search = NoSearch /\ changes = 0

\* A name that is there already keeps its place in the dict.
Places(name) == {i \in DOMAIN documents : documents[i].name = name}
Attach(name, paper) ==
    /\ changes < MaxChanges /\ changes' = changes + 1
    /\ Extracts(paper)
    /\ LET document == [name |-> name, paper |-> paper, chunks |-> Located(paper), version |-> changes'] IN
       documents' = IF Places(name) = {} THEN Append(documents, document @@ [place |-> changes'])
                    ELSE [i \in DOMAIN documents |->
                             IF i \in Places(name) THEN document @@ [place |-> documents[i].place] ELSE documents[i]]
    /\ UNCHANGED search

\* An unknown kind, too many pages or no text: what is attached stays.
RefusePaper(paper) == ~Extracts(paper) /\ UNCHANGED docVars

Detach(name) ==
    /\ changes < MaxChanges /\ changes' = changes + 1
    /\ Places(name) # {}
    /\ documents' = SelectSeq(documents, LAMBDA document : document.name # name)
    /\ UNCHANGED search
-----------------------------------------------------------------------------
(* The search.                                                              *)

BeginSearch ==
    /\ search.at = "none" /\ documents # <<>>
    /\ search' = [NoSearch EXCEPT !.at = "gathers", !.size = Len(documents), !.began = changes]
    /\ UNCHANGED <<documents, changes>>

PassagesOf(document) ==
    [k \in DOMAIN document.chunks |-> [name |-> document.name, version |-> document.version, index |-> k, chunk |-> document.chunks[k]]]
Unread == {i \in DOMAIN documents : documents[i].place > search.past}

\* The dict is iterated without its lock: one that has another size by then breaks the search.
Gather ==
    /\ search.at = "gathers"
    /\ search' =
          IF Len(documents) # search.size THEN [search EXCEPT !.at = "failed"]
          ELSE IF Unread = {} THEN [search EXCEPT !.at = "ranks"]
          ELSE LET document == documents[CHOOSE i \in Unread : \A j \in Unread : i <= j] IN
               [search EXCEPT !.chunks = @ \o PassagesOf(document), !.past = document.place]
    /\ UNCHANGED <<documents, changes>>

Smoothing == 60
Common == (Smoothing + 1) * (Smoothing + 2) * (Smoothing + 3) * (Smoothing + 4)
Worth(ranking, k) ==
    IF k \in Range(ranking) THEN Common \div (Smoothing + CHOOSE i \in DOMAIN ranking : ranking[i] = k) ELSE 0

\* Both rankings are fused; what is worth the same stays in the order it came in.
Fused(dense, lexical) ==
    LET isNew(k) == k \notin Range(dense)
        ids == dense \o SelectSeq(lexical, isNew)
        score(k) == Worth(dense, k) + Worth(lexical, k)
        isBefore(i, j) == score(ids[i]) > score(ids[j]) \/ (score(ids[i]) = score(ids[j]) /\ i < j)
        order == SetToSortSeq(DOMAIN ids, isBefore)
    IN  [i \in DOMAIN ids |-> ids[order[i]]]

Upto(n, list) == SubSeq(list, 1, IF n < Len(list) THEN n ELSE Len(list))
Orders(n) == SetToAllKPermutations(1..n)

Hit(k, dense, lexical) ==
    [name |-> search.chunks[k].name, version |-> search.chunks[k].version, index |-> search.chunks[k].index,
     chunk |-> search.chunks[k].chunk,
     methods |-> (IF k \in Range(dense) THEN {"dense"} ELSE {}) \cup (IF k \in Range(lexical) THEN {"lexical"} ELSE {})]

Rank ==
    /\ search.at = "ranks" /\ Len(search.chunks) <= MaxRanked
    /\ \E dense, lexical \in Orders(Len(search.chunks)) :
          LET selected == Upto(3 * TopK, Fused(dense, lexical)) IN
          search' = [search EXCEPT !.at = "selected", !.hits = [i \in DOMAIN selected |-> Hit(selected[i], dense, lexical)]]
    /\ UNCHANGED <<documents, changes>>

TakeBest ==
    /\ search.at = "selected"
    /\ search' = [search EXCEPT !.at = "found", !.hits = Upto(TopK, @)]
    /\ UNCHANGED <<documents, changes>>

\* The reranker knows a passage by its text: of two that read the same it returns the first twice.
FirstAlike(i) ==
    CHOOSE k \in DOMAIN search.hits :
        /\ search.hits[k].chunk.text = search.hits[i].chunk.text
        /\ \A l \in 1..k - 1 : search.hits[l].chunk.text # search.hits[k].chunk.text
Rerank ==
    /\ search.at = "selected"
    /\ \E order \in SetToSeqs(DOMAIN search.hits) :
          search' = [search EXCEPT !.at = "reranked",
                                   !.hits = Upto(TopK, [i \in DOMAIN order |-> search.hits[FirstAlike(order[i])]])]
    /\ UNCHANGED <<documents, changes>>

\* The turn goes on with what was found, or its step has failed.
TakeHits ==
    /\ search.at \in {"found", "reranked", "failed"}
    /\ search' = NoSearch
    /\ UNCHANGED <<documents, changes>>

DocNext ==
    \/ \E paper \in Papers, name \in PaperNames : RefusePaper(paper) \/ Attach(name, paper)
    \/ \E name \in PaperNames : Detach(name)
    \/ BeginSearch \/ Gather \/ Rank \/ TakeBest \/ Rerank \/ TakeHits
-----------------------------------------------------------------------------
(* Properties.                                                              *)

DocTypeOK ==
    /\ \A i \in DOMAIN documents :
          /\ documents[i].name \in PaperNames /\ documents[i].paper \in Papers
          /\ documents[i].place <= documents[i].version /\ documents[i].version <= changes
    /\ search.at \in {"none", "gathers", "ranks", "selected", "found", "reranked", "failed"}
    /\ changes \in 0..MaxChanges

ReadsIn(text, piece) == \E spot \in 0..Len(text) : OccursAt(text, piece, spot)
TextsOf(document) == {document.chunks[k].text : k \in DOMAIN document.chunks}

\* A document is found whole: every character of it stands in a passage, a paragraph that fits in a
\* passage in one of them, as does a sentence of a longer one; no passage outgrows its room and the
\* tail it repeats.
PassagesHold ==
    \A i \in DOMAIN documents :
        LET document == documents[i]
            paper == document.paper
        IN  /\ \A p \in DOMAIN paper.lengths :
                  /\ \A s \in DOMAIN paper.lengths[p] :
                        LET sentence == Sentences(paper, p)[s] IN
                        /\ Range(sentence) \subseteq UNION {Range(text) : text \in TextsOf(document)}
                        /\ Len(sentence) <= ChunkChars => \E text \in TextsOf(document) : ReadsIn(text, sentence)
                  /\ Len(Paragraph(paper, p)) <= ChunkChars => \E text \in TextsOf(document) : ReadsIn(text, Paragraph(paper, p))
            /\ \A text \in TextsOf(document) : text # <<>> /\ Len(text) <= ChunkChars + Overlap + Len(BlankLine)

\* A turn gets passages of documents that were attached, each for a reason and at most as many as it
\* asked for; none comes twice, unless two read the same and were reranked; and a search breaks only
\* where the documents were changed under it.
HitsHold ==
    /\ search.at \in {"found", "reranked"} => Len(search.hits) <= TopK
    /\ \A i \in DOMAIN search.hits : search.hits[i].methods # {} /\ search.hits[i].version <= changes
    /\ search.at # "reranked" \/ Cardinality({search.chunks[k].chunk.text : k \in DOMAIN search.chunks}) = Len(search.chunks) =>
          \A i, j \in DOMAIN search.hits : i # j => search.hits[i] # search.hits[j]
    /\ search.at = "failed" => changes > search.began

\* The documents of a session and what a turn finds in them.
DocumentsHold == PassagesHold /\ HitsHold
=============================================================================
