------------------------------ MODULE Chunker ------------------------------
(***************************************************************************)
(* How a parsed document is cut into chunks (backend/app/chunking):        *)
(* blocks and tables become items, short items join the next one,          *)
(* repeated ones are dropped, and items get a parent by section.  A step   *)
(* is a phase of ChunkingService.chunk_document.                           *)
(*                                                                         *)
(* A text is a sequence of pieces [name, part, len, glued]: words, of      *)
(* letters, and underscores.  A word that is cut has several parts; a      *)
(* piece follows the one before it after a blank unless it is glued to it, *)
(* and in a document a glued piece is an underscore or comes after one.    *)
(* Documents are                                                           *)
(*   [layout, groups, tables, title] with groups (sections or pages)       *)
(*   [title, level, page, blocks, tables], blocks [type, level, lines] and *)
(*   tables [header, rows, page, sheet];                                   *)
(* lines are the items of a list, and else paragraphs, of sentences; rows  *)
(* are of cells, as many as the parser found.  The bars and the rule of a  *)
(* rendered table are left out, and texts are normalised (NFKC) before.    *)
(***************************************************************************)
EXTENDS Naturals, FiniteSets, Sequences, SequencesExt

CONSTANTS Documents,
          TARGET_CHUNK_TOKENS, MAX_CHUNK_TOKENS, MAX_CHUNK_CHARACTERS,
          MAX_PARENT_TOKENS, SMALL_CHUNK_THRESHOLD_TOKENS, MAX_TABLE_ROWS_PER_SLICE,
          Tolerance   \* of the validator; 50 tokens in the code

VARIABLES document, chunking

chunkerVars == <<document, chunking>>

NoDocument == [layout |-> "none"]
ChunkerInit ==
    /\ document = NoDocument
    /\ chunking = [at |-> "idle", items |-> <<>>, kept |-> <<>>, chunks |-> <<>>]
-----------------------------------------------------------------------------
(* The tokens of a text, its blanks included, that split_into_tokens       *)
(* finds: words that are glued are one token, and an underscore is none.   *)
Blank == [name |-> "blank", part |-> 1, len |-> 1, glued |-> FALSE]
IsUnderscore(p) == p.name = "_"
Tokenize(toks, p) ==
    CASE toks = <<>> -> << <<p>> >>
      [] toks # <<>> /\ ~p.glued -> toks \o << <<Blank>>, <<p>> >>
      [] toks # <<>> /\ p.glued /\ (IsUnderscore(p) \/ IsUnderscore(Last(toks)[1])) -> Append(toks, <<p>>)
      [] OTHER -> [toks EXCEPT ![Len(toks)] = Append(@, p)]
SplitIntoTokens(text) == SelectSeq(FoldLeft(Tokenize, <<>>, text), LAMBDA t : ~IsUnderscore(t[1]))

(* Lengths, in characters and in tokens.                                   *)
Letters(text) == SumFunction([i \in DOMAIN text |-> text[i].len])
Chars(text) == Letters(text) + Cardinality({i \in DOMAIN text : i > 1 /\ ~text[i].glued})
WordTokens(len) == 1 + IF len > 8 THEN (len - 8) \div 4 ELSE 0
TokenCount(toks) ==
    SumFunction([i \in DOMAIN toks |-> IF toks[i] = <<Blank>> THEN 0 ELSE WordTokens(Letters(toks[i]))])
Tokens(text) == TokenCount(SplitIntoTokens(text))
InLimits(text, limit) == Tokens(text) <= limit /\ Chars(text) <= MAX_CHUNK_CHARACTERS

(* The loop that every strategy has: an entry joins the current chunk      *)
(* unless that is full with it.                                            *)
Closed(acc) == IF acc.current = <<>> THEN acc.done ELSE Append(acc.done, acc.current)
Pack(entries, full(_, _)) ==
    Closed(FoldLeft(LAMBDA acc, e :
                      IF acc.current # <<>> /\ full(acc.current, e)
                      THEN [done |-> Append(acc.done, acc.current), current |-> <<e>>]
                      ELSE [acc EXCEPT !.current = Append(@, e)],
                    [done |-> <<>>, current |-> <<>>], entries))

TooLong(current, entry) == ~InLimits(FlattenSeq(current) \o entry, TARGET_CHUNK_TOKENS)

(* The text that tokens make when they are put together: what followed an  *)
(* underscore is glued to what came before it.                             *)
JoinTokens(toks) ==
    LET joined == [i \in DOMAIN toks |-> [toks[i] EXCEPT ![1].glued = i > 1 /\ toks[i - 1] # <<Blank>>]]
    IN  SelectSeq(FlattenSeq(joined), LAMBDA p : p.name # Blank.name)

(* A sentence over the limits is cut at its tokens, blanks included, and a *)
(* token of too many characters at every MAX_CHUNK_CHARACTERS.             *)
Cut(tok) ==
    LET n == (Letters(tok) + MAX_CHUNK_CHARACTERS - 1) \div MAX_CHUNK_CHARACTERS IN
    [i \in 1..n |->
       << [tok[1] EXCEPT !.part = i,
             !.len = IF i < n THEN MAX_CHUNK_CHARACTERS ELSE @ - (n - 1) * MAX_CHUNK_CHARACTERS] >>]
WindowFull(current, tok) ==
    \/ TokenCount(Append(current, tok)) > TARGET_CHUNK_TOKENS
    \/ Letters(FlattenSeq(current) \o tok) > MAX_CHUNK_CHARACTERS
SplitHugeSentence(sentence) ==
    LET toks == SplitIntoTokens(sentence)
        windows == Pack(FlattenSeq([i \in DOMAIN toks |-> Cut(toks[i])]), WindowFull)
    IN  SelectSeq([i \in DOMAIN windows |-> JoinTokens(windows[i])], LAMBDA text : text # <<>>)

Flushed(acc) == IF acc.current = <<>> THEN acc.done ELSE Append(acc.done, FlattenSeq(acc.current))

(* A sentence over the limits ends the chunk before it.  Mutant: what was  *)
(* packed so far is kept for later.                                        *)
AroundHugeLate(acc, s) == [acc EXCEPT !.done = @ \o SplitHugeSentence(s)]
AroundHuge(acc, s) == [done |-> Flushed(acc) \o SplitHugeSentence(s), current |-> <<>>]

AddSentence(acc, s) ==
    IF ~InLimits(s, MAX_CHUNK_TOKENS) THEN AroundHuge(acc, s)
    ELSE IF acc.current # <<>> /\ TooLong(acc.current, s)
         THEN [done |-> Flushed(acc), current |-> <<s>>]
         ELSE [acc EXCEPT !.current = Append(@, s)]

ChunkParagraph(sentences) ==
    IF InLimits(FlattenSeq(sentences), MAX_CHUNK_TOKENS) THEN <<FlattenSeq(sentences)>>
    ELSE Flushed(FoldLeft(AddSentence, [done |-> <<>>, current |-> <<>>], sentences))

ChunkBlock(paragraphs) ==
    IF InLimits(FlattenSeq(FlattenSeq(paragraphs)), MAX_CHUNK_TOKENS)
    THEN <<FlattenSeq(FlattenSeq(paragraphs))>>
    ELSE FlattenSeq([i \in DOMAIN paragraphs |-> ChunkParagraph(paragraphs[i])])

ChunkList(lines) ==
    IF InLimits(FlattenSeq(lines), TARGET_CHUNK_TOKENS) THEN <<FlattenSeq(lines)>>
    ELSE LET slices == Pack(lines, TooLong) IN [i \in DOMAIN slices |-> FlattenSeq(slices[i])]

(* Slices of rows, each rendered below the header: the cells of a row that *)
(* have a column there.  Without a header the widest row makes one.        *)
Width(header, rows) == IF header # <<>> THEN Len(header) ELSE Max({Len(r) : r \in ToSet(rows)})
ColumnName == <<[name |-> "Col", part |-> 1, len |-> 3, glued |-> FALSE],
                [name |-> "number", part |-> 1, len |-> 1, glued |-> FALSE]>>
HeaderText(header, rows) ==
    FlattenSeq(IF header # <<>> THEN header ELSE [i \in 1..Width(header, rows) |-> ColumnName])
RowText(row, width) == FlattenSeq(SubSeq(row, 1, Min({width, Len(row)})))
RowsText(header, rows) == FlattenSeq([i \in DOMAIN rows |-> RowText(rows[i], Width(header, rows))])
SliceFits(header, rows) ==
    /\ InLimits(HeaderText(header, rows) \o RowsText(header, rows), TARGET_CHUNK_TOKENS)
    /\ Len(rows) <= MAX_TABLE_ROWS_PER_SLICE
ChunkTable(table) ==
    CASE table.header = <<>> /\ table.rows = <<>> -> <<>>
      [] table.header \o table.rows # <<>> /\ SliceFits(table.header, table.rows) -> <<table.rows>>
      [] OTHER -> Pack(table.rows, LAMBDA rows, r : ~SliceFits(table.header, Append(rows, r)))
-----------------------------------------------------------------------------
(* The headings that a heading of some level leaves open, and itself.      *)
Update(stack, level, title) ==
    Append(SelectSeq(stack, LAMBDA h : h.level < level), [level |-> level, title |-> title])
Titles(stack) == [i \in DOMAIN stack |-> stack[i].title]

(* path stands for heading_path and heading_context, and <<>> for None.    *)
Item(kind, header, text, path, section, page) ==
    [kind |-> kind, header |-> header, text |-> text, path |-> path, section |-> section, page |-> page]

Items(kind, texts, stack, section, page) ==
    [i \in DOMAIN texts |-> Item(kind, <<>>, texts[i], Titles(stack), section, page)]
Title(heading) == FlattenSeq(heading.lines[1])

ExtractBlock(stack, block, section, page) ==
    CASE block.type = "heading" ->
           Items("heading", <<Title(block)>>, stack, IF section = <<>> THEN <<Title(block)>> ELSE section, page)
      [] block.type = "list" -> Items("list", ChunkList(block.lines[1]), stack, section, page)
      [] OTHER -> Items(IF block.type = "paragraph" THEN "paragraph" ELSE "text",
                        ChunkBlock(block.lines), stack, section, page)

ExtractTable(stack, table, section) ==
    LET slices == ChunkTable(table) IN
    [i \in DOMAIN slices |->
       Item("table", HeaderText(table.header, slices[i]), RowsText(table.header, slices[i]),
            Titles(stack), section, table.page)]

(* Blocks in order, with the open headings; a heading of its own opens one.*)
Sections == document.layout = "sections"
SectionOf(group, stack) == IF Sections THEN <<group.title>> ELSE Titles(stack)
Opened(stack, block) ==
    IF block.type = "heading" THEN Update(stack, block.level, Title(block)) ELSE stack
WithBlock(acc, open, block, section, page) ==
    [stack |-> open, items |-> acc.items \o ExtractBlock(open, block, section, page)]
WithTables(acc, tables) ==
    [acc EXCEPT !.items = @ \o FlattenSeq(
       [i \in DOMAIN tables |-> ExtractTable(acc.stack, tables[i], Titles(acc.stack))])]
ExtractGroup(acc, group) ==
    WithTables(
      FoldLeft(LAMBDA a, b : WithBlock(a, Opened(a.stack, b), b, SectionOf(group, a.stack), group.page),
               IF Sections THEN [acc EXCEPT !.stack = Update(@, group.level, group.title)] ELSE acc,
               group.blocks),
      IF Sections THEN <<>> ELSE group.tables)

(* The tables come last, and a document without text is its title.         *)
Extracted(body) ==
    body.items \o FlattenSeq([i \in DOMAIN document.tables |->
       ExtractTable(body.stack, document.tables[i], <<document.tables[i].sheet>>)])
OrTitle(items) ==
    IF items # <<>> THEN items
    ELSE <<Item("text", <<>>, document.title, <<document.title>>, <<>>, 0)>>
Extract ==
    /\ chunking.at = "extract"
    /\ chunking' = [chunking EXCEPT !.at = "merge",
         !.items = OrTitle(Extracted(FoldLeft(ExtractGroup, [stack |-> <<>>, items |-> <<>>], document.groups)))]
    /\ UNCHANGED document

(* A short heading or text joins the next item if they fit together, and   *)
(* the pair is joined to nothing else.                                     *)
JoinsNext(a, b) ==
    /\ Tokens(a.text) < SMALL_CHUNK_THRESHOLD_TOKENS /\ a.kind \in {"heading", "text"}
    /\ b.kind # "table" /\ InLimits(a.text \o b.text, TARGET_CHUNK_TOKENS)
Or(a, none, b) == IF a = none THEN b ELSE a
Joined(a, b) == Item("composite", <<>>, a.text \o b.text, Or(a.path, <<>>, b.path),
                     Or(a.section, <<>>, b.section), Or(a.page, 0, b.page))

Merge(acc, item, rest) ==
    CASE acc.skip -> [acc EXCEPT !.skip = FALSE]
      [] ~acc.skip /\ rest # <<>> /\ JoinsNext(item, Head(rest)) ->
           [out |-> Append(acc.out, Joined(item, Head(rest))), skip |-> TRUE]
      [] OTHER -> [acc EXCEPT !.out = Append(@, item)]
MergeSmall ==
    /\ chunking.at = "merge"
    /\ chunking' = [chunking EXCEPT !.at = "deduplicate",
         !.items = FoldLeftDomain(LAMBDA acc, i : Merge(acc, @[i], SubSeq(@, i + 1, Len(@))),
                                  [out |-> <<>>, skip |-> FALSE], @).out]
    /\ UNCHANGED document

(* The key of an item: its text as rendered, its headings and its page.    *)
Key(item) == <<item.kind = "table", item.header \o item.text, item.path, item.page>>
Deduplicate ==
    /\ chunking.at = "deduplicate"
    /\ chunking' = [chunking EXCEPT !.at = "build",
         !.kept = FoldLeft(LAMBDA kept, x : IF \E i \in DOMAIN kept : Key(kept[i]) = Key(x)
                                            THEN kept ELSE Append(kept, x), <<>>, chunking.items)]
    /\ UNCHANGED document

(* The tokens of a parent over the limit, as many as it may have.          *)
Default == <<[name |-> "Default", part |-> 1, len |-> 7, glued |-> FALSE]>>
SectionKey(item) == Or(item.section, <<>>, IF item.path # <<>> THEN <<item.path[1]>> ELSE <<Default>>)
Truncated(text) ==
    LET toks == SplitIntoTokens(text)
        fitting == {n \in 0..Len(toks) : TokenCount(SubSeq(toks, 1, n)) <= MAX_PARENT_TOKENS}
    IN  IF TokenCount(toks) <= MAX_PARENT_TOKENS THEN text ELSE JoinTokens(SubSeq(toks, 1, Max(fitting)))
Rendered(item) == item.header \o item.text

(* Neighbours of one section get a parent that comes before them.          *)
Chunk(item, parent, index) == [item |-> item, parent |-> parent, index |-> index]
Parent(items) ==
    Item("parent", <<>>, Truncated(FlattenSeq([i \in DOMAIN items |-> Rendered(items[i])])),
         items[1].path, items[1].section, items[1].page)
Family(items, p) == <<Chunk(Parent(items), p, p)>> \o [i \in DOMAIN items |-> Chunk(items[i], p, p + i)]
Build ==
    /\ chunking.at = "build"
    /\ chunking' = [chunking EXCEPT !.at = "validate",
         !.chunks = FoldLeft(LAMBDA chunks, items : chunks \o Family(items, Len(chunks)), <<>>,
                      Pack(chunking.kept, LAMBDA items, x : SectionKey(Last(items)) # SectionKey(x)))]
    /\ UNCHANGED document

Valid(chunk) ==
    /\ Rendered(chunk.item) # <<>>
    /\ Tokens(Rendered(chunk.item)) <= Tolerance + IF chunk.item.kind = "parent" THEN MAX_PARENT_TOKENS ELSE MAX_CHUNK_TOKENS
Validate ==
    /\ chunking.at = "validate"
    /\ chunking' = [chunking EXCEPT
         !.at = IF \A i \in DOMAIN chunking.chunks : Valid(chunking.chunks[i])
                THEN "accepted" ELSE "rejected"]
    /\ UNCHANGED document

BeginChunking ==
    /\ chunking.at = "idle"
    /\ document' \in Documents /\ chunking' = [chunking EXCEPT !.at = "extract"]

ChunkerNext == BeginChunking \/ Extract \/ MergeSmall \/ Deduplicate \/ Build \/ Validate

ChunkerSpec == ChunkerInit /\ [][ChunkerNext]_chunkerVars
-----------------------------------------------------------------------------
(* The reference: the text of the document, in order, without the headers  *)
(* of its tables, and what is never cut in two.  Two things are lost: the  *)
(* cells of a row beyond the last header, and the underscores of a         *)
(* sentence over the limits.                                               *)
TextOf(items) == FlattenSeq([i \in DOMAIN items |-> items[i].text])
WithoutUnderscores(text) == SelectSeq(text, LAMBDA p : ~IsUnderscore(p))
Kept(sentence) == IF InLimits(sentence, MAX_CHUNK_TOKENS) THEN sentence ELSE WithoutUnderscores(sentence)
BlockText(block) ==
    LET sentences == FlattenSeq(block.lines) IN
    FlattenSeq(IF block.type \in {"heading", "list"} THEN sentences
               ELSE [i \in DOMAIN sentences |-> Kept(sentences[i])])
UnderHeader(header, row) ==
    IF header = <<>> \/ Len(row) <= Len(header) THEN row ELSE SubSeq(row, 1, Len(header))
RowsOf(table) == [i \in DOMAIN table.rows |-> FlattenSeq(UnderHeader(table.header, table.rows[i]))]
TextOfTables(tables) == FlattenSeq([i \in DOMAIN tables |-> FlattenSeq(RowsOf(tables[i]))])
GroupText(group) ==
    FlattenSeq([i \in DOMAIN group.blocks |-> BlockText(group.blocks[i])])
    \o IF document.layout = "pages" THEN TextOfTables(group.tables) ELSE <<>>
HasText(table) == table.rows # <<>> \/ (table.header # <<>> /\ SliceFits(table.header, <<>>))
DocumentText ==
    LET text == FlattenSeq([i \in DOMAIN document.groups |-> GroupText(document.groups[i])])
                \o TextOfTables(document.tables)
    IN  IF text = <<>> /\ ~\E t \in ToSet(document.tables) : HasText(t) THEN document.title ELSE text
Whole(text) ==
    LET starts == SelectSeq(text, LAMBDA w : w.part = 1) IN [i \in DOMAIN starts |-> starts[i].name]
Atoms ==
    LET blocks == UNION {ToSet(document.groups[i].blocks) : i \in DOMAIN document.groups} IN
    {BlockText(b) : b \in {c \in blocks : c.type = "heading"}}
    \cup UNION {ToSet(b.lines[1]) : b \in {c \in blocks : c.type = "list"}}
    \cup UNION {ToSet(RowsOf(document.tables[i])) : i \in DOMAIN document.tables}

IsParent(chunk) == chunk.item.kind = "parent"
Children == SelectSeq(chunking.chunks, LAMBDA c : ~IsParent(c))

(* Extraction and merging keep that text, in order, and of equal items     *)
(* under equal headings on one page the first becomes a chunk.             *)
TextIsKept ==
    LET items == chunking.items
        firsts == {i \in DOMAIN items : \A j \in 1..(i - 1) : Key(items[j]) # Key(items[i])}
    IN  /\ Whole(TextOf(items)) = Whole(DocumentText)
        /\ Letters(TextOf(items)) = Letters(DocumentText)
        /\ Len(Children) = Cardinality(firsts)
        /\ \A i \in firsts : Children[Cardinality({j \in firsts : j <= i})].item = items[i]

(* A chunk is within its limits, or is something that is not cut.  Words   *)
(* that ran together may be one token of many: a piece of a cut sentence   *)
(* is within limits as its words are counted.  Only something uncut, or    *)
(* words that ran together, make the validator refuse a document.          *)
RunTogether(text) ==
    \E i \in 2..Len(text) : text[i].glued /\ ~IsUnderscore(text[i]) /\ ~IsUnderscore(text[i - 1])
WordsOf(text) == [i \in DOMAIN text |-> <<text[i]>>]
LimitsAreKept ==
    /\ \A i \in DOMAIN Children :
          LET c == Children[i].item
              limit == IF c.kind \in {"paragraph", "text"} THEN MAX_CHUNK_TOKENS ELSE TARGET_CHUNK_TOKENS IN
          \/ InLimits(Rendered(c), limit)
          \/ c.text \in Atoms
          \/ /\ Chars(c.text) <= MAX_CHUNK_CHARACTERS
             /\ Len(c.text) = 1 \/ (RunTogether(c.text) /\ TokenCount(WordsOf(c.text)) <= TARGET_CHUNK_TOKENS)
    /\ chunking.at = "rejected" =>
          \E i \in DOMAIN chunking.chunks :
             /\ ~Valid(chunking.chunks[i])
             /\ IsParent(chunking.chunks[i]) => RunTogether(chunking.chunks[i].item.text)

(* The ends of tokens in a text, and its words up to one of them.          *)
Ends(text) ==
    {0, Len(text)} \cup
    {n \in 1..(Len(text) - 1) : ~text[n + 1].glued \/ IsUnderscore(text[n]) \/ IsUnderscore(text[n + 1])}
WordsUpTo(text, n) ==
    LET words == WithoutUnderscores(SubSeq(text, 1, n)) IN [i \in DOMAIN words |-> <<words[i].name, words[i].part>>]

(* Chunks are numbered in order; a parent comes just before its children,  *)
(* the neighbours of one section, and has their text, or starts with their *)
(* words: all that it may have, its underscores lost.                      *)
ParentsFit ==
    LET chunks == chunking.chunks IN
    \A i \in DOMAIN chunks :
        /\ chunks[i].index = i - 1
        /\ IF ~IsParent(chunks[i])
           THEN /\ i > 1 /\ chunks[i].parent = chunks[i - 1].parent
                /\ IsParent(chunks[i - 1]) \/ SectionKey(chunks[i].item) = SectionKey(chunks[i - 1].item)
           ELSE LET kids == SelectSeq(chunks, LAMBDA c : c.parent = i - 1 /\ ~IsParent(c))
                    text == FlattenSeq([k \in DOMAIN kids |-> Rendered(kids[k].item)])
                    kept == chunks[i].item.text
                    fitting == {n \in Ends(text) : Tokens(SubSeq(text, 1, n)) <= MAX_PARENT_TOKENS}
                IN  /\ chunks[i].parent = i - 1 /\ kids # <<>>
                    /\ IF Tokens(text) <= MAX_PARENT_TOKENS THEN kept = text
                       ELSE /\ WordsUpTo(kept, Len(kept)) = WordsUpTo(text, Max(fitting))
                            /\ kept = WithoutUnderscores(kept)
                    /\ i > 1 => SectionKey(chunks[i - 1].item) # SectionKey(kids[1].item)

(* What is accepted or refused has been cut with no more loss than that,   *)
(* within the limits, and into a hierarchy that follows the sections.      *)
ChunksAreSound ==
    chunking.at \in {"accepted", "rejected"} => TextIsKept /\ LimitsAreKept /\ ParentsFit
================================================================================
