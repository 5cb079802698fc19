------------------------------ MODULE PaperText -----------------------------
(***************************************************************************)
(* The text of a paper as the passport reads it: sections.ts cuts it into    *)
(* chunks that fit an embedding request, and citation-evidence.ts finds the  *)
(* references and the citations in the chunks again.  A text is a sequence   *)
(* of lines, a content a sequence of words, a word a pair of a line and a    *)
(* place in it, place 0 being an empty line; tokens are words.               *)
(***************************************************************************)
EXTENDS Naturals, Sequences, FiniteSets, SequencesExt

CONSTANTS
    Texts,           \* texts: lines with their kind, words, key and whether they have a link
    MaxTokens, TargetTokens, MinTokens, MaxSections

ASSUME PaperTextAssumption ==
    /\ MaxTokens > TargetTokens /\ TargetTokens > MinTokens /\ MinTokens > 0 /\ MaxSections > 0
    /\ \A t \in Texts : t # <<>>

VARIABLES
    source,     \* the text
    pending,    \* merged blocks that are still to be cut
    chunks      \* paper_sections

textVars == <<source, pending, chunks>>

\* Kinds of lines: a plain heading, the heading of the references, an empty line, text (which
\* may cite a key), and the start of a reference ("[1] ...", "\bibitem{...}", ...).
Headings == {"head", "refhead"}

KindOf(w) == source[w[1]].kind
Tokens(content) == Cardinality({i \in DOMAIN content : content[i][2] > 0})

-----------------------------------------------------------------------------
(* chunkSections: blocks under headings, small ones merged.                 *)

WordsOf(text, i) ==
    IF text[i].kind = "blank" THEN << <<i, 0>> >> ELSE [k \in 1..text[i].words |-> <<i, k>>]

AddLine(text, blocks, i) ==
    IF text[i].kind \in Headings THEN Append(blocks, [head |-> i, content |-> <<>>])
    ELSE [blocks EXCEPT ![Len(blocks)].content = @ \o WordsOf(text, i)]

\* Without the empty lines around it.
Trim(content) ==
    LET full == {i \in DOMAIN content : content[i][2] > 0}
    IN  IF full = {} THEN <<>>
        ELSE SubSeq(content, CHOOSE i \in full : \A j \in full : i <= j,
                             CHOOSE i \in full : \A j \in full : i >= j)

Blocks(text) ==
    LET all == FoldLeft(LAMBDA bs, i : AddLine(text, bs, i), << [head |-> 0, content |-> <<>>] >>,
                        [i \in DOMAIN text |-> i])
    IN  SelectSeq([b \in DOMAIN all |-> [all[b] EXCEPT !.content = Trim(@)]],
                  LAMBDA b : b.content # <<>>)

IsReference(text, head) == head > 0 /\ text[head].kind = "refhead"

\* A block joins the one before it as long as the two stay small; references stay apart.
Joins(text, last, block) ==
    /\ ~IsReference(text, last.head) /\ ~IsReference(text, block.head)
    /\ Tokens(last.content) + Tokens(block.content) < TargetTokens

\* Contents are joined by an empty line, which has the number of no line.
Join(a, b) == a \o << <<Head(b)[1], 0>> >> \o b

Merge(text, merged, block) ==
    IF merged # <<>> /\ Joins(text, Last(merged), block)
    THEN [merged EXCEPT ![Len(merged)].content = Join(@, block.content)]
    ELSE Append(merged, block)

Merged(text) == FoldLeft(LAMBDA ms, b : Merge(text, ms, b), <<>>, Blocks(text))

-----------------------------------------------------------------------------
(* Chunks.                                                                  *)

TextInit == source \in Texts /\ pending = Merged(source) /\ chunks = <<>>

\* Mutant: only the heading of the new chunk is looked at.
MayJoinHead(head) == ~IsReference(source, head)

\* pushChunk: a tiny chunk joins the one before it, if neither is of the references.
MayJoin(head) == ~IsReference(source, head) /\ ~IsReference(source, Last(chunks).head)

Push(head, content) ==
    chunks' = IF /\ chunks # <<>> /\ MayJoin(head) /\ Tokens(content) < MinTokens
                 /\ Tokens(Last(chunks).content) + Tokens(content) <= MaxTokens
              THEN [chunks EXCEPT ![Len(chunks)].content = Join(@, content)]
              ELSE Append(chunks, [head |-> head, content |-> content])

\* splitByTokens: the longest prefix that fits, cut back to an empty line if there is one in
\* its second half, or to the end of a sentence or a word there.
Prefix(content) ==
    CHOOSE n \in DOMAIN content : /\ Tokens(SubSeq(content, 1, n)) = MaxTokens
                                  /\ content[n][2] > 0
Snaps(content) ==
    LET late  == {n \in 1..Prefix(content) : 2 * n >= Prefix(content)}
        blank == {n \in late : content[n][2] = 0}
    IN  IF blank = {} THEN late ELSE {CHOOSE n \in blank : \A m \in blank : m <= n}

Room == Len(chunks) < MaxSections
First == Head(pending)

PushWhole ==
    /\ pending # <<>> /\ Room /\ Tokens(First.content) <= MaxTokens
    /\ Push(First.head, First.content) /\ pending' = Tail(pending)
    /\ UNCHANGED source

\* The pieces after the first have no heading.
PushPiece ==
    /\ pending # <<>> /\ Room /\ Tokens(First.content) > MaxTokens
    /\ \E n \in Snaps(First.content) :
        /\ Push(First.head, Trim(SubSeq(First.content, 1, n)))
        /\ pending' = [pending EXCEPT ![1] =
               [head |-> 0, content |-> Trim(SubSeq(First.content, n + 1, Len(First.content)))]]
    /\ UNCHANGED source

\* MAX_SECTIONS_PER_PAPER: the rest is left out.
StopAtCap ==
    /\ pending # <<>> /\ ~Room /\ pending' = <<>>
    /\ UNCHANGED <<source, chunks>>

\* A text of headings only is one chunk, cut off.
AllWords == FlattenSeq([i \in DOMAIN source |-> WordsOf(source, i)])

PushHeadings ==
    /\ pending = <<>> /\ chunks = <<>> /\ Trim(AllWords) # <<>>
    /\ LET words == Trim(AllWords)
           fit   == IF Tokens(words) <= MaxTokens THEN words ELSE SubSeq(words, 1, Prefix(words))
       IN  chunks' = << [head |-> 0, content |-> fit] >>
    /\ UNCHANGED <<source, pending>>

TextNext == PushWhole \/ PushPiece \/ StopAtCap \/ PushHeadings

TextSpec == TextInit /\ [][TextNext]_textVars

-----------------------------------------------------------------------------
(* splitCitationCorpus: the words of a chunk that are references.  Without a *)
(* heading they are inferred: from a line on that starts a reference, if it  *)
(* is in the last two thirds of the chunk or the first line, and the lines   *)
(* from there on start more of them or resolve.                             *)

LinesOf(content) == {content[i][1] : i \in {j \in DOMAIN content : content[j][2] > 0}}

\* A piece that begins inside a line has lost what makes it a start, one that ends inside a
\* line what makes it resolve.
StartsIn(content, l) == source[l].kind = "start" /\ \E i \in DOMAIN content : content[i] = <<l, 1>>
LinkIn(content, l)   == source[l].link /\ \E i \in DOMAIN content : content[i] = <<l, source[l].words>>

EmptyLines(content) == {i \in DOMAIN content : content[i][2] = 0}
Height(content) == Cardinality(LinesOf(content)) + Cardinality(EmptyLines(content))
Above(content, l) == Cardinality({m \in LinesOf(content) : m < l})
                     + Cardinality({i \in EmptyLines(content) : content[i][1] <= l})

IsReferenceTail(content, l) ==
    LET tail     == {m \in LinesOf(content) : m >= l}
        starts   == Cardinality({m \in tail : StartsIn(content, m)})
        resolved == Cardinality({m \in tail : LinkIn(content, m)})
        near     == 10 * Above(content, l) >= 3 * Height(content) - 9
    IN  /\ StartsIn(content, l)
        /\ \/ near /\ starts >= 2
           \/ Above(content, l) = 0 /\ starts >= 2 /\ resolved > 0
           \/ near /\ starts >= 1 /\ resolved >= 1 /\ Height(content) - Above(content, l) <= 8

TailStart(content) == {l \in LinesOf(content) : IsReferenceTail(content, l)}

RefWords(chunk) ==
    IF IsReference(source, chunk.head) THEN chunk.content
    ELSE SelectSeq(chunk.content, LAMBDA w :
             \E l \in TailStart(chunk.content) : w[1] >= l)
BodyWords(chunk) ==
    IF IsReference(source, chunk.head) THEN <<>>
    ELSE SelectSeq(chunk.content, LAMBDA w :
             \A l \in TailStart(chunk.content) : w[1] < l)

References == FlattenSeq([c \in DOMAIN chunks |-> RefWords(chunks[c])])
BodyText       == FlattenSeq([c \in DOMAIN chunks |-> BodyWords(chunks[c])])

-----------------------------------------------------------------------------
(* parseReferenceCatalog and extractCitationRefs.                           *)

\* An entry is open from its first line to an empty line or the next start.
ReadWord(catalog, w) ==
    IF KindOf(w) = "start" /\ w[2] = 1
    THEN [entries |-> Append(catalog.entries, [line |-> w[1], link |-> FALSE]), open |-> TRUE]
    ELSE IF w[2] = 0 THEN [catalog EXCEPT !.open = FALSE]
    ELSE catalog

\* The identifier is in the last word of its line.
ReadLink(catalog, w) ==
    IF catalog.open /\ source[w[1]].link /\ w[2] = source[w[1]].words
    THEN [catalog EXCEPT !.entries[Len(catalog.entries)].link = TRUE]
    ELSE catalog

Catalog ==
    FoldLeft(LAMBDA c, w : ReadLink(ReadWord(c, w), w), [entries |-> <<>>, open |-> FALSE],
             References).entries

KeyOf(entry) == source[entry.line].key

\* A line cites a key; the start of a reference that is taken for text cites itself.
Cited == {source[BodyText[i][1]].key : i \in {j \in DOMAIN BodyText : BodyText[j][2] = 1}} \ {0}

Resolved == {i \in DOMAIN Catalog : Catalog[i].link}

\* An item of the passport: the last entry of the key decides.
EntriesOf(key) == {i \in DOMAIN Catalog : KeyOf(Catalog[i]) = key}
Passes(key) ==
    EntriesOf(key) # {} /\ (CHOOSE i \in EntriesOf(key) : \A j \in EntriesOf(key) : j <= i) \in Resolved

Items ==
    LET keys == IF Cited # {} THEN Cited ELSE {KeyOf(Catalog[i]) : i \in DOMAIN Catalog}
    IN  [k \in keys |-> Passes(k)]

-----------------------------------------------------------------------------
(* Properties.                                                              *)

TextTypeOK ==
    /\ source \in Texts
    /\ \A c \in DOMAIN chunks : chunks[c].head \in 0..Len(source) /\ chunks[c].content # <<>>

\* "Properties (guaranteed)" (sections.ts): a chunk fits a request, the order of the text is
\* kept, and every word is in a chunk as long as there is room for one more.
Spoken(content) == SelectSeq(content, LAMBDA w : w[2] > 0)
ChunkWords == Spoken(FlattenSeq([c \in DOMAIN chunks |-> chunks[c].content]))
TextWords  == Spoken(FlattenSeq([i \in DOMAIN source |->
    IF source[i].kind \in Headings THEN <<>> ELSE WordsOf(source, i)]))

ChunksHold ==
    /\ Len(chunks) <= MaxSections /\ \A c \in DOMAIN chunks : Tokens(chunks[c].content) <= MaxTokens
    /\ TextWords # <<>> => IsPrefix(ChunkWords, TextWords)
    /\ TextWords # <<>> /\ pending = <<>> /\ Room => ChunkWords = TextWords

\* What the references of the text are, read from its lines: those under their heading, each
\* with the lines that follow it, and the keys the rest cites.
UnderRefHead(l) ==
    \E h \in 1..l : /\ source[h].kind = "refhead" /\ \A m \in (h + 1)..l : source[m].kind \notin Headings
RealEntries == {l \in DOMAIN source : source[l].kind = "start" /\ UnderRefHead(l)}
FollowedBy(l, m) == \A n \in (l + 1)..m : source[n].kind = "text"
RealResolved == {l \in RealEntries : \E m \in l..Len(source) : FollowedBy(l, m) /\ source[m].link}
RealCited == {source[l].key : l \in {m \in DOMAIN source : ~UnderRefHead(m)}} \ {0}
RealPasses(key) == \E l \in RealResolved :
    source[l].key = key /\ \A m \in RealEntries : source[m].key = key => m <= l

\* The passport counts the references the paper has.  Once the text is cut, without lines
\* elsewhere that look like references, and as long as the references fit in one chunk, each
\* is found once, with a link of its own lines and none of another section, and an item of a
\* citation passes just if the reference it names resolves.
Plain == \A l \in DOMAIN source : source[l].kind = "start" => UnderRefHead(l)
Whole == \A l \in DOMAIN source : UnderRefHead(l) /\ source[l].kind \in {"start", "text"} =>
    \E c \in DOMAIN chunks : /\ IsReference(source, chunks[c].head)
                             /\ <<l, source[l].words>> \in ToSet(chunks[c].content)
ReferencesCounted ==
    pending = <<>> /\ chunks # <<>> /\ Room /\ Plain /\ Whole =>
        /\ {Catalog[i].line : i \in DOMAIN Catalog} = RealEntries
        /\ Len(Catalog) = Cardinality(RealEntries)
        /\ {Catalog[i].line : i \in Resolved} = RealResolved
        /\ Cited = RealCited /\ \A k \in RealCited : Items[k] <=> RealPasses(k)

\* What is indexed and what is counted of a text agree with the text.
TextIsRead == ChunksHold /\ ReferencesCounted
=============================================================================
