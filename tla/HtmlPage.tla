------------------------------- MODULE HtmlPage -------------------------------
(***************************************************************************)
(* The page a reader sees of a version's HTML (web/lib/html-postprocess.ts,  *)
(* citation-resolver.ts, pages/abs/[id]/read.astro): LaTeXML's tags, in      *)
(* order, on their way through the passes of postProcessHtml.  The passes    *)
(* are regular expressions: a match of an element goes from the first tag    *)
(* that opens it to the first that closes one, nested or not.                *)
(***************************************************************************)
EXTENDS Naturals, Sequences, FiniteSets, SequencesExt

CONSTANTS
    Pages,         \* what LaTeXML makes: sequences of tags
    ImageCounts    \* how many figure images a paper may have

ASSUME PageAssumption == ImageCounts \subseteq Nat

VARIABLES
    raw,           \* the page as LaTeXML made it
    served,         \* the page so far
    images,        \* figureImageUrls, by number
    replaceSvg,    \* replaceSvgFigures: the images are a complete set from GROBID
    pass           \* passes that have run

pageVars == <<raw, served, images, replaceSvg, pass>>

\* A tag: what it opens or closes, its id, and what else the passes look at.
PageTag(name) == [name |-> name, end |-> FALSE, id |-> <<>>, level |-> 0, role |-> "none",
              image |-> 0, to |-> 0, found |-> {}, links |-> {}, back |-> <<>>, folded |-> FALSE]
EndTag(name) == [PageTag(name) EXCEPT !.end = TRUE]

Opens(page, i, name) == page[i].name = name /\ ~page[i].end

\* The matches of <name ...>...</name>, each after the one before.
Spans(page, name) ==
    FoldLeft(LAMBDA acc, i :
                 IF acc.from = 0
                 THEN IF Opens(page, i, name) THEN [acc EXCEPT !.from = i] ELSE acc
                 ELSE IF page[i].name = name /\ page[i].end
                      THEN [from |-> 0, spans |-> Append(acc.spans, <<acc.from, i>>)]
                      ELSE acc,
             [from |-> 0, spans |-> <<>>], [i \in DOMAIN page |-> i]).spans

Inside(span)  == (span[1] + 1)..(span[2] - 1)
Foremost(set)    == {i \in set : \A j \in set : i <= j}

-----------------------------------------------------------------------------
(* The passes. *)

\* normalizeLatexmlHeadings
Normalized(t) ==
    IF t.name # "h" \/ t.level \notin 3..6 THEN t
    ELSE IF t.role = "abstract" THEN [t EXCEPT !.level = 2]
    ELSE IF t.role = "paragraph" THEN [t EXCEPT !.name = "p", !.level = 0]
    ELSE IF t.level = 6 THEN [t EXCEPT !.level = 3]
    ELSE t

Leveled(page) == [i \in DOMAIN page |-> Normalized(page[i])]

\* addStableAnchors: a section is counted where it opens, a paragraph by the match it lies in.
SectionIds(page) ==
    [i \in DOMAIN page |->
        IF Opens(page, i, "section") /\ page[i].id = <<>>
        THEN [page[i] EXCEPT
                 !.id = <<"sec", Cardinality({k \in 1..i : Opens(page, k, "section")})>>]
        ELSE page[i]]

ParagraphIds(page) ==
    LET spans == Spans(page, "section")
        Number(i, s) == Cardinality({k \in Inside(spans[s]) : k <= i /\ Opens(page, k, "p")})
    IN  [i \in DOMAIN page |->
            IF Opens(page, i, "p") /\ page[i].id = <<>>
               /\ \E s \in DOMAIN spans : i \in Inside(spans[s])
            THEN LET s == CHOOSE s \in DOMAIN spans : i \in Inside(spans[s])
                 IN  [page[i] EXCEPT !.id = <<"sec", s, "p", Number(i, s)>>]
            ELSE page[i]]

Anchored(page) == ParagraphIds(SectionIds(page))

\* hydrateLatexmlFigures: of a figure the first image, if LaTeXML missed it, or its picture.
Placeholder(page, span) ==
    {i \in Foremost({k \in Inside(span) : Opens(page, k, "img")}) : page[i].role = "missing"}

Picture(page, span) ==
    IF replaceSvg /\ Placeholder(page, span) = {}
    THEN Foremost({k \in Inside(span) : Opens(page, k, "svg")})
    ELSE {}

Wanting(page) ==
    LET spans == Spans(page, "figure")
    IN  [s \in DOMAIN spans |-> Placeholder(page, spans[s]) \cup Picture(page, spans[s])]

\* Each that wants an image takes the next; a picture without one stays.
Hydrated(page) ==
    LET wanting == Wanting(page)
        ImageOf(s) == Cardinality({r \in 1..s : wanting[r] # {}})
    IN  [i \in DOMAIN page |->
            IF \E s \in DOMAIN wanting : i \in wanting[s] /\ ImageOf(s) <= images
            THEN [page[i] EXCEPT !.name = "img", !.role = "inline",
                      !.image = ImageOf(CHOOSE s \in DOMAIN wanting : i \in wanting[s])]
            ELSE page[i]]

\* wrapReferenceSections: what follows the first heading of a match that is "References".
FoldedReferences(page) ==
    LET spans == Spans(page, "section")
        HeadOf(span) == Foremost({k \in Inside(span) : Opens(page, k, "h")})
    IN  [i \in DOMAIN page |->
            IF \E s \in DOMAIN spans : i \in Inside(spans[s]) /\
                   \E h \in HeadOf(spans[s]) : page[h].role = "references" /\ h < i
            THEN [page[i] EXCEPT !.folded = TRUE]
            ELSE page[i]]

\* Citations in the order of the page, and the id each is to have.
Citations(page) == {i \in DOMAIN page : Opens(page, i, "a")}
RefId(page, i)  == <<"ref", page[i].to, Cardinality(Citations(page) \cap 1..i)>>

\* addReferenceBacklinks: a citation that has an id keeps it, and the entry, the first with
\* the name, is given a chip for each of its first three citations all the same.
Backlinks(page) ==
    [i \in DOMAIN page |->
        LET mine == SelectSeq([k \in DOMAIN page |-> k],
                              LAMBDA k : k \in Citations(page) /\ <<"bib", page[k].to>> = page[i].id)
            chips == [n \in DOMAIN mine |-> RefId(page, mine[n])]
        IN  IF i \in Citations(page) /\ page[i].id = <<>>
            THEN [page[i] EXCEPT !.id = RefId(page, i)]
            ELSE IF i \in Foremost({k \in DOMAIN page : page[k].id = page[i].id}) /\ page[i].name = "entry"
            THEN [page[i] EXCEPT !.back = SubSeq(chips, 1, IF Len(chips) > 3 THEN 3 ELSE Len(chips))]
            ELSE page[i]]

\* linkBibliographyIdentifiers: of what the four patterns find in an entry, by start and the
\* longer first, each that begins after the last that was linked.
Sooner(m, n) == m[1] < n[1] \/ (m[1] = n[1] /\ m[2] > n[2])

ChosenOf(found) ==
    FoldLeft(LAMBDA acc, m : IF m[1] < acc.last THEN acc
                             ELSE [last |-> m[2], links |-> acc.links \cup {m}],
             [last |-> 0, links |-> {}], SetToSortSeq(found, Sooner)).links

Linked(page) == [i \in DOMAIN page |-> [page[i] EXCEPT !.links = ChosenOf(page[i].found)]]

-----------------------------------------------------------------------------
PageInit ==
    /\ raw \in Pages /\ served = raw
    /\ images \in ImageCounts /\ replaceSvg \in BOOLEAN
    /\ pass = 0

Pass(n, page) ==
    /\ pass = n - 1
    /\ pass' = n
    /\ served' = page
    /\ UNCHANGED <<raw, images, replaceSvg>>

PageNext ==
    \/ Pass(1, Leveled(served)) \/ Pass(2, Anchored(served)) \/ Pass(3, Hydrated(served))
    \/ Pass(4, FoldedReferences(served)) \/ Pass(5, Backlinks(served)) \/ Pass(6, Linked(served))

PageSpec == PageInit /\ [][PageNext]_pageVars

-----------------------------------------------------------------------------
(* Properties *)

\* Every variable has its type; no pass drops a tag.
PageTypeOK == Len(served) = Len(raw) /\ images \in ImageCounts /\ pass \in 0..6

\* A section opens within another.
Nested(page) == \E s \in DOMAIN Spans(page, "section") :
                    \E i \in Inside(Spans(page, "section")[s]) : Opens(page, i, "section")

\* Every id is there once (html-postprocess.ts:102, :323).
IdsApart ==
    \A i, j \in DOMAIN served : served[i].id = served[j].id /\ served[i].id # <<>> => i = j

\* A chip leads to a citation of its entry, unless that had an id already; and an entry that
\* is cited has a chip (html-postprocess.ts:354).
Cites(k, i) == <<"bib", served[k].to>> = served[i].id

ChipsLead ==
    \A i \in {k \in DOMAIN served : served[k].name = "entry"} :
        /\ \A n \in DOMAIN served[i].back : \E k \in Citations(served) :
               Cites(k, i) /\ (served[k].id = served[i].back[n] \/ raw[k].id # <<>>)
        /\ (\E k \in Citations(served) : Cites(k, i)) => served[i].back # <<>>

\* When sections do not nest, a paragraph's anchor names its section, by its number; and the
\* references fold.
AnchorsTell ==
    ~Nested(raw) =>
        \A s \in DOMAIN Spans(served, "section") : \A i \in Inside(Spans(served, "section")[s]) :
            /\ Opens(served, i, "p") /\ raw[i].id = <<>> => served[i].id[1] = "sec" /\ served[i].id[2] = s
            /\ served[i].name = "entry" => served[i].folded

\* When LaTeXML has drawn none of the figures and each has an image, every figure is given
\* its own (html-postprocess.ts:196).
FiguresTheirOwn ==
    LET spans == Spans(raw, "figure")
        Takes(s) == Placeholder(raw, spans[s]) \cup Picture(raw, spans[s]) # {}
    IN  images = Len(spans) /\ (\A s \in DOMAIN spans : Takes(s))
        => \A s \in DOMAIN spans : \E i \in Inside(spans[s]) : served[i].image = s

\* No heading is more than one level below the one before (html-postprocess.test.ts:58).
HeadingsDescend ==
    LET levels == SelectSeq([i \in DOMAIN served |-> served[i].level], LAMBDA l : l > 0)
    IN  \A n \in 2..Len(levels) : levels[n] <= levels[n - 1] + 1

\* An identifier is in one link at most, and one that meets no other is linked
\* (citation-resolver.test.ts:36).
Meet(m, n) == m # n /\ m[1] < n[2] /\ n[1] < m[2]

LinksMeetNot ==
    \A i \in DOMAIN served :
        /\ \A m, n \in served[i].links : ~Meet(m, n)
        /\ \A m \in served[i].found :
               (\A n \in served[i].found : ~Meet(m, n)) => m \in served[i].links

\* What a reader is given holds all of these.
PageHolds ==
    pass = 6 =>
    IdsApart /\ ChipsLead /\ AnchorsTell /\ FiguresTheirOwn /\ HeadingsDescend /\ LinksMeetNot
=============================================================================
