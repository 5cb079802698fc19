------------------------------ MODULE MCRecords ------------------------------
(***************************************************************************)
(* The services that answer people.  They share no state here, so a          *)
(* behaviour has one of them at work, the focus, and the others at rest.     *)
(***************************************************************************)
EXTENDS PaperEdit, Intake, Identity, Explain, TrustPassport, UserKeys, HandlePicker,
        Harvest, Figures, FigureCrop, Announcement, PaperText, SectionIndex, Compile,
        Breakers, Engagement, Flags, DailyBrief, ProfileSync, BskyFeeds, HtmlCompile, HtmlPage,
        Sessions, Seminar, PassportRerun, TLC

CONSTANTS
    focuses,          \* the services a run looks at
    one, two,         \* two of a kind: requests in flight, slots of a worker, uploads
    math, physics, text1, null, word1, word2, tier1, orcid1, orcid2, google,
    bluesky, school, user1, user2, reader1, reader2, reader3, me, you, nobody,
    name1, name2, name3, noname, job1, job2, run1, run2, search1,
    edit1, edit2, badge1, replica1, cron1, briefask1, member1, member2, post1,
    post2, post3, maker1, maker2, saga, plc1, orcid3, google1, toot1, paper1, ada,
    cleo, best, gpt, llama, comma

VARIABLE focus

userVars   == <<idVars, keyVars, pickVars, syncVars, sessVars>>
readVars   == <<askVars, passVars, rerunVars, oaiVars, figVars, cropVars, indexVars, feedVars, pageVars>>
writeVars  == <<editVars, intakeVars, bridgeVars, textVars, compileVars, seminarVars>>
opsVars    == <<breakerVars, engageVars, flagVars, briefVars, htmlVars>>
recordVars == <<focus, userVars, readVars, writeVars, opsVars>>

\* Two of a kind differ in nothing but their names.
Alike == Permutations({one, two})

ProvidersOf == [a \in OAuthAccounts |->
    IF a = plc1 THEN "bluesky" ELSE IF a = orcid3 THEN "orcid"
    ELSE IF a = google1 THEN "google" ELSE "mastodon"]

Edits == {
    [abstract |-> text1], [abstract |-> null], [primary |-> physics], [primary |-> math],
    [cross |-> {physics}], [cross |-> {}],
    [keywords |-> [words |-> {word2}, repeats |-> FALSE]],
    [keywords |-> [words |-> {word1}, repeats |-> TRUE]],
    [primary |-> physics, keywords |-> [words |-> {word1}, repeats |-> FALSE]]}

\* One upload gives a title, authors and a short abstract; the other an ORCID that is none.
Findings == {
    [title |-> "fit", found |-> {"title", "abstract", "authors"}, over |-> {}],
    [title |-> "short", found |-> {"authors"}, over |-> {"authors"}]}

Providers == [a \in Accounts |->
    IF a \in {orcid1, orcid2} THEN "orcid" ELSE IF a = google THEN "google" ELSE "bluesky"]

\* A paper with everything, one of a model's help with thin evidence, one in between.
FullPaper == [ai |-> FALSE, models |-> FALSE, human |-> TRUE,
              authors |-> 2, identified |-> 2, orcids |-> 1,
              section |-> TRUE, markers |-> 20, entries |-> 8, resolved |-> 6,
              byCategory |-> TRUE, formulas |-> 6, cues |-> 4]
ThinPaper == [FullPaper EXCEPT !.ai = TRUE, !.identified = 0, !.orcids = 0, !.section = FALSE,
                               !.markers = 3, !.byCategory = FALSE, !.formulas = 1, !.cues = 1]
SomePaper == [FullPaper EXCEPT !.ai = TRUE, !.models = TRUE, !.human = FALSE, !.authors = 3,
                               !.resolved = 1, !.byCategory = FALSE, !.cues = 1]
Submitted == {FullPaper, ThinPaper, SomePaper}

\* What is read of a text: nothing of a paper that is not indexed; one whose references are
\* not found; all.
GoodText == [NoText EXCEPT !.section = 1, !.markers = 12, !.entries = 8, !.resolved = 6,
                            !.cited = 8, !.found = 6, !.formulas = 6, !.cues = 4,
                            !.bodyFormulas = 6, !.bodyCues = 4, !.snippets = 9, !.statements = 2]
BareText == [GoodText EXCEPT !.section = 0, !.resolved = 7, !.formulas = 1, !.cues = 0,
                             !.bodyFormulas = 1, !.bodyCues = 0, !.snippets = 1]
TextTallies == {NoText, BareText}
KeysFrom(base64, seed) == [base64 |-> base64, hex |-> Unset, seed |-> seed]
SeedOnly  == KeysFrom(Unset, "seed")
SomeKeys  == {SeedOnly, KeysFrom("key", "seed")}

Box(a, b, c, d) == [x0 |-> a, y0 |-> b, x1 |-> c, y1 |-> d]

\* SheetBlocks of a plot and of the text around it: labels, a paragraph, a header, a line
\* number, lines close to the caption; and captions in one, two and two pages' groups.
SheetBlocks == {Box(100, 300, 300, 330), Box(120, 250, 280, 290), Box(80, 120, 560, 240),
           Box(20, 100, 40, 300), Box(150, 331, 260, 346), Box(60, 338, 560, 347),
           Box(320, 280, 620, 320), Box(200, 10, 220, 90)}
OnSheet(n, b) == [page |-> n, box |-> b]
Captions == {<<OnSheet(1, Box(90, 350, 400, 370))>>,
             <<OnSheet(1, Box(90, 390, 400, 410)), OnSheet(1, Box(90, 350, 400, 389))>>,
             <<OnSheet(1, Box(90, 348, 400, 410)), OnSheet(2, Box(90, 35, 400, 38))>>}
Sheets == {[width |-> 600, height |-> 800, blocks |-> b, groups |-> g] :
               b \in {c \in SUBSET SheetBlocks : Cardinality(c) <= 4}, g \in Captions}

\* The metadata make one chunk, the HTML two.
ChunkCounts == [t \in 0..2 |-> IF t = 0 THEN 1 ELSE 2]

\* Titles that fit, and that are cut within a code point of four bytes.
SomeTitles == {<<1, 2>>, <<1, 1, 3, 4, 4, 4>>}

\* Texts: a body, references or none, and what comes after them.
Line(k, n, key, link) == [kind |-> k, words |-> n, key |-> key, link |-> link]
Prose    == Line("text", 5, 0, FALSE)
Citing   == Line("text", 2, 1, FALSE)
Linking  == Line("text", 1, 0, TRUE)
Empty    == Line("blank", 0, 0, FALSE)
Heading  == Line("head", 1, 0, FALSE)
RefHead  == Line("refhead", 1, 0, FALSE)
First1   == Line("start", 2, 1, TRUE)
First1b  == Line("start", 2, 1, FALSE)
First2   == Line("start", 1, 2, FALSE)
Bodies   == {<<>>, <<Prose, Citing>>, <<Prose, Empty, Prose>>, <<Heading, Citing, Heading, Prose>>,
             <<Heading, Heading>>, <<First1, First2>>, <<Citing, Empty, Heading, First2>>}
RefLists == {<<>>} \cup {<<RefHead>> \o r :
             r \in {<<First1, First2, Linking>>, <<First2, Empty, Linking, First1>>, <<First2>>,
                   <<First1, First1b>>, <<First1, First2, First1, First2, Linking>>}}
Endings  == {<<>>, <<Heading, Linking>>, <<Heading, Citing>>, <<Heading, Prose, Prose, Prose>>}
PlainTexts == {b \o r \o e : b \in Bodies, r \in RefLists, e \in Endings} \ {<<>>}

\* Bundles: a paper, what lies beside it, and images; named from the root or from its folder.
By(names, at) == [command |-> "author", names |-> names, at |-> at]
Working(at)   == [command |-> "affiliation", names |-> <<>>, at |-> at]
FrontMatter   == <<By(<<"ada", "bob">>, {}), Working({"x"}), Working({"y"}),
                   By(<<"cleo">>, {"z"}), Working({"x"})>>
Naming(dir, name, ext) == [dir |-> dir, name |-> name, ext |-> ext, graphic |-> name # "intro"]
Paper(dir, name, score, refs) ==
    [dir |-> dir, name |-> name, ext |-> "tex", manuscript |-> TRUE, large |-> FALSE,
     content |-> score, refs |-> refs, paths |-> {<<"plots">>}, empty |-> FALSE,
     title |-> TRUE, front |-> FrontMatter]
Part(dir, name, refs)  == [Paper(dir, name, 0, refs) EXCEPT !.manuscript = FALSE, !.title = FALSE,
                                                           !.front = <<>>]
Image(dir, name, ext)  == [Part(dir, name, <<>>) EXCEPT !.ext = ext]
Fig     == Naming(<<"figs">>, "a", "")
Figs    == <<Fig, Naming(<<>>, "b", "png"), Naming(<<>>, "intro", "")>>
BarePaper == [Paper(<<"source", "v2">>, "paper", 63, <<>>) EXCEPT !.title = FALSE,
                                                                  !.front = <<>>]
Mains   == {Paper(<<>>, "main", 30, Figs), Paper(<<"source">>, "paper", 63, Figs), BarePaper}
Beside  == {Paper(<<"supplement">>, "main", 63, <<Fig>>), Paper(<<"source", "example">>, "letter", 30, <<>>),
            Paper(<<>>, "paper2", 30, <<>>), [Paper(<<>>, "main", 63, <<>>) EXCEPT !.large = TRUE],
            Part(<<"source">>, "intro", <<Fig>>)}
Images  == {<<Image(<<"figs">>, "a", "png"), Image(<<"figs">>, "a", "pdf"),
              Image(<<"junk">>, "b", "png"), Image(<<"source", "plots", "figs">>, "a", "png")>>,
            <<Image(<<>>, "b", "png"), Image(<<"build">>, "b", "pdf"),
              Image(<<"source", "figs">>, "a", "svg"), Part(<<>>, "intro", <<>>)>>}
SourceBundles == {<<p>> : p \in Mains} \cup {<<p, o>> \o i : p \in Mains, o \in Beside, i \in Images}

\* One member has at Bluesky the handle of the other here.
HandlesHere  == [m \in Members |-> IF m = member1 THEN name1 ELSE name2]
HandlesThere == [m \in Members |-> IF m = member1 THEN name2 ELSE name3]

\* Feeds: one paper has a hard question, one is yet to be announced.
TraitsOf    == [p \in FeedPapers |-> IF p = post1 THEN {"questions"} ELSE {}]
AnnouncedAt == [p \in FeedPapers |-> IF p = post1 THEN 2 ELSE IF p = post2 THEN 1 ELSE 0]

\* Pages of LaTeXML: sections that nest or not, figures drawn or missing, citations with and
\* without an id, headings at the levels LaTeXML gives them, identifiers that overlap.
SecTag(id)          == [PageTag("section") EXCEPT !.id = id]
HeadTag(level, of)  == [PageTag("h") EXCEPT !.level = level, !.role = of]
CiteTag(k, id)      == [PageTag("a") EXCEPT !.to = k, !.id = id]
ImgTag(role)        == [PageTag("img") EXCEPT !.role = role]
EntryTag(k, found)  == [PageTag("entry") EXCEPT !.id = <<"bib", k>>, !.found = found]
FigTags(inner)      == <<PageTag("figure")>> \o inner \o <<EndTag("figure")>>

PageTop == <<HeadTag(1, "title"), HeadTag(6, "abstract")>>
SectionTags == {
    <<SecTag(<<"S", 1>>), HeadTag(2, "title"), PageTag("p"), CiteTag(1, <<>>), PageTag("p"),
      EndTag("section")>>,
    <<SecTag(<<>>), HeadTag(2, "title"), HeadTag(5, "paragraph"), PageTag("p"),
      CiteTag(2, <<"own", 1>>), CiteTag(1, <<>>), SecTag(<<"S", 2>>), HeadTag(3, "title"),
      PageTag("p"), CiteTag(2, <<>>), EndTag("section"), PageTag("p"), EndTag("section")>>,
    <<SecTag(<<>>), HeadTag(2, "title"), HeadTag(6, "title"), CiteTag(1, <<>>), CiteTag(2, <<>>),
      CiteTag(1, <<>>), CiteTag(1, <<>>), CiteTag(1, <<>>), EndTag("section")>>}
PlateTags == {
    <<>>, FigTags(<<PageTag("svg")>>),
    FigTags(<<ImgTag("missing")>>) \o FigTags(<<PageTag("svg")>>),
    FigTags(<<ImgTag("drawn")>>) \o FigTags(<<ImgTag("missing")>>),
    FigTags(FigTags(<<ImgTag("missing")>>) \o FigTags(<<ImgTag("missing")>>))}
ReferenceTags == {
    <<>>,
    <<SecTag(<<>>), HeadTag(2, "references"), EntryTag(1, {<<1, 5>>, <<3, 5>>, <<7, 9>>}),
      EntryTag(2, {<<1, 5>>, <<1, 3>>, <<5, 9>>}), EndTag("section")>>}
HtmlPages == {PageTop \o s \o f \o r : s \in SectionTags, f \in PlateTags, r \in ReferenceTags}
ShortPage == CHOOSE r \in HtmlPages : \A q \in HtmlPages : Len(r) <= Len(q)

\* Services that are at rest begin in one state.
RecordsInit ==
    /\ focus \in focuses
    /\ focus # "explain" => summary = [t \in Topics |-> NoSummary]
    /\ focus # "passport" => paper = FullPaper
    /\ focus # "keys" => kek = TRUE
    /\ focus # "bridge" => title = <<1, 2>>
    /\ focus # "text" => source = <<Prose, Citing>>
    /\ focus # "compile" => upload = <<BarePaper>> /\ wraps = 0
    /\ focus # "crop" => layout = CHOOSE l \in Layouts : TRUE
    /\ focus # "engagement" => signal = FALSE
    /\ focus # "flags" => override = "unset" /\ flag = "unset"
    /\ focus # "page" => raw = ShortPage /\ images = 0 /\ replaceSvg = FALSE
    /\ EditInit /\ IntakeInit /\ IdentityInit /\ ExplainInit /\ PassportInit
    /\ UserKeysInit /\ HandleInit /\ HarvestInit /\ FiguresInit /\ CropInit
    /\ AnnouncementInit /\ TextInit /\ IndexInit /\ CompileInit
    /\ BreakersInit /\ EngagementInit /\ FlagsInit /\ BriefInit /\ SyncInit /\ FeedInit
    /\ HtmlInit /\ PageInit /\ SessionsInit /\ SeminarInit /\ RerunInit

RecordsNext ==
    /\ UNCHANGED focus
    /\ IF focus = "bridge" THEN AnnouncementNext ELSE UNCHANGED bridgeVars
    /\ IF focus = "text" THEN TextNext ELSE UNCHANGED textVars
    /\ IF focus = "compile" THEN CompileNext ELSE UNCHANGED compileVars
    /\ IF focus = "keys" THEN UserKeysNext ELSE UNCHANGED keyVars
    /\ IF focus = "handle" THEN HandleNext ELSE UNCHANGED pickVars
    /\ IF focus = "explain" THEN ExplainNext ELSE UNCHANGED askVars
    /\ IF focus = "harvest" THEN HarvestNext ELSE UNCHANGED oaiVars
    /\ IF focus = "crop" THEN CropNext ELSE UNCHANGED cropVars
    /\ IF focus = "feeds" THEN FeedsNext ELSE UNCHANGED feedVars
    /\ IF focus = "page" THEN PageNext ELSE UNCHANGED pageVars
    /\ IF focus = "html" THEN HtmlNext ELSE UNCHANGED htmlVars
    /\ IF focus = "passport" THEN PassportNext ELSE UNCHANGED passVars
    /\ IF focus = "brief" THEN BriefNext ELSE UNCHANGED briefVars
    /\ IF focus = "flags" THEN FlagsNext ELSE UNCHANGED flagVars
    /\ IF focus = "figures" THEN FiguresNext ELSE UNCHANGED figVars
    /\ IF focus = "index" THEN IndexNext ELSE UNCHANGED indexVars
    /\ IF focus = "rerun" THEN RerunNext ELSE UNCHANGED rerunVars
    /\ IF focus = "seminar" THEN SeminarNext ELSE UNCHANGED seminarVars
    /\ IF focus = "edit" THEN EditNext ELSE UNCHANGED editVars
    /\ IF focus = "outage" THEN BreakersNext ELSE UNCHANGED breakerVars
    /\ IF focus = "sessions" THEN SessionsNext ELSE UNCHANGED sessVars
    /\ IF focus = "engagement" THEN EngagementNext ELSE UNCHANGED engageVars
    /\ IF focus = "profile" THEN SyncNext ELSE UNCHANGED syncVars
    /\ IF focus = "intake" THEN IntakeNext ELSE UNCHANGED intakeVars
    /\ IF focus = "identity" THEN IdentityNext ELSE UNCHANGED idVars

RecordsSpec == RecordsInit /\ [][RecordsNext]_recordVars

\* Every variable of the modules has its type; with the constraints of the
\* tables (unique DIDs, non-null categories) as part of it.
RecordsTypeOK ==
    /\ focus = "edit" => EditTypeOK
    /\ focus = "intake" => IntakeTypeOK
    /\ focus = "identity" => IdentityTypeOK
    /\ focus = "explain" => ExplainTypeOK
    /\ focus = "passport" => PassportTypeOK
    /\ focus = "rerun" => RerunTypeOK
    /\ focus = "keys" => UserKeysTypeOK
    /\ focus = "handle" => HandleTypeOK
    /\ focus = "harvest" => HarvestTypeOK
    /\ focus = "figures" => FiguresTypeOK
    /\ focus = "crop" => CropTypeOK
    /\ focus = "bridge" => AnnouncementTypeOK
    /\ focus = "text" => TextTypeOK
    /\ focus = "index" => IndexTypeOK
    /\ focus = "compile" => CompileTypeOK
    /\ focus = "outage" => BreakersTypeOK
    /\ focus = "engagement" => EngagementTypeOK
    /\ focus = "flags" => FlagsTypeOK
    /\ focus = "brief" => BriefTypeOK
    /\ focus = "profile" => SyncTypeOK
    /\ focus = "feeds" => FeedTypeOK
    /\ focus = "html" => HtmlTypeOK
    /\ focus = "page" => PageTypeOK
    /\ focus = "sessions" => SessionsTypeOK
    /\ focus = "seminar" => SeminarTypeOK

\* What a reader is told of a paper is explained, and is the same on the page and
\* in the signed passport; a passport tells the disputes and their history as they are, and
\* a re-run of one that was kept reports a change when there is one, and only then
\* (trust-passport.ts, trust-passport-bundle.ts:447, papers.ts:160).
PassportAddsUp ==
    /\ focus = "passport" => NotGreenIsExplained /\ PageMatchesPassport
    /\ focus = "rerun" => RerunHolds

\* An account signs in to one user, the canonical DID of a user is the best of their
\* links; a row falls back to an older profile only after refreshes that cross, and to an
\* older handle only after a late choice; a session of any age finds and commands the
\* papers of its user, and none else; a Mastodon account goes to a user who asked
\* (account-linking.ts:7, account-linking.ts:22, bluesky-profile-sync.ts:38,
\* me-submissions.ts:62, versions.ts:92, auth-mastodon.ts:89).
IdentityHolds ==
    /\ focus = "identity" => HomesKept /\ OneHome /\ BestDid
    /\ focus = "sessions" => SubmissionsAreMine /\ AuthorsAct /\ MastodonAsked
    /\ focus = "profile" => ProfilesGoForward /\ ChoicesComeBackLate

\* The sections a text is cut into, and the rows the index keeps of them (sections.ts:310).
SearchHolds == (focus = "text" => TextIsRead) /\ (focus = "index" => IndexHolds)

\* The marker and the rows of figures agree, a crop lies on its page, and the page a reader
\* is served keeps its links, anchors and figures straight (pdf-figures-worker.ts:166,
\* figure-extractor.ts:339, html-postprocess.ts:14).
FiguresHold ==
    (focus = "figures" => MarkerTellsFigures) /\ (focus = "crop" => CropsFit)
    /\ (focus = "page" => PageHolds)

\* A bundle has one paper, and its compile, its metadata and its figures are of that paper
\* (tex-detect.ts:5, tectonic.ts:270).
BundlesHold == focus = "compile" => CompileHolds

\* An outage opens its own circuits, spares its provider, and leaves a dead letter for
\* each job it killed and no embedding of an older text; a flag that is changed is
\* followed everywhere within its thirty seconds; a version names a page that is there, and
\* a request the queue took has it made anew (llm/breaker.ts:18, workers/index.ts:63,
\* docs/ops/feature-flags.md:34, routes/papers.ts:664).
OperationsHold ==
    /\ focus = "outage" => CircuitsKeepApart /\ ProvidersSpared /\ LettersTell /\ EmbeddingFresh
    /\ focus = "flags" => FlagsSettle
    /\ focus = "html" => KeyNamesPage /\ RequestsAnswered

\* What is counted about a paper is counted once, and the badge tells it; the brief of
\* a day is kept, and stays; a walk of a feed misses nothing that was there throughout;
\* a thread has one pin, of its author (posts.ts:109, events.ts:24, engagement-stats.ts:79,
\* daily-brief-cron.ts:9, feed-skeleton.ts:11).
PagesHold ==
    /\ focus = "engagement" => CountedOnce /\ BadgeIsCurrent /\ OneEndorsement /\ BadgeIsModest
    /\ focus = "brief" => EveryDayKept /\ SnapshotsStay /\ EditionsApart
    /\ focus = "feeds" => WalksAreComplete /\ OneVersionEach
    /\ focus = "seminar" => OnePin /\ OwnPins
=============================================================================
