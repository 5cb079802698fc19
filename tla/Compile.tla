------------------------------- MODULE Compile -------------------------------
(***************************************************************************)
(* A source bundle on its way to a PDF: which of its files is the paper      *)
(* (packages/shared/tex-entry.ts, asked by the preflight of an upload and by *)
(* the compiler), from which directory it is compiled, how often, and what   *)
(* is left behind (clients/compiler/tectonic.ts); and which of its images    *)
(* are its figures (services/source-figure-extractor.ts).  A file has a      *)
(* folder, a name, an extension, and what the code looks for in its text.    *)
(***************************************************************************)
EXTENDS Integers, Sequences, SequencesExt, FiniteSets

CONSTANTS
    Uploads,          \* what authors upload: files in the order of a walk
    WrapCounts,       \* how many folders an archive may be wrapped in
    Attempts,         \* TECTONIC retryAttempts
    MaxCompiles, MaxCompileFaults   \* bounds

ASSUME CompileAssumption ==
    /\ WrapCounts \cup {MaxCompiles, MaxCompileFaults} \subseteq Nat /\ Attempts \in Nat \ {0}

VARIABLES
    upload, wraps,      \* the files, and the folders around them
    preflight,          \* the answer of POST /intake to the upload
    compile,            \* the compiler: place, entry, plan, attempt, and the last run
    workdirs,           \* temporary directories of compiles, by number
    tectonics,          \* runs of tectonic in this compile (history)
    record,             \* the intake record: where title and authors come from
    compiles, compileFaults   \* counters of the bounds

compileVars == <<upload, wraps, preflight, compile, workdirs, tectonics, record, compiles,
                 compileFaults>>

NoRecord  == [kept |-> FALSE, title |-> "none", authors |-> <<>>]
NoCompile == [pc |-> "idle", entry |-> 0, plan |-> 1, attempt |-> 1, last |-> {}]

CompileInit ==
    /\ upload \in Uploads /\ wraps \in WrapCounts /\ preflight = "none" /\ compile = NoCompile
    /\ workdirs = {} /\ tectonics = <<>> /\ record = NoRecord /\ compiles = 0
    /\ compileFaults = 0

CompileFault == compileFaults < MaxCompileFaults /\ compileFaults' = compileFaults + 1

-----------------------------------------------------------------------------
(* The entry of a bundle.                                                   *)

Wrapped(f, n) == [f EXCEPT !.dir = [i \in 1..n |-> "folder"] \o @]
FilesIn(n)    == [i \in DOMAIN upload |-> Wrapped(upload[i], n)]
BundleFiles   == FilesIn(wraps)

\* The folders and names the score knows, one for each of its lists.
SideFolders == {"supplement", "example", "build"}

Times(dir, name) == Cardinality({i \in DOMAIN dir : dir[i] = name})

FolderScore(dir) == 8 * Times(dir, "source") - 85 * Times(dir, "supplement")
                    - 65 * Times(dir, "example") - 120 * Times(dir, "build")

NameScore(name) == CASE name = "main" -> 60  [] name = "paper" -> 45
                     [] name = "paper2" -> 40 [] name = "draft" -> 25
                     [] name = "appendix" -> -55 [] OTHER -> 0

\* scoreLatexEntry: content is what the text itself adds, from -35 to 63.
Score(f) == 100 - (IF 8 * Len(f.dir) > 70 THEN 70 ELSE 8 * Len(f.dir))
            + NameScore(f.name) + FolderScore(f.dir) + f.content

\* .tex files with text and a documentclass in their first lines.
Manuscripts(files) == {i \in DOMAIN files : files[i].ext = "tex" /\ files[i].manuscript}

\* The preflight has the text of files up to 4 MiB, the compiler of all.
Readable(files) == {i \in Manuscripts(files) : ~files[i].large}

\* The only candidate, or the one that leads by 25; of a bundle it is the paper.
Leading(files, set) ==
    {i \in set : \A j \in set \ {i} : Score(files[i]) >= Score(files[j]) + 25}

-----------------------------------------------------------------------------
(* The preflight of an upload.                                              *)

\* missingCompanions: a reference is there if a file has its name, in any folder and
\* with any extension.
MissingRefs(files, entry) ==
    {r \in ToSet(files[entry].refs) : r.name \notin {files[i].name : i \in DOMAIN files}}

\* One file in no folder is sent as it is: it must be a paper, and name no other file.
SingleTex == wraps = 0 /\ Len(upload) = 1

\* The gate of POST /intake.
Preflight ==
    /\ preflight = "none"
    /\ preflight' = IF SingleTex /\ upload[1].manuscript
                    THEN IF upload[1].refs = <<>> THEN "accepted" ELSE "companions_required"
                    ELSE IF Readable(BundleFiles) = {} THEN "no_documentclass"
                    ELSE IF Leading(BundleFiles, Readable(BundleFiles)) = {}
                         THEN "multiple_documentclass"
                    ELSE IF \E e \in Leading(BundleFiles, Readable(BundleFiles)) :
                                MissingRefs(BundleFiles, e) # {}
                         THEN "companions_required"
                    ELSE "accepted"
    /\ UNCHANGED <<upload, wraps, compile, workdirs, tectonics, record, compiles, compileFaults>>

-----------------------------------------------------------------------------
(* What the source says of itself (services/tex-detect.ts).                 *)

\* extractAuthors: an author has the affiliations of its own command and of those that
\* follow, up to the next author; after a command without a name they go to everyone.
ReadFront(acc, c) ==
    IF c.command = "author"
    THEN [authors |-> acc.authors \o [k \in DOMAIN c.names |-> [name |-> c.names[k], at |-> c.at]],
          pending |-> (Len(acc.authors) + 1)..(Len(acc.authors) + Len(c.names))]
    ELSE [acc EXCEPT !.authors =
             [i \in DOMAIN acc.authors |->
                IF i \in acc.pending \/ acc.pending = {}
                THEN [acc.authors[i] EXCEPT !.at = @ \cup c.at] ELSE acc.authors[i]]]

AuthorsOf(front) == FoldLeft(ReadFront, [authors |-> <<>>, pending |-> {}], front).authors

\* extractTexMetadata of the entry the reader finds; a file sent as it is needs no detection.
ReadFrom(files) ==
    LET found == IF SingleTex THEN {1} ELSE Leading(files, Readable(files)) IN
    IF found = {} THEN [title |-> FALSE, authors |-> <<>>]
    ELSE LET f == files[CHOOSE i \in found : TRUE] IN
         [title |-> f.title, authors |-> AuthorsOf(f.front)]

-----------------------------------------------------------------------------
(* The compiler.                                                            *)

CompilingAt(l) == compile.pc = l

\* runOnce makes a directory, and extracts the archive into it.
StartCompile ==
    /\ preflight = "accepted" /\ CompilingAt("idle") /\ compiles < MaxCompiles
    /\ compiles' = compiles + 1 /\ workdirs' = workdirs \cup {compiles + 1}
    /\ compile' = [NoCompile EXCEPT !.pc = "extract"] /\ tectonics' = <<>>
    /\ UNCHANGED <<upload, wraps, preflight, record, compileFaults>>

CompileGo(l) == compile' = [compile EXCEPT !.pc = l]

\* findTopLevelTex reads the tree again, and may find another paper than the preflight.
FindEntry ==
    /\ CompilingAt("extract")
    /\ LET found == Leading(BundleFiles, Manuscripts(BundleFiles)) IN
       IF found = {} THEN CompileGo("failed")
       ELSE compile' = [compile EXCEPT !.pc = "run", !.entry = CHOOSE i \in found : TRUE]
    /\ UNCHANGED <<upload, wraps, preflight, workdirs, tectonics, record, compiles, compileFaults>>

ExtractFails ==
    /\ CompilingAt("extract") /\ CompileFault /\ CompileGo("failed")
    /\ UNCHANGED <<upload, wraps, preflight, workdirs, tectonics, record, compiles>>

\* What stands in a folder: files by name and extension, folders by name.
Standing(files, dir) ==
    {[name |-> files[i].name, ext |-> files[i].ext] : i \in {j \in DOMAIN files : files[j].dir = dir}}
    \cup {[name |-> files[i].dir[Len(dir) + 1], ext |-> ""] :
             i \in {j \in DOMAIN files : Len(files[j].dir) > Len(dir) /\ IsPrefix(dir, files[j].dir)}}

\* prepareNestedEntryAliases: what stands at the root is linked beside a nested entry,
\* but for the folder of the entry and what would hide a file there.
Aliases(files, e) ==
    IF files[e].dir = <<>> THEN {}
    ELSE (Standing(files, <<>>) \ {[name |-> Head(files[e].dir), ext |-> ""]})
         \ Standing(files, files[e].dir)

\* The plans: from the folder of the entry and, if that is not the root, from the root.
PlanCount(files, e) == IF files[e].dir = <<>> THEN 1 ELSE 2

\* A relative reference leads to a file from the folder of the entry, itself or by an alias.
PathTo(files, dir, r) ==
    {i \in DOMAIN files : files[i].dir = dir \o r.dir /\ files[i].name = r.name}

ByAlias(files, e, r) ==
    {i \in PathTo(files, <<>>, r) :
        (IF r.dir = <<>> THEN [name |-> r.name, ext |-> files[i].ext]
         ELSE [name |-> Head(r.dir), ext |-> ""]) \in Aliases(files, e)}

\* What a run of tectonic may come to; its log may say several things at once.
RunResults == {{}} \cup {{"killed"}, {"late"}, {"network"}, {"network", "missing"}, {"latex"},
                         {"missing"}, {"lock"}, {"lock", "latex"}, {"other"}}

\* isTransientTectonicFailure: the network always, a lock unless TeX complains as well.
Transient(r) == /\ "killed" \notin r
                /\ "network" \in r \/ ("lock" \in r /\ r \cap {"latex", "missing"} = {})

\* shouldTryAlternateCompileRoot
AnotherRoot(r) == "killed" \notin r /\ ~Transient(r) /\ "missing" \in r

\* Mutant: a plan is repeated whatever its failure.
AgainAlways(r) == r # {}

\* The plan is repeated.
Again(r) == Transient(r)

\* The attempts of a plan, then another plan; a timeout rejects and ends the compile.
RunTectonic ==
    /\ CompilingAt("run")
    /\ \E r \in RunResults :
        /\ r # {} => CompileFault
        /\ r = {} => UNCHANGED compileFaults
        /\ tectonics' = Append(tectonics, [plan |-> compile.plan, result |-> r])
        /\ compile' =
             IF r = {} THEN [compile EXCEPT !.pc = "pdf", !.last = r]
             ELSE IF "late" \in r THEN [compile EXCEPT !.pc = "failed", !.last = r]
             ELSE IF compile.attempt < Attempts /\ Again(r)
                  THEN [compile EXCEPT !.attempt = @ + 1, !.last = r]
             ELSE IF compile.plan < PlanCount(BundleFiles, compile.entry) /\ AnotherRoot(r)
                  THEN [compile EXCEPT !.attempt = 1, !.plan = @ + 1, !.last = r]
             ELSE [compile EXCEPT !.pc = "failed", !.last = r]
    /\ UNCHANGED <<upload, wraps, preflight, workdirs, record, compiles>>

\* The finally of runOnce, after readGeneratedPdf or an error.
Tidy == workdirs' = workdirs \ {compiles} /\ compile' = [compile EXCEPT !.pc = "idle"]

CompileFailed ==
    /\ CompilingAt("failed") /\ Tidy
    /\ UNCHANGED <<upload, wraps, preflight, tectonics, record, compiles, compileFaults>>

\* The rest of intake: GROBID reads the PDF, or does not; what TeX says of itself goes first,
\* as the metadata reader, which sees what the preflight sees, finds it.
KeepRecord ==
    /\ CompilingAt("pdf") /\ Tidy
    /\ \E grobid \in BOOLEAN :
        /\ IF grobid THEN UNCHANGED compileFaults ELSE CompileFault
        /\ record' =
             LET source == ReadFrom(BundleFiles) IN
             [kept    |-> TRUE,
              title   |-> IF source.title THEN "tex" ELSE IF grobid THEN "grobid" ELSE "none",
              authors |-> IF source.authors # <<>> THEN source.authors
                          ELSE IF grobid THEN <<"grobid">> ELSE <<>>]
    /\ UNCHANGED <<upload, wraps, preflight, tectonics, compiles>>

\* The process dies, and the directory stays.
CompilerDies ==
    /\ ~CompilingAt("idle") /\ CompileFault /\ compile' = [compile EXCEPT !.pc = "idle"]
    /\ UNCHANGED <<upload, wraps, preflight, workdirs, tectonics, record, compiles>>

-----------------------------------------------------------------------------
(* The figures of the source.                                               *)

\* Images of the archive, in its order, but for what packers leave.
MediaAt(files, i) == files[i].ext \in {"png", "pdf", "svg"} /\ ~files[i].empty /\ "junk" \notin ToSet(files[i].dir)

\* The references of every file of TeX with text, in the order of the walk.
RefsFrom(files, i) == IF files[i].ext = "tex" /\ ~files[i].large
                      THEN [k \in DOMAIN files[i].refs |-> [from |-> i, ref |-> files[i].refs[k]]]
                      ELSE <<>>
GraphicRefs(files) ==
    FoldLeft(LAMBDA acc, i : acc \o SelectSeq(RefsFrom(files, i), LAMBDA q : q.ref.graphic),
             <<>>, [i \in DOMAIN files |-> i])

\* texRefMatchesCandidate: from the folder of the file that refers, and from its
\* graphicspath below that folder.
Matching(files, q) ==
    {i \in DOMAIN files :
        /\ MediaAt(files, i) /\ files[i].name = q.ref.name
        /\ q.ref.ext \in {"", files[i].ext}
        /\ \E d \in {<<>>} \cup files[q.from].paths : files[i].dir = files[q.from].dir \o d \o q.ref.dir}

FirstOf(set) == {i \in set : \A j \in set : i <= j}

\* matchReferencedAssets: each reference takes its first image that is not taken.
Matched(files) ==
    FoldLeft(LAMBDA acc, q : acc \o SetToSeq(FirstOf(Matching(files, q) \ ToSet(acc))),
             <<>>, GraphicRefs(files))

\* isSafeFallbackAsset
SafeAsset(f) == /\ ToSet(f.dir) \cap {"supplement", "build"} = {}
                /\ f.name \notin {"main", "paper", "appendix"}

\* Without a reference every image that looks like a figure is one.
SourceFigures(files) ==
    IF GraphicRefs(files) # <<>> THEN Matched(files)
    ELSE SetToSeq({i \in DOMAIN files : MediaAt(files, i) /\ SafeAsset(files[i])})

CompileNext == \/ Preflight \/ StartCompile \/ FindEntry \/ ExtractFails
               \/ RunTectonic \/ CompileFailed \/ KeepRecord \/ CompilerDies

CompileSpec == CompileInit /\ [][CompileNext]_compileVars

-----------------------------------------------------------------------------
(* Properties.                                                              *)

CompileTypeOK ==
    /\ upload \in Uploads /\ wraps \in WrapCounts
    /\ preflight \in {"none", "accepted", "no_documentclass", "multiple_documentclass",
                      "companions_required"}
    /\ compile.pc \in {"idle", "extract", "run", "pdf", "failed"} /\ compile.plan \in 1..2
    /\ compile.attempt \in 1..Attempts /\ workdirs \subseteq 1..compiles
    /\ compiles \in 0..MaxCompiles /\ compileFaults \in 0..MaxCompileFaults

\* "common zip wrapper folders and deeper source/ layouts do not matter" (tex-detect.ts:5):
\* the paper of a bundle is the same in any number of folders, up to eight.
WrapperIgnored ==
    (\A i \in DOMAIN BundleFiles : Len(BundleFiles[i].dir) <= 8) =>
        Leading(BundleFiles, Manuscripts(BundleFiles)) = Leading(upload, Manuscripts(upload))

\* "Clear supplements/examples/templates are deprioritized" (tex-detect.ts:15): a paper that is
\* named as well, says as much and lies as high as another is preferred to it when that one is in
\* a side folder.
SidePapersYield ==
    \A i, j \in Manuscripts(BundleFiles) :
        LET a == BundleFiles[i]  b == BundleFiles[j] IN
        /\ ToSet(a.dir) \cap SideFolders = {} /\ ToSet(b.dir) \cap SideFolders # {}
        /\ NameScore(a.name) >= NameScore(b.name) /\ a.content >= b.content
        /\ Len(a.dir) <= Len(b.dir)
        => j \notin Leading(BundleFiles, Manuscripts(BundleFiles))

\* What the preflight accepts the compiler accepts, as the same paper, unless a text was too
\* long for the preflight; and a compile from the folder of the entry finds what the entry
\* names from there or from the root, unless its own folder hides it.
PlanFindsRefs ==
    compile.entry # 0 =>
        LET e == compile.entry IN
        /\ (\A i \in DOMAIN upload : ~upload[i].large) =>
               {e} = Leading(BundleFiles, Readable(BundleFiles))
        /\ \A r \in ToSet(upload[e].refs) :
               PathTo(BundleFiles, <<>>, r) # {} =>
                   \/ PathTo(BundleFiles, BundleFiles[e].dir, r) \cup ByAlias(BundleFiles, e, r) # {}
                   \/ BundleFiles[e].dir # <<>> /\ r.dir # <<>> /\
                         (Head(r.dir) = Head(BundleFiles[e].dir)
                          \/ [name |-> Head(r.dir), ext |-> ""] \in Standing(BundleFiles, BundleFiles[e].dir))

\* An affiliation goes to the authors of the command before it, and to no one else's, when no
\* \author is empty; and the record of a PDF has the title and the authors its own source
\* names, GROBID down or not, unless that source was too long to be read.
AffiliationsHold ==
    \A i \in DOMAIN upload :
        LET front == upload[i].front  given == AuthorsOf(front) IN
        (\A k \in DOMAIN front : front[k].command = "author" => front[k].names # <<>>) =>
            \A a \in DOMAIN given, k \in DOMAIN front :
                /\ front[k].command = "author" /\ given[a].name \in ToSet(front[k].names)
                => given[a].at = front[k].at \cup UNION {front[m].at : m \in
                       {n \in DOMAIN front : n > k /\ \A q \in (k + 1)..n : front[q].command # "author"}}

MetadataOfThePdf ==
    record.kept /\ (\A i \in DOMAIN upload : ~upload[i].large) =>
        LET f == upload[compile.entry] IN
        /\ f.title => record.title = "tex"
        /\ AuthorsOf(f.front) # <<>> => record.authors = AuthorsOf(f.front)

\* A failure of the author's is not repeated, a transient one is, at most Attempts times in a
\* folder; a second folder is tried for a file that was not found; and a directory outlives its
\* compile only when the process died.
RunsArePaidFor ==
    /\ \A p \in 1..2 : Len(SelectSeq(tectonics, LAMBDA t : t.plan = p)) <= Attempts
    /\ \A i \in 1..(Len(tectonics) - 1) :
           /\ tectonics[i].result \cap {"killed", "late"} = {}
           /\ tectonics[i].result # {}
           /\ tectonics[i].plan = tectonics[i + 1].plan => Transient(tectonics[i].result)
           /\ tectonics[i].plan # tectonics[i + 1].plan =>
                  {"missing"} \subseteq tectonics[i].result /\ "network" \notin tectonics[i].result
    /\ CompilingAt("idle") /\ compileFaults = 0 => workdirs = {}

\* An image is a figure once; when the sources name images each figure is one they name, and a
\* named image that lies where its file says is a figure.
FiguresAreNamed ==
    LET figs == SourceFigures(BundleFiles) refs == GraphicRefs(BundleFiles) IN
    /\ \A i, j \in DOMAIN figs : figs[i] = figs[j] => i = j
    /\ refs # <<>> =>
         /\ \A i \in DOMAIN figs : \E k \in DOMAIN refs : figs[i] \in Matching(BundleFiles, refs[k])
         /\ \A k \in DOMAIN refs : Matching(BundleFiles, refs[k]) # {} =>
                Matching(BundleFiles, refs[k]) \cap ToSet(figs) # {}

\* The paper of a bundle, its compile and its figures.
CompileHolds ==
    /\ preflight = "none" => WrapperIgnored /\ SidePapersYield /\ FiguresAreNamed /\ AffiliationsHold
    /\ PlanFindsRefs /\ MetadataOfThePdf /\ RunsArePaidFor
=============================================================================
