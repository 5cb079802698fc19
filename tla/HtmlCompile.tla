----------------------------- MODULE HtmlCompile -----------------------------
(***************************************************************************)
(* The HTML of one version, made by LaTeXML twice over: by the compile stage *)
(* of the saga (submissions.ts, ensureVersionHtml) and by a job an admin     *)
(* asks for, to have it made anew by a later release (recompileHtml,         *)
(* workers/index.ts, clients/latexml/real.ts).  What is made tells its       *)
(* source and the release that made it; the sources of a version are one.    *)
(***************************************************************************)
EXTENDS Jobs

CONSTANTS
    HtmlMakers,       \* Saga, and the workers of the queue: one job each
    Saga,
    MaxReleases,      \* bound: releases of the converter
    MaxHtmlAttempts,  \* attempts of a job (5)
    MaxHtmlStalls,    \* stalls of a job before it fails (1)
    MaxHtmlFaults     \* bound: failed, given up and frozen steps

ASSUME HtmlAssumption ==
    /\ Saga \in HtmlMakers
    /\ {MaxReleases, MaxHtmlAttempts} \subseteq Nat \ {0}
    /\ {MaxHtmlStalls, MaxHtmlFaults} \subseteq Nat

VARIABLES
    release,    \* the release that is deployed
    version,    \* the row of the version: none, with a PDF, with an htmlKey
    stored,     \* the object at papers/<paper>/v<n>/paper.html: its release, 0 for none
    htmlJob,    \* the job html-<paper>-<version>
    pageMakers, \* what the saga's stage and the workers are doing
    landing,    \* puts that were given up and are under way all the same
    lastAsk,    \* the release at the last request that was answered "queued" (history)
    dropped,    \* the queue dropped that request, or had begun with the job (history)
    pagesCross, \* an older page may be put after a newer one (history)
    htmlFaults  \* counter of the bound

htmlPast == <<lastAsk, dropped, pagesCross>>
htmlVars == <<release, version, stored, htmlJob, pageMakers, landing, htmlPast, htmlFaults>>

NoMake == [pc |-> "idle", made |-> 0, holds |-> FALSE]

HtmlInit ==
    /\ release = 1 /\ version = "none" /\ stored = 0
    /\ htmlJob = NewJob
    /\ pageMakers = [m \in HtmlMakers |-> NoMake]
    /\ landing = {}
    /\ lastAsk = 0 /\ dropped = FALSE /\ pagesCross = FALSE
    /\ htmlFaults = 0

HtmlFault ==
    /\ htmlFaults < MaxHtmlFaults
    /\ htmlFaults' = htmlFaults + 1

MakerAt(m, l) == pageMakers[m].pc = l
Making(m)     == ~MakerAt(m, "idle")

\* Workers are replaced one by one: what is being made goes on.
NextRelease ==
    /\ release < MaxReleases
    /\ release' = release + 1
    /\ UNCHANGED <<version, stored, htmlJob, pageMakers, landing, htmlPast, htmlFaults>>

-----------------------------------------------------------------------------
(* Asking. *)

\* recompileHtml: a conflict without a version; else "queued", whatever the queue makes of it.
RecompileHtml ==
    /\ version # "none"
    /\ lastAsk' = release
    /\ dropped' = (htmlJob.state \in {"active", "done", "failed"})
    /\ htmlJob' = Added(htmlJob)
    /\ UNCHANGED <<release, version, stored, pageMakers, landing, pagesCross, htmlFaults>>

\* A week after it was done, a month after it failed, the job's id is forgotten.
ForgetHtmlJob ==
    /\ htmlJob.state \in {"done", "failed"}
    /\ htmlJob' = NewJob
    /\ UNCHANGED <<release, version, stored, pageMakers, landing, htmlPast, htmlFaults>>

-----------------------------------------------------------------------------
(* Making. *)

BeginPage(m, holds) ==
    pageMakers' = [pageMakers EXCEPT ![m] = [NoMake EXCEPT !.pc = "convert", !.holds = holds]]

OthersMake(m) == landing # {} \/ \E o \in HtmlMakers \ {m} : Making(o)

\* The stage reads the row once the PDF is there, and leaves a version alone that has HTML.
StartStage ==
    /\ MakerAt(Saga, "idle") /\ version # "named"
    /\ version' = "pdf"
    /\ BeginPage(Saga, FALSE)
    /\ pagesCross' = (pagesCross \/ OthersMake(Saga))
    /\ UNCHANGED <<release, stored, htmlJob, landing, lastAsk, dropped, htmlFaults>>

TakeHtml(m) ==
    /\ m # Saga /\ MakerAt(m, "idle") /\ htmlJob.state = "waiting"
    /\ htmlJob' = Taken(htmlJob)
    /\ BeginPage(m, TRUE)
    /\ pagesCross' = OthersMake(m)
    /\ UNCHANGED <<release, version, stored, landing, lastAsk, dropped, htmlFaults>>

\* The source is unpacked, its paper found, latexml and latexmlpost run; the page has text.
Convert(m) ==
    /\ MakerAt(m, "convert")
    /\ pageMakers' = [pageMakers EXCEPT ![m].pc = "put", ![m].made = release]
    /\ UNCHANGED <<release, version, stored, htmlJob, landing, htmlPast, htmlFaults>>

PutPage(m) ==
    /\ MakerAt(m, "put")
    /\ stored' = pageMakers[m].made
    /\ pageMakers' = [pageMakers EXCEPT ![m].pc = "name"]
    /\ UNCHANGED <<release, version, htmlJob, landing, htmlPast, htmlFaults>>

\* setHtmlKey; the job is done, unless another worker has it by now.
NamePage(m) ==
    /\ MakerAt(m, "name")
    /\ version' = "named"
    /\ pageMakers' = [pageMakers EXCEPT ![m] = NoMake]
    /\ htmlJob' = IF pageMakers[m].holds THEN Completed(htmlJob) ELSE htmlJob
    /\ UNCHANGED <<release, stored, landing, htmlPast, htmlFaults>>

\* A step fails: no .tex has a documentclass, LaTeXML exits or is killed late, the store or
\* the row fails.  The job has an attempt less; the saga's stage fails.
MakeFails(m) ==
    /\ Making(m)
    /\ HtmlFault
    /\ pageMakers' = [pageMakers EXCEPT ![m] = NoMake]
    /\ htmlJob' = IF pageMakers[m].holds THEN Retried(htmlJob, FALSE, MaxHtmlAttempts) ELSE htmlJob
    /\ UNCHANGED <<release, version, stored, landing, htmlPast>>

\* The circuit of the store gives up on a put, which is not stopped.
PutGivenUp(m) ==
    /\ MakerAt(m, "put")
    /\ landing' = landing \cup {pageMakers[m].made}
    /\ pagesCross' = TRUE
    /\ HtmlFault
    /\ pageMakers' = [pageMakers EXCEPT ![m] = NoMake]
    /\ htmlJob' = IF pageMakers[m].holds THEN Retried(htmlJob, FALSE, MaxHtmlAttempts) ELSE htmlJob
    /\ UNCHANGED <<release, version, stored, lastAsk, dropped>>

PutLands(r) ==
    /\ r \in landing
    /\ landing' = landing \ {r}
    /\ stored' = r
    /\ UNCHANGED <<release, version, htmlJob, pageMakers, htmlPast, htmlFaults>>

\* A worker dies, or is frozen until its lock has expired and goes on all the same.
WorkerStalls(m, frozen) ==
    /\ pageMakers[m].holds
    /\ HtmlFault
    /\ htmlJob' = Stalled(htmlJob, MaxHtmlStalls)
    /\ pageMakers' = [pageMakers EXCEPT ![m] = IF frozen THEN [@ EXCEPT !.holds = FALSE] ELSE NoMake]
    /\ UNCHANGED <<release, version, stored, landing, htmlPast>>

Make(m) == TakeHtml(m) \/ Convert(m) \/ PutPage(m) \/ NamePage(m)

HtmlNext ==
    \/ NextRelease \/ RecompileHtml \/ ForgetHtmlJob \/ StartStage
    \/ \E r \in landing : PutLands(r)
    \/ \E m \in HtmlMakers :
        \/ Make(m) \/ MakeFails(m) \/ PutGivenUp(m)
        \/ \E frozen \in BOOLEAN : WorkerStalls(m, frozen)

HtmlSpec == HtmlInit /\ [][HtmlNext]_htmlVars

-----------------------------------------------------------------------------
(* Properties *)

\* Every variable has its type.
HtmlTypeOK ==
    /\ {release, stored, lastAsk} \subseteq 0..MaxReleases
    /\ version \in {"none", "pdf", "named"}
    /\ htmlJob \in JobSet(MaxHtmlAttempts, MaxHtmlStalls)
    /\ \A m \in HtmlMakers : pageMakers[m] \in
           [pc: {"idle", "convert", "put", "name"}, made: 0..MaxReleases, holds: BOOLEAN]
    /\ landing \subseteq 1..MaxReleases
    /\ {dropped, pagesCross} \subseteq BOOLEAN /\ htmlFaults \in 0..MaxHtmlFaults

\* A row never names a page that is not there, whatever fails between the two
\* (submissions.ts:1073, submissions.ts:1093).
KeyNamesPage == version = "named" => stored # 0

\* "enqueue HTML recompilation for an existing paper version" (routes/papers.ts:664): once the
\* job is done the page is of the release of the last request or a later one, unless the queue
\* knew the id already, or two makers crossed, or a put that was given up landed late.
RequestsAnswered ==
    htmlJob.state = "done" /\ ~dropped /\ ~pagesCross => stored >= lastAsk
=============================================================================
