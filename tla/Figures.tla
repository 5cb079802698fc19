------------------------------- MODULE Figures ------------------------------
(***************************************************************************)
(* The figures of one version (workers/pdf-figures-worker.ts): jobs of three *)
(* origins extract them and write the rows of paper_figures, and after them  *)
(* the marker that says an extraction is complete, in a statement of its     *)
(* own.  GROBID and the crops fail closed: a failure looks like fewer        *)
(* figures.                                                                  *)
(***************************************************************************)
EXTENDS Jobs

CONSTANTS
    FigureJobs,       \* jobs of the queue: after the compile, after a finalize, of the backfill
    Named,            \* the one that has the id of the version; the others have none
    FigureSlots,      \* concurrent jobs of the workers (1, or as configured)
    InPdf, InSource,  \* figures in the final PDF and in the source archive
    MaxFigureAttempts, MaxFigureStalls,   \* of a job (5, 1)
    MaxFigureFaults   \* bound

ASSUME FiguresAssumption ==
    /\ Named \in FigureJobs /\ {InPdf, InSource} \subseteq Nat \ {0}
    /\ MaxFigureAttempts \in Nat \ {0} /\ {MaxFigureStalls, MaxFigureFaults} \subseteq Nat

VARIABLES
    figures,     \* paper_figures: how many rows, cropped from the PDF or taken from the source
    marker,      \* paper_figure_extractions: the same, once an extraction is complete
    figJob,      \* jobs, with force
    cropper,     \* what a slot of the worker is doing
    lapsed,      \* an extraction has found less than there is (history)
    crossed,     \* two runs have been past their look at the rows at once (history)
    torn,        \* a run over an older extraction has ended between its two writes (history)
    figureFaults \* counter of the bound

figVars == <<figures, marker, figJob, cropper, lapsed, crossed, torn, figureFaults>>

NoFigures == [kind |-> "source", n |-> 0]
Unmarked  == [kind |-> "none", n |-> 0]
NoCrop    == [pc |-> "idle", job |-> Named, mine |-> FALSE, found |-> NoFigures]

FiguresInit ==
    /\ figures = NoFigures /\ marker = Unmarked
    /\ figJob = [j \in FigureJobs |-> [job |-> NewJob, force |-> FALSE]]
    /\ cropper = [w \in FigureSlots |-> NoCrop]
    /\ lapsed = FALSE /\ crossed = FALSE /\ torn = FALSE /\ figureFaults = 0

FigureFault == figureFaults < MaxFigureFaults /\ figureFaults' = figureFaults + 1
CropAt(w, l) == cropper[w].pc = l
CropGo(w, l) == cropper' = [cropper EXCEPT ![w].pc = l]
Forced(w)    == figJob[cropper[w].job].force

-----------------------------------------------------------------------------
(* Requests.                                                                *)

\* enqueuePdfFiguresAfterCompile.
AfterCompile ==
    /\ figJob[Named].job.state = "none"
    /\ figJob' = [figJob EXCEPT ![Named].job = Added(@)]
    /\ UNCHANGED <<figures, marker, cropper, lapsed, crossed, torn, figureFaults>>

\* A job without an id, after a finalize.
AfterFinalize(j) ==
    /\ j # Named /\ figJob[j].job.state = "none"
    /\ figJob' = [figJob EXCEPT ![j] = [job |-> Added(NewJob), force |-> FALSE]]
    /\ UNCHANGED <<figures, marker, cropper, lapsed, crossed, torn, figureFaults>>

\* figures-extract-all: the versions without a marker, or every one, by force.
Backfill(j, force) ==
    /\ j # Named /\ figJob[j].job.state = "none" /\ (force \/ marker = Unmarked)
    /\ figJob' = [figJob EXCEPT ![j] = [job |-> Added(NewJob), force |-> force]]
    /\ UNCHANGED <<figures, marker, cropper, lapsed, crossed, torn, figureFaults>>

-----------------------------------------------------------------------------
(* processPdfFiguresJob.                                                    *)

TakeFigures(w, j) ==
    /\ CropAt(w, "idle") /\ figJob[j].job.state = "waiting"
    /\ figJob' = [figJob EXCEPT ![j].job = Taken(@)]
    /\ cropper' = [cropper EXCEPT ![w] = [NoCrop EXCEPT !.pc = "look", !.job = j, !.mine = TRUE]]
    /\ UNCHANGED <<figures, marker, lapsed, crossed, torn, figureFaults>>

\* Unless forced, a marker or a row stops the run; a look that fails sees neither.
StopsHere(w) == ~Forced(w) /\ (marker # Unmarked \/ figures.n > 0)

GoesOn(w) ==
    /\ CropGo(w, "extract")
    /\ crossed' = (crossed \/ \E v \in FigureSlots : cropper[v].pc \in {"extract", "replace", "mark"})

Look(w) ==
    /\ CropAt(w, "look")
    /\ IF StopsHere(w) THEN CropGo(w, "done") /\ UNCHANGED crossed ELSE GoesOn(w)
    /\ UNCHANGED <<figures, marker, figJob, lapsed, torn, figureFaults>>

LookFails(w) ==
    /\ CropAt(w, "look") /\ ~Forced(w) /\ FigureFault /\ GoesOn(w)
    /\ UNCHANGED <<figures, marker, figJob, lapsed, torn>>

\* Crops of the PDF win; the assets of the source are for a PDF without any.
Found(pdf, source) ==
    IF pdf > 0 THEN [kind |-> "pdf", n |-> pdf] ELSE [kind |-> "source", n |-> source]

Extract(w) ==
    /\ CropAt(w, "extract")
    /\ cropper' = [cropper EXCEPT ![w].pc = "replace", ![w].found = Found(InPdf, InSource)]
    /\ UNCHANGED <<figures, marker, figJob, lapsed, crossed, torn, figureFaults>>

\* GROBID is down, poppler fails, or the time is up: what there is by then is the result.
ExtractLess(w, pdf, source) ==
    /\ CropAt(w, "extract") /\ pdf + source < InPdf + InSource /\ FigureFault
    /\ cropper' = [cropper EXCEPT ![w].pc = "replace", ![w].found = Found(pdf, source)]
    /\ lapsed' = TRUE
    /\ UNCHANGED <<figures, marker, figJob, crossed, torn>>

\* replaceForVersion: delete and insert in one transaction.
Replace(w) ==
    /\ CropAt(w, "replace")
    /\ figures' = cropper[w].found /\ CropGo(w, "mark")
    /\ UNCHANGED <<marker, figJob, lapsed, crossed, torn, figureFaults>>

MarkComplete(w) ==
    /\ CropAt(w, "mark")
    /\ marker' = cropper[w].found /\ CropGo(w, "done")
    /\ UNCHANGED <<figures, figJob, lapsed, crossed, torn, figureFaults>>

\* The object store or the database fails: the attempt does.
FiguresFail(w) ==
    /\ cropper[w].pc \in {"extract", "replace", "mark"} /\ FigureFault /\ CropGo(w, "throw")
    /\ torn' = (torn \/ (CropAt(w, "mark") /\ marker # Unmarked))
    /\ UNCHANGED <<figures, marker, figJob, lapsed, crossed>>

Ends(w, job) ==
    /\ figJob' = IF cropper[w].mine THEN [figJob EXCEPT ![cropper[w].job].job = job] ELSE figJob
    /\ cropper' = [cropper EXCEPT ![w] = NoCrop]
    /\ UNCHANGED <<figures, marker, lapsed, crossed, torn, figureFaults>>

FiguresDone(w)  == CropAt(w, "done") /\ Ends(w, Completed(figJob[cropper[w].job].job))
FiguresThrow(w) ==
    CropAt(w, "throw") /\ Ends(w, Retried(figJob[cropper[w].job].job, FALSE, MaxFigureAttempts))

\* The process dies, or it loses the lock of its job and goes on.
FiguresStall(w, dead) ==
    /\ cropper[w].mine /\ FigureFault
    /\ figJob' = [figJob EXCEPT ![cropper[w].job].job = Stalled(@, MaxFigureStalls)]
    /\ cropper' = [cropper EXCEPT ![w] = IF dead THEN NoCrop ELSE [@ EXCEPT !.mine = FALSE]]
    /\ torn' = (torn \/ (dead /\ CropAt(w, "mark") /\ marker # Unmarked))
    /\ UNCHANGED <<figures, marker, lapsed, crossed>>

FiguresNext ==
    \/ AfterCompile
    \/ \E j \in FigureJobs : AfterFinalize(j) \/ \E force \in BOOLEAN : Backfill(j, force)
    \/ \E w \in FigureSlots :
        \/ Look(w) \/ LookFails(w) \/ Extract(w) \/ Replace(w) \/ MarkComplete(w)
        \/ FiguresFail(w) \/ FiguresDone(w) \/ FiguresThrow(w)
        \/ \E j \in FigureJobs : TakeFigures(w, j)
        \/ \E pdf \in 0..InPdf, source \in 0..InSource : ExtractLess(w, pdf, source)
        \/ \E dead \in BOOLEAN : FiguresStall(w, dead)

FiguresSpec == FiguresInit /\ [][FiguresNext]_figVars

-----------------------------------------------------------------------------
(* Properties.                                                              *)

FiguresTypeOK ==
    /\ figures \in [kind: {"pdf", "source"}, n: 0..(InPdf + InSource)]
    /\ marker \in [kind: {"none", "pdf", "source"}, n: 0..(InPdf + InSource)]
    /\ \A j \in FigureJobs : figJob[j].job \in JobSet(MaxFigureAttempts, MaxFigureStalls)
    /\ \A w \in FigureSlots :
        cropper[w].pc \in {"idle", "look", "extract", "replace", "mark", "done", "throw"}

\* "The UI/backfill scripts still need to know it ran" (paper-figures.ts:60): whatever fails,
\* a marker tells the rows that are there, unless a run over an older extraction (forced, or
\* let through by a look that failed) has ended between its two writes, or two runs have
\* crossed; and a version that was extracted without a lapse of the tools has all its
\* figures, however often it is extracted again.
MarkerTellsFigures ==
    /\ ~torn /\ ~crossed /\ (\A w \in FigureSlots : cropper[w].pc # "mark")
        => marker \in {Unmarked, figures}
    /\ ~lapsed => marker \in {Unmarked, [kind |-> "pdf", n |-> InPdf]}
=============================================================================
