----------------------------- MODULE PdfFinalize ----------------------------
(***************************************************************************)
(* The cover-stamped PDF of one version (services/pdf-finalize.ts,           *)
(* services/doi.ts, workers/pdf-finalize-worker.ts).  The inputs of a cover  *)
(* are a revision number: an edit, a DOI or new trust evidence gives the     *)
(* next one.  A job reads them, and only later saves what it built of them.  *)
(***************************************************************************)
EXTENDS Jobs

CONSTANTS
    FinalizeJobs,    \* job ids: SubmitJob, DoiJob and those of backfills
    SubmitJob,       \* pdf-finalize-<version>, the saga's
    DoiJob,          \* the job a DOI deposit adds
    FinalizeSlots,   \* concurrent jobs of the worker (2)
    MaxFinAttempts,  \* attempts of a job (5)
    MaxFinStalls,    \* stalls of a job before it fails (1)
    MaxFinFaults,    \* bound: failures and crashes
    MaxRevisions     \* bound: revisions of the inputs

ASSUME FinalizeAssumption ==
    /\ {SubmitJob, DoiJob} \subseteq FinalizeJobs /\ SubmitJob # DoiJob
    /\ {MaxFinAttempts, MaxRevisions} \subseteq Nat \ {0}
    /\ {MaxFinStalls, MaxFinFaults} \subseteq Nat

VARIABLES
    inputs,      \* the revision of the row, its relations and the sections
    doi,         \* has the paper a DOI?
    final,       \* final_pdf_content_hash and the url with it, 0 for null
    blobs,       \* final PDFs in the store: what the key of a revision holds
    finJob,      \* the finalize queue
    forced,      \* the jobs that carry force
    builder,     \* what a slot of the worker is doing
    deposit,     \* the DOI deposit
    wanted,      \* the inputs at the last request the queue took (history)
    overlapped,  \* two jobs have been active at once (history)
    cutOff,      \* a deposit ended between the DOI and its job (history)
    finFaults    \* counter of the bound

paperSide == <<inputs, doi, deposit, cutOff>>
shown     == <<final, blobs>>
finQueue  == <<finJob, forced, wanted>>
finVars   == <<paperSide, shown, finQueue, builder, overlapped, finFaults>>

NoBuild == [pc |-> "idle", job |-> SubmitJob, rev |-> 0, variant |-> "none"]

\* cover+sidebar, or one of the two fallbacks, which differ only in layout.
Variants == {"full", "fallback"}

FinalizeInit ==
    /\ inputs = 1 /\ doi = FALSE /\ deposit = "idle" /\ cutOff = FALSE
    /\ final = 0 /\ blobs = [r \in 1..MaxRevisions |-> "none"]
    /\ finJob = [j \in FinalizeJobs |-> NewJob] /\ forced = {} /\ wanted = 0
    /\ builder = [w \in FinalizeSlots |-> NoBuild]
    /\ overlapped = FALSE /\ finFaults = 0

FinFault ==
    /\ finFaults < MaxFinFaults
    /\ finFaults' = finFaults + 1

BuilderAt(w, l) == builder[w].pc = l

\* An edit of the title, the licence or the categories, new summaries,
\* sections or HTML: all that the hash covers.
ChangeInputs ==
    /\ inputs < MaxRevisions
    /\ inputs' = inputs + 1
    /\ UNCHANGED <<doi, deposit, cutOff, shown, finQueue, builder, overlapped, finFaults>>

Request(j, force) ==
    /\ finJob' = [finJob EXCEPT ![j] = Added(@)]
    /\ forced' = IF force /\ finJob[j].state = "none" THEN forced \cup {j} ELSE forced
    /\ wanted' = IF finJob[j].state = "none" THEN inputs ELSE wanted

\* The saga's last stage: its id is known for a week.
RequestFinalize ==
    /\ Request(SubmitJob, FALSE)
    /\ UNCHANGED <<paperSide, shown, builder, overlapped, finFaults>>

\* finalize-all-papers, with ids of its own for every run.
Backfill(j, force) ==
    /\ j \notin {SubmitJob, DoiJob}
    /\ finJob[j].state = "none"
    /\ Request(j, force)
    /\ UNCHANGED <<paperSide, shown, builder, overlapped, finFaults>>

\* depositImpl: a paper with a DOI is left alone.
SetDoi ==
    /\ deposit = "idle" /\ ~doi
    /\ inputs < MaxRevisions
    /\ doi' = TRUE
    /\ inputs' = inputs + 1
    /\ deposit' = "queue"
    /\ UNCHANGED <<cutOff, shown, finQueue, builder, overlapped, finFaults>>

RequestAfterDoi ==
    /\ deposit = "queue"
    /\ deposit' = "idle"
    /\ Request(DoiJob, TRUE)
    /\ UNCHANGED <<inputs, doi, cutOff, shown, builder, overlapped, finFaults>>

\* The latest version cannot be read, the add fails, or the process dies.
DepositCutOff ==
    /\ deposit = "queue"
    /\ FinFault
    /\ deposit' = "idle"
    /\ cutOff' = TRUE
    /\ UNCHANGED <<inputs, doi, shown, finQueue, builder, overlapped>>

-----------------------------------------------------------------------------
TakeFinalize(w, j) ==
    /\ BuilderAt(w, "idle")
    /\ finJob[j].state = "waiting"
    /\ finJob' = [finJob EXCEPT ![j] = Taken(@)]
    /\ builder' = [builder EXCEPT ![w] = [NoBuild EXCEPT !.pc = "load", !.job = j]]
    /\ overlapped' = (overlapped \/ \E v \in FinalizeSlots : ~BuilderAt(v, "idle"))
    /\ UNCHANGED <<paperSide, shown, forced, wanted, finFaults>>

\* Mutant: any final PDF is good enough.
LoadInputsOnce(w) ==
    /\ BuilderAt(w, "load")
    /\ builder' = [builder EXCEPT
           ![w].rev = inputs,
           ![w].pc = IF final # 0 /\ builder[w].job \notin forced THEN "done" ELSE "build"]
    /\ UNCHANGED <<paperSide, shown, finQueue, overlapped, finFaults>>

\* The row, the relations and the sections are read and hashed; the hash of
\* the last build is met by doing nothing, unless the job is forced.
LoadInputs(w) ==
    /\ BuilderAt(w, "load")
    /\ builder' = [builder EXCEPT
           ![w].rev = inputs,
           ![w].pc = IF final = inputs /\ builder[w].job \notin forced THEN "done" ELSE "build"]
    /\ UNCHANGED <<paperSide, shown, finQueue, overlapped, finFaults>>

\* Download, stamp, cover, merge: a failed part is left out.
Build(w, variant) ==
    /\ BuilderAt(w, "build")
    /\ IF variant = "full" THEN UNCHANGED finFaults ELSE FinFault
    /\ builder' = [builder EXCEPT ![w].pc = "upload", ![w].variant = variant]
    /\ UNCHANGED <<paperSide, shown, finQueue, overlapped>>

\* The key of the blob carries the hash, so a forced build overwrites it.
Upload(w) ==
    /\ BuilderAt(w, "upload")
    /\ blobs' = [blobs EXCEPT ![builder[w].rev] = builder[w].variant]
    /\ builder' = [builder EXCEPT ![w].pc = "persist"]
    /\ UNCHANGED <<paperSide, final, finQueue, overlapped, finFaults>>

Persist(w) ==
    /\ BuilderAt(w, "persist")
    /\ final' = builder[w].rev
    /\ builder' = [builder EXCEPT ![w] = [NoBuild EXCEPT !.pc = "done", !.job = builder[w].job]]
    /\ UNCHANGED <<paperSide, blobs, finQueue, overlapped, finFaults>>

FinishFinalize(w) ==
    /\ BuilderAt(w, "done")
    /\ finJob' = [finJob EXCEPT ![builder[w].job] = Completed(@)]
    /\ builder' = [builder EXCEPT ![w] = NoBuild]
    /\ UNCHANGED <<paperSide, shown, forced, wanted, overlapped, finFaults>>

\* Every failure is wrapped as internal: none is terminal.
FinalizeFails(w) ==
    /\ builder[w].pc \in {"load", "build", "upload", "persist"}
    /\ FinFault
    /\ finJob' = [finJob EXCEPT ![builder[w].job] = Retried(@, FALSE, MaxFinAttempts)]
    /\ builder' = [builder EXCEPT ![w] = NoBuild]
    /\ UNCHANGED <<paperSide, shown, forced, wanted, overlapped>>

FinalizeCrashes(w) ==
    /\ ~BuilderAt(w, "idle")
    /\ FinFault
    /\ finJob' = [finJob EXCEPT ![builder[w].job] = Stalled(@, MaxFinStalls)]
    /\ builder' = [builder EXCEPT ![w] = NoBuild]
    /\ UNCHANGED <<paperSide, shown, forced, wanted, overlapped>>

FinalizeStep(w) ==
    \/ \E j \in FinalizeJobs : TakeFinalize(w, j)
    \/ LoadInputs(w)
    \/ \E v \in Variants : Build(w, v)
    \/ Upload(w) \/ Persist(w) \/ FinishFinalize(w)

FinalizeNext ==
    \/ ChangeInputs \/ RequestFinalize \/ SetDoi \/ RequestAfterDoi \/ DepositCutOff
    \/ \E j \in FinalizeJobs, force \in BOOLEAN : Backfill(j, force)
    \/ \E w \in FinalizeSlots : FinalizeStep(w) \/ FinalizeFails(w) \/ FinalizeCrashes(w)

FinalizeSpec == FinalizeInit /\ [][FinalizeNext]_finVars

\* The slots take jobs, and calls return.
FinalizeFairness == \A w \in FinalizeSlots : WF_finVars(FinalizeStep(w))

-----------------------------------------------------------------------------
BuilderStates == [pc: {"idle", "load", "build", "upload", "persist", "done"},
                  job: FinalizeJobs, rev: 0..MaxRevisions, variant: Variants \cup {"none"}]

\* Every variable has its type.
FinalizeTypeOK ==
    /\ inputs \in Nat /\ {doi, cutOff, overlapped} \subseteq BOOLEAN
    /\ deposit \in {"idle", "queue"}
    /\ {final, wanted} \subseteq 0..MaxRevisions
    /\ blobs \in [1..MaxRevisions -> Variants \cup {"none"}]
    /\ finJob \in [FinalizeJobs -> JobSet(MaxFinAttempts, MaxFinStalls)]
    /\ forced \subseteq FinalizeJobs
    /\ builder \in [FinalizeSlots -> BuilderStates]
    /\ finFaults \in 0..MaxFinFaults

\* The url the page links to has its blob, whatever failed between the two
\* stores (pdf-finalize.ts:31-35).
ShownIsUploaded == final # 0 => blobs[final] # "none"

FinalizeIdle == deposit = "idle" /\ \A j \in FinalizeJobs : ~Live(finJob[j])

\* Once the queue is empty the PDF shows the inputs of the last request it
\* took, or later ones, unless a job failed or ran beside another
\* (pdf-finalize.ts:28-29); a DOI is among them unless its deposit was cut off
\* (doi.ts:105).
FinalFollowsRequests ==
    FinalizeIdle =>
        /\ ~overlapped /\ (\A j \in FinalizeJobs : finJob[j].state # "failed")
               => final >= wanted
        /\ doi /\ ~cutOff => finJob[DoiJob].state # "none"

\* The two together: what is shown exists and is up to date.
FinalHolds == ShownIsUploaded /\ FinalFollowsRequests

\* Every request is met or reported as failed.
FinalizeEnds ==
    \A j \in FinalizeJobs : Live(finJob[j]) ~> finJob[j].state \in {"done", "failed"}
=============================================================================
