--------------------------- MODULE SubmissionSaga ---------------------------
(***************************************************************************)
(* The submission saga of apps/api: the HTTP handlers that create, moderate, *)
(* refuse and retry a paper, the compile queue, and the workers that run the *)
(* six stages of services/submissions.ts against PostgreSQL, the author's    *)
(* PDS and Bluesky.                                                          *)
(*                                                                           *)
(* Every action is the code between two awaits: one call to the database,    *)
(* the object store, the queue, the PDS or Bluesky.  A worker keeps the      *)
(* snapshots (the saga row, the paper row) the code keeps in its closures,   *)
(* so a decision taken on a stale row is taken on a stale row here too.      *)
(***************************************************************************)
EXTENDS Naturals

CONSTANTS
    Papers,         \* papers that may be submitted
    Workers,        \* slots of the compile worker (WORKER_COMPILE_CONCURRENCY)
    Decisions,      \* moderation requests: accept, reject, refusal
    Retries,        \* retry requests and paper edits: each has a job id of its own
    Submit, Accept, \* names of the jobs saga-<id> and saga-<id>-moderation-accept
    Subjects,       \* subjects; an id counter each (every paper has the same year)
    SubjectOf,      \* the primary category of a paper
    PlcPapers,      \* papers whose submitter is a did:plc account
    MainTexPapers,  \* papers uploaded as main.tex
    MaxAttempts,    \* job option attempts
    MaxStalls,      \* BullMQ maxStalledCount
    MaxFaults       \* bound: failures and crashes in a behaviour

ASSUME SagaAssumption ==
    /\ SubjectOf \in [Papers -> Subjects]
    /\ PlcPapers \subseteq Papers
    /\ MainTexPapers \subseteq Papers
    /\ MaxAttempts \in Nat \ {0}
    /\ MaxStalls \in Nat
    /\ MaxFaults \in Nat
    /\ Submit \notin Retries
    /\ Accept \notin Retries \cup {Submit}

VARIABLES
    status,          \* papers.status
    openxivId,       \* papers.openxiv_id: the sequence number, 0 for null
    uri,             \* papers.uri: the number of the record it names, 0 for null
    done,            \* submission_sagas: the stages whose flag is set
    lastErrorStage,  \* submission_sagas.last_error_stage, 0 for null
    version,         \* the paper_versions row: source_key, html_key, bridge_status
    refusal,         \* the refusal packet
    idCounter,       \* id_counters.next_value of a subject
    stored,          \* source archives in the object store
    queued,          \* jobs handed to the pdf-finalize and mastodon queues
    records,         \* app.openxiv.paper records in the author's repository
    notes,           \* sets of summary and disclosure records written there
    posts,           \* announcement posts on Bluesky
    jobs,            \* the compile queue
    request,         \* the handler of the submission
    mod,             \* the handlers of moderation requests
    wk,              \* the slots of the compile worker
    faults           \* failures and crashes so far

paperVars == <<status, openxivId, uri, idCounter>>
sagaVars  == <<done, lastErrorStage>>
remote    == <<records, notes, posts>>
httpVars  == <<request, mod, refusal, stored>>
vars == <<paperVars, sagaVars, remote, httpVars, version, queued, jobs, wk, faults>>

-----------------------------------------------------------------------------
(* The stages, in the order of SAGA_STAGE_ORDER. *)

Persisted  == 1
Approved   == 2
IdAssigned == 3
PdsPaper   == 4
PdsNotes   == 5
Bridge     == 6
Stages     == 1..6
Finished   == 7

\* Mutant: the approval stage approves itself.
IsNextStageAutoApproved(saga, from, k) ==
    /\ k \notin saga \cup {Approved}
    /\ \A j \in from..(k - 1) : j \in saga \cup {Approved}

\* runStages skips the stages that the saga snapshot has as done.
IsNextStage(saga, from, k) ==
    /\ k \notin saga
    /\ \A j \in from..(k - 1) : j \in saga

\* Where the code of a stage starts; the approval stage only ever holds.
StageEntry ==
    [k \in 1..Finished |->
        CASE k = Persisted  -> "getSource"
          [] k = Approved   -> "hold"
          [] k = IdAssigned -> "allocate"
          [] k = PdsPaper   -> "putRecord"
          [] k = PdsNotes   -> "putNotes"
          [] k = Bridge     -> "readVersion"
          [] k = Finished   -> "summary"]

JobNames  == {Submit, Accept} \cup Retries
JobStates == {"none", "requested", "waiting", "active", "completed", "failed"}
Keys      == {"main", "other", "edit"}

SourceKey(p) == IF p \in MainTexPapers THEN "main" ELSE "other"

NoJob     == [state |-> "none", attempts |-> 0, stalls |-> 0, key |-> "main"]
EditJob   == [state |-> "waiting", attempts |-> MaxAttempts - 1, stalls |-> 0, key |-> "edit"]
NoVersion == [key |-> "none", html |-> FALSE, bridge |-> "none"]

Idle     == [pc |-> "idle"]
Answered == [pc |-> "answered"]

CompilePcs == {"getSource", "latestVersion", "addVersion", "setHtml", "extract"}
PublishPcs == {"putRecord", "setUri", "setPublished", "confirm"}
LocalPcs   == {"localPublish", "localFinalize", "localSocial"}
BridgePcs  == {"post", "setPosted", "setFailed", "setSkipped"}
OtherPcs   == {"allocate", "putNotes", "readVersion", "finalize", "social",
               "reread", "markDone", "nextSaga"}
StagePcs   == CompilePcs \cup PublishPcs \cup LocalPcs \cup BridgePcs \cup OtherPcs
WorkerPcs  == StagePcs \cup {"loadSaga", "loadPaper", "hold", "summary", "unwind"}

\* A running job: its snapshots of the saga and paper rows, the stage it is
\* in, and the stages whose error handler is on its stack.
Running ==
    [pc: WorkerPcs, paper: Papers, job: JobNames, saga: SUBSET Stages,
     id: Nat, uri: Nat, stage: 0..Finished, stack: SUBSET Stages,
     wrote: Nat, terminal: BOOLEAN]

Fault == faults < MaxFaults /\ faults' = faults + 1

JobOf(w)    == jobs[wk[w].paper][wk[w].job]
At(w, l)    == wk[w].pc = l
Goto(w, l)  == wk' = [wk EXCEPT ![w].pc = l]

\* BullMQ: adding a job whose id the queue still knows does nothing.
Add(p, j, k) ==
    jobs' = [jobs EXCEPT ![p][j] =
                IF @.state \in {"none", "requested"}
                THEN [NoJob EXCEPT !.state = "waiting", !.key = k]
                ELSE @]

-----------------------------------------------------------------------------
Init ==
    /\ status = [p \in Papers |-> "none"]
    /\ openxivId = [p \in Papers |-> 0]
    /\ uri = [p \in Papers |-> 0]
    /\ done = [p \in Papers |-> {}]
    /\ lastErrorStage = [p \in Papers |-> 0]
    /\ version = [p \in Papers |-> NoVersion]
    /\ refusal = [p \in Papers |-> "none"]
    /\ idCounter = [s \in Subjects |-> 0]
    /\ stored = [p \in Papers |-> {}]
    /\ queued = [p \in Papers |-> {}]
    /\ records = [p \in Papers |-> 0]
    /\ notes = [p \in Papers |-> 0]
    /\ posts = [p \in Papers |-> 0]
    /\ jobs = [p \in Papers |-> [j \in JobNames |-> NoJob]]
    /\ request = [p \in Papers |-> "none"]
    /\ mod = [m \in Decisions |-> Idle]
    /\ wk = [w \in Workers |-> Idle]
    /\ faults = 0

-----------------------------------------------------------------------------
(* The submission: submitDraft and finalizeFromIntake. *)

\* papers.create and the relations: 'compiling' from a draft, 'pending_review'
\* from an intake session.
CreatePaper(p) ==
    /\ request[p] = "none"
    /\ request' = [request EXCEPT ![p] = "storing"]
    /\ \E s \in {"compiling", "pending_review"} : status' = [status EXCEPT ![p] = s]
    /\ UNCHANGED <<openxivId, uri, idCounter, sagaVars, remote, mod, refusal, stored,
                   version, queued, jobs, wk, faults>>

StoreSource(p) ==
    /\ request[p] = "storing"
    /\ request' = [request EXCEPT ![p] = "enqueueing"]
    /\ stored' = [stored EXCEPT ![p] = @ \cup {SourceKey(p)}]
    /\ UNCHANGED <<paperVars, sagaVars, remote, mod, refusal, version, queued, jobs,
                   wk, faults>>

EnqueueSubmit(p) ==
    /\ request[p] = "enqueueing"
    /\ request' = [request EXCEPT ![p] = "answered"]
    /\ Add(p, Submit, SourceKey(p))
    /\ UNCHANGED <<paperVars, sagaVars, remote, mod, refusal, stored, version, queued,
                   wk, faults>>

\* Any call of the handler fails, or the API process dies: the rows stay.
AbandonSubmit(p) ==
    /\ request[p] \in {"storing", "enqueueing"}
    /\ Fault
    /\ request' = [request EXCEPT ![p] = "answered"]
    /\ UNCHANGED <<paperVars, sagaVars, remote, mod, refusal, stored, version, queued,
                   jobs, wk>>

(* POST /papers/:id/retry, at any time and in any status. *)

\* retrySaga takes the key from the version row, or falls back on main.tex.
RetryRead(p, r) ==
    /\ status[p] # "none"
    /\ jobs[p][r].state = "none"
    /\ jobs' = [jobs EXCEPT ![p][r].state = "requested",
                            ![p][r].key = IF version[p].key # "none"
                                          THEN version[p].key ELSE "main"]
    /\ UNCHANGED <<paperVars, sagaVars, remote, httpVars, version, queued, wk, faults>>

RetryEnqueue(p, r) ==
    /\ jobs[p][r].state = "requested"
    /\ Add(p, r, jobs[p][r].key)
    /\ UNCHANGED <<paperVars, sagaVars, remote, httpVars, version, queued, wk, faults>>

\* An admin's edit of the paper adds a job to the same queue: one attempt, and
\* a source key that names nothing.
EditRepublish(p, r) ==
    /\ status[p] # "none"
    /\ jobs[p][r].state = "none"
    /\ jobs' = [jobs EXCEPT ![p][r] = EditJob]
    /\ UNCHANGED <<paperVars, sagaVars, remote, httpVars, version, queued, wk, faults>>

-----------------------------------------------------------------------------
(* Moderation: applyModerationDecision and the refusal routes. *)

InMod(m, l) == mod[m].pc = l

\* acceptPaper decides on the status that findById returned.
AcceptBegin(m, p) ==
    /\ InMod(m, "idle")
    /\ status[p] = "pending_review"
    /\ mod' = [mod EXCEPT ![m] = [pc |-> "accepting", paper |-> p, target |-> "none"]]
    /\ UNCHANGED <<paperVars, sagaVars, remote, request, refusal, stored, version,
                   queued, jobs, wk, faults>>

\* Already approved: a silent no-op.  No compiled version: a conflict.
AcceptCheck(m) ==
    /\ InMod(m, "accepting")
    /\ mod' = IF /\ Approved \notin done[mod[m].paper]
                 /\ version[mod[m].paper].key # "none"
              THEN [mod EXCEPT ![m].pc = "marking"]
              ELSE [mod EXCEPT ![m] = Answered]
    /\ UNCHANGED <<paperVars, sagaVars, remote, request, refusal, stored, version,
                   queued, jobs, wk, faults>>

AcceptMark(m) ==
    /\ InMod(m, "marking")
    /\ mod' = [mod EXCEPT ![m].pc = "rescinding"]
    /\ done' = [done EXCEPT ![mod[m].paper] = @ \cup {Approved}]
    /\ lastErrorStage' = [lastErrorStage EXCEPT ![mod[m].paper] = 0]
    /\ UNCHANGED <<paperVars, remote, request, refusal, stored, version, queued, jobs,
                   wk, faults>>

Rescinded(r) == IF r = "issued" THEN "rescinded" ELSE r

\* Rescinding an earlier refusal; its failure is swallowed.
AcceptRescind(m) ==
    /\ InMod(m, "rescinding")
    /\ mod' = [mod EXCEPT ![m].pc = "enqueueing"]
    /\ \/ /\ refusal' = [refusal EXCEPT ![mod[m].paper] = Rescinded(@)]
          /\ UNCHANGED faults
       \/ Fault /\ UNCHANGED refusal
    /\ UNCHANGED <<paperVars, sagaVars, remote, request, stored, version, queued, jobs, wk>>

AcceptEnqueue(m) ==
    /\ InMod(m, "enqueueing")
    /\ mod' = [mod EXCEPT ![m] = Answered]
    /\ Add(mod[m].paper, Accept, version[mod[m].paper].key)
    /\ UNCHANGED <<paperVars, sagaVars, remote, request, refusal, stored, version,
                   queued, wk, faults>>

\* A reject, a conditional reject or POST /papers/:id/refusal: the packet is
\* written first, the status after it, whatever the saga is doing.
Refuse(m, p) ==
    /\ InMod(m, "idle")
    /\ status[p] # "none"
    /\ refusal' = [refusal EXCEPT ![p] = "issued"]
    /\ \E t \in {"withdrawn", "pending_review"} :
          mod' = [mod EXCEPT ![m] = [pc |-> "refusing", paper |-> p, target |-> t]]
    /\ UNCHANGED <<paperVars, sagaVars, remote, request, stored, version, queued, jobs,
                   wk, faults>>

RefuseStatus(m) ==
    /\ InMod(m, "refusing")
    /\ mod' = [mod EXCEPT ![m] = Answered]
    /\ status' = [status EXCEPT ![mod[m].paper] = mod[m].target]
    /\ UNCHANGED <<openxivId, uri, idCounter, sagaVars, remote, request, refusal, stored,
                   version, queued, jobs, wk, faults>>

\* DELETE /papers/:id/refusal leaves the status alone.
Rescind(p) ==
    /\ refusal[p] = "issued"
    /\ refusal' = [refusal EXCEPT ![p] = "rescinded"]
    /\ UNCHANGED <<paperVars, sagaVars, remote, request, mod, stored, version, queued,
                   jobs, wk, faults>>

\* A call of a moderation handler fails: what it wrote before stays.
ModerationFails(m) ==
    /\ mod[m].pc \notin {"idle", "answered"}
    /\ Fault
    /\ mod' = [mod EXCEPT ![m] = Answered]
    /\ UNCHANGED <<paperVars, sagaVars, remote, request, refusal, stored, version,
                   queued, jobs, wk>>

-----------------------------------------------------------------------------
(* A slot of the compile worker takes a job and reads its snapshots. *)

Take(w, p, j) ==
    /\ At(w, "idle")
    /\ jobs[p][j].state = "waiting"
    /\ jobs' = [jobs EXCEPT ![p][j].state = "active"]
    /\ wk' = [wk EXCEPT ![w] =
                [pc |-> "loadSaga", paper |-> p, job |-> j, saga |-> {}, id |-> 0,
                 uri |-> 0, stage |-> 0, stack |-> {}, wrote |-> 0, terminal |-> FALSE]]
    /\ UNCHANGED <<paperVars, sagaVars, remote, httpVars, version, queued, faults>>

\* What a worker step leaves alone unless it says otherwise.
Quiet == UNCHANGED <<sagaVars, httpVars, jobs>>

\* The step changes nothing but the worker itself.
LocalStep == Quiet /\ UNCHANGED <<paperVars, remote, version, queued, faults>>

\* A stage that starts gets its error handler on the stack.
Entered(job, k, id, u) ==
    [job EXCEPT !.pc = StageEntry[k], !.stage = k, !.id = id, !.uri = u, !.saga = {},
                !.stack = IF k \in {Approved, Finished} THEN job.stack
                          ELSE job.stack \cup {k}]

\* runStages(saga, paper, from): on to the first stage the saga snapshot has
\* not done.
RunStages(w, saga, from, id, u) ==
    \E k \in from..Finished :
        /\ IsNextStage(saga, from, k)
        /\ wk' = [wk EXCEPT ![w] = Entered(@, k, id, u)]

LoadSaga(w) ==
    /\ At(w, "loadSaga")
    /\ wk' = [wk EXCEPT ![w].saga = done[wk[w].paper], ![w].pc = "loadPaper"]
    /\ LocalStep

\* Mutant: the approval of the saga row is not seen.
LoadPaperHolds(w) ==
    /\ At(w, "loadPaper")
    /\ LET p == wk[w].paper
       IN  RunStages(w, wk[w].saga \ {Approved}, Persisted, openxivId[p], uri[p])
    /\ LocalStep

LoadPaper(w) ==
    /\ At(w, "loadPaper")
    /\ LET p == wk[w].paper IN RunStages(w, wk[w].saga, Persisted, openxivId[p], uri[p])
    /\ LocalStep

\* Not approved: back to pending_review, and the job succeeds.
Hold(w) ==
    /\ At(w, "hold")
    /\ Goto(w, "summary")
    /\ status' = [status EXCEPT ![wk[w].paper] = "pending_review"]
    /\ UNCHANGED <<openxivId, uri, idCounter, remote, version, queued, faults>>
    /\ Quiet

\* setStatus or the read after it fails: the error meets the handlers of the
\* stages this job has run.
HoldFails(w) ==
    /\ At(w, "hold")
    /\ Fault
    /\ Goto(w, "unwind")
    /\ \/ UNCHANGED status
       \/ status' = [status EXCEPT ![wk[w].paper] = "pending_review"]
    /\ UNCHANGED <<openxivId, uri, idCounter, remote, version, queued>>
    /\ Quiet

(* requirePaper, markStageDone and sagas.ensure between two stages. *)

\* Mutant: markStageDone is never called.
RereadOnly(w) ==
    /\ At(w, "reread")
    /\ wk' = [wk EXCEPT ![w].id = openxivId[wk[w].paper], ![w].uri = uri[wk[w].paper],
                        ![w].pc = "nextSaga"]
    /\ LocalStep

Reread(w) ==
    /\ At(w, "reread")
    /\ wk' = [wk EXCEPT ![w].id = openxivId[wk[w].paper], ![w].uri = uri[wk[w].paper],
                        ![w].pc = "markDone"]
    /\ LocalStep

\* Mutant: the stage counted from zero.
MarkStageIndexDone(w) ==
    /\ At(w, "markDone")
    /\ Goto(w, "nextSaga")
    /\ done' = [done EXCEPT ![wk[w].paper] = @ \cup {wk[w].stage - 1}]
    /\ lastErrorStage' = [lastErrorStage EXCEPT ![wk[w].paper] = 0]
    /\ UNCHANGED <<paperVars, remote, httpVars, version, queued, jobs, faults>>

MarkStageDone(w) ==
    /\ At(w, "markDone")
    /\ Goto(w, "nextSaga")
    /\ done' = [done EXCEPT ![wk[w].paper] = @ \cup {wk[w].stage}]
    /\ lastErrorStage' = [lastErrorStage EXCEPT ![wk[w].paper] = 0]
    /\ UNCHANGED <<paperVars, remote, httpVars, version, queued, jobs, faults>>

NextSaga(w) ==
    /\ At(w, "nextSaga")
    /\ RunStages(w, done[wk[w].paper], wk[w].stage + 1, wk[w].id, wk[w].uri)
    /\ LocalStep

-----------------------------------------------------------------------------
(* runCompile. *)

\* A key with no object is a storage error, which BullMQ retries.
GetSource(w) ==
    /\ At(w, "getSource")
    /\ Goto(w, IF JobOf(w).key \in stored[wk[w].paper] THEN "latestVersion" ELSE "unwind")
    /\ LocalStep

\* ensureVersionWithPdf: a version of the same source is reused.
LatestVersion(w) ==
    /\ At(w, "latestVersion")
    /\ Goto(w, IF version[wk[w].paper].key = JobOf(w).key THEN "setHtml" ELSE "addVersion")
    /\ LocalStep

\* compileAndPersistPdf: addVersion inserts version 1, which is unique.
AddVersion(w) ==
    /\ At(w, "addVersion")
    /\ LET p == wk[w].paper IN
       IF version[p].key = "none"
       THEN /\ version' = [version EXCEPT ![p].key = JobOf(w).key]
            /\ Goto(w, "setHtml")
       ELSE Goto(w, "unwind") /\ UNCHANGED version
    /\ UNCHANGED <<paperVars, remote, queued, faults>>
    /\ Quiet

\* ensureVersionHtml, and the figures job, whose failure is swallowed.
SetHtml(w) ==
    /\ At(w, "setHtml")
    /\ Goto(w, "extract")
    /\ version' = [version EXCEPT ![wk[w].paper].html = TRUE]
    /\ UNCHANGED <<paperVars, remote, queued, faults>>
    /\ Quiet

\* GROBID, keywords, detector: nothing the saga reads again.
Extract(w) ==
    /\ At(w, "extract")
    /\ Goto(w, "reread")
    /\ LocalStep

(* runAssignId: allocateAndClaim is one transaction. *)
\* Mutant: the transaction does not look at the row again.
AllocateUnlocked(w) ==
    /\ At(w, "allocate")
    /\ LET p == wk[w].paper
           s == SubjectOf[p]
       IN  IF wk[w].id # 0
           THEN Goto(w, "markDone") /\ UNCHANGED <<openxivId, idCounter>>
           ELSE /\ Goto(w, "reread")
                /\ idCounter' = [idCounter EXCEPT ![s] = @ + 1]
                /\ openxivId' = [openxivId EXCEPT ![p] = idCounter[s] + 1]
    /\ UNCHANGED <<status, uri, remote, version, queued, faults>>
    /\ Quiet

Allocate(w) ==
    /\ At(w, "allocate")
    /\ LET p == wk[w].paper
           s == SubjectOf[p]
       IN  IF wk[w].id # 0
           THEN Goto(w, "markDone") /\ UNCHANGED <<openxivId, idCounter>>
           ELSE /\ Goto(w, "reread")
                /\ IF openxivId[p] # 0
                   THEN UNCHANGED <<openxivId, idCounter>>
                   ELSE /\ idCounter' = [idCounter EXCEPT ![s] = @ + 1]
                        /\ openxivId' = [openxivId EXCEPT ![p] = idCounter[s] + 1]
    /\ UNCHANGED <<status, uri, remote, version, queued, faults>>
    /\ Quiet

-----------------------------------------------------------------------------
(* runPublishPaperRecord. *)

\* Mutant: a paper with a uri is written again.
PutRecordAgain(w) ==
    /\ At(w, "putRecord")
    /\ records' = [records EXCEPT ![wk[w].paper] = @ + 1]
    /\ wk' = [wk EXCEPT ![w].pc = "setUri", ![w].wrote = records[wk[w].paper] + 1]
    /\ UNCHANGED <<paperVars, notes, posts, version, queued, faults>>
    /\ Quiet

\* The uri that counts is the one of the snapshot.  Each write has a new rkey.
PutRecord(w) ==
    /\ At(w, "putRecord")
    /\ LET p == wk[w].paper IN
       IF wk[w].uri # 0
       THEN Goto(w, "markDone") /\ UNCHANGED records
       ELSE /\ records' = [records EXCEPT ![p] = @ + 1]
            /\ wk' = [wk EXCEPT ![w].pc = "setUri", ![w].wrote = records[p] + 1]
    /\ UNCHANGED <<paperVars, notes, posts, version, queued, faults>>
    /\ Quiet

SetUri(w) ==
    /\ At(w, "setUri")
    /\ wk' = [wk EXCEPT ![w].pc = "setPublished", ![w].wrote = 0]
    /\ uri' = [uri EXCEPT ![wk[w].paper] = wk[w].wrote]
    /\ UNCHANGED <<status, openxivId, idCounter, remote, version, queued, faults>>
    /\ Quiet

\* Mutant: the status is not written.
SetPublishedForgotten(w) ==
    /\ At(w, "setPublished")
    /\ Goto(w, "confirm")
    /\ LocalStep

SetPublished(w) ==
    /\ At(w, "setPublished")
    /\ Goto(w, "confirm")
    /\ status' = [status EXCEPT ![wk[w].paper] = "published"]
    /\ UNCHANGED <<openxivId, uri, idCounter, remote, version, queued, faults>>
    /\ Quiet

Confirm(w) ==
    /\ At(w, "confirm")
    /\ wk' = [wk EXCEPT ![w].id = openxivId[wk[w].paper], ![w].uri = uri[wk[w].paper],
                        ![w].pc = "markDone"]
    /\ LocalStep

\* Whatever fails in the four steps above is handled by the same orElse; a
\* putRecord that fails may have written the record all the same.
PublishFails(w) ==
    /\ wk[w].pc \in PublishPcs
    /\ At(w, "putRecord") => wk[w].uri = 0
    /\ Fault
    /\ Goto(w, "localPublish")
    /\ \/ UNCHANGED records
       \/ /\ At(w, "putRecord")
          /\ records' = [records EXCEPT ![wk[w].paper] = @ + 1]
    /\ UNCHANGED <<paperVars, notes, posts, version, queued>>
    /\ Quiet

\* Mutant: the error of a did:plc paper is swallowed as well.
LocalPublishSwallows(w) ==
    /\ At(w, "localPublish")
    /\ Goto(w, "reread")
    /\ status' = [status EXCEPT ![wk[w].paper] = "published"]
    /\ UNCHANGED <<openxivId, uri, idCounter, remote, version, queued, faults>>
    /\ Quiet

\* Published locally: enough for a mock account; a did:plc paper also gets
\* its post-publish jobs, and then the stage fails with the first error.
LocalPublish(w) ==
    /\ At(w, "localPublish")
    /\ Goto(w, IF wk[w].paper \in PlcPapers THEN "localFinalize" ELSE "reread")
    /\ status' = [status EXCEPT ![wk[w].paper] = "published"]
    /\ UNCHANGED <<openxivId, uri, idCounter, remote, version, queued, faults>>
    /\ Quiet

Enqueue(w, q, l) ==
    /\ Goto(w, l)
    /\ queued' = [queued EXCEPT ![wk[w].paper] = @ \cup {q}]
    /\ UNCHANGED <<paperVars, remote, version, faults>>
    /\ Quiet

\* enqueuePostPublishJobs; with no version row there is nothing to enqueue.
LocalFinalize(w) ==
    /\ At(w, "localFinalize")
    /\ IF version[wk[w].paper].key = "none"
       THEN Goto(w, "unwind") /\ LocalStep
       ELSE Enqueue(w, "finalize", "localSocial")

LocalSocial(w) ==
    /\ At(w, "localSocial")
    /\ Enqueue(w, "social", "unwind")

(* runPublishSummaryAndDisclosure: every run writes a new set of records;  *)
(* a failure is swallowed, whatever was written before it; without a uri    *)
(* there is nothing to write.                                              *)
PutNotes(w) ==
    /\ At(w, "putNotes")
    /\ Goto(w, "reread")
    /\ \/ /\ uri[wk[w].paper] # 0
          /\ notes' = [notes EXCEPT ![wk[w].paper] = @ + 1]
          /\ UNCHANGED faults
       \/ /\ uri[wk[w].paper] = 0
          /\ UNCHANGED <<notes, faults>>
       \/ /\ uri[wk[w].paper] # 0
          /\ Fault
          /\ notes' \in {notes, [notes EXCEPT ![wk[w].paper] = @ + 1]}
    /\ UNCHANGED <<paperVars, records, posts, version, queued>>
    /\ Quiet

-----------------------------------------------------------------------------
(* runBlueskyBridge and bridgeVersion. *)

\* Mutant: the test of paper.uri is missing.
ReadVersionAnyUri(w) ==
    /\ At(w, "readVersion")
    /\ IF version[wk[w].paper].bridge = "posted" THEN Goto(w, "finalize")
       ELSE \E l \in {"post", "setSkipped"} : Goto(w, l)
    /\ LocalStep

\* No version: nothing to do.  No uri in the snapshot, or a version already
\* posted: straight to the finalize jobs.  The feature flag may be off.
ReadVersion(w) ==
    /\ At(w, "readVersion")
    /\ LET v == version[wk[w].paper] IN
       IF v.key = "none" THEN Goto(w, "markDone")
       ELSE IF wk[w].uri = 0 \/ v.bridge = "posted" THEN Goto(w, "finalize")
       ELSE \E l \in {"post", "setSkipped"} : Goto(w, l)
    /\ LocalStep

Post(w) ==
    /\ At(w, "post")
    /\ Goto(w, "setPosted")
    /\ posts' = [posts EXCEPT ![wk[w].paper] = @ + 1]
    /\ UNCHANGED <<paperVars, records, notes, version, queued, faults>>
    /\ Quiet

\* setBridgeResult: the status that goes with each place of the bridge.
BridgeResult(w) ==
    CASE At(w, "setPosted")  -> "posted"
      [] At(w, "setFailed")  -> "failed"
      [] At(w, "setSkipped") -> "skipped"

SetBridgeResult(w) ==
    /\ wk[w].pc \in {"setPosted", "setFailed", "setSkipped"}
    /\ Goto(w, "finalize")
    /\ version' = [version EXCEPT ![wk[w].paper].bridge = BridgeResult(w)]
    /\ UNCHANGED <<paperVars, remote, queued, faults>>
    /\ Quiet

\* A failed session, post or write of the result is turned into the status
\* 'failed'; when that write fails too, the stage goes on all the same.  A
\* post that fails may have been created.
BridgeFails(w) ==
    /\ wk[w].pc \in BridgePcs
    /\ Fault
    /\ Goto(w, IF wk[w].pc \in {"post", "setPosted"} THEN "setFailed" ELSE "finalize")
    /\ \/ UNCHANGED posts
       \/ /\ At(w, "post")
          /\ posts' = [posts EXCEPT ![wk[w].paper] = @ + 1]
    /\ UNCHANGED <<paperVars, records, notes, version, queued>>
    /\ Quiet

FinalizeJob(w) ==
    /\ At(w, "finalize")
    /\ Enqueue(w, "finalize", "social")

SocialJob(w) ==
    /\ At(w, "social")
    /\ Enqueue(w, "social", "reread")

-----------------------------------------------------------------------------
(* Errors, the end of a job, and crashes. *)

\* Places where a failed call becomes the error of the stage.
StageMayFail(w) ==
    /\ wk[w].pc \in (StagePcs \ BridgePcs) \ PublishPcs
    /\ At(w, "allocate") => wk[w].id = 0

OtherMayFail(w) == wk[w].pc \in {"loadSaga", "loadPaper"}

\* Mutant: the error of a stage is swallowed.
StageFailureSwallowed(w) ==
    /\ StageMayFail(w) \/ OtherMayFail(w)
    /\ Fault
    /\ Goto(w, "summary")
    /\ UNCHANGED <<paperVars, remote, version, queued>>
    /\ Quiet

StageFails(w) ==
    /\ StageMayFail(w) \/ OtherMayFail(w)
    /\ Fault
    /\ Goto(w, "unwind")
    /\ UNCHANGED <<paperVars, remote, version, queued>>
    /\ Quiet

\* buildSummary runs after runAllStages: its error meets no stage handler.
SummaryFails(w) ==
    /\ At(w, "summary")
    /\ Fault
    /\ wk' = [wk EXCEPT ![w].pc = "unwind", ![w].stack = {}]
    /\ UNCHANGED <<paperVars, remote, version, queued>>
    /\ Quiet

\* Before any write: the row cannot be read, or the record it makes is
\* outside the lexicon, a validation error that is terminal.
RecordUnavailable(w) ==
    /\ At(w, "putRecord")
    /\ wk[w].uri = 0
    /\ Fault
    /\ \E t \in BOOLEAN : wk' = [wk EXCEPT ![w].pc = "unwind", ![w].terminal = t]
    /\ UNCHANGED <<paperVars, remote, version, queued>>
    /\ Quiet

\* The orElse of every stage on the stack records the failure, innermost
\* first; when that write fails, its own (transient) error goes on.
Unwind(w) ==
    /\ At(w, "unwind")
    /\ \E k \in wk[w].stack :
        /\ \A j \in wk[w].stack : j <= k
        /\ \/ /\ lastErrorStage' = [lastErrorStage EXCEPT ![wk[w].paper] = k]
              /\ wk' = [wk EXCEPT ![w].stack = @ \ {k}]
              /\ UNCHANGED faults
           \/ /\ Fault
              /\ wk' = [wk EXCEPT ![w].stack = @ \ {k}, ![w].terminal = FALSE]
              /\ UNCHANGED lastErrorStage
    /\ UNCHANGED <<paperVars, done, remote, httpVars, version, queued, jobs>>

EndJob(w, r) ==
    /\ jobs' = [jobs EXCEPT ![wk[w].paper][wk[w].job] = r]
    /\ wk' = [wk EXCEPT ![w] = Idle]
    /\ UNCHANGED <<paperVars, sagaVars, remote, httpVars, version, queued>>

CompleteJob(w) ==
    /\ At(w, "summary")
    /\ EndJob(w, [JobOf(w) EXCEPT !.state = "completed"])
    /\ UNCHANGED faults

\* Mutant: a failed attempt is not counted.
FailJobUncounted(w) ==
    /\ At(w, "unwind")
    /\ wk[w].stack = {}
    /\ EndJob(w, [JobOf(w) EXCEPT !.state = IF wk[w].terminal THEN "failed" ELSE "waiting"])
    /\ UNCHANGED faults

\* rethrowForBullMQ: a terminal error spends no further attempt.
FailJob(w) ==
    /\ At(w, "unwind")
    /\ wk[w].stack = {}
    /\ EndJob(w, [JobOf(w) EXCEPT
                    !.attempts = @ + 1,
                    !.state = IF wk[w].terminal \/ JobOf(w).attempts + 1 >= MaxAttempts
                              THEN "failed" ELSE "waiting"])
    /\ UNCHANGED faults

\* The worker dies: the job stalls and is handed out again, MaxStalls times.
Crash(w) ==
    /\ ~At(w, "idle")
    /\ Fault
    /\ EndJob(w, IF JobOf(w).stalls < MaxStalls
                 THEN [JobOf(w) EXCEPT !.state = "waiting", !.stalls = @ + 1]
                 ELSE [JobOf(w) EXCEPT !.state = "failed"])

-----------------------------------------------------------------------------
CompileStep(w) ==
    GetSource(w) \/ LatestVersion(w) \/ AddVersion(w) \/ SetHtml(w) \/ Extract(w)

PublishStep(w) ==
    \/ PutRecord(w) \/ SetUri(w) \/ SetPublished(w) \/ Confirm(w) \/ PublishFails(w)
    \/ LocalPublish(w) \/ LocalFinalize(w) \/ LocalSocial(w) \/ RecordUnavailable(w)

BridgeStep(w) ==
    \/ ReadVersion(w) \/ Post(w) \/ SetBridgeResult(w) \/ BridgeFails(w)
    \/ FinalizeJob(w) \/ SocialJob(w)

FlowStep(w) ==
    \/ LoadSaga(w) \/ LoadPaper(w) \/ Hold(w) \/ HoldFails(w) \/ Reread(w)
    \/ MarkStageDone(w) \/ NextSaga(w) \/ StageFails(w) \/ SummaryFails(w) \/ Unwind(w)

WorkerStep(w) ==
    \/ \E p \in Papers, j \in JobNames : Take(w, p, j)
    \/ FlowStep(w) \/ CompileStep(w) \/ Allocate(w) \/ PublishStep(w)
    \/ PutNotes(w) \/ BridgeStep(w) \/ CompleteJob(w) \/ FailJob(w)

SubmitStep(p) ==
    CreatePaper(p) \/ StoreSource(p) \/ EnqueueSubmit(p) \/ AbandonSubmit(p)

RetryStep(p, r) == RetryRead(p, r) \/ RetryEnqueue(p, r) \/ EditRepublish(p, r)

AcceptStep(m) ==
    \/ \E p \in Papers : AcceptBegin(m, p)
    \/ AcceptCheck(m) \/ AcceptMark(m) \/ AcceptRescind(m) \/ AcceptEnqueue(m)

RefuseStep(m) == RefuseStatus(m) \/ ModerationFails(m) \/ \E p \in Papers : Refuse(m, p)

Next ==
    \/ \E p \in Papers : SubmitStep(p) \/ Rescind(p)
    \/ \E p \in Papers, r \in Retries : RetryStep(p, r)
    \/ \E m \in Decisions : AcceptStep(m) \/ RefuseStep(m)
    \/ \E w \in Workers : WorkerStep(w) \/ Crash(w)

Spec == Init /\ [][Next]_vars

\* BullMQ keeps handing out waiting jobs, and a call that was made returns.
Fairness ==
    /\ \A w \in Workers : WF_vars(WorkerStep(w))
    /\ \A m \in Decisions : WF_vars(AcceptMark(m) \/ AcceptRescind(m) \/ AcceptEnqueue(m)
                                     \/ RefuseStatus(m))

FairSpec == Spec /\ Fairness

-----------------------------------------------------------------------------
(* Properties. *)

Job == [state: JobStates, attempts: 0..MaxAttempts, stalls: 0..MaxStalls, key: Keys]

Version == [key: Keys \cup {"none"}, html: BOOLEAN,
            bridge: {"none", "posted", "skipped", "failed"}]

Statuses == {"none", "compiling", "pending_review", "published", "withdrawn"}

Moderating ==
    [pc: {"accepting", "marking", "rescinding", "enqueueing", "refusing"},
     paper: Papers, target: {"none", "withdrawn", "pending_review"}]

PaperTypes ==
    /\ status \in [Papers -> Statuses]
    /\ openxivId \in [Papers -> Nat]
    /\ uri \in [Papers -> Nat]
    /\ idCounter \in [Subjects -> Nat]
    /\ done \in [Papers -> SUBSET Stages]
    /\ lastErrorStage \in [Papers -> 0..6]
    /\ version \in [Papers -> Version]

EffectTypes ==
    /\ queued \in [Papers -> SUBSET {"finalize", "social"}]
    /\ records \in [Papers -> Nat]
    /\ notes \in [Papers -> Nat]
    /\ posts \in [Papers -> Nat]

RequestTypes ==
    /\ refusal \in [Papers -> {"none", "issued", "rescinded"}]
    /\ stored \in [Papers -> SUBSET Keys]
    /\ request \in [Papers -> {"none", "storing", "enqueueing", "answered"}]
    /\ mod \in [Decisions -> {Idle, Answered} \cup Moderating]

\* Every variable has its type: the columns, the queue, the snapshots.
TypeOK ==
    /\ PaperTypes
    /\ EffectTypes
    /\ RequestTypes
    /\ jobs \in [Papers -> [JobNames -> Job]]
    /\ wk \in [Workers -> {Idle} \cup Running]
    /\ faults \in 0..MaxFaults

\* What the world can see of a paper, or of its publication.
Visible(p) ==
    \/ status[p] = "published"
    \/ openxivId[p] # 0
    \/ uri[p] # 0
    \/ records[p] + notes[p] + posts[p] # 0
    \/ queued[p] # {}

\* Nothing of a paper becomes public before a moderator has approved it, in
\* any interleaving of jobs, retries and crashes (docs/ARCHITECTURE.md:277).
ApprovalGate == \A p \in Papers : Visible(p) => Approved \in done[p]

\* A stage flag is evidence of the effect (the compiled version, the id, the
\* uri of an account that has a repository, the post-publish jobs) and of the
\* stages before it, even when several jobs of one paper run with snapshots of
\* different ages (submissions.ts:495-519).
FlagMeansEffect ==
    \A p \in Papers :
        /\ \A k \in done[p] \ {Approved} : 1..(k - 1) \subseteq done[p]
        /\ Persisted \in done[p] => version[p].html /\ version[p].key # "none"
        /\ IdAssigned \in done[p] => openxivId[p] # 0
        /\ PdsPaper \in done[p] => uri[p] # 0 \/ p \notin PlcPapers
        /\ Bridge \in done[p] => queued[p] = {"finalize", "social"}

\* A paper is announced on Bluesky only after its record, its id and its uri
\* exist: the post embeds the public page.
AnnouncedIsPublished ==
    \A p \in Papers :
        posts[p] # 0 => uri[p] # 0 /\ openxivId[p] # 0 /\ uri[p] <= records[p]

Registry ==
    INSTANCE IdRegistry WITH id <- openxivId, counter <- idCounter,
                             Counters <- Subjects, CounterOf <- SubjectOf

\* Whatever the jobs, retries and crashes, the saga uses the registry of ids
\* as it is meant: one number a paper, in order, none lost (identifiers.ts:18).
IdsFromRegistry == Registry!RegSpec

\* An accept job that completed has run every stage that was left.
AcceptCompletes ==
    \A p \in Papers : jobs[p][Accept].state = "completed" => done[p] = Stages

\* What has been granted is never taken back or replaced: the id of a paper
\* and its stage flags.
GrantsAreFinal ==
    [][\A p \in Papers :
        /\ openxivId[p] # 0 => openxivId'[p] = openxivId[p]
        /\ done[p] \subseteq done'[p]]_vars

\* With one worker slot a uri, once set, keeps naming the same record.
UriIsStable ==
    [][\A p \in Papers : uri[p] # 0 => uri'[p] = uri[p]]_vars

\* With one worker slot, every duplicate record, note or post is paid for
\* by a failure: jobs that do not fail never repeat a remote write.
DuplicatesNeedFaults ==
    \A p \in Papers :
        /\ records[p] > 0 => records[p] - 1 <= faults
        /\ posts[p] > 0 => posts[p] - 1 <= faults
        /\ notes[p] > 0 => notes[p] - 1 <= faults

\* README.md:239, "status flips to `published`": a paper whose six stages are
\* done, with no job running and no refusal ever issued, is published.  With
\* two worker slots a hold decided on an old saga row breaks it.
FinishedIsPublished ==
    \A p \in Papers :
        (/\ done[p] = Stages
         /\ refusal[p] = "none"
         /\ \A j \in JobNames : jobs[p][j].state # "active") => status[p] = "published"

\* With one worker slot, only a failure can leave a finished paper unpublished:
\* a crash between the two writes of the stage.
HiddenNeedsFaults == faults = 0 => FinishedIsPublished

\* Every job that waits ends: completed, or failed after its attempts.
JobsEnd ==
    \A p \in Papers, j \in JobNames :
        jobs[p][j].state = "waiting" ~> jobs[p][j].state \in {"completed", "failed"}

\* An approved paper whose accept job is queued is published through the
\* last stage, or the job is reported failed.
ApprovedIsPublished ==
    \A p \in Papers :
        jobs[p][Accept].state = "waiting" ~>
            (done[p] = Stages \/ jobs[p][Accept].state = "failed")

-----------------------------------------------------------------------------
(* What documents and comments say and the code does not do. *)

\* No job of the paper is running, and no handler is working on it.
AtRest(p) ==
    /\ \A j \in JobNames : jobs[p][j].state # "active"
    /\ \A m \in Decisions : mod[m].pc \in {"idle", "answered"}

\* bluesky-bridge.ts:20: "Saga retries therefore can't double-post."
OnePost == \A p \in Papers : posts[p] <= 1

\* README.md:232: "Each stage is idempotent": one record in the repository.
OneRecord == \A p \in Papers : records[p] <= 1

\* refusals.ts:55: a refusal hides the paper "from feeds and the homepage".
RefusedStaysHidden ==
    \A p \in Papers : refusal[p] = "issued" /\ AtRest(p) => status[p] # "published"

\* docs/ARCHITECTURE.md:288: "After approval, the saga publishes": or a job of
\* the paper is reported failed.
ApprovalIsFollowed ==
    \A p \in Papers :
        Approved \in done[p] ~>
            \/ status[p] = "published"
            \/ \E j \in JobNames : jobs[p][j].state = "failed"
=============================================================================
