------------------------ MODULE SubmissionSagaProofs ------------------------
(***************************************************************************)
(* The approval gate of the saga, for any number of papers, workers,         *)
(* moderation requests, retries and failures.                                *)
(*                                                                           *)
(* The gate is a check of a saga row that the job read some steps earlier.   *)
(* It is safe because a flag is never taken back: what the snapshot shows as *)
(* done is done (WorkerInv), and a job is past the approval stage only when  *)
(* one of its snapshots had it.                                              *)
(***************************************************************************)
EXTENDS SubmissionSaga, TLAPS

\* The places of the stages after the approval.
LaterPcs == {"allocate", "putNotes", "readVersion", "finalize", "social"}
                \cup PublishPcs \cup LocalPcs \cup BridgePcs

\* A running job has its entry of the queue, a snapshot that is not ahead of
\* the saga row, and is past the approval only if that is done.
WorkerInv(w) ==
    wk[w].pc # "idle" =>
        /\ JobOf(w).state = "active"
        /\ wk[w].saga \subseteq done[wk[w].paper]
        /\ wk[w].pc \in StagePcs => wk[w].stage \in Stages \ {Approved}
        /\ wk[w].pc \in LaterPcs => wk[w].stage > Approved
        /\ wk[w].stage > Approved => Approved \in done[wk[w].paper]

\* No two slots run the same job.
JobsExclusive ==
    \A v, w \in Workers :
        /\ wk[v].pc # "idle" /\ wk[w].pc # "idle"
        /\ wk[v].paper = wk[w].paper /\ wk[v].job = wk[w].job
        => v = w

\* A job that may run again has an attempt left.
AttemptsLeft ==
    \A p \in Papers, j \in JobNames :
        jobs[p][j].state \notin {"completed", "failed"} => jobs[p][j].attempts < MaxAttempts

\* An accept that goes on has seen a version.
AcceptHasVersion ==
    \A m \in Decisions :
        mod[m].pc \in {"marking", "rescinding", "enqueueing"}
            => version[mod[m].paper].key # "none"

Inv ==
    /\ TypeOK
    /\ AttemptsLeft
    /\ AcceptHasVersion
    /\ JobsExclusive
    /\ \A w \in Workers : WorkerInv(w)
    /\ ApprovalGate

-----------------------------------------------------------------------------
LEMMA InitInv == Init => Inv
<1> SUFFICES ASSUME Init PROVE Inv
    OBVIOUS
<1> USE SagaAssumption DEF Init
<1>1. PaperTypes
    BY DEF PaperTypes, Statuses, Version, NoVersion, Keys
<1>2. EffectTypes /\ RequestTypes
    BY DEF EffectTypes, RequestTypes
<1>3. jobs \in [Papers -> [JobNames -> Job]]
    BY DEF Job, NoJob, JobStates, Keys
<1>4. TypeOK
    BY <1>1, <1>2, <1>3 DEF TypeOK
<1>5. AttemptsLeft
    BY DEF AttemptsLeft, NoJob
<1>6. AcceptHasVersion /\ JobsExclusive /\ \A w \in Workers : WorkerInv(w)
    BY DEF AcceptHasVersion, JobsExclusive, WorkerInv, Idle
<1>7. ApprovalGate
    BY DEF ApprovalGate, Visible
<1> QED BY <1>4, <1>5, <1>6, <1>7 DEF Inv

\* What a record in the table of slots is.
LEMMA WorkerType ==
    ASSUME wk \in [Workers -> {Idle} \cup Running], NEW w \in Workers, wk[w].pc # "idle"
    PROVE  /\ wk[w] \in Running
           /\ wk[w].pc \in WorkerPcs
           /\ wk[w].paper \in Papers /\ wk[w].job \in JobNames
           /\ wk[w].saga \in SUBSET Stages /\ wk[w].stack \in SUBSET Stages
           /\ wk[w].stage \in 0..Finished
           /\ wk[w].wrote \in Nat /\ wk[w].id \in Nat /\ wk[w].uri \in Nat
BY DEF Idle, Running

\* A slot goes to another place of its job, and stays in its stage.
MovesTo(w, l) ==
    /\ wk' \in [Workers -> {Idle} \cup Running]
    /\ wk'[w] \in Running
    /\ wk'[w].pc = l /\ wk'[w].paper = wk[w].paper /\ wk'[w].job = wk[w].job
    /\ wk'[w].saga = wk[w].saga /\ wk'[w].stage = wk[w].stage
    /\ \A v \in Workers \ {w} : wk'[v] = wk[v]

LEMMA GotoMoves ==
    ASSUME wk \in [Workers -> {Idle} \cup Running], NEW w \in Workers, wk[w].pc # "idle",
           NEW l \in WorkerPcs, Goto(w, l)
    PROVE  MovesTo(w, l)
<1>1. wk'[w] = [wk[w] EXCEPT !.pc = l]
    BY DEF Goto
<1>2. wk[w] \in Running
    BY WorkerType
<1>3. /\ wk'[w] \in Running
      /\ wk'[w].pc = l /\ wk'[w].paper = wk[w].paper /\ wk'[w].job = wk[w].job
      /\ wk'[w].saga = wk[w].saga /\ wk'[w].stage = wk[w].stage
    BY <1>1, <1>2 DEF Running
<1>4. \A v \in Workers \ {w} : wk'[v] = wk[v]
    BY DEF Goto
<1> QED BY <1>3, <1>4 DEF Goto, MovesTo

-----------------------------------------------------------------------------
(* What a step has to show. *)

\* The flags of a paper, and the version an accept has seen, stay.
Grows ==
    \A p \in Papers :
        /\ done[p] \subseteq done'[p]
        /\ version[p].key # "none" => version'[p].key # "none"

\* What becomes visible is of an approved paper.
Gated == \A p \in Papers : Visible(p)' => Visible(p) \/ Approved \in done[p]

LEMMA GateKept == ASSUME Inv, Grows, Gated PROVE ApprovalGate'
BY DEF Inv, Grows, Gated, ApprovalGate

\* Slots that the step leaves alone, with the entries of their jobs.
LEMMA OthersKept ==
    ASSUME Inv, Grows, NEW v \in Workers, wk'[v] = wk[v],
           wk[v].pc # "idle"
              => jobs'[wk[v].paper][wk[v].job] = jobs[wk[v].paper][wk[v].job]
    PROVE  WorkerInv(v)'
<1> SUFFICES ASSUME wk[v].pc # "idle" PROVE WorkerInv(v)'
    BY DEF WorkerInv
<1>1. wk[v].paper \in Papers
    BY WorkerType DEF Inv, TypeOK
<1> QED BY <1>1 DEF Inv, WorkerInv, JobOf, Grows

\* A step of a handler.
LEMMA RequestInv ==
    ASSUME Inv, TypeOK', AttemptsLeft', AcceptHasVersion', Grows, Gated, wk' = wk,
           \A p \in Papers, j \in JobNames :
                jobs[p][j].state = "active" => jobs'[p][j] = jobs[p][j]
    PROVE  Inv'
<1>1. ASSUME NEW v \in Workers PROVE WorkerInv(v)'
    <2>1. wk[v].pc # "idle" => /\ wk[v].paper \in Papers /\ wk[v].job \in JobNames
                               /\ jobs[wk[v].paper][wk[v].job].state = "active"
        BY WorkerType DEF Inv, TypeOK, WorkerInv, JobOf
    <2> QED BY <2>1, OthersKept
<1>2. JobsExclusive'
    BY DEF Inv, JobsExclusive
<1> QED BY <1>1, <1>2, GateKept DEF Inv

\* A step of a slot within its job.
LEMMA MoveInv ==
    ASSUME Inv, NEW w \in Workers, wk[w].pc # "idle", Grows, Gated,
           wk' \in [Workers -> {Idle} \cup Running], wk'[w] \in Running,
           wk'[w].paper = wk[w].paper, wk'[w].job = wk[w].job,
           \A v \in Workers \ {w} : wk'[v] = wk[v],
           WorkerInv(w)', PaperTypes', EffectTypes', faults' \in 0..MaxFaults,
           jobs' = jobs, UNCHANGED httpVars
    PROVE  Inv'
<1>1. TypeOK'
    BY DEF Inv, TypeOK, RequestTypes, httpVars
<1>2. AttemptsLeft'
    BY DEF Inv, AttemptsLeft
<1>3. AcceptHasVersion'
    <2>1. \A m \in Decisions :
            mod[m].pc \in {"marking", "rescinding", "enqueueing"} => mod[m].paper \in Papers
        BY DEF Inv, TypeOK, RequestTypes, Idle, Answered, Moderating
    <2> QED BY <2>1 DEF Inv, AcceptHasVersion, Grows, httpVars
<1>4. JobsExclusive'
    BY DEF Inv, JobsExclusive
<1>5. ASSUME NEW v \in Workers PROVE WorkerInv(v)'
    BY <1>5, OthersKept
<1> QED BY <1>1, <1>2, <1>3, <1>4, <1>5, GateKept DEF Inv

\* A step of a slot to another place of the same stage, or out of the stages.
LEMMA StageInv ==
    ASSUME Inv, NEW w \in Workers, wk[w].pc # "idle", NEW l \in WorkerPcs, MovesTo(w, l),
           l \in StagePcs => wk[w].pc \in StagePcs,
           l \in LaterPcs => wk[w].pc \in LaterPcs,
           Grows, Gated, PaperTypes', EffectTypes', faults' \in 0..MaxFaults,
           jobs' = jobs, UNCHANGED httpVars
    PROVE  Inv'
<1>1. wk[w].paper \in Papers
    BY WorkerType DEF Inv, TypeOK
<1>2. WorkerInv(w)'
    BY <1>1 DEF MovesTo, Inv, WorkerInv, JobOf, Grows
<1> QED BY <1>2, MoveInv DEF MovesTo

LEMMA GotoInv ==
    ASSUME Inv, NEW w \in Workers, wk[w].pc # "idle", NEW l \in WorkerPcs, Goto(w, l),
           l \in StagePcs => wk[w].pc \in StagePcs,
           l \in LaterPcs => wk[w].pc \in LaterPcs,
           Grows, Gated, PaperTypes', EffectTypes', faults' \in 0..MaxFaults,
           jobs' = jobs, UNCHANGED httpVars
    PROVE  Inv'
BY GotoMoves, StageInv DEF Inv, TypeOK

\* Nothing but the slot itself changes.
LEMMA LocalKept ==
    ASSUME Inv, LocalStep
    PROVE  /\ Grows /\ Gated /\ PaperTypes' /\ EffectTypes' /\ faults' \in 0..MaxFaults
           /\ jobs' = jobs /\ UNCHANGED httpVars
BY DEF LocalStep, Quiet, paperVars, sagaVars, remote, Grows, Gated, Visible, PaperTypes,
       EffectTypes, Inv, TypeOK

LEMMA LocalGotoInv ==
    ASSUME Inv, NEW w \in Workers, wk[w].pc # "idle", NEW l \in WorkerPcs, Goto(w, l),
           l \in StagePcs => wk[w].pc \in StagePcs,
           l \in LaterPcs => wk[w].pc \in LaterPcs,
           LocalStep
    PROVE  Inv'
BY GotoInv, LocalKept

\* runStages enters a stage that is not done, over stages that are.
LEMMA RunStagesInv ==
    ASSUME Inv, NEW w \in Workers, wk[w].pc # "idle", LocalStep,
           NEW saga \in SUBSET Stages, NEW from \in 1..Finished, NEW i \in Nat, NEW u \in Nat,
           saga \subseteq done[wk[w].paper],
           from > Approved => Approved \in done[wk[w].paper],
           RunStages(w, saga, from, i, u)
    PROVE  Inv'
<1>1. PICK k \in from..Finished :
        /\ IsNextStage(saga, from, k)
        /\ wk' = [wk EXCEPT ![w] = Entered(wk[w], k, i, u)]
    BY DEF RunStages
<1>2. wk'[w] = Entered(wk[w], k, i, u)
    BY <1>1 DEF Inv, TypeOK
<1>3. wk[w] \in Running /\ wk[w].paper \in Papers /\ wk[w].stack \in SUBSET Stages
    BY WorkerType DEF Inv, TypeOK
<1>4. k \in 1..7
    BY DEF Finished
<1>5. /\ StageEntry[k] \in WorkerPcs
      /\ StageEntry[k] \in StagePcs => k \in Stages \ {Approved}
      /\ StageEntry[k] \in LaterPcs => k > Approved
    BY <1>4
    DEF StageEntry, Finished, Persisted, Approved, IdAssigned, PdsPaper, PdsNotes, Bridge,
        Stages, WorkerPcs, StagePcs, LaterPcs, CompilePcs, PublishPcs, LocalPcs, BridgePcs,
        OtherPcs
<1> DEFINE st == IF k \in {Approved, Finished} THEN wk[w].stack ELSE wk[w].stack \cup {k}
<1>6. /\ st \in SUBSET Stages
      /\ wk'[w] = [wk[w] EXCEPT !.pc = StageEntry[k], !.stage = k, !.id = i, !.uri = u,
                                !.saga = {}, !.stack = st]
    BY <1>2, <1>3, <1>4 DEF Entered, Stages, Finished
<1>7. /\ wk'[w] \in Running
      /\ wk'[w].pc = StageEntry[k] /\ wk'[w].stage = k /\ wk'[w].saga = {}
      /\ wk'[w].paper = wk[w].paper /\ wk'[w].job = wk[w].job
    <2> HIDE DEF st
    <2>1. k \in 0..Finished /\ {} \in SUBSET Stages
        BY <1>4 DEF Finished
    <2> QED BY <2>1, <1>3, <1>5, <1>6 DEF Running
<1>8. k > Approved => Approved \in done[wk[w].paper]
    <2> SUFFICES ASSUME k > Approved, ~(from > Approved) PROVE Approved \in saga
        OBVIOUS
    <2>1. Approved \in from..(k - 1)
        BY <1>4 DEF Approved, Finished
    <2> QED BY <1>1, <2>1 DEF IsNextStage
<1>9. WorkerInv(w)'
    BY <1>3, <1>5, <1>7, <1>8, LocalKept DEF Inv, WorkerInv, JobOf, Grows
<1>10. /\ wk' \in [Workers -> {Idle} \cup Running]
       /\ \A v \in Workers \ {w} : wk'[v] = wk[v]
    BY <1>1, <1>7 DEF Inv, TypeOK
<1> QED BY <1>7, <1>9, <1>10, MoveInv, LocalKept

-----------------------------------------------------------------------------
(* The steps of a running job. *)

LEMMA Here ==
    ASSUME Inv, NEW w \in Workers, wk[w].pc # "idle"
    PROVE  /\ wk[w].paper \in Papers /\ wk[w].job \in JobNames
           /\ JobOf(w) \in Job /\ JobOf(w).key \in Keys
           /\ wk[w].pc \in LaterPcs => Approved \in done[wk[w].paper]
<1>1. wk[w].paper \in Papers /\ wk[w].job \in JobNames
    BY WorkerType DEF Inv, TypeOK
<1>2. JobOf(w) \in Job
    BY <1>1 DEF Inv, TypeOK, JobOf
<1>3. wk[w].pc \in LaterPcs => Approved \in done[wk[w].paper]
    BY DEF Inv, WorkerInv
<1> QED BY <1>1, <1>2, <1>3 DEF Job

LEMMA FaultBound == ASSUME Inv, Fault PROVE faults' \in 0..MaxFaults
BY SagaAssumption DEF Inv, TypeOK, Fault

\* A step that changes neither a row nor an effect.
LEMMA RowsKept ==
    ASSUME Inv, UNCHANGED <<paperVars, sagaVars, remote, version, queued>>
    PROVE  Grows /\ Gated /\ PaperTypes' /\ EffectTypes'
BY DEF paperVars, sagaVars, remote, Grows, Gated, Visible, PaperTypes, EffectTypes, Inv, TypeOK

LEMMA FlowInv ==
    ASSUME Inv, NEW w \in Workers,
           LoadSaga(w) \/ LoadPaper(w) \/ NextSaga(w) \/ Reread(w) \/ Confirm(w)
    PROVE  Inv'
<1> USE DEF At
<1>1. CASE LoadSaga(w)
    <2>1. wk[w].pc # "idle" /\ LocalStep
        BY <1>1 DEF LoadSaga
    <2>2. wk'[w] = [wk[w] EXCEPT !.saga = done[wk[w].paper], !.pc = "loadPaper"]
        BY <1>1 DEF LoadSaga, Inv, TypeOK
    <2>3. wk[w] \in Running /\ wk[w].paper \in Papers /\ done[wk[w].paper] \in SUBSET Stages
        BY <2>1, WorkerType DEF Inv, TypeOK, PaperTypes
    <2>4. /\ wk'[w] \in Running
          /\ wk'[w].pc = "loadPaper" /\ wk'[w].saga = done[wk[w].paper]
          /\ wk'[w].paper = wk[w].paper /\ wk'[w].job = wk[w].job
          /\ wk'[w].stage = wk[w].stage
        BY <2>2, <2>3 DEF Running, WorkerPcs
    <2>5. /\ wk' \in [Workers -> {Idle} \cup Running]
          /\ \A v \in Workers \ {w} : wk'[v] = wk[v]
        BY <1>1, <2>4 DEF LoadSaga, Inv, TypeOK
    <2>6. WorkerInv(w)'
        BY <2>1, <2>3, <2>4, LocalKept
        DEF Inv, WorkerInv, JobOf, Grows, StagePcs, LaterPcs, CompilePcs, PublishPcs, LocalPcs,
            BridgePcs, OtherPcs
    <2> QED BY <2>1, <2>4, <2>5, <2>6, MoveInv, LocalKept
<1>2. CASE LoadPaper(w)
    <2>1. /\ wk[w].pc # "idle" /\ LocalStep
          /\ RunStages(w, wk[w].saga, Persisted, openxivId[wk[w].paper], uri[wk[w].paper])
        BY <1>2 DEF LoadPaper
    <2>2. /\ wk[w].saga \in SUBSET Stages /\ wk[w].saga \subseteq done[wk[w].paper]
          /\ openxivId[wk[w].paper] \in Nat /\ uri[wk[w].paper] \in Nat
          /\ Persisted \in 1..Finished /\ ~(Persisted > Approved)
        BY <2>1, WorkerType DEF Inv, TypeOK, PaperTypes, WorkerInv, Persisted, Approved, Finished
    <2> QED BY <2>1, <2>2, RunStagesInv
<1>3. CASE NextSaga(w)
    <2>1. /\ wk[w].pc # "idle" /\ LocalStep
          /\ RunStages(w, done[wk[w].paper], wk[w].stage + 1, wk[w].id, wk[w].uri)
        BY <1>3 DEF NextSaga
    <2>2. wk[w].stage \in Stages \ {Approved}
        BY <1>3 DEF NextSaga, Inv, WorkerInv, StagePcs, OtherPcs
    <2>3. /\ done[wk[w].paper] \in SUBSET Stages
          /\ wk[w].id \in Nat /\ wk[w].uri \in Nat
          /\ wk[w].stage + 1 \in 1..Finished
          /\ wk[w].stage + 1 > Approved => wk[w].stage > Approved
        BY <2>1, <2>2, WorkerType DEF Inv, TypeOK, PaperTypes, Stages, Approved, Finished
    <2>4. wk[w].stage + 1 > Approved => Approved \in done[wk[w].paper]
        BY <2>1, <2>3 DEF Inv, WorkerInv
    <2> HIDE DEF Finished, Approved
    <2> QED BY <2>1, <2>3, <2>4, RunStagesInv
<1>4. ASSUME NEW l \in WorkerPcs, wk[w].pc \in StagePcs, l \notin LaterPcs, LocalStep,
             wk' = [wk EXCEPT ![w].id = openxivId[wk[w].paper], ![w].uri = uri[wk[w].paper],
                              ![w].pc = l]
      PROVE  Inv'
    <2>1. wk[w].pc # "idle"
        BY <1>4 DEF StagePcs, CompilePcs, PublishPcs, LocalPcs, BridgePcs, OtherPcs
    <2>2. wk'[w] = [wk[w] EXCEPT !.id = openxivId[wk[w].paper], !.uri = uri[wk[w].paper],
                                 !.pc = l]
        BY <1>4 DEF Inv, TypeOK
    <2>3. wk[w] \in Running /\ openxivId[wk[w].paper] \in Nat /\ uri[wk[w].paper] \in Nat
        BY <2>1, WorkerType DEF Inv, TypeOK, PaperTypes
    <2>4. /\ wk'[w] \in Running
          /\ wk'[w].pc = l /\ wk'[w].saga = wk[w].saga
          /\ wk'[w].paper = wk[w].paper /\ wk'[w].job = wk[w].job
          /\ wk'[w].stage = wk[w].stage
        <3> DEFINE i == openxivId[wk[w].paper]
                   u == uri[wk[w].paper]
        <3>1. wk'[w] = [wk[w] EXCEPT !.id = i, !.uri = u, !.pc = l]
            BY <2>2
        <3>2. i \in Nat /\ u \in Nat /\ l \in WorkerPcs /\ wk[w] \in Running
            BY <1>4, <2>3
        <3> HIDE DEF i, u
        <3> QED BY <3>1, <3>2 DEF Running
    <2>5. /\ wk' \in [Workers -> {Idle} \cup Running]
          /\ \A v \in Workers \ {w} : wk'[v] = wk[v]
        BY <1>4, <2>4 DEF Inv, TypeOK
    <2>6. WorkerInv(w)'
        BY <1>4, <2>1, <2>4, Here, LocalKept DEF Inv, WorkerInv, JobOf, Grows
    <2> QED BY <1>4, <2>1, <2>4, <2>5, <2>6, MoveInv, LocalKept
<1>5. CASE Reread(w) \/ Confirm(w)
    <2>1. /\ "markDone" \in WorkerPcs /\ "markDone" \notin LaterPcs
          /\ wk[w].pc \in StagePcs
        BY <1>5 DEF Reread, Confirm, WorkerPcs, StagePcs, LaterPcs, CompilePcs, PublishPcs,
                    LocalPcs, BridgePcs, OtherPcs
    <2> QED BY <1>4, <1>5, <2>1 DEF Reread, Confirm
<1> QED BY <1>1, <1>2, <1>3, <1>5

LEMMA MarkInv ==
    ASSUME Inv, NEW w \in Workers, MarkStageDone(w) PROVE Inv'
<1> DEFINE p == wk[w].paper
<1>1. /\ wk[w].pc = "markDone" /\ wk[w].stage \in Stages /\ p \in Papers
      /\ done' = [done EXCEPT ![p] = done[p] \cup {wk[w].stage}]
      /\ lastErrorStage' = [lastErrorStage EXCEPT ![p] = 0]
      /\ UNCHANGED <<paperVars, remote, httpVars, version, queued, jobs, faults>>
    BY Here DEF MarkStageDone, At, Inv, WorkerInv, StagePcs, OtherPcs
<1>2. "nextSaga" \in WorkerPcs \cap StagePcs /\ "nextSaga" \notin LaterPcs
      /\ wk[w].pc \in StagePcs
    BY <1>1 DEF WorkerPcs, StagePcs, LaterPcs, CompilePcs, PublishPcs, LocalPcs, BridgePcs,
                OtherPcs
<1>3. PaperTypes' /\ EffectTypes'
    BY <1>1 DEF Inv, TypeOK, PaperTypes, EffectTypes, paperVars, remote
<1>4. Grows /\ Gated
    BY <1>1 DEF Inv, TypeOK, PaperTypes, Grows, Gated, Visible, paperVars, remote
<1>5. Goto(w, "nextSaga") /\ faults' \in 0..MaxFaults
    BY <1>1 DEF MarkStageDone, Inv, TypeOK
<1> QED BY <1>1, <1>2, <1>3, <1>4, <1>5, GotoInv

\* The status that a hold writes is not a public one.
LEMMA HoldInv == ASSUME Inv, NEW w \in Workers, Hold(w) \/ HoldFails(w) PROVE Inv'
<1> DEFINE p == wk[w].paper
<1>1. PICK l \in {"summary", "unwind"} : Goto(w, l)
    BY DEF Hold, HoldFails
<1>2. l \in WorkerPcs /\ l \notin StagePcs /\ l \notin LaterPcs
    BY DEF WorkerPcs, StagePcs, LaterPcs, CompilePcs, PublishPcs, LocalPcs, BridgePcs, OtherPcs
<1>3. /\ wk[w].pc # "idle" /\ p \in Papers
      /\ \/ status' = status
         \/ status' = [status EXCEPT ![p] = "pending_review"]
      /\ UNCHANGED <<openxivId, uri, idCounter, sagaVars, remote, version, queued>>
      /\ jobs' = jobs /\ UNCHANGED httpVars
    BY Here DEF Hold, HoldFails, At, Quiet
<1>4. PaperTypes' /\ EffectTypes'
    BY <1>3 DEF Inv, TypeOK, PaperTypes, EffectTypes, Statuses, sagaVars, remote
<1>5. Grows /\ Gated
    BY <1>3 DEF Inv, TypeOK, PaperTypes, Grows, Gated, Visible, sagaVars, remote
<1>6. faults' \in 0..MaxFaults
    BY FaultBound DEF Hold, HoldFails, Inv, TypeOK
<1> QED BY <1>1, <1>2, <1>3, <1>4, <1>5, <1>6, GotoInv

LEMMA CompileInv == ASSUME Inv, NEW w \in Workers, CompileStep(w) PROVE Inv'
<1> DEFINE p == wk[w].paper
<1> USE DEF At
<1>1. /\ {"latestVersion", "setHtml", "addVersion", "extract", "reread", "unwind"}
            \subseteq WorkerPcs \ LaterPcs
      /\ wk[w].pc \in StagePcs /\ wk[w].pc # "idle"
    BY DEF CompileStep, GetSource, LatestVersion, AddVersion, SetHtml, Extract, WorkerPcs,
           StagePcs, LaterPcs, CompilePcs, PublishPcs, LocalPcs, BridgePcs, OtherPcs
<1>2. CASE GetSource(w) \/ LatestVersion(w) \/ Extract(w)
    <2>1. PICK l \in {"latestVersion", "setHtml", "addVersion", "reread", "unwind"} : Goto(w, l)
        BY <1>2 DEF GetSource, LatestVersion, Extract
    <2> QED BY <1>1, <1>2, <2>1, LocalGotoInv DEF GetSource, LatestVersion, Extract
<1>3. CASE AddVersion(w) \/ SetHtml(w)
    <2>1. PICK l \in {"setHtml", "extract", "unwind"} : Goto(w, l)
        BY <1>3 DEF AddVersion, SetHtml
    <2>2. /\ p \in Papers /\ JobOf(w).key \in Keys /\ version[p] \in Version
          /\ UNCHANGED <<paperVars, sagaVars, remote, queued, faults>>
          /\ jobs' = jobs /\ UNCHANGED httpVars
        BY <1>1, <1>3, Here DEF AddVersion, SetHtml, Quiet, Inv, TypeOK, PaperTypes
    <2>3. /\ version' \in [Papers -> Version]
          /\ \A q \in Papers : version[q].key # "none" => version'[q].key # "none"
        <3>1. CASE version' = version
            BY <3>1 DEF Inv, TypeOK, PaperTypes
        <3>2. CASE version' = [version EXCEPT ![p].key = JobOf(w).key]
            <4>1. version'[p] = [version[p] EXCEPT !.key = JobOf(w).key]
                BY <2>2, <3>2 DEF Inv, TypeOK, PaperTypes
            <4>2. version'[p] \in Version /\ version'[p].key # "none"
                BY <2>2, <4>1 DEF Version, Keys
            <4> QED BY <2>2, <3>2, <4>2 DEF Inv, TypeOK, PaperTypes
        <3>3. CASE version' = [version EXCEPT ![p].html = TRUE]
            <4>1. version'[p] = [version[p] EXCEPT !.html = TRUE]
                BY <2>2, <3>3 DEF Inv, TypeOK, PaperTypes
            <4>2. version'[p] \in Version /\ version'[p].key = version[p].key
                BY <2>2, <4>1 DEF Version
            <4> QED BY <2>2, <3>3, <4>2 DEF Inv, TypeOK, PaperTypes
        <3> QED BY <1>3, <3>1, <3>2, <3>3 DEF AddVersion, SetHtml
    <2>4. PaperTypes' /\ EffectTypes' /\ Grows /\ Gated /\ faults' \in 0..MaxFaults
        BY <2>2, <2>3 DEF Inv, TypeOK, PaperTypes, EffectTypes, Grows, Gated, Visible,
                          paperVars, sagaVars, remote
    <2> QED BY <1>1, <2>1, <2>2, <2>4, GotoInv
<1> QED BY <1>2, <1>3 DEF CompileStep

\* The steps that make a paper visible belong to the stages after the approval.
LEMMA ApprovedInv ==
    ASSUME Inv, NEW w \in Workers, wk[w].pc \in LaterPcs,
           NEW l \in WorkerPcs, MovesTo(w, l),
           PaperTypes', EffectTypes', faults' \in 0..MaxFaults,
           \A q \in Papers \ {wk[w].paper} : Visible(q)' => Visible(q),
           UNCHANGED <<sagaVars, jobs, httpVars>>,
           \A q \in Papers : version[q].key # "none" => version'[q].key # "none"
    PROVE  Inv'
<1>1. wk[w].pc # "idle" /\ wk[w].pc \in StagePcs
    BY DEF StagePcs, LaterPcs, CompilePcs, PublishPcs, LocalPcs, BridgePcs, OtherPcs
<1>2. Approved \in done[wk[w].paper] /\ wk[w].paper \in Papers
    BY <1>1, Here
<1>3. Gated /\ Grows
    BY <1>2 DEF Gated, Grows, sagaVars
<1> QED BY <1>1, <1>3, StageInv DEF sagaVars

LEMMA AllocateInv == ASSUME Inv, NEW w \in Workers, Allocate(w) PROVE Inv'
<1> DEFINE p == wk[w].paper
           s == SubjectOf[p]
<1>1. /\ wk[w].pc = "allocate" /\ wk[w].pc \in LaterPcs
      /\ p \in Papers /\ s \in Subjects
    BY Here, SagaAssumption DEF Allocate, At, LaterPcs
<1>2. PICK l \in {"markDone", "reread"} : Goto(w, l)
    BY DEF Allocate
<1>3. l \in WorkerPcs /\ MovesTo(w, l)
    BY <1>1, <1>2, GotoMoves DEF WorkerPcs, StagePcs, OtherPcs, Inv, TypeOK
<1>4. /\ \/ UNCHANGED <<openxivId, idCounter>>
         \/ /\ idCounter' = [idCounter EXCEPT ![s] = idCounter[s] + 1]
            /\ openxivId' = [openxivId EXCEPT ![p] = idCounter[s] + 1]
      /\ UNCHANGED <<status, uri, remote, version, queued, faults, sagaVars, jobs, httpVars>>
    BY DEF Allocate, Quiet
<1>5. PaperTypes' /\ EffectTypes' /\ faults' \in 0..MaxFaults
    BY <1>1, <1>4 DEF Inv, TypeOK, PaperTypes, EffectTypes, sagaVars, remote
<1>6. \A q \in Papers \ {p} : Visible(q)' => Visible(q)
    BY <1>1, <1>4 DEF Visible, remote, Inv, TypeOK, PaperTypes
<1> QED BY <1>1, <1>2, <1>3, <1>4, <1>5, <1>6, ApprovedInv

LEMMA PublishInv ==
    ASSUME Inv, NEW w \in Workers,
           \/ PutRecord(w) \/ SetUri(w) \/ SetPublished(w) \/ PublishFails(w)
           \/ LocalPublish(w) \/ LocalFinalize(w) \/ LocalSocial(w) \/ RecordUnavailable(w)
    PROVE  Inv'
<1> DEFINE p == wk[w].paper
<1> USE DEF At
<1>1. /\ wk[w].pc \in PublishPcs \cup LocalPcs /\ wk[w].pc \in LaterPcs /\ wk[w].pc # "idle"
      /\ p \in Papers
    <2>1. wk[w].pc \in PublishPcs \cup LocalPcs
        BY DEF PutRecord, SetUri, SetPublished, PublishFails, LocalPublish, LocalFinalize,
               LocalSocial, RecordUnavailable, PublishPcs, LocalPcs
    <2>2. wk[w].pc \in LaterPcs /\ wk[w].pc # "idle"
        BY <2>1 DEF LaterPcs, PublishPcs, LocalPcs
    <2> QED BY <2>1, <2>2, Here
<1>2. {"markDone", "setUri", "setPublished", "confirm", "localPublish", "localFinalize",
       "localSocial", "reread", "unwind"} \subseteq WorkerPcs
    BY DEF WorkerPcs, StagePcs, PublishPcs, LocalPcs, OtherPcs
<1>3. wk \in [Workers -> {Idle} \cup Running] /\ wk[w] \in Running
    BY <1>1, WorkerType DEF Inv, TypeOK
<1>4. \E l \in WorkerPcs : MovesTo(w, l)
    <2>1. ASSUME NEW l \in WorkerPcs, NEW n \in Nat,
                 wk' = [wk EXCEPT ![w].pc = l, ![w].wrote = n]
          PROVE  MovesTo(w, l)
        <3>1. wk'[w] = [wk[w] EXCEPT !.pc = l, !.wrote = n]
            BY <1>3, <2>1
        <3>2. /\ wk'[w] \in Running
              /\ wk'[w].pc = l /\ wk'[w].paper = wk[w].paper /\ wk'[w].job = wk[w].job
              /\ wk'[w].saga = wk[w].saga /\ wk'[w].stage = wk[w].stage
            BY <1>3, <3>1 DEF Running
        <3> QED BY <1>3, <2>1, <3>2 DEF MovesTo
    <2>2. ASSUME NEW t \in BOOLEAN, wk' = [wk EXCEPT ![w].pc = "unwind", ![w].terminal = t]
          PROVE  MovesTo(w, "unwind")
        <3>1. wk'[w] = [wk[w] EXCEPT !.pc = "unwind", !.terminal = t]
            BY <1>3, <2>2
        <3>2. /\ wk'[w] \in Running
              /\ wk'[w].pc = "unwind" /\ wk'[w].paper = wk[w].paper
              /\ wk'[w].job = wk[w].job
              /\ wk'[w].saga = wk[w].saga /\ wk'[w].stage = wk[w].stage
            BY <1>2, <1>3, <3>1 DEF Running
        <3> QED BY <1>3, <2>2, <3>2 DEF MovesTo
    <2>3. CASE \E l \in WorkerPcs : Goto(w, l)
        BY <2>3, <1>1, <1>3, GotoMoves
    <2>4. records[p] + 1 \in Nat /\ 0 \in Nat
        BY <1>1 DEF Inv, TypeOK, EffectTypes
    <2>5. CASE PutRecord(w)
        BY <1>2, <2>1, <2>3, <2>4, <2>5 DEF PutRecord
    <2>6. CASE SetUri(w)
        BY <1>2, <2>1, <2>4, <2>6 DEF SetUri
    <2>7. CASE RecordUnavailable(w)
        BY <1>2, <2>2, <2>7 DEF RecordUnavailable
    <2>8. CASE SetPublished(w) \/ PublishFails(w) \/ LocalPublish(w)
        BY <1>2, <2>3, <2>8 DEF SetPublished, PublishFails, LocalPublish
    <2>9. CASE LocalFinalize(w) \/ LocalSocial(w)
        BY <1>2, <2>3, <2>9 DEF LocalFinalize, LocalSocial, Enqueue
    <2> QED BY <2>5, <2>6, <2>7, <2>8, <2>9
<1>5. /\ \/ status' = status
         \/ status' = [status EXCEPT ![p] = "published"]
      /\ \/ uri' = uri
         \/ uri' = [uri EXCEPT ![p] = wk[w].wrote]
      /\ \/ records' = records
         \/ records' = [records EXCEPT ![p] = records[p] + 1]
      /\ \/ queued' = queued
         \/ \E q \in {"finalize", "social"} : queued' = [queued EXCEPT ![p] = queued[p] \cup {q}]
      /\ UNCHANGED <<openxivId, idCounter, notes, posts, version, sagaVars, jobs, httpVars>>
    BY DEF PutRecord, SetUri, SetPublished, PublishFails, LocalPublish, LocalFinalize,
           LocalSocial, RecordUnavailable, Enqueue, LocalStep, Quiet, paperVars, remote
<1>6. faults' \in 0..MaxFaults
    BY FaultBound DEF PutRecord, SetUri, SetPublished, PublishFails, LocalPublish,
           LocalFinalize, LocalSocial, RecordUnavailable, Enqueue, LocalStep, Inv, TypeOK
<1>7. PaperTypes' /\ EffectTypes'
    <2>1. wk[w].wrote \in Nat
        BY <1>1, <1>3, WorkerType
    <2>2. status' \in [Papers -> Statuses] /\ uri' \in [Papers -> Nat]
        BY <1>1, <1>5, <2>1 DEF Inv, TypeOK, PaperTypes, Statuses
    <2>3. PaperTypes'
        BY <1>5, <2>2 DEF Inv, TypeOK, PaperTypes, sagaVars
    <2>4. records' \in [Papers -> Nat]
        BY <1>1, <1>5 DEF Inv, TypeOK, EffectTypes
    <2>5. queued' \in [Papers -> SUBSET {"finalize", "social"}]
        BY <1>1, <1>5 DEF Inv, TypeOK, EffectTypes
    <2> QED BY <1>5, <2>3, <2>4, <2>5 DEF Inv, TypeOK, EffectTypes
<1>8. \A q \in Papers \ {p} : Visible(q)' => Visible(q)
    BY <1>1, <1>5 DEF Visible, Inv, TypeOK, PaperTypes, EffectTypes
<1> QED BY <1>1, <1>4, <1>5, <1>6, <1>7, <1>8, ApprovedInv

LEMMA NotesInv == ASSUME Inv, NEW w \in Workers, PutNotes(w) PROVE Inv'
<1> DEFINE p == wk[w].paper
<1>1. /\ wk[w].pc \in LaterPcs /\ wk[w].pc # "idle" /\ p \in Papers
      /\ "reread" \in WorkerPcs /\ MovesTo(w, "reread")
    <2>1. /\ wk[w].pc \in LaterPcs /\ wk[w].pc # "idle" /\ "reread" \in WorkerPcs
          /\ Goto(w, "reread")
        BY DEF PutNotes, At, LaterPcs, WorkerPcs, StagePcs, OtherPcs
    <2> QED BY <2>1, Here, GotoMoves DEF Inv, TypeOK
<1>2. /\ notes' = notes \/ notes' = [notes EXCEPT ![p] = notes[p] + 1]
      /\ UNCHANGED <<paperVars, records, posts, version, queued, sagaVars, jobs, httpVars>>
    BY DEF PutNotes, Quiet
<1>3. faults' \in 0..MaxFaults
    BY FaultBound DEF PutNotes, Inv, TypeOK
<1>4. PaperTypes' /\ EffectTypes'
    BY <1>1, <1>2 DEF Inv, TypeOK, PaperTypes, EffectTypes, paperVars, sagaVars
<1>5. \A q \in Papers \ {p} : Visible(q)' => Visible(q)
    BY <1>1, <1>2 DEF Visible, Inv, TypeOK, EffectTypes, paperVars
<1> QED BY <1>1, <1>2, <1>3, <1>4, <1>5, ApprovedInv

LEMMA BridgeInv == ASSUME Inv, NEW w \in Workers, BridgeStep(w) PROVE Inv'
<1> DEFINE p == wk[w].paper
<1> USE DEF At
<1>1. wk[w].pc \in {"readVersion", "finalize", "social"} \cup BridgePcs
    BY DEF BridgeStep, ReadVersion, Post, SetBridgeResult, BridgeFails, FinalizeJob, SocialJob,
           BridgePcs
<1>2. wk[w].pc \in LaterPcs /\ wk[w].pc # "idle"
    BY <1>1 DEF LaterPcs, BridgePcs
<1>3. p \in Papers
    BY <1>2, Here
<1>4. PICK l \in {"markDone", "finalize", "post", "setSkipped", "setPosted", "setFailed",
                  "social", "reread"} : Goto(w, l)
    BY DEF BridgeStep, ReadVersion, Post, SetBridgeResult, BridgeFails, FinalizeJob, SocialJob,
           Enqueue
<1>5. l \in WorkerPcs /\ MovesTo(w, l)
    <2>1. l \in WorkerPcs
        BY DEF WorkerPcs, StagePcs, BridgePcs, OtherPcs
    <2> QED BY <1>2, <1>4, <2>1, GotoMoves DEF Inv, TypeOK
<1>6. /\ posts' = posts \/ posts' = [posts EXCEPT ![p] = posts[p] + 1]
      /\ \/ queued' = queued
         \/ \E q \in {"finalize", "social"} : queued' = [queued EXCEPT ![p] = queued[p] \cup {q}]
      /\ \/ version' = version
         \/ \E b \in {"posted", "failed", "skipped"} :
                version' = [version EXCEPT ![p].bridge = b]
      /\ UNCHANGED <<paperVars, records, notes, sagaVars, jobs, httpVars>>
    <2>1. CASE SetBridgeResult(w)
        <3>1. BridgeResult(w) \in {"posted", "failed", "skipped"}
            BY <2>1 DEF SetBridgeResult, BridgeResult
        <3> QED BY <2>1, <3>1 DEF SetBridgeResult, Quiet, remote
    <2>2. CASE ReadVersion(w) \/ Post(w) \/ BridgeFails(w)
        BY <2>2 DEF ReadVersion, Post, BridgeFails, LocalStep, Quiet, remote
    <2>3. CASE FinalizeJob(w) \/ SocialJob(w)
        BY <2>3 DEF FinalizeJob, SocialJob, Enqueue, Quiet, remote
    <2> QED BY <2>1, <2>2, <2>3 DEF BridgeStep
<1>7. /\ version' \in [Papers -> Version]
      /\ \A q \in Papers : version[q].key # "none" => version'[q].key # "none"
    <2>1. ASSUME NEW b \in {"posted", "failed", "skipped"},
                 version' = [version EXCEPT ![p].bridge = b]
          PROVE  <1>7!:
        <3>1. version'[p] = [version[p] EXCEPT !.bridge = b] /\ version[p] \in Version
            BY <1>3, <2>1 DEF Inv, TypeOK, PaperTypes
        <3>2. version'[p] \in Version /\ version'[p].key = version[p].key
            BY <2>1, <3>1 DEF Version
        <3> QED BY <1>3, <2>1, <3>2 DEF Inv, TypeOK, PaperTypes
    <2> QED BY <1>6, <2>1 DEF Inv, TypeOK, PaperTypes
<1>8. PaperTypes' /\ EffectTypes'
    <2>1. PaperTypes'
        BY <1>6, <1>7 DEF Inv, TypeOK, PaperTypes, paperVars, sagaVars
    <2>2. posts' \in [Papers -> Nat]
        BY <1>3, <1>6 DEF Inv, TypeOK, EffectTypes
    <2>3. queued' \in [Papers -> SUBSET {"finalize", "social"}]
        BY <1>3, <1>6 DEF Inv, TypeOK, EffectTypes
    <2> QED BY <1>6, <2>1, <2>2, <2>3 DEF Inv, TypeOK, EffectTypes
<1>9. faults' \in 0..MaxFaults
    BY FaultBound DEF BridgeStep, ReadVersion, Post, SetBridgeResult, BridgeFails, FinalizeJob,
                      SocialJob, Enqueue, LocalStep, Inv, TypeOK
<1>10. \A q \in Papers \ {p} : Visible(q)' => Visible(q)
    BY <1>3, <1>6 DEF Visible, Inv, TypeOK, EffectTypes, paperVars
<1> QED BY <1>2, <1>5, <1>6, <1>7, <1>8, <1>9, <1>10, ApprovedInv

\* An error leaves the stages.
LEMMA FailInv ==
    ASSUME Inv, NEW w \in Workers, StageFails(w) \/ SummaryFails(w) \/ Unwind(w)
    PROVE  Inv'
<1> DEFINE p == wk[w].paper
<1> USE DEF At
<1>1. /\ "unwind" \in WorkerPcs /\ "unwind" \notin StagePcs /\ "unwind" \notin LaterPcs
    BY DEF WorkerPcs, StagePcs, LaterPcs, CompilePcs, PublishPcs, LocalPcs, BridgePcs, OtherPcs
<1>2. wk[w].pc # "idle"
    BY DEF StageFails, StageMayFail, OtherMayFail, SummaryFails, Unwind, StagePcs, CompilePcs,
           PublishPcs, LocalPcs, BridgePcs, OtherPcs
<1>3. p \in Papers /\ wk[w] \in Running /\ wk \in [Workers -> {Idle} \cup Running]
    BY <1>2, Here, WorkerType DEF Inv, TypeOK
<1>4. MovesTo(w, "unwind")
    <2>1. CASE StageFails(w)
        BY <1>1, <1>2, <1>3, <2>1, GotoMoves DEF StageFails
    <2>2. CASE SummaryFails(w)
        <3>1. wk'[w] = [wk[w] EXCEPT !.pc = "unwind", !.stack = {}]
            BY <1>3, <2>2 DEF SummaryFails
        <3>2. /\ wk'[w] \in Running
              /\ wk'[w].pc = "unwind" /\ wk'[w].paper = wk[w].paper
              /\ wk'[w].job = wk[w].job
              /\ wk'[w].saga = wk[w].saga /\ wk'[w].stage = wk[w].stage
            BY <1>1, <1>3, <3>1 DEF Running
        <3> QED BY <1>3, <2>2, <3>2 DEF SummaryFails, MovesTo
    <2>3. CASE Unwind(w)
        <3>1. PICK k \in wk[w].stack :
                \/ wk' = [wk EXCEPT ![w].stack = wk[w].stack \ {k}]
                \/ wk' = [wk EXCEPT ![w].stack = wk[w].stack \ {k}, ![w].terminal = FALSE]
            BY <1>3, <2>3 DEF Unwind
        <3>2. \/ wk'[w] = [wk[w] EXCEPT !.stack = wk[w].stack \ {k}]
              \/ wk'[w] = [wk[w] EXCEPT !.stack = wk[w].stack \ {k}, !.terminal = FALSE]
            BY <1>3, <3>1
        <3>3. wk[w].stack \ {k} \in SUBSET Stages /\ wk[w].pc = "unwind"
            BY <1>2, <1>3, <2>3, WorkerType DEF Unwind
        <3>4. /\ wk'[w] \in Running
              /\ wk'[w].pc = "unwind" /\ wk'[w].paper = wk[w].paper
              /\ wk'[w].job = wk[w].job
              /\ wk'[w].saga = wk[w].saga /\ wk'[w].stage = wk[w].stage
            BY <1>3, <3>2, <3>3 DEF Running
        <3> QED BY <1>3, <3>1, <3>4 DEF MovesTo
    <2> QED BY <2>1, <2>2, <2>3
<1>5. /\ UNCHANGED <<paperVars, remote, version, queued, done, jobs, httpVars>>
      /\ lastErrorStage' \in [Papers -> 0..6]
    <2>1. CASE StageFails(w) \/ SummaryFails(w)
        BY <2>1 DEF StageFails, SummaryFails, Quiet, sagaVars, Inv, TypeOK, PaperTypes
    <2>2. CASE Unwind(w)
        <3>1. wk[w].stack \in SUBSET (1..6)
            BY <1>2, <1>3, WorkerType DEF Stages
        <3> QED BY <1>3, <2>2, <3>1 DEF Unwind, Inv, TypeOK, PaperTypes
    <2> QED BY <2>1, <2>2
<1>6. PaperTypes' /\ EffectTypes' /\ Grows /\ Gated
    BY <1>5 DEF Inv, TypeOK, PaperTypes, EffectTypes, Grows, Gated, Visible, paperVars, remote
<1>7. faults' \in 0..MaxFaults
    BY FaultBound DEF StageFails, SummaryFails, Unwind, Inv, TypeOK
<1> QED BY <1>1, <1>2, <1>4, <1>5, <1>6, <1>7, StageInv

-----------------------------------------------------------------------------
(* Jobs that start and end. *)

\* The queue entry of one job changes.
LEMMA EntryChanges ==
    ASSUME jobs \in [Papers -> [JobNames -> Job]],
           NEW p \in Papers, NEW j \in JobNames, NEW r \in Job,
           jobs' = [jobs EXCEPT ![p][j] = r]
    PROVE  /\ jobs' \in [Papers -> [JobNames -> Job]]
           /\ jobs'[p][j] = r
           /\ \A q \in Papers, i \in JobNames :
                    <<q, i>> # <<p, j>> => jobs'[q][i] = jobs[q][i]
OBVIOUS

LEMMA EndJobInv ==
    ASSUME Inv, NEW w \in Workers, wk[w].pc # "idle", NEW r \in Job, EndJob(w, r),
           r.state \notin {"completed", "failed"} => r.attempts < MaxAttempts,
           faults' \in 0..MaxFaults
    PROVE  Inv'
<1> DEFINE p == wk[w].paper
           j == wk[w].job
<1>1. p \in Papers /\ j \in JobNames
    BY Here
<1>2. /\ jobs' \in [Papers -> [JobNames -> Job]]
      /\ jobs'[p][j] = r
      /\ \A q \in Papers, i \in JobNames : <<q, i>> # <<p, j>> => jobs'[q][i] = jobs[q][i]
    BY <1>1, EntryChanges DEF EndJob, Inv, TypeOK
<1>3. /\ wk'[w] = Idle /\ \A v \in Workers \ {w} : wk'[v] = wk[v]
      /\ wk' \in [Workers -> {Idle} \cup Running]
      /\ UNCHANGED <<paperVars, sagaVars, remote, httpVars, version, queued>>
    BY DEF EndJob, Inv, TypeOK
<1>4. Grows /\ Gated /\ PaperTypes' /\ EffectTypes'
    BY <1>3, RowsKept
<1>5. TypeOK'
    BY <1>2, <1>3, <1>4 DEF Inv, TypeOK, RequestTypes, httpVars
<1>6. AttemptsLeft'
    BY <1>2 DEF Inv, AttemptsLeft
<1>7. AcceptHasVersion'
    BY <1>3 DEF Inv, AcceptHasVersion, httpVars
<1>8. JobsExclusive'
    BY <1>3 DEF Inv, JobsExclusive, Idle
<1>9. ASSUME NEW v \in Workers PROVE WorkerInv(v)'
    <2>1. CASE v = w
        BY <1>3, <2>1 DEF WorkerInv, Idle
    <2>2. CASE v # w
        <3>1. wk[v].pc # "idle" => /\ wk[v].paper \in Papers /\ wk[v].job \in JobNames
                                   /\ <<wk[v].paper, wk[v].job>> # <<p, j>>
            BY <2>2, Here DEF Inv, JobsExclusive
        <3> QED BY <1>2, <1>3, <1>4, <2>2, <3>1, OthersKept
    <2> QED BY <2>1, <2>2
<1> QED BY <1>4, <1>5, <1>6, <1>7, <1>8, <1>9, GateKept DEF Inv

LEMMA JobEndsInv ==
    ASSUME Inv, NEW w \in Workers, CompleteJob(w) \/ FailJob(w) \/ Crash(w)
    PROVE  Inv'
<1> DEFINE job == JobOf(w)
<1> USE DEF At
<1>1. wk[w].pc # "idle"
    BY DEF CompleteJob, FailJob, Crash
<1>2. /\ job \in Job /\ job.state = "active" /\ job.attempts < MaxAttempts
      /\ job.attempts \in 0..MaxAttempts /\ job.stalls \in 0..MaxStalls
    BY <1>1, Here DEF Inv, AttemptsLeft, WorkerInv, JobOf, Job
<1>3. faults' \in 0..MaxFaults
    BY FaultBound DEF CompleteJob, FailJob, Crash, Inv, TypeOK
<1>4. CASE CompleteJob(w)
    <2> DEFINE r == [job EXCEPT !.state = "completed"]
    <2>1. r \in Job /\ r.state = "completed"
        BY <1>2 DEF Job, JobStates
    <2> QED BY <1>1, <1>3, <1>4, <2>1, EndJobInv DEF CompleteJob
<1>5. CASE FailJob(w)
    <2> DEFINE st == IF wk[w].terminal \/ job.attempts + 1 >= MaxAttempts
                     THEN "failed" ELSE "waiting"
               r  == [job EXCEPT !.attempts = job.attempts + 1, !.state = st]
    <2>1. /\ st \in JobStates /\ job.attempts + 1 \in 0..MaxAttempts
          /\ st # "failed" => job.attempts + 1 < MaxAttempts
        BY <1>2, SagaAssumption DEF JobStates
    <2>2. EndJob(w, r)
        BY <1>2, <1>5 DEF FailJob, Job
    <2>3. r \in Job /\ r.state = st /\ r.attempts = job.attempts + 1
        <3> HIDE DEF st, job
        <3> QED BY <1>2, <2>1 DEF Job
    <2> HIDE DEF r
    <2> QED BY <1>1, <1>3, <2>1, <2>2, <2>3, EndJobInv
<1>6. CASE Crash(w)
    <2>1. CASE job.stalls < MaxStalls
        <3> DEFINE r == [job EXCEPT !.state = "waiting", !.stalls = job.stalls + 1]
        <3>1. EndJob(w, r)
            BY <1>2, <1>6, <2>1 DEF Crash, Job
        <3>2. r \in Job /\ r.attempts = job.attempts
            <4>1. job.stalls + 1 \in 0..MaxStalls
                BY <1>2, <2>1, SagaAssumption
            <4> HIDE DEF job
            <4> QED BY <1>2, <4>1 DEF Job, JobStates
        <3> HIDE DEF r
        <3> QED BY <1>1, <1>2, <1>3, <3>1, <3>2, EndJobInv
    <2>2. CASE ~(job.stalls < MaxStalls)
        <3> DEFINE r == [job EXCEPT !.state = "failed"]
        <3>1. r \in Job /\ r.state = "failed"
            BY <1>2 DEF Job, JobStates
        <3> QED BY <1>1, <1>3, <1>6, <2>2, <3>1, EndJobInv DEF Crash
    <2> QED BY <2>1, <2>2
<1> QED BY <1>4, <1>5, <1>6

LEMMA TakeInv ==
    ASSUME Inv, NEW w \in Workers, NEW p \in Papers, NEW j \in JobNames, Take(w, p, j)
    PROVE  Inv'
<1> DEFINE new == [pc |-> "loadSaga", paper |-> p, job |-> j, saga |-> {}, id |-> 0,
                   uri |-> 0, stage |-> 0, stack |-> {}, wrote |-> 0, terminal |-> FALSE]
           r == [jobs[p][j] EXCEPT !.state = "active"]
<1>1. /\ jobs[p][j] \in Job /\ jobs[p][j].state = "waiting"
      /\ r \in Job /\ r.state = "active" /\ r.attempts = jobs[p][j].attempts
    <2>1. jobs[p][j] \in Job /\ jobs[p][j].state = "waiting"
        BY DEF Take, Inv, TypeOK
    <2> QED BY <2>1 DEF Job, JobStates
<1>2. jobs' = [jobs EXCEPT ![p][j] = r]
    BY DEF Take, Inv, TypeOK
<1>3. /\ jobs' \in [Papers -> [JobNames -> Job]]
      /\ jobs'[p][j] = r
      /\ \A q \in Papers, i \in JobNames : <<q, i>> # <<p, j>> => jobs'[q][i] = jobs[q][i]
    <2> HIDE DEF r
    <2> QED BY <1>1, <1>2, EntryChanges DEF Inv, TypeOK
<1>4. new \in Running
    BY DEF Running, WorkerPcs, Finished
<1>5. /\ wk'[w] = new /\ \A v \in Workers \ {w} : wk'[v] = wk[v]
      /\ wk' \in [Workers -> {Idle} \cup Running]
      /\ UNCHANGED <<paperVars, sagaVars, remote, httpVars, version, queued, faults>>
    BY <1>4 DEF Take, Inv, TypeOK
<1>6. Grows /\ Gated /\ PaperTypes' /\ EffectTypes'
    BY <1>5, RowsKept
<1>7. TypeOK'
    BY <1>3, <1>5, <1>6 DEF Inv, TypeOK, RequestTypes, httpVars
<1>8. AttemptsLeft'
    <2>1. r.attempts < MaxAttempts
        BY <1>1 DEF Inv, AttemptsLeft
    <2> HIDE DEF r
    <2> QED BY <1>3, <2>1 DEF Inv, AttemptsLeft
<1>9. AcceptHasVersion'
    BY <1>5 DEF Inv, AcceptHasVersion, httpVars
<1>10. ASSUME NEW v \in Workers \ {w}, wk[v].pc # "idle"
       PROVE  /\ wk[v].paper \in Papers /\ wk[v].job \in JobNames
              /\ <<wk[v].paper, wk[v].job>> # <<p, j>>
    <2>1. wk[v].paper \in Papers /\ wk[v].job \in JobNames
        BY <1>10, Here
    <2>2. jobs[wk[v].paper][wk[v].job].state = "active"
        BY <1>10 DEF Inv, WorkerInv, JobOf
    <2> QED BY <1>1, <2>1, <2>2
<1>11. JobsExclusive'
    BY <1>5, <1>10 DEF Inv, JobsExclusive
<1>12. WorkerInv(w)'
    <2> HIDE DEF r
    <2> QED BY <1>1, <1>3, <1>5
            DEF WorkerInv, JobOf, StagePcs, LaterPcs, CompilePcs, PublishPcs, LocalPcs,
                BridgePcs, OtherPcs, Approved
<1>13. ASSUME NEW v \in Workers \ {w} PROVE WorkerInv(v)'
    BY <1>3, <1>5, <1>6, <1>10, OthersKept
<1> QED BY <1>6, <1>7, <1>8, <1>9, <1>11, <1>12, <1>13, GateKept DEF Inv

-----------------------------------------------------------------------------
(* The handlers. *)

\* Adding a job starts it over only when the queue does not know it.
LEMMA AddKeeps ==
    ASSUME jobs \in [Papers -> [JobNames -> Job]], AttemptsLeft,
           NEW p \in Papers, NEW j \in JobNames, NEW k \in Keys, Add(p, j, k)
    PROVE  /\ jobs' \in [Papers -> [JobNames -> Job]]
           /\ AttemptsLeft'
           /\ \A q \in Papers, i \in JobNames :
                    jobs[q][i].state = "active" => jobs'[q][i] = jobs[q][i]
<1> DEFINE r == IF jobs[p][j].state \in {"none", "requested"}
                THEN [NoJob EXCEPT !.state = "waiting", !.key = k] ELSE jobs[p][j]
<1>1. /\ r \in Job
      /\ r = jobs[p][j] \/ (r.attempts = 0 /\ jobs[p][j].state \in {"none", "requested"})
    <2>1. NoJob \in Job /\ NoJob.attempts = 0
        BY SagaAssumption DEF NoJob, Job, JobStates, Keys
    <2> DEFINE new == [NoJob EXCEPT !.state = "waiting", !.key = k]
    <2>2. new \in Job /\ new.attempts = 0
        BY <2>1 DEF Job, JobStates
    <2>3. r = IF jobs[p][j].state \in {"none", "requested"} THEN new ELSE jobs[p][j]
        OBVIOUS
    <2> HIDE DEF new, r
    <2> QED BY <2>2, <2>3
<1>2. jobs' = [jobs EXCEPT ![p][j] = r]
    BY DEF Add
<1>3. /\ jobs' \in [Papers -> [JobNames -> Job]]
      /\ jobs'[p][j] = r
      /\ \A q \in Papers, i \in JobNames : <<q, i>> # <<p, j>> => jobs'[q][i] = jobs[q][i]
    <2> HIDE DEF r
    <2> QED BY <1>1, <1>2, EntryChanges
<1>4. r.state \notin {"completed", "failed"} => r.attempts < MaxAttempts
    <2> HIDE DEF r
    <2> QED BY <1>1, SagaAssumption DEF AttemptsLeft
<1> HIDE DEF r
<1> QED BY <1>1, <1>3, <1>4 DEF AttemptsLeft

LEMMA SubmitInv == ASSUME Inv, NEW p \in Papers, SubmitStep(p) \/ Rescind(p) PROVE Inv'
<1>1. ASSUME jobs' = jobs PROVE AttemptsLeft'
    BY <1>1 DEF Inv, AttemptsLeft
<1>2. ASSUME mod' = mod, version' = version PROVE AcceptHasVersion'
    BY <1>2 DEF Inv, AcceptHasVersion
<1>3. CASE CreatePaper(p) \/ StoreSource(p) \/ AbandonSubmit(p) \/ Rescind(p)
    <2>1. /\ UNCHANGED <<openxivId, uri, idCounter, sagaVars, remote, mod, version, queued>>
          /\ jobs' = jobs /\ wk' = wk
          /\ \/ status' = status
             \/ \E s \in {"compiling", "pending_review"} : status' = [status EXCEPT ![p] = s]
        BY <1>3 DEF CreatePaper, StoreSource, AbandonSubmit, Rescind, paperVars
    <2>2. RequestTypes'
        <3>1. SourceKey(p) \in Keys
            BY DEF SourceKey, Keys
        <3>2. CASE CreatePaper(p)
            BY <3>2 DEF CreatePaper, Inv, TypeOK, RequestTypes
        <3>3. CASE StoreSource(p)
            BY <3>1, <3>3 DEF StoreSource, Inv, TypeOK, RequestTypes
        <3>4. CASE AbandonSubmit(p) \/ Rescind(p)
            BY <3>4 DEF AbandonSubmit, Rescind, Inv, TypeOK, RequestTypes
        <3> QED BY <1>3, <3>2, <3>3, <3>4
    <2>3. PaperTypes' /\ EffectTypes'
        BY <2>1 DEF Inv, TypeOK, PaperTypes, EffectTypes, Statuses, sagaVars, remote
    <2>4. faults' \in 0..MaxFaults
        BY <1>3, FaultBound DEF CreatePaper, StoreSource, AbandonSubmit, Rescind, Inv, TypeOK
    <2>5. TypeOK'
        BY <2>1, <2>2, <2>3, <2>4 DEF Inv, TypeOK
    <2>6. Grows /\ Gated
        BY <2>1 DEF Inv, TypeOK, PaperTypes, Grows, Gated, Visible, sagaVars, remote
    <2> QED BY <1>1, <1>2, <2>1, <2>5, <2>6, RequestInv
<1>4. CASE EnqueueSubmit(p)
    <2>1. /\ Add(p, Submit, SourceKey(p))
          /\ UNCHANGED <<paperVars, sagaVars, remote, mod, refusal, stored, version, queued,
                         wk, faults>>
          /\ request' = [request EXCEPT ![p] = "answered"]
        BY <1>4 DEF EnqueueSubmit
    <2>2. Submit \in JobNames /\ SourceKey(p) \in Keys
        BY DEF JobNames, SourceKey, Keys
    <2>3. /\ jobs' \in [Papers -> [JobNames -> Job]]
          /\ AttemptsLeft'
          /\ \A q \in Papers, i \in JobNames :
                    jobs[q][i].state = "active" => jobs'[q][i] = jobs[q][i]
        BY <2>1, <2>2, AddKeeps DEF Inv, TypeOK
    <2>4. Grows /\ Gated /\ PaperTypes' /\ EffectTypes'
        BY <2>1, RowsKept
    <2>5. TypeOK'
        BY <2>1, <2>3, <2>4 DEF Inv, TypeOK, RequestTypes
    <2> QED BY <1>2, <2>1, <2>3, <2>4, <2>5, RequestInv
<1> QED BY <1>3, <1>4 DEF SubmitStep

LEMMA RetryInv ==
    ASSUME Inv, NEW p \in Papers, NEW r \in Retries, RetryStep(p, r) PROVE Inv'
<1>1. r \in JobNames /\ jobs[p][r] \in Job
    BY DEF JobNames, Inv, TypeOK
<1>2. /\ UNCHANGED <<paperVars, sagaVars, remote, httpVars, version, queued, wk, faults>>
      /\ Grows /\ Gated /\ PaperTypes' /\ EffectTypes'
    BY RowsKept DEF RetryStep, RetryRead, RetryEnqueue, EditRepublish
<1>3. AcceptHasVersion' /\ RequestTypes'
    BY <1>2 DEF Inv, TypeOK, AcceptHasVersion, RequestTypes, httpVars
<1>4. /\ jobs' \in [Papers -> [JobNames -> Job]]
      /\ AttemptsLeft'
      /\ \A q \in Papers, i \in JobNames :
                jobs[q][i].state = "active" => jobs'[q][i] = jobs[q][i]
    <2>1. CASE RetryRead(p, r)
        <3>1. PICK k \in Keys :
                jobs' = [jobs EXCEPT ![p][r].state = "requested", ![p][r].key = k]
            <4>1. version[p] \in Version
                BY DEF Inv, TypeOK, PaperTypes
            <4> QED BY <2>1, <4>1 DEF RetryRead, Version, Keys
        <3> DEFINE new == [jobs[p][r] EXCEPT !.state = "requested", !.key = k]
        <3>2. new \in Job /\ new.attempts = jobs[p][r].attempts /\ jobs[p][r].state = "none"
            BY <1>1, <2>1 DEF RetryRead, Job, JobStates
        <3>3. jobs' = [jobs EXCEPT ![p][r] = new]
            BY <1>1, <3>1 DEF Inv, TypeOK
        <3> HIDE DEF new
        <3>4. /\ jobs' \in [Papers -> [JobNames -> Job]]
              /\ jobs'[p][r] = new
              /\ \A q \in Papers, i \in JobNames :
                        <<q, i>> # <<p, r>> => jobs'[q][i] = jobs[q][i]
            BY <1>1, <3>2, <3>3, EntryChanges DEF Inv, TypeOK
        <3>5. new.attempts < MaxAttempts
            BY <1>1, <3>2 DEF Inv, AttemptsLeft
        <3> QED BY <1>1, <3>2, <3>4, <3>5 DEF Inv, AttemptsLeft
    <2>2. CASE RetryEnqueue(p, r)
        <3>1. jobs[p][r].key \in Keys
            BY <1>1 DEF Job
        <3> QED BY <1>1, <2>2, <3>1, AddKeeps DEF RetryEnqueue, Inv, TypeOK
    <2>3. CASE EditRepublish(p, r)
        <3>1. /\ EditJob \in Job /\ EditJob.attempts < MaxAttempts
              /\ EditJob.state = "waiting" /\ jobs[p][r].state = "none"
            <4>1. MaxAttempts - 1 \in 0..MaxAttempts /\ MaxAttempts - 1 < MaxAttempts
                  /\ 0 \in 0..MaxStalls
                BY SagaAssumption
            <4> QED BY <2>3, <4>1 DEF EditRepublish, EditJob, Job, JobStates, Keys
        <3>2. jobs' = [jobs EXCEPT ![p][r] = EditJob]
            BY <2>3 DEF EditRepublish
        <3>3. /\ jobs' \in [Papers -> [JobNames -> Job]]
              /\ jobs'[p][r] = EditJob
              /\ \A q \in Papers, i \in JobNames :
                        <<q, i>> # <<p, r>> => jobs'[q][i] = jobs[q][i]
            BY <1>1, <3>1, <3>2, EntryChanges DEF Inv, TypeOK
        <3> QED BY <1>1, <3>1, <3>3 DEF Inv, AttemptsLeft
    <2> QED BY <2>1, <2>2, <2>3 DEF RetryStep
<1>5. TypeOK'
    BY <1>2, <1>3, <1>4 DEF Inv, TypeOK
<1> QED BY <1>2, <1>3, <1>4, <1>5, RequestInv

LEMMA ModeratorType ==
    ASSUME Inv, NEW m \in Decisions, mod[m].pc \notin {"idle", "answered"}
    PROVE  /\ mod[m] \in Moderating /\ mod[m].paper \in Papers
           /\ version[mod[m].paper] \in Version
           /\ mod[m].target \in {"none", "withdrawn", "pending_review"}
BY DEF Inv, TypeOK, RequestTypes, PaperTypes, Idle, Answered, Moderating

\* A moderation request goes on, without reaching the queue.
LEMMA ModerationInv ==
    ASSUME Inv, NEW m \in Decisions, TypeOK', Grows, Gated, wk' = wk, jobs' = jobs,
           \A n \in Decisions \ {m} : mod'[n] = mod[n],
           mod'[m].pc \in {"marking", "rescinding", "enqueueing"}
              => version'[mod'[m].paper].key # "none"
    PROVE  Inv'
<1>1. ASSUME NEW n \in Decisions, n # m, mod[n].pc \in {"marking", "rescinding", "enqueueing"}
      PROVE  version'[mod[n].paper].key # "none"
    BY <1>1, ModeratorType DEF Inv, AcceptHasVersion, Grows
<1>2. AcceptHasVersion'
    BY <1>1 DEF AcceptHasVersion
<1>3. AttemptsLeft'
    BY DEF Inv, AttemptsLeft
<1> QED BY <1>2, <1>3, RequestInv

\* A request that goes to another place keeps its paper and its target.
LEMMA ModeratorMoves ==
    ASSUME Inv, NEW m \in Decisions, mod[m].pc \notin {"idle", "answered"},
           NEW l \in {"marking", "rescinding", "enqueueing"},
           mod' = [mod EXCEPT ![m].pc = l]
    PROVE  /\ mod' \in [Decisions -> {Idle, Answered} \cup Moderating]
           /\ mod'[m].pc = l /\ mod'[m].paper = mod[m].paper
           /\ \A n \in Decisions \ {m} : mod'[n] = mod[n]
<1>1. mod'[m] = [mod[m] EXCEPT !.pc = l] /\ mod[m] \in Moderating
    BY ModeratorType DEF Inv, TypeOK, RequestTypes
<1>2. mod'[m] \in Moderating /\ mod'[m].pc = l /\ mod'[m].paper = mod[m].paper
    BY <1>1 DEF Moderating
<1> QED BY <1>2 DEF Inv, TypeOK, RequestTypes

LEMMA AcceptInv == ASSUME Inv, NEW m \in Decisions, AcceptStep(m) PROVE Inv'
<1> DEFINE p == mod[m].paper
<1> USE DEF InMod
<1>1. CASE \E q \in Papers : AcceptBegin(m, q)
    <2>1. PICK q \in Papers : AcceptBegin(m, q)
        BY <1>1
    <2>2. /\ UNCHANGED <<paperVars, sagaVars, remote, request, refusal, stored, version,
                         queued, jobs, wk, faults>>
          /\ Grows /\ Gated /\ PaperTypes' /\ EffectTypes'
        BY <2>1, RowsKept DEF AcceptBegin
    <2>3. /\ mod' \in [Decisions -> {Idle, Answered} \cup Moderating]
          /\ mod'[m].pc = "accepting"
          /\ \A n \in Decisions \ {m} : mod'[n] = mod[n]
        BY <2>1 DEF AcceptBegin, Inv, TypeOK, RequestTypes, Moderating
    <2>4. TypeOK'
        BY <2>2, <2>3 DEF Inv, TypeOK, RequestTypes
    <2> QED BY <2>2, <2>3, <2>4, ModerationInv
<1>2. CASE AcceptCheck(m)
    <2>1. /\ UNCHANGED <<paperVars, sagaVars, remote, request, refusal, stored, version,
                         queued, jobs, wk, faults>>
          /\ Grows /\ Gated /\ PaperTypes' /\ EffectTypes'
        BY <1>2, RowsKept DEF AcceptCheck
    <2>2. /\ mod' \in [Decisions -> {Idle, Answered} \cup Moderating]
          /\ mod'[m].pc \in {"marking", "rescinding", "enqueueing"}
                => version[mod'[m].paper].key # "none"
          /\ \A n \in Decisions \ {m} : mod'[n] = mod[n]
        <3>1. CASE mod' = [mod EXCEPT ![m].pc = "marking"] /\ version[p].key # "none"
            <4>1. mod[m].pc \notin {"idle", "answered"}
                BY <1>2 DEF AcceptCheck
            <4> QED BY <3>1, <4>1, ModeratorMoves
        <3>2. CASE mod' = [mod EXCEPT ![m] = Answered]
            BY <3>2 DEF Answered, Inv, TypeOK, RequestTypes
        <3> QED BY <1>2, <3>1, <3>2 DEF AcceptCheck
    <2>3. TypeOK'
        BY <2>1, <2>2 DEF Inv, TypeOK, RequestTypes
    <2> QED BY <2>1, <2>2, <2>3, ModerationInv
<1>3. CASE AcceptMark(m)
    <2>1. mod[m].pc = "marking" /\ p \in Papers /\ version[p].key # "none"
        BY <1>3, ModeratorType DEF AcceptMark, Inv, AcceptHasVersion
    <2>2. /\ mod' \in [Decisions -> {Idle, Answered} \cup Moderating]
          /\ mod'[m].paper = p
          /\ \A n \in Decisions \ {m} : mod'[n] = mod[n]
        BY <1>3, <2>1, ModeratorMoves DEF AcceptMark
    <2>3. PaperTypes' /\ EffectTypes'
        BY <1>3, <2>1 DEF AcceptMark, Inv, TypeOK, PaperTypes, EffectTypes, paperVars, remote,
                          Stages, Approved
    <2>4. Grows /\ Gated
        BY <1>3, <2>1 DEF AcceptMark, Inv, TypeOK, PaperTypes, Grows, Gated, Visible, paperVars,
                          remote
    <2>5. TypeOK'
        BY <1>3, <2>2, <2>3 DEF AcceptMark, Inv, TypeOK, RequestTypes
    <2> QED BY <1>3, <2>1, <2>2, <2>4, <2>5, ModerationInv DEF AcceptMark
<1>4. CASE AcceptRescind(m)
    <2>1. mod[m].pc = "rescinding" /\ p \in Papers /\ version[p].key # "none"
        BY <1>4, ModeratorType DEF AcceptRescind, Inv, AcceptHasVersion
    <2>2. /\ mod' \in [Decisions -> {Idle, Answered} \cup Moderating]
          /\ mod'[m].paper = p
          /\ \A n \in Decisions \ {m} : mod'[n] = mod[n]
        BY <1>4, <2>1, ModeratorMoves DEF AcceptRescind
    <2>3. /\ UNCHANGED <<paperVars, sagaVars, remote, request, stored, version, queued, jobs,
                         wk>>
          /\ Grows /\ Gated /\ PaperTypes' /\ EffectTypes'
        BY <1>4, RowsKept DEF AcceptRescind
    <2>4. refusal' \in [Papers -> {"none", "issued", "rescinded"}]
        BY <1>4, <2>1 DEF AcceptRescind, Rescinded, Inv, TypeOK, RequestTypes
    <2>5. faults' \in 0..MaxFaults
        BY <1>4, FaultBound DEF AcceptRescind, Inv, TypeOK
    <2>6. TypeOK'
        BY <2>2, <2>3, <2>4, <2>5 DEF Inv, TypeOK, RequestTypes
    <2> QED BY <2>1, <2>2, <2>3, <2>6, ModerationInv
<1>5. CASE AcceptEnqueue(m)
    <2>1. p \in Papers /\ version[p].key \in Keys /\ Accept \in JobNames
        BY <1>5, ModeratorType DEF AcceptEnqueue, Inv, AcceptHasVersion, Version, JobNames
    <2>2. /\ jobs' \in [Papers -> [JobNames -> Job]]
          /\ AttemptsLeft'
          /\ \A q \in Papers, i \in JobNames :
                    jobs[q][i].state = "active" => jobs'[q][i] = jobs[q][i]
        BY <1>5, <2>1, AddKeeps DEF AcceptEnqueue, Inv, TypeOK
    <2>3. /\ UNCHANGED <<paperVars, sagaVars, remote, request, refusal, stored, version,
                         queued, wk, faults>>
          /\ Grows /\ Gated /\ PaperTypes' /\ EffectTypes'
        BY <1>5, RowsKept DEF AcceptEnqueue
    <2>4. mod' \in [Decisions -> {Idle, Answered} \cup Moderating] /\ AcceptHasVersion'
        BY <1>5 DEF AcceptEnqueue, Answered, Inv, TypeOK, RequestTypes, AcceptHasVersion
    <2>5. TypeOK'
        BY <2>2, <2>3, <2>4 DEF Inv, TypeOK, RequestTypes
    <2> QED BY <2>2, <2>3, <2>4, <2>5, RequestInv
<1> QED BY <1>1, <1>2, <1>3, <1>4, <1>5 DEF AcceptStep

LEMMA RefuseInv == ASSUME Inv, NEW m \in Decisions, RefuseStep(m) PROVE Inv'
<1> USE DEF InMod
<1>1. CASE RefuseStatus(m)
    <2>1. /\ mod[m].paper \in Papers /\ mod[m].target \in Statuses
          /\ mod[m].target # "published"
        BY <1>1, ModeratorType DEF RefuseStatus, Statuses
    <2>2. /\ mod' \in [Decisions -> {Idle, Answered} \cup Moderating]
          /\ mod'[m].pc = "answered"
          /\ \A n \in Decisions \ {m} : mod'[n] = mod[n]
        BY <1>1 DEF RefuseStatus, Answered, Inv, TypeOK, RequestTypes
    <2>3. PaperTypes' /\ EffectTypes'
        BY <1>1, <2>1 DEF RefuseStatus, Inv, TypeOK, PaperTypes, EffectTypes, sagaVars, remote
    <2>4. Grows /\ Gated
        BY <1>1, <2>1 DEF RefuseStatus, Inv, TypeOK, PaperTypes, Grows, Gated, Visible,
                          sagaVars, remote
    <2>5. TypeOK'
        BY <1>1, <2>2, <2>3 DEF RefuseStatus, Inv, TypeOK, RequestTypes
    <2> QED BY <1>1, <2>2, <2>4, <2>5, ModerationInv DEF RefuseStatus
<1>2. CASE ModerationFails(m)
    <2>1. /\ UNCHANGED <<paperVars, sagaVars, remote, request, refusal, stored, version,
                         queued, jobs, wk>>
          /\ Grows /\ Gated /\ PaperTypes' /\ EffectTypes'
        BY <1>2, RowsKept DEF ModerationFails
    <2>2. /\ mod' \in [Decisions -> {Idle, Answered} \cup Moderating]
          /\ mod'[m].pc = "answered"
          /\ \A n \in Decisions \ {m} : mod'[n] = mod[n]
        BY <1>2 DEF ModerationFails, Answered, Inv, TypeOK, RequestTypes
    <2>3. TypeOK'
        BY <1>2, <2>1, <2>2, FaultBound DEF ModerationFails, Inv, TypeOK, RequestTypes
    <2> QED BY <2>1, <2>2, <2>3, ModerationInv
<1>3. CASE \E p \in Papers : Refuse(m, p)
    <2>1. PICK p \in Papers : Refuse(m, p)
        BY <1>3
    <2>2. /\ UNCHANGED <<paperVars, sagaVars, remote, request, stored, version, queued, jobs,
                         wk, faults>>
          /\ Grows /\ Gated /\ PaperTypes' /\ EffectTypes'
        BY <2>1, RowsKept DEF Refuse
    <2>3. /\ mod' \in [Decisions -> {Idle, Answered} \cup Moderating]
          /\ mod'[m].pc = "refusing"
          /\ \A n \in Decisions \ {m} : mod'[n] = mod[n]
        BY <2>1 DEF Refuse, Inv, TypeOK, RequestTypes, Moderating
    <2>4. refusal' \in [Papers -> {"none", "issued", "rescinded"}]
        BY <2>1 DEF Refuse, Inv, TypeOK, RequestTypes
    <2>5. TypeOK'
        BY <2>2, <2>3, <2>4 DEF Inv, TypeOK, RequestTypes
    <2> QED BY <2>2, <2>3, <2>5, ModerationInv
<1> QED BY <1>1, <1>2, <1>3 DEF RefuseStep

-----------------------------------------------------------------------------
LEMMA WorkerStepInv ==
    ASSUME Inv, NEW w \in Workers, WorkerStep(w) \/ Crash(w) PROVE Inv'
<1>1. CASE \E p \in Papers, j \in JobNames : Take(w, p, j)
    BY <1>1, TakeInv
<1>2. CASE FlowStep(w)
    BY <1>2, FlowInv, HoldInv, MarkInv, FailInv DEF FlowStep
<1>3. CASE CompileStep(w) \/ Allocate(w) \/ PutNotes(w) \/ BridgeStep(w)
    BY <1>3, CompileInv, AllocateInv, NotesInv, BridgeInv
<1>4. CASE PublishStep(w)
    BY <1>4, PublishInv, FlowInv DEF PublishStep
<1>5. CASE CompleteJob(w) \/ FailJob(w) \/ Crash(w)
    BY <1>5, JobEndsInv
<1> QED BY <1>1, <1>2, <1>3, <1>4, <1>5 DEF WorkerStep

LEMMA StutterInv == ASSUME Inv, UNCHANGED vars PROVE Inv'
<1>1. /\ UNCHANGED <<paperVars, sagaVars, remote, version, queued>>
      /\ UNCHANGED <<httpVars, jobs, wk, faults>>
    BY DEF vars
<1>2. UNCHANGED mod
    BY <1>1 DEF httpVars
<1>3. Grows /\ Gated /\ PaperTypes' /\ EffectTypes' /\ UNCHANGED version
    BY <1>1, <1>2, RowsKept
<1>4. TypeOK'
    BY <1>1, <1>3 DEF httpVars, Inv, TypeOK, RequestTypes
<1>5. AttemptsLeft' /\ AcceptHasVersion'
    BY <1>1, <1>2, <1>3 DEF Inv, AttemptsLeft, AcceptHasVersion
<1> QED BY <1>1, <1>2, <1>3, <1>4, <1>5, RequestInv

LEMMA InductiveInv == Inv /\ [Next]_vars => Inv'
<1> SUFFICES ASSUME Inv, [Next]_vars PROVE Inv'
    OBVIOUS
<1>1. ASSUME NEW p \in Papers, SubmitStep(p) \/ Rescind(p) PROVE Inv'
    BY <1>1, SubmitInv
<1>2. ASSUME NEW p \in Papers, NEW r \in Retries, RetryStep(p, r) PROVE Inv'
    BY <1>2, RetryInv
<1>3. ASSUME NEW m \in Decisions, AcceptStep(m) \/ RefuseStep(m) PROVE Inv'
    BY <1>3, AcceptInv, RefuseInv
<1>4. ASSUME NEW w \in Workers, WorkerStep(w) \/ Crash(w) PROVE Inv'
    BY <1>4, WorkerStepInv
<1>5. CASE UNCHANGED vars
    BY <1>5, StutterInv
<1> QED BY <1>1, <1>2, <1>3, <1>4, <1>5 DEF Next

\* The invariant holds in every reachable state: the gate, and what it rests
\* on, that snapshots never run ahead of the saga row.
THEOREM SagaInv == Spec => []Inv
BY InitInv, InductiveInv, PTL DEF Spec

\* Every row, queue entry and snapshot has its type; in particular no job
\* gets more attempts or stalls than its options give it.
THEOREM SagaTypes == Spec => []TypeOK
<1>1. Inv => TypeOK
    BY DEF Inv
<1> QED BY <1>1, SagaInv, PTL

\* Nothing of a paper is public before it is approved, for any number of
\* papers, jobs, retries, decisions, slots and failures.
THEOREM GateHolds == Spec => []ApprovalGate
<1>1. Inv => ApprovalGate
    BY DEF Inv
<1> QED BY <1>1, SagaInv, PTL

-----------------------------------------------------------------------------
(* Ids and flags. *)

\* The only step that touches an id or a counter is the allocation.
LEMMA IdSteps ==
    ASSUME Inv, [Next]_vars
    PROVE  \/ \E w \in Workers : Allocate(w)
           \/ UNCHANGED <<openxivId, idCounter>>
<1> SUFFICES ASSUME Next, \A w \in Workers : ~Allocate(w)
             PROVE  UNCHANGED <<openxivId, idCounter>>
    BY DEF vars, paperVars
<1> USE DEF paperVars
<1>1. ASSUME NEW p \in Papers, SubmitStep(p) \/ Rescind(p)
      PROVE  UNCHANGED <<openxivId, idCounter>>
    BY <1>1 DEF SubmitStep, CreatePaper, StoreSource, EnqueueSubmit, AbandonSubmit, Rescind
<1>2. ASSUME NEW p \in Papers, NEW r \in Retries, RetryStep(p, r)
      PROVE  UNCHANGED <<openxivId, idCounter>>
    BY <1>2 DEF RetryStep, RetryRead, RetryEnqueue, EditRepublish
<1>3. ASSUME NEW m \in Decisions, AcceptStep(m) \/ RefuseStep(m)
      PROVE  UNCHANGED <<openxivId, idCounter>>
    BY <1>3 DEF AcceptStep, AcceptBegin, AcceptCheck, AcceptMark, AcceptRescind, AcceptEnqueue,
                RefuseStep, RefuseStatus, ModerationFails, Refuse
<1>4. ASSUME NEW w \in Workers, WorkerStep(w) \/ Crash(w)
      PROVE  UNCHANGED <<openxivId, idCounter>>
    <2>1. CASE \E p \in Papers, j \in JobNames : Take(w, p, j)
        BY <2>1 DEF Take
    <2>2. CASE FlowStep(w)
        BY <2>2 DEF FlowStep, LoadSaga, LoadPaper, Hold, HoldFails, Reread, MarkStageDone,
                    NextSaga, StageFails, SummaryFails, Unwind, LocalStep
    <2>3. CASE CompileStep(w) \/ PutNotes(w)
        BY <2>3 DEF CompileStep, GetSource, LatestVersion, AddVersion, SetHtml, Extract, PutNotes,
                    LocalStep
    <2>4. CASE PublishStep(w)
        BY <2>4 DEF PublishStep, PutRecord, SetUri, SetPublished, Confirm, PublishFails,
                    LocalPublish, LocalFinalize, LocalSocial, RecordUnavailable, Enqueue,
                    LocalStep
    <2>5. CASE BridgeStep(w)
        BY <2>5 DEF BridgeStep, ReadVersion, Post, SetBridgeResult, BridgeFails, FinalizeJob,
                    SocialJob, Enqueue, LocalStep
    <2>6. CASE CompleteJob(w) \/ FailJob(w) \/ Crash(w)
        BY <2>6 DEF CompleteJob, FailJob, Crash, EndJob
    <2> QED BY <1>4, <2>1, <2>2, <2>3, <2>4, <2>5, <2>6 DEF WorkerStep
<1> QED BY <1>1, <1>2, <1>3, <1>4 DEF Next

\* A flag is only ever added.
LEMMA FlagSteps ==
    ASSUME Inv, [Next]_vars PROVE \A p \in Papers : done[p] \subseteq done'[p]
<1> USE DEF sagaVars, Quiet
<1>1. CASE UNCHANGED vars
    BY <1>1 DEF vars
<1>2. ASSUME NEW p \in Papers, SubmitStep(p) \/ Rescind(p) PROVE done' = done
    BY <1>2 DEF SubmitStep, CreatePaper, StoreSource, EnqueueSubmit, AbandonSubmit, Rescind
<1>3. ASSUME NEW p \in Papers, NEW r \in Retries, RetryStep(p, r) PROVE done' = done
    BY <1>3 DEF RetryStep, RetryRead, RetryEnqueue, EditRepublish
<1>4. ASSUME NEW m \in Decisions, AcceptStep(m) \/ RefuseStep(m)
      PROVE  \A p \in Papers : done[p] \subseteq done'[p]
    <2>1. CASE AcceptMark(m)
        BY <2>1 DEF AcceptMark, Inv, TypeOK, PaperTypes
    <2>2. CASE ~AcceptMark(m)
        BY <1>4, <2>2 DEF AcceptStep, AcceptBegin, AcceptCheck, AcceptRescind, AcceptEnqueue,
                          RefuseStep, RefuseStatus, ModerationFails, Refuse
    <2> QED BY <2>1, <2>2
<1>5. ASSUME NEW w \in Workers, WorkerStep(w) \/ Crash(w)
      PROVE  \A p \in Papers : done[p] \subseteq done'[p]
    <2>1. CASE \E p \in Papers, j \in JobNames : Take(w, p, j)
        BY <2>1 DEF Take
    <2>2. CASE MarkStageDone(w)
        BY <2>2 DEF MarkStageDone, Inv, TypeOK, PaperTypes
    <2>3. CASE FlowStep(w) /\ ~MarkStageDone(w)
        BY <2>3 DEF FlowStep, LoadSaga, LoadPaper, Hold, HoldFails, Reread, NextSaga,
                    StageFails, SummaryFails, Unwind, LocalStep
    <2>4. CASE CompileStep(w) \/ Allocate(w) \/ PutNotes(w)
        BY <2>4 DEF CompileStep, GetSource, LatestVersion, AddVersion, SetHtml, Extract,
                    Allocate, PutNotes, LocalStep
    <2>5. CASE PublishStep(w)
        BY <2>5 DEF PublishStep, PutRecord, SetUri, SetPublished, Confirm, PublishFails,
                    LocalPublish, LocalFinalize, LocalSocial, RecordUnavailable, Enqueue,
                    LocalStep
    <2>6. CASE BridgeStep(w)
        BY <2>6 DEF BridgeStep, ReadVersion, Post, SetBridgeResult, BridgeFails, FinalizeJob,
                    SocialJob, Enqueue, LocalStep
    <2>7. CASE CompleteJob(w) \/ FailJob(w) \/ Crash(w)
        BY <2>7 DEF CompleteJob, FailJob, Crash, EndJob
    <2> QED BY <1>5, <2>1, <2>2, <2>3, <2>4, <2>5, <2>6, <2>7 DEF WorkerStep
<1> QED BY <1>1, <1>2, <1>3, <1>4, <1>5 DEF Next

\* An allocation gives the next number to a paper that has none, or nothing.
LEMMA AllocateSteps ==
    ASSUME Inv, NEW w \in Workers, Allocate(w)
    PROVE  /\ wk[w].paper \in Papers
           /\ \/ UNCHANGED <<openxivId, idCounter>>
              \/ LET p == wk[w].paper
                     s == SubjectOf[wk[w].paper]
                 IN  /\ openxivId[p] = 0
                     /\ idCounter' = [idCounter EXCEPT ![s] = idCounter[s] + 1]
                     /\ openxivId' = [openxivId EXCEPT ![p] = idCounter[s] + 1]
<1>1. wk[w].paper \in Papers
    BY Here DEF Allocate, At
<1> QED BY <1>1 DEF Allocate

\* The saga uses the registry of ids as it is meant: one number a paper, in
\* order, none lost.
THEOREM SagaIds == Spec => IdsFromRegistry
<1>1. Init => Registry!RegInit
    BY DEF Init, Registry!RegInit
<1>2. Inv /\ [Next]_vars => [Registry!RegNext]_(Registry!regVars)
    <2> SUFFICES ASSUME Inv, [Next]_vars PROVE [Registry!RegNext]_(Registry!regVars)
        OBVIOUS
    <2>1. CASE UNCHANGED <<openxivId, idCounter>>
        BY <2>1 DEF Registry!regVars
    <2>2. CASE \E w \in Workers : Allocate(w)
        <3>1. PICK w \in Workers : Allocate(w)
            BY <2>2
        <3>2. CASE Registry!Assign(wk[w].paper)
            BY <3>1, <3>2, AllocateSteps DEF Registry!RegNext
        <3> QED BY <2>1, <3>1, <3>2, AllocateSteps DEF Registry!Assign
    <2> QED BY <2>1, <2>2, IdSteps
<1> QED BY <1>1, <1>2, SagaInv, PTL DEF Spec, IdsFromRegistry, Registry!RegSpec

\* What is granted stays: no step takes back a stage flag, and no step
\* replaces the id of a paper.
THEOREM SagaGrants == Spec => GrantsAreFinal
<1> DEFINE Final == \A p \in Papers :
                        /\ openxivId[p] # 0 => openxivId'[p] = openxivId[p]
                        /\ done[p] \subseteq done'[p]
<1>1. Inv /\ [Next]_vars => [Final]_vars
    <2> SUFFICES ASSUME Inv, [Next]_vars PROVE Final
        OBVIOUS
    <2>1. \A p \in Papers : openxivId[p] # 0 => openxivId'[p] = openxivId[p]
        <3>1. CASE \E w \in Workers : Allocate(w)
            BY <3>1, AllocateSteps DEF Inv, TypeOK, PaperTypes
        <3> QED BY <3>1, IdSteps
    <2>2. \A p \in Papers : done[p] \subseteq done'[p]
        BY FlagSteps
    <2> QED BY <2>1, <2>2
<1> QED BY <1>1, SagaInv, PTL DEF Spec, GrantsAreFinal
=============================================================================
