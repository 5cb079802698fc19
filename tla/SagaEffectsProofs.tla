-------------------------- MODULE SagaEffectsProofs --------------------------
(***************************************************************************)
(* What the stage flags of the saga stand for, for any number of papers,     *)
(* workers, moderation requests, retries and failures: a flag is evidence of *)
(* the effect of its stage and of the stages before it, an accept that       *)
(* completed has run them all, and a paper that is announced is published.   *)
(*                                                                           *)
(* Several jobs of one paper run with snapshots of different ages.  It is    *)
(* safe because nothing a stage has produced is ever taken away (Advances):  *)
(* what a job has seen or done itself (EvidenceOf) is still there when it    *)
(* sets the flag.                                                            *)
(***************************************************************************)
EXTENDS SubmissionSagaProofs

\* What stage k leaves behind.
EffectOf(p, k) ==
    /\ k = Persisted  => version[p].html /\ version[p].key # "none"
    /\ k = IdAssigned => openxivId[p] # 0
    /\ k = PdsPaper   => uri[p] # 0 \/ p \notin PlcPapers
    /\ k = Bridge     => queued[p] = {"finalize", "social"}

\* The places of the stages.
PlacesOf(k) ==
    CASE k = Persisted  -> CompilePcs
      [] k = IdAssigned -> {"allocate"}
      [] k = PdsPaper   -> PublishPcs \cup LocalPcs
      [] k = PdsNotes   -> {"putNotes"}
      [] k = Bridge     -> BridgePcs \cup {"readVersion", "finalize", "social"}

AfterPcs == {"reread", "markDone", "nextSaga"}

\* A job in a stage, at its end or past it has the stages before it done.
InOrder(w) ==
    /\ wk[w].pc \in StagePcs \ AfterPcs
        => wk[w].stage \in Stages \ {Approved} /\ wk[w].pc \in PlacesOf(wk[w].stage)
    /\ wk[w].pc = "hold" => wk[w].stage = Approved
    /\ wk[w].pc \in StagePcs \cup {"hold", "summary"}
        => 1..(wk[w].stage - 1) \subseteq done[wk[w].paper]
    /\ wk[w].pc = "nextSaga" => wk[w].stage \in done[wk[w].paper]

\* What a job relies on is in the rows.
EvidenceOf(w) ==
    /\ wk[w].id # 0 => openxivId[wk[w].paper] # 0
    /\ wk[w].uri # 0 => uri[wk[w].paper] # 0
    /\ wk[w].pc \in {"setHtml", "extract"} => version[wk[w].paper].key # "none"
    /\ wk[w].pc = "extract" => version[wk[w].paper].html
    /\ wk[w].pc = "setUri" => wk[w].wrote \in 1..records[wk[w].paper]
    /\ wk[w].pc \in {"setPublished", "confirm"} => uri[wk[w].paper] # 0
    /\ wk[w].pc = "post" => wk[w].uri # 0
    /\ wk[w].pc = "social" => "finalize" \in queued[wk[w].paper]
    /\ wk[w].pc \in {"reread", "markDone"} => EffectOf(wk[w].paper, wk[w].stage)

\* An accept job never holds: when it ends well, it has seen every stage done.
AcceptOf(w) ==
    wk[w].job = Accept =>
        /\ wk[w].pc = "loadPaper" => Approved \in wk[w].saga
        /\ wk[w].pc # "hold"
        /\ wk[w].pc = "summary" => wk[w].stage = Finished

JobEvidence(w) == wk[w].pc # "idle" => InOrder(w) /\ EvidenceOf(w) /\ AcceptOf(w)

\* A flag stands for its effect, and for the stages before it.
FlagsEarned ==
    \A p \in Papers : \A k \in done[p] :
        EffectOf(p, k) /\ (k # Approved => 1..(k - 1) \subseteq done[p])

\* The record that a uri names was written.
UriWritten == \A p \in Papers : uri[p] <= records[p]

\* An accept is queued after its approval was written.
AcceptsApproved ==
    /\ \A p \in Papers : jobs[p][Accept].state # "none" => Approved \in done[p]
    /\ \A m \in Decisions :
        mod[m].pc \in {"rescinding", "enqueueing"} => Approved \in done[mod[m].paper]

Evidence ==
    /\ FlagsEarned
    /\ UriWritten
    /\ AnnouncedIsPublished
    /\ AcceptsApproved
    /\ AcceptCompletes
    /\ \A w \in Workers : JobEvidence(w)

-----------------------------------------------------------------------------
(* What a step has to show. *)

\* Nothing that was produced is taken away.
Advances ==
    \A p \in Papers :
        /\ done[p] \subseteq done'[p]
        /\ version[p].key # "none" => version'[p].key # "none"
        /\ version[p].html => version'[p].html
        /\ openxivId[p] # 0 => openxivId'[p] # 0
        /\ uri[p] # 0 => uri'[p] # 0
        /\ queued[p] \subseteq queued'[p]
        /\ records[p] <= records'[p]

LEMMA SameRowsAdvance ==
    ASSUME Inv, UNCHANGED <<done, version, openxivId, uri, queued, records>> PROVE Advances
BY DEF Inv, TypeOK, EffectTypes, Advances

LEMMA EffectStays ==
    ASSUME Inv', Advances, NEW p \in Papers, NEW k \in Nat, EffectOf(p, k)
    PROVE  EffectOf(p, k)'
<1>1. queued'[p] \subseteq {"finalize", "social"}
    BY DEF Inv, TypeOK, EffectTypes
<1> QED BY <1>1 DEF Advances, EffectOf

LEMMA JobKept ==
    ASSUME Inv, Inv', Advances, NEW v \in Workers, wk'[v] = wk[v], JobEvidence(v)
    PROVE  JobEvidence(v)'
<1> SUFFICES ASSUME wk[v].pc # "idle" PROVE JobEvidence(v)'
    BY DEF JobEvidence
<1>1. /\ wk[v].paper \in Papers /\ wk[v].stage \in Nat /\ wk[v].wrote \in Nat
      /\ records[wk[v].paper] \in Nat /\ records'[wk[v].paper] \in Nat
    <2>1. /\ wk[v].paper \in Papers /\ wk[v].stage \in 0..Finished /\ wk[v].wrote \in Nat
        BY WorkerType DEF Inv, TypeOK
    <2> QED BY <2>1 DEF Inv, TypeOK, Finished, EffectTypes
<1>2. InOrder(v)'
    BY <1>1 DEF JobEvidence, InOrder, Advances
<1>3. wk[v].pc \in {"reread", "markDone"} => EffectOf(wk[v].paper, wk[v].stage)'
    BY <1>1, EffectStays DEF JobEvidence, EvidenceOf
<1>4. EvidenceOf(v)'
    BY <1>1, <1>3 DEF JobEvidence, EvidenceOf, Advances, EffectOf
<1>5. AcceptOf(v)'
    BY DEF JobEvidence, AcceptOf
<1> QED BY <1>2, <1>4, <1>5 DEF JobEvidence

\* What the rows of the papers show.
Facts == FlagsEarned /\ UriWritten /\ AnnouncedIsPublished

LEMMA FactsKept ==
    ASSUME Inv, Inv', Facts, Advances, UNCHANGED <<done, uri, posts>> PROVE Facts'
<1>1. \A p \in Papers : \A k \in done[p] : k \in Nat
    <2>1. \A p \in Papers : done[p] \in SUBSET (1..6)
        BY DEF Inv, TypeOK, PaperTypes, Stages
    <2> QED BY <2>1
<1>2. FlagsEarned'
    BY <1>1, EffectStays DEF Facts, FlagsEarned
<1>3. \A p \in Papers : uri[p] \in Nat /\ records[p] \in Nat /\ records'[p] \in Nat
    BY DEF Inv, TypeOK, PaperTypes, EffectTypes
<1>4. UriWritten'
    BY <1>3 DEF Facts, UriWritten, Advances
<1>5. AnnouncedIsPublished'
    BY <1>3 DEF Facts, AnnouncedIsPublished, Advances
<1> QED BY <1>2, <1>4, <1>5 DEF Facts

\* A step of a slot within its job.
LEMMA SlotEvidence ==
    ASSUME Inv, Inv', Evidence, Advances, Facts', NEW w \in Workers, JobEvidence(w)',
           \A v \in Workers \ {w} : wk'[v] = wk[v],
           jobs' = jobs, UNCHANGED httpVars
    PROVE  Evidence'
<1>1. \A v \in Workers : JobEvidence(v)'
    BY JobKept DEF Evidence
<1>2. AcceptsApproved'
    <2>1. \A m \in Decisions :
            mod[m].pc \in {"rescinding", "enqueueing"} => mod[m].paper \in Papers
        BY DEF Inv, TypeOK, RequestTypes, Idle, Answered, Moderating
    <2> QED BY <2>1 DEF Evidence, AcceptsApproved, Advances, httpVars
<1>3. AcceptCompletes'
    <2>1. \A p \in Papers : done[p] \subseteq Stages /\ done'[p] \subseteq Stages
        BY DEF Inv, TypeOK, PaperTypes
    <2>2. \A p \in Papers : done[p] \subseteq done'[p] BY DEF Advances
    <2> QED BY <2>1, <2>2 DEF Evidence, AcceptCompletes
<1> QED BY <1>1, <1>2, <1>3 DEF Evidence, Facts

\* A slot goes to another place of its job.
Moved(w, l) ==
    /\ wk'[w].pc = l
    /\ wk'[w].paper = wk[w].paper /\ wk'[w].job = wk[w].job /\ wk'[w].saga = wk[w].saga
    /\ wk'[w].stage = wk[w].stage /\ wk'[w].id = wk[w].id /\ wk'[w].uri = wk[w].uri
    /\ \A v \in Workers \ {w} : wk'[v] = wk[v]

LEMMA GotoMoved ==
    ASSUME Inv, NEW w \in Workers, wk[w].pc # "idle", NEW l, Goto(w, l)
    PROVE  Moved(w, l) /\ wk'[w].wrote = wk[w].wrote
<1>1. wk'[w] = [wk[w] EXCEPT !.pc = l] /\ \A v \in Workers \ {w} : wk'[v] = wk[v]
    BY DEF Goto, Inv, TypeOK
<1>2. wk[w] \in Running
    BY WorkerType DEF Inv, TypeOK
<1> QED BY <1>1, <1>2 DEF Running, Moved

\* A move within a stage, to its end, or out of it with an error.
LEMMA MoveEvidence ==
    ASSUME Inv, Inv', Evidence, Advances, Facts', NEW w \in Workers, NEW l, Moved(w, l),
           \/ l = "unwind"
           \/ /\ wk[w].pc \in StagePcs \ AfterPcs
              /\ l \in StagePcs \ AfterPcs => l \in PlacesOf(wk[w].stage)
              /\ l \in StagePcs \ {"nextSaga"}
              /\ l \in {"setHtml", "extract"} => version'[wk[w].paper].key # "none"
              /\ l = "extract" => version'[wk[w].paper].html
              /\ l = "setUri" => wk'[w].wrote \in 1..records'[wk[w].paper]
              /\ l \in {"setPublished", "confirm"} => uri'[wk[w].paper] # 0
              /\ l = "post" => wk[w].uri # 0
              /\ l = "social" => "finalize" \in queued'[wk[w].paper]
              /\ l \in {"reread", "markDone"} => EffectOf(wk[w].paper, wk[w].stage)',
           wk[w].pc # "idle", jobs' = jobs, UNCHANGED httpVars
    PROVE  Evidence'
<1>1. wk[w].paper \in Papers
    BY Here
<1>2. JobEvidence(w)
    BY DEF Evidence
<1>3. "unwind" \notin StagePcs /\ "hold" \notin StagePcs /\ "summary" \notin StagePcs
      /\ "loadPaper" \notin StagePcs
    BY DEF StagePcs, CompilePcs, PublishPcs, LocalPcs, BridgePcs, OtherPcs
<1>4. InOrder(w)'
    BY <1>1, <1>2, <1>3 DEF JobEvidence, InOrder, Moved, Advances, AfterPcs
<1>5. EvidenceOf(w)'
    BY <1>1, <1>2 DEF JobEvidence, EvidenceOf, Moved, Advances, EffectOf
<1>6. AcceptOf(w)'
    BY <1>3 DEF AcceptOf, Moved
<1>7. JobEvidence(w)'
    BY <1>4, <1>5, <1>6 DEF JobEvidence
<1> QED BY <1>7, SlotEvidence DEF Moved

-----------------------------------------------------------------------------
LEMMA InitEvidence == Init => Evidence
<1> SUFFICES ASSUME Init PROVE Evidence
    OBVIOUS
<1>1. FlagsEarned /\ UriWritten /\ AnnouncedIsPublished
    BY DEF Init, FlagsEarned, UriWritten, AnnouncedIsPublished
<1>2. \A p \in Papers : jobs[p][Accept].state = "none"
    BY DEF Init, JobNames, NoJob
<1>3. AcceptsApproved /\ AcceptCompletes
    BY <1>2 DEF Init, AcceptsApproved, AcceptCompletes, Idle
<1>4. \A w \in Workers : JobEvidence(w)
    BY DEF Init, JobEvidence, Idle
<1> QED BY <1>1, <1>3, <1>4 DEF Evidence

\* Nothing but the slot itself changes.
LEMMA LocalEvidence ==
    ASSUME Inv, Inv', Evidence, LocalStep
    PROVE  /\ Advances /\ Facts' /\ jobs' = jobs /\ UNCHANGED httpVars
           /\ UNCHANGED <<done, version, openxivId, uri, queued, records, posts>>
<1>1. /\ UNCHANGED <<done, version, openxivId, uri, queued, records, posts>>
      /\ jobs' = jobs /\ UNCHANGED httpVars
    BY DEF LocalStep, Quiet, paperVars, sagaVars, remote
<1>2. Advances
    BY <1>1, SameRowsAdvance
<1> QED BY <1>1, <1>2, FactsKept DEF Evidence, Facts

\* runStages enters a stage with the stages before it done.
LEMMA RunStagesEvidence ==
    ASSUME Inv, Inv', Evidence, NEW w \in Workers, wk[w].pc # "idle", LocalStep,
           NEW saga \in SUBSET Stages, NEW from \in 1..Finished, NEW i \in Nat, NEW u \in Nat,
           saga \subseteq done[wk[w].paper], 1..(from - 1) \subseteq done[wk[w].paper],
           i # 0 => openxivId[wk[w].paper] # 0,
           u # 0 => uri[wk[w].paper] # 0,
           wk[w].job = Accept => Approved \in saga \/ from > Approved,
           RunStages(w, saga, from, i, u)
    PROVE  Evidence'
<1>1. PICK k \in from..Finished :
        IsNextStage(saga, from, k) /\ wk' = [wk EXCEPT ![w] = Entered(wk[w], k, i, u)]
    BY DEF RunStages
<1>2. k \in 1..7
    BY DEF Finished
<1>3. wk[w] \in Running /\ wk[w].paper \in Papers
    BY WorkerType DEF Inv, TypeOK
<1> DEFINE st == IF k \in {Approved, Finished} THEN wk[w].stack ELSE wk[w].stack \cup {k}
<1>4. /\ wk'[w] = [wk[w] EXCEPT !.pc = StageEntry[k], !.stage = k, !.id = i, !.uri = u,
                               !.saga = {}, !.stack = st]
      /\ \A v \in Workers \ {w} : wk'[v] = wk[v]
    BY <1>1 DEF Entered, Inv, TypeOK
<1>5. /\ wk'[w].pc = StageEntry[k] /\ wk'[w].stage = k
      /\ wk'[w].paper = wk[w].paper /\ wk'[w].job = wk[w].job
      /\ wk'[w].id = i /\ wk'[w].uri = u
    <2> HIDE DEF st
    <2> QED BY <1>3, <1>4 DEF Running
<1>6. /\ StageEntry[k] \in StagePcs \ AfterPcs
            => k \in Stages \ {Approved} /\ StageEntry[k] \in PlacesOf(k)
      /\ StageEntry[k] = "hold" => k = Approved
      /\ StageEntry[k] = "summary" => k = Finished
      /\ StageEntry[k] \in {"getSource", "hold", "allocate", "putRecord", "putNotes",
                            "readVersion", "summary"}
    BY <1>2
    DEF StageEntry, PlacesOf, Finished, Persisted, Approved, IdAssigned, PdsPaper, PdsNotes,
        Bridge, Stages, StagePcs, AfterPcs, CompilePcs, PublishPcs, LocalPcs, BridgePcs, OtherPcs
<1>7. 1..(k - 1) \subseteq done[wk[w].paper]
    <2> SUFFICES ASSUME NEW j \in 1..(k - 1) PROVE j \in done[wk[w].paper]
        OBVIOUS
    <2>1. CASE j \in from..(k - 1)
        BY <1>1, <2>1 DEF IsNextStage
    <2>2. CASE j \in 1..(from - 1)
        BY <2>2
    <2> QED BY <1>2, <2>1, <2>2
<1>8. UNCHANGED <<done, openxivId, uri>>
    BY LocalEvidence
<1>9. InOrder(w)'
    BY <1>5, <1>6, <1>7, <1>8 DEF InOrder, AfterPcs
<1>10. EvidenceOf(w)'
    BY <1>5, <1>6, <1>8 DEF EvidenceOf
<1>11. AcceptOf(w)'
    <2>1. wk[w].job = Accept => k # Approved
        BY <1>1, <1>2 DEF IsNextStage, Approved
    <2> QED BY <1>5, <1>6, <2>1 DEF AcceptOf
<1>12. JobEvidence(w)'
    BY <1>9, <1>10, <1>11 DEF JobEvidence
<1> QED BY <1>4, <1>12, LocalEvidence, SlotEvidence

LEMMA FlowEvidence ==
    ASSUME Inv, Inv', Evidence, NEW w \in Workers,
           LoadSaga(w) \/ LoadPaper(w) \/ NextSaga(w) \/ Reread(w) \/ Confirm(w)
    PROVE  Evidence'
<1> DEFINE p == wk[w].paper
<1> USE DEF At
<1>1. /\ wk[w].pc \in {"loadSaga", "loadPaper", "nextSaga", "reread", "confirm"}
      /\ wk[w].pc # "idle" /\ LocalStep
    BY DEF LoadSaga, LoadPaper, NextSaga, Reread, Confirm
<1>2. /\ JobEvidence(w) /\ InOrder(w) /\ EvidenceOf(w) /\ AcceptOf(w)
      /\ wk[w] \in Running /\ p \in Papers
      /\ wk[w].job = Accept => Approved \in done[p]
    <2>1. JobEvidence(w) /\ p \in Papers /\ wk[w].job \in JobNames
        BY <1>1, Here DEF Evidence
    <2>2. jobs[p][wk[w].job].state = "active"
        BY <1>1 DEF Inv, WorkerInv, JobOf
    <2> QED BY <1>1, <2>1, <2>2, WorkerType
            DEF JobEvidence, Evidence, AcceptsApproved, Inv, TypeOK
<1>3. CASE LoadSaga(w)
    <2>1. /\ wk'[w] = [wk[w] EXCEPT !.saga = done[p], !.pc = "loadPaper"]
          /\ \A v \in Workers \ {w} : wk'[v] = wk[v]
        BY <1>3 DEF LoadSaga, Inv, TypeOK
    <2>2. /\ wk'[w].pc = "loadPaper" /\ wk'[w].saga = done[p] /\ wk'[w].paper = p
          /\ wk'[w].job = wk[w].job /\ wk'[w].id = wk[w].id /\ wk'[w].uri = wk[w].uri
        BY <1>2, <2>1 DEF Running
    <2>3. "loadPaper" \notin StagePcs
        BY DEF StagePcs, CompilePcs, PublishPcs, LocalPcs, BridgePcs, OtherPcs
    <2>4. UNCHANGED <<done, openxivId, uri>>
        BY <1>1, LocalEvidence
    <2>5. InOrder(w)' /\ EvidenceOf(w)' /\ AcceptOf(w)'
        BY <1>2, <2>2, <2>3, <2>4 DEF InOrder, EvidenceOf, AcceptOf
    <2> QED BY <1>1, <2>1, <2>5, LocalEvidence, SlotEvidence DEF JobEvidence
<1>4. CASE LoadPaper(w)
    <2>1. RunStages(w, wk[w].saga, Persisted, openxivId[p], uri[p]) /\ wk[w].pc = "loadPaper"
        BY <1>4 DEF LoadPaper
    <2>2. /\ wk[w].saga \in SUBSET Stages /\ wk[w].saga \subseteq done[p]
          /\ openxivId[p] \in Nat /\ uri[p] \in Nat
          /\ Persisted \in 1..Finished /\ 1..(Persisted - 1) = {}
        BY <1>1, <1>2, WorkerType DEF Inv, TypeOK, PaperTypes, WorkerInv, Persisted, Finished
    <2>3. wk[w].job = Accept => Approved \in wk[w].saga
        BY <1>2, <2>1 DEF AcceptOf
    <2> QED BY <1>1, <2>1, <2>2, <2>3, RunStagesEvidence
<1>5. CASE NextSaga(w)
    <2>1. /\ RunStages(w, done[p], wk[w].stage + 1, wk[w].id, wk[w].uri)
          /\ wk[w].pc = "nextSaga"
        BY <1>5 DEF NextSaga
    <2>2. "nextSaga" \in StagePcs
        BY DEF StagePcs, OtherPcs
    <2>3. wk[w].stage \in 1..6
        BY <1>1, <2>1, <2>2 DEF Inv, WorkerInv, Stages
    <2>4. 1..((wk[w].stage + 1) - 1) \subseteq done[p]
        BY <1>2, <2>1, <2>2, <2>3 DEF InOrder
    <2>5. /\ done[p] \in SUBSET Stages /\ wk[w].id \in Nat /\ wk[w].uri \in Nat
          /\ wk[w].stage + 1 \in 1..Finished
        BY <1>1, <1>2, <2>3, WorkerType DEF Inv, TypeOK, PaperTypes, Finished
    <2>6. (wk[w].id # 0 => openxivId[p] # 0) /\ (wk[w].uri # 0 => uri[p] # 0)
        BY <1>2 DEF EvidenceOf
    <2> HIDE DEF Finished, Approved
    <2> QED BY <1>1, <1>2, <2>1, <2>4, <2>5, <2>6, RunStagesEvidence
<1>6. CASE Reread(w) \/ Confirm(w)
    <2> DEFINE i == openxivId[p]
               u == uri[p]
    <2>1. /\ wk'[w] = [wk[w] EXCEPT !.id = i, !.uri = u, !.pc = "markDone"]
          /\ \A v \in Workers \ {w} : wk'[v] = wk[v]
        BY <1>6 DEF Reread, Confirm, Inv, TypeOK
    <2>2. /\ wk'[w].pc = "markDone" /\ wk'[w].paper = p /\ wk'[w].job = wk[w].job
          /\ wk'[w].stage = wk[w].stage /\ wk'[w].id = i /\ wk'[w].uri = u
        <3> HIDE DEF i, u
        <3> QED BY <1>2, <2>1 DEF Running
    <2>3. UNCHANGED <<done, version, openxivId, uri, queued>>
        BY <1>1, LocalEvidence
    <2>4. /\ wk[w].pc \in {"reread", "confirm"}
          /\ {"reread", "confirm", "markDone"} \subseteq StagePcs
          /\ "confirm" \notin AfterPcs /\ "markDone" \in AfterPcs
        BY <1>6 DEF Reread, Confirm, StagePcs, PublishPcs, OtherPcs, AfterPcs
    <2>5. EffectOf(p, wk[w].stage)
        <3>1. CASE wk[w].pc = "reread"
            BY <1>2, <3>1 DEF EvidenceOf
        <3>2. CASE wk[w].pc = "confirm"
            <4>1. uri[p] # 0 /\ wk[w].stage \in Stages \ {Approved}
                  /\ "confirm" \in PlacesOf(wk[w].stage)
                BY <1>2, <2>4, <3>2 DEF EvidenceOf, InOrder
            <4>2. wk[w].stage = PdsPaper
                BY <4>1 DEF PlacesOf, Stages, Approved, Persisted, IdAssigned, PdsPaper, PdsNotes,
                            Bridge, CompilePcs, PublishPcs, LocalPcs, BridgePcs
            <4> QED BY <4>1, <4>2 DEF EffectOf, Persisted, IdAssigned, PdsPaper, Bridge
        <3> QED BY <2>4, <3>1, <3>2
    <2>6. EvidenceOf(w)'
        BY <2>2, <2>3, <2>5 DEF EvidenceOf, EffectOf
    <2>7. InOrder(w)' /\ AcceptOf(w)'
        BY <1>2, <2>2, <2>3, <2>4 DEF InOrder, AcceptOf
    <2> QED BY <1>1, <2>1, <2>6, <2>7, LocalEvidence, SlotEvidence DEF JobEvidence
<1> QED BY <1>3, <1>4, <1>5, <1>6

\* The flag that is set has its effect, and the flags before it are set.
LEMMA MarkEvidence ==
    ASSUME Inv, Inv', Evidence, NEW w \in Workers, MarkStageDone(w) PROVE Evidence'
<1> DEFINE p == wk[w].paper
           k == wk[w].stage
<1>1. /\ wk[w].pc = "markDone" /\ wk[w].pc # "idle" /\ p \in Papers
      /\ done' = [done EXCEPT ![p] = done[p] \cup {k}]
      /\ Goto(w, "nextSaga") /\ jobs' = jobs /\ UNCHANGED httpVars
      /\ UNCHANGED <<version, openxivId, uri, queued, records, posts>>
    BY Here DEF MarkStageDone, At, paperVars, remote
<1>2. Moved(w, "nextSaga")
    BY <1>1, GotoMoved
<1>3. /\ "markDone" \in StagePcs /\ "nextSaga" \in StagePcs
      /\ "markDone" \in AfterPcs /\ "nextSaga" \in AfterPcs
    BY DEF StagePcs, OtherPcs, AfterPcs
<1>4. JobEvidence(w) /\ InOrder(w) /\ EvidenceOf(w) /\ AcceptOf(w)
    BY <1>1 DEF Evidence, JobEvidence
<1>5. 1..(k - 1) \subseteq done[p] /\ EffectOf(p, k) /\ k \in 1..6
    BY <1>1, <1>3, <1>4 DEF InOrder, EvidenceOf, Inv, WorkerInv, Stages
<1>6. done'[p] = done[p] \cup {k} /\ \A q \in Papers \ {p} : done'[q] = done[q]
    BY <1>1 DEF Inv, TypeOK, PaperTypes
<1>7. Advances
    BY <1>1, <1>6 DEF Inv, TypeOK, EffectTypes, Advances
<1>8. FlagsEarned'
    <2> SUFFICES ASSUME NEW q \in Papers, NEW j \in done'[q]
                 PROVE  EffectOf(q, j)' /\ (j # Approved => 1..(j - 1) \subseteq done'[q])
        BY DEF FlagsEarned
    <2>1. EffectOf(q, j) /\ (j # Approved => 1..(j - 1) \subseteq done[q])
        BY <1>5, <1>6 DEF Evidence, FlagsEarned
    <2>2. EffectOf(q, j)'
        BY <1>1, <2>1 DEF EffectOf
    <2> QED BY <1>7, <2>1, <2>2 DEF Advances
<1>9. Facts'
    BY <1>1, <1>8 DEF Facts, Evidence, UriWritten, AnnouncedIsPublished
<1>10. InOrder(w)' /\ AcceptOf(w)'
    BY <1>2, <1>3, <1>4, <1>5, <1>6, <1>1 DEF Moved, InOrder, AcceptOf
<1>11. EvidenceOf(w)'
    BY <1>1, <1>2, <1>4 DEF Moved, EvidenceOf
<1> QED BY <1>1, <1>2, <1>7, <1>9, <1>10, <1>11, SlotEvidence DEF Moved, JobEvidence

\* A job holds before the approval; it is no accept job.
LEMMA HoldEvidence ==
    ASSUME Inv, Inv', Evidence, NEW w \in Workers, Hold(w) \/ HoldFails(w) PROVE Evidence'
<1>1. /\ wk[w].pc = "hold" /\ wk[w].pc # "idle" /\ jobs' = jobs /\ UNCHANGED httpVars
      /\ UNCHANGED <<done, version, openxivId, uri, queued, records, posts>>
    BY DEF Hold, HoldFails, At, Quiet, sagaVars, remote
<1>2. PICK l \in {"summary", "unwind"} : Goto(w, l)
    BY DEF Hold, HoldFails
<1>3. Moved(w, l)
    BY <1>1, <1>2, GotoMoved
<1>4. Advances /\ Facts'
    BY <1>1, SameRowsAdvance, FactsKept DEF Evidence, Facts
<1>5. InOrder(w) /\ EvidenceOf(w) /\ AcceptOf(w)
    BY <1>1 DEF Evidence, JobEvidence
<1>6. "summary" \notin StagePcs /\ "unwind" \notin StagePcs
    BY DEF StagePcs, CompilePcs, PublishPcs, LocalPcs, BridgePcs, OtherPcs
<1>7. InOrder(w)' /\ EvidenceOf(w)' /\ AcceptOf(w)'
    BY <1>1, <1>3, <1>5, <1>6 DEF Moved, InOrder, EvidenceOf, AcceptOf
<1> QED BY <1>1, <1>3, <1>4, <1>7, SlotEvidence DEF Moved, JobEvidence

LEMMA StageAt ==
    ASSUME Inv, Evidence, NEW w \in Workers, wk[w].pc \in StagePcs \ AfterPcs
    PROVE  /\ wk[w].pc # "idle" /\ wk[w].paper \in Papers
           /\ EvidenceOf(w)
           /\ 1..(wk[w].stage - 1) \subseteq done[wk[w].paper]
           /\ wk[w].stage \in Stages /\ wk[w].pc \in PlacesOf(wk[w].stage)
           /\ wk[w].pc \in CompilePcs => wk[w].stage = Persisted
           /\ wk[w].pc = "allocate" => wk[w].stage = IdAssigned
           /\ wk[w].pc \in PublishPcs \cup LocalPcs => wk[w].stage = PdsPaper
           /\ wk[w].pc = "putNotes" => wk[w].stage = PdsNotes
           /\ wk[w].pc \in BridgePcs \cup {"readVersion", "finalize", "social"}
                => wk[w].stage = Bridge
<1>1. wk[w].pc # "idle"
    BY DEF StagePcs, CompilePcs, PublishPcs, LocalPcs, BridgePcs, OtherPcs
<1>2. InOrder(w) /\ EvidenceOf(w) /\ wk[w].paper \in Papers
    BY <1>1, Here DEF Evidence, JobEvidence
<1>3. wk[w].stage \in Stages \ {Approved} /\ wk[w].pc \in PlacesOf(wk[w].stage)
      /\ 1..(wk[w].stage - 1) \subseteq done[wk[w].paper]
    BY <1>2 DEF InOrder
<1>4. wk[w].stage \in {Persisted, IdAssigned, PdsPaper, PdsNotes, Bridge}
    BY <1>3 DEF Stages, Approved, Persisted, IdAssigned, PdsPaper, PdsNotes, Bridge
<1>5. /\ wk[w].pc \in CompilePcs => wk[w].stage = Persisted
      /\ wk[w].pc = "allocate" => wk[w].stage = IdAssigned
      /\ wk[w].pc \in PublishPcs \cup LocalPcs => wk[w].stage = PdsPaper
      /\ wk[w].pc = "putNotes" => wk[w].stage = PdsNotes
      /\ wk[w].pc \in BridgePcs \cup {"readVersion", "finalize", "social"}
            => wk[w].stage = Bridge
    BY <1>3, <1>4 DEF PlacesOf, Persisted, IdAssigned, PdsPaper, PdsNotes, Bridge, CompilePcs,
                      PublishPcs, LocalPcs, BridgePcs
<1> QED BY <1>1, <1>2, <1>3, <1>5

\* A move of the compile stage that keeps a version that was written.
LEMMA CompileMoves ==
    ASSUME Inv, Inv', Evidence, NEW w \in Workers, wk[w].pc \in CompilePcs,
           NEW l \in {"latestVersion", "addVersion", "setHtml", "extract", "reread", "unwind"},
           Goto(w, l), jobs' = jobs, UNCHANGED httpVars,
           UNCHANGED <<done, openxivId, uri, queued, records, posts>>,
           \A q \in Papers :
               /\ version[q].key # "none" => version'[q].key # "none"
               /\ version[q].html => version'[q].html,
           l \in {"setHtml", "extract", "reread"} => version'[wk[w].paper].key # "none",
           l \in {"extract", "reread"} => version'[wk[w].paper].html
    PROVE  Evidence'
<1>1. wk[w].pc \in StagePcs \ AfterPcs
    BY DEF CompilePcs, StagePcs, AfterPcs
<1>2. wk[w].pc # "idle" /\ wk[w].paper \in Papers /\ wk[w].stage = Persisted
    BY <1>1, StageAt
<1>3. l \in StagePcs \ AfterPcs => l \in PlacesOf(wk[w].stage)
    <2>1. PlacesOf(wk[w].stage) = CompilePcs
        BY <1>2 DEF PlacesOf, Persisted, IdAssigned, PdsPaper, PdsNotes, Bridge
    <2> QED BY <2>1 DEF CompilePcs, AfterPcs, StagePcs, PublishPcs, LocalPcs, BridgePcs, OtherPcs
<1>4. /\ l # "unwind" => l \in StagePcs \ {"nextSaga"}
      /\ l \notin {"setUri", "setPublished", "confirm", "post", "social", "markDone"}
    BY DEF StagePcs, CompilePcs, OtherPcs
<1>5. Moved(w, l)
    BY <1>2, GotoMoved
<1>6. Advances
    BY DEF Inv, TypeOK, EffectTypes, Advances
<1>7. Facts'
    BY <1>6, FactsKept DEF Evidence, Facts
<1>8. l = "reread" => EffectOf(wk[w].paper, wk[w].stage)'
    BY <1>2, <1>5 DEF Moved, EffectOf, Persisted, IdAssigned, PdsPaper, Bridge
<1> QED BY <1>1, <1>2, <1>3, <1>4, <1>5, <1>6, <1>7, <1>8, MoveEvidence

LEMMA CompileEvidence ==
    ASSUME Inv, Inv', Evidence, NEW w \in Workers, CompileStep(w) PROVE Evidence'
<1> DEFINE p == wk[w].paper
<1> USE DEF At
<1>1. /\ wk[w].pc \in CompilePcs
      /\ UNCHANGED <<done, openxivId, uri, queued, records, posts>>
      /\ jobs' = jobs /\ UNCHANGED httpVars
    BY DEF CompileStep, GetSource, LatestVersion, AddVersion, SetHtml, Extract, CompilePcs,
           LocalStep, Quiet, paperVars, sagaVars, remote
<1>2. wk[w].pc # "idle"
    BY <1>1 DEF CompilePcs
<1>3. p \in Papers /\ JobOf(w).key \in Keys /\ version[p] \in Version /\ EvidenceOf(w)
    BY <1>2, Here DEF Inv, TypeOK, PaperTypes, Evidence, JobEvidence
<1>4. CASE GetSource(w)
    BY <1>1, <1>4, CompileMoves DEF GetSource, LocalStep
<1>5. CASE LatestVersion(w)
    <2>1. JobOf(w).key # "none"
        BY <1>3 DEF Keys
    <2> QED BY <1>1, <1>5, <2>1, CompileMoves DEF LatestVersion, LocalStep
<1>6. CASE AddVersion(w)
    <2>1. CASE version[p].key = "none"
        <3>1. version' = [version EXCEPT ![p].key = JobOf(w).key] /\ Goto(w, "setHtml")
            BY <1>6, <2>1 DEF AddVersion
        <3>2. version'[p] = [version[p] EXCEPT !.key = JobOf(w).key]
              /\ \A q \in Papers \ {p} : version'[q] = version[q]
            BY <1>3, <3>1 DEF Inv, TypeOK, PaperTypes
        <3>3. version'[p].key # "none" /\ version'[p].html = version[p].html
            BY <1>3, <3>2 DEF Version, Keys
        <3> QED BY <1>1, <3>1, <3>2, <3>3, CompileMoves
    <2>2. CASE version[p].key # "none"
        BY <1>1, <1>6, <2>2, CompileMoves DEF AddVersion
    <2> QED BY <2>1, <2>2
<1>7. CASE SetHtml(w)
    <2>1. /\ version' = [version EXCEPT ![p].html = TRUE] /\ Goto(w, "extract")
          /\ version[p].key # "none"
        BY <1>3, <1>7 DEF SetHtml, EvidenceOf
    <2>2. version'[p] = [version[p] EXCEPT !.html = TRUE]
          /\ \A q \in Papers \ {p} : version'[q] = version[q]
        BY <1>3, <2>1 DEF Inv, TypeOK, PaperTypes
    <2>3. version'[p].key = version[p].key /\ version'[p].html
        BY <1>3, <2>2 DEF Version
    <2> QED BY <1>1, <2>1, <2>2, <2>3, CompileMoves
<1>8. CASE Extract(w)
    <2>1. version[p].key # "none" /\ version[p].html
        BY <1>3, <1>8 DEF Extract, EvidenceOf
    <2> QED BY <1>1, <1>8, <2>1, CompileMoves DEF Extract, LocalStep
<1> QED BY <1>4, <1>5, <1>6, <1>7, <1>8 DEF CompileStep

LEMMA AllocateEvidence ==
    ASSUME Inv, Inv', Evidence, NEW w \in Workers, Allocate(w) PROVE Evidence'
<1> DEFINE p == wk[w].paper
           s == SubjectOf[wk[w].paper]
<1>1. /\ wk[w].pc = "allocate" /\ wk[w].pc \in StagePcs \ AfterPcs
      /\ UNCHANGED <<done, version, uri, queued, records, posts>>
      /\ jobs' = jobs /\ UNCHANGED httpVars
    BY DEF Allocate, At, StagePcs, OtherPcs, AfterPcs, Quiet, sagaVars, remote
<1>2. /\ wk[w].pc # "idle" /\ p \in Papers /\ EvidenceOf(w) /\ s \in Subjects
    BY <1>1, StageAt, SagaAssumption
<1>3. wk[w].stage = IdAssigned
    BY <1>1, StageAt DEF CompilePcs
<1>4. /\ openxivId'[p] # 0
      /\ \A q \in Papers : openxivId[q] # 0 => openxivId'[q] # 0
      /\ \E l \in {"markDone", "reread"} : Goto(w, l)
    <2>1. openxivId \in [Papers -> Nat] /\ idCounter \in [Subjects -> Nat]
        BY DEF Inv, TypeOK, PaperTypes
    <2>2. CASE wk[w].id # 0
        BY <1>2, <2>2 DEF Allocate, EvidenceOf
    <2>3. CASE wk[w].id = 0 /\ openxivId[p] # 0
        BY <2>3 DEF Allocate
    <2>4. CASE wk[w].id = 0 /\ openxivId[p] = 0
        <3>1. openxivId' = [openxivId EXCEPT ![p] = idCounter[s] + 1] /\ Goto(w, "reread")
            BY <2>4 DEF Allocate
        <3>2. idCounter[s] + 1 # 0
            BY <1>2, <2>1
        <3> QED BY <1>2, <2>1, <3>1, <3>2
    <2> QED BY <2>2, <2>3, <2>4
<1>5. PICK l \in {"markDone", "reread"} : Goto(w, l)
    BY <1>4
<1>6. Moved(w, l)
    BY <1>2, <1>5, GotoMoved
<1>7. Advances
    BY <1>1, <1>4 DEF Inv, TypeOK, EffectTypes, Advances
<1>8. Facts'
    BY <1>1, <1>7, FactsKept DEF Evidence, Facts
<1>9. EffectOf(wk[w].paper, wk[w].stage)'
    BY <1>3, <1>4, <1>6 DEF Moved, EffectOf, Persisted, IdAssigned, PdsPaper, Bridge
<1>10. l \in StagePcs /\ l \in AfterPcs /\ l # "nextSaga"
    BY DEF StagePcs, OtherPcs, AfterPcs
<1> QED BY <1>1, <1>2, <1>6, <1>7, <1>8, <1>9, <1>10, MoveEvidence

\* A move of the publish stage, which ends well with a uri or for a mock account.
LEMMA PublishMoves ==
    ASSUME Inv, Inv', Evidence, Advances, Facts',
           NEW w \in Workers, wk[w].pc \in PublishPcs \cup LocalPcs,
           NEW l \in {"setUri", "setPublished", "confirm", "localPublish", "localFinalize",
                      "localSocial", "markDone", "reread", "unwind"},
           Moved(w, l), jobs' = jobs, UNCHANGED httpVars,
           l = "setUri" => wk'[w].wrote \in 1..records'[wk[w].paper],
           l \in {"setPublished", "confirm"} => uri'[wk[w].paper] # 0,
           l \in {"reread", "markDone"} => uri'[wk[w].paper] # 0 \/ wk[w].paper \notin PlcPapers
    PROVE  Evidence'
<1>1. wk[w].pc \in StagePcs \ AfterPcs
    BY DEF PublishPcs, LocalPcs, StagePcs, AfterPcs
<1>2. wk[w].pc # "idle" /\ wk[w].paper \in Papers /\ wk[w].stage = PdsPaper
    BY <1>1, StageAt
<1>3. l \in StagePcs \ AfterPcs => l \in PlacesOf(wk[w].stage)
    <2>1. PlacesOf(wk[w].stage) = PublishPcs \cup LocalPcs
        BY <1>2 DEF PlacesOf, Persisted, IdAssigned, PdsPaper, PdsNotes, Bridge
    <2> QED BY <2>1 DEF CompilePcs, AfterPcs, StagePcs, PublishPcs, LocalPcs, BridgePcs, OtherPcs
<1>4. /\ l # "unwind" => l \in StagePcs \ {"nextSaga"}
      /\ l \notin {"setHtml", "extract", "post", "social"}
    BY DEF StagePcs, PublishPcs, LocalPcs, OtherPcs
<1>5. l \in {"reread", "markDone"} => EffectOf(wk[w].paper, wk[w].stage)'
    BY <1>2 DEF Moved, EffectOf, Persisted, IdAssigned, PdsPaper, Bridge
<1> QED BY <1>1, <1>2, <1>3, <1>4, <1>5, MoveEvidence

LEMMA PublishEvidence ==
    ASSUME Inv, Inv', Evidence, NEW w \in Workers,
           \/ PutRecord(w) \/ SetUri(w) \/ SetPublished(w) \/ PublishFails(w)
           \/ LocalPublish(w) \/ LocalFinalize(w) \/ LocalSocial(w) \/ RecordUnavailable(w)
    PROVE  Evidence'
<1> DEFINE p == wk[w].paper
<1> USE DEF At
<1>1. /\ wk[w].pc \in PublishPcs \cup LocalPcs /\ wk[w].pc \in StagePcs \ AfterPcs
      /\ UNCHANGED <<done, version, openxivId, posts>> /\ jobs' = jobs /\ UNCHANGED httpVars
    BY DEF PutRecord, SetUri, SetPublished, PublishFails, LocalPublish, LocalFinalize,
           LocalSocial, RecordUnavailable, Enqueue, LocalStep, Quiet, paperVars, sagaVars, remote,
           PublishPcs, LocalPcs, StagePcs, AfterPcs
<1>2. /\ wk[w].pc # "idle" /\ p \in Papers /\ EvidenceOf(w) /\ wk[w] \in Running
      /\ wk[w].stage = PdsPaper
      /\ records \in [Papers -> Nat] /\ uri \in [Papers -> Nat]
      /\ queued \in [Papers -> SUBSET {"finalize", "social"}]
    BY <1>1, StageAt, WorkerType DEF Inv, TypeOK, PaperTypes, EffectTypes
<1>3. ASSUME NEW l, NEW n \in Nat, wk' = [wk EXCEPT ![w].pc = l, ![w].wrote = n]
      PROVE  Moved(w, l) /\ wk'[w].wrote = n
    <2>1. /\ wk'[w] = [wk[w] EXCEPT !.pc = l, !.wrote = n]
          /\ \A v \in Workers \ {w} : wk'[v] = wk[v]
        BY <1>3 DEF Inv, TypeOK
    <2> QED BY <1>2, <2>1 DEF Running, Moved
<1>4. ASSUME UNCHANGED uri, records' = records \/ records' = [records EXCEPT ![p] = @ + 1],
             queued' = queued \/ \E q : queued' = [queued EXCEPT ![p] = @ \cup {q}]
      PROVE  Advances /\ Facts'
    <2>1. Advances
        BY <1>1, <1>2, <1>4 DEF Advances
    <2> QED BY <1>1, <1>4, <2>1, FactsKept DEF Evidence, Facts
<1>5. CASE PutRecord(w)
    <2>1. CASE wk[w].uri # 0
        <3>1. /\ Goto(w, "markDone") /\ UNCHANGED <<records, uri, queued>>
              /\ uri[p] # 0
            BY <1>2, <1>5, <2>1 DEF PutRecord, EvidenceOf, paperVars
        <3>2. Moved(w, "markDone")
            BY <1>2, <3>1, GotoMoved
        <3> QED BY <1>1, <1>4, <3>1, <3>2, PublishMoves
    <2>2. CASE wk[w].uri = 0
        <3>1. /\ wk' = [wk EXCEPT ![w].pc = "setUri", ![w].wrote = records[p] + 1]
              /\ records' = [records EXCEPT ![p] = @ + 1] /\ UNCHANGED <<uri, queued>>
            BY <1>5, <2>2 DEF PutRecord, paperVars
        <3>2. records[p] \in Nat /\ records'[p] = records[p] + 1
            BY <1>2, <3>1
        <3>3. Moved(w, "setUri") /\ wk'[w].wrote \in 1..records'[p]
            <4>1. records[p] + 1 \in Nat
                BY <3>2
            <4>2. Moved(w, "setUri") /\ wk'[w].wrote = records[p] + 1
                <5> DEFINE n == records[p] + 1
                <5>1. n \in Nat /\ wk' = [wk EXCEPT ![w].pc = "setUri", ![w].wrote = n]
                    BY <3>1, <4>1
                <5> HIDE DEF n
                <5>2. Moved(w, "setUri") /\ wk'[w].wrote = n
                    BY <1>3, <5>1
                <5> QED BY <5>2 DEF n
            <4>3. records[p] + 1 \in 1..(records[p] + 1)
                BY <3>2
            <4> QED BY <3>2, <4>2, <4>3
        <3> QED BY <1>1, <1>4, <3>1, <3>3, PublishMoves
    <2> QED BY <2>1, <2>2
<1>6. CASE SetUri(w)
    <2>1. /\ wk' = [wk EXCEPT ![w].pc = "setPublished", ![w].wrote = 0]
          /\ uri' = [uri EXCEPT ![p] = wk[w].wrote]
          /\ UNCHANGED <<records, queued>>
          /\ wk[w].wrote \in 1..records[p]
        BY <1>2, <1>6 DEF SetUri, EvidenceOf, remote
    <2>2. Moved(w, "setPublished")
        BY <1>3, <2>1
    <2>3. /\ uri'[p] # 0 /\ uri'[p] <= records[p]
          /\ \A q \in Papers \ {p} : uri'[q] = uri[q]
        BY <1>2, <2>1
    <2>4. Advances
        BY <1>1, <1>2, <2>1, <2>3 DEF Advances
    <2>5. FlagsEarned'
        <3>1. \A q \in Papers : \A k \in done[q] : k \in Nat
            <4>1. \A q \in Papers : done[q] \in SUBSET (1..6)
                BY DEF Inv, TypeOK, PaperTypes, Stages
            <4> QED BY <4>1
        <3> QED BY <1>1, <2>4, <3>1, EffectStays DEF Evidence, FlagsEarned
    <2>6. UriWritten' /\ AnnouncedIsPublished'
        BY <1>1, <2>1, <2>3 DEF Evidence, UriWritten, AnnouncedIsPublished
    <2> QED BY <1>1, <2>1, <2>2, <2>3, <2>4, <2>5, <2>6, PublishMoves DEF Facts
<1>7. CASE SetPublished(w) \/ PublishFails(w) \/ LocalPublish(w)
    <2>1. PICK l \in {"confirm", "localPublish", "localFinalize", "reread"} :
            /\ Goto(w, l)
            /\ l = "confirm" => wk[w].pc = "setPublished"
            /\ l = "reread" => p \notin PlcPapers
        BY <1>7 DEF SetPublished, PublishFails, LocalPublish
    <2>2. Moved(w, l)
        BY <1>2, <2>1, GotoMoved
    <2>3. /\ UNCHANGED <<uri, queued>>
          /\ records' = records \/ records' = [records EXCEPT ![p] = @ + 1]
        BY <1>7 DEF SetPublished, PublishFails, LocalPublish, paperVars, remote
    <2>4. l = "confirm" => uri[p] # 0
        BY <1>2, <2>1 DEF EvidenceOf
    <2> QED BY <1>1, <1>4, <2>1, <2>2, <2>3, <2>4, PublishMoves
<1>8. CASE LocalFinalize(w) \/ LocalSocial(w)
    <2>1. PICK l \in {"localSocial", "unwind"} : Goto(w, l)
        BY <1>8 DEF LocalFinalize, LocalSocial, Enqueue
    <2>2. Moved(w, l)
        BY <1>2, <2>1, GotoMoved
    <2>3. /\ UNCHANGED <<uri, records>>
          /\ queued' = queued \/ \E q : queued' = [queued EXCEPT ![p] = @ \cup {q}]
        BY <1>8 DEF LocalFinalize, LocalSocial, Enqueue, LocalStep, paperVars, remote
    <2> QED BY <1>1, <1>4, <2>2, <2>3, PublishMoves
<1>9. CASE RecordUnavailable(w)
    <2>1. PICK t \in BOOLEAN : wk' = [wk EXCEPT ![w].pc = "unwind", ![w].terminal = t]
        BY <1>9 DEF RecordUnavailable
    <2>2. /\ wk'[w] = [wk[w] EXCEPT !.pc = "unwind", !.terminal = t]
          /\ \A v \in Workers \ {w} : wk'[v] = wk[v]
        BY <2>1 DEF Inv, TypeOK
    <2>3. Moved(w, "unwind")
        BY <1>2, <2>2 DEF Running, Moved
    <2>4. UNCHANGED <<uri, records, queued>>
        BY <1>9 DEF RecordUnavailable, paperVars, remote
    <2> QED BY <1>1, <1>4, <2>3, <2>4, PublishMoves
<1> QED BY <1>5, <1>6, <1>7, <1>8, <1>9

LEMMA NotesEvidence ==
    ASSUME Inv, Inv', Evidence, NEW w \in Workers, PutNotes(w) PROVE Evidence'
<1>1. /\ wk[w].pc = "putNotes" /\ wk[w].pc \in StagePcs \ AfterPcs /\ Goto(w, "reread")
      /\ UNCHANGED <<done, version, openxivId, uri, queued, records, posts>>
      /\ jobs' = jobs /\ UNCHANGED httpVars
    BY DEF PutNotes, At, StagePcs, OtherPcs, AfterPcs, Quiet, paperVars, sagaVars
<1>2. wk[w].pc # "idle" /\ wk[w].stage = PdsNotes
    BY <1>1, StageAt
<1>3. Moved(w, "reread")
    BY <1>1, <1>2, GotoMoved
<1>4. Advances /\ Facts'
    BY <1>1, SameRowsAdvance, FactsKept DEF Evidence, Facts
<1>5. EffectOf(wk[w].paper, wk[w].stage)'
    BY <1>2, <1>3 DEF Moved, EffectOf, Persisted, IdAssigned, PdsPaper, PdsNotes, Bridge
<1>6. "reread" \in StagePcs /\ "reread" \in AfterPcs
    BY DEF StagePcs, OtherPcs, AfterPcs
<1> QED BY <1>1, <1>2, <1>3, <1>4, <1>5, <1>6, MoveEvidence

\* A move of the bridge stage, which ends well with both jobs queued.
LEMMA BridgeMoves ==
    ASSUME Inv, Inv', Evidence, Advances, Facts', NEW w \in Workers,
           wk[w].pc \in BridgePcs \cup {"readVersion", "finalize", "social"},
           NEW l \in BridgePcs \cup {"finalize", "social", "reread"},
           Goto(w, l), jobs' = jobs, UNCHANGED httpVars,
           l = "post" => wk[w].uri # 0,
           l = "social" => "finalize" \in queued'[wk[w].paper],
           l = "reread" => queued'[wk[w].paper] = {"finalize", "social"}
    PROVE  Evidence'
<1>1. wk[w].pc \in StagePcs \ AfterPcs
    BY DEF BridgePcs, StagePcs, OtherPcs, AfterPcs
<1>2. wk[w].pc # "idle" /\ wk[w].paper \in Papers /\ wk[w].stage = Bridge
    BY <1>1, StageAt
<1>3. l \in StagePcs \ AfterPcs => l \in PlacesOf(wk[w].stage)
    <2>1. PlacesOf(wk[w].stage) = BridgePcs \cup {"readVersion", "finalize", "social"}
        BY <1>2 DEF PlacesOf, Persisted, IdAssigned, PdsPaper, PdsNotes, Bridge
    <2> QED BY <2>1 DEF AfterPcs
<1>4. /\ l \in StagePcs \ {"nextSaga"}
      /\ l \notin {"setHtml", "extract", "setUri", "setPublished", "confirm", "markDone"}
    BY DEF StagePcs, BridgePcs, OtherPcs
<1>5. Moved(w, l)
    BY <1>2, GotoMoved
<1>6. l = "reread" => EffectOf(wk[w].paper, wk[w].stage)'
    BY <1>2, <1>5 DEF Moved, EffectOf, Persisted, IdAssigned, PdsPaper, Bridge
<1> QED BY <1>1, <1>2, <1>3, <1>4, <1>5, <1>6, MoveEvidence

\* In the bridge stage the version and the id are there.
LEMMA BridgeEvidence ==
    ASSUME Inv, Inv', Evidence, NEW w \in Workers, BridgeStep(w) PROVE Evidence'
<1> DEFINE p == wk[w].paper
<1> USE DEF At
<1>1. /\ wk[w].pc \in BridgePcs \cup {"readVersion", "finalize", "social"}
      /\ UNCHANGED <<done, openxivId, uri, records>> /\ jobs' = jobs /\ UNCHANGED httpVars
    BY DEF BridgeStep, ReadVersion, Post, SetBridgeResult, BridgeFails, FinalizeJob, SocialJob,
           Enqueue, LocalStep, Quiet, paperVars, sagaVars, remote, BridgePcs
<1>2. wk[w].pc \in StagePcs \ AfterPcs
    BY <1>1 DEF BridgePcs, StagePcs, OtherPcs, AfterPcs
<1>3. /\ wk[w].pc # "idle" /\ p \in Papers /\ EvidenceOf(w)
      /\ 1..(Bridge - 1) \subseteq done[p]
    BY <1>1, <1>2, StageAt
<1>4. /\ records \in [Papers -> Nat] /\ posts \in [Papers -> Nat] /\ uri \in [Papers -> Nat]
      /\ queued \in [Papers -> SUBSET {"finalize", "social"}]
      /\ version \in [Papers -> Version]
    BY DEF Inv, TypeOK, PaperTypes, EffectTypes
<1>5. version[p].key # "none" /\ openxivId[p] # 0
    <2>1. Persisted \in done[p] /\ IdAssigned \in done[p]
        BY <1>3 DEF Persisted, IdAssigned, Bridge
    <2> QED BY <1>3, <2>1 DEF Evidence, FlagsEarned, EffectOf, Persisted, IdAssigned
<1>6. ASSUME UNCHANGED <<version, posts>>,
             queued' = queued \/ \E q : queued' = [queued EXCEPT ![p] = @ \cup {q}]
      PROVE  Advances /\ Facts'
    <2>1. Advances
        BY <1>1, <1>3, <1>4, <1>6 DEF Advances
    <2> QED BY <1>1, <1>6, <2>1, FactsKept DEF Evidence, Facts
<1>7. CASE ReadVersion(w)
    <2>1. PICK l \in {"finalize", "post", "setSkipped"} :
            Goto(w, l) /\ (l = "post" => wk[w].uri # 0)
        BY <1>5, <1>7 DEF ReadVersion
    <2>2. l \in BridgePcs \cup {"finalize", "social", "reread"}
        BY DEF BridgePcs
    <2>3. UNCHANGED <<version, posts, queued>>
        BY <1>7 DEF ReadVersion, LocalStep, remote
    <2> QED BY <1>1, <1>6, <2>1, <2>2, <2>3, BridgeMoves
<1>8. CASE Post(w) \/ BridgeFails(w)
    <2>1. PICK l \in {"setPosted", "setFailed", "finalize"} : Goto(w, l)
        BY <1>8 DEF Post, BridgeFails
    <2>2. l \in BridgePcs \cup {"finalize", "social", "reread"}
        BY DEF BridgePcs
    <2>3. UNCHANGED <<version, queued>>
        BY <1>8 DEF Post, BridgeFails
    <2>4. CASE posts' = posts
        BY <1>1, <1>6, <2>1, <2>2, <2>3, <2>4, BridgeMoves
    <2>5. CASE wk[w].pc = "post" /\ posts' = [posts EXCEPT ![p] = @ + 1]
        <3>1. uri[p] # 0
            BY <1>3, <2>5 DEF EvidenceOf
        <3>2. Advances
            BY <1>1, <2>3, SameRowsAdvance
        <3>3. FlagsEarned' /\ UriWritten'
            BY <1>1, <2>3 DEF Evidence, FlagsEarned, UriWritten, EffectOf
        <3>4. AnnouncedIsPublished'
            <4>1. \A q \in Papers \ {p} : posts'[q] = posts[q]
                BY <1>3, <1>4, <2>5
            <4> QED BY <1>1, <1>3, <1>5, <3>1, <4>1
                    DEF Evidence, AnnouncedIsPublished, UriWritten
        <3> QED BY <1>1, <2>1, <2>2, <3>2, <3>3, <3>4, BridgeMoves DEF Facts
    <2> QED BY <1>8, <2>4, <2>5 DEF Post, BridgeFails
<1>9. CASE SetBridgeResult(w)
    <2>1. /\ Goto(w, "finalize") /\ UNCHANGED <<queued, posts>>
          /\ version' = [version EXCEPT ![p].bridge = BridgeResult(w)]
        BY <1>9 DEF SetBridgeResult, remote
    <2>2. /\ version'[p] = [version[p] EXCEPT !.bridge = BridgeResult(w)]
          /\ \A q \in Papers \ {p} : version'[q] = version[q]
        BY <1>3, <1>4, <2>1
    <2>3. version'[p].key = version[p].key /\ version'[p].html = version[p].html
        BY <1>3, <1>4, <2>2 DEF Version
    <2>4. Advances
        BY <1>1, <1>4, <2>1, <2>2, <2>3 DEF Advances
    <2>5. Facts'
        BY <1>1, <2>1, <2>4, FactsKept DEF Evidence, Facts
    <2> QED BY <1>1, <2>1, <2>4, <2>5, BridgeMoves
<1>10. CASE FinalizeJob(w)
    <2>1. Goto(w, "social") /\ queued' = [queued EXCEPT ![p] = @ \cup {"finalize"}]
          /\ UNCHANGED <<version, posts>>
        BY <1>10 DEF FinalizeJob, Enqueue, remote
    <2>2. "finalize" \in queued'[p]
        BY <1>3, <1>4, <2>1
    <2> QED BY <1>1, <1>6, <2>1, <2>2, BridgeMoves
<1>11. CASE SocialJob(w)
    <2>1. Goto(w, "reread") /\ queued' = [queued EXCEPT ![p] = @ \cup {"social"}]
          /\ UNCHANGED <<version, posts>> /\ "finalize" \in queued[p]
        BY <1>3, <1>11 DEF SocialJob, Enqueue, remote, EvidenceOf
    <2>2. queued'[p] = {"finalize", "social"}
        BY <1>3, <1>4, <2>1
    <2> QED BY <1>1, <1>6, <2>1, <2>2, BridgeMoves
<1> QED BY <1>7, <1>8, <1>9, <1>10, <1>11 DEF BridgeStep

LEMMA FailEvidence ==
    ASSUME Inv, Inv', Evidence, NEW w \in Workers, StageFails(w) \/ SummaryFails(w) \/ Unwind(w)
    PROVE  Evidence'
<1> USE DEF At
<1>1. wk[w].pc # "idle"
    BY DEF StageFails, StageMayFail, OtherMayFail, SummaryFails, Unwind, StagePcs, CompilePcs,
           PublishPcs, LocalPcs, BridgePcs, OtherPcs
<1>2. wk[w] \in Running
    BY <1>1, WorkerType DEF Inv, TypeOK
<1>3. Moved(w, "unwind")
    <2>1. CASE StageFails(w)
        BY <1>1, <2>1, GotoMoved DEF StageFails
    <2>2. CASE SummaryFails(w)
        <3>1. /\ wk'[w] = [wk[w] EXCEPT !.pc = "unwind", !.stack = {}]
              /\ \A v \in Workers \ {w} : wk'[v] = wk[v]
            BY <2>2 DEF SummaryFails, Inv, TypeOK
        <3> QED BY <1>2, <3>1 DEF Running, Moved
    <2>3. CASE Unwind(w)
        <3>1. PICK k \in wk[w].stack :
                \/ wk' = [wk EXCEPT ![w].stack = wk[w].stack \ {k}]
                \/ wk' = [wk EXCEPT ![w].stack = wk[w].stack \ {k}, ![w].terminal = FALSE]
            BY <2>3 DEF Unwind, Inv, TypeOK
        <3>2. /\ \/ wk'[w] = [wk[w] EXCEPT !.stack = wk[w].stack \ {k}]
                 \/ wk'[w] = [wk[w] EXCEPT !.stack = wk[w].stack \ {k}, !.terminal = FALSE]
              /\ \A v \in Workers \ {w} : wk'[v] = wk[v]
            BY <3>1 DEF Inv, TypeOK
        <3>3. wk[w].pc = "unwind" BY <2>3 DEF Unwind
        <3> QED BY <1>2, <3>2, <3>3 DEF Running, Moved
    <2> QED BY <2>1, <2>2, <2>3
<1>4. /\ UNCHANGED <<done, version, openxivId, uri, queued, records, posts>>
      /\ jobs' = jobs /\ UNCHANGED httpVars
    BY DEF StageFails, SummaryFails, Unwind, Quiet, paperVars, sagaVars, remote
<1>5. Advances /\ Facts'
    BY <1>4, SameRowsAdvance, FactsKept DEF Evidence, Facts
<1> QED BY <1>1, <1>3, <1>4, <1>5, MoveEvidence

-----------------------------------------------------------------------------
(* Jobs that start and end, and the handlers. *)

\* The queue changes: an accept job that appears is approved, one that
\* completes has every flag.
LEMMA QueueEvidence ==
    ASSUME Inv, Inv', Evidence, UNCHANGED <<done, version, openxivId, uri, queued, records, posts>>,
           \A v \in Workers : wk'[v] = wk[v] \/ JobEvidence(v)',
           \A p \in Papers :
                /\ jobs'[p][Accept].state # "none"
                    => jobs[p][Accept].state # "none" \/ Approved \in done[p]
                /\ jobs'[p][Accept].state = "completed"
                    => jobs[p][Accept].state = "completed" \/ done[p] = Stages,
           \A m \in Decisions :
                mod'[m].pc \in {"rescinding", "enqueueing"} => Approved \in done[mod'[m].paper]
    PROVE  Evidence'
<1>1. Advances /\ Facts'
    BY SameRowsAdvance, FactsKept DEF Evidence, Facts
<1>2. \A v \in Workers : JobEvidence(v)'
    BY <1>1, JobKept DEF Evidence
<1>3. AcceptsApproved' /\ AcceptCompletes'
    BY DEF Evidence, AcceptsApproved, AcceptCompletes
<1> QED BY <1>1, <1>2, <1>3 DEF Evidence, Facts

LEMMA EndJobEvidence ==
    ASSUME Inv, Inv', Evidence, NEW w \in Workers, wk[w].pc # "idle", NEW r, EndJob(w, r),
           r.state = "completed" => wk[w].pc = "summary"
    PROVE  Evidence'
<1> DEFINE p == wk[w].paper
           j == wk[w].job
<1>1. /\ p \in Papers /\ j \in JobNames /\ Accept \in JobNames
      /\ jobs \in [Papers -> [JobNames -> Job]] /\ jobs[p][j].state = "active"
    BY Here DEF JobNames, Inv, TypeOK, WorkerInv, JobOf
<1>2. /\ wk'[w] = Idle /\ \A v \in Workers \ {w} : wk'[v] = wk[v]
      /\ UNCHANGED <<done, version, openxivId, uri, queued, records, posts, mod>>
      /\ jobs' = [jobs EXCEPT ![p][j] = r]
    BY DEF EndJob, paperVars, sagaVars, remote, httpVars, Inv, TypeOK
<1>3. JobEvidence(w)'
    BY <1>2 DEF JobEvidence, Idle
<1>4. j = Accept => Approved \in done[p] /\ (wk[w].pc = "summary" => done[p] = Stages)
    <2> SUFFICES ASSUME j = Accept
                 PROVE  Approved \in done[p] /\ (wk[w].pc = "summary" => done[p] = Stages)
        OBVIOUS
    <2>1. Approved \in done[p]
        BY <1>1 DEF Evidence, AcceptsApproved
    <2>2. ASSUME wk[w].pc = "summary" PROVE done[p] = Stages
        <3>1. wk[w].stage = Finished /\ 1..(wk[w].stage - 1) \subseteq done[p]
            BY <2>2 DEF Evidence, JobEvidence, AcceptOf, InOrder
        <3>2. 1..6 \subseteq done[p] /\ done[p] \subseteq Stages
            BY <1>1, <3>1 DEF Finished, Inv, TypeOK, PaperTypes
        <3> QED BY <3>2 DEF Stages
    <2> QED BY <2>1, <2>2
<1>5. \A q \in Papers : jobs'[q][Accept] = jobs[q][Accept] \/ (q = p /\ j = Accept)
    BY <1>1, <1>2
<1>6. j = Accept => jobs'[p][Accept] = r
    BY <1>1, <1>2
<1>7. \A q \in Papers :
        /\ jobs'[q][Accept].state # "none"
            => jobs[q][Accept].state # "none" \/ Approved \in done[q]
        /\ jobs'[q][Accept].state = "completed"
            => jobs[q][Accept].state = "completed" \/ done[q] = Stages
    BY <1>4, <1>5, <1>6
<1>8. \A m \in Decisions :
        mod'[m].pc \in {"rescinding", "enqueueing"} => Approved \in done[mod'[m].paper]
    BY <1>2 DEF Evidence, AcceptsApproved
<1> QED BY <1>2, <1>3, <1>7, <1>8, QueueEvidence

LEMMA JobEndsEvidence ==
    ASSUME Inv, Inv', Evidence, NEW w \in Workers, CompleteJob(w) \/ FailJob(w) \/ Crash(w)
    PROVE  Evidence'
<1> USE DEF At
<1>1. wk[w].pc # "idle"
    BY DEF CompleteJob, FailJob, Crash
<1>2. JobOf(w) \in Job
    BY <1>1, Here
<1>3. CASE CompleteJob(w)
    BY <1>1, <1>3, EndJobEvidence DEF CompleteJob
<1>4. CASE FailJob(w)
    <2> DEFINE st == IF wk[w].terminal \/ JobOf(w).attempts + 1 >= MaxAttempts
                     THEN "failed" ELSE "waiting"
               r  == [JobOf(w) EXCEPT !.attempts = @ + 1, !.state = st]
    <2>1. EndJob(w, r)
        BY <1>4 DEF FailJob
    <2>2. r.state # "completed"
        BY <1>2 DEF Job
    <2> QED BY <1>1, <2>1, <2>2, EndJobEvidence
<1>5. CASE Crash(w)
    <2> DEFINE r == IF JobOf(w).stalls < MaxStalls
                    THEN [JobOf(w) EXCEPT !.state = "waiting", !.stalls = @ + 1]
                    ELSE [JobOf(w) EXCEPT !.state = "failed"]
    <2>1. EndJob(w, r)
        BY <1>5 DEF Crash
    <2>2. r.state # "completed"
        BY <1>2 DEF Job
    <2> QED BY <1>1, <2>1, <2>2, EndJobEvidence
<1> QED BY <1>3, <1>4, <1>5

LEMMA TakeEvidence ==
    ASSUME Inv, Inv', Evidence, NEW w \in Workers, NEW p \in Papers, NEW j \in JobNames,
           Take(w, p, j)
    PROVE  Evidence'
<1>1. /\ UNCHANGED <<done, version, openxivId, uri, queued, records, posts, mod>>
      /\ jobs' = [jobs EXCEPT ![p][j].state = "active"] /\ jobs[p][j].state = "waiting"
      /\ jobs \in [Papers -> [JobNames -> Job]] /\ Accept \in JobNames
    BY DEF Take, paperVars, sagaVars, remote, httpVars, Inv, TypeOK, JobNames
<1>2. /\ \A v \in Workers \ {w} : wk'[v] = wk[v]
      /\ wk'[w].pc = "loadSaga" /\ wk'[w].id = 0 /\ wk'[w].uri = 0
    BY DEF Take, Inv, TypeOK
<1>3. JobEvidence(w)'
    <2>1. "loadSaga" \notin StagePcs
        BY DEF StagePcs, CompilePcs, PublishPcs, LocalPcs, BridgePcs, OtherPcs
    <2> QED BY <1>2, <2>1 DEF JobEvidence, InOrder, EvidenceOf, AcceptOf
<1>4. \A q \in Papers :
        \/ jobs'[q][Accept] = jobs[q][Accept]
        \/ /\ q = p /\ j = Accept /\ jobs[q][Accept].state # "none"
           /\ jobs'[q][Accept].state = "active"
    <2>1. jobs[p][j] \in Job
        BY <1>1
    <2> QED BY <1>1, <2>1 DEF Job
<1>5. \A m \in Decisions :
        mod'[m].pc \in {"rescinding", "enqueueing"} => Approved \in done[mod'[m].paper]
    BY <1>1 DEF Evidence, AcceptsApproved
<1> QED BY <1>1, <1>2, <1>3, <1>4, <1>5, QueueEvidence

\* What adding a job does to the accept job of a paper.
LEMMA AddedAccepts ==
    ASSUME Inv, NEW p \in Papers, NEW j \in JobNames, NEW k, Add(p, j, k)
    PROVE  \A q \in Papers :
                \/ jobs'[q][Accept] = jobs[q][Accept]
                \/ q = p /\ j = Accept /\ jobs'[q][Accept].state = "waiting"
<1> DEFINE new == [NoJob EXCEPT !.state = "waiting", !.key = k]
           r   == IF jobs[p][j].state \in {"none", "requested"} THEN new ELSE jobs[p][j]
<1>1. /\ jobs \in [Papers -> [JobNames -> Job]] /\ Accept \in JobNames
      /\ jobs' = [jobs EXCEPT ![p][j] = r]
    BY DEF Add, Inv, TypeOK, JobNames
<1>2. r = jobs[p][j] \/ r.state = "waiting"
    <2>1. new.state = "waiting"
        BY DEF NoJob
    <2> HIDE DEF new
    <2> QED BY <2>1
<1> HIDE DEF r
<1> QED BY <1>1, <1>2

\* Submissions, retries and rescinded refusals leave the accept jobs alone.
LEMMA SubmitEvidence ==
    ASSUME Inv, Inv', Evidence, NEW p \in Papers,
           (SubmitStep(p) \/ Rescind(p)) \/ \E r \in Retries : RetryStep(p, r)
    PROVE  Evidence'
<1>1. /\ UNCHANGED <<done, version, openxivId, uri, queued, records, posts>>
      /\ wk' = wk /\ mod' = mod
    BY DEF SubmitStep, CreatePaper, StoreSource, EnqueueSubmit, AbandonSubmit, Rescind, RetryStep,
           RetryRead, RetryEnqueue, EditRepublish, paperVars, sagaVars, remote, httpVars
<1>2. \A q \in Papers : jobs'[q][Accept] = jobs[q][Accept]
    <2>1. Submit \in JobNames /\ Submit # Accept /\ Accept \in JobNames
          /\ jobs \in [Papers -> [JobNames -> Job]]
        BY SagaAssumption DEF JobNames, Inv, TypeOK
    <2>2. CASE SubmitStep(p) \/ Rescind(p)
        <3>1. jobs' = jobs \/ \E k : Add(p, Submit, k)
            <4>1. CASE EnqueueSubmit(p)
                BY <4>1 DEF EnqueueSubmit
            <4>2. CASE CreatePaper(p) \/ StoreSource(p) \/ AbandonSubmit(p) \/ Rescind(p)
                BY <4>2 DEF CreatePaper, StoreSource, AbandonSubmit, Rescind
            <4> QED BY <2>2, <4>1, <4>2 DEF SubmitStep
        <3> QED BY <2>1, <3>1, AddedAccepts
    <2>3. CASE \E r \in Retries : RetryStep(p, r)
        <3>1. PICK r \in Retries : RetryStep(p, r)
            BY <2>3
        <3>2. r \in JobNames /\ r # Accept
            BY SagaAssumption DEF JobNames
        <3>3. CASE RetryEnqueue(p, r)
            BY <3>2, <3>3, AddedAccepts DEF RetryEnqueue
        <3>4. CASE RetryRead(p, r)
            <4>1. \E k : jobs' = [jobs EXCEPT ![p][r].state = "requested", ![p][r].key = k]
                BY <3>4 DEF RetryRead
            <4> QED BY <2>1, <3>2, <4>1
        <3>5. CASE EditRepublish(p, r)
            BY <2>1, <3>2, <3>5 DEF EditRepublish
        <3> QED BY <3>1, <3>3, <3>4, <3>5 DEF RetryStep
    <2> QED BY <2>2, <2>3
<1>3. \A m \in Decisions :
        mod'[m].pc \in {"rescinding", "enqueueing"} => Approved \in done[mod'[m].paper]
    BY <1>1 DEF Evidence, AcceptsApproved
<1> QED BY <1>1, <1>2, <1>3, QueueEvidence

\* The approval is written before the request rescinds, enqueues and answers.
LEMMA ModerationEvidence ==
    ASSUME Inv, Inv', Evidence, NEW m \in Decisions, AcceptStep(m) \/ RefuseStep(m)
    PROVE  Evidence'
<1> DEFINE p == mod[m].paper
<1> USE DEF InMod
<1>1. /\ UNCHANGED <<version, openxivId, uri, queued, records, posts>> /\ wk' = wk
    BY DEF AcceptStep, AcceptBegin, AcceptCheck, AcceptMark, AcceptRescind, AcceptEnqueue,
           RefuseStep, RefuseStatus, ModerationFails, Refuse, paperVars, remote
<1>2. mod \in [Decisions -> {Idle, Answered} \cup Moderating]
    BY DEF Inv, TypeOK, RequestTypes
<1>3. \A n \in Decisions :
        mod[n].pc \in {"rescinding", "enqueueing"} => Approved \in done[mod[n].paper]
    BY DEF Evidence, AcceptsApproved
<1>4. CASE AcceptMark(m)
    <2>1. mod[m].pc = "marking" /\ p \in Papers
        BY <1>4, ModeratorType DEF AcceptMark
    <2>2. /\ done' = [done EXCEPT ![p] = done[p] \cup {Approved}] /\ jobs' = jobs
          /\ mod' = [mod EXCEPT ![m].pc = "rescinding"]
        BY <1>4 DEF AcceptMark
    <2>3. done'[p] = done[p] \cup {Approved} /\ \A q \in Papers \ {p} : done'[q] = done[q]
        BY <2>1, <2>2 DEF Inv, TypeOK, PaperTypes
    <2>4. Advances
        <3>1. \A q \in Papers : done[q] \subseteq done'[q]
            BY <2>3
        <3>2. records \in [Papers -> Nat]
            BY DEF Inv, TypeOK, EffectTypes
        <3> QED BY <1>1, <3>1, <3>2 DEF Advances
    <2>5. FlagsEarned'
        <3> SUFFICES ASSUME NEW q \in Papers, NEW k \in done'[q]
                     PROVE  EffectOf(q, k)' /\ (k # Approved => 1..(k - 1) \subseteq done'[q])
            BY DEF FlagsEarned
        <3>1. CASE k \in done[q]
            <4>1. EffectOf(q, k) /\ (k # Approved => 1..(k - 1) \subseteq done[q])
                BY <3>1 DEF Evidence, FlagsEarned
            <4>2. k \in Nat
                <5>1. done[q] \in SUBSET (1..6)
                    BY DEF Inv, TypeOK, PaperTypes, Stages
                <5> QED BY <3>1, <5>1
            <4> QED BY <2>4, <4>1, <4>2, EffectStays DEF Advances
        <3>2. CASE k = Approved
            BY <3>2 DEF EffectOf, Approved, Persisted, IdAssigned, PdsPaper, Bridge
        <3> QED BY <2>3, <3>1, <3>2
    <2>6. UriWritten' /\ AnnouncedIsPublished'
        BY <1>1 DEF Evidence, UriWritten, AnnouncedIsPublished
    <2>7. AcceptCompletes'
        BY <2>2, <2>4 DEF Evidence, AcceptCompletes, Advances, Inv, TypeOK, PaperTypes
    <2>8. AcceptsApproved'
        <3>1. \A q \in Papers : jobs'[q][Accept].state # "none" => Approved \in done'[q]
            BY <2>2, <2>4 DEF Evidence, AcceptsApproved, Advances
        <3>2. /\ mod'[m].paper = p
              /\ \A n \in Decisions \ {m} : mod'[n] = mod[n]
            BY <2>1, <2>2, ModeratorMoves
        <3>3. ASSUME NEW n \in Decisions, mod'[n].pc \in {"rescinding", "enqueueing"}
              PROVE  Approved \in done'[mod'[n].paper]
            <4>1. CASE n = m
                BY <2>3, <3>2, <4>1
            <4>2. CASE n # m
                <5>1. mod'[n] = mod[n] /\ mod[n].paper \in Papers
                    BY <3>2, <3>3, <4>2, ModeratorType
                <5> QED BY <1>3, <2>4, <3>3, <5>1 DEF Advances
            <4> QED BY <4>1, <4>2
        <3> QED BY <3>1, <3>3 DEF AcceptsApproved
    <2>9. \A v \in Workers : JobEvidence(v)'
        BY <1>1, <2>4, JobKept DEF Evidence
    <2> QED BY <2>5, <2>6, <2>7, <2>8, <2>9 DEF Evidence
<1>5. CASE AcceptEnqueue(m)
    <2>1. mod[m].pc = "enqueueing" /\ p \in Papers /\ Accept \in JobNames
        BY <1>5, ModeratorType DEF AcceptEnqueue, JobNames
    <2>2. /\ UNCHANGED done /\ Add(p, Accept, version[p].key)
          /\ mod' = [mod EXCEPT ![m] = Answered]
        BY <1>5 DEF AcceptEnqueue, sagaVars
    <2>3. \A n \in Decisions : mod'[n] = Answered \/ mod'[n] = mod[n]
        BY <1>2, <2>2
    <2>4. \A n \in Decisions :
            mod'[n].pc \in {"rescinding", "enqueueing"} => Approved \in done[mod'[n].paper]
        BY <1>3, <2>3 DEF Answered
    <2>5. \A q \in Papers :
            \/ jobs'[q][Accept] = jobs[q][Accept]
            \/ q = p /\ jobs'[q][Accept].state = "waiting"
        BY <2>1, <2>2, AddedAccepts
    <2>6. Approved \in done[p]
        BY <1>3, <2>1
    <2> QED BY <1>1, <2>2, <2>4, <2>5, <2>6, QueueEvidence
<1>6. CASE ~AcceptMark(m) /\ ~AcceptEnqueue(m)
    <2>1. UNCHANGED done /\ jobs' = jobs
        BY <1>6 DEF AcceptStep, AcceptBegin, AcceptCheck, AcceptRescind,
               RefuseStep, RefuseStatus, ModerationFails, Refuse, sagaVars
    <2>2. ASSUME NEW n \in Decisions, mod'[n].pc \in {"rescinding", "enqueueing"}
          PROVE  /\ mod[n].pc \in {"rescinding", "enqueueing"}
                 /\ mod'[n].paper = mod[n].paper
        <3>1. CASE \/ \E q \in Papers : AcceptBegin(m, q) \/ Refuse(m, q)
                   \/ RefuseStatus(m) \/ ModerationFails(m)
            <4>1. /\ mod'[m].pc \in {"accepting", "refusing", "answered"}
                  /\ \A v \in Decisions \ {m} : mod'[v] = mod[v]
                <5>1. CASE \E q \in Papers : AcceptBegin(m, q)
                    BY <1>2, <5>1 DEF AcceptBegin
                <5>2. CASE \E q \in Papers : Refuse(m, q)
                    BY <1>2, <5>2 DEF Refuse
                <5>3. CASE RefuseStatus(m) \/ ModerationFails(m)
                    BY <1>2, <5>3 DEF RefuseStatus, ModerationFails, Answered
                <5> QED BY <3>1, <5>1, <5>2, <5>3
            <4> QED BY <2>2, <4>1
        <3>2. CASE AcceptCheck(m)
            <4>1. mod[m].pc = "accepting"
                BY <3>2 DEF AcceptCheck
            <4>2. CASE mod' = [mod EXCEPT ![m].pc = "marking"]
                <5>1. mod'[m].pc = "marking" /\ \A v \in Decisions \ {m} : mod'[v] = mod[v]
                    BY <4>1, <4>2, ModeratorMoves
                <5> QED BY <2>2, <5>1
            <4>3. CASE mod' = [mod EXCEPT ![m] = Answered]
                <5>1. mod'[m].pc = "answered" /\ \A v \in Decisions \ {m} : mod'[v] = mod[v]
                    BY <1>2, <4>3 DEF Answered
                <5> QED BY <2>2, <5>1
            <4> QED BY <3>2, <4>2, <4>3 DEF AcceptCheck
        <3>3. CASE AcceptRescind(m)
            <4>1. mod[m].pc = "rescinding" /\ mod' = [mod EXCEPT ![m].pc = "enqueueing"]
                BY <3>3 DEF AcceptRescind
            <4>2. mod'[m].paper = mod[m].paper /\ \A v \in Decisions \ {m} : mod'[v] = mod[v]
                BY <4>1, ModeratorMoves
            <4> QED BY <2>2, <4>1, <4>2
        <3> QED BY <1>6, <3>1, <3>2, <3>3 DEF AcceptStep, RefuseStep
    <2>3. \A n \in Decisions :
            mod'[n].pc \in {"rescinding", "enqueueing"} => Approved \in done[mod'[n].paper]
        BY <1>3, <2>2
    <2> QED BY <1>1, <2>1, <2>3, QueueEvidence
<1> QED BY <1>4, <1>5, <1>6

-----------------------------------------------------------------------------
LEMMA WorkerEvidence ==
    ASSUME Inv, Inv', Evidence, NEW w \in Workers, WorkerStep(w) \/ Crash(w) PROVE Evidence'
<1>1. CASE \E p \in Papers, j \in JobNames : Take(w, p, j)
    BY <1>1, TakeEvidence
<1>2. CASE FlowStep(w)
    BY <1>2, FlowEvidence, HoldEvidence, MarkEvidence, FailEvidence DEF FlowStep
<1>3. CASE CompileStep(w) \/ Allocate(w) \/ PutNotes(w) \/ BridgeStep(w)
    BY <1>3, CompileEvidence, AllocateEvidence, NotesEvidence, BridgeEvidence
<1>4. CASE PublishStep(w)
    BY <1>4, PublishEvidence, FlowEvidence DEF PublishStep
<1>5. CASE CompleteJob(w) \/ FailJob(w) \/ Crash(w)
    BY <1>5, JobEndsEvidence
<1> QED BY <1>1, <1>2, <1>3, <1>4, <1>5 DEF WorkerStep

LEMMA InductiveEvidence == Inv /\ Evidence /\ [Next]_vars => Evidence'
<1> SUFFICES ASSUME Inv, Evidence, [Next]_vars PROVE Evidence'
    OBVIOUS
<1>1. Inv'
    BY InductiveInv
<1>2. ASSUME NEW p \in Papers, SubmitStep(p) \/ Rescind(p) PROVE Evidence'
    BY <1>1, <1>2, SubmitEvidence
<1>3. ASSUME NEW p \in Papers, NEW r \in Retries, RetryStep(p, r) PROVE Evidence'
    BY <1>1, <1>3, SubmitEvidence
<1>4. ASSUME NEW m \in Decisions, AcceptStep(m) \/ RefuseStep(m) PROVE Evidence'
    BY <1>1, <1>4, ModerationEvidence
<1>5. ASSUME NEW w \in Workers, WorkerStep(w) \/ Crash(w) PROVE Evidence'
    BY <1>1, <1>5, WorkerEvidence
<1>6. CASE UNCHANGED vars
    <2>1. /\ UNCHANGED <<done, version, openxivId, uri, queued, records, posts>>
          /\ jobs' = jobs /\ wk' = wk /\ mod' = mod
        BY <1>6 DEF vars, paperVars, sagaVars, remote, httpVars
    <2>2. \A m \in Decisions :
            mod'[m].pc \in {"rescinding", "enqueueing"} => Approved \in done[mod'[m].paper]
        BY <2>1 DEF Evidence, AcceptsApproved
    <2> QED BY <1>1, <2>1, <2>2, QueueEvidence
<1> QED BY <1>2, <1>3, <1>4, <1>5, <1>6 DEF Next

\* Every flag, snapshot and request has what it stands for behind it, in any
\* interleaving of jobs, retries, moderation and failures.
THEOREM SagaEvidence == Spec => []Evidence
BY InitInv, InductiveInv, InitEvidence, InductiveEvidence, PTL DEF Spec

\* A stage flag means that the effect of the stage is there, and that the
\* stages before it are done, though jobs of one paper overlap with snapshots
\* of different ages (submissions.ts:495-519).
THEOREM FlagsMeanEffects == Spec => []FlagMeansEffect
<1>1. Evidence => FlagMeansEffect
    BY DEF Evidence, FlagsEarned, EffectOf, FlagMeansEffect
<1> QED BY <1>1, SagaEvidence, PTL

\* A post on Bluesky embeds a page that exists: the paper has its record, its
\* id and a uri that names a record which was written.
THEOREM PostsAreBacked == Spec => []AnnouncedIsPublished
<1>1. Evidence => AnnouncedIsPublished
    BY DEF Evidence
<1> QED BY <1>1, SagaEvidence, PTL

\* An accept job is reported completed only when all six stages of its paper
\* are done: it never takes the way out of the hold.
THEOREM AcceptsComplete == Spec => []AcceptCompletes
<1>1. Evidence => AcceptCompletes
    BY DEF Evidence
<1> QED BY <1>1, SagaEvidence, PTL
=============================================================================
