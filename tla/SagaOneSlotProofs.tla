-------------------------- MODULE SagaOneSlotProofs --------------------------
(***************************************************************************)
(* What the saga promises while the compile worker has one slot (the queue's *)
(* default concurrency): a paper keeps its uri, a remote write is repeated   *)
(* only after a failure, and without a failure a finished paper is published.*)
(* With two slots runs of the checker refute each of them.                   *)
(*                                                                           *)
(* With one slot the snapshot of the running job is never stale (InStep), so *)
(* a stage that runs has not been done, and what it is about to write is not *)
(* there yet, or a failure has been paid for it (Paid).                      *)
(***************************************************************************)
EXTENDS SagaEffectsProofs

OneSlot == \A v, w \in Workers : v = w

\* Between a write of the uri, or a failure to write it, and the next read.
UriPcs == {"setPublished", "confirm", "reread"} \cup LocalPcs

\* What the running job knows is what the rows say.
InStep(w) ==
    wk[w].pc # "idle" =>
        /\ wk[w].pc = "loadPaper" =>
            /\ done[wk[w].paper] \subseteq wk[w].saga \cup {Approved}
            /\ PdsPaper \in wk[w].saga => Approved \in wk[w].saga
        /\ wk[w].pc = "hold" => PdsPaper \notin done[wk[w].paper]
        /\ wk[w].pc \in StagePcs \ {"nextSaga"} => wk[w].stage \notin done[wk[w].paper]
        /\ wk[w].pc \in StagePcs \ UriPcs => wk[w].uri = uri[wk[w].paper]
        /\ wk[w].pc = "setUri" => wk[w].uri = 0
        /\ wk[w].pc \in BridgePcs => version[wk[w].paper].bridge # "posted"

\* What keeps a write from being repeated.
RecordNamed(p) ==
    uri[p] # 0 \/ \E w \in Workers : wk[w].pc = "setUri" /\ wk[w].paper = p
PostNoted(p) ==
    version[p].bridge = "posted" \/ \E w \in Workers : wk[w].pc = "setPosted" /\ wk[w].paper = p
NotesMarked(p) ==
    \/ PdsNotes \in done[p]
    \/ \E w \in Workers :
            wk[w].pc \in {"reread", "markDone"} /\ wk[w].stage = PdsNotes /\ wk[w].paper = p

\* One write is free, once it cannot be repeated; a failure pays for another.
Spent(n, kept) == n <= faults + 1 /\ (n = faults + 1 => kept)

Paid ==
    \A p \in Papers :
        /\ Spent(records[p], RecordNamed(p))
        /\ Spent(posts[p], PostNoted(p))
        /\ Spent(notes[p], NotesMarked(p))

Alone == Paid /\ \A w \in Workers : InStep(w)

-----------------------------------------------------------------------------
\* A paper has no history before its row is made.
Unborn ==
    \A p \in Papers : request[p] = "none" =>
        /\ status[p] = "none" /\ done[p] = {}
        /\ \A j \in JobNames : jobs[p][j].state = "none"
        /\ \A m \in Decisions : mod[m].pc \notin {"idle", "answered"} => mod[m].paper # p

\* The packet of a refusal is written before the status, and stays.
RefusedFirst ==
    \A m \in Decisions : mod[m].pc = "refusing" => refusal[mod[m].paper] # "none"

Publishing(w, p, l) == wk[w].pc \in l /\ wk[w].stage = PdsPaper /\ wk[w].paper = p

\* Without a failure the publish stage is left by its last step only.
Calm ==
    faults = 0 =>
        /\ \A w \in Workers : wk[w].pc \notin LocalPcs
        /\ \A w \in Workers : wk[w].pc = "reread" => wk[w].stage # PdsPaper
        /\ \A p \in Papers : uri[p] # 0 =>
            \/ PdsPaper \in done[p]
            \/ \E w \in Workers : Publishing(w, p, {"setPublished", "confirm", "markDone"})
        /\ \A p \in Papers :
            /\ refusal[p] = "none"
            /\ \/ PdsPaper \in done[p]
               \/ \E w \in Workers : Publishing(w, p, {"confirm", "markDone"})
            => status[p] = "published"

\* The states in which every promise of the single slot is kept.
Solo == Alone /\ Calm

-----------------------------------------------------------------------------
(* What a step has to show. *)

\* What was owed stays owed.
Owed(p) ==
    /\ RecordNamed(p) => RecordNamed(p)'
    /\ PostNoted(p) => PostNoted(p)'
    /\ NotesMarked(p) => NotesMarked(p)'

\* Without a failure a job is only in the places of the code that ends well.
LEMMA PlainCalm ==
    ASSUME OneSlot, Solo, NEW w \in Workers, UNCHANGED <<uri, done, refusal, faults>>,
           faults = 0 => status' = status,
           wk[w].pc \notin {"markDone", "setPublished", "confirm"},
           faults = 0 =>
                /\ wk'[w].pc \notin LocalPcs \cup {"setPublished", "confirm"}
                /\ wk'[w].pc \in {"reread", "markDone"} => wk'[w].stage # PdsPaper
    PROVE  Calm'
<1> SUFFICES ASSUME faults = 0 PROVE Calm'
    BY DEF Calm
<1>1. \A v \in Workers : v = w
    BY DEF OneSlot
<1>2. \A p \in Papers, l \in SUBSET {"setPublished", "confirm", "markDone"} :
        \A v \in Workers : ~Publishing(v, p, l) /\ ~Publishing(v, p, l)'
    BY <1>1 DEF Publishing
<1>3. \A p \in Papers :
        /\ uri[p] # 0 => PdsPaper \in done[p]
        /\ refusal[p] = "none" /\ PdsPaper \in done[p] => status[p] = "published"
    BY <1>2 DEF Solo, Calm
<1> QED BY <1>1, <1>2, <1>3 DEF Calm

\* A step of a job without a failure and without a write.
LEMMA PlainStep ==
    ASSUME OneSlot, Inv, Solo, NEW w \in Workers,
           UNCHANGED <<uri, records, posts, notes, done, refusal, faults>>,
           \A p \in Papers : version'[p].bridge = version[p].bridge,
           faults = 0 => status' = status,
           wk[w].pc \notin {"setUri", "setPosted", "reread", "markDone", "setPublished", "confirm"},
           InStep(w)',
           faults = 0 =>
                /\ wk'[w].pc \notin LocalPcs \cup {"setPublished", "confirm"}
                /\ wk'[w].pc \in {"reread", "markDone"} => wk'[w].stage # PdsPaper
    PROVE  Solo'
<1>1. \A v \in Workers : v = w
    BY DEF OneSlot
<1>2. \A v \in Workers : InStep(v)'
    BY <1>1
<1>3. ASSUME NEW p \in Papers PROVE Owed(p)
    BY <1>1 DEF Owed, RecordNamed, PostNoted, NotesMarked
<1>4. Paid'
    BY <1>3 DEF Solo, Alone, Paid, Spent, Owed
<1> QED BY <1>2, <1>4, PlainCalm DEF Solo, Alone

\* A step of a job that writes, once, what had not been written.
LEMMA WriteStep ==
    ASSUME OneSlot, Inv, Solo, NEW w \in Workers, UNCHANGED faults, InStep(w)', Calm',
           \A p \in Papers :
                /\ \/ records'[p] = records[p] /\ (RecordNamed(p) => RecordNamed(p)')
                   \/ records'[p] = records[p] + 1 /\ ~RecordNamed(p) /\ RecordNamed(p)'
                /\ \/ posts'[p] = posts[p] /\ (PostNoted(p) => PostNoted(p)')
                   \/ posts'[p] = posts[p] + 1 /\ ~PostNoted(p) /\ PostNoted(p)'
                /\ \/ notes'[p] = notes[p] /\ (NotesMarked(p) => NotesMarked(p)')
                   \/ notes'[p] = notes[p] + 1 /\ ~NotesMarked(p) /\ NotesMarked(p)'
    PROVE  Solo'
<1>1. \A v \in Workers : InStep(v)'
    BY DEF OneSlot
<1>2. /\ faults \in Nat
      /\ \A p \in Papers : records[p] \in Nat /\ posts[p] \in Nat /\ notes[p] \in Nat
    BY SagaAssumption DEF Inv, TypeOK, EffectTypes
<1>3. ASSUME NEW n \in Nat, NEW i, NEW kept, NEW kept1, Spent(n, kept),
             (i = n /\ (kept => kept1)) \/ (i = n + 1 /\ ~kept /\ kept1)
      PROVE  i <= faults + 1 /\ (i = faults + 1 => kept1)
    BY <1>2, <1>3 DEF Spent
<1>4. Paid'
    BY <1>2, <1>3 DEF Solo, Alone, Paid, Spent
<1> QED BY <1>1, <1>4 DEF Solo, Alone

\* A failure pays for what may have been written.
LEMMA FaultStep ==
    ASSUME OneSlot, Inv, Solo, Fault, NEW w \in Workers, InStep(w)',
           \A p \in Papers :
                /\ records'[p] = records[p] \/ (records'[p] = records[p] + 1 /\ ~RecordNamed(p))
                /\ posts'[p] = posts[p] \/ (posts'[p] = posts[p] + 1 /\ ~PostNoted(p))
                /\ notes'[p] = notes[p] \/ (notes'[p] = notes[p] + 1 /\ ~NotesMarked(p))
    PROVE  Solo'
<1>1. \A v \in Workers : InStep(v)'
    BY DEF OneSlot
<1>2. /\ faults \in Nat /\ faults' = faults + 1
      /\ \A p \in Papers : records[p] \in Nat /\ posts[p] \in Nat /\ notes[p] \in Nat
    BY SagaAssumption DEF Fault, Inv, TypeOK, EffectTypes
<1>3. ASSUME NEW n \in Nat, NEW i, NEW kept, NEW kept1, Spent(n, kept),
             i = n \/ (i = n + 1 /\ ~kept)
      PROVE  i <= faults' + 1 /\ (i = faults' + 1 => kept1)
    BY <1>2, <1>3 DEF Spent
<1>4. Paid'
    BY <1>2, <1>3 DEF Solo, Alone, Paid, Spent
<1>5. Calm'
    BY <1>2 DEF Calm
<1> QED BY <1>1, <1>4, <1>5 DEF Solo, Alone

\* What a handler may do to the rows of a paper that a job has begun with.
Approves == \A p \in Papers : done'[p] = done[p] \/ done'[p] = done[p] \cup {Approved}

LeavesStatus ==
    \A p \in Papers :
        /\ refusal'[p] = "none"
        /\ PdsPaper \in done[p] \/ \E v \in Workers : wk[v].pc # "idle" /\ wk[v].paper = p
        => refusal[p] = "none" /\ status'[p] = status[p]

\* The handlers approve, refuse and add jobs; the slot does not see them.
LEMMA HandlerStep ==
    ASSUME OneSlot, Inv, Solo, wk' = wk, faults' = faults \/ Fault,
           UNCHANGED <<uri, version, records, posts, notes>>, Approves, LeavesStatus
    PROVE  Solo'
<1>1. PdsPaper # Approved /\ PdsNotes # Approved
    BY DEF PdsPaper, PdsNotes, Approved
<1>2. ASSUME NEW v \in Workers PROVE InStep(v)'
    <2> SUFFICES ASSUME wk[v].pc # "idle" PROVE InStep(v)'
        BY DEF InStep
    <2>1. wk[v].paper \in Papers /\ InStep(v)
        BY Here DEF Solo, Alone
    <2>2. wk[v].pc \in StagePcs => wk[v].stage # Approved
        BY DEF Inv, WorkerInv
    <2> QED BY <1>1, <2>1, <2>2 DEF InStep, Approves
<1>3. \A p \in Papers : Owed(p)
    BY <1>1 DEF Owed, RecordNamed, PostNoted, NotesMarked, Approves
<1>4. Paid'
    <2>1. /\ faults \in Nat
          /\ \A p \in Papers : records[p] \in Nat /\ posts[p] \in Nat /\ notes[p] \in Nat
        BY SagaAssumption DEF Inv, TypeOK, EffectTypes
    <2>2. CASE faults' = faults
        BY <1>3, <2>2 DEF Solo, Alone, Paid, Spent, Owed
    <2>3. CASE faults' = faults + 1
        BY <2>1, <2>3 DEF Solo, Alone, Paid, Spent
    <2> QED BY <2>2, <2>3 DEF Fault
<1>5. Calm'
    <2> SUFFICES ASSUME faults' = 0 PROVE Calm'
        BY DEF Calm
    <2>1. faults = 0
        BY SagaAssumption DEF Fault, Inv, TypeOK
    <2>2. \A p \in Papers, l \in SUBSET {"setPublished", "confirm", "markDone"}, v \in Workers :
            /\ Publishing(v, p, l)' <=> Publishing(v, p, l)
            /\ Publishing(v, p, l) => wk[v].pc # "idle" /\ wk[v].paper = p
        BY DEF Publishing
    <2>3. \A p \in Papers : PdsPaper \in done'[p] <=> PdsPaper \in done[p]
        BY <1>1 DEF Approves
    <2> QED BY <2>1, <2>2, <2>3 DEF Solo, Calm, LeavesStatus
<1> QED BY <1>2, <1>4, <1>5 DEF Solo, Alone

\* A move within a stage, while the uri of the snapshot is the one of the row.
LEMMA MoveInStep ==
    ASSUME Inv, Solo, NEW w \in Workers, NEW l, Moved(w, l),
           wk[w].pc \in StagePcs \ {"nextSaga"},
           UNCHANGED <<uri, done>>,
           l \notin {"idle", "loadPaper", "hold"},
           l \in StagePcs \ UriPcs => wk[w].pc \notin UriPcs,
           l = "setUri" => wk[w].uri = 0,
           l \in BridgePcs => version'[wk[w].paper].bridge # "posted"
    PROVE  InStep(w)'
<1>1. wk[w].pc # "idle" /\ InStep(w)
    BY DEF Solo, Alone, StagePcs, CompilePcs, PublishPcs, LocalPcs, BridgePcs, OtherPcs
<1> QED BY <1>1 DEF InStep, Moved

\* A slot that leaves the stages behind.
LEMMA OutInStep ==
    ASSUME NEW w \in Workers, wk'[w].pc \in {"idle", "unwind", "summary", "loadSaga"}
    PROVE  InStep(w)'
BY DEF InStep, StagePcs, CompilePcs, PublishPcs, LocalPcs, BridgePcs, OtherPcs

-----------------------------------------------------------------------------
(* The steps of a job. *)

\* The stage that runStages enters has not been done.
LEMMA RunStagesSolo ==
    ASSUME OneSlot, Inv, Evidence, Solo, NEW w \in Workers, wk[w].pc \in {"loadPaper", "nextSaga"},
           LocalStep, NEW saga \in SUBSET Stages, NEW from \in 1..Finished, NEW i \in Nat,
           done[wk[w].paper] \subseteq saga \cup {Approved},
           PdsPaper \in saga => Approved \in saga,
           RunStages(w, saga, from, i, uri[wk[w].paper]),
           from > Approved => Approved \in saga
    PROVE  Solo'
<1> DEFINE u == uri[wk[w].paper]
<1>1. PICK k \in from..Finished :
        IsNextStage(saga, from, k) /\ wk' = [wk EXCEPT ![w] = Entered(wk[w], k, i, u)]
    BY DEF RunStages
<1>2. k \in 1..7 /\ k \notin saga
    BY <1>1 DEF Finished, IsNextStage
<1>3. wk[w] \in Running /\ wk[w].paper \in Papers /\ u \in Nat
    BY WorkerType DEF Inv, TypeOK, PaperTypes
<1> DEFINE st == IF k \in {Approved, Finished} THEN wk[w].stack ELSE wk[w].stack \cup {k}
<1>4. wk'[w] = [wk[w] EXCEPT !.pc = StageEntry[k], !.stage = k, !.id = i, !.uri = u,
                            !.saga = {}, !.stack = st]
    BY <1>1 DEF Entered, Inv, TypeOK
<1>5. /\ wk'[w].pc = StageEntry[k] /\ wk'[w].stage = k
      /\ wk'[w].paper = wk[w].paper /\ wk'[w].uri = u
    <2> HIDE DEF st, u
    <2> QED BY <1>3, <1>4 DEF Running
<1>6. /\ StageEntry[k] = "hold" => k = Approved
      /\ StageEntry[k] \in StagePcs \ {"nextSaga"} => k # Approved
      /\ StageEntry[k] \in {"getSource", "hold", "allocate", "putRecord", "putNotes",
                            "readVersion", "summary"}
    BY <1>2
    DEF StageEntry, Finished, Persisted, Approved, IdAssigned, PdsPaper, PdsNotes, Bridge, Stages,
        StagePcs, CompilePcs, PublishPcs, LocalPcs, BridgePcs, OtherPcs
<1>7. /\ UNCHANGED <<uri, records, posts, notes, done, refusal, faults, status, version>>
    BY DEF LocalStep, Quiet, paperVars, sagaVars, remote, httpVars
<1>8. k # Approved => k \notin done[wk[w].paper]
    BY <1>2
<1>9. k = Approved => PdsPaper \notin done[wk[w].paper]
    BY <1>2 DEF PdsPaper, Approved
<1>10. InStep(w)'
    BY <1>5, <1>6, <1>7, <1>8, <1>9 DEF InStep, BridgePcs
<1>11. StageEntry[k] \notin LocalPcs \cup {"setPublished", "confirm", "reread", "markDone"}
    BY <1>6 DEF LocalPcs
<1> QED BY <1>5, <1>7, <1>10, <1>11, PlainStep

LEMMA FlowSolo ==
    ASSUME OneSlot, Inv, Inv', Evidence, Solo, NEW w \in Workers,
           LoadSaga(w) \/ LoadPaper(w) \/ NextSaga(w) \/ Reread(w) \/ Confirm(w)
    PROVE  Solo'
<1> DEFINE p == wk[w].paper
<1> USE DEF At
<1>1. /\ wk[w].pc \in {"loadSaga", "loadPaper", "nextSaga", "reread", "confirm"}
      /\ wk[w].pc # "idle" /\ LocalStep
      /\ UNCHANGED <<uri, records, posts, notes, done, refusal, faults, status, version>>
    BY DEF LoadSaga, LoadPaper, NextSaga, Reread, Confirm, LocalStep, Quiet, paperVars, sagaVars,
           remote, httpVars
<1>2. /\ wk[w] \in Running /\ p \in Papers /\ InStep(w) /\ JobEvidence(w)
      /\ done[p] \in SUBSET Stages /\ uri[p] \in Nat /\ openxivId[p] \in Nat
    BY <1>1, WorkerType DEF Inv, TypeOK, PaperTypes, Solo, Alone, Evidence
<1>3. PdsPaper \in done[p] => Approved \in done[p]
    <2>1. Approved \in 1..(PdsPaper - 1) /\ PdsPaper # Approved
        BY DEF Approved, PdsPaper
    <2> QED BY <1>2, <2>1 DEF Evidence, FlagsEarned
<1>4. CASE LoadSaga(w)
    <2>1. wk'[w] = [wk[w] EXCEPT !.saga = done[p], !.pc = "loadPaper"]
        BY <1>4 DEF LoadSaga, Inv, TypeOK
    <2>2. wk'[w].pc = "loadPaper" /\ wk'[w].saga = done[p] /\ wk'[w].paper = p
        BY <1>2, <2>1 DEF Running
    <2>3. "loadPaper" \notin StagePcs /\ "loadPaper" \notin BridgePcs \cup LocalPcs
        BY DEF StagePcs, CompilePcs, PublishPcs, LocalPcs, BridgePcs, OtherPcs
    <2>4. InStep(w)'
        BY <1>1, <1>3, <2>2, <2>3 DEF InStep
    <2>5. wk[w].pc = "loadSaga"
        BY <1>4 DEF LoadSaga
    <2> QED BY <1>1, <2>2, <2>3, <2>4, <2>5, PlainStep
<1>5. CASE LoadPaper(w)
    <2>1. RunStages(w, wk[w].saga, Persisted, openxivId[p], uri[p]) /\ wk[w].pc = "loadPaper"
        BY <1>5 DEF LoadPaper
    <2>2. /\ wk[w].saga \in SUBSET Stages /\ Persisted \in 1..Finished /\ ~(Persisted > Approved)
        BY <1>2 DEF Running, Persisted, Approved, Finished
    <2>3. /\ done[p] \subseteq wk[w].saga \cup {Approved}
          /\ (PdsPaper \in wk[w].saga => Approved \in wk[w].saga)
        BY <1>2, <2>1 DEF InStep
    <2> QED BY <1>1, <1>2, <2>1, <2>2, <2>3, RunStagesSolo
<1>6. CASE NextSaga(w)
    <2>1. /\ RunStages(w, done[p], wk[w].stage + 1, wk[w].id, wk[w].uri)
          /\ wk[w].pc = "nextSaga"
        BY <1>6 DEF NextSaga
    <2>2. "nextSaga" \in StagePcs /\ "nextSaga" \notin UriPcs
        BY DEF StagePcs, OtherPcs, UriPcs, LocalPcs
    <2>3. wk[w].stage \in 1..6 /\ wk[w].id \in Nat /\ wk[w].uri = uri[p]
        BY <1>1, <1>2, <2>1, <2>2 DEF Inv, WorkerInv, Stages, InStep, Running
    <2>4. wk[w].stage + 1 > Approved => Approved \in done[p]
        <3>1. 1..(wk[w].stage - 1) \subseteq done[p] /\ wk[w].stage \in done[p]
            BY <1>1, <1>2, <2>1, <2>2 DEF JobEvidence, InOrder
        <3>2. wk[w].stage + 1 > Approved =>
                  Approved = wk[w].stage \/ Approved \in 1..(wk[w].stage - 1)
            BY <2>3 DEF Approved
        <3> QED BY <3>1, <3>2
    <2>5. wk[w].stage + 1 \in 1..Finished
        BY <2>3 DEF Finished
    <2>6. wk[w].pc \in {"loadPaper", "nextSaga"} /\ done[p] \subseteq done[p] \cup {Approved}
        BY <2>1
    <2>7. RunStages(w, done[p], wk[w].stage + 1, wk[w].id, uri[p])
        BY <2>1, <2>3
    <2> HIDE DEF Finished
    <2> QED BY <1>1, <1>2, <1>3, <2>3, <2>4, <2>5, <2>6, <2>7, RunStagesSolo
<1>7. CASE Reread(w) \/ Confirm(w)
    <2> DEFINE i == openxivId[p]
               u == uri[p]
    <2>1. wk'[w] = [wk[w] EXCEPT !.id = i, !.uri = u, !.pc = "markDone"]
        BY <1>7 DEF Reread, Confirm, Inv, TypeOK
    <2>2. /\ wk'[w].pc = "markDone" /\ wk'[w].paper = p /\ wk'[w].stage = wk[w].stage
          /\ wk'[w].uri = u
        <3> HIDE DEF i, u
        <3> QED BY <1>2, <2>1 DEF Running
    <2>3. /\ wk[w].pc \in {"reread", "confirm"}
          /\ {"reread", "confirm", "markDone"} \subseteq StagePcs /\ "markDone" \notin BridgePcs
        BY <1>7 DEF Reread, Confirm, StagePcs, PublishPcs, OtherPcs, BridgePcs
    <2>4. InStep(w)'
        BY <1>1, <1>2, <2>2, <2>3 DEF InStep
    <2>5. \A v \in Workers : v = w
        BY DEF OneSlot
    <2>6. \A q \in Papers : Owed(q)
        <3>1. wk[w].pc \notin {"setUri", "setPosted"} /\ wk[w].pc \notin {"markDone"}
            BY <2>3
        <3>2. ASSUME NEW q \in Papers, NotesMarked(q) PROVE NotesMarked(q)'
            BY <1>1, <2>2, <2>5, <3>2 DEF NotesMarked
        <3> QED BY <1>1, <2>5, <3>1, <3>2 DEF Owed, RecordNamed, PostNoted
    <2>7. Paid'
        BY <1>1, <2>6 DEF Solo, Alone, Paid, Spent, Owed
    <2>8. Calm'
        <3> SUFFICES ASSUME faults = 0 PROVE Calm'
            BY <1>1 DEF Calm
        <3>1. \A v \in Workers : wk'[v].pc = "markDone"
            BY <2>2, <2>5
        <3>2. wk[w].pc = "reread" => wk[w].stage # PdsPaper
            BY DEF Solo, Calm
        <3>3. ASSUME NEW q \in Papers
              PROVE  /\ Publishing(w, q, {"setPublished", "confirm", "markDone"})
                            => Publishing(w, q, {"setPublished", "confirm", "markDone"})'
                     /\ Publishing(w, q, {"confirm", "markDone"})'
                            => Publishing(w, q, {"confirm", "markDone"})
            BY <2>2, <2>3, <3>2 DEF Publishing
        <3>4. "markDone" \notin LocalPcs
            BY DEF LocalPcs
        <3>5. \A q \in Papers : uri[q] # 0 =>
                PdsPaper \in done[q] \/ Publishing(w, q, {"setPublished", "confirm", "markDone"})
            BY <2>5 DEF Solo, Calm
        <3>6. \A q \in Papers :
                /\ refusal[q] = "none"
                /\ PdsPaper \in done[q] \/ Publishing(w, q, {"confirm", "markDone"})
                => status[q] = "published"
            BY DEF Solo, Calm
        <3> QED BY <1>1, <2>5, <3>1, <3>3, <3>4, <3>5, <3>6 DEF Calm
    <2> QED BY <2>4, <2>5, <2>7, <2>8 DEF Solo, Alone
<1> QED BY <1>4, <1>5, <1>6, <1>7

LEMMA MarkSolo ==
    ASSUME OneSlot, Inv, Evidence, Solo, NEW w \in Workers, MarkStageDone(w) PROVE Solo'
<1> DEFINE p == wk[w].paper
           k == wk[w].stage
<1>1. /\ wk[w].pc = "markDone" /\ wk[w].pc # "idle" /\ p \in Papers
      /\ done' = [done EXCEPT ![p] = done[p] \cup {k}]
      /\ Goto(w, "nextSaga")
      /\ UNCHANGED <<status, refusal, version, uri, records, posts, notes, faults>>
    BY Here DEF MarkStageDone, At, paperVars, remote, httpVars
<1>2. Moved(w, "nextSaga")
    BY <1>1, GotoMoved
<1>3. done'[p] = done[p] \cup {k} /\ \A q \in Papers \ {p} : done'[q] = done[q]
    BY <1>1 DEF Inv, TypeOK, PaperTypes
<1>4. \A v \in Workers : v = w
    BY DEF OneSlot
<1>5. "markDone" \in StagePcs \ UriPcs /\ "nextSaga" \notin BridgePcs \cup LocalPcs
    BY DEF StagePcs, OtherPcs, UriPcs, LocalPcs, BridgePcs
<1>6. InStep(w)'
    BY <1>1, <1>2, <1>5 DEF Solo, Alone, InStep, Moved
<1>7. \A q \in Papers : Owed(q)
    <2>1. ASSUME NEW q \in Papers, NotesMarked(q) PROVE NotesMarked(q)'
        <3>1. CASE PdsNotes \in done[q]
            BY <1>3, <3>1 DEF NotesMarked
        <3>2. CASE PdsNotes \notin done[q]
            <4>1. wk[w].stage = PdsNotes /\ wk[w].paper = q
                BY <1>4, <2>1, <3>2 DEF NotesMarked
            <4> QED BY <1>3, <4>1 DEF NotesMarked
        <3> QED BY <3>1, <3>2
    <2> QED BY <1>1, <1>4, <2>1 DEF Owed, RecordNamed, PostNoted
<1>8. Paid'
    BY <1>1, <1>7 DEF Solo, Alone, Paid, Spent, Owed
<1>9. Calm'
    <2> SUFFICES ASSUME faults = 0 PROVE Calm'
        BY <1>1 DEF Calm
    <2>1. wk'[w].pc = "nextSaga"
        BY <1>2 DEF Moved
    <2>2. \A q \in Papers :
            /\ uri[q] # 0 => PdsPaper \in done'[q]
            /\ refusal[q] = "none" /\ PdsPaper \in done'[q] => status[q] = "published"
        <3> SUFFICES ASSUME NEW q \in Papers
                     PROVE  /\ uri[q] # 0 => PdsPaper \in done'[q]
                            /\ refusal[q] = "none" /\ PdsPaper \in done'[q] =>
                                    status[q] = "published"
            OBVIOUS
        <3>1. PdsPaper \in done'[q] <=> PdsPaper \in done[q] \/ (q = p /\ k = PdsPaper)
            BY <1>3
        <3>2. \A l \in SUBSET {"setPublished", "confirm", "markDone"} :
                (\E v \in Workers : Publishing(v, q, l)) <=> "markDone" \in l /\ q = p /\ k = PdsPaper
            BY <1>1, <1>4 DEF Publishing
        <3> QED BY <3>1, <3>2 DEF Solo, Calm
    <2>3. \A q \in Papers, l \in SUBSET {"setPublished", "confirm", "markDone"} :
            \A v \in Workers : ~Publishing(v, q, l)'
        BY <1>4, <2>1 DEF Publishing
    <2> QED BY <1>1, <1>4, <1>5, <2>1, <2>2, <2>3 DEF Calm
<1> QED BY <1>4, <1>6, <1>8, <1>9 DEF Solo, Alone

LEMMA HoldSolo ==
    ASSUME OneSlot, Inv, Evidence, Solo, NEW w \in Workers, Hold(w) \/ HoldFails(w) PROVE Solo'
<1> USE DEF At
<1>1. /\ wk[w].pc = "hold" /\ wk[w].pc # "idle" /\ wk[w].paper \in Papers
      /\ UNCHANGED <<done, refusal, version, uri, records, posts, notes>>
    BY Here DEF Hold, HoldFails, Quiet, sagaVars, httpVars, remote
<1>2. CASE HoldFails(w)
    <2>1. Goto(w, "unwind") /\ Fault
        BY <1>2 DEF HoldFails
    <2>2. Moved(w, "unwind")
        BY <1>1, <2>1, GotoMoved
    <2>3. InStep(w)'
        BY <2>2, OutInStep DEF Moved
    <2> QED BY <1>1, <2>1, <2>3, FaultStep
<1>3. CASE Hold(w)
    <2>1. /\ Goto(w, "summary") /\ UNCHANGED faults
          /\ status' = [status EXCEPT ![wk[w].paper] = "pending_review"]
        BY <1>3 DEF Hold
    <2>2. Moved(w, "summary")
        BY <1>1, <2>1, GotoMoved
    <2>3. InStep(w)'
        BY <2>2, OutInStep DEF Moved
    <2>4. \A v \in Workers : v = w
        BY DEF OneSlot
    <2>5. wk'[w].pc = "summary" /\ "summary" \notin LocalPcs
        BY <2>2 DEF Moved, LocalPcs
    <2>6. \A p \in Papers : Owed(p)
        BY <1>1, <2>4 DEF Owed, RecordNamed, PostNoted, NotesMarked
    <2>7. Paid'
        BY <1>1, <2>1, <2>6 DEF Solo, Alone, Paid, Spent, Owed
    <2>8. Calm'
        <3> SUFFICES ASSUME faults = 0 PROVE Calm'
            BY <2>1 DEF Calm
        <3>1. \A p \in Papers, l \in SUBSET {"setPublished", "confirm", "markDone"} :
                \A v \in Workers : ~Publishing(v, p, l) /\ ~Publishing(v, p, l)'
            BY <1>1, <2>4, <2>5 DEF Publishing
        <3>2. PdsPaper \notin done[wk[w].paper]
            BY <1>1 DEF Solo, Alone, InStep
        <3>3. \A p \in Papers \ {wk[w].paper} : status'[p] = status[p]
            BY <1>1, <2>1 DEF Inv, TypeOK, PaperTypes
        <3>4. \A p \in Papers :
                /\ uri[p] # 0 => PdsPaper \in done[p]
                /\ refusal[p] = "none" /\ PdsPaper \in done[p] => status'[p] = "published"
            BY <3>1, <3>2, <3>3 DEF Solo, Calm
        <3> QED BY <1>1, <2>4, <2>5, <3>1, <3>4 DEF Calm
    <2> QED BY <2>3, <2>4, <2>7, <2>8 DEF Solo, Alone
<1> QED BY <1>2, <1>3

\* The stages up to the id write neither a uri nor a bridge status.
LEMMA EarlySolo ==
    ASSUME OneSlot, Inv, Evidence, Solo, NEW w \in Workers, CompileStep(w) \/ Allocate(w)
    PROVE  Solo'
<1> USE DEF At
<1>1. /\ wk[w].pc \in CompilePcs \cup {"allocate"}
      /\ UNCHANGED <<status, done, refusal, uri, records, posts, notes, faults>>
    BY DEF CompileStep, GetSource, LatestVersion, AddVersion, SetHtml, Extract, Allocate, LocalStep,
           Quiet, paperVars, sagaVars, remote, httpVars, CompilePcs
<1>2. /\ wk[w].pc \in StagePcs \ AfterPcs /\ wk[w].pc \in StagePcs \ {"nextSaga"}
      /\ wk[w].pc \notin UriPcs
    BY <1>1 DEF CompilePcs, StagePcs, OtherPcs, AfterPcs, UriPcs, LocalPcs
<1>3. /\ wk[w].pc # "idle" /\ wk[w].stage \in {Persisted, IdAssigned} /\ wk[w].stage # PdsPaper
      /\ wk[w].paper \in Papers
    BY <1>1, <1>2, StageAt DEF Persisted, IdAssigned, PdsPaper
<1>4. PICK l \in CompilePcs \cup {"unwind", "reread", "markDone"} : Goto(w, l)
    BY DEF CompileStep, GetSource, LatestVersion, AddVersion, SetHtml, Extract, Allocate, CompilePcs
<1>5. Moved(w, l)
    BY <1>3, <1>4, GotoMoved
<1>6. \A p \in Papers : version'[p].bridge = version[p].bridge
    <2>1. \/ version' = version
          \/ \E k : version' = [version EXCEPT ![wk[w].paper].key = k]
          \/ version' = [version EXCEPT ![wk[w].paper].html = TRUE]
        BY DEF CompileStep, GetSource, LatestVersion, AddVersion, SetHtml, Extract, Allocate,
               LocalStep
    <2>2. version \in [Papers -> Version] /\ version[wk[w].paper] \in Version
        BY <1>3 DEF Inv, TypeOK, PaperTypes
    <2>3. ASSUME NEW k, version' = [version EXCEPT ![wk[w].paper].key = k]
          PROVE  \A p \in Papers : version'[p].bridge = version[p].bridge
        <3>1. version'[wk[w].paper] = [version[wk[w].paper] EXCEPT !.key = k]
            BY <1>3, <2>2, <2>3
        <3> QED BY <2>2, <2>3, <3>1 DEF Version
    <2>4. ASSUME version' = [version EXCEPT ![wk[w].paper].html = TRUE]
          PROVE  \A p \in Papers : version'[p].bridge = version[p].bridge
        <3>1. version'[wk[w].paper] = [version[wk[w].paper] EXCEPT !.html = TRUE]
            BY <1>3, <2>2, <2>4
        <3> QED BY <2>2, <2>4, <3>1 DEF Version
    <2> QED BY <2>1, <2>3, <2>4
<1>7. /\ l \notin {"idle", "loadPaper", "hold", "setUri", "setPublished", "confirm"}
      /\ l \notin BridgePcs /\ l \notin LocalPcs
    BY DEF CompilePcs, BridgePcs, LocalPcs
<1>8. InStep(w)'
    BY <1>1, <1>2, <1>5, <1>7, MoveInStep
<1>9. wk'[w].pc = l /\ wk'[w].stage = wk[w].stage
    BY <1>5 DEF Moved
<1>10. wk[w].pc \notin {"setUri", "setPosted", "reread", "markDone", "setPublished", "confirm"}
    BY <1>1 DEF CompilePcs
<1> QED BY <1>1, <1>3, <1>6, <1>7, <1>8, <1>9, <1>10, PlainStep

LEMMA PublishSolo ==
    ASSUME OneSlot, Inv, Inv', Evidence, Solo, NEW w \in Workers,
           \/ PutRecord(w) \/ SetUri(w) \/ SetPublished(w) \/ PublishFails(w)
           \/ LocalPublish(w) \/ LocalFinalize(w) \/ LocalSocial(w) \/ RecordUnavailable(w)
    PROVE  Solo'
<1> DEFINE p == wk[w].paper
<1> USE DEF At
<1>1. /\ wk[w].pc \in PublishPcs \cup LocalPcs
      /\ UNCHANGED <<done, refusal, version, posts, notes>>
    BY DEF PutRecord, SetUri, SetPublished, PublishFails, LocalPublish, LocalFinalize,
           LocalSocial, RecordUnavailable, Enqueue, LocalStep, Quiet, paperVars, sagaVars, remote,
           httpVars, PublishPcs, LocalPcs
<1>2. /\ wk[w].pc \in StagePcs \ AfterPcs /\ wk[w].pc \in StagePcs \ {"nextSaga"}
      /\ wk[w].pc \notin {"reread", "markDone", "setPosted"}
    BY <1>1 DEF PublishPcs, LocalPcs, StagePcs, AfterPcs
<1>3. /\ wk[w].pc # "idle" /\ p \in Papers /\ EvidenceOf(w) /\ InStep(w) /\ wk[w] \in Running
      /\ wk[w].stage = PdsPaper /\ PdsPaper \notin done[p]
      /\ records \in [Papers -> Nat] /\ uri \in [Papers -> Nat]
      /\ \A v \in Workers : v = w
    BY <1>1, <1>2, StageAt, WorkerType
    DEF Solo, Alone, InStep, Inv, TypeOK, PaperTypes, EffectTypes, OneSlot
<1>4. "putRecord" \in StagePcs \ UriPcs /\ "setUri" \in StagePcs \ UriPcs
    BY DEF StagePcs, PublishPcs, UriPcs, LocalPcs
<1>6. CASE PutRecord(w) /\ wk[w].uri # 0
    <2>1. /\ Goto(w, "markDone") /\ UNCHANGED <<status, uri, records, faults>>
          /\ wk[w].pc = "putRecord"
        BY <1>6 DEF PutRecord, paperVars
    <2>2. Moved(w, "markDone")
        BY <1>3, <2>1, GotoMoved
    <2>3. uri[p] # 0
        BY <1>3, <1>4, <1>6, <2>1 DEF InStep
    <2>4. faults # 0
        BY <1>3, <2>1, <2>3 DEF Solo, Calm, Publishing
    <2>5. "markDone" \notin BridgePcs /\ wk[w].pc \notin UriPcs
        BY <1>4, <2>1 DEF BridgePcs
    <2>6. InStep(w)'
        BY <1>1, <1>2, <2>1, <2>2, <2>5, MoveInStep
    <2> QED BY <1>1, <1>3, <2>1, <2>4, <2>6, PlainStep
<1>7. CASE PutRecord(w) /\ wk[w].uri = 0
    <2>1. /\ wk' = [wk EXCEPT ![w].pc = "setUri", ![w].wrote = records[p] + 1]
          /\ records' = [records EXCEPT ![p] = @ + 1]
          /\ UNCHANGED <<status, uri, faults>> /\ wk[w].pc = "putRecord"
        BY <1>7 DEF PutRecord, paperVars
    <2>2. wk'[w] = [wk[w] EXCEPT !.pc = "setUri", !.wrote = records[p] + 1]
        BY <2>1 DEF Inv, TypeOK
    <2>3. /\ wk'[w].pc = "setUri" /\ wk'[w].paper = p /\ wk'[w].stage = PdsPaper
          /\ wk'[w].uri = 0
        BY <1>3, <1>7, <2>2 DEF Running
    <2>4. uri[p] = 0
        BY <1>3, <1>4, <1>7, <2>1 DEF InStep
    <2>5. InStep(w)'
        BY <1>1, <1>3, <2>1, <2>3, <2>4 DEF InStep, BridgePcs
    <2>6. Calm'
        BY <1>1, <2>1, <2>3, PlainCalm DEF LocalPcs
    <2>7. \A q \in Papers : q = p => ~RecordNamed(q) /\ RecordNamed(q)'
        BY <1>3, <2>1, <2>3, <2>4 DEF RecordNamed
    <2>8. \A q \in Papers \ {p} : records'[q] = records[q] /\ (RecordNamed(q) => RecordNamed(q)')
        BY <1>3, <2>1 DEF RecordNamed
    <2>9. records'[p] = records[p] + 1
        BY <1>3, <2>1
    <2>10. \A q \in Papers : (PostNoted(q) => PostNoted(q)') /\ (NotesMarked(q) => NotesMarked(q)')
        BY <1>1, <1>2, <1>3 DEF PostNoted, NotesMarked
    <2>11. \A q \in Papers :
            \/ records'[q] = records[q] /\ (RecordNamed(q) => RecordNamed(q)')
            \/ records'[q] = records[q] + 1 /\ ~RecordNamed(q) /\ RecordNamed(q)'
        BY <2>7, <2>8, <2>9
    <2> QED BY <1>1, <2>1, <2>5, <2>6, <2>10, <2>11, WriteStep
<1>8. CASE SetUri(w)
    <2>1. /\ wk' = [wk EXCEPT ![w].pc = "setPublished", ![w].wrote = 0]
          /\ uri' = [uri EXCEPT ![p] = wk[w].wrote]
          /\ UNCHANGED <<status, records, faults>> /\ wk[w].wrote # 0 /\ wk[w].pc = "setUri"
        BY <1>3, <1>8 DEF SetUri, EvidenceOf, remote
    <2>2. wk'[w] = [wk[w] EXCEPT !.pc = "setPublished", !.wrote = 0]
        BY <2>1 DEF Inv, TypeOK
    <2>3. wk'[w].pc = "setPublished" /\ wk'[w].paper = p /\ wk'[w].stage = PdsPaper
        BY <1>3, <2>2 DEF Running
    <2>4. uri'[p] # 0 /\ \A q \in Papers \ {p} : uri'[q] = uri[q]
        BY <1>3, <2>1
    <2>5. InStep(w)'
        BY <1>1, <1>3, <2>3 DEF InStep, UriPcs, BridgePcs
    <2>6. Calm'
        <3> SUFFICES ASSUME faults = 0 PROVE Calm'
            BY <2>1 DEF Calm
        <3>1. \A q \in Papers, l \in SUBSET {"setPublished", "confirm", "markDone"} :
                \A v \in Workers : ~Publishing(v, q, l)
            BY <1>3, <2>1 DEF Publishing
        <3>2. Publishing(w, p, {"setPublished", "confirm", "markDone"})'
            BY <2>3 DEF Publishing
        <3>3. \A q \in Papers, v \in Workers : ~Publishing(v, q, {"confirm", "markDone"})'
            BY <1>3, <2>3 DEF Publishing
        <3>4. \A q \in Papers \ {p} : uri'[q] # 0 => PdsPaper \in done[q]
            BY <2>4, <3>1 DEF Solo, Calm
        <3>5. \A q \in Papers : refusal[q] = "none" /\ PdsPaper \in done[q] => status[q] = "published"
            BY DEF Solo, Calm
        <3> QED BY <1>1, <1>3, <2>1, <2>3, <3>2, <3>3, <3>4, <3>5 DEF Calm, LocalPcs
    <2>7. \A q \in Papers : RecordNamed(q) => RecordNamed(q)'
        BY <1>3, <2>1, <2>4 DEF RecordNamed
    <2>8. \A q \in Papers : (PostNoted(q) => PostNoted(q)') /\ (NotesMarked(q) => NotesMarked(q)')
        BY <1>1, <1>2, <1>3 DEF PostNoted, NotesMarked
    <2> QED BY <1>1, <2>1, <2>5, <2>6, <2>7, <2>8, WriteStep
<1>9. CASE SetPublished(w)
    <2>1. /\ Goto(w, "confirm") /\ status' = [status EXCEPT ![p] = "published"]
          /\ UNCHANGED <<uri, records, faults>> /\ wk[w].pc = "setPublished"
        BY <1>9 DEF SetPublished, remote
    <2>2. Moved(w, "confirm")
        BY <1>3, <2>1, GotoMoved
    <2>3. InStep(w)'
        BY <1>1, <1>2, <2>1, <2>2, MoveInStep DEF UriPcs, BridgePcs
    <2>4. wk'[w].pc = "confirm" /\ wk'[w].paper = p /\ wk'[w].stage = PdsPaper
        BY <1>3, <2>2 DEF Moved
    <2>5. status'[p] = "published" /\ \A q \in Papers \ {p} : status'[q] = status[q]
        BY <1>3, <2>1 DEF Inv, TypeOK, PaperTypes
    <2>6. Calm'
        <3> SUFFICES ASSUME faults = 0 PROVE Calm'
            BY <2>1 DEF Calm
        <3>1. \A q \in Papers \ {p}, l \in SUBSET {"setPublished", "confirm", "markDone"} :
                \A v \in Workers : ~Publishing(v, q, l) /\ ~Publishing(v, q, l)'
            BY <1>3, <2>4 DEF Publishing
        <3>2. Publishing(w, p, {"setPublished", "confirm", "markDone"})'
            BY <2>4 DEF Publishing
        <3>3. \A q \in Papers \ {p} :
                /\ uri[q] # 0 => PdsPaper \in done[q]
                /\ refusal[q] = "none" /\ PdsPaper \in done[q] => status[q] = "published"
            BY <3>1 DEF Solo, Calm
        <3> QED BY <1>1, <1>3, <2>1, <2>4, <2>5, <3>1, <3>2, <3>3 DEF Calm, LocalPcs
    <2>7. \A q \in Papers : Owed(q)
        BY <1>1, <1>2, <1>3, <2>1 DEF Owed, RecordNamed, PostNoted, NotesMarked
    <2> QED BY <1>1, <2>1, <2>3, <2>6, <2>7, WriteStep DEF Owed
<1>10. CASE PublishFails(w)
    <2>1. /\ Goto(w, "localPublish") /\ Fault
          /\ \/ UNCHANGED records
             \/ /\ wk[w].pc = "putRecord" /\ wk[w].uri = 0
                /\ records' = [records EXCEPT ![p] = @ + 1]
          /\ UNCHANGED uri
        BY <1>10 DEF PublishFails, paperVars
    <2>2. Moved(w, "localPublish")
        BY <1>3, <2>1, GotoMoved
    <2>3. InStep(w)'
        BY <1>1, <1>2, <2>1, <2>2, MoveInStep DEF UriPcs, LocalPcs, BridgePcs
    <2>4. CASE UNCHANGED records
        BY <1>1, <2>1, <2>3, <2>4, FaultStep
    <2>5. CASE wk[w].pc = "putRecord" /\ wk[w].uri = 0 /\ records' = [records EXCEPT ![p] = @ + 1]
        <3>1. ~RecordNamed(p)
            BY <1>3, <1>4, <2>5 DEF InStep, RecordNamed
        <3>2. records'[p] = records[p] + 1 /\ \A q \in Papers \ {p} : records'[q] = records[q]
            BY <1>3, <2>5
        <3> QED BY <1>1, <2>1, <2>3, <3>1, <3>2, FaultStep
    <2> QED BY <2>1, <2>4, <2>5
<1>11. CASE LocalPublish(w) \/ LocalFinalize(w) \/ LocalSocial(w)
    <2>1. PICK l \in {"localFinalize", "localSocial", "reread", "unwind"} : Goto(w, l)
        BY <1>11 DEF LocalPublish, LocalFinalize, LocalSocial, Enqueue
    <2>2. UNCHANGED <<uri, records, faults>> /\ wk[w].pc \in LocalPcs
        BY <1>11 DEF LocalPublish, LocalFinalize, LocalSocial, Enqueue, LocalStep, paperVars, remote,
                     LocalPcs
    <2>3. Moved(w, l)
        BY <1>3, <2>1, GotoMoved
    <2>4. l \in UriPcs \/ l \notin StagePcs
        BY DEF UriPcs, StagePcs, CompilePcs, PublishPcs, LocalPcs, BridgePcs, OtherPcs
    <2>5. InStep(w)'
        BY <1>1, <1>2, <2>2, <2>3, <2>4, MoveInStep DEF BridgePcs
    <2>6. faults # 0 /\ wk[w].pc \notin {"setUri", "setPublished", "confirm"}
        BY <2>2 DEF Solo, Calm, LocalPcs
    <2> QED BY <1>1, <1>2, <2>2, <2>5, <2>6, PlainStep
<1>12. CASE RecordUnavailable(w)
    <2>1. PICK t \in BOOLEAN : wk' = [wk EXCEPT ![w].pc = "unwind", ![w].terminal = t]
        BY <1>12 DEF RecordUnavailable
    <2>2. wk'[w] = [wk[w] EXCEPT !.pc = "unwind", !.terminal = t]
        BY <2>1 DEF Inv, TypeOK
    <2>3. wk'[w].pc = "unwind"
        BY <1>3, <2>2 DEF Running
    <2>4. InStep(w)' /\ Fault /\ UNCHANGED records
        BY <1>12, <2>3, OutInStep DEF RecordUnavailable, remote
    <2> QED BY <1>1, <2>4, FaultStep
<1> QED BY <1>6, <1>7, <1>8, <1>9, <1>10, <1>11, <1>12 DEF PutRecord

LEMMA NotesSolo ==
    ASSUME OneSlot, Inv, Evidence, Solo, NEW w \in Workers, PutNotes(w) PROVE Solo'
<1> DEFINE p == wk[w].paper
<1>1. /\ wk[w].pc = "putNotes" /\ wk[w].pc \in StagePcs \ AfterPcs
      /\ wk[w].pc \in StagePcs \ {"nextSaga"}
      /\ Goto(w, "reread")
      /\ UNCHANGED <<status, done, refusal, version, uri, records, posts>>
    BY DEF PutNotes, At, StagePcs, OtherPcs, AfterPcs, Quiet, paperVars, sagaVars, httpVars
<1>2. /\ wk[w].pc # "idle" /\ wk[w].stage = PdsNotes /\ p \in Papers /\ InStep(w)
      /\ notes \in [Papers -> Nat] /\ \A v \in Workers : v = w
    BY <1>1, StageAt DEF Solo, Alone, OneSlot, Inv, TypeOK, EffectTypes
<1>3. Moved(w, "reread")
    BY <1>1, <1>2, GotoMoved
<1>4. InStep(w)'
    BY <1>1, <1>3, MoveInStep DEF UriPcs, BridgePcs
<1>5. wk'[w].pc = "reread" /\ wk'[w].stage = PdsNotes /\ wk'[w].paper = p
    BY <1>2, <1>3 DEF Moved
<1>6. \A q \in Papers : q = p => ~NotesMarked(q) /\ NotesMarked(q)'
    BY <1>1, <1>2, <1>5 DEF InStep, NotesMarked
<1>7. notes' = notes \/ notes' = [notes EXCEPT ![p] = @ + 1]
    BY DEF PutNotes
<1>8. \A q \in Papers :
        notes'[q] = notes[q] \/ (q = p /\ notes'[q] = notes[q] + 1)
    BY <1>2, <1>7
<1>9. \A q \in Papers : Owed(q)
    BY <1>1, <1>2, <1>6 DEF Owed, RecordNamed, PostNoted, NotesMarked
<1>10. CASE Fault
    BY <1>1, <1>4, <1>6, <1>8, <1>10, FaultStep
<1>11. CASE UNCHANGED faults
    <2>1. Calm'
        BY <1>1, <1>5, <1>11, PlainCalm DEF LocalPcs, PdsNotes, PdsPaper
    <2>2. \A q \in Papers :
            \/ notes'[q] = notes[q] /\ (NotesMarked(q) => NotesMarked(q)')
            \/ notes'[q] = notes[q] + 1 /\ ~NotesMarked(q) /\ NotesMarked(q)'
        BY <1>6, <1>8, <1>9 DEF Owed
    <2> QED BY <1>1, <1>4, <1>9, <1>11, <2>1, <2>2, WriteStep DEF Owed
<1> QED BY <1>10, <1>11 DEF PutNotes

LEMMA BridgeSolo ==
    ASSUME OneSlot, Inv, Evidence, Solo, NEW w \in Workers, BridgeStep(w) PROVE Solo'
<1> DEFINE p == wk[w].paper
<1> USE DEF At
<1>1. /\ wk[w].pc \in BridgePcs \cup {"readVersion", "finalize", "social"}
      /\ UNCHANGED <<status, done, refusal, uri, records, notes>>
    BY DEF BridgeStep, ReadVersion, Post, SetBridgeResult, BridgeFails, FinalizeJob, SocialJob,
           Enqueue, LocalStep, Quiet, paperVars, sagaVars, remote, httpVars, BridgePcs
<1>2. /\ wk[w].pc \in StagePcs \ AfterPcs /\ wk[w].pc \in StagePcs \ {"nextSaga"}
      /\ wk[w].pc \notin UriPcs
      /\ wk[w].pc \notin {"reread", "markDone", "setUri", "setPublished", "confirm"}
    BY <1>1 DEF BridgePcs, StagePcs, OtherPcs, AfterPcs, UriPcs, LocalPcs
<1>3. /\ wk[w].pc # "idle" /\ p \in Papers /\ InStep(w) /\ wk[w].stage = Bridge
      /\ Bridge # PdsPaper /\ Bridge # PdsNotes
      /\ posts \in [Papers -> Nat] /\ version \in [Papers -> Version]
      /\ \A v \in Workers : v = w
    BY <1>1, <1>2, StageAt
    DEF Solo, Alone, OneSlot, Inv, TypeOK, PaperTypes, EffectTypes, Bridge, PdsPaper, PdsNotes
<1>4. PICK l \in BridgePcs \cup {"markDone", "finalize", "social", "reread"} :
        /\ Goto(w, l)
        /\ l \in BridgePcs => wk[w].pc \in BridgePcs \/ version[p].bridge # "posted"
        /\ Post(w) => l = "setPosted"
        /\ SetBridgeResult(w) => l = "finalize"
    <2>1. CASE ReadVersion(w)
        <3>1. PICK l \in {"markDone", "finalize", "post", "setSkipped"} :
                Goto(w, l) /\ (l \in {"post", "setSkipped"} => version[p].bridge # "posted")
            BY <2>1 DEF ReadVersion
        <3>2. "markDone" \notin BridgePcs /\ "finalize" \notin BridgePcs
            BY DEF BridgePcs
        <3> QED BY <2>1, <3>1, <3>2 DEF ReadVersion, Post, SetBridgeResult, BridgePcs
    <2>2. CASE Post(w)
        BY <2>2 DEF Post, SetBridgeResult, BridgePcs
    <2>3. CASE SetBridgeResult(w)
        BY <2>3 DEF Post, SetBridgeResult, BridgePcs
    <2>4. CASE BridgeFails(w) /\ ~Post(w) /\ ~SetBridgeResult(w)
        BY <2>4 DEF BridgeFails, BridgePcs
    <2>5. CASE FinalizeJob(w)
        BY <2>5 DEF FinalizeJob, Enqueue, Post, SetBridgeResult, BridgePcs
    <2>6. CASE SocialJob(w)
        BY <2>6 DEF SocialJob, Enqueue, Post, SetBridgeResult, BridgePcs
    <2> QED BY <2>1, <2>2, <2>3, <2>4, <2>5, <2>6 DEF BridgeStep
<1>5. Moved(w, l)
    BY <1>3, <1>4, GotoMoved
<1>6. wk'[w].pc = l /\ wk'[w].stage = Bridge /\ wk'[w].paper = p
    BY <1>3, <1>5 DEF Moved
<1>7. wk[w].pc \in BridgePcs => version[p].bridge # "posted"
    BY <1>3 DEF InStep
<1>8. l \notin LocalPcs \cup {"setPublished", "confirm", "idle", "loadPaper", "hold", "setUri"}
    BY DEF BridgePcs, LocalPcs
<1>9. InStep(w)'
    <2>1. l \in BridgePcs => UNCHANGED version
        <3>1. ~SetBridgeResult(w) => UNCHANGED version
            BY DEF BridgeStep, ReadVersion, Post, BridgeFails, FinalizeJob, SocialJob, Enqueue,
                   LocalStep
        <3> QED BY <1>4, <3>1 DEF BridgePcs
    <2> QED BY <1>1, <1>2, <1>4, <1>5, <1>7, <1>8, <2>1, MoveInStep
<1>10. CASE ReadVersion(w) \/ FinalizeJob(w) \/ SocialJob(w)
    <2>1. UNCHANGED <<posts, version, faults>> /\ wk[w].pc # "setPosted"
        BY <1>10 DEF ReadVersion, FinalizeJob, SocialJob, Enqueue, LocalStep, remote
    <2> QED BY <1>1, <1>2, <1>3, <1>6, <1>8, <1>9, <2>1, PlainStep
<1>11. \A q \in Papers : (RecordNamed(q) => RecordNamed(q)') /\ (NotesMarked(q) => NotesMarked(q)')
    BY <1>1, <1>2, <1>3 DEF RecordNamed, NotesMarked
<1>12. UNCHANGED faults => Calm'
    BY <1>1, <1>2, <1>3, <1>6, <1>8, PlainCalm
<1>13. CASE Post(w)
    <2>1. /\ posts' = [posts EXCEPT ![p] = @ + 1] /\ UNCHANGED <<version, faults>>
          /\ wk[w].pc = "post" /\ l = "setPosted"
        BY <1>4, <1>13 DEF Post
    <2>2. \A q \in Papers : q = p => ~PostNoted(q) /\ PostNoted(q)'
        BY <1>3, <1>6, <1>7, <2>1 DEF PostNoted, BridgePcs
    <2>3. /\ posts'[p] = posts[p] + 1
          /\ \A q \in Papers \ {p} : posts'[q] = posts[q] /\ (PostNoted(q) => PostNoted(q)')
        BY <1>3, <2>1 DEF PostNoted
    <2>4. \A q \in Papers :
            \/ posts'[q] = posts[q] /\ (PostNoted(q) => PostNoted(q)')
            \/ posts'[q] = posts[q] + 1 /\ ~PostNoted(q) /\ PostNoted(q)'
        BY <2>2, <2>3
    <2> QED BY <1>1, <1>9, <1>11, <1>12, <2>1, <2>4, WriteStep
<1>14. CASE SetBridgeResult(w)
    <2>1. /\ UNCHANGED <<posts, faults>>
          /\ version' = [version EXCEPT ![p].bridge = BridgeResult(w)]
        BY <1>14 DEF SetBridgeResult, remote
    <2>2. /\ version'[p] = [version[p] EXCEPT !.bridge = BridgeResult(w)]
          /\ \A q \in Papers \ {p} : version'[q] = version[q]
        BY <1>3, <2>1
    <2>3. version'[p].bridge = BridgeResult(w)
        BY <1>3, <2>2 DEF Version
    <2>4. wk[w].pc \in BridgePcs
        BY <1>14 DEF SetBridgeResult, BridgePcs
    <2>5. \A q \in Papers : PostNoted(q) => PostNoted(q)'
        BY <1>3, <1>7, <2>2, <2>3, <2>4 DEF PostNoted, BridgeResult
    <2> QED BY <1>1, <1>9, <1>11, <1>12, <2>1, <2>5, WriteStep
<1>15. CASE BridgeFails(w)
    <2>1. /\ Fault
          /\ posts' = posts \/ (wk[w].pc = "post" /\ posts' = [posts EXCEPT ![p] = @ + 1])
        BY <1>15 DEF BridgeFails
    <2>2. CASE posts' = posts
        BY <1>1, <1>9, <2>1, <2>2, FaultStep
    <2>3. CASE wk[w].pc = "post" /\ posts' = [posts EXCEPT ![p] = @ + 1]
        <3>1. ~PostNoted(p)
            BY <1>3, <1>7, <2>3 DEF PostNoted, BridgePcs
        <3>2. posts'[p] = posts[p] + 1 /\ \A q \in Papers \ {p} : posts'[q] = posts[q]
            BY <1>3, <2>3
        <3> QED BY <1>1, <1>9, <2>1, <3>1, <3>2, FaultStep
    <2> QED BY <2>1, <2>2, <2>3
<1> QED BY <1>10, <1>13, <1>14, <1>15 DEF BridgeStep

LEMMA FailSolo ==
    ASSUME OneSlot, Inv, Solo, NEW w \in Workers,
           \/ StageFails(w) \/ SummaryFails(w) \/ Unwind(w)
           \/ CompleteJob(w) \/ FailJob(w) \/ Crash(w)
           \/ \E p \in Papers, j \in JobNames : Take(w, p, j)
    PROVE  Solo'
<1> USE DEF At
<1>1. /\ UNCHANGED <<status, done, refusal, version, uri, records, posts, notes>>
      /\ faults' = faults \/ Fault
    BY DEF StageFails, SummaryFails, Unwind, CompleteJob, FailJob, Crash, EndJob, Take, Quiet,
           paperVars, sagaVars, remote, httpVars
<1>2. wk'[w].pc \in {"unwind", "idle", "loadSaga"}
    <2>1. CASE StageFails(w)
        <3>1. wk[w].pc # "idle"
            BY <2>1 DEF StageFails, StageMayFail, OtherMayFail, StagePcs, CompilePcs, LocalPcs,
                        OtherPcs, PublishPcs, BridgePcs
        <3> QED BY <2>1, <3>1, GotoMoved DEF StageFails, Moved
    <2>2. CASE SummaryFails(w)
        <3>1. wk'[w] = [wk[w] EXCEPT !.pc = "unwind", !.stack = {}] /\ wk[w].pc = "summary"
            BY <2>2 DEF SummaryFails, Inv, TypeOK
        <3>2. wk[w] \in Running
            BY <3>1, WorkerType DEF Inv, TypeOK
        <3> QED BY <3>1, <3>2 DEF Running
    <2>3. CASE Unwind(w)
        <3>1. wk[w].pc = "unwind"
            BY <2>3 DEF Unwind
        <3>2. wk[w] \in Running
            BY <3>1, WorkerType DEF Inv, TypeOK
        <3>3. PICK k \in wk[w].stack :
                \/ wk' = [wk EXCEPT ![w].stack = wk[w].stack \ {k}]
                \/ wk' = [wk EXCEPT ![w].stack = wk[w].stack \ {k}, ![w].terminal = FALSE]
            BY <2>3 DEF Unwind, Inv, TypeOK
        <3>4. \/ wk'[w] = [wk[w] EXCEPT !.stack = wk[w].stack \ {k}]
              \/ wk'[w] = [wk[w] EXCEPT !.stack = wk[w].stack \ {k}, !.terminal = FALSE]
            BY <3>3 DEF Inv, TypeOK
        <3> QED BY <3>1, <3>2, <3>4 DEF Running
    <2>4. CASE CompleteJob(w) \/ FailJob(w) \/ Crash(w)
        BY <2>4 DEF CompleteJob, FailJob, Crash, EndJob, Idle, Inv, TypeOK
    <2>5. CASE \E p \in Papers, j \in JobNames : Take(w, p, j)
        BY <2>5 DEF Take, Inv, TypeOK
    <2> QED BY <2>1, <2>2, <2>3, <2>4, <2>5
<1>3. InStep(w)'
    BY <1>2, OutInStep
<1>4. CASE Fault
    BY <1>1, <1>3, <1>4, FaultStep
<1>5. CASE ~Fault
    <2>1. wk[w].pc \in {"unwind", "summary", "idle"}
        BY <1>5 DEF StageFails, SummaryFails, Unwind, CompleteJob, FailJob, Crash, Take
    <2>2. wk'[w].pc \notin LocalPcs
        BY <1>2 DEF LocalPcs
    <2> QED BY <1>1, <1>2, <1>3, <1>5, <2>1, <2>2, PlainStep
<1> QED BY <1>4, <1>5

-----------------------------------------------------------------------------
(* The papers that no slot and no handler has begun with. *)

Begun == Unborn /\ RefusedFirst

\* A running job has an entry of the queue, so its paper was submitted.
LEMMA BusyIsBorn ==
    ASSUME Inv, Unborn, NEW w \in Workers, wk[w].pc # "idle"
    PROVE  request[wk[w].paper] # "none"
<1>1. wk[w].paper \in Papers /\ wk[w].job \in JobNames
    BY Here
<1>2. jobs[wk[w].paper][wk[w].job].state = "active"
    BY DEF Inv, WorkerInv, JobOf
<1> QED BY <1>1, <1>2 DEF Unborn

\* A slot touches the rows of its paper only.
LEMMA WorkerBegun ==
    ASSUME Inv, Begun, NEW w \in Workers, WorkerStep(w) \/ Crash(w) PROVE Begun'
<1> DEFINE p == wk[w].paper
<1>1. /\ status \in [Papers -> Statuses] /\ done \in [Papers -> SUBSET Stages]
      /\ jobs \in [Papers -> [JobNames -> Job]]
    BY DEF Inv, TypeOK, PaperTypes
<1>2. ASSUME UNCHANGED <<request, mod, refusal>>,
             \A q \in Papers : request[q] = "none" =>
                /\ status'[q] = status[q] /\ done'[q] = done[q] /\ jobs'[q] = jobs[q]
      PROVE  Begun'
    BY <1>2 DEF Begun, Unborn, RefusedFirst
<1>3. ASSUME NEW q \in Papers, NEW j \in JobNames, Take(w, q, j) PROVE Begun'
    <2>1. /\ jobs' = [jobs EXCEPT ![q][j].state = "active"] /\ jobs[q][j].state = "waiting"
          /\ UNCHANGED <<status, done, request, mod, refusal>>
        BY <1>3 DEF Take, paperVars, sagaVars, httpVars
    <2>2. request[q] # "none"
        BY <2>1 DEF Begun, Unborn
    <2>3. \A r \in Papers \ {q} : jobs'[r] = jobs[r]
        BY <1>1, <2>1
    <2> QED BY <1>2, <2>1, <2>2, <2>3
<1>4. ASSUME wk[w].pc # "idle", UNCHANGED <<request, mod, refusal>>,
             status' = status \/ \E s : status' = [status EXCEPT ![p] = s],
             done' = done \/ \E d : done' = [done EXCEPT ![p] = d],
             jobs' = jobs \/ \E r : jobs' = [jobs EXCEPT ![p] = r]
      PROVE  Begun'
    <2>1. request[p] # "none"
        BY <1>4, BusyIsBorn DEF Begun
    <2>2. \A q \in Papers \ {p} :
            status'[q] = status[q] /\ done'[q] = done[q] /\ jobs'[q] = jobs[q]
        BY <1>1, <1>4
    <2> QED BY <1>2, <1>4, <2>1, <2>2
<1> USE DEF At
<1>5. CASE LoadSaga(w) \/ LoadPaper(w) \/ Reread(w) \/ NextSaga(w) \/ Confirm(w)
    BY <1>4, <1>5 DEF LoadSaga, LoadPaper, Reread, NextSaga, Confirm, LocalStep, Quiet,
                      paperVars, sagaVars, httpVars
<1>6. CASE Hold(w) \/ HoldFails(w)
    BY <1>4, <1>6 DEF Hold, HoldFails, Quiet, paperVars, sagaVars, httpVars
<1>7. CASE MarkStageDone(w)
    BY <1>4, <1>7 DEF MarkStageDone, paperVars, httpVars
<1>8. CASE StageFails(w) \/ SummaryFails(w) \/ Unwind(w)
    <2>1. wk[w].pc # "idle"
        BY <1>8 DEF StageFails, StageMayFail, OtherMayFail, SummaryFails, Unwind, StagePcs,
                    CompilePcs, PublishPcs, LocalPcs, BridgePcs, OtherPcs
    <2> QED BY <1>4, <1>8, <2>1 DEF StageFails, SummaryFails, Unwind, Quiet, paperVars, sagaVars,
                                    httpVars
<1>9. CASE CompileStep(w)
    BY <1>4, <1>9 DEF CompileStep, GetSource, LatestVersion, AddVersion, SetHtml, Extract,
                      LocalStep, Quiet, paperVars, sagaVars, httpVars
<1>10. CASE Allocate(w) \/ PutNotes(w)
    BY <1>4, <1>10 DEF Allocate, PutNotes, Quiet, paperVars, sagaVars, httpVars
<1>11. CASE /\ PublishStep(w)
            /\ ~Confirm(w)
    <2>1. wk[w].pc # "idle"
        BY <1>11 DEF PublishStep, PutRecord, SetUri, SetPublished, PublishFails, LocalPublish,
                     LocalFinalize, LocalSocial, RecordUnavailable, PublishPcs
    <2>2. UNCHANGED <<request, mod, refusal, done, jobs>>
        BY <1>11 DEF PublishStep, PutRecord, SetUri, SetPublished, PublishFails, LocalPublish,
                     LocalFinalize, LocalSocial, RecordUnavailable, Enqueue, LocalStep, Quiet,
                     sagaVars, httpVars
    <2>3. status' = status \/ \E s : status' = [status EXCEPT ![p] = s]
        BY <1>11 DEF PublishStep, PutRecord, SetUri, SetPublished, PublishFails, LocalPublish,
                     LocalFinalize, LocalSocial, RecordUnavailable, Enqueue, LocalStep, paperVars
    <2> QED BY <1>4, <2>1, <2>2, <2>3
<1>12. CASE BridgeStep(w)
    <2>1. wk[w].pc # "idle"
        BY <1>12 DEF BridgeStep, ReadVersion, Post, SetBridgeResult, BridgeFails, FinalizeJob,
                     SocialJob, BridgePcs
    <2>2. UNCHANGED <<request, mod, refusal, done, jobs, status>>
        BY <1>12 DEF BridgeStep, ReadVersion, Post, SetBridgeResult, BridgeFails, FinalizeJob,
                     SocialJob, Enqueue, LocalStep, Quiet, paperVars, sagaVars, httpVars
    <2> QED BY <1>4, <2>1, <2>2
<1>13. CASE CompleteJob(w) \/ FailJob(w) \/ Crash(w)
    <2>1. PICK r : EndJob(w, r)
        BY <1>13 DEF CompleteJob, FailJob, Crash
    <2>2. wk[w].pc # "idle"
        BY <1>13 DEF CompleteJob, FailJob, Crash
    <2>3. \E c : jobs' = [jobs EXCEPT ![p] = c]
        BY <2>1 DEF EndJob
    <2>4. UNCHANGED <<request, mod, refusal, done, status>>
        BY <2>1 DEF EndJob, paperVars, sagaVars, httpVars
    <2> QED BY <1>4, <2>2, <2>3, <2>4
<1> QED BY <1>3, <1>5, <1>6, <1>7, <1>8, <1>9, <1>10, <1>11, <1>12, <1>13
        DEF WorkerStep, FlowStep

LEMMA SubmitBegun ==
    ASSUME Inv, Begun, NEW p \in Papers,
           (SubmitStep(p) \/ Rescind(p)) \/ \E r \in Retries : RetryStep(p, r)
    PROVE  Begun'
<1>1. /\ request \in [Papers -> {"none", "storing", "enqueueing", "answered"}]
      /\ status \in [Papers -> Statuses] /\ refusal \in [Papers -> {"none", "issued", "rescinded"}]
      /\ jobs \in [Papers -> [JobNames -> Job]] /\ Submit \in JobNames
      /\ \A m \in Decisions : mod[m].pc = "refusing" => mod[m].paper \in Papers
    BY ModeratorType DEF Inv, TypeOK, PaperTypes, RequestTypes, JobNames
<1>2. UNCHANGED <<done, mod>>
    BY DEF SubmitStep, CreatePaper, StoreSource, EnqueueSubmit, AbandonSubmit, Rescind, RetryStep,
           RetryRead, RetryEnqueue, EditRepublish, sagaVars, httpVars
<1>3. RefusedFirst'
    <2>1. refusal' = refusal \/ refusal' = [refusal EXCEPT ![p] = "rescinded"]
        BY DEF SubmitStep, CreatePaper, StoreSource, EnqueueSubmit, AbandonSubmit, Rescind,
               RetryStep, RetryRead, RetryEnqueue, EditRepublish, httpVars
    <2> QED BY <1>1, <1>2, <2>1 DEF Begun, RefusedFirst
<1>4. ASSUME request'[p] # "none",
             \A q \in Papers \ {p} :
                request'[q] = request[q] /\ status'[q] = status[q] /\ jobs'[q] = jobs[q]
      PROVE  Unborn'
    BY <1>2, <1>4 DEF Begun, Unborn
<1>5. CASE SubmitStep(p)
    <2>1. \E s \in {"storing", "enqueueing", "answered"} : request' = [request EXCEPT ![p] = s]
        BY <1>5 DEF SubmitStep, CreatePaper, StoreSource, EnqueueSubmit, AbandonSubmit
    <2>2. status' = status \/ \E s : status' = [status EXCEPT ![p] = s]
        BY <1>5 DEF SubmitStep, CreatePaper, StoreSource, EnqueueSubmit, AbandonSubmit, paperVars
    <2>3. jobs' = jobs \/ \E c : jobs' = [jobs EXCEPT ![p] = c]
        BY <1>5 DEF SubmitStep, CreatePaper, StoreSource, EnqueueSubmit, AbandonSubmit, Add
    <2> QED BY <1>1, <1>3, <1>4, <2>1, <2>2, <2>3 DEF Begun
<1>6. CASE Rescind(p)
    <2>1. UNCHANGED <<request, status, jobs>>
        BY <1>6 DEF Rescind, paperVars
    <2> QED BY <1>2, <1>3, <2>1 DEF Begun, Unborn
<1>7. CASE \E r \in Retries : RetryStep(p, r)
    <2>1. PICK r \in Retries : RetryStep(p, r)
        BY <1>7
    <2>2. UNCHANGED <<request, status>> /\ \E c : jobs' = [jobs EXCEPT ![p] = c]
        BY <2>1 DEF RetryStep, RetryRead, RetryEnqueue, EditRepublish, Add, paperVars, httpVars
    <2>3. request[p] # "none"
        <3>1. status[p] # "none" \/ jobs[p][r].state = "requested"
            BY <2>1 DEF RetryStep, RetryRead, RetryEnqueue, EditRepublish
        <3> QED BY <3>1 DEF Begun, Unborn, JobNames
    <2> QED BY <1>1, <1>3, <1>4, <2>2, <2>3 DEF Begun
<1> QED BY <1>5, <1>6, <1>7

LEMMA ModerationBegun ==
    ASSUME Inv, Begun, NEW m \in Decisions, AcceptStep(m) \/ RefuseStep(m) PROVE Begun'
<1> USE DEF InMod
<1>1. /\ mod \in [Decisions -> {Idle, Answered} \cup Moderating]
      /\ status \in [Papers -> Statuses] /\ refusal \in [Papers -> {"none", "issued", "rescinded"}]
      /\ jobs \in [Papers -> [JobNames -> Job]] /\ done \in [Papers -> SUBSET Stages]
    BY DEF Inv, TypeOK, PaperTypes, RequestTypes
<1>2. request' = request
    BY DEF AcceptStep, AcceptBegin, AcceptCheck, AcceptMark, AcceptRescind, AcceptEnqueue,
           RefuseStep, RefuseStatus, ModerationFails, Refuse
<1>3. \A n \in Decisions : mod[n].pc \notin {"idle", "answered"} =>
        mod[n].paper \in Papers /\ request[mod[n].paper] # "none"
    BY ModeratorType DEF Begun, Unborn
<1>4. ASSUME NEW q \in Papers, AcceptBegin(m, q) \/ Refuse(m, q) PROVE Begun'
    <2>1. status[q] # "none"
        BY <1>4 DEF AcceptBegin, Refuse
    <2>2. /\ mod'[m].pc \in {"accepting", "refusing"} /\ mod'[m].paper = q
          /\ \A n \in Decisions \ {m} : mod'[n] = mod[n]
        BY <1>1, <1>4 DEF AcceptBegin, Refuse
    <2>3. UNCHANGED <<status, done, jobs>>
        BY <1>4 DEF AcceptBegin, Refuse, paperVars, sagaVars
    <2>4. Unborn'
        BY <1>2, <2>1, <2>2, <2>3 DEF Begun, Unborn
    <2>5. RefusedFirst'
        <3>1. CASE AcceptBegin(m, q)
            <4>1. mod'[m].pc = "accepting" /\ refusal' = refusal
                BY <1>1, <3>1 DEF AcceptBegin
            <4> QED BY <2>2, <4>1 DEF Begun, RefusedFirst
        <3>2. CASE Refuse(m, q)
            <4>1. refusal' = [refusal EXCEPT ![q] = "issued"]
                BY <3>2 DEF Refuse
            <4>2. \A r \in Papers : refusal[r] # "none" => refusal'[r] # "none"
                BY <1>1, <4>1
            <4>3. refusal'[q] # "none"
                BY <1>1, <4>1
            <4> QED BY <1>3, <2>2, <4>2, <4>3 DEF Begun, RefusedFirst
        <3> QED BY <1>4, <3>1, <3>2
    <2> QED BY <2>4, <2>5 DEF Begun
<1>5. ASSUME mod[m].pc \notin {"idle", "answered"},
             \/ mod' = [mod EXCEPT ![m] = Answered]
             \/ \E l \in {"marking", "rescinding", "enqueueing"} : mod' = [mod EXCEPT ![m].pc = l],
             status' = status \/ \E s : status' = [status EXCEPT ![mod[m].paper] = s],
             done' = done \/ \E d : done' = [done EXCEPT ![mod[m].paper] = d],
             jobs' = jobs \/ \E c : jobs' = [jobs EXCEPT ![mod[m].paper] = c],
             refusal' = refusal
                \/ refusal' = [refusal EXCEPT ![mod[m].paper] = Rescinded(refusal[mod[m].paper])]
      PROVE  Begun'
    <2>1. /\ \A n \in Decisions \ {m} : mod'[n] = mod[n]
          /\ mod'[m].pc = "answered"
                \/ (mod'[m].pc # "refusing" /\ mod'[m].paper = mod[m].paper)
        <3>1. CASE mod' = [mod EXCEPT ![m] = Answered]
            BY <1>1, <3>1 DEF Answered
        <3>2. CASE \E l \in {"marking", "rescinding", "enqueueing"} :
                      mod' = [mod EXCEPT ![m].pc = l]
            BY <1>5, <3>2, ModeratorMoves
        <3> QED BY <1>5, <3>1, <3>2
    <2>2. \A q \in Papers \ {mod[m].paper} :
            status'[q] = status[q] /\ done'[q] = done[q] /\ jobs'[q] = jobs[q]
        BY <1>1, <1>5
    <2>3. \A q \in Papers : refusal[q] # "none" => refusal'[q] # "none"
        BY <1>1, <1>5 DEF Rescinded
    <2>4. Unborn'
        BY <1>2, <1>3, <1>5, <2>1, <2>2 DEF Begun, Unborn
    <2>5. RefusedFirst'
        BY <1>3, <2>1, <2>3 DEF Begun, RefusedFirst
    <2> QED BY <2>4, <2>5 DEF Begun
<1>6. CASE AcceptCheck(m) \/ ModerationFails(m)
    <2>1. mod[m].pc \notin {"idle", "answered"}
        BY <1>6 DEF AcceptCheck, ModerationFails
    <2>2. UNCHANGED <<status, done, jobs, refusal>>
        BY <1>6 DEF AcceptCheck, ModerationFails, paperVars, sagaVars
    <2>3. \/ mod' = [mod EXCEPT ![m] = Answered]
          \/ mod' = [mod EXCEPT ![m].pc = "marking"]
        BY <1>6 DEF AcceptCheck, ModerationFails
    <2> QED BY <1>5, <2>1, <2>2, <2>3
<1>7. CASE AcceptMark(m)
    BY <1>5, <1>7 DEF AcceptMark, paperVars
<1>8. CASE AcceptRescind(m)
    <2>1. mod[m].pc = "rescinding" /\ UNCHANGED <<status, done, jobs>>
        BY <1>8 DEF AcceptRescind, paperVars, sagaVars
    <2>2. mod' = [mod EXCEPT ![m].pc = "enqueueing"]
        BY <1>8 DEF AcceptRescind
    <2>3. \/ refusal' = refusal
          \/ refusal' = [refusal EXCEPT ![mod[m].paper] = Rescinded(refusal[mod[m].paper])]
        BY <1>8 DEF AcceptRescind
    <2> QED BY <1>5, <2>1, <2>2, <2>3
<1>9. CASE AcceptEnqueue(m)
    <2>1. mod[m].pc = "enqueueing" /\ UNCHANGED <<status, done, refusal>>
          /\ mod' = [mod EXCEPT ![m] = Answered]
        BY <1>9 DEF AcceptEnqueue, paperVars, sagaVars
    <2>2. \E c : jobs' = [jobs EXCEPT ![mod[m].paper] = c]
        BY <1>9 DEF AcceptEnqueue, Add
    <2> QED BY <1>5, <2>1, <2>2
<1>10. CASE RefuseStatus(m)
    BY <1>5, <1>10 DEF RefuseStatus, sagaVars
<1> QED BY <1>4, <1>6, <1>7, <1>8, <1>9, <1>10 DEF AcceptStep, RefuseStep

-----------------------------------------------------------------------------
(* The handlers, as the slot sees them. *)

LEMMA SubmitSolo ==
    ASSUME OneSlot, Inv, Begun, Solo, NEW p \in Papers,
           (SubmitStep(p) \/ Rescind(p)) \/ \E r \in Retries : RetryStep(p, r)
    PROVE  Solo'
<1>1. /\ UNCHANGED <<wk, done, uri, version, records, posts, notes>>
      /\ faults' = faults \/ Fault
    BY DEF SubmitStep, CreatePaper, StoreSource, EnqueueSubmit, AbandonSubmit, Rescind, RetryStep,
           RetryRead, RetryEnqueue, EditRepublish, paperVars, sagaVars, remote, httpVars
<1>2. /\ status \in [Papers -> Statuses] /\ refusal \in [Papers -> {"none", "issued", "rescinded"}]
    BY DEF Inv, TypeOK, PaperTypes, RequestTypes
<1>3. \A q \in Papers : refusal'[q] = "none" => refusal[q] = "none"
    <2>1. refusal' = refusal \/ refusal' = [refusal EXCEPT ![p] = "rescinded"]
        BY DEF SubmitStep, CreatePaper, StoreSource, EnqueueSubmit, AbandonSubmit, Rescind,
               RetryStep, RetryRead, RetryEnqueue, EditRepublish, httpVars
    <2> QED BY <1>2, <2>1
<1>4. ASSUME NEW q \in Papers,
             PdsPaper \in done[q] \/ \E v \in Workers : wk[v].pc # "idle" /\ wk[v].paper = q
      PROVE  status'[q] = status[q]
    <2>1. request[q] # "none"
        BY <1>4, BusyIsBorn DEF Begun, Unborn
    <2>2. status' = status \/ (request[p] = "none" /\ \E s : status' = [status EXCEPT ![p] = s])
        BY DEF SubmitStep, CreatePaper, StoreSource, EnqueueSubmit, AbandonSubmit, Rescind,
               RetryStep, RetryRead, RetryEnqueue, EditRepublish, paperVars
    <2> QED BY <1>2, <2>1, <2>2
<1>5. Approves /\ LeavesStatus
    BY <1>1, <1>3, <1>4 DEF Approves, LeavesStatus
<1> QED BY <1>1, <1>5, HandlerStep

LEMMA ModerationSolo ==
    ASSUME OneSlot, Inv, Begun, Solo, NEW m \in Decisions, AcceptStep(m) \/ RefuseStep(m)
    PROVE  Solo'
<1> USE DEF InMod
<1>1. /\ UNCHANGED <<wk, uri, version, records, posts, notes>>
      /\ faults' = faults \/ Fault
    BY DEF AcceptStep, AcceptBegin, AcceptCheck, AcceptMark, AcceptRescind, AcceptEnqueue,
           RefuseStep, RefuseStatus, ModerationFails, Refuse, paperVars, remote
<1>2. /\ status \in [Papers -> Statuses] /\ done \in [Papers -> SUBSET Stages]
      /\ refusal \in [Papers -> {"none", "issued", "rescinded"}]
    BY DEF Inv, TypeOK, PaperTypes, RequestTypes
<1>3. Approves
    <2>1. done' = done \/ \E q : done' = [done EXCEPT ![q] = @ \cup {Approved}]
        BY DEF AcceptStep, AcceptBegin, AcceptCheck, AcceptMark, AcceptRescind, AcceptEnqueue,
               RefuseStep, RefuseStatus, ModerationFails, Refuse, sagaVars
    <2> QED BY <1>2, <2>1 DEF Approves
<1>4. \A q \in Papers : refusal'[q] = "none" => refusal[q] = "none"
    <2>1. \/ refusal' = refusal
          \/ \E q : refusal' = [refusal EXCEPT ![q] = "issued"]
          \/ \E q : refusal' = [refusal EXCEPT ![q] = Rescinded(refusal[q])]
        <3>1. CASE \E q \in Papers : Refuse(m, q)
            BY <3>1 DEF Refuse
        <3>2. CASE AcceptRescind(m)
            BY <3>2 DEF AcceptRescind
        <3> QED BY <3>1, <3>2 DEF AcceptStep, AcceptBegin, AcceptCheck, AcceptMark,
                   AcceptEnqueue, RefuseStep, RefuseStatus, ModerationFails
    <2> QED BY <1>2, <2>1 DEF Rescinded
<1>5. ASSUME NEW q \in Papers, refusal'[q] = "none" PROVE status'[q] = status[q]
    <2>1. CASE RefuseStatus(m)
        <3>1. /\ refusal' = refusal /\ mod[m].pc = "refusing"
              /\ status' = [status EXCEPT ![mod[m].paper] = mod[m].target]
            BY <2>1 DEF RefuseStatus
        <3>2. refusal[mod[m].paper] # "none"
            BY <3>1 DEF Begun, RefusedFirst
        <3> QED BY <1>2, <1>5, <3>1, <3>2
    <2>2. CASE ~RefuseStatus(m)
        BY <2>2 DEF AcceptStep, AcceptBegin, AcceptCheck, AcceptMark, AcceptRescind,
               AcceptEnqueue, RefuseStep, ModerationFails, Refuse, paperVars
    <2> QED BY <2>1, <2>2
<1>6. LeavesStatus
    BY <1>4, <1>5 DEF LeavesStatus
<1> HIDE DEF InMod
<1> QED BY <1>1, <1>3, <1>6, HandlerStep

LEMMA WorkerSolo ==
    ASSUME OneSlot, Inv, Inv', Evidence, Solo, NEW w \in Workers, WorkerStep(w) \/ Crash(w)
    PROVE  Solo'
<1>1. CASE FlowStep(w)
    BY <1>1, FlowSolo, HoldSolo, MarkSolo, FailSolo DEF FlowStep
<1>2. CASE CompileStep(w) \/ Allocate(w) \/ PutNotes(w) \/ BridgeStep(w)
    BY <1>2, EarlySolo, NotesSolo, BridgeSolo
<1>3. CASE PublishStep(w)
    BY <1>3, PublishSolo, FlowSolo DEF PublishStep
<1>4. CASE \/ CompleteJob(w) \/ FailJob(w) \/ Crash(w)
           \/ \E p \in Papers, j \in JobNames : Take(w, p, j)
    BY <1>4, FailSolo
<1> QED BY <1>1, <1>2, <1>3, <1>4 DEF WorkerStep

-----------------------------------------------------------------------------
LEMMA InitSolo == Init => Solo /\ Begun
<1> SUFFICES ASSUME Init PROVE Solo /\ Begun
    OBVIOUS
<1>1. \A w \in Workers : wk[w].pc = "idle"
    BY DEF Init, Idle
<1>2. Alone
    BY <1>1 DEF Init, Alone, Paid, Spent, InStep
<1>3. Calm
    BY <1>1 DEF Init, Calm, LocalPcs, Publishing
<1>4. Begun
    BY DEF Init, Begun, Unborn, RefusedFirst, Idle, NoJob
<1> QED BY <1>2, <1>3, <1>4 DEF Solo

LEMMA InductiveSolo ==
    ASSUME OneSlot
    PROVE  Inv /\ Evidence /\ Solo /\ Begun /\ [Next]_vars => Solo' /\ Begun'
<1> SUFFICES ASSUME Inv, Evidence, Solo, Begun, [Next]_vars PROVE Solo' /\ Begun'
    OBVIOUS
<1>1. Inv'
    BY InductiveInv
<1>2. ASSUME NEW p \in Papers, SubmitStep(p) \/ Rescind(p) PROVE Solo' /\ Begun'
    BY <1>2, SubmitSolo, SubmitBegun
<1>3. ASSUME NEW p \in Papers, NEW r \in Retries, RetryStep(p, r) PROVE Solo' /\ Begun'
    BY <1>3, SubmitSolo, SubmitBegun
<1>4. ASSUME NEW m \in Decisions, AcceptStep(m) \/ RefuseStep(m) PROVE Solo' /\ Begun'
    BY <1>4, ModerationSolo, ModerationBegun
<1>5. ASSUME NEW w \in Workers, WorkerStep(w) \/ Crash(w) PROVE Solo' /\ Begun'
    BY <1>1, <1>5, WorkerSolo, WorkerBegun
<1>6. CASE UNCHANGED vars
    <2>1. UNCHANGED <<wk, done, uri, version, records, posts, notes, faults, status, refusal,
                      request, mod, jobs>>
        BY <1>6 DEF vars, paperVars, sagaVars, remote, httpVars
    <2>2. Begun'
        BY <2>1 DEF Begun, Unborn, RefusedFirst
    <2> QED BY <2>1, <2>2, HandlerStep DEF Approves, LeavesStatus
<1> QED BY <1>2, <1>3, <1>4, <1>5, <1>6 DEF Next

\* With one slot no snapshot is stale, and every repeated write is paid for.
THEOREM SoloHolds == ASSUME OneSlot PROVE Spec => [](Inv /\ Evidence /\ Solo /\ Begun)
BY InitInv, InductiveInv, InitEvidence, InductiveEvidence, InitSolo, InductiveSolo, PTL DEF Spec

\* With one slot a remote write (record, note, post) is repeated only after a
\* failure or a crash: the saga's idempotence, as far as it goes
\* (publish-saga.ts runs every stage against the row it re-reads).
THEOREM DuplicatesArePaid == ASSUME OneSlot PROVE Spec => []DuplicatesNeedFaults
<1>1. Inv /\ Solo => DuplicatesNeedFaults
    <2>1. Inv => /\ faults \in Nat
                 /\ \A p \in Papers : records[p] \in Nat /\ posts[p] \in Nat /\ notes[p] \in Nat
        BY SagaAssumption DEF Inv, TypeOK, EffectTypes
    <2>2. ASSUME Inv, NEW n \in Nat, NEW kept, Spent(n, kept) PROVE n > 0 => n - 1 <= faults
        BY <2>1, <2>2 DEF Spent
    <2> QED BY <2>1, <2>2 DEF Solo, Alone, Paid, DuplicatesNeedFaults
<1> QED BY <1>1, SoloHolds, PTL

\* With one slot and no failure, a finished paper that was never refused is
\* published when no job of it runs.
THEOREM HiddenIsPaid == ASSUME OneSlot PROVE Spec => []HiddenNeedsFaults
<1>1. Solo => HiddenNeedsFaults
    <2>1. PdsPaper \in Stages
        BY DEF PdsPaper, Stages
    <2> QED BY <2>1 DEF Solo, Calm, HiddenNeedsFaults, FinishedIsPublished
<1> QED BY <1>1, SoloHolds, PTL

\* The only step that writes a uri writes it where there was none.
LEMMA UriSteps ==
    ASSUME OneSlot, Inv, Evidence, Solo, [Next]_vars
    PROVE  \A p \in Papers : uri[p] # 0 => uri'[p] = uri[p]
<1>1. ASSUME NEW w \in Workers, SetUri(w)
      PROVE  \A p \in Papers : uri[p] # 0 => uri'[p] = uri[p]
    <2>1. /\ wk[w].pc = "setUri" /\ uri' = [uri EXCEPT ![wk[w].paper] = wk[w].wrote]
        BY <1>1 DEF SetUri, At
    <2>2. "setUri" \in StagePcs \ UriPcs /\ wk[w].pc # "idle"
        BY <2>1 DEF StagePcs, PublishPcs, UriPcs, LocalPcs
    <2>3. uri[wk[w].paper] = 0
        BY <2>1, <2>2 DEF Solo, Alone, InStep
    <2> QED BY <2>1, <2>3 DEF Inv, TypeOK, PaperTypes
<1>2. ASSUME NEW w \in Workers, WorkerStep(w) \/ Crash(w), ~SetUri(w) PROVE uri' = uri
    <2>1. CASE FlowStep(w)
        BY <2>1 DEF FlowStep, LoadSaga, LoadPaper, Hold, HoldFails, Reread, MarkStageDone,
                    NextSaga, StageFails, SummaryFails, Unwind, LocalStep, paperVars
    <2>2. CASE CompileStep(w) \/ Allocate(w) \/ PutNotes(w)
        BY <2>2 DEF CompileStep, GetSource, LatestVersion, AddVersion, SetHtml, Extract,
                    Allocate, PutNotes, LocalStep, paperVars
    <2>3. CASE PublishStep(w)
        BY <1>2, <2>3 DEF PublishStep, PutRecord, SetPublished, Confirm, PublishFails,
                    LocalPublish, LocalFinalize, LocalSocial, RecordUnavailable, Enqueue,
                    LocalStep, paperVars
    <2>4. CASE BridgeStep(w)
        BY <2>4 DEF BridgeStep, ReadVersion, Post, SetBridgeResult, BridgeFails, FinalizeJob,
                    SocialJob, Enqueue, LocalStep, paperVars
    <2>5. CASE \/ CompleteJob(w) \/ FailJob(w) \/ Crash(w)
               \/ \E p \in Papers, j \in JobNames : Take(w, p, j)
        BY <2>5 DEF CompleteJob, FailJob, Crash, EndJob, Take, paperVars
    <2> QED BY <1>2, <2>1, <2>2, <2>3, <2>4, <2>5 DEF WorkerStep
<1>3. ASSUME NEW p \in Papers, SubmitStep(p) \/ Rescind(p) PROVE uri' = uri
    BY <1>3 DEF SubmitStep, CreatePaper, StoreSource, EnqueueSubmit, AbandonSubmit, Rescind,
                paperVars
<1>4. ASSUME NEW p \in Papers, NEW r \in Retries, RetryStep(p, r) PROVE uri' = uri
    BY <1>4 DEF RetryStep, RetryRead, RetryEnqueue, EditRepublish, paperVars
<1>5. ASSUME NEW m \in Decisions, AcceptStep(m) \/ RefuseStep(m) PROVE uri' = uri
    BY <1>5 DEF AcceptStep, AcceptBegin, AcceptCheck, AcceptMark, AcceptRescind, AcceptEnqueue,
                RefuseStep, RefuseStatus, ModerationFails, Refuse, paperVars
<1>6. CASE UNCHANGED vars
    BY <1>6 DEF vars, paperVars
<1> QED BY <1>1, <1>2, <1>3, <1>4, <1>5, <1>6 DEF Next

\* With one slot a uri, once set, keeps naming the same record: links and
\* citations that took it stay good.
THEOREM UrisAreStable == ASSUME OneSlot PROVE Spec => UriIsStable
<1>1. Inv /\ Evidence /\ Solo /\ [Next]_vars =>
          [\A p \in Papers : uri[p] # 0 => uri'[p] = uri[p]]_vars
    BY UriSteps
<1> QED BY <1>1, SoloHolds, PTL DEF Spec, UriIsStable
=============================================================================
