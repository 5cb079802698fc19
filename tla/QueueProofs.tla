----------------------------- MODULE QueueProofs -----------------------------
(***************************************************************************)
(* Announcements are paid for, a final PDF is up to date, follow jobs leave   *)
(* one record and what was asked for last, and the firehose subscriber skips  *)
(* no mention, for every number of jobs, slots, attempts, stalls, failures    *)
(* and revisions; and the background jobs together keep all of that.          *)
(***************************************************************************)
EXTENDS MCQueues, FiniteSetTheorems, TLAPS

-----------------------------------------------------------------------------
(* Jobs. *)

\* A job that may still run has an attempt left, and a stall before it fails.
GoodJob(job, attempts, stalls) ==
    /\ job \in JobSet(attempts, stalls)
    /\ job.state \in {"none", "waiting", "active"} =>
           job.attempts < attempts /\ job.stalls <= stalls

\* What the queue does to a job keeps its counters within its options, and an
\* active job is not taken twice.
LEMMA JobSteps ==
    ASSUME NEW attempts \in Nat \ {0}, NEW stalls \in Nat, NEW job, GoodJob(job, attempts, stalls)
    PROVE  /\ GoodJob(Added(job), attempts, stalls)
           /\ job.state # "none" => Added(job) = job
           /\ job.state = "none" => Added(job).state = "waiting"
           /\ job.state = "waiting" => GoodJob(Taken(job), attempts, stalls)
           /\ Taken(job).state = "active"
           /\ GoodJob(Completed(job), attempts, stalls) /\ Completed(job).state = "done"
           /\ job.state = "active" => \A terminal \in BOOLEAN :
                /\ GoodJob(Retried(job, terminal, attempts), attempts, stalls)
                /\ Retried(job, terminal, attempts).state \in {"waiting", "failed"}
           /\ job.state = "active" =>
                /\ GoodJob(Stalled(job, stalls), attempts, stalls)
                /\ Stalled(job, stalls).state \in {"waiting", "failed"}
<1> USE DEF JobStates
<1>0. /\ job \in [state: JobStates, attempts: 0..attempts, stalls: 0..(stalls + 1)]
      /\ job.attempts \in 0..attempts /\ job.stalls \in 0..(stalls + 1)
      /\ job.state \in {"none", "waiting", "active"} =>
             job.attempts < attempts /\ job.stalls <= stalls
    BY DEF GoodJob, JobSet
<1>1. /\ GoodJob(Added(job), attempts, stalls)
      /\ job.state # "none" => Added(job) = job
      /\ job.state = "none" => Added(job).state = "waiting"
    BY <1>0 DEF GoodJob, JobSet, Added
<1>2. /\ job.state = "waiting" => GoodJob(Taken(job), attempts, stalls)
      /\ Taken(job).state = "active"
    BY <1>0 DEF GoodJob, JobSet, Taken
<1>3. GoodJob(Completed(job), attempts, stalls) /\ Completed(job).state = "done"
    BY <1>0 DEF GoodJob, JobSet, Completed
<1>4. ASSUME job.state = "active", NEW terminal \in BOOLEAN
      PROVE  /\ GoodJob(Retried(job, terminal, attempts), attempts, stalls)
             /\ Retried(job, terminal, attempts).state \in {"waiting", "failed"}
    <2> DEFINE n == job.attempts + 1
               next == IF terminal \/ n = attempts THEN "failed" ELSE "waiting"
    <2>1. n \in 0..attempts /\ (next = "waiting" => n < attempts)
        BY <1>0, <1>4
    <2>2. next \in {"waiting", "failed"}
        OBVIOUS
    <2>3. Retried(job, terminal, attempts) = [job EXCEPT !.attempts = n, !.state = next]
        BY <1>0 DEF Retried
    <2> HIDE DEF n, next
    <2> QED BY <1>0, <1>4, <2>1, <2>2, <2>3 DEF GoodJob, JobSet
<1>5. ASSUME job.state = "active"
      PROVE  /\ GoodJob(Stalled(job, stalls), attempts, stalls)
             /\ Stalled(job, stalls).state \in {"waiting", "failed"}
    <2> DEFINE n == job.stalls + 1
               next == IF job.stalls = stalls THEN "failed" ELSE "waiting"
    <2>1. n \in 0..(stalls + 1) /\ (next = "waiting" => n <= stalls)
        BY <1>0, <1>5
    <2>2. next \in {"waiting", "failed"}
        OBVIOUS
    <2>3. Stalled(job, stalls) = [job EXCEPT !.stalls = n, !.state = next]
        BY <1>0 DEF Stalled
    <2> HIDE DEF n, next
    <2> QED BY <1>0, <1>5, <2>1, <2>2, <2>3 DEF GoodJob, JobSet
<1> QED BY <1>1, <1>2, <1>3, <1>4, <1>5

LEMMA NewJobGood ==
    ASSUME NEW attempts \in Nat \ {0}, NEW stalls \in Nat
    PROVE  GoodJob(NewJob, attempts, stalls) /\ NewJob.state = "none"
BY DEF GoodJob, JobSet, JobStates, NewJob

-----------------------------------------------------------------------------
(* The announcement of a version.  An attempt that has lost its job may still *)
(* announce, and so may the one that has the job: the ledger counts the first *)
(* as paid for when the lock is lost, and shows that the second finds no toot *)
(* that is recorded or about to be.                                           *)

\* The calls between a look at the status id and the toot.
Undecided == {"account", "pending", "post"}

\* This attempt has lost its job and may yet announce.
Owes(s) == ~s.mine /\ s.pc \in Undecided \cup {"load"}

Owing == {w \in PushSlots : Owes(pusher[w])}

Expected == toots + Cardinality(Owing)

\* Only one attempt has the job, and only while the job is active.
OneOwner ==
    \A w \in PushSlots :
        /\ pusher[w].mine => pushJob.state = "active" /\ pusher[w].pc # "idle"
        /\ pusher[w].pc = "record" => pusher[w].posted # 0
        /\ \A v \in PushSlots : pusher[v].mine /\ pusher[w].mine => v = w

Ledger ==
    /\ Expected <= 1 + unheard
    /\ (\E w \in PushSlots : pusher[w].mine /\ pusher[w].pc \in Undecided) => Expected <= unheard
    /\ statusId = 0 /\ (\A w \in PushSlots : ~(pusher[w].mine /\ pusher[w].pc = "record"))
           => Expected <= unheard

PushInv ==
    /\ PushTypeOK /\ GoodJob(pushJob, MaxPushAttempts, MaxPushStalls)
    /\ OneOwner /\ Ledger

LEMMA OwingIsFinite == IsFiniteSet(Owing) /\ Cardinality(Owing) \in Nat
<1>1. Owing \subseteq PushSlots /\ IsFiniteSet(PushSlots)
    BY PushAssumption DEF Owing
<1> QED BY <1>1, FS_Subset, FS_CardinalityType

\* How a step of one slot moves the count.
LEMMA OwingMoves ==
    ASSUME PushTypeOK, NEW w \in PushSlots, NEW s, pusher' = [pusher EXCEPT ![w] = s],
           NEW k \in Nat, k = Cardinality(Owing)
    PROVE  /\ (Owes(s) <=> Owes(pusher[w])) => Cardinality(Owing') = k
           /\ Owes(s) /\ ~Owes(pusher[w]) => Cardinality(Owing') = k + 1
           /\ ~Owes(s) /\ Owes(pusher[w]) => Cardinality(Owing') = k - 1 /\ k > 0
<1>1. pusher'[w] = s /\ \A v \in PushSlots \ {w} : pusher'[v] = pusher[v]
    BY DEF PushTypeOK
<1>2. Owing' = {v \in PushSlots : Owes(pusher'[v])}
    BY DEF Owing, Owes
<1>3. CASE (Owes(s) <=> Owes(pusher[w]))
    <2>1. Owing' = Owing
        BY <1>1, <1>2, <1>3 DEF Owing
    <2> QED BY <1>3, <2>1, OwingIsFinite
<1>4. CASE Owes(s) /\ ~Owes(pusher[w])
    <2>1. Owing' = Owing \cup {w} /\ w \notin Owing
        BY <1>1, <1>2, <1>4 DEF Owing
    <2> QED BY <1>4, <2>1, OwingIsFinite, FS_AddElement
<1>5. CASE ~Owes(s) /\ Owes(pusher[w])
    <2>1. Owing' = Owing \ {w} /\ w \in Owing
        BY <1>1, <1>2, <1>5 DEF Owing
    <2>2. Cardinality(Owing) # 0
        BY <2>1, OwingIsFinite, FS_EmptySet
    <2>3. Cardinality(Owing') = k - 1
        BY <2>1, OwingIsFinite, FS_RemoveElement
    <2> QED BY <1>5, <2>2, <2>3
<1> QED BY <1>3, <1>4, <1>5

LEMMA PushTypes ==
    ASSUME PushTypeOK, NEW w \in PushSlots
    PROVE  /\ pusher[w] \in PusherStates /\ pusher[w].mine \in BOOLEAN
           /\ pusher[w].posted \in Nat /\ statusId \in Nat /\ toots \in Nat /\ unheard \in Nat
BY DEF PushTypeOK, PusherStates

\* The ownership of the job after a step of one slot.
LEMMA OwnersKept ==
    ASSUME PushTypeOK, OneOwner, NEW w \in PushSlots, NEW s, pusher' = [pusher EXCEPT ![w] = s],
           s.mine => pusher[w].mine /\ s.pc # "idle" /\ pushJob' = pushJob,
           pushJob' # pushJob => pusher[w].mine,
           s.pc = "record" => s.posted # 0
    PROVE  OneOwner'
<1>1. pusher'[w] = s /\ \A v \in PushSlots \ {w} : pusher'[v] = pusher[v]
    BY DEF PushTypeOK
<1> QED BY <1>1 DEF OneOwner

\* The ledger after a step of one slot that the expected toots do not outgrow.
LEMMA LedgerKept ==
    ASSUME PushTypeOK, Ledger, NEW w \in PushSlots, NEW s, pusher' = [pusher EXCEPT ![w] = s],
           NEW e \in Nat, NEW e1 \in Nat, Expected = e, Expected' = e1,
           NEW d \in Nat, NEW d1 \in Nat, unheard = d, unheard' = d1, e1 + d <= e + d1,
           s.mine /\ s.pc \in Undecided => e1 <= d1,
           statusId' = 0 => statusId = 0,
           statusId' = 0 /\ pusher[w].mine /\ pusher[w].pc = "record"
               /\ ~(s.mine /\ s.pc = "record") => e1 <= d1
    PROVE  Ledger'
<1>1. pusher'[w] = s /\ \A v \in PushSlots \ {w} : pusher'[v] = pusher[v]
    BY DEF PushTypeOK
<1>2. e1 <= 1 + d1
    BY DEF Ledger
<1>3. e <= d => e1 <= d1
    OBVIOUS
<1>4. ASSUME NEW v \in PushSlots, pusher'[v].mine, pusher'[v].pc \in Undecided
      PROVE  e1 <= d1
    BY <1>1, <1>3, <1>4 DEF Ledger
<1>5. ASSUME statusId' = 0, \A v \in PushSlots : ~(pusher'[v].mine /\ pusher'[v].pc = "record")
      PROVE  e1 <= d1
    <2>1. CASE pusher[w].mine /\ pusher[w].pc = "record"
        BY <1>1, <1>5, <2>1
    <2>2. CASE ~(pusher[w].mine /\ pusher[w].pc = "record")
        <3>1. \A v \in PushSlots : ~(pusher[v].mine /\ pusher[v].pc = "record")
            BY <1>1, <1>5, <2>2
        <3> QED BY <1>3, <1>5, <3>1 DEF Ledger
    <2> QED BY <2>1, <2>2
<1> QED BY <1>2, <1>4, <1>5 DEF Ledger

\* A step within an attempt.
LEMMA GoOnInv ==
    ASSUME PushInv, NEW w \in PushSlots,
           NEW l \in {"account", "skip", "pending", "post", "throw", "done"}, GoOn(w, l),
           UNCHANGED <<pushJob, link, relinks>>,
           PushTypeOK', pusher[w].pc # "idle",
           \/ UNCHANGED <<toots, unheard>>
           \/ unheard' = unheard + 1 /\ toots' \in {toots, toots + 1},
           l \in Undecided => pusher[w].pc \in Undecided \cup {"load"},
           pusher[w].mine /\ l \in Undecided => Expected <= unheard,
           statusId' = 0 => statusId = 0,
           statusId' = 0 /\ pusher[w].pc = "record" => unheard' = unheard + 1 /\ toots' = toots
    PROVE  PushInv'
<1> DEFINE s == [pusher[w] EXCEPT !.pc = l]
<1>1. pusher' = [pusher EXCEPT ![w] = s] /\ s.pc = l /\ s.mine = pusher[w].mine
    BY PushTypes DEF GoOn, PushInv, PusherStates
<1>2. PushTypeOK /\ OneOwner /\ Ledger
    BY DEF PushInv
<1> HIDE DEF s
<1>3. OneOwner'
    BY <1>1, <1>2, OwnersKept
<1>4. PICK k \in Nat, k1 \in Nat : k = Cardinality(Owing) /\ k1 = Cardinality(Owing') /\ k1 <= k
    <2>1. Owes(s) => Owes(pusher[w])
        BY <1>1 DEF Owes
    <2>2. PICK k \in Nat : k = Cardinality(Owing)
        BY OwingIsFinite
    <2>3. Cardinality(Owing') = k \/ (Cardinality(Owing') = k - 1 /\ k > 0)
        BY <1>1, <1>2, <2>1, <2>2, OwingMoves
    <2> QED BY <2>2, <2>3
<1>5. PICK t \in Nat, d \in Nat : t = toots /\ d = unheard
    BY <1>2 DEF PushTypeOK
<1>6. PICK t1 \in Nat, d1 \in Nat : t1 = toots' /\ d1 = unheard' /\ t1 + d <= t + d1
    <2>1. CASE UNCHANGED <<toots, unheard>>
        BY <1>5, <2>1
    <2>2. CASE unheard' = unheard + 1 /\ toots' = toots
        BY <1>5, <2>2
    <2>3. CASE unheard' = unheard + 1 /\ toots' = toots + 1
        BY <1>5, <2>3
    <2> QED BY <2>1, <2>2, <2>3
<1>7. Expected = t + k /\ Expected' = t1 + k1 /\ t1 + k1 + d <= t + k + d1
    BY <1>4, <1>5, <1>6 DEF Expected
<1>8. Expected <= unheard => t + k <= d
    BY <1>5, <1>7
<1>9. s.mine /\ s.pc \in Undecided => t1 + k1 <= d1
    BY <1>1, <1>7, <1>8
<1>10. statusId' = 0 /\ pusher[w].pc = "record" => t1 + k1 <= d1
    <2>1. t + k <= 1 + d
        BY <1>2, <1>5, <1>7 DEF Ledger
    <2>2. statusId' = 0 /\ pusher[w].pc = "record" => d1 = d + 1 /\ t1 = t
        BY <1>5, <1>6
    <2> QED BY <1>4, <2>1, <2>2
<1> DEFINE e == t + k
           e1 == t1 + k1
<1>11. Ledger'
    <2>1. e \in Nat /\ e1 \in Nat /\ Expected = e /\ Expected' = e1 /\ e1 + d <= e + d1
        BY <1>7
    <2>2. /\ s.mine /\ s.pc \in Undecided => e1 <= d1
          /\ statusId' = 0 /\ pusher[w].pc = "record" => e1 <= d1
        BY <1>9, <1>10
    <2> HIDE DEF e, e1
    <2> QED BY <1>1, <1>2, <1>5, <1>6, <2>1, <2>2, LedgerKept
<1> QED BY <1>3, <1>11 DEF PushInv

LEMMA PushInitInv == PushInit => PushInv
<1> SUFFICES ASSUME PushInit PROVE PushInv
    OBVIOUS
<1>1. GoodJob(pushJob, MaxPushAttempts, MaxPushStalls)
    BY NewJobGood, PushAssumption DEF PushInit
<1>2. \A w \in PushSlots : pusher[w].pc = "idle" /\ ~pusher[w].mine
    BY DEF PushInit, NoPush
<1>3. PushTypeOK
    BY <1>1, PushAssumption DEF PushInit, PushTypeOK, NoPush, PusherStates, GoodJob
<1>4. Owing = {}
    BY <1>2 DEF Owing, Owes, Undecided
<1>5. Expected = 0 /\ unheard = 0
    BY <1>4, FS_EmptySet DEF Expected, PushInit
<1> QED BY <1>1, <1>2, <1>3, <1>5 DEF PushInv, OneOwner, Ledger

\* The reads, the writes of the row and the failures of an attempt.
LEMMA AttemptInv ==
    ASSUME PushInv, NEW w \in PushSlots,
           \/ LoadVersion(w) \/ FindAccount(w) \/ Skip(w) \/ MarkPending(w)
           \/ RecordToot(w) \/ PushCallFails(w) \/ \E b \in BOOLEAN : PostFails(w, b)
    PROVE  PushInv'
<1> DEFINE steps == {"account", "skip", "pending", "post", "throw", "done"}
<1>1. PushTypeOK /\ OneOwner /\ Ledger /\ GoodJob(pushJob, MaxPushAttempts, MaxPushStalls)
    BY DEF PushInv
<1>2. /\ toots \in Nat /\ unheard \in Nat /\ statusId \in Nat /\ toots + 1 \in Nat
      /\ unheard + 1 \in Nat /\ pushFaults \in 0..MaxPushFaults /\ MaxPushFaults \in Nat
      /\ pusher[w] \in PusherStates
    BY <1>1, PushTypes, PushAssumption DEF PushTypeOK
<1>3. PushFault => pushFaults' \in 0..MaxPushFaults
    BY <1>2 DEF PushFault
<1>4. ASSUME NEW l \in steps, GoOn(w, l) PROVE pusher' \in [PushSlots -> PusherStates]
    <2>1. [pusher[w] EXCEPT !.pc = l] \in PusherStates
        BY <1>2, <1>4 DEF PusherStates
    <2> QED BY <1>1, <1>4, <2>1 DEF PushTypeOK, GoOn
<1>5. CASE LoadVersion(w)
    <2> DEFINE l == IF statusId # 0 THEN "done" ELSE "account"
    <2>1. /\ pusher[w].pc = "load" /\ GoOn(w, l) /\ l \in steps
          /\ UNCHANGED <<pushRow, toots, pushJob, link, unheard, pushFaults, relinks>>
        BY <1>5 DEF LoadVersion, PushAt
    <2>2. PushTypeOK'
        BY <1>1, <1>4, <2>1 DEF PushTypeOK, pushRow
    <2>3. ASSUME pusher[w].mine, l \in Undecided PROVE Expected <= unheard
        <3>1. statusId = 0 /\ \A v \in PushSlots : ~(pusher[v].mine /\ pusher[v].pc = "record")
            BY <1>1, <2>1, <2>3 DEF OneOwner, Undecided
        <3> QED BY <1>1, <3>1 DEF Ledger
    <2> HIDE DEF l
    <2> QED BY <2>1, <2>2, <2>3, GoOnInv DEF pushRow
<1>6. CASE FindAccount(w)
    <2> DEFINE l == IF link THEN "pending" ELSE "skip"
    <2>1. /\ pusher[w].pc = "account" /\ GoOn(w, l) /\ l \in steps
          /\ UNCHANGED <<pushRow, toots, pushJob, link, unheard, pushFaults, relinks>>
        BY <1>6 DEF FindAccount, PushAt
    <2>2. PushTypeOK'
        BY <1>1, <1>4, <2>1 DEF PushTypeOK, pushRow
    <2>3. pusher[w].mine => Expected <= unheard
        BY <1>1, <2>1 DEF Ledger, Undecided
    <2> HIDE DEF l
    <2> QED BY <2>1, <2>2, <2>3, GoOnInv DEF pushRow, Undecided
<1>7. CASE Skip(w)
    <2>1. /\ pusher[w].pc = "skip" /\ GoOn(w, "done") /\ pushFaults' \in 0..MaxPushFaults
          /\ pushStatus' \in {pushStatus, "skipped"}
          /\ UNCHANGED <<statusId, toots, pushJob, link, unheard, relinks>>
        BY <1>2, <1>3, <1>7 DEF Skip, PushAt
    <2>2. PushTypeOK'
        BY <1>1, <1>4, <2>1 DEF PushTypeOK
    <2> QED BY <2>1, <2>2, GoOnInv DEF Undecided
<1>8. CASE RecordToot(w)
    <2>1. /\ pusher[w].pc = "record" /\ GoOn(w, "done") /\ pushStatus' = "posted"
          /\ statusId' = pusher[w].posted
          /\ UNCHANGED <<toots, pushJob, link, unheard, pushFaults, relinks>>
        BY <1>8 DEF RecordToot, PushAt
    <2>2. PushTypeOK'
        BY <1>1, <1>2, <1>4, <2>1 DEF PushTypeOK, PusherStates
    <2>3. statusId' # 0
        BY <1>1, <2>1 DEF OneOwner
    <2> QED BY <2>1, <2>2, <2>3, GoOnInv DEF Undecided
<1>9. CASE PushCallFails(w)
    <2>1. /\ pusher[w].pc \in {"load", "account", "pending", "record"} /\ GoOn(w, "throw")
          /\ pushFaults' \in 0..MaxPushFaults
          /\ UNCHANGED <<pushRow, toots, pushJob, link, relinks>>
          /\ IF pusher[w].pc = "record" THEN unheard' = unheard + 1 ELSE unheard' = unheard
        BY <1>3, <1>9 DEF PushCallFails, PushAt
    <2>2. PushTypeOK'
        BY <1>1, <1>2, <1>4, <2>1 DEF PushTypeOK, pushRow
    <2> QED BY <2>1, <2>2, GoOnInv DEF Undecided, pushRow
<1>10. CASE \E b \in BOOLEAN : PostFails(w, b)
    <2>1. /\ pusher[w].pc = "post" /\ GoOn(w, "throw") /\ pushFaults' \in 0..MaxPushFaults
          /\ pushStatus' \in {pushStatus, "failed"}
          /\ UNCHANGED <<statusId, pushJob, link, relinks>>
          /\ \/ UNCHANGED <<toots, unheard>>
             \/ unheard' = unheard + 1 /\ toots' = toots + 1
        BY <1>3, <1>10 DEF PostFails, PushAt
    <2>2. PushTypeOK'
        BY <1>1, <1>2, <1>4, <2>1 DEF PushTypeOK
    <2> QED BY <2>1, <2>2, GoOnInv DEF Undecided
<1>11. CASE MarkPending(w)
    <2>1. /\ pusher[w].pc = "pending" /\ GoOn(w, "post") /\ pushStatus' = "pending"
          /\ UNCHANGED <<statusId, toots, pushJob, link, unheard, pushFaults, relinks>>
        BY <1>11 DEF MarkPending, PushAt
    <2>2. PushTypeOK'
        BY <1>1, <1>4, <2>1 DEF PushTypeOK
    <2>3. pusher[w].mine => Expected <= unheard
        BY <1>1, <2>1 DEF Ledger, Undecided
    <2> QED BY <2>1, <2>2, <2>3, GoOnInv DEF Undecided
<1> QED BY <1>5, <1>6, <1>7, <1>8, <1>9, <1>10, <1>11

\* An attempt begins, ends, or loses its job, which is paid for if it goes on.
LEMMA LedgerPaid ==
    ASSUME PushTypeOK, Ledger, NEW w \in PushSlots, NEW s, pusher' = [pusher EXCEPT ![w] = s],
           UNCHANGED <<toots, statusId>>, s.mine => s.pc = "load",
           \/ /\ unheard' = unheard
              /\ Owes(s) => Owes(pusher[w])
              /\ ~(pusher[w].mine /\ pusher[w].pc = "record")
           \/ unheard' = unheard + 1 /\ (pusher[w].pc = "record" => ~Owes(s))
    PROVE  Ledger'
<1>1. PICK t \in Nat, d \in Nat, k \in Nat : t = toots /\ d = unheard /\ k = Cardinality(Owing)
    BY OwingIsFinite DEF PushTypeOK
<1>2. PICK k1 \in Nat : /\ k1 = Cardinality(Owing') /\ k1 <= k + 1
                        /\ (Owes(s) => Owes(pusher[w])) => k1 <= k
    <2>1. CASE Owes(s) /\ ~Owes(pusher[w])
        <3> DEFINE n == k + 1
        <3>1. Cardinality(Owing') = n
            BY <1>1, <2>1, OwingMoves
        <3>2. n \in Nat /\ n <= k + 1
            OBVIOUS
        <3> HIDE DEF n
        <3> QED BY <2>1, <3>1, <3>2
    <2>2. CASE Owes(s) => Owes(pusher[w])
        <3>1. Cardinality(Owing') = k \/ (Cardinality(Owing') = k - 1 /\ k > 0)
            BY <1>1, <2>2, OwingMoves
        <3> QED BY <1>1, <3>1
    <2> QED BY <2>1, <2>2
<1>3. Expected = t + k /\ Expected' = t + k1
    BY <1>1, <1>2 DEF Expected
<1>4. t + k <= 1 + d
    BY <1>1, <1>3 DEF Ledger
<1> DEFINE e == t + k
           e1 == t + k1
<1>5. e \in Nat /\ e1 \in Nat /\ Expected = e /\ Expected' = e1
    BY <1>3
<1>6. CASE unheard' = unheard
    <2>1. (Owes(s) => Owes(pusher[w])) /\ ~(pusher[w].mine /\ pusher[w].pc = "record")
        <3>1. d # d + 1
            BY <1>1
        <3> QED BY <1>1, <1>6, <3>1
    <2>2. e1 + d <= e + d
        BY <1>2, <2>1
    <2> HIDE DEF e, e1
    <2> QED BY <1>1, <1>5, <1>6, <2>1, <2>2, LedgerKept DEF Undecided
<1>7. CASE unheard' = unheard + 1
    <2>1. /\ e1 + d <= e + (d + 1) /\ d + 1 \in Nat /\ unheard' = d + 1
          /\ pusher[w].pc = "record" => e1 <= d + 1
        <3>1. pusher[w].pc = "record" => (Owes(s) => Owes(pusher[w]))
            BY <1>1, <1>7
        <3> QED BY <1>1, <1>2, <1>4, <1>7, <3>1
    <2> DEFINE d1 == d + 1
    <2>2. e1 + d <= e + d1 /\ d1 \in Nat /\ unheard' = d1 /\ (pusher[w].pc = "record" => e1 <= d1)
        BY <2>1
    <2> HIDE DEF e, e1, d1
    <2> QED BY <1>1, <1>5, <2>2, LedgerKept DEF Undecided
<1> QED BY <1>6, <1>7

LEMMA TakePushInv == ASSUME PushInv, NEW w \in PushSlots, TakePush(w) PROVE PushInv'
<1> DEFINE s == [pc |-> "load", mine |-> TRUE, posted |-> 0]
<1>1. /\ PushTypeOK /\ OneOwner /\ Ledger /\ GoodJob(pushJob, MaxPushAttempts, MaxPushStalls)
      /\ pushJob.state = "waiting" /\ pushJob' = Taken(pushJob) /\ pusher[w].pc = "idle"
      /\ pusher' = [pusher EXCEPT ![w] = s] /\ s \in PusherStates
      /\ UNCHANGED <<pushRow, toots, link, unheard, pushFaults, relinks>>
    BY DEF PushInv, TakePush, PushAt, PusherStates
<1>2. GoodJob(pushJob', MaxPushAttempts, MaxPushStalls) /\ pushJob'.state = "active"
    BY <1>1, JobSteps, PushAssumption
<1>3. PushTypeOK'
    BY <1>1, <1>2 DEF PushTypeOK, GoodJob, pushRow
<1>4. /\ \A v \in PushSlots : ~pusher[v].mine
      /\ pusher'[w] = s /\ \A v \in PushSlots \ {w} : pusher'[v] = pusher[v]
    BY <1>1 DEF OneOwner, PushTypeOK
<1>5. OneOwner'
    BY <1>1, <1>2, <1>4 DEF OneOwner
<1>6. ~Owes(s) /\ (s.mine => s.pc = "load")
    BY DEF Owes
<1> HIDE DEF s
<1>7. Ledger'
    BY <1>1, <1>4, <1>6, LedgerPaid DEF pushRow
<1> QED BY <1>2, <1>3, <1>5, <1>7 DEF PushInv

LEMMA PushEndsInv ==
    ASSUME PushInv, NEW w \in PushSlots,
           PushThrows(w) \/ PushDone(w) \/ \E dead \in BOOLEAN : PushStalls(w, dead)
    PROVE  PushInv'
<1>1. /\ PushTypeOK /\ OneOwner /\ Ledger /\ GoodJob(pushJob, MaxPushAttempts, MaxPushStalls)
      /\ pusher[w].mine => pushJob.state = "active"
      /\ pusher[w] \in PusherStates /\ unheard + 1 \in Nat
    BY PushTypes DEF PushInv, OneOwner
<1>2. PICK s \in PusherStates :
        /\ pusher' = [pusher EXCEPT ![w] = s] /\ ~s.mine
        /\ s.pc = "record" => s.posted # 0
        /\ \/ unheard' = unheard /\ s.pc = "idle" /\ pusher[w].pc # "record"
           \/ unheard' = unheard + 1 /\ (pusher[w].pc = "record" => ~Owes(s))
    <2>1. CASE PushThrows(w) \/ PushDone(w)
        <3>1. /\ NoPush \in PusherStates /\ pusher' = [pusher EXCEPT ![w] = NoPush]
              /\ ~NoPush.mine /\ NoPush.pc = "idle" /\ unheard' = unheard
              /\ pusher[w].pc # "record"
            BY <2>1 DEF PushThrows, PushDone, NoPush, PusherStates, PushAt
        <3> QED BY <3>1
    <2>2. CASE PushStalls(w, TRUE)
        <3>1. /\ NoPush \in PusherStates /\ pusher' = [pusher EXCEPT ![w] = NoPush]
              /\ ~NoPush.mine /\ NoPush.pc = "idle" /\ ~Owes(NoPush)
              /\ IF pusher[w].pc = "record" THEN unheard' = unheard + 1 ELSE unheard' = unheard
            BY <2>2 DEF PushStalls, NoPush, PusherStates, PushAt, Owes, Undecided
        <3> QED BY <3>1
    <2>3. CASE PushStalls(w, FALSE)
        <3> DEFINE s == [pusher[w] EXCEPT !.mine = FALSE]
        <3>1. /\ s \in PusherStates /\ ~s.mine /\ s.pc = pusher[w].pc /\ s.posted = pusher[w].posted
              /\ pusher' = [pusher EXCEPT ![w] = s] /\ unheard' = unheard + 1
            BY <1>1, <2>3 DEF PushStalls, PusherStates
        <3>2. /\ s.pc = "record" => s.posted # 0
              /\ pusher[w].pc = "record" => ~Owes(s)
            BY <1>1, <3>1 DEF OneOwner, Owes, Undecided
        <3> HIDE DEF s
        <3> QED BY <3>1, <3>2
    <2> QED BY <2>1, <2>2, <2>3
<1>3. /\ UNCHANGED <<pushRow, toots, link, relinks>>
      /\ \/ pushJob' = pushJob
         \/ pusher[w].mine /\ pushJob' = Completed(pushJob)
         \/ pusher[w].mine /\ pushJob' = Retried(pushJob, FALSE, MaxPushAttempts)
         \/ pusher[w].mine /\ pushJob' = Stalled(pushJob, MaxPushStalls)
    BY DEF PushThrows, PushDone, PushStalls
<1>4. pushFaults' \in 0..MaxPushFaults
    <2>1. pushFaults \in 0..MaxPushFaults /\ MaxPushFaults \in Nat
        BY <1>1, PushAssumption DEF PushTypeOK
    <2>2. pushFaults' = pushFaults \/ (pushFaults < MaxPushFaults /\ pushFaults' = pushFaults + 1)
        BY DEF PushThrows, PushDone, PushStalls, PushFault
    <2> QED BY <2>1, <2>2
<1>5. GoodJob(pushJob', MaxPushAttempts, MaxPushStalls)
    <2>1. MaxPushAttempts \in Nat \ {0} /\ MaxPushStalls \in Nat /\ FALSE \in BOOLEAN
        BY PushAssumption
    <2>2. /\ GoodJob(Completed(pushJob), MaxPushAttempts, MaxPushStalls)
          /\ pusher[w].mine => \A b \in BOOLEAN :
                GoodJob(Retried(pushJob, b, MaxPushAttempts), MaxPushAttempts, MaxPushStalls)
          /\ pusher[w].mine =>
                GoodJob(Stalled(pushJob, MaxPushStalls), MaxPushAttempts, MaxPushStalls)
        BY <1>1, <2>1, JobSteps
    <2> QED BY <1>1, <1>3, <2>1, <2>2
<1>6. PushTypeOK'
    BY <1>1, <1>2, <1>3, <1>4, <1>5 DEF PushTypeOK, GoodJob, pushRow
<1>7. OneOwner'
    BY <1>1, <1>2, <1>3, OwnersKept
<1>8. s.pc = "idle" => ~Owes(s)
    BY DEF Owes, Undecided
<1>9. Ledger'
    BY <1>1, <1>2, <1>3, <1>8, LedgerPaid DEF pushRow
<1> QED BY <1>5, <1>6, <1>7, <1>9 DEF PushInv

\* The instance takes a toot: the one that was expected, or one that nobody hears of.
LEMMA PostTootInv == ASSUME PushInv, NEW w \in PushSlots, PostToot(w) PROVE PushInv'
<1> DEFINE s == [pusher[w] EXCEPT !.pc = "record", !.posted = toots + 1]
<1>1. /\ PushTypeOK /\ OneOwner /\ Ledger /\ GoodJob(pushJob, MaxPushAttempts, MaxPushStalls)
      /\ pusher[w] \in PusherStates /\ toots + 1 \in Nat /\ toots + 1 # 0
    BY PushTypes DEF PushInv
<1>2. /\ pusher[w].pc = "post" /\ toots' = toots + 1
      /\ pusher' = [pusher EXCEPT ![w] = s]
      /\ UNCHANGED <<pushRow, pushJob, link, unheard, pushFaults, relinks>>
    BY DEF PostToot, PushAt
<1>3. /\ s \in PusherStates /\ s.pc = "record" /\ s.posted = toots + 1 /\ s.mine = pusher[w].mine
      /\ ~Owes(s) /\ (Owes(pusher[w]) <=> ~pusher[w].mine)
    BY <1>1, <1>2 DEF PusherStates, Owes, Undecided
<1> HIDE DEF s
<1>4. PushTypeOK'
    BY <1>1, <1>2, <1>3 DEF PushTypeOK, pushRow
<1>5. OneOwner'
    BY <1>1, <1>2, <1>3, OwnersKept
<1>6. PICK t \in Nat, d \in Nat, k \in Nat : t = toots /\ d = unheard /\ k = Cardinality(Owing)
    BY <1>1, OwingIsFinite DEF PushTypeOK
<1>7. CASE ~pusher[w].mine
    <2> DEFINE e == t + k
    <2>1. Cardinality(Owing') = k - 1 /\ k > 0
        BY <1>1, <1>2, <1>3, <1>6, <1>7, OwingMoves
    <2>2. /\ e \in Nat /\ Expected = e
          /\ Expected' = (t + 1) + (k - 1) /\ (t + 1) + (k - 1) = e
        BY <1>2, <1>6, <2>1 DEF Expected
    <2>3. e + d <= e + d /\ Expected' = e /\ unheard' = d /\ statusId' = statusId
        BY <1>2, <1>6, <2>1, <2>2 DEF pushRow
    <2>4. e \in Nat /\ Expected = e /\ unheard = d
        BY <1>6, <2>2
    <2> HIDE DEF e
    <2>5. Ledger'
        BY <1>1, <1>2, <1>3, <1>7, <2>3, <2>4, LedgerKept
    <2> QED BY <1>1, <1>2, <1>4, <1>5, <2>5 DEF PushInv
<1>8. CASE pusher[w].mine
    <2>1. Expected <= unheard
        BY <1>1, <1>2, <1>8 DEF Ledger, Undecided
    <2>2. Expected = t + k /\ Expected' = (t + 1) + k /\ unheard' = d
        BY <1>1, <1>2, <1>3, <1>6, <1>8, OwingMoves DEF Expected
    <2>3. t + k <= d
        BY <1>6, <2>1, <2>2
    <2>4. (t + 1) + k <= 1 + d
        BY <2>3
    <2>5. /\ pusher'[w].mine /\ pusher'[w].pc = "record"
          /\ \A v \in PushSlots \ {w} : pusher'[v] = pusher[v] /\ ~pusher[v].mine
        BY <1>1, <1>2, <1>3, <1>8 DEF PushTypeOK, OneOwner
    <2>6. \A v \in PushSlots : ~(pusher'[v].mine /\ pusher'[v].pc \in Undecided)
        BY <2>5 DEF Undecided
    <2>7. Expected' <= 1 + unheard'
        BY <2>2, <2>4
    <2>8. Ledger'
        BY <2>5, <2>6, <2>7 DEF Ledger
    <2> QED BY <1>1, <1>2, <1>4, <1>5, <2>8 DEF PushInv
<1> QED BY <1>7, <1>8

LEMMA RepeatPostInv ==
    ASSUME PushInv, NEW w \in PushSlots, NEW hidden \in BOOLEAN, RepeatPost(w, hidden)
    PROVE  PushInv'
<1>1. PushTypeOK /\ OneOwner /\ Ledger /\ GoodJob(pushJob, MaxPushAttempts, MaxPushStalls)
    BY DEF PushInv
<1>2. /\ UNCHANGED <<pushRow, pushJob, pusher, link, relinks>>
      /\ \/ UNCHANGED <<toots, unheard>>
         \/ toots' = toots + 1 /\ unheard' = unheard + 1
      /\ pushFaults < MaxPushFaults /\ pushFaults' = pushFaults + 1
    BY DEF RepeatPost, PushFault
<1>3. pushFaults' \in 0..MaxPushFaults
    BY <1>1, <1>2, PushAssumption DEF PushTypeOK
<1>4. PushTypeOK'
    BY <1>1, <1>2, <1>3 DEF PushTypeOK, pushRow
<1>5. OneOwner'
    BY <1>1, <1>2 DEF OneOwner
<1>6. PICK t \in Nat, d \in Nat, k \in Nat : t = toots /\ d = unheard /\ k = Cardinality(Owing)
    BY <1>1, OwingIsFinite DEF PushTypeOK
<1>7. Expected = t + k /\ Owing' = Owing
    BY <1>2, <1>6 DEF Expected, Owing
<1>8. CASE UNCHANGED <<toots, unheard>>
    <2>1. Ledger'
        BY <1>1, <1>2, <1>7, <1>8 DEF Ledger, Expected, pushRow
    <2> QED BY <1>1, <1>2, <1>4, <1>5, <2>1 DEF PushInv
<1>9. CASE toots' = toots + 1 /\ unheard' = unheard + 1
    <2>1. Expected' = (t + 1) + k /\ unheard' = d + 1
        BY <1>6, <1>7, <1>9 DEF Expected
    <2>2. Expected <= unheard => Expected' <= unheard'
        <3>1. Expected <= unheard => t + k <= d
            BY <1>6, <1>7
        <3>2. t + k <= d => (t + 1) + k <= d + 1
            OBVIOUS
        <3> QED BY <2>1, <3>1, <3>2
    <2>3. Expected' <= 1 + unheard'
        <3>1. t + k <= 1 + d
            BY <1>1, <1>6, <1>7 DEF Ledger
        <3>2. (t + 1) + k <= 1 + (d + 1)
            BY <3>1
        <3> QED BY <2>1, <3>2
    <2>4. Ledger'
        BY <1>1, <1>2, <2>2, <2>3 DEF Ledger, pushRow
    <2> QED BY <1>1, <1>2, <1>4, <1>5, <2>4 DEF PushInv
<1> QED BY <1>2, <1>8, <1>9

LEMMA RequestPushInv == ASSUME PushInv, RequestPush \/ Relink \/ UNCHANGED pushVars PROVE PushInv'
<1>1. PushTypeOK /\ OneOwner /\ Ledger /\ GoodJob(pushJob, MaxPushAttempts, MaxPushStalls)
    BY DEF PushInv
<1>2. /\ UNCHANGED <<pushRow, toots, pusher, unheard, pushFaults>>
      /\ link' \in BOOLEAN
      /\ relinks' = relinks \/ (relinks < MaxRelinks /\ relinks' = relinks + 1)
      /\ pushJob' = pushJob \/ pushJob' = Added(pushJob)
    BY <1>1 DEF RequestPush, Relink, pushVars, PushTypeOK
<1>3. relinks' \in 0..MaxRelinks
    BY <1>1, <1>2, PushAssumption DEF PushTypeOK
<1>4. /\ GoodJob(pushJob', MaxPushAttempts, MaxPushStalls)
      /\ pushJob.state = "active" => pushJob' = pushJob
    BY <1>1, <1>2, JobSteps, PushAssumption
<1>5. PushTypeOK'
    BY <1>1, <1>2, <1>3, <1>4 DEF PushTypeOK, pushRow, GoodJob
<1>6. OneOwner'
    BY <1>1, <1>2, <1>4 DEF OneOwner
<1>7. Expected' = Expected
    BY <1>2 DEF Expected, Owing
<1>8. Ledger'
    BY <1>1, <1>2, <1>7 DEF Ledger, pushRow
<1> QED BY <1>4, <1>5, <1>6, <1>8 DEF PushInv

LEMMA PushInductive == PushInv /\ [PushNext]_pushVars => PushInv'
<1> SUFFICES ASSUME PushInv, [PushNext]_pushVars PROVE PushInv'
    OBVIOUS
<1>1. ASSUME NEW w \in PushSlots, PushStep(w) PROVE PushInv'
    BY <1>1, TakePushInv, AttemptInv, PostTootInv, PushEndsInv DEF PushStep
<1>2. ASSUME NEW w \in PushSlots, PushCallFails(w) PROVE PushInv'
    BY <1>2, AttemptInv
<1>3. ASSUME NEW w \in PushSlots, NEW b \in BOOLEAN,
             RepeatPost(w, b) \/ PostFails(w, b) \/ PushStalls(w, b)
      PROVE  PushInv'
    BY <1>3, RepeatPostInv, AttemptInv, PushEndsInv
<1> QED BY <1>1, <1>2, <1>3, RequestPushInv DEF PushNext

\* Announcements keep PushInv, for any number of slots, attempts, stalls and relinks
\* (mastodon-crosspost.ts:20-70).
THEOREM PushSafe == PushSpec => []PushInv
BY PushInitInv, PushInductive, PTL DEF PushSpec

\* Every toot beyond the first is paid for by a call whose outcome nobody
\* recorded (mastodon-crosspost.ts:22), for any number of slots, attempts,
\* stalls, failures and changes of the account link.
THEOREM TootsArePaid == PushSpec => []TootsPaidFor
<1>1. PushInv => TootsPaidFor
    <2> SUFFICES ASSUME PushInv PROVE TootsPaidFor
        OBVIOUS
    <2>1. PICK t \in Nat, d \in Nat, k \in Nat : t = toots /\ d = unheard /\ k = Cardinality(Owing)
        BY OwingIsFinite DEF PushInv, PushTypeOK
    <2>2. t + k <= 1 + d
        BY <2>1 DEF PushInv, Ledger, Expected
    <2>3. t <= 1 + d
        BY <2>2
    <2> QED BY <2>1, <2>3 DEF TootsPaidFor
<1> QED BY <1>1, PushSafe, PTL

-----------------------------------------------------------------------------
(* The final PDF.  A builder shows the inputs it has read, which may be older *)
(* than the last request; then that request has a job of its own, unless two  *)
(* jobs ran at once or one has failed.                                        *)

Building == {"build", "upload", "persist"}

FinJobsGood == \A j \in FinalizeJobs : GoodJob(finJob[j], MaxFinAttempts, MaxFinStalls)

\* A builder has a job of its own, and what it is about to show has its blob.
Builders ==
    /\ \A w \in FinalizeSlots :
        /\ builder[w].pc # "idle" => finJob[builder[w].job].state = "active"
        /\ builder[w].pc \in Building => builder[w].rev \in 1..inputs
        /\ builder[w].pc = "upload" => builder[w].variant \in Variants
        /\ builder[w].pc = "persist" => blobs[builder[w].rev] # "none"
    /\ \A v, w \in FinalizeSlots :
        builder[v].pc # "idle" /\ builder[w].pc # "idle" /\ builder[v].job = builder[w].job => v = w

Revisions ==
    /\ inputs \in 1..MaxRevisions /\ final \in 0..inputs /\ wanted \in 0..inputs
    /\ ShownIsUploaded

DoiQueued == doi /\ ~cutOff => deposit = "queue" \/ finJob[DoiJob].state # "none"

Underway(w) ==
    \/ builder[w].pc = "load"
    \/ builder[w].pc \in Building /\ builder[w].rev >= wanted

\* The last request is met, or it will be.
Served ==
    \/ final >= wanted
    \/ \E j \in FinalizeJobs : finJob[j].state = "waiting"
    \/ \E w \in FinalizeSlots : Underway(w)

OneByOne ==
    ~overlapped =>
        /\ \A v, w \in FinalizeSlots : builder[v].pc # "idle" /\ builder[w].pc # "idle" => v = w
        /\ \A w \in FinalizeSlots : builder[w].pc \in Building => builder[w].rev >= final
        /\ (\A j \in FinalizeJobs : finJob[j].state # "failed") => Served

FinalizeInv ==
    FinalizeTypeOK /\ FinJobsGood /\ Builders /\ Revisions /\ DoiQueued /\ OneByOne

LEMMA FinalizeInitInv == FinalizeInit => FinalizeInv
<1> SUFFICES ASSUME FinalizeInit PROVE FinalizeInv
    OBVIOUS
<1>1. FinJobsGood /\ \A j \in FinalizeJobs : finJob[j].state = "none"
    BY NewJobGood, FinalizeAssumption DEF FinalizeInit, FinJobsGood
<1>2. \A w \in FinalizeSlots : builder[w].pc = "idle"
    BY DEF FinalizeInit, NoBuild
<1>3. FinalizeTypeOK
    <2>1. NoBuild \in BuilderStates
        BY FinalizeAssumption DEF NoBuild, BuilderStates
    <2>2. finJob \in [FinalizeJobs -> JobSet(MaxFinAttempts, MaxFinStalls)]
        BY <1>1 DEF FinJobsGood, GoodJob, FinalizeInit
    <2>3. blobs \in [1..MaxRevisions -> Variants \cup {"none"}]
        BY DEF FinalizeInit
    <2>4. 0 \in 0..MaxRevisions /\ 0 \in 0..MaxFinFaults /\ 1 \in Nat
        BY FinalizeAssumption
    <2> QED BY <2>1, <2>2, <2>3, <2>4 DEF FinalizeInit, FinalizeTypeOK
<1>4. Builders
    BY <1>2 DEF Builders, Building
<1>5. Revisions /\ DoiQueued
    BY FinalizeAssumption DEF FinalizeInit, Revisions, ShownIsUploaded, DoiQueued
<1>6. OneByOne
    BY <1>2 DEF FinalizeInit, OneByOne, Building, Served
<1> QED BY <1>1, <1>3, <1>4, <1>5, <1>6 DEF FinalizeInv

\* What the leaves below need of the types.
LEMMA FinalizeTypes ==
    ASSUME FinalizeTypeOK
    PROVE  /\ {inputs, final, wanted} \subseteq Nat
           /\ \A w \in FinalizeSlots :
                builder[w] \in BuilderStates /\ builder[w].rev \in Nat /\ builder[w].job \in FinalizeJobs
           /\ SubmitJob \in FinalizeJobs /\ DoiJob \in FinalizeJobs
           /\ MaxFinAttempts \in Nat \ {0} /\ MaxFinStalls \in Nat /\ MaxFinFaults \in Nat
           /\ MaxRevisions \in Nat
BY FinalizeAssumption DEF FinalizeTypeOK, BuilderStates

LEMMA FinFaultBound ==
    ASSUME FinalizeTypeOK, FinFault \/ finFaults' = finFaults
    PROVE  finFaults' \in 0..MaxFinFaults
BY FinalizeAssumption DEF FinalizeTypeOK, FinFault

\* A request leaves the live jobs alone, and is met by a job that waits.
LEMMA RequestFacts ==
    ASSUME FinalizeTypeOK, FinJobsGood, NEW j \in FinalizeJobs, NEW force \in BOOLEAN,
           Request(j, force)
    PROVE  /\ FinJobsGood' /\ finJob' \in [FinalizeJobs -> JobSet(MaxFinAttempts, MaxFinStalls)]
           /\ forced' \subseteq FinalizeJobs
           /\ finJob'[j].state # "none"
           /\ \A i \in FinalizeJobs : finJob[i].state # "none" => finJob'[i] = finJob[i]
           /\ wanted' = wanted \/ (wanted' = inputs /\ finJob'[j].state = "waiting")
<1>1. /\ GoodJob(Added(finJob[j]), MaxFinAttempts, MaxFinStalls)
      /\ finJob[j].state # "none" => Added(finJob[j]) = finJob[j]
      /\ finJob[j].state = "none" => Added(finJob[j]).state = "waiting"
    BY FinalizeTypes, JobSteps DEF FinJobsGood
<1>2. /\ finJob'[j] = Added(finJob[j])
      /\ \A i \in FinalizeJobs \ {j} : finJob'[i] = finJob[i]
      /\ finJob' = [finJob EXCEPT ![j] = Added(finJob[j])]
    BY DEF Request, FinalizeTypeOK
<1>3. FinJobsGood'
    BY <1>1, <1>2 DEF FinJobsGood
<1>4. finJob' \in [FinalizeJobs -> JobSet(MaxFinAttempts, MaxFinStalls)]
    BY <1>1, <1>2 DEF FinalizeTypeOK, GoodJob
<1>5. /\ forced' \subseteq FinalizeJobs
      /\ wanted' = wanted \/ (wanted' = inputs /\ finJob[j].state = "none")
    BY DEF Request, FinalizeTypeOK
<1> QED BY <1>1, <1>2, <1>3, <1>4, <1>5

\* Nothing but the inputs, the deposit and the queue have changed.
LEMMA QuietBuilders ==
    ASSUME FinalizeInv, UNCHANGED <<shown, builder, overlapped>>,
           inputs' = inputs \/ (inputs < MaxRevisions /\ inputs' = inputs + 1),
           wanted' = wanted \/ (wanted' = inputs /\ inputs' = inputs
                                /\ \E j \in FinalizeJobs : finJob'[j].state = "waiting"),
           \A j \in FinalizeJobs : finJob[j].state # "none" => finJob'[j] = finJob[j]
    PROVE  Builders' /\ Revisions' /\ OneByOne'
<1>1. /\ FinalizeTypeOK /\ Builders /\ Revisions /\ OneByOne
      /\ final' = final /\ blobs' = blobs /\ builder' = builder /\ overlapped' = overlapped
    BY DEF FinalizeInv, shown
<1>2. inputs \in 1..MaxRevisions /\ MaxRevisions \in Nat
    BY <1>1, FinalizeTypes DEF Revisions
<1>3. inputs' \in 1..MaxRevisions /\ inputs' >= inputs
    BY <1>2
<1>4. Builders'
    <2>1. \A n \in 1..inputs : n \in 1..inputs'
        BY <1>2, <1>3
    <2>2. \A w \in FinalizeSlots : builder[w].pc # "idle" =>
              finJob'[builder[w].job].state = "active"
        BY <1>1, FinalizeTypes DEF Builders
    <2> QED BY <1>1, <2>1, <2>2 DEF Builders, Building
<1>5. Revisions'
    <2>1. \A n \in 0..inputs : n \in 0..inputs'
        BY <1>2, <1>3
    <2>2. inputs \in 0..inputs
        BY <1>2
    <2> QED BY <1>1, <1>3, <2>1, <2>2 DEF Revisions, ShownIsUploaded
<1>6. OneByOne'
    <2>1. (\A j \in FinalizeJobs : finJob'[j].state # "failed") =>
              \A j \in FinalizeJobs : finJob[j].state # "failed"
        OBVIOUS
    <2>2. Served => Served'
        <3>1. CASE \E j \in FinalizeJobs : finJob'[j].state = "waiting"
            BY <3>1 DEF Served
        <3>2. CASE ~\E j \in FinalizeJobs : finJob'[j].state = "waiting"
            <4>1. wanted' = wanted /\ \A j \in FinalizeJobs : finJob[j].state # "waiting"
                BY <3>2
            <4> QED BY <1>1, <4>1 DEF Served, Underway, Building
        <3> QED BY <3>1, <3>2
    <2> QED BY <1>1, <2>1, <2>2 DEF OneByOne, Building
<1> QED BY <1>4, <1>5, <1>6

LEMMA RequestsInv ==
    ASSUME FinalizeInv,
           \/ ChangeInputs \/ RequestFinalize \/ SetDoi \/ RequestAfterDoi \/ DepositCutOff
           \/ \E j \in FinalizeJobs, force \in BOOLEAN : Backfill(j, force)
    PROVE  FinalizeInv'
<1>1. /\ FinalizeTypeOK /\ FinJobsGood /\ Builders /\ Revisions /\ DoiQueued /\ OneByOne
      /\ DoiJob \in FinalizeJobs /\ SubmitJob \in FinalizeJobs /\ inputs + 1 \in Nat
    BY FinalizeTypes DEF FinalizeInv
<1>2. UNCHANGED <<shown, builder, overlapped>> /\ finFaults' \in 0..MaxFinFaults
    BY <1>1, FinFaultBound DEF ChangeInputs, RequestFinalize, SetDoi, RequestAfterDoi, DepositCutOff,
                               Backfill
<1>3. CASE ChangeInputs \/ SetDoi \/ DepositCutOff
    <2>1. /\ UNCHANGED finQueue
          /\ inputs' = inputs \/ (inputs < MaxRevisions /\ inputs' = inputs + 1)
          /\ \/ doi' = doi /\ deposit' = deposit /\ cutOff' = cutOff
             \/ doi' = TRUE /\ deposit' = "queue" /\ cutOff' = cutOff
             \/ doi' = doi /\ deposit' = "idle" /\ cutOff' = TRUE
        BY <1>3 DEF ChangeInputs, SetDoi, DepositCutOff
    <2>2. finJob' = finJob /\ wanted' = wanted /\ forced' = forced
        BY <2>1 DEF finQueue
    <2>3. Builders' /\ Revisions' /\ OneByOne'
        BY <1>2, <2>1, <2>2, QuietBuilders
    <2>4. FinalizeTypeOK'
        BY <1>1, <1>2, <2>1, <2>2 DEF FinalizeTypeOK, shown
    <2>5. FinJobsGood' /\ DoiQueued'
        BY <1>1, <2>1, <2>2 DEF FinJobsGood, DoiQueued
    <2> QED BY <2>3, <2>4, <2>5 DEF FinalizeInv
<1>4. CASE ~(ChangeInputs \/ SetDoi \/ DepositCutOff)
    <2>1. PICK j \in FinalizeJobs, force \in BOOLEAN :
            /\ Request(j, force) /\ inputs' = inputs /\ doi' = doi /\ cutOff' = cutOff
            /\ deposit' = deposit \/ (deposit' = "idle" /\ j = DoiJob)
        BY <1>1, <1>4 DEF RequestFinalize, RequestAfterDoi, Backfill, paperSide
    <2>2. /\ FinJobsGood' /\ finJob' \in [FinalizeJobs -> JobSet(MaxFinAttempts, MaxFinStalls)]
          /\ forced' \subseteq FinalizeJobs
          /\ finJob'[j].state # "none"
          /\ \A i \in FinalizeJobs : finJob[i].state # "none" => finJob'[i] = finJob[i]
          /\ wanted' = wanted \/ (wanted' = inputs /\ finJob'[j].state = "waiting")
        BY <1>1, <2>1, RequestFacts
    <2>3. Builders' /\ Revisions' /\ OneByOne'
        BY <1>2, <2>1, <2>2, QuietBuilders
    <2>4. wanted' \in 0..MaxRevisions
        <3>1. inputs \in 0..MaxRevisions
            BY <1>1, FinalizeTypes DEF Revisions
        <3> QED BY <1>1, <2>2, <3>1 DEF FinalizeTypeOK
    <2>5. FinalizeTypeOK'
        BY <1>1, <1>2, <2>1, <2>2, <2>4 DEF FinalizeTypeOK, shown
    <2>6. DoiQueued'
        BY <1>1, <2>1, <2>2 DEF DoiQueued
    <2> QED BY <2>2, <2>3, <2>5, <2>6 DEF FinalizeInv
<1> QED BY <1>3, <1>4

\* A builder goes on: the others are where they were.
LEMMA BuilderGoesOn ==
    ASSUME FinalizeInv, NEW w \in FinalizeSlots, NEW s \in BuilderStates,
           builder' = [builder EXCEPT ![w] = s], s.job = builder[w].job,
           s.pc # "idle", builder[w].pc # "idle",
           UNCHANGED <<paperSide, finQueue, overlapped>>, finFaults' \in 0..MaxFinFaults,
           final' \in 0..inputs, blobs' \in [1..MaxRevisions -> Variants \cup {"none"}],
           final' # 0 => blobs'[final'] # "none",
           \A r \in 1..inputs : blobs[r] # "none" => blobs'[r] # "none",
           s.pc \in Building => s.rev \in 1..inputs,
           s.pc = "upload" => s.variant \in Variants,
           s.pc = "persist" => blobs'[s.rev] # "none",
           ~overlapped => (s.pc \in Building => s.rev >= final') /\ (Served => Served')
    PROVE  FinalizeInv'
<1>1. /\ FinalizeTypeOK /\ FinJobsGood /\ Builders /\ Revisions /\ DoiQueued /\ OneByOne
      /\ UNCHANGED <<inputs, doi, deposit, cutOff, finJob, forced, wanted, overlapped>>
    BY DEF FinalizeInv, paperSide, finQueue
<1>2. /\ builder'[w] = s /\ \A v \in FinalizeSlots \ {w} : builder'[v] = builder[v]
      /\ builder' \in [FinalizeSlots -> BuilderStates]
    BY <1>1 DEF FinalizeTypeOK
<1>3. inputs \in 1..MaxRevisions /\ MaxRevisions \in Nat
    BY <1>1, FinalizeTypes DEF Revisions
<1>4. FinalizeTypeOK'
    <2>1. final' \in 0..MaxRevisions
        BY <1>3
    <2> QED BY <1>1, <1>2, <2>1 DEF FinalizeTypeOK
<1>5. FinJobsGood' /\ DoiQueued'
    BY <1>1 DEF FinJobsGood, DoiQueued
<1>6. Revisions'
    BY <1>1 DEF Revisions, ShownIsUploaded
<1>7. Builders'
    BY <1>1, <1>2 DEF Builders, Building
<1>8. OneByOne'
    <2> SUFFICES ASSUME ~overlapped
                 PROVE  /\ \A v, u \in FinalizeSlots :
                              builder'[v].pc # "idle" /\ builder'[u].pc # "idle" => v = u
                        /\ \A v \in FinalizeSlots :
                              builder'[v].pc \in Building => builder'[v].rev >= final'
                        /\ (\A j \in FinalizeJobs : finJob[j].state # "failed") => Served'
        BY <1>1 DEF OneByOne
    <2>1. \A v \in FinalizeSlots \ {w} : builder'[v].pc = "idle"
        BY <1>1, <1>2 DEF OneByOne
    <2> QED BY <1>1, <1>2, <2>1 DEF OneByOne, Building
<1> QED BY <1>1, <1>4, <1>5, <1>6, <1>7, <1>8 DEF FinalizeInv

\* Under way is the builder itself, when it is the only one.
LEMMA ServedBy ==
    ASSUME OneByOne, ~overlapped, NEW w \in FinalizeSlots, builder[w].pc # "idle", Served
    PROVE  \/ final >= wanted
           \/ \E j \in FinalizeJobs : finJob[j].state = "waiting"
           \/ Underway(w)
BY DEF OneByOne, Served, Underway, Building

LEMMA BuildInv ==
    ASSUME FinalizeInv, NEW w \in FinalizeSlots,
           LoadInputs(w) \/ (\E v \in Variants : Build(w, v)) \/ Upload(w) \/ Persist(w)
    PROVE  FinalizeInv'
<1>1. /\ FinalizeTypeOK /\ Builders /\ Revisions /\ OneByOne
      /\ builder[w] \in BuilderStates
      /\ inputs \in 1..MaxRevisions /\ MaxRevisions \in Nat /\ final \in 0..inputs /\ wanted \in 0..inputs
      /\ blobs \in [1..MaxRevisions -> Variants \cup {"none"}]
      /\ final # 0 => blobs[final] # "none"
    BY FinalizeTypes DEF FinalizeInv, Revisions, ShownIsUploaded, FinalizeTypeOK
<1>2. finFaults' \in 0..MaxFinFaults
    BY <1>1, FinFaultBound DEF LoadInputs, Build, Upload, Persist
<1>3. CASE LoadInputs(w)
    <2> DEFINE next == IF final = inputs /\ builder[w].job \notin forced THEN "done" ELSE "build"
               s == [builder[w] EXCEPT !.rev = inputs, !.pc = next]
    <2>1. /\ next \in {"build", "done"} /\ (next = "done" => final = inputs)
          /\ builder[w].pc = "load" /\ builder' = [builder EXCEPT ![w] = s]
          /\ UNCHANGED <<paperSide, final, blobs, finQueue, overlapped>>
          /\ UNCHANGED <<wanted, finJob>>
        BY <1>3 DEF LoadInputs, BuilderAt, shown, finQueue
    <2> HIDE DEF next
    <2>2. /\ s \in BuilderStates /\ s.pc = next /\ s.rev = inputs /\ s.job = builder[w].job
          /\ inputs \in 1..inputs /\ inputs >= final /\ inputs >= wanted
        <3>1. /\ inputs \in 1..inputs /\ inputs >= final /\ inputs >= wanted
              /\ inputs \in 0..MaxRevisions
            BY <1>1
        <3> QED BY <1>1, <2>1, <3>1 DEF BuilderStates
    <2> HIDE DEF s
    <2>3. builder'[w] = s
        BY <1>1, <2>1 DEF FinalizeTypeOK
    <2>4. Served'
        <3>1. CASE next = "done"
            BY <2>1, <2>2, <3>1 DEF Served
        <3>2. CASE next = "build"
            BY <2>1, <2>2, <2>3, <3>2 DEF Served, Underway, Building
        <3> QED BY <2>1, <3>1, <3>2
    <2> QED BY <1>1, <1>2, <2>1, <2>2, <2>4, BuilderGoesOn
<1>4. ASSUME NEW v \in Variants, Build(w, v) PROVE FinalizeInv'
    <2> DEFINE s == [builder[w] EXCEPT !.pc = "upload", !.variant = v]
    <2>1. /\ builder[w].pc = "build" /\ builder' = [builder EXCEPT ![w] = s]
          /\ UNCHANGED <<paperSide, final, blobs, finQueue, overlapped>>
          /\ UNCHANGED <<wanted, finJob>>
        BY <1>4 DEF Build, BuilderAt, shown, finQueue
    <2>2. /\ s \in BuilderStates /\ s.pc = "upload" /\ s.rev = builder[w].rev /\ s.variant = v
          /\ s.job = builder[w].job
        BY <1>1 DEF BuilderStates
    <2> HIDE DEF s
    <2>3. builder'[w] = s
        BY <1>1, <2>1 DEF FinalizeTypeOK
    <2>4. s.rev \in 1..inputs /\ (~overlapped => s.rev >= final)
        BY <1>1, <2>1, <2>2 DEF Builders, OneByOne, Building
    <2>5. ~overlapped /\ Served => Served'
        BY <1>1, <2>1, <2>2, <2>3, ServedBy DEF Served, Underway, Building
    <2> QED BY <1>1, <1>2, <2>1, <2>2, <2>4, <2>5, BuilderGoesOn
<1>5. CASE Upload(w)
    <2> DEFINE s == [builder[w] EXCEPT !.pc = "persist"]
    <2>1. /\ builder[w].pc = "upload" /\ builder' = [builder EXCEPT ![w] = s]
          /\ blobs' = [blobs EXCEPT ![builder[w].rev] = builder[w].variant]
          /\ UNCHANGED <<paperSide, final, finQueue, overlapped>>
          /\ UNCHANGED <<wanted, finJob>>
        BY <1>5 DEF Upload, BuilderAt, finQueue
    <2>2. /\ s \in BuilderStates /\ s.pc = "persist" /\ s.rev = builder[w].rev
          /\ s.job = builder[w].job
        BY <1>1 DEF BuilderStates
    <2> HIDE DEF s
    <2>3. builder'[w] = s
        BY <1>1, <2>1 DEF FinalizeTypeOK
    <2>4. /\ s.rev \in 1..inputs /\ (~overlapped => s.rev >= final)
          /\ builder[w].variant \in Variants
        BY <1>1, <2>1, <2>2 DEF Builders, OneByOne, Building
    <2>5. /\ s.rev \in 1..MaxRevisions /\ builder[w].variant # "none"
          /\ \A r \in 1..inputs : r \in 1..MaxRevisions
        BY <1>1, <2>4 DEF Variants
    <2>6. /\ blobs' \in [1..MaxRevisions -> Variants \cup {"none"}]
          /\ blobs'[s.rev] # "none"
          /\ \A r \in 1..inputs : blobs[r] # "none" => blobs'[r] # "none"
        BY <1>1, <2>1, <2>2, <2>4, <2>5
    <2>7. final' # 0 => blobs'[final'] # "none"
        BY <1>1, <2>1, <2>6
    <2>8. ~overlapped /\ Served => Served'
        BY <1>1, <2>1, <2>2, <2>3, ServedBy DEF Served, Underway, Building
    <2> QED BY <1>1, <1>2, <2>1, <2>2, <2>4, <2>6, <2>7, <2>8, BuilderGoesOn
<1>6. CASE Persist(w)
    <2> DEFINE s == [NoBuild EXCEPT !.pc = "done", !.job = builder[w].job]
    <2>1. /\ builder[w].pc = "persist" /\ builder' = [builder EXCEPT ![w] = s]
          /\ final' = builder[w].rev
          /\ UNCHANGED <<paperSide, blobs, finQueue, overlapped>>
          /\ UNCHANGED <<wanted, finJob>>
        BY <1>6 DEF Persist, BuilderAt, finQueue
    <2>2. s \in BuilderStates /\ s.pc = "done" /\ s.job = builder[w].job
        <3>1. 0 \in 0..MaxRevisions /\ builder[w].job \in FinalizeJobs
            BY <1>1 DEF BuilderStates
        <3> QED BY <3>1 DEF BuilderStates, NoBuild
    <2> HIDE DEF s
    <2>3. /\ builder[w].rev \in 1..inputs /\ blobs[builder[w].rev] # "none"
          /\ ~overlapped => builder[w].rev >= final
        BY <1>1, <2>1 DEF Builders, OneByOne, Building
    <2>4. /\ final' \in 0..inputs
          /\ final' # 0 => blobs'[final'] # "none"
        BY <1>1, <2>1, <2>3
    <2>5. ~overlapped /\ Served => Served'
        <3> SUFFICES ASSUME ~overlapped, Served, \A j \in FinalizeJobs : finJob[j].state # "waiting"
                     PROVE  final' >= wanted
            BY <2>1 DEF Served
        <3>1. final >= wanted \/ builder[w].rev >= wanted
            BY <1>1, <2>1, ServedBy DEF Underway
        <3>2. builder[w].rev \in Nat /\ final \in Nat /\ wanted \in Nat /\ builder[w].rev >= final
            BY <1>1, <2>3
        <3>3. PICK a \in Nat, b \in Nat, c \in Nat :
                    a = final /\ b = builder[w].rev /\ c = wanted
            BY <3>2
        <3>4. builder[w].rev >= wanted
            <4>1. (a >= c \/ b >= c) /\ b >= a
                BY <3>1, <3>2, <3>3
            <4>2. b >= c
                BY <4>1
            <4> QED BY <3>3, <4>2
        <3> QED BY <2>1, <3>4
    <2> QED BY <1>1, <1>2, <2>1, <2>2, <2>4, <2>5, BuilderGoesOn DEF Building
<1> QED BY <1>3, <1>4, <1>5, <1>6

\* A slot takes a job.
LEMMA TakeFinalizeInv ==
    ASSUME FinalizeInv, NEW w \in FinalizeSlots, NEW j \in FinalizeJobs, TakeFinalize(w, j)
    PROVE  FinalizeInv'
<1> DEFINE s == [NoBuild EXCEPT !.pc = "load", !.job = j]
<1>1. /\ FinalizeTypeOK /\ FinJobsGood /\ Builders /\ Revisions /\ DoiQueued /\ OneByOne
      /\ UNCHANGED <<paperSide, shown, forced, wanted, finFaults>>
      /\ UNCHANGED <<inputs, doi, deposit, cutOff, final, blobs>>
      /\ builder[w].pc = "idle" /\ finJob[j].state = "waiting"
      /\ finJob' = [finJob EXCEPT ![j] = Taken(finJob[j])]
      /\ builder' = [builder EXCEPT ![w] = s]
      /\ overlapped' = (overlapped \/ \E v \in FinalizeSlots : builder[v].pc # "idle")
    BY DEF FinalizeInv, TakeFinalize, BuilderAt, paperSide, shown
<1>2. GoodJob(Taken(finJob[j]), MaxFinAttempts, MaxFinStalls) /\ Taken(finJob[j]).state = "active"
    BY <1>1, JobSteps, FinalizeTypes DEF FinJobsGood
<1>3. s \in BuilderStates /\ s.pc = "load" /\ s.job = j
    <2>1. 0 \in 0..MaxRevisions
        BY <1>1, FinalizeTypes
    <2> QED BY <2>1 DEF BuilderStates, NoBuild
<1> HIDE DEF s
<1>4. /\ builder'[w] = s /\ \A v \in FinalizeSlots \ {w} : builder'[v] = builder[v]
      /\ builder' \in [FinalizeSlots -> BuilderStates]
      /\ finJob'[j].state = "active" /\ \A i \in FinalizeJobs \ {j} : finJob'[i] = finJob[i]
      /\ finJob' \in [FinalizeJobs -> JobSet(MaxFinAttempts, MaxFinStalls)]
      /\ FinJobsGood' /\ overlapped' \in BOOLEAN
    BY <1>1, <1>2, <1>3 DEF FinalizeTypeOK, FinJobsGood, GoodJob
<1>5. FinalizeTypeOK'
    BY <1>1, <1>4 DEF FinalizeTypeOK
<1>6. \A v \in FinalizeSlots : builder[v].pc # "idle" =>
          builder[v].job # j /\ builder[v].job \in FinalizeJobs
    BY <1>1, FinalizeTypes DEF Builders
<1>7. Builders'
    BY <1>1, <1>3, <1>4, <1>6 DEF Builders, Building
<1>8. Revisions' /\ DoiQueued'
    BY <1>1, <1>4, FinalizeTypes DEF Revisions, ShownIsUploaded, DoiQueued
<1>9. OneByOne'
    <2> SUFFICES ASSUME ~overlapped'
                 PROVE  /\ \A v, u \in FinalizeSlots :
                              builder'[v].pc # "idle" /\ builder'[u].pc # "idle" => v = u
                        /\ \A v \in FinalizeSlots :
                              builder'[v].pc \in Building => builder'[v].rev >= final'
                        /\ Served'
        BY DEF OneByOne
    <2>1. \A v \in FinalizeSlots \ {w} : builder'[v].pc = "idle"
        BY <1>1, <1>4
    <2>2. Served'
        BY <1>3, <1>4 DEF Served, Underway
    <2> QED BY <1>3, <1>4, <2>1, <2>2 DEF Building
<1> QED BY <1>4, <1>5, <1>7, <1>8, <1>9 DEF FinalizeInv

\* A slot is through with its job, or the job is taken from it.
LEMMA BuildEndsInv ==
    ASSUME FinalizeInv, NEW w \in FinalizeSlots,
           FinishFinalize(w) \/ FinalizeFails(w) \/ FinalizeCrashes(w)
    PROVE  FinalizeInv'
<1> DEFINE j == builder[w].job
<1>1. /\ FinalizeTypeOK /\ FinJobsGood /\ Builders /\ Revisions /\ DoiQueued /\ OneByOne
      /\ j \in FinalizeJobs
    BY FinalizeTypes DEF FinalizeInv
<1>2. PICK job : /\ finJob' = [finJob EXCEPT ![j] = job]
                 /\ \/ job = Completed(finJob[j]) /\ builder[w].pc = "done"
                    \/ job = Retried(finJob[j], FALSE, MaxFinAttempts)
                    \/ job = Stalled(finJob[j], MaxFinStalls)
    <2>1. FinishFinalize(w) => finJob' = [finJob EXCEPT ![j] = Completed(finJob[j])]
                               /\ builder[w].pc = "done"
        BY DEF FinishFinalize, BuilderAt
    <2>2. FinalizeFails(w) =>
              finJob' = [finJob EXCEPT ![j] = Retried(finJob[j], FALSE, MaxFinAttempts)]
        BY DEF FinalizeFails
    <2>3. FinalizeCrashes(w) => finJob' = [finJob EXCEPT ![j] = Stalled(finJob[j], MaxFinStalls)]
        BY DEF FinalizeCrashes
    <2> QED BY <2>1, <2>2, <2>3
<1>3. /\ UNCHANGED <<paperSide, shown, forced, wanted, overlapped>>
      /\ UNCHANGED <<inputs, doi, deposit, cutOff, final, blobs>>
      /\ builder[w].pc # "idle" /\ builder' = [builder EXCEPT ![w] = NoBuild]
      /\ FinFault \/ finFaults' = finFaults
    BY DEF FinishFinalize, FinalizeFails, FinalizeCrashes, BuilderAt, paperSide, shown
<1>4. finFaults' \in 0..MaxFinFaults
    BY <1>1, <1>3, FinFaultBound
<1>5. finJob[j].state = "active"
    BY <1>1, <1>3 DEF Builders
<1>6. /\ GoodJob(job, MaxFinAttempts, MaxFinStalls)
      /\ job.state \in {"done", "waiting", "failed"}
      /\ job.state = "done" => builder[w].pc = "done"
    <2>1. /\ FALSE \in BOOLEAN /\ MaxFinAttempts \in Nat \ {0} /\ MaxFinStalls \in Nat
          /\ GoodJob(finJob[j], MaxFinAttempts, MaxFinStalls)
        BY <1>1, FinalizeTypes DEF FinJobsGood
    <2>2. /\ GoodJob(Completed(finJob[j]), MaxFinAttempts, MaxFinStalls)
          /\ Completed(finJob[j]).state = "done"
          /\ GoodJob(Stalled(finJob[j], MaxFinStalls), MaxFinAttempts, MaxFinStalls)
          /\ Stalled(finJob[j], MaxFinStalls).state \in {"waiting", "failed"}
          /\ \A b \in BOOLEAN :
                /\ GoodJob(Retried(finJob[j], b, MaxFinAttempts), MaxFinAttempts, MaxFinStalls)
                /\ Retried(finJob[j], b, MaxFinAttempts).state \in {"waiting", "failed"}
        BY <1>5, <2>1, JobSteps
    <2> QED BY <1>2, <2>1, <2>2
<1> HIDE DEF j
<1>7. /\ builder'[w] = NoBuild /\ NoBuild.pc = "idle"
      /\ \A v \in FinalizeSlots \ {w} : builder'[v] = builder[v]
      /\ builder' \in [FinalizeSlots -> BuilderStates]
      /\ finJob'[j] = job /\ \A i \in FinalizeJobs \ {j} : finJob'[i] = finJob[i]
      /\ finJob' \in [FinalizeJobs -> JobSet(MaxFinAttempts, MaxFinStalls)]
      /\ FinJobsGood'
    <2>1. NoBuild \in BuilderStates /\ NoBuild.pc = "idle"
        <3>1. 0 \in 0..MaxRevisions /\ SubmitJob \in FinalizeJobs
            BY <1>1, FinalizeTypes
        <3> QED BY <3>1 DEF NoBuild, BuilderStates
    <2> QED BY <1>1, <1>2, <1>3, <1>6, <2>1 DEF FinalizeTypeOK, FinJobsGood, GoodJob
<1>8. FinalizeTypeOK'
    BY <1>1, <1>3, <1>4, <1>7 DEF FinalizeTypeOK
<1>9. \A v \in FinalizeSlots \ {w} : builder[v].pc # "idle" =>
          builder[v].job # j /\ builder[v].job \in FinalizeJobs
    BY <1>1, <1>3, FinalizeTypes DEF Builders, j
<1>10. Builders'
    BY <1>1, <1>3, <1>7, <1>9 DEF Builders, Building
<1>11. Revisions' /\ DoiQueued'
    BY <1>1, <1>3, <1>5, <1>6, <1>7, FinalizeTypes DEF Revisions, ShownIsUploaded, DoiQueued
<1>12. OneByOne'
    <2> SUFFICES ASSUME ~overlapped
                 PROVE  /\ \A v, u \in FinalizeSlots :
                              builder'[v].pc # "idle" /\ builder'[u].pc # "idle" => v = u
                        /\ \A v \in FinalizeSlots :
                              builder'[v].pc \in Building => builder'[v].rev >= final'
                        /\ (\A i \in FinalizeJobs : finJob'[i].state # "failed") => Served'
        BY <1>3 DEF OneByOne
    <2>1. \A v \in FinalizeSlots : builder'[v].pc = "idle"
        BY <1>1, <1>3, <1>7 DEF OneByOne
    <2>2. ASSUME \A i \in FinalizeJobs : finJob'[i].state # "failed" PROVE Served'
        <3>1. CASE job.state = "waiting"
            BY <1>1, <1>7, <3>1 DEF Served
        <3>2. CASE job.state # "waiting"
            <4>1. builder[w].pc = "done" /\ Served
                <5>1. \A i \in FinalizeJobs : finJob[i].state # "failed"
                    BY <1>5, <1>7, <2>2
                <5>2. job.state # "failed"
                    BY <1>1, <1>7, <2>2
                <5> QED BY <1>1, <1>6, <3>2, <5>1, <5>2 DEF OneByOne
            <4>2. \/ final >= wanted
                  \/ \E i \in FinalizeJobs : finJob[i].state = "waiting"
                BY <1>1, <1>3, <4>1, ServedBy DEF Underway, Building
            <4> QED BY <1>3, <1>5, <1>7, <4>2 DEF Served
        <3> QED BY <3>1, <3>2
    <2> QED BY <2>1, <2>2 DEF Building
<1> QED BY <1>7, <1>8, <1>10, <1>11, <1>12 DEF FinalizeInv

LEMMA FinalizeInductive == FinalizeInv /\ [FinalizeNext]_finVars => FinalizeInv'
<1> SUFFICES ASSUME FinalizeInv, [FinalizeNext]_finVars PROVE FinalizeInv'
    OBVIOUS
<1>1. ASSUME NEW w \in FinalizeSlots, FinalizeStep(w) \/ FinalizeFails(w) \/ FinalizeCrashes(w)
      PROVE  FinalizeInv'
    BY <1>1, TakeFinalizeInv, BuildInv, BuildEndsInv DEF FinalizeStep
<1>2. CASE UNCHANGED finVars
    BY <1>2 DEF finVars, paperSide, shown, finQueue, FinalizeInv, FinalizeTypeOK, FinJobsGood,
                Builders, Revisions, ShownIsUploaded, DoiQueued, OneByOne, Served, Underway, Building
<1> QED BY <1>1, <1>2, RequestsInv DEF FinalizeNext

\* Finalizing keeps FinalizeInv, for any number of jobs, slots and revisions
\* (pdf-finalize.ts:76-250).
THEOREM FinalizeSafe == FinalizeSpec => []FinalizeInv
BY FinalizeInitInv, FinalizeInductive, PTL DEF FinalizeSpec

\* What the page links to has its blob, and once the queue is empty it shows the
\* inputs of the last request (pdf-finalize.ts:28-35), for any number of jobs,
\* slots, revisions, failures and crashes.
THEOREM FinalIsUpToDate == FinalizeSpec => []FinalHolds
<1>1. FinalizeInv => FinalHolds
    <2> SUFFICES ASSUME FinalizeInv PROVE FinalHolds
        OBVIOUS
    <2>1. ShownIsUploaded
        BY DEF FinalizeInv, Revisions
    <2>2. ASSUME FinalizeIdle
          PROVE  /\ ~overlapped /\ (\A j \in FinalizeJobs : finJob[j].state # "failed")
                        => final >= wanted
                 /\ doi /\ ~cutOff => finJob[DoiJob].state # "none"
        <3>1. /\ FinalizeTypeOK /\ Builders /\ DoiQueued /\ OneByOne
              /\ deposit = "idle"
              /\ \A j \in FinalizeJobs : finJob[j].state \notin {"waiting", "active"}
            BY <2>2 DEF FinalizeInv, FinalizeIdle, Live
        <3>2. \A w \in FinalizeSlots : builder[w].pc = "idle"
            BY <3>1, FinalizeTypes DEF Builders
        <3> QED BY <3>1, <3>2 DEF OneByOne, Served, Underway, Building, DoiQueued
    <2> QED BY <2>1, <2>2 DEF FinalHolds, FinalFollowsRequests
<1> QED BY <1>1, FinalizeSafe, PTL


-----------------------------------------------------------------------------
(* Follows. *)

FollowJobsGood ==
    \A a \in FollowActions : GoodJob(followJob[a], MaxFollowAttempts, MaxFollowStalls)

\* Only one slot holds the lock of a job, and only while the job is active.
LocksHeld ==
    /\ \A w \in FollowSlots :
        slot[w].mine => slot[w].pc # "idle" /\ followJob[slot[w].action].state = "active"
    /\ \A v, w \in FollowSlots :
        slot[v].mine /\ slot[w].mine /\ slot[v].action = slot[w].action => v = w

\* A look-up sees every record, and what it has seen holds until the write.
LookUpsHold ==
    ~excused =>
        /\ horizon = 0
        /\ \A w \in FollowSlots : slot[w].pc # "idle" => slot[w].mine
        /\ \A r, s \in follows : r = s
        /\ \A w \in FollowSlots :
            slot[w].pc = "write" /\ slot[w].action = "follow" => follows = {}

\* How far the last request has got.
FollowReached ==
    asked = "follow" =>
        /\ followJob["follow"].state = "none" => follows # {} /\ mirror
        /\ \A w \in FollowSlots :
            /\ slot[w].pc \in {"mirror", "finish"} => follows # {}
            /\ slot[w].pc = "finish" => mirror

UnfollowReached ==
    asked = "unfollow" =>
        /\ followJob["unfollow"].state = "none" => follows = {} /\ ~mirror
        /\ \A w \in FollowSlots :
            /\ slot[w].pc = "write" => follows \subseteq {slot[w].found}
            /\ slot[w].pc \in {"mirror", "finish"} => follows = {}
            /\ slot[w].pc = "finish" => ~mirror

OnlyTheLast ==
    ~excused /\ serial =>
        /\ \A a \in FollowActions : a # asked => ~Live(followJob[a])
        /\ import = "saw" => follows # {} /\ \A a \in FollowActions : ~Live(followJob[a])
        /\ FollowReached /\ UnfollowReached

FollowInv == FollowTypeOK /\ FollowJobsGood /\ LocksHeld /\ LookUpsHold /\ OnlyTheLast

LEMMA FollowTypes ==
    ASSUME FollowTypeOK
    PROVE  /\ MaxFollowAttempts \in Nat \ {0} /\ MaxFollowStalls \in Nat
           /\ MaxFollowFaults \in Nat /\ MaxFollowRequests \in Nat
           /\ \A w \in FollowSlots :
                /\ slot[w] \in FollowSlotStates /\ slot[w].action \in FollowActions
                /\ slot[w].mine \in BOOLEAN /\ slot[w].found \in Nat
           /\ newest \in Nat /\ newest + 1 \in Nat
BY FollowAssumption DEF FollowTypeOK, FollowSlotStates

LEMMA FollowFaultBound ==
    ASSUME FollowTypeOK, FollowFault \/ followFaults' = followFaults
    PROVE  followFaults' \in 0..MaxFollowFaults
BY FollowAssumption DEF FollowTypeOK, FollowFault

LEMMA FreeSlotType == FreeSlot \in FollowSlotStates /\ FreeSlot.pc = "idle" /\ ~FreeSlot.mine
BY DEF FreeSlot, FollowSlotStates, FollowActions

LEMMA FollowInitInv == FollowInit => FollowInv
<1> SUFFICES ASSUME FollowInit PROVE FollowInv
    OBVIOUS
<1>1. /\ FollowJobsGood
      /\ \A a \in FollowActions : followJob[a].state = "none" /\ ~Live(followJob[a])
    BY NewJobGood, FollowAssumption DEF FollowInit, FollowJobsGood, Live
<1>2. \A w \in FollowSlots : slot[w].pc = "idle" /\ ~slot[w].mine
    BY FreeSlotType DEF FollowInit
<1>3. FollowTypeOK
    <2>1. followJob \in [FollowActions -> JobSet(MaxFollowAttempts, MaxFollowStalls)]
        BY <1>1 DEF FollowJobsGood, GoodJob, FollowInit
    <2>2. /\ 0 \in 0..MaxFollowRequests /\ 0 \in 0..MaxFollowFaults /\ 0 \in 0..1
          /\ {} \subseteq 1..1 /\ {1} \subseteq 1..1
        BY FollowAssumption
    <2> QED BY <2>1, <2>2, FreeSlotType DEF FollowInit, FollowTypeOK
<1>4. LocksHeld /\ LookUpsHold
    BY <1>2 DEF LocksHeld, LookUpsHold, FollowInit
<1>5. OnlyTheLast
    BY <1>1 DEF OnlyTheLast, FollowReached, UnfollowReached, FollowInit
<1> QED BY <1>1, <1>3, <1>4, <1>5 DEF FollowInv

-----------------------------------------------------------------------------
(* The API. *)

LEMMA RequestFollowInv ==
    ASSUME FollowInv, NEW a \in FollowActions, RequestFollow(a) PROVE FollowInv'
<1>1. /\ FollowTypeOK /\ FollowJobsGood /\ LocksHeld /\ LookUpsHold
      /\ requests < MaxFollowRequests /\ requests' = requests + 1
      /\ asked' = a /\ serial' = FollowQuiet
      /\ followJob' = [followJob EXCEPT ![a] = Added(followJob[a])]
      /\ UNCHANGED <<follows, newest, horizon, mirror, slot, import, excused, followFaults>>
    BY DEF FollowInv, RequestFollow, remote
<1>2. /\ GoodJob(Added(followJob[a]), MaxFollowAttempts, MaxFollowStalls)
      /\ followJob[a].state # "none" => Added(followJob[a]) = followJob[a]
      /\ followJob[a].state = "none" => Added(followJob[a]).state = "waiting"
    BY <1>1, JobSteps, FollowTypes DEF FollowJobsGood
<1>3. /\ followJob'[a] = Added(followJob[a])
      /\ \A b \in FollowActions \ {a} : followJob'[b] = followJob[b]
      /\ followJob' \in [FollowActions -> JobSet(MaxFollowAttempts, MaxFollowStalls)]
      /\ FollowJobsGood'
    BY <1>1, <1>2 DEF FollowTypeOK, FollowJobsGood, GoodJob
<1>4. requests' \in 0..MaxFollowRequests /\ serial' \in BOOLEAN
    BY <1>1, FollowTypes DEF FollowTypeOK, FollowQuiet
<1>5. FollowTypeOK'
    BY <1>1, <1>3, <1>4 DEF FollowTypeOK
<1>6. LocksHeld' /\ LookUpsHold'
    BY <1>1, <1>2, <1>3, FollowTypes DEF LocksHeld, LookUpsHold
<1>7. OnlyTheLast'
    <2> SUFFICES ASSUME FollowQuiet
                 PROVE  /\ \A b \in FollowActions : b # a => ~Live(followJob'[b])
                        /\ import' # "saw" /\ FollowReached' /\ UnfollowReached'
        BY <1>1 DEF OnlyTheLast
    <2>1. /\ \A b \in FollowActions : ~Live(followJob[b])
          /\ \A w \in FollowSlots : slot'[w].pc = "idle"
          /\ import' = "idle"
        BY <1>1 DEF FollowQuiet
    <2>2. followJob'[a].state # "none"
        BY <1>2, <1>3
    <2>3. FollowReached' /\ UnfollowReached'
        BY <1>1, <2>1, <2>2 DEF FollowReached, UnfollowReached
    <2> QED BY <1>3, <2>1, <2>3
<1> QED BY <1>3, <1>5, <1>6, <1>7 DEF FollowInv

\* The import, the clearing of the mirror, and what the user does elsewhere.
LEMMA AsideInv ==
    ASSUME FollowInv, ImportRead \/ ImportUpsert \/ ImportFails \/ ForgetFollows \/ ActElsewhere
    PROVE  FollowInv'
<1>1. /\ FollowTypeOK /\ FollowJobsGood /\ LocksHeld /\ LookUpsHold /\ OnlyTheLast
      /\ UNCHANGED <<followJob, slot, asked, requests>>
      /\ import' \in {"idle", "saw"} /\ mirror' \in BOOLEAN
      /\ serial' \in BOOLEAN /\ excused' \in BOOLEAN
      /\ FollowFault \/ followFaults' = followFaults
    BY DEF FollowInv, ImportRead, ImportUpsert, ImportFails, ForgetFollows, ActElsewhere, remote,
           history, spent, FollowTypeOK
<1>2. followFaults' \in 0..MaxFollowFaults
    BY <1>1, FollowFaultBound
<1>3. FollowJobsGood' /\ LocksHeld'
    BY <1>1 DEF FollowJobsGood, LocksHeld
<1>4. CASE ActElsewhere
    <2>1. excused'
        BY <1>4 DEF ActElsewhere
    <2>2. follows' \subseteq 1..newest' /\ newest' \in Nat /\ horizon' \in 0..newest'
        <3>1. /\ newest \in Nat /\ newest + 1 \in Nat /\ newest \in 0..newest
              /\ \A n \in 1..newest : n \in 1..(newest + 1)
              /\ \A n \in 0..newest : n \in 0..(newest + 1)
              /\ newest + 1 \in 1..(newest + 1)
            BY <1>1, FollowTypes
        <3>2. follows \subseteq 1..newest /\ horizon \in 0..newest
            BY <1>1 DEF FollowTypeOK
        <3>3. \/ newest' = newest + 1 /\ follows' = follows \cup {newest + 1} /\ horizon' = horizon
              \/ follows' = {} /\ newest' = newest /\ horizon' = horizon
              \/ horizon' = newest /\ follows' = follows /\ newest' = newest
            BY <1>4 DEF ActElsewhere
        <3> QED BY <3>1, <3>2, <3>3
    <2>3. FollowTypeOK'
        BY <1>1, <1>2, <2>2 DEF FollowTypeOK
    <2> QED BY <1>3, <2>1, <2>3 DEF FollowInv, LookUpsHold, OnlyTheLast
<1>5. CASE ~ActElsewhere
    <2>1. UNCHANGED <<follows, newest, horizon, excused>>
        BY <1>1, <1>5 DEF ImportRead, ImportUpsert, ImportFails, ForgetFollows, remote, history
    <2>2. FollowTypeOK'
        BY <1>1, <1>2, <2>1 DEF FollowTypeOK
    <2>3. LookUpsHold'
        BY <1>1, <2>1 DEF LookUpsHold
    <2>4. OnlyTheLast'
        <3>1. CASE ImportRead
            <4>1. /\ follows # {} /\ mirror' = mirror /\ serial' = (serial /\ FollowQuiet)
                BY <3>1 DEF ImportRead
            <4> QED BY <1>1, <2>1, <4>1
                    DEF OnlyTheLast, FollowReached, UnfollowReached, FollowQuiet
        <3>2. CASE ImportUpsert
            <4>1. import = "saw" /\ import' = "idle" /\ mirror' = TRUE /\ serial' = serial
                BY <3>2 DEF ImportUpsert, history
            <4>2. ASSUME ~excused, serial
                  PROVE  follows # {} /\ \A w \in FollowSlots : slot[w].pc = "idle"
                BY <1>1, <4>1, <4>2, FollowTypes DEF OnlyTheLast, LookUpsHold, LocksHeld, Live
            <4> QED BY <1>1, <2>1, <4>1, <4>2 DEF OnlyTheLast, FollowReached, UnfollowReached
        <3>3. CASE ImportFails
            <4>1. import' = "idle" /\ mirror' = mirror /\ serial' = serial
                BY <3>3 DEF ImportFails, history
            <4> QED BY <1>1, <2>1, <4>1 DEF OnlyTheLast, FollowReached, UnfollowReached
        <3>4. CASE ForgetFollows
            BY <3>4 DEF ForgetFollows, OnlyTheLast
        <3> QED BY <1>5, <3>1, <3>2, <3>3, <3>4
    <2> QED BY <1>3, <2>2, <2>3, <2>4 DEF FollowInv
<1> QED BY <1>4, <1>5

-----------------------------------------------------------------------------
(* The worker. *)

LEMMA TakeFollowInv ==
    ASSUME FollowInv, NEW w \in FollowSlots, NEW a \in FollowActions, TakeFollow(w, a)
    PROVE  FollowInv'
<1> DEFINE s == [pc |-> "find", action |-> a, found |-> 0, mine |-> TRUE]
<1>1. /\ FollowTypeOK /\ FollowJobsGood /\ LocksHeld /\ LookUpsHold /\ OnlyTheLast
      /\ slot[w].pc = "idle" /\ followJob[a].state = "waiting"
      /\ followJob' = [followJob EXCEPT ![a] = Taken(followJob[a])]
      /\ slot' = [slot EXCEPT ![w] = s] /\ s \in FollowSlotStates
      /\ UNCHANGED <<follows, newest, horizon, mirror, import, asked, serial, excused,
                     requests, followFaults>>
    BY DEF FollowInv, TakeFollow, SlotAt, FollowSlotStates, remote, history, spent
<1>2. GoodJob(Taken(followJob[a]), MaxFollowAttempts, MaxFollowStalls)
      /\ Taken(followJob[a]).state = "active"
    BY <1>1, JobSteps, FollowTypes DEF FollowJobsGood
<1>3. /\ followJob'[a] = Taken(followJob[a])
      /\ \A b \in FollowActions \ {a} : followJob'[b] = followJob[b]
      /\ slot'[w] = s /\ \A v \in FollowSlots \ {w} : slot'[v] = slot[v]
      /\ followJob' \in [FollowActions -> JobSet(MaxFollowAttempts, MaxFollowStalls)]
      /\ FollowJobsGood'
    BY <1>1, <1>2 DEF FollowTypeOK, FollowJobsGood, GoodJob
<1>4. FollowTypeOK'
    BY <1>1, <1>3 DEF FollowTypeOK
<1>5. \A v \in FollowSlots : slot[v].mine => slot[v].action \in FollowActions \ {a}
    BY <1>1, FollowTypes DEF LocksHeld
<1>6. LocksHeld'
    BY <1>1, <1>2, <1>3, <1>5 DEF LocksHeld
<1>7. LookUpsHold'
    BY <1>1, <1>3 DEF LookUpsHold
<1>8. OnlyTheLast'
    <2>1. /\ Live(followJob[a])
          /\ \A b \in FollowActions : Live(followJob'[b]) => Live(followJob[b])
          /\ \A b \in FollowActions : followJob'[b].state = "none" => followJob[b].state = "none"
        BY <1>1, <1>2, <1>3 DEF Live
    <2>2. FollowReached => FollowReached'
        BY <1>1, <1>3, <2>1 DEF FollowReached, FollowActions
    <2>3. UnfollowReached => UnfollowReached'
        BY <1>1, <1>3, <2>1 DEF UnfollowReached, FollowActions
    <2> QED BY <1>1, <2>1, <2>2, <2>3 DEF OnlyTheLast
<1> QED BY <1>3, <1>4, <1>6, <1>7, <1>8 DEF FollowInv

\* A slot that goes on keeps its job; no other slot works on the last request.
LEMMA SlotGoesOn ==
    ASSUME FollowInv, NEW w \in FollowSlots, NEW s \in FollowSlotStates,
           slot' = [slot EXCEPT ![w] = s], slot[w].pc # "idle", s.pc # "idle",
           s.action = slot[w].action, s.mine = slot[w].mine,
           UNCHANGED <<horizon, followJob, import, asked, serial, excused, requests, followFaults>>
    PROVE  /\ FollowJobsGood' /\ LocksHeld' /\ slot' \in [FollowSlots -> FollowSlotStates]
           /\ slot'[w] = s /\ \A v \in FollowSlots \ {w} : slot'[v] = slot[v]
           /\ ~excused /\ serial =>
                /\ slot[w].action = asked /\ import # "saw"
                /\ followJob[asked].state = "active"
                /\ \A v \in FollowSlots \ {w} : slot[v].pc = "idle"
           /\ ~excused => \A v \in FollowSlots \ {w} :
                slot[v].pc # "idle" => slot[v].action # slot[w].action
<1>1. /\ FollowTypeOK /\ FollowJobsGood /\ LocksHeld /\ LookUpsHold /\ OnlyTheLast
      /\ slot[w].action \in FollowActions
    BY FollowTypes DEF FollowInv
<1>2. /\ slot'[w] = s /\ \A v \in FollowSlots \ {w} : slot'[v] = slot[v]
      /\ slot' \in [FollowSlots -> FollowSlotStates]
    BY <1>1 DEF FollowTypeOK
<1>3. FollowJobsGood' /\ LocksHeld'
    BY <1>1, <1>2 DEF FollowJobsGood, LocksHeld
<1>4. ASSUME ~excused
      PROVE  \A v \in FollowSlots \ {w} : slot[v].pc # "idle" => slot[v].action # slot[w].action
    BY <1>1, <1>4 DEF LookUpsHold, LocksHeld
<1>5. ASSUME ~excused, serial
      PROVE  /\ slot[w].action = asked /\ import # "saw"
             /\ followJob[asked].state = "active"
             /\ \A v \in FollowSlots \ {w} : slot[v].pc = "idle"
    <2>1. \A v \in FollowSlots : slot[v].pc # "idle" =>
              /\ slot[v].action \in FollowActions
              /\ followJob[slot[v].action].state = "active" /\ Live(followJob[slot[v].action])
        BY <1>1, <1>5, FollowTypes DEF LookUpsHold, LocksHeld, Live
    <2>2. \A v \in FollowSlots : slot[v].pc # "idle" => slot[v].action = asked
        BY <1>1, <1>5, <2>1 DEF OnlyTheLast
    <2> QED BY <1>1, <1>4, <1>5, <2>1, <2>2 DEF OnlyTheLast
<1> QED BY <1>2, <1>3, <1>4, <1>5

LEMMA FindFollowInv == ASSUME FollowInv, NEW w \in FollowSlots, FindFollow(w) PROVE FollowInv'
<1>1. /\ FollowTypeOK /\ LookUpsHold /\ OnlyTheLast /\ slot[w] \in FollowSlotStates
      /\ newest \in Nat /\ follows \subseteq 1..newest
    BY FollowTypes DEF FollowInv, FollowTypeOK
<1>2. PICK found \in {r \in follows : r > horizon} \cup {0} :
        /\ \A r \in follows : r > horizon => found >= r
        /\ slot' = [slot EXCEPT
               ![w].found = found,
               ![w].pc = IF (found = 0) = (slot[w].action = "follow") THEN "write" ELSE "mirror"]
    BY DEF FindFollow
<1> DEFINE next == IF (found = 0) = (slot[w].action = "follow") THEN "write" ELSE "mirror"
           f == [slot[w] EXCEPT !.found = found]
           s == [f EXCEPT !.pc = next]
<1>3. /\ slot[w].pc = "find" /\ slot' = [slot EXCEPT ![w] = s]
      /\ UNCHANGED <<follows, newest, horizon, mirror, followJob, import, asked, serial, excused,
                     requests, followFaults>>
    BY <1>2 DEF FindFollow, SlotAt, remote, history, spent
<1>4. /\ next \in {"write", "mirror"} /\ found \in Nat
      /\ slot[w].action = "follow" => (next = "write" <=> found = 0)
      /\ slot[w].action = "unfollow" => (next = "mirror" <=> found = 0)
      /\ slot[w].action \in {"follow", "unfollow"}
    <2>1. \A n \in 1..newest : n \in Nat
        OBVIOUS
    <2>2. found \in Nat
        BY <1>1, <2>1
    <2>3. slot[w].action \in {"follow", "unfollow"}
        BY <1>1 DEF FollowSlotStates, FollowActions
    <2>4. CASE slot[w].action = "follow"
        BY <2>2, <2>4
    <2>5. CASE slot[w].action = "unfollow"
        BY <2>2, <2>5
    <2> QED BY <2>3, <2>4, <2>5
<1> HIDE DEF next
<1>5. /\ s \in FollowSlotStates /\ s.pc = next /\ s.found = found
      /\ s.action = slot[w].action /\ s.mine = slot[w].mine
    <2>1. f \in FollowSlotStates
          /\ f.found = found /\ f.action = slot[w].action /\ f.mine = slot[w].mine
        BY <1>1, <1>4 DEF FollowSlotStates
    <2> HIDE DEF f
    <2> QED BY <1>4, <2>1 DEF FollowSlotStates
<1>6. s.pc # "idle" /\ slot[w].pc # "idle"
    BY <1>3, <1>4, <1>5
<1> HIDE DEF s
<1>7. /\ FollowJobsGood' /\ LocksHeld' /\ slot' \in [FollowSlots -> FollowSlotStates]
      /\ slot'[w] = s /\ \A v \in FollowSlots \ {w} : slot'[v] = slot[v]
      /\ ~excused /\ serial =>
           /\ slot[w].action = asked /\ import # "saw"
           /\ followJob[asked].state = "active"
           /\ \A v \in FollowSlots \ {w} : slot[v].pc = "idle"
    BY <1>3, <1>5, <1>6, SlotGoesOn
<1>8. FollowTypeOK'
    BY <1>1, <1>3, <1>7 DEF FollowTypeOK
<1>9. ASSUME ~excused
      PROVE  IF found = 0 THEN follows = {} ELSE follows = {found}
    <2>1. horizon = 0 /\ \A r, q \in follows : r = q
        BY <1>1, <1>9 DEF LookUpsHold
    <2>2. \A r \in follows : r > horizon /\ r # 0
        BY <1>1, <2>1
    <2>3. found = 0 => follows = {}
        BY <1>1, <1>2, <2>2
    <2> QED BY <1>2, <2>1, <2>3
<1>10. LookUpsHold'
    BY <1>1, <1>3, <1>4, <1>5, <1>7, <1>9 DEF LookUpsHold
<1>11. OnlyTheLast'
    <2> SUFFICES ASSUME ~excused, serial PROVE FollowReached' /\ UnfollowReached'
        BY <1>1, <1>3 DEF OnlyTheLast
    <2>1. FollowReached /\ UnfollowReached
        BY <1>1 DEF OnlyTheLast
    <2>2. FollowReached'
        BY <1>3, <1>4, <1>5, <1>7, <1>9, <2>1 DEF FollowReached
    <2>3. UnfollowReached'
        BY <1>3, <1>4, <1>5, <1>7, <1>9, <2>1 DEF UnfollowReached
    <2> QED BY <2>2, <2>3
<1> QED BY <1>7, <1>8, <1>10, <1>11 DEF FollowInv

\* What a write does to the records.
LEMMA WriteFacts ==
    ASSUME FollowInv, NEW w \in FollowSlots, slot[w].pc = "write", Written(w)
    PROVE  /\ newest' \in Nat /\ follows' \subseteq 1..newest'
           /\ \A n \in 0..newest : n \in 0..newest'
           /\ slot[w].action = "follow" => follows' # {}
           /\ slot[w].action = "unfollow" =>
                follows' = follows \ {slot[w].found} /\ newest' = newest
           /\ ~excused => \A r, s \in follows' : r = s
<1>1. /\ newest \in Nat /\ newest + 1 \in Nat /\ follows \subseteq 1..newest
      /\ slot[w].action \in {"follow", "unfollow"}
      /\ \A n \in 1..newest : n \in 1..(newest + 1)
      /\ \A n \in 0..newest : n \in 0..(newest + 1)
      /\ newest + 1 \in 1..(newest + 1)
    BY FollowTypes DEF FollowInv, FollowTypeOK, FollowActions
<1>2. CASE slot[w].action = "follow"
    <2>1. newest' = newest + 1 /\ follows' = follows \cup {newest + 1}
        BY <1>2 DEF Written
    <2>2. ~excused => follows = {}
        BY <1>2 DEF FollowInv, LookUpsHold
    <2> QED BY <1>1, <1>2, <2>1, <2>2
<1>3. CASE slot[w].action = "unfollow"
    <2>1. newest' = newest /\ follows' = follows \ {slot[w].found}
        BY <1>3 DEF Written
    <2>2. ~excused => \A r, s \in follows : r = s
        BY DEF FollowInv, LookUpsHold
    <2> QED BY <1>1, <1>3, <2>1, <2>2
<1> QED BY <1>1, <1>2, <1>3

LEMMA WriteFollowInv ==
    ASSUME FollowInv, NEW w \in FollowSlots, WriteFollow(w) \/ MirrorFollow(w)
    PROVE  FollowInv'
<1> DEFINE next == IF WriteFollow(w) THEN "mirror" ELSE "finish"
           s == [slot[w] EXCEPT !.pc = next]
<1>1. /\ FollowTypeOK /\ LookUpsHold /\ OnlyTheLast /\ slot[w] \in FollowSlotStates
      /\ slot[w].action \in {"follow", "unfollow"}
    BY FollowTypes DEF FollowInv, FollowActions
<1>2. /\ slot' = [slot EXCEPT ![w] = s] /\ mirror' \in BOOLEAN
      /\ UNCHANGED <<horizon, followJob, import, asked, serial, excused, requests, followFaults>>
      /\ \/ slot[w].pc = "write" /\ next = "mirror" /\ Written(w) /\ mirror' = mirror
         \/ /\ slot[w].pc = "mirror" /\ next = "finish" /\ follows' = follows /\ newest' = newest
            /\ mirror' = (slot[w].action = "follow")
    BY <1>1 DEF WriteFollow, MirrorFollow, SlotAt, remote, history, spent, FollowTypeOK
<1>3. next \in {"mirror", "finish"}
    OBVIOUS
<1> HIDE DEF next
<1>4. /\ s \in FollowSlotStates /\ s.pc = next /\ s.found = slot[w].found
      /\ s.action = slot[w].action /\ s.mine = slot[w].mine
    BY <1>1, <1>3 DEF FollowSlotStates
<1>5. s.pc # "idle" /\ slot[w].pc # "idle"
    BY <1>2, <1>3, <1>4
<1> HIDE DEF s
<1>6. /\ FollowJobsGood' /\ LocksHeld' /\ slot' \in [FollowSlots -> FollowSlotStates]
      /\ slot'[w] = s /\ \A v \in FollowSlots \ {w} : slot'[v] = slot[v]
      /\ ~excused /\ serial =>
           /\ slot[w].action = asked /\ import # "saw"
           /\ followJob[asked].state = "active"
           /\ \A v \in FollowSlots \ {w} : slot[v].pc = "idle"
      /\ ~excused => \A v \in FollowSlots \ {w} :
           slot[v].pc # "idle" => slot[v].action # slot[w].action
    BY <1>2, <1>4, <1>5, SlotGoesOn
<1>7. /\ newest' \in Nat /\ follows' \subseteq 1..newest' /\ \A n \in 0..newest : n \in 0..newest'
      /\ ~excused => \A r, q \in follows' : r = q
      /\ slot[w].pc = "write" /\ slot[w].action = "follow" => follows' # {}
      /\ slot[w].pc = "write" /\ slot[w].action = "unfollow" => follows' = follows \ {slot[w].found}
      /\ slot[w].pc = "mirror" => follows' = follows
    BY <1>1, <1>2, WriteFacts DEF FollowTypeOK, LookUpsHold
<1>8. FollowTypeOK'
    BY <1>1, <1>2, <1>6, <1>7 DEF FollowTypeOK
<1>9. LookUpsHold'
    BY <1>1, <1>2, <1>3, <1>4, <1>6, <1>7 DEF LookUpsHold
<1>10. OnlyTheLast'
    <2> SUFFICES ASSUME ~excused, serial PROVE FollowReached' /\ UnfollowReached'
        BY <1>1, <1>2, <1>6 DEF OnlyTheLast
    <2>1. FollowReached /\ UnfollowReached
        BY <1>1 DEF OnlyTheLast
    <2>2. FollowReached'
        BY <1>2, <1>3, <1>4, <1>6, <1>7, <2>1 DEF FollowReached
    <2>3. UnfollowReached'
        BY <1>2, <1>3, <1>4, <1>6, <1>7, <2>1 DEF UnfollowReached
    <2> QED BY <2>2, <2>3
<1> QED BY <1>6, <1>8, <1>9, <1>10 DEF FollowInv

\* A slot that ends frees its place, and the job it holds is not active any more.
LEMMA SlotEnds ==
    ASSUME FollowInv, NEW w \in FollowSlots, slot[w].pc # "idle", NEW job,
           slot[w].mine =>
               /\ GoodJob(job, MaxFollowAttempts, MaxFollowStalls)
               /\ job.state \in {"none", "waiting", "failed"}
               /\ job.state = "none" => slot[w].pc = "finish",
           slot' = [slot EXCEPT ![w] = FreeSlot],
           followJob' = IF slot[w].mine THEN [followJob EXCEPT ![slot[w].action] = job]
                        ELSE followJob,
           \/ UNCHANGED <<follows, newest>>
           \/ slot[w].pc = "write" /\ Written(w),
           FollowFault \/ UNCHANGED followFaults,
           UNCHANGED <<horizon, mirror, import, asked, serial, excused, requests>>
    PROVE  FollowInv'
<1>1. /\ FollowTypeOK /\ FollowJobsGood /\ LocksHeld /\ LookUpsHold /\ OnlyTheLast
      /\ slot[w] \in FollowSlotStates /\ slot[w].action \in FollowActions
      /\ FreeSlot \in FollowSlotStates /\ FreeSlot.pc = "idle" /\ ~FreeSlot.mine
      /\ followFaults' \in 0..MaxFollowFaults
    BY FollowTypes, FreeSlotType, FollowFaultBound DEF FollowInv
<1>2. /\ slot'[w] = FreeSlot /\ \A v \in FollowSlots \ {w} : slot'[v] = slot[v]
      /\ slot' \in [FollowSlots -> FollowSlotStates]
    BY <1>1 DEF FollowTypeOK
<1>3. /\ slot[w].mine => followJob'[slot[w].action] = job
      /\ \A a \in FollowActions :
            followJob'[a] = followJob[a] \/ (slot[w].mine /\ a = slot[w].action)
      /\ followJob' \in [FollowActions -> JobSet(MaxFollowAttempts, MaxFollowStalls)]
      /\ FollowJobsGood'
    <2> DEFINE b == slot[w].action
    <2>0. b \in FollowActions /\ followJob \in [FollowActions -> JobSet(MaxFollowAttempts, MaxFollowStalls)]
        BY <1>1 DEF FollowTypeOK
    <2>1. CASE slot[w].mine
        <3>1. followJob' = [followJob EXCEPT ![b] = job] /\ job \in JobSet(MaxFollowAttempts, MaxFollowStalls)
            BY <2>1 DEF GoodJob
        <3> HIDE DEF b
        <3>2. /\ followJob'[b] = job /\ \A a \in FollowActions \ {b} : followJob'[a] = followJob[a]
              /\ followJob' \in [FollowActions -> JobSet(MaxFollowAttempts, MaxFollowStalls)]
            BY <2>0, <3>1
        <3>3. FollowJobsGood'
            BY <1>1, <2>1, <3>2 DEF FollowJobsGood
        <3> QED BY <2>1, <3>2, <3>3 DEF b
    <2>2. CASE ~slot[w].mine
        BY <1>1, <2>0, <2>2 DEF FollowJobsGood
    <2> QED BY <2>1, <2>2
<1>4. /\ newest' \in Nat /\ follows' \subseteq 1..newest' /\ \A n \in 0..newest : n \in 0..newest'
      /\ ~excused => \A r, q \in follows' : r = q
      /\ \/ follows' = follows
         \/ slot[w].pc = "write" /\ slot[w].action = "follow"
         \/ slot[w].pc = "write" /\ follows' \subseteq follows
    <2>1. CASE UNCHANGED <<follows, newest>>
        BY <1>1, <2>1 DEF FollowTypeOK, LookUpsHold
    <2>2. CASE slot[w].pc = "write" /\ Written(w)
        BY <1>1, <2>2, WriteFacts DEF FollowActions
    <2> QED BY <2>1, <2>2
<1>5. FollowTypeOK'
    BY <1>1, <1>2, <1>3, <1>4 DEF FollowTypeOK
<1>6. LocksHeld'
    BY <1>1, <1>2, <1>3 DEF LocksHeld
<1>7. ~excused => slot[w].mine /\ \A v \in FollowSlots \ {w} :
          slot[v].pc # "idle" => slot[v].mine /\ slot[v].action # slot[w].action
    BY <1>1 DEF LookUpsHold, LocksHeld
<1>8. LookUpsHold'
    <2> SUFFICES ASSUME ~excused, NEW v \in FollowSlots, slot'[v].pc = "write",
                        slot'[v].action = "follow"
                 PROVE  follows' = {}
        BY <1>1, <1>2, <1>4, <1>7 DEF LookUpsHold
    <2>1. v # w /\ slot[v].pc = "write" /\ slot[v].action = "follow" /\ follows = {}
        BY <1>1, <1>2 DEF LookUpsHold
    <2> QED BY <1>4, <1>7, <2>1
<1>9. OnlyTheLast'
    <2> SUFFICES ASSUME ~excused, serial
                 PROVE  /\ \A a \in FollowActions : a # asked => ~Live(followJob'[a])
                        /\ import # "saw" /\ FollowReached' /\ UnfollowReached'
        BY DEF OnlyTheLast
    <2>1. /\ slot[w].mine /\ followJob[slot[w].action].state = "active"
          /\ Live(followJob[slot[w].action])
        BY <1>1, <1>7 DEF LocksHeld, Live
    <2>2. slot[w].action = asked /\ import # "saw" /\ FollowReached /\ UnfollowReached
        BY <1>1, <2>1 DEF OnlyTheLast
    <2>3. \A v \in FollowSlots : slot'[v].pc = "idle"
        <3>1. \A v \in FollowSlots \ {w} : slot[v].pc # "idle" =>
                  /\ slot[v].action \in FollowActions /\ slot[v].action # asked
                  /\ Live(followJob[slot[v].action])
            BY <1>1, <1>7, <2>2, FollowTypes DEF LocksHeld, Live
        <3>2. \A v \in FollowSlots \ {w} : slot[v].pc = "idle"
            BY <1>1, <3>1 DEF OnlyTheLast
        <3> QED BY <1>1, <1>2, <3>2
    <2>4. \A a \in FollowActions : a # asked => ~Live(followJob'[a])
        BY <1>1, <1>3, <2>2 DEF OnlyTheLast
    <2>5. followJob'[asked].state = "none" =>
              slot[w].pc = "finish" /\ follows' = follows /\ mirror' = mirror
        BY <1>3, <1>4, <2>1, <2>2
    <2>6. FollowReached' /\ UnfollowReached'
        BY <1>1, <2>2, <2>3, <2>5 DEF FollowReached, UnfollowReached
    <2> QED BY <2>2, <2>4, <2>6
<1> QED BY <1>3, <1>5, <1>6, <1>8, <1>9 DEF FollowInv

LEMMA FinishFollowInv == ASSUME FollowInv, NEW w \in FollowSlots, FinishFollow(w) PROVE FollowInv'
<1>1. GoodJob(NewJob, MaxFollowAttempts, MaxFollowStalls) /\ NewJob.state = "none"
    BY NewJobGood, FollowAssumption
<1> QED BY <1>1, SlotEnds DEF FinishFollow, SlotAt, remote, history, spent

LEMMA FailFollowInv ==
    ASSUME FollowInv, NEW w \in FollowSlots, NEW b \in BOOLEAN, FailFollow(w, b)
    PROVE  FollowInv'
<1> DEFINE job == Retried(followJob[slot[w].action], b, MaxFollowAttempts)
<1>1. ASSUME slot[w].mine
      PROVE  GoodJob(job, MaxFollowAttempts, MaxFollowStalls) /\ job.state \in {"waiting", "failed"}
    <2> DEFINE j == followJob[slot[w].action]
    <2>1. j.state = "active" /\ GoodJob(j, MaxFollowAttempts, MaxFollowStalls)
        BY <1>1, FollowTypes DEF FollowInv, FollowJobsGood, LocksHeld
    <2> HIDE DEF j
    <2>2. MaxFollowAttempts \in Nat \ {0} /\ MaxFollowStalls \in Nat
        BY FollowAssumption
    <2>3. /\ GoodJob(Retried(j, b, MaxFollowAttempts), MaxFollowAttempts, MaxFollowStalls)
          /\ Retried(j, b, MaxFollowAttempts).state \in {"waiting", "failed"}
        BY <2>1, <2>2, JobSteps
    <2> QED BY <2>3 DEF j
<1>2. /\ slot[w].pc # "idle" /\ slot' = [slot EXCEPT ![w] = FreeSlot]
      /\ followJob' = IF slot[w].mine THEN [followJob EXCEPT ![slot[w].action] = job]
                      ELSE followJob
      /\ \/ UNCHANGED <<follows, newest>>
         \/ slot[w].pc = "write" /\ Written(w)
      /\ FollowFault
      /\ UNCHANGED <<horizon, mirror, import, asked, serial, excused, requests>>
    BY DEF FailFollow, SlotAt, remote, history
<1> HIDE DEF job
<1> QED BY <1>1, <1>2, SlotEnds

LEMMA StallFollowInv ==
    ASSUME FollowInv, NEW w \in FollowSlots, NEW dead \in BOOLEAN, StallFollow(w, dead)
    PROVE  FollowInv'
<1> DEFINE job == Stalled(followJob[slot[w].action], MaxFollowStalls)
           s == [slot[w] EXCEPT !.mine = FALSE]
<1>1. /\ slot[w].mine /\ slot[w].pc # "idle" /\ slot[w].action \in FollowActions
      /\ FollowTypeOK /\ FollowJobsGood /\ LocksHeld /\ slot[w] \in FollowSlotStates
      /\ FollowFault /\ followFaults' \in 0..MaxFollowFaults
      /\ followJob' = [followJob EXCEPT ![slot[w].action] = job]
      /\ UNCHANGED <<follows, newest, horizon, mirror, import, asked, serial, requests>>
    BY FollowTypes, FollowFaultBound DEF FollowInv, LocksHeld, StallFollow, remote
<1>2. GoodJob(job, MaxFollowAttempts, MaxFollowStalls) /\ job.state \in {"waiting", "failed"}
    BY <1>1, JobSteps, FollowTypes DEF FollowJobsGood, LocksHeld
<1> HIDE DEF job
<1>3. CASE dead
    <2>1. slot' = [slot EXCEPT ![w] = FreeSlot] /\ excused' = excused
        BY <1>1, <1>3 DEF StallFollow, FollowTypeOK
    <2> QED BY <1>1, <1>2, <2>1, SlotEnds
<1>4. CASE ~dead
    <2>1. slot' = [slot EXCEPT ![w] = s] /\ excused' = TRUE
        BY <1>4 DEF StallFollow
    <2>2. /\ s \in FollowSlotStates /\ ~s.mine /\ s.pc = slot[w].pc
          /\ s.action = slot[w].action
        BY <1>1 DEF FollowSlotStates
    <2> HIDE DEF s
    <2>3. /\ slot'[w] = s /\ \A v \in FollowSlots \ {w} : slot'[v] = slot[v]
          /\ slot' \in [FollowSlots -> FollowSlotStates]
          /\ \A a \in FollowActions : a # slot[w].action => followJob'[a] = followJob[a]
          /\ followJob' \in [FollowActions -> JobSet(MaxFollowAttempts, MaxFollowStalls)]
          /\ FollowJobsGood'
        BY <1>1, <1>2, <2>1, <2>2 DEF FollowTypeOK, FollowJobsGood, GoodJob
    <2>4. FollowTypeOK'
        BY <1>1, <2>1, <2>3 DEF FollowTypeOK
    <2>5. LocksHeld'
        BY <1>1, <2>2, <2>3, FollowTypes DEF LocksHeld
    <2> QED BY <2>1, <2>3, <2>4, <2>5 DEF FollowInv, LookUpsHold, OnlyTheLast
<1> QED BY <1>3, <1>4

LEMMA FollowInductive == FollowInv /\ [FollowNext]_followVars => FollowInv'
<1> SUFFICES ASSUME FollowInv, [FollowNext]_followVars PROVE FollowInv'
    OBVIOUS
<1>1. CASE UNCHANGED followVars
    BY <1>1 DEF followVars, remote, history, spent, FollowInv, FollowTypeOK, FollowJobsGood,
                LocksHeld, LookUpsHold, OnlyTheLast, FollowReached, UnfollowReached
<1>2. ASSUME NEW w \in FollowSlots, FollowStep(w) PROVE FollowInv'
    BY <1>2, TakeFollowInv, FindFollowInv, WriteFollowInv, FinishFollowInv DEF FollowStep
<1>3. ASSUME NEW w \in FollowSlots, NEW b \in BOOLEAN, FailFollow(w, b) \/ StallFollow(w, b)
      PROVE  FollowInv'
    BY <1>3, FailFollowInv, StallFollowInv
<1> QED BY <1>1, <1>2, <1>3, RequestFollowInv, AsideInv DEF FollowNext

\* A look-up that has seen every record and a lock that one slot holds: the jobs
\* of follows keep FollowInv, for any number of slots, attempts and failures
\* (bsky-follow-queue.ts:66-118).
THEOREM FollowSafe == FollowSpec => []FollowInv
BY FollowInitInv, FollowInductive, PTL DEF FollowSpec

\* Retries, crashes and repeated requests leave one record, and a request made
\* while nothing else goes on decides both stores (bsky-follow-queue.ts:78-82).
THEOREM FollowsSettle == FollowSpec => []FollowsAgree
<1>1. FollowInv => FollowsAgree
    BY DEF FollowInv, FollowsAgree, OneFollowRecord, LastRequestWins, LookUpsHold, OnlyTheLast,
           FollowReached, UnfollowReached
<1> QED BY <1>1, FollowSafe, PTL

-----------------------------------------------------------------------------
(* The firehose. *)

\* A mention has its row, is being inserted, or is lost for a reason.
Accounted(e) == e \in mentioned \cup handling \cup dropped \cup passed

\* All a new connection may go past is accounted for: what lies a look-back behind
\* the stored cursor, and what this process has handled or its socket delivered.
StreamCovered ==
    \A e \in Mentions :
        /\ e + LookBack <= cursor => Accounted(e)
        /\ e <= lastCursor => Accounted(e)
        /\ socket = "open" /\ e < upcoming => Accounted(e)

\* Only what has appeared is handled.
StreamInv == StreamTypeOK /\ handling \subseteq 1..head /\ StreamCovered

LEMMA StreamTypes ==
    ASSUME StreamTypeOK
    PROVE  /\ MaxEvents \in Nat /\ LookBack \in Nat /\ MaxStreamFaults \in Nat
           /\ head \in Nat /\ cursor \in Nat /\ lastCursor \in Nat /\ upcoming \in Nat \ {0}
           /\ cursor <= head /\ lastCursor <= head /\ upcoming <= head + 1
           /\ \A e \in Mentions : e \in Nat /\ e >= 1
<1>1. head \in Nat /\ \A n \in 0..head : n \in Nat /\ n <= head
    BY StreamAssumption DEF StreamTypeOK
<1>2. \A n \in 1..(head + 1) : n \in Nat \ {0} /\ n <= head + 1
    BY <1>1
<1>3. \A e \in Mentions : e \in Nat /\ e >= 1
    BY StreamAssumption
<1> QED BY <1>1, <1>2, <1>3, StreamAssumption DEF StreamTypeOK

LEMMA StreamFaultBound ==
    ASSUME StreamTypeOK, StreamFault \/ streamFaults' = streamFaults
    PROVE  streamFaults' \in 0..MaxStreamFaults
BY StreamAssumption DEF StreamTypeOK, StreamFault

LEMMA StreamInitInv == StreamInit => StreamInv
<1> SUFFICES ASSUME StreamInit PROVE StreamInv
    OBVIOUS
<1>1. StreamTypeOK
    BY StreamAssumption DEF StreamInit, StreamTypeOK
<1>2. \A e \in Mentions : ~(e + LookBack <= 0) /\ ~(e <= 0)
    BY StreamAssumption
<1> QED BY <1>1, <1>2 DEF StreamInv, StreamCovered, StreamInit

\* The stream grows, the process starts, the socket closes, an insert ends: nothing
\* that was accounted for is forgotten.
LEMMA StreamAsideInv ==
    ASSUME StreamInv,
           \/ EventAppears \/ StartStream \/ Disconnect
           \/ \E e \in Mentions : InsertMention(e) \/ InsertFails(e)
    PROVE  StreamInv'
<1>1. /\ StreamTypeOK /\ StreamCovered
      /\ UNCHANGED <<cursor, upcoming, lastCursor, passed>>
      /\ socket' = "open" => socket = "open"
      /\ socket' \in {"exited", "off", "connecting", "open", "stopped"}
      /\ StreamFault \/ streamFaults' = streamFaults
    BY DEF StreamInv, EventAppears, StartStream, Disconnect, InsertMention, InsertFails, StreamTypeOK
<1>2. \A e \in Mentions : Accounted(e) => Accounted(e)'
    BY DEF EventAppears, StartStream, Disconnect, InsertMention, InsertFails, Accounted
<1>3. StreamCovered'
    BY <1>1, <1>2 DEF StreamCovered
<1>4. /\ head' \in 0..MaxEvents
      /\ \A n \in 0..head : n \in 0..head'
      /\ \A n \in 1..head : n \in 1..head'
      /\ \A n \in 1..(head + 1) : n \in 1..(head' + 1)
    <2>1. head' = head \/ (head < MaxEvents /\ head' = head + 1)
        BY DEF EventAppears, StartStream, Disconnect, InsertMention, InsertFails
    <2>2. PICK h \in 0..MaxEvents : h = head
        BY <1>1 DEF StreamTypeOK
    <2>3. MaxEvents \in Nat
        BY StreamAssumption
    <2>4. CASE head' = head
        BY <1>1, <2>4 DEF StreamTypeOK
    <2>5. CASE h < MaxEvents /\ head' = h + 1
        BY <2>2, <2>3, <2>5
    <2> QED BY <2>1, <2>2, <2>4, <2>5
<1>5. /\ handling' \subseteq 1..head /\ handling' \subseteq Mentions /\ mentioned' \subseteq Mentions
      /\ dropped' \subseteq 1..head /\ passed \subseteq 1..head
    BY DEF StreamInv, EventAppears, StartStream, Disconnect, InsertMention, InsertFails, StreamTypeOK
<1>6. StreamTypeOK' /\ handling' \subseteq 1..head'
    BY <1>1, <1>4, <1>5, StreamFaultBound DEF StreamTypeOK
<1> QED BY <1>3, <1>6 DEF StreamInv

LEMMA ConnectInv == ASSUME StreamInv, Connect PROVE StreamInv'
<1>1. /\ StreamTypeOK /\ handling \subseteq 1..head /\ StreamCovered
      /\ UNCHANGED <<head, cursor, lastCursor, handling, mentioned, dropped>>
      /\ socket' = "open"
      /\ StreamFault \/ streamFaults' = streamFaults
    BY DEF StreamInv, Connect
<1>2. PICK h \in Nat, c \in Nat : h = head /\ c = cursor /\ c <= h
    BY <1>1, StreamTypes
<1>3. LookBack \in Nat /\ \A e \in Mentions : e \in Nat /\ e >= 1
    BY <1>1, StreamTypes
<1>4. CASE c # 0 /\ passed' = passed /\ upcoming' = IF c > LookBack THEN c - LookBack + 1 ELSE 1
    <2>1. upcoming' \in 1..(h + 1) /\ \A e \in Mentions : e < upcoming' => e + LookBack <= c
        BY <1>2, <1>3, <1>4
    <2>2. \A e \in Mentions : Accounted(e)' <=> Accounted(e)
        BY <1>1, <1>4 DEF Accounted
    <2>3. StreamCovered'
        BY <1>1, <1>2, <2>1, <2>2 DEF StreamCovered
    <2> QED BY <1>1, <1>2, <1>4, <2>1, <2>3, StreamFaultBound DEF StreamInv, StreamTypeOK
<1>5. CASE upcoming' = h + 1 /\ passed' = passed \cup 1..h
    <2>1. upcoming' \in 1..(h + 1) /\ \A e \in Mentions : e < upcoming' => e \in 1..h
        BY <1>2, <1>3, <1>5
    <2>2. \A e \in Mentions : Accounted(e) \/ e \in 1..h => Accounted(e)'
        BY <1>1, <1>5 DEF Accounted
    <2>3. StreamCovered'
        BY <1>1, <1>2, <2>1, <2>2 DEF StreamCovered
    <2>4. passed' \subseteq 1..head
        BY <1>1, <1>2, <1>5 DEF StreamTypeOK
    <2> QED BY <1>1, <1>2, <2>1, <2>3, <2>4, StreamFaultBound DEF StreamInv, StreamTypeOK
<1> QED BY <1>2, <1>4, <1>5 DEF Connect

LEMMA DeliverInv == ASSUME StreamInv, Deliver PROVE StreamInv'
<1>1. /\ StreamTypeOK /\ handling \subseteq 1..head /\ StreamCovered
      /\ UNCHANGED <<head, socket, mentioned, passed, dropped>>
      /\ socket = "open" /\ upcoming <= head /\ lastCursor' = upcoming
      /\ cursor' = upcoming \/ cursor' = cursor
      /\ handling' = handling \cup ({upcoming} \cap Mentions)
      /\ upcoming' = upcoming + 1
      /\ StreamFault \/ streamFaults' = streamFaults
    BY DEF StreamInv, Deliver
<1>2. PICK h \in Nat, u \in Nat \ {0} : h = head /\ u = upcoming /\ u <= h
    BY <1>1, StreamTypes
<1>3. LookBack \in Nat /\ \A e \in Mentions : e \in Nat /\ e >= 1
    BY <1>1, StreamTypes
<1>4. u \in 0..h /\ u \in 1..h /\ u + 1 \in 1..(h + 1)
    BY <1>2
<1>5. \A e \in Mentions : /\ e < u + 1 <=> e < u \/ e = u
                          /\ e <= u <=> e < u \/ e = u
                          /\ e + LookBack <= u => e < u \/ e = u
    BY <1>2, <1>3
<1>6. \A e \in Mentions : /\ Accounted(e) => Accounted(e)'
                          /\ e < u \/ e = u => Accounted(e)'
    <2>1. \A e \in Mentions : Accounted(e) => Accounted(e)'
        BY <1>1 DEF Accounted
    <2>2. \A e \in Mentions : e < u => Accounted(e)
        BY <1>1, <1>2 DEF StreamCovered
    <2>3. u \in Mentions => Accounted(u)'
        BY <1>1, <1>2 DEF Accounted
    <2> QED BY <2>1, <2>2, <2>3
<1>7. StreamCovered'
    <2> SUFFICES ASSUME NEW e \in Mentions
                 PROVE  /\ e + LookBack <= cursor' => Accounted(e)'
                        /\ e <= lastCursor' => Accounted(e)'
                        /\ e < upcoming' => Accounted(e)'
        BY DEF StreamCovered
    <2>1. e + LookBack <= cursor => Accounted(e)
        BY <1>1 DEF StreamCovered
    <2> QED BY <1>1, <1>2, <1>5, <1>6, <2>1
<1>8. StreamTypeOK' /\ handling' \subseteq 1..head'
    BY <1>1, <1>2, <1>4, StreamFaultBound DEF StreamTypeOK
<1> QED BY <1>7, <1>8 DEF StreamInv

LEMMA StreamEndsInv == ASSUME StreamInv, StopStream \/ ExitStream PROVE StreamInv'
<1>1. /\ StreamTypeOK /\ handling \subseteq 1..head /\ StreamCovered
      /\ UNCHANGED <<head, upcoming, mentioned, passed>> /\ socket' \in {"stopped", "exited"}
      /\ cursor' = cursor \/ (lastCursor # 0 /\ cursor' = lastCursor)
      /\ StreamFault \/ streamFaults' = streamFaults
      /\ \/ handling' = handling /\ dropped' = dropped /\ lastCursor' = lastCursor
         \/ /\ handling' = {} /\ cursor' = cursor /\ lastCursor' = 0
            /\ dropped' = dropped \cup {e \in handling : e + LookBack <= cursor}
    BY DEF StreamInv, StopStream, ExitStream
<1>2. \A e \in Mentions : e \in Nat /\ e >= 1 /\ (e + LookBack <= lastCursor => e <= lastCursor)
    <2>1. PICK l \in Nat : l = lastCursor
        BY <1>1, StreamTypes
    <2>2. LookBack \in Nat /\ \A e \in Mentions : e \in Nat /\ e >= 1
        BY <1>1, StreamTypes
    <2>3. \A e \in Mentions : e + LookBack <= l => e <= l
        BY <2>2
    <2> QED BY <2>1, <2>2, <2>3
<1>3. StreamCovered'
    <2> SUFFICES ASSUME NEW e \in Mentions
                 PROVE  /\ e + LookBack <= cursor' => Accounted(e)'
                        /\ e <= lastCursor' => Accounted(e)'
        BY <1>1 DEF StreamCovered
    <2>1. CASE UNCHANGED <<handling, dropped, lastCursor>>
        BY <1>1, <1>2, <2>1 DEF StreamCovered, Accounted
    <2>2. CASE /\ handling' = {} /\ cursor' = cursor /\ lastCursor' = 0
               /\ dropped' = dropped \cup {d \in handling : d + LookBack <= cursor}
        <3>1. ~(e <= 0)
            BY <1>2
        <3>2. e + LookBack <= cursor => Accounted(e)
            BY <1>1 DEF StreamCovered
        <3> QED BY <1>1, <2>2, <3>1, <3>2 DEF Accounted
    <2> QED BY <1>1, <2>1, <2>2
<1>4. StreamTypeOK' /\ handling' \subseteq 1..head'
    <2>1. /\ cursor' \in 0..head /\ lastCursor' \in 0..head
          /\ handling' \subseteq handling /\ dropped' \subseteq dropped \cup handling
        BY <1>1, StreamTypes DEF StreamTypeOK
    <2> QED BY <1>1, <2>1, StreamFaultBound DEF StreamTypeOK
<1> QED BY <1>3, <1>4 DEF StreamInv

LEMMA StreamInductive == StreamInv /\ [StreamNext]_streamVars => StreamInv'
<1> SUFFICES ASSUME StreamInv, [StreamNext]_streamVars PROVE StreamInv'
    OBVIOUS
<1>1. CASE UNCHANGED streamVars
    BY <1>1 DEF streamVars, StreamInv, StreamTypeOK, StreamCovered, Accounted
<1> QED BY <1>1, StreamAsideInv, ConnectInv, DeliverInv, StreamEndsInv DEF StreamNext

\* The subscriber keeps StreamInv for every stream, look-back and set of marks.
THEOREM StreamSafe == StreamSpec => []StreamInv
BY StreamInitInv, StreamInductive, PTL DEF StreamSpec

\* However often the socket closes or the process ends, and however rarely the
\* cursor is saved, what the socket has gone past is accounted for
\* (jetstream-subscriber.ts:13-18).
THEOREM StreamSkipsNothing == StreamSpec => []NoMentionSkipped
<1>1. StreamInv => NoMentionSkipped
    BY DEF StreamInv, StreamCovered, Accounted, NoMentionSkipped
<1> QED BY <1>1, StreamSafe, PTL

-----------------------------------------------------------------------------
(* All of them together. *)

\* Whichever has the focus, each keeps its own specification.
LEMMA QueuesCompose ==
    /\ QueuesInit => FollowInit /\ PushInit /\ FinalizeInit /\ StreamInit
    /\ [QueuesNext]_queueVars =>
        /\ [FollowNext]_followVars /\ [PushNext]_pushVars
        /\ [FinalizeNext]_finVars /\ [StreamNext]_streamVars
<1>1. QueuesInit => FollowInit /\ PushInit /\ FinalizeInit /\ StreamInit
    BY DEF QueuesInit
<1>2. UNCHANGED queueVars => UNCHANGED <<followVars, pushVars, finVars, streamVars>>
    BY DEF queueVars
<1>3. QueuesNext => /\ FollowNext \/ UNCHANGED followVars
                    /\ PushNext \/ UNCHANGED pushVars
                    /\ FinalizeNext \/ UNCHANGED finVars
                    /\ StreamNext \/ UNCHANGED streamVars
    BY DEF QueuesNext
<1> QED BY <1>1, <1>2, <1>3

\* The background jobs implement the specification of each of them.
THEOREM QueuesImplement == QueuesSpec => FollowSpec /\ PushSpec /\ FinalizeSpec /\ StreamSpec
BY QueuesCompose, PTL DEF QueuesSpec, FollowSpec, PushSpec, FinalizeSpec, StreamSpec

\* The jobs of all queues keep to their attempts and stalls, and no cursor runs
\* ahead of the stream (launch-policy.ts), for all values of the constants.
THEOREM QueuesTypes == QueuesSpec => []QueuesTypeOK
<1>1. FollowInv /\ PushInv /\ FinalizeInv /\ StreamInv => QueuesTypeOK
    BY DEF FollowInv, PushInv, FinalizeInv, StreamInv, QueuesTypeOK
<1> QED BY <1>1, QueuesImplement, FollowSafe, PushSafe, FinalizeSafe, StreamSafe, PTL

\* What each promises on its own it promises beside the others.
THEOREM QueuesKeepPromises ==
    QueuesSpec => [](FollowsAgree /\ TootsPaidFor /\ FinalHolds /\ NoMentionSkipped)
BY QueuesImplement, FollowsSettle, TootsArePaid, FinalIsUpToDate, StreamSkipsNothing, PTL
==============================================================================
