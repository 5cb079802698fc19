------------------------------ MODULE Crosspost -----------------------------
(***************************************************************************)
(* The Mastodon announcement of one version (workers/mastodon-crosspost.ts,  *)
(* services/mastodon-crosspost.ts, packages/clients/src/http.ts): a job with *)
(* the id of the version, a remote post that is in no transaction, and the   *)
(* columns of paper_versions that remember it.                               *)
(***************************************************************************)
EXTENDS Jobs, FiniteSets

CONSTANTS
    PushSlots,        \* concurrent jobs of the worker (2)
    MaxPushAttempts,  \* attempts of a job (5)
    MaxPushStalls,    \* stalls of a job before it fails (1)
    MaxPushFaults,    \* bound: failures, crashes and lost locks
    MaxRelinks        \* bound: changes of the account link

ASSUME PushAssumption ==
    /\ IsFiniteSet(PushSlots)
    /\ MaxPushAttempts \in Nat \ {0}
    /\ {MaxPushStalls, MaxPushFaults, MaxRelinks} \subseteq Nat

VARIABLES
    pushStatus,   \* mastodon_post_status
    statusId,     \* mastodon_status_id: the number of the toot, 0 for null
    toots,        \* announcements on the instance
    pushJob,      \* mastodon-crosspost-<version>
    pusher,       \* what a slot of the worker is doing
    link,         \* has the submitter a Mastodon account with a token?
    unheard,      \* calls whose outcome nobody recorded (history)
    pushFaults, relinks   \* counters of the bounds

pushRow  == <<pushStatus, statusId>>
pushVars == <<pushRow, toots, pushJob, pusher, link, unheard, pushFaults, relinks>>

NoPush == [pc |-> "idle", mine |-> FALSE, posted |-> 0]

PushInit ==
    /\ pushStatus = "none" /\ statusId = 0 /\ toots = 0
    /\ pushJob = NewJob
    /\ pusher = [w \in PushSlots |-> NoPush]
    /\ link \in BOOLEAN
    /\ unheard = 0 /\ pushFaults = 0 /\ relinks = 0

PushFault ==
    /\ pushFaults < MaxPushFaults
    /\ pushFaults' = pushFaults + 1

PushAt(w, l) == pusher[w].pc = l
GoOn(w, l)   == pusher' = [pusher EXCEPT ![w].pc = l]

\* The saga's last stage, and a retry of it, ask for the announcement.
RequestPush ==
    /\ pushJob' = Added(pushJob)
    /\ UNCHANGED <<pushRow, toots, pusher, link, unheard, pushFaults, relinks>>

\* The submitter links or unlinks a Mastodon account.
Relink ==
    /\ relinks < MaxRelinks
    /\ relinks' = relinks + 1
    /\ link' = ~link
    /\ UNCHANGED <<pushRow, toots, pushJob, pusher, unheard, pushFaults>>

TakePush(w) ==
    /\ PushAt(w, "idle")
    /\ pushJob.state = "waiting"
    /\ pushJob' = Taken(pushJob)
    /\ pusher' = [pusher EXCEPT ![w] = [pc |-> "load", mine |-> TRUE, posted |-> 0]]
    /\ UNCHANGED <<pushRow, toots, link, unheard, pushFaults, relinks>>

\* Mutant: the status id is not looked at.
LoadUnchecked(w) ==
    /\ PushAt(w, "load")
    /\ GoOn(w, "account")
    /\ UNCHANGED <<pushRow, toots, pushJob, link, unheard, pushFaults, relinks>>

\* A version that has its status id is done.
LoadVersion(w) ==
    /\ PushAt(w, "load")
    /\ GoOn(w, IF statusId # 0 THEN "done" ELSE "account")
    /\ UNCHANGED <<pushRow, toots, pushJob, link, unheard, pushFaults, relinks>>

\* Neither the submitter nor a usable link: the version is skipped.
FindAccount(w) ==
    /\ PushAt(w, "account")
    /\ GoOn(w, IF link THEN "pending" ELSE "skip")
    /\ UNCHANGED <<pushRow, toots, pushJob, link, unheard, pushFaults, relinks>>

\* A failed write of the note is ignored.
Skip(w) ==
    /\ PushAt(w, "skip")
    /\ \/ pushStatus' = "skipped" /\ UNCHANGED pushFaults
       \/ PushFault /\ UNCHANGED pushStatus
    /\ GoOn(w, "done")
    /\ UNCHANGED <<statusId, toots, pushJob, link, unheard, relinks>>

MarkPending(w) ==
    /\ PushAt(w, "pending")
    /\ pushStatus' = "pending"
    /\ GoOn(w, "post")
    /\ UNCHANGED <<statusId, toots, pushJob, link, unheard, pushFaults, relinks>>

\* The instance accepts the toot and the reply arrives.
PostToot(w) ==
    /\ PushAt(w, "post")
    /\ toots' = toots + 1
    /\ pusher' = [pusher EXCEPT ![w].pc = "record", ![w].posted = toots']
    /\ UNCHANGED <<pushRow, pushJob, link, unheard, pushFaults, relinks>>

\* fetchWithTimeoutRetry sends the request again after a timeout or a 5xx,
\* which may hide a toot.
RepeatPost(w, hidden) ==
    /\ PushAt(w, "post")
    /\ PushFault
    /\ toots' = IF hidden THEN toots + 1 ELSE toots
    /\ unheard' = IF hidden THEN unheard + 1 ELSE unheard
    /\ UNCHANGED <<pushRow, pushJob, pusher, link, relinks>>

\* The last try fails, perhaps after it took effect; failed is noted if that
\* write succeeds.
PostFails(w, hidden) ==
    /\ PushAt(w, "post")
    /\ PushFault
    /\ toots' = IF hidden THEN toots + 1 ELSE toots
    /\ unheard' = IF hidden THEN unheard + 1 ELSE unheard
    /\ pushStatus' \in {pushStatus, "failed"}
    /\ GoOn(w, "throw")
    /\ UNCHANGED <<statusId, pushJob, link, relinks>>

RecordToot(w) ==
    /\ PushAt(w, "record")
    /\ pushStatus' = "posted"
    /\ statusId' = pusher[w].posted
    /\ GoOn(w, "done")
    /\ UNCHANGED <<toots, pushJob, link, unheard, pushFaults, relinks>>

\* Any other call fails: the toot of this attempt, if any, stays unrecorded.
PushCallFails(w) ==
    /\ pusher[w].pc \in {"load", "account", "pending", "record"}
    /\ PushFault
    /\ unheard' = IF PushAt(w, "record") THEN unheard + 1 ELSE unheard
    /\ GoOn(w, "throw")
    /\ UNCHANGED <<pushRow, toots, pushJob, link, relinks>>

PushThrows(w) ==
    /\ PushAt(w, "throw")
    /\ pushJob' = IF pusher[w].mine THEN Retried(pushJob, FALSE, MaxPushAttempts) ELSE pushJob
    /\ pusher' = [pusher EXCEPT ![w] = NoPush]
    /\ UNCHANGED <<pushRow, toots, link, unheard, pushFaults, relinks>>

PushDone(w) ==
    /\ PushAt(w, "done")
    /\ pushJob' = IF pusher[w].mine THEN Completed(pushJob) ELSE pushJob
    /\ pusher' = [pusher EXCEPT ![w] = NoPush]
    /\ UNCHANGED <<pushRow, toots, link, unheard, pushFaults, relinks>>

\* The process dies, or it loses the lock of its job and goes on.
PushStalls(w, dead) ==
    /\ pusher[w].mine
    /\ PushFault
    /\ pushJob' = Stalled(pushJob, MaxPushStalls)
    /\ pusher' = [pusher EXCEPT ![w] = IF dead THEN NoPush ELSE [@ EXCEPT !.mine = FALSE]]
    /\ unheard' = IF ~dead \/ PushAt(w, "record") THEN unheard + 1 ELSE unheard
    /\ UNCHANGED <<pushRow, toots, link, relinks>>

PushStep(w) ==
    \/ TakePush(w) \/ LoadVersion(w) \/ FindAccount(w) \/ Skip(w) \/ MarkPending(w)
    \/ PostToot(w) \/ RecordToot(w) \/ PushThrows(w) \/ PushDone(w)

PushNext ==
    \/ RequestPush \/ Relink
    \/ \E w \in PushSlots :
        \/ PushStep(w) \/ PushCallFails(w)
        \/ \E b \in BOOLEAN : RepeatPost(w, b) \/ PostFails(w, b) \/ PushStalls(w, b)

PushSpec == PushInit /\ [][PushNext]_pushVars

\* The slots take jobs, and calls return.
PushFairness == \A w \in PushSlots : WF_pushVars(PushStep(w))

-----------------------------------------------------------------------------
PusherStates == [pc: {"idle", "load", "account", "skip", "pending", "post", "record",
                      "throw", "done"},
                 mine: BOOLEAN, posted: Nat]

\* Every variable has its type.
PushTypeOK ==
    /\ pushStatus \in {"none", "pending", "posted", "failed", "skipped"}
    /\ {statusId, toots, unheard} \subseteq Nat
    /\ pushJob \in JobSet(MaxPushAttempts, MaxPushStalls)
    /\ pusher \in [PushSlots -> PusherStates]
    /\ link \in BOOLEAN
    /\ pushFaults \in 0..MaxPushFaults
    /\ relinks \in 0..MaxRelinks

\* Every toot beyond the first is paid for by a call whose outcome nobody
\* recorded: neither a repeated request, nor a retry after a recorded toot,
\* nor an unlinking in between announces twice (mastodon-crosspost.ts:22).
TootsPaidFor == toots <= 1 + unheard

\* The job ends: it has failed, or it has left the id of a toot that exists or
\* the word that it was skipped, if nothing went wrong
\* (mastodon-crosspost.ts:24-31).
PushEnds ==
    pushJob.state = "waiting" ~>
        \/ pushJob.state = "failed"
        \/ /\ pushJob.state = "done"
           /\ pushFaults = 0 => statusId \in 1..toots \/ pushStatus = "skipped"
=============================================================================
