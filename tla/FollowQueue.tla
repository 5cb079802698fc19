----------------------------- MODULE FollowQueue ----------------------------
(***************************************************************************)
(* Follow and unfollow jobs of one user and one Bluesky account              *)
(* (services/bsky-follow-queue.ts, routes/bsky-follows.ts).  Three stores:   *)
(* the queue, the follow records in the user's repository, and the mirror    *)
(* row of bsky_follows.  Pairs of accounts share nothing but the slots.      *)
(***************************************************************************)
EXTENDS Jobs

CONSTANTS
    FollowSlots,         \* concurrent jobs of the worker (4)
    MaxFollowAttempts,   \* attempts of a job (5)
    MaxFollowStalls,     \* stalls of a job before it fails (1)
    MaxFollowFaults,     \* bound: failures, crashes, lost locks, changes elsewhere
    MaxFollowRequests    \* bound: requests

ASSUME FollowAssumption ==
    /\ MaxFollowAttempts \in Nat \ {0}
    /\ {MaxFollowStalls, MaxFollowFaults, MaxFollowRequests} \subseteq Nat

VARIABLES
    follows,     \* follow records for the account in the repository, by number
    newest,      \* the number of the last record written
    horizon,     \* records up to this one lie behind the pages a look-up reads
    mirror,      \* is there a row in bsky_follows?
    followJob,   \* the job of an action, by its id
    slot,        \* what a slot of the worker is doing
    import,      \* the import handler
    asked,       \* the last request
    serial,      \* it overlapped no job, import or clearing (history)
    excused,     \* a job lost its lock, or the user acted elsewhere (history)
    requests, followFaults   \* counters of the bounds

remote  == <<follows, newest, horizon>>
history == <<asked, serial, excused>>
spent   == <<requests, followFaults>>

followVars == <<remote, mirror, followJob, slot, import, history, spent>>

FollowActions == {"follow", "unfollow"}

FreeSlot == [pc |-> "idle", action |-> "follow", found |-> 0, mine |-> FALSE]

FollowQuiet ==
    /\ \A a \in FollowActions : ~Live(followJob[a])
    /\ \A w \in FollowSlots : slot[w].pc = "idle"
    /\ import = "idle"

FollowInit ==
    /\ follows \in {{}, {1}} /\ newest = 1 /\ horizon = 0
    /\ mirror \in BOOLEAN
    /\ followJob = [a \in FollowActions |-> NewJob]
    /\ slot = [w \in FollowSlots |-> FreeSlot]
    /\ import = "idle"
    /\ asked = "nothing" /\ serial = TRUE /\ excused = FALSE
    /\ requests = 0 /\ followFaults = 0

FollowFault ==
    /\ followFaults < MaxFollowFaults
    /\ followFaults' = followFaults + 1

-----------------------------------------------------------------------------
(* The API. *)

\* POST and DELETE /me/bluesky/follows.  The queue drops a job whose id it
\* knows, and it knows a failed one for 30 days; the answer is "queued".
RequestFollow(a) ==
    /\ requests < MaxFollowRequests
    /\ requests' = requests + 1
    /\ asked' = a
    /\ serial' = FollowQuiet
    /\ followJob' = [followJob EXCEPT ![a] = Added(@)]
    /\ UNCHANGED <<remote, mirror, slot, import, excused, followFaults>>

\* The import pages through the follows; one that does not see the account
\* does nothing to its row.
ImportRead ==
    /\ import = "idle"
    /\ follows # {}
    /\ import' = "saw"
    /\ serial' = (serial /\ FollowQuiet)
    /\ UNCHANGED <<remote, mirror, followJob, slot, asked, excused, spent>>

\* Then it upserts the rows, or an error has ended it; it removes none.
ImportUpsert ==
    /\ import = "saw"
    /\ import' = "idle"
    /\ mirror' = TRUE
    /\ UNCHANGED <<remote, followJob, slot, history, spent>>

ImportFails ==
    /\ import = "saw"
    /\ FollowFault
    /\ import' = "idle"
    /\ UNCHANGED <<remote, mirror, followJob, slot, history, requests>>

\* DELETE /me/bluesky/follows clears the mirror, not the repository.
ForgetFollows ==
    /\ mirror
    /\ mirror' = FALSE
    /\ serial' = FALSE
    /\ UNCHANGED <<remote, followJob, slot, import, asked, excused, spent>>

\* The user follows or unfollows the account in another client, or follows so
\* many others that a look-up stops before it reaches the records.
ActElsewhere ==
    /\ FollowFault
    /\ excused' = TRUE
    /\ \/ newest' = newest + 1 /\ follows' = follows \cup {newest'} /\ UNCHANGED horizon
       \/ follows' = {} /\ UNCHANGED <<newest, horizon>>
       \/ horizon' = newest /\ UNCHANGED <<follows, newest>>
    /\ UNCHANGED <<mirror, followJob, slot, import, asked, serial, requests>>

-----------------------------------------------------------------------------
(* The worker.  mine: the slot still holds the lock of its job. *)

SlotAt(w, l) == slot[w].pc = l

TakeFollow(w, a) ==
    /\ SlotAt(w, "idle")
    /\ followJob[a].state = "waiting"
    /\ followJob' = [followJob EXCEPT ![a] = Taken(@)]
    /\ slot' = [slot EXCEPT ![w] = [pc |-> "find", action |-> a, found |-> 0, mine |-> TRUE]]
    /\ UNCHANGED <<remote, mirror, import, history, spent>>

\* Mutant: the record is created without a look-up.
FindNothing(w) ==
    /\ SlotAt(w, "find")
    /\ slot' = [slot EXCEPT ![w].pc = IF slot[w].action = "follow" THEN "write" ELSE "mirror"]
    /\ UNCHANGED <<remote, mirror, followJob, import, history, spent>>

\* findFollowRecord reads twenty pages, newest record first.  A follow that is
\* there is not written again, and there is nothing to delete when it is not.
FindFollow(w) ==
    /\ SlotAt(w, "find")
    /\ \E found \in {r \in follows : r > horizon} \cup {0} :
        /\ \A r \in follows : r > horizon => found >= r
        /\ slot' = [slot EXCEPT
               ![w].found = found,
               ![w].pc = IF (found = 0) = (slot[w].action = "follow") THEN "write" ELSE "mirror"]
    /\ UNCHANGED <<remote, mirror, followJob, import, history, spent>>

\* createRecord, or deleteRecord of the record found.
Written(w) ==
    IF slot[w].action = "follow"
    THEN newest' = newest + 1 /\ follows' = follows \cup {newest'}
    ELSE follows' = follows \ {slot[w].found} /\ UNCHANGED newest

WriteFollow(w) ==
    /\ SlotAt(w, "write")
    /\ Written(w)
    /\ slot' = [slot EXCEPT ![w].pc = "mirror"]
    /\ UNCHANGED <<horizon, mirror, followJob, import, history, spent>>

\* upsertFollows or remove.
MirrorFollow(w) ==
    /\ SlotAt(w, "mirror")
    /\ mirror' = (slot[w].action = "follow")
    /\ slot' = [slot EXCEPT ![w].pc = "finish"]
    /\ UNCHANGED <<remote, followJob, import, history, spent>>

\* removeOnComplete: the id is free again.
FinishFollow(w) ==
    /\ SlotAt(w, "finish")
    /\ slot' = [slot EXCEPT ![w] = FreeSlot]
    /\ followJob' = IF slot[w].mine THEN [followJob EXCEPT ![slot[w].action] = NewJob]
                    ELSE followJob
    /\ UNCHANGED <<remote, mirror, import, history, spent>>

\* A call fails, a write of a record perhaps after it took effect.
FailFollow(w, terminal) ==
    /\ slot[w].pc \in {"find", "write", "mirror"}
    /\ FollowFault
    /\ \/ UNCHANGED remote
       \/ SlotAt(w, "write") /\ ~terminal /\ Written(w) /\ UNCHANGED horizon
    /\ slot' = [slot EXCEPT ![w] = FreeSlot]
    /\ followJob' = IF slot[w].mine
                    THEN [followJob EXCEPT
                             ![slot[w].action] = Retried(@, terminal, MaxFollowAttempts)]
                    ELSE followJob
    /\ UNCHANGED <<mirror, import, history, requests>>

\* The lock of a job expires; BullMQ hands it out again, or fails it.  The
\* process has died, or it goes on and its result is ignored.
StallFollow(w, dead) ==
    /\ slot[w].mine
    /\ FollowFault
    /\ followJob' = [followJob EXCEPT ![slot[w].action] = Stalled(@, MaxFollowStalls)]
    /\ slot' = [slot EXCEPT ![w] = IF dead THEN FreeSlot ELSE [@ EXCEPT !.mine = FALSE]]
    /\ excused' = (excused \/ ~dead)
    /\ UNCHANGED <<remote, mirror, import, asked, serial, requests>>

FollowStep(w) ==
    \/ \E a \in FollowActions : TakeFollow(w, a)
    \/ FindFollow(w) \/ WriteFollow(w) \/ MirrorFollow(w) \/ FinishFollow(w)

FollowNext ==
    \/ \E a \in FollowActions : RequestFollow(a)
    \/ ImportRead \/ ImportUpsert \/ ImportFails \/ ForgetFollows \/ ActElsewhere
    \/ \E w \in FollowSlots :
        \/ FollowStep(w)
        \/ \E b \in BOOLEAN : FailFollow(w, b) \/ StallFollow(w, b)

FollowSpec == FollowInit /\ [][FollowNext]_followVars

\* The slots take jobs, and calls return.
FollowFairness == \A w \in FollowSlots : WF_followVars(FollowStep(w))

-----------------------------------------------------------------------------
FollowSlotStates == [pc: {"idle", "find", "write", "mirror", "finish"},
                     action: FollowActions, found: Nat, mine: BOOLEAN]

\* Every variable has its type; in particular no job gets more attempts than
\* its options give (bsky-follow-queue.ts:55).
FollowTypeOK ==
    /\ follows \subseteq 1..newest /\ newest \in Nat /\ horizon \in 0..newest
    /\ mirror \in BOOLEAN
    /\ followJob \in [FollowActions -> JobSet(MaxFollowAttempts, MaxFollowStalls)]
    /\ slot \in [FollowSlots -> FollowSlotStates]
    /\ import \in {"idle", "saw"}
    /\ asked \in FollowActions \cup {"nothing"}
    /\ {serial, excused} \subseteq BOOLEAN
    /\ requests \in 0..MaxFollowRequests
    /\ followFaults \in 0..MaxFollowFaults

\* The look-up before each write makes retries, crashes and repeated requests
\* leave one record, unless a lost lock or the user elsewhere adds one
\* (bsky-follow-queue.ts:78-82).
OneFollowRecord == ~excused => \A r, s \in follows : r = s

\* A request made while nothing else goes on decides both stores once its job
\* is done, whatever failed and was retried on the way
\* (bsky-follow-queue.ts:66-118).
LastRequestWins ==
    FollowQuiet /\ serial /\ ~excused =>
        /\ asked = "follow" /\ followJob["follow"].state = "none"
               => follows # {} /\ mirror
        /\ asked = "unfollow" /\ followJob["unfollow"].state = "none"
               => follows = {} /\ ~mirror

\* The two together: one record at most, and the one that was asked for last.
FollowsAgree == OneFollowRecord /\ LastRequestWins

\* Every job ends: it is removed or it is kept as failed.
FollowJobsEnd == \A a \in FollowActions : Live(followJob[a]) ~> ~Live(followJob[a])
=============================================================================
