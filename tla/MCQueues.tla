------------------------------ MODULE MCQueues -------------------------------
(***************************************************************************)
(* The background jobs and the firehose subscriber.  They share no state, so *)
(* a behaviour has one of them at work, the focus, and the others at rest.   *)
(***************************************************************************)
EXTENDS FollowQueue, Crosspost, PdfFinalize, Jetstream

CONSTANTS slot1, slot2, atSubmit, atDoi, atBackfill

VARIABLE focus

queueVars == <<focus, followVars, pushVars, finVars, streamVars>>

QueuesInit ==
    /\ focus \in {"follow", "push", "finalize", "stream"}
    /\ FollowInit /\ PushInit /\ FinalizeInit /\ StreamInit
    /\ focus # "follow" => follows = {} /\ mirror
    /\ focus # "push" => link
    /\ focus # "stream" => socket = "off"

QueuesNext ==
    /\ UNCHANGED focus
    /\ \/ focus = "follow" /\ FollowNext /\ UNCHANGED <<pushVars, finVars, streamVars>>
       \/ focus = "push" /\ PushNext /\ UNCHANGED <<followVars, finVars, streamVars>>
       \/ focus = "finalize" /\ FinalizeNext /\ UNCHANGED <<followVars, pushVars, streamVars>>
       \/ focus = "stream" /\ StreamNext /\ UNCHANGED <<followVars, pushVars, finVars>>

\* At rest no action is enabled that fairness asks for.
QueuesSpec ==
    /\ QueuesInit /\ [][QueuesNext]_queueVars
    /\ FollowFairness /\ PushFairness /\ FinalizeFairness /\ StreamFairness

\* Every variable of the four modules has its type: no job of any queue gets more
\* attempts or stalls than its options give (launch-policy.ts), no cursor runs
\* ahead of the stream.
QueuesTypeOK == FollowTypeOK /\ PushTypeOK /\ FinalizeTypeOK /\ StreamTypeOK

\* Every job ends, and says how: no request waits for ever in any of the three
\* queues (workers/index.ts:32-52).
QueueJobsEnd == FollowJobsEnd /\ PushEnds /\ FinalizeEnds
=============================================================================
