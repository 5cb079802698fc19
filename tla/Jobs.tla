-------------------------------- MODULE Jobs --------------------------------
(***************************************************************************)
(* A BullMQ job as the workers of OpenXiv use one (workers/index.ts,         *)
(* constants/launch-policy.ts): an id the queue knows or not, attempts with  *)
(* terminal errors, stalls.                                                  *)
(***************************************************************************)
EXTENDS Naturals

JobStates == {"none", "waiting", "active", "done", "failed"}

NewJob == [state |-> "none", attempts |-> 0, stalls |-> 0]

JobSet(attempts, stalls) ==
    [state: JobStates, attempts: 0..attempts, stalls: 0..(stalls + 1)]

Live(job) == job.state \in {"waiting", "active"}

\* Queue.add drops a job whose id the queue still knows.
Added(job) == IF job.state = "none" THEN [job EXCEPT !.state = "waiting"] ELSE job

Taken(job) == [job EXCEPT !.state = "active"]

\* A completed job is kept for a week, unless removeOnComplete frees its id.
Completed(job) == [job EXCEPT !.state = "done"]

\* Mutant: a failed attempt is not handed back to the queue.
RetriedNever(job, terminal, attempts) ==
    [job EXCEPT !.attempts = @ + 1, !.state = IF terminal THEN "failed" ELSE @]

\* rethrowForBullMQ: a terminal error or the last attempt fails the job, any
\* other failure leaves it to a later attempt.
Retried(job, terminal, attempts) ==
    [job EXCEPT !.attempts = @ + 1,
                !.state = IF terminal \/ job.attempts + 1 = attempts
                          THEN "failed" ELSE "waiting"]

\* Mutant: a job that stalls is put where no worker looks for it.
StalledAside(job, stalls) == [job EXCEPT !.stalls = @ + 1, !.state = "delayed"]

\* The lock of an active job expires: it is handed out again, or it fails.
Stalled(job, stalls) ==
    [job EXCEPT !.stalls = @ + 1,
                !.state = IF job.stalls = stalls THEN "failed" ELSE "waiting"]
=============================================================================
