# OpenXiv in TLA+

This directory holds the specifications of OpenXiv: what its services do, step by
step, model-checked with TLC, and the results about the submission pipeline, the
background jobs and the services that TLAPS proves for every size of the system.

## 1. The system and its parts

OpenXiv is a preprint server: a Fastify API and BullMQ workers (`apps/api`) over
PostgreSQL, Redis and an S3 store (`packages/db`, `packages/clients`), with
records written to the authors' AT Protocol repositories (PDS), announcements on
Bluesky and Mastodon, a feed generator for Bluesky, and a web front end
(`apps/web`).

| component | state | operations | what is hard | what makes it correct | module |
|---|---|---|---|---|---|
| submission saga (`services/submissions.ts`, `repositories/sagas.ts`) | paper row, six stage flags, last error, version row | submit, finalize, retry, the six stages | several jobs of one paper at once, snapshots read before awaits, failures and crashes between writes, at-least-once jobs | nothing public before approval; a flag is evidence of its effect; effects happen once; an accepted paper ends published or reported | `SubmissionSaga` |
| moderation and refusals (`services/moderation.ts`, `routes/refusals.ts`) | refusal packet, status, approval flag | accept, reject, refuse, rescind | races with running jobs, three writes in two stores | a decision takes effect and stays | `SubmissionSaga` |
| id allocator (`repositories/identifiers.ts`) | `papers.openxiv_id`, `id_counters` | `allocateAndClaim` | two row locks, rollback | ids unique, gapless, final | `IdRegistry`, `IdAllocator` |
| queues and workers (`workers/index.ts`) | jobs with ids, attempts, stalls | add, take, complete, fail, stall | deduplication by id, redelivery, terminal errors | every job ends | `Jobs` and its users |
| Bluesky bridge (`services/bluesky-bridge.ts`) | bridge columns, posts | post, reply, record | posts are in no transaction; overlapping runs | one readable thread, named by its row | `Announcement` |
| Mastodon crosspost | status id, toots | check, post, save | crash between post and save; a client that repeats POSTs | a toot is paid for | `Crosspost` |
| PDF finalize and DOI | final PDF, its hash | read, hash, build, upload, save | an older job saving later, dropped jobs, deposits | the PDF shown is that of the row | `PdfFinalize` |
| PDF figures | figure rows and marker; crops | extract, replace, mark | two statements, jobs of three origins, geometry | the marker tells the rows; a crop is over its caption | `Figures`, `FigureCrop` |
| follow queue | jobs, remote graph, mirror | follow, unfollow, import | order, dropped ids, a bounded look-up | graph and mirror follow the last request | `FollowQueue` |
| jetstream subscriber | cursor | receive, save, reconnect | cursor ahead of unfinished inserts | no mention is skipped | `Jetstream` |
| intake and wizard | form, sessions, requests | enter, upload, suggest, finalize | different rules in two places, late answers, double clicks | every refusal has a named reason; one paper a session | `Intake` |
| paper edit | columns, categories, keywords, audit | edit | statements of overlapping edits | two homes of a category agree; the audit explains the row | `PaperEdit` |
| identity (`services/users.ts`, `account-linking.ts`) | users, links, reservations | sign in, link, unlink | check-then-act, outages, partial failure | an account leads to one user with its best DID | `Identity` |
| sessions (`auth/session.ts`, `routes/auth.ts`, `routes/auth-mastodon.ts`) | cookies, trips to a provider, users, links | begin a trip, callback, log out, unlink, submit, act as the author | a cookie keeps the DID of its day; a trip ends in whatever session the browser has | a session finds and commands the papers of its user, and none else | `Sessions` |
| the seminar (`routes/discussion.ts`, `repositories/posts.ts`) | posts, pins, labels | comment, pin, label, hide | two statements under READ COMMITTED, stale tabs | one pin a paper, of its author | `Seminar` |
| profile sync | profile columns | loop, look-up | a refresh nobody waits for | profiles go forward | `ProfileSync` |
| user keys, DID documents | keys, ETag | make, rotate, resolve | overlapping rotations, caches | a key that was active stays known | `UserKeys` |
| handles | field, look-ups, claims | type, check, claim | answers out of order | what is claimed is what was typed | `HandlePicker` |
| explainer, LLM budget | counters, summaries | consume, explain | midnight, outages | spend below the cap | `Explain` |
| circuit breakers, embeddings | circuits, calls, dead letters | call, time out, probe | nested circuits, calls that outlive their timeout | circuits open for their own failures; each dead job has a letter | `Breakers` |
| trust passport | evidence, thread, kept passports | advance, endorse, dispute, attest; build, re-run | weights, caps, two derivations; a passport is built of several reads | what is not green is explained; good news never hurts; a re-run reports a change when there is one | `TrustPassport`, `PassportRerun` |
| sections, citation evidence | text, chunks | merge, cut, count | limits, headings, keys | every word in a chunk; references counted | `PaperText` |
| search index | section rows, cache | index, search | DELETE and INSERT, budget, workers | rows of one text | `SectionIndex` |
| TeX bundles, compiler | files, plan, work dirs | choose, compile, retry | several documents and folders | compile, metadata and figures of one paper | `Compile` |
| HTML of a version | htmlKey, page, job | convert, put, recompile | late puts, dropped ids | the key names a page; a request is answered | `HtmlCompile` |
| reader page (`web/lib/html-postprocess.ts`) | tags | the passes | regular expressions over nested elements | ids apart, links lead, figures their own | `HtmlPage` |
| OAI-PMH | rows, tokens | list, get | offsets into a changing list | nothing is lost to a harvester | `Harvest` |
| Bluesky feeds | feeds, pages | walk | offsets and caches through two processes | a walk shows what was there | `BskyFeeds` |
| engagement | events, rollup, caches, endorsements | track, refresh, show, endorse | check-then-insert, stale caches | counted once, shown truly | `Engagement` |
| feature flags | hash, memory | read, set | answers that arrive late | a change is followed in thirty seconds | `Flags` |
| daily brief | snapshots, live brief | tick, compose | timers, restarts, failed reads | every day kept, and kept as it was | `DailyBrief` |

The parts meet at three places. The HTTP handlers write rows of PostgreSQL and
add jobs to Redis, two stores with no common transaction. The workers read rows,
call out, and write rows, and the calls (PDS, Bluesky, S3, language models) are in
no transaction either. And browsers, resolvers, harvesters and app views hold what
they were told, for as long as a cache or a cursor says.

## 2. Modules

| module | what it is |
|---|---|
| `IdRegistry` | abstract: what the id allocator promises, one atomic step per assignment |
| `IdAllocator` | the transaction of `allocateAndClaim`, statement by statement, under row locks; extends `IdRegistry`, which it implements |
| `SubmissionSaga` | the saga with its handlers, queue and workers; uses `IdRegistry` with `INSTANCE` for the allocation, which is one step there |
| `Jobs` | a BullMQ job: ids the queue knows, attempts, terminal errors, stalls; used by all modules with a queue |
| `FollowQueue`, `Crosspost`, `PdfFinalize`, `Jetstream` | the services with liveness properties; composed in `MCQueues` |
| the other modules of the table above | one service each; composed in `MCRecords` |
| `MCIdAllocator`, `MCSubmissionSaga`, `MCQueues`, `MCRecords` | constants for TLC, and the compositions |
| `IdAllocatorProofs` | theorems about the id registry and the id allocator |
| `SubmissionSagaProofs`, `SagaEffectsProofs`, `SagaOneSlotProofs` | theorems about the saga: types and the gate; flags and effects; what one slot guarantees; each extends the one before |
| `QueueProofs` | theorems about the background jobs and the firehose, and about their composition `MCQueues` |
| `RecordProofs` | theorems about the explainer, the handle picker, the user keys, the submission wizard, the edits of a paper, the profile sync, the sign-ins and account links, the sessions, the Bluesky bridge, the search index and the figures, each of its own specification |
| `ServiceProofs` | the same for the harvester, engagement, the daily brief, the feeds, the seminar, the circuits and the embed worker, the flags, the HTML of a version, the trust passport and its re-runs |
| `MCRecordsProofs` | theorems about the composition `MCRecords`: it implements those services, so what they promise holds there |

The id allocator is split off so that the saga can take the whole transaction as
one step: `IdAllocator` shows that its interleavings amount to the single steps
of `IdRegistry`, and `SubmissionSaga` shows that its allocation step is one too.

`MCQueues` and `MCRecords` put services beside each other that share no variable:
their interleavings would only multiply states, so a behaviour has one of them at
work, the `focus`, while the others rest in an initial state. An invariant of
`MCRecords` is the conjunction of what its services promise, grouped by what it is
about. Services that do share state are in one module (endorsements and badges,
link and sign-in, the saga and moderation).

Operators named in a comment "Mutant:" are wrong variants of the action below
them: each breaks the property it is listed with in `PROJECT.json`, which shows
that the property depends on that action. Variables marked "history" are not read
by any action that models code; they say which known weakness a behaviour has met,
so that a property can be stated exactly: "unless two runs overlapped" is a
statement about the code, found by TLC and then excluded by name.

## 3. `SubmissionSaga`: how it corresponds to the code

**State.** One variable per column or external store the saga reads or writes:
`status`, `openxivId` (the sequence number), `uri` (the number of the record it
names), `done` and `lastErrorStage` (`submission_sagas`), `version` (the row of
version 1: source key, whether it has HTML, the bridge status), `refusal`,
`idCounter`; `stored` (archives in S3), `records`, `notes`, `posts` (what the PDS
and Bluesky hold, as counts, so that duplicates show), `queued` (jobs handed to
the finalize and crosspost queues), `jobs` (the compile queue, by paper and job
id), and the processes: `request` (submission handlers), `mod` (moderation
handlers), `wk` (slots of the compile worker).

**Steps.** An action is the code between two awaits: it makes one call and
changes the row that call changes. A worker record keeps what the code keeps in
closures: `saga` (the row `sagas.ensure` returned), `id` and `uri` (the paper row
of the last `requirePaper`), `stage`, and `stack`, the stages whose `orElse`
(`submissions.ts:520`) is waiting below. Everything between the calls is part
of the action: the choice of the next stage is in `RunStages`, which skips the
stages of the snapshot as lines 504-507 do and holds as 508-510 do.

| code | actions |
|---|---|
| `submitDraft`, `finalizeImpl` | `CreatePaper`, `StoreSource`, `EnqueueSubmit`, `AbandonSubmit` |
| `retrySaga` | `RetryRead`, `RetryEnqueue` |
| `fanOutSideEffects` of an edit | `EditRepublish` |
| `applyModerationDecision`, `acceptPaper`, `writeRefusal`, refusal routes | `AcceptBegin` ... `AcceptEnqueue`, `Refuse`, `RefuseStatus`, `Rescind`, `ModerationFails` |
| `run`, `runStages` | `LoadSaga`, `LoadPaper`, `Hold`, `HoldFails`, `Reread`, `MarkStageDone`, `NextSaga`, `Unwind` |
| `runCompile` | `GetSource`, `LatestVersion`, `AddVersion`, `SetHtml`, `Extract` |
| `runAssignId` | `Allocate` |
| `runPublishPaperRecord` | `RecordUnavailable`, `PutRecord`, `SetUri`, `SetPublished`, `Confirm`, `PublishFails`, `LocalPublish`, `LocalFinalize`, `LocalSocial` |
| `runPublishSummaryAndDisclosure` | `PutNotes` |
| `runBlueskyBridge`, `bridgeVersion` | `ReadVersion`, `Post`, `SetBridgeResult`, `BridgeFails`, `FinalizeJob`, `SocialJob` |
| the compile worker, `rethrowForBullMQ` | `Take`, `CompleteJob`, `FailJob`, `Crash`, `StageFails`, `SummaryFails` |

**Failures.** `Fault` counts them against `MaxFaults`. A call may fail without
effect, and a write to the PDS or Bluesky may fail after it took effect. `Crash`
kills a slot anywhere: the job stalls and is handed out again, at most
`MaxStalls` times, as BullMQ's `maxStalledCount` has it. An API handler may stop
between any two of its calls.

**External behaviour.** BullMQ is modelled from its use: `Add` ignores an id the
queue still knows (the jobs are kept for seven and thirty days), a job is
active in one slot, a failed attempt waits again until `attempts` is spent, an
`UnrecoverableError` ends it. The five attempts and the one stall of the code
are the constants `MaxAttempts` and `MaxStalls`.

**Left out.** Contents: titles, authors, GROBID metadata, detector scores, the
alias record of the preprint lexicon (written best-effort after the paper record),
versions after the first. A paper's category and year do not change here
(`SubjectOf` is a constant). What surrounds the saga has modules of its own: edits
(`PaperEdit`), uploads and the finalize request (`Intake`), the thread on Bluesky
(`Announcement`), the section index (`SectionIndex`), the HTML of a version
(`HtmlCompile`), the queues its last stages feed (`PdfFinalize`, `Figures`,
`Crosspost`).

## 4. `IdAllocator`: how it corresponds to the code

`tx` holds a transaction per connection; `LockPaper`, `BumpCounter`, `Claim` and
`Commit` are its statements (`identifiers.ts:70-112`), `paperLock` and
`counterLock` the row locks PostgreSQL takes at READ COMMITTED. `id` and `counter`
are the committed rows: a transaction's writes stay in `tx` until `Commit`.
`Rollback` may happen at every statement. A counter row that does not exist yet
is a counter of 0: the upsert inserts 1 or adds 1, under the same lock.

## 5. The other services: how they correspond to the code

In all of them an action is the code between two awaits, a process that fails stops
where it stands, and a bound is a constant named in the module. `<name>Vars` are
the variables of a module, listed with the column, key or closure each stands for.

**`Jobs`.** `Added`, `Taken`, `Retried` and `Stalled` of a job record: an id the queue knows
is not added again, an attempt that throws waits for the next until they are spent, a
terminal error ends the job, a stalled job is handed out again.

**`FollowQueue`.** `RequestFollow` is POST and DELETE; `FollowStep` the calls of a job
in a slot; `ImportRead`/`ImportUpsert` the import; `ForgetFollows` the clearing of the
mirror; `ActElsewhere` the user in another client. `horizon` says how many records lie
beyond the twenty pages a look-up reads. `FollowsAgree`: once no job is alive, the
graph and the mirror are as the last request wants them, if that request overlapped
nothing and no lock was lost.

**`Crosspost`.** The job of a version with its look at the row, the toot, the
repetition by the HTTP client after a lost answer (`RepeatPost`), the two columns.
`TootsPaidFor`: the number of toots exceeds one by at most the calls nobody heard of.

**`PdfFinalize`.** The inputs of a cover are a revision; the four origins of a job, the
DOI deposit and `force` are actions. `FinalHolds`: the URL names the file the row
says, a fresh request is honoured unless jobs overlapped or the queue dropped it.

**`Jetstream`.** Cursor, reconnect with look-back, inserts nobody waits for, shutdown.
`NoMentionSkipped`: a mention is missing only if its insert failed or died, or the
stream was entered without a cursor; `MentionsArrive` is its liveness.

**`PaperEdit`.** `BeginEdit` chooses the request, `EditStep` makes its statements;
`setCategories` is a transaction at READ COMMITTED whose DELETE waits. `EditHolds`:
`papers.primary_category` and `paper_categories` agree unless two of those
transactions overlapped, and the audit trail explains the row unless two edits
overlapped, failed, or asked for what is logged otherwise (a cleared abstract).

**`Intake`.** The form and the steps of the wizard (`FormStep`, `TabStep`), the uploads
and their sessions, the finalize request on the server. The gates of the steps
(`NextStep`, `Disclosed`) and the server (`SchemaAccepts`, `MetadataAccepts`) are
modelled each by its own rules, which differ: no gate looks at the most a title may
hold or at what is left of it without tags and repeated spaces (`TitleLengths`), at the
length of the abstract, the number, names, affiliations and ORCIDs of the authors, the
keywords and the notes (`Limited`, edited by `Resize`, read out of an upload, as
`Extracts` has it, by `UploadAnswers`), or at the number and the length of the models' names (a name that is
too long counts as one too many), and a text of commas passes for a list of models
(`EmptyPiece`). `RefusalsExplained`: a form that has passed the gates is refused for
one of these (`Ungated`), or because a suggestion changed a summary on the last step,
and never for what the gates ask, whatever was edited, uploaded and suggested in
between. The right to submit, the license and the version of the terms, which are not
typed, are left out. `SubmissionsHold`: a session gives one paper and one more for each
failure or lost answer, and what is shown as submitted has its job.

**`Identity`.** Sign-in, link and unlink as processes; the unique indexes are part of
the writes. A DID is `did:plc`, `did:web` of an account, or the shadow of an account
whose DID document did not come. `HomesKept` says that an account signs in to one user for
ever; it allows for nothing but another account of the provider that took its place.
`OneHome`, `BestDid` and `LinksRemain` allow for requests that raced (`raced`) and for
outages, `BestDid` also for what `strayed` records: a link that was refused after it had
changed the DID, and a second account of one provider that signed in to a user of its own.
Which of two links of one provider `unlink`
takes is any of them; the code takes the oldest.

**`ProfileSync`.** The loop over stale rows and the refresh on a look-up; after five
seconds the caller goes on (`CallerLeaves`) and the refresh does too.

**`UserKeys`**, **`HandlePicker`**. A key is a number. The look-ups of the picker are a
sequence whose answers come in any order; `HandlePicker` has the claims of others.

**`Explain`**. A topic is a paper and a tier; counters have the day in their key.
`BudgetsHold` includes midnight between two calls of one request.

**`Breakers`.** A circuit for each wrapped method (`text` and `embed` of the two
providers and the fallback around them); a call waits in several circuits at once,
and a circuit that times out does not end it. `OperationsHold` says what may open a
circuit, how many calls reach a provider while it is not closed, which jobs have a
dead letter, and when the stored embedding is of an older text.

**`TrustPassport`.** Every check of every lane with its weight, status and severity;
values in 24ths. Evidence comes by finished stages, endorsements and
the thread. `PassportAddsUp`, and `GoodNewsNeverHurts` over steps.

**`PassportRerun`.** A passport is built of several reads, the posts three times and
the text twice, while others post and the index is rewritten: `building` is what has
been read, `kept` a passport that a reader keeps, `answer` the last re-run. A digest
and a signature stand for what they are made of; a damaged copy (`SpoilCopy`) is one
whose content is no longer what was signed. A paper has fewer posts than the 200 a
request reads, and its source archive answers. `RerunHolds`: a re-run of a paper at
rest matches, one that reports no change has none, disputes are told, and a history is
in order even when an answer was read before its dispute.

**`PaperText`**, **`SectionIndex`.** A text is a sequence of lines with a kind; the chunker
and the citation parser are operators over it. The indexer embeds with a pool of
workers and a daily cap, and replaces rows by DELETE and INSERT.

**`Compile`.** A file has a folder, a name, an extension and what the code looks for;
`Score`, `Preflight`, `FindEntry`, `RunTectonic` and the figure extractor are
translated with their thresholds. Left out are a PDF that cannot be read after Tectonic
has ended well, and that a work directory may stay (`tectonic.ts:89` ignores it).

**`HtmlCompile`.** The saga's stage and the recompile workers; `release` is the version
of the converter, which is what a recompile is for.

**`HtmlPage`.** A page is a sequence of tags; `Spans` is what `<name>...</name>` matches in
JavaScript, from the first opening to the first closing tag. One action per pass.

**`Figures`**, **`FigureCrop`.** GROBID and the crops fail closed, so a failure is fewer
figures. `MarkerTellsFigures` allows for runs that crossed and for a run over an older
extraction that ended between its two writes (`torn`). `FigureCrop` is `inferGraphicBboxAboveCaption` over layouts of blocks.

**`Announcement`.** Posts are numbered; a run keeps the version row it has read.

**`Harvest`**, **`BskyFeeds`.** A walk with an offset, against rows that change.
`NothingIsLost` and `WalksAreComplete` name the cases in which an offset must miss.

**`Engagement`.** A browser with its consent, two tabs, the events, the rollup and its
stamp, the two caches, and one reader's endorsements under two DIDs.

**`Flags`**, **`DailyBrief`.** A clock with few ticks; a day of two parts.

**`Sessions`.** A cookie is the user and the DID the user had when it was signed; nothing
on the server knows of it. A trip begins in one request and ends in another; `Callback`
is a request in one step, `SignsIn` or `Links` by the intent and the session of then
(`Identity` has the interleavings inside a request). `SubmissionsAreMine` and
`AuthorsAct` allow for one thing, a link that failed after the DID had changed (`halfway`).

**`Seminar`.** `BeginUnpin`, `EndUnpin`, `SetPin` and `CommitPin` are the transaction of a
pin: each statement sees what was committed when it began and waits for rows that
another has written. `OnePin` allows for two transactions that overlap (`pinsCrossed`).

## 6. What is checked

| run | instance | shows |
|---|---|---|
| `SagaSafety` | 1 paper, 2 slots, 1 decision, 2 attempts, 1 stall, 1 fault; symmetric slots (1.7 million states) | types; `ApprovalGate`; `FlagMeansEffect`; `AcceptCompletes`; `IdsFromRegistry` |
| `SagaOneSlot` | 1 paper, 1 slot, 1 decision, 1 retry or edit, 1 fault, fair | `JobsEnd`, `ApprovedIsPublished`; `UriIsStable`; `DuplicatesNeedFaults` |
| `SagaMockAccount` | the same without a did:plc account, 2 faults | `AnnouncedIsPublished`; `HiddenNeedsFaults` |
| `IdAllocation` | 3 connections, 3 papers, 2 counters, fair | `ImplementsRegistry`, `IdsUnique`, `CallsEnd` |
| `QueueServices` | two slots a queue, 2 attempts, 1 stall, 1 to 3 faults, 2 requests; six events, fair | `FollowsAgree`, `TootsPaidFor`, `FinalHolds`, `NoMentionSkipped`; `QueueJobsEnd`, `MentionsArrive` |
| `RecordServices` | two or three of each process, one or two faults; the two alike are symmetric (696 thousand states) | the properties of the services of `MCRecords`, which section 5 describes |

`ApprovalGate` says that no status, id, uri, record, note, post or follow-on job
of a paper exists before its approval. The gate in the code is one test on one
path, on a row that may be old; the property is about every path to it.
`FlagMeansEffect` says that overlapping jobs with snapshots of different ages never
leave a flag whose effect is missing. `AcceptCompletes` says that an accept job that
reports success has run all stages. `DuplicatesNeedFaults` and `UriIsStable` hold with
one slot only, and the runs of section 7 show why.

**Bounds.** One paper is enough for the saga: papers share only the id counter,
which `IdAllocation` checks with several papers, and the proofs cover any number.
Two slots give every overlap of two jobs, and the jobs of one paper that matter
are the submission and the accept. Two attempts and one stall let a job fail,
come back and fail for good; one fault anywhere reaches every error path, and
two (`SagaMockAccount`) reach failures of the error paths. In the wizard one field at a
time is beyond its limit and four things are edited or uploaded, where an upload gives a
fit title and authors or an ORCID that is none (`Findings`); that a summary marked as AI's
is refused for a text of commas takes five edits, and is covered by the theorem, which is
for any `Extracts` and bounds. The services follow the same pattern: two processes of a kind wherever two can overlap, one where the
second could only repeat what the first does, enough requests for one to meet what
another left, one fault, or two where an error path has calls of its own. Constants
of the code that only set a scale are small (pages of two rows, chunks of five
words, windows of one call), and the thresholds a property depends on (weights and
caps of the passport, scores of `Compile`, distances of `FigureCrop`) are the code's.
The inputs of the pure algorithms are enumerated in `MCRecords`: texts, bundles,
layouts and pages chosen so that each branch of the code is met. Where two processes of a kind have
nothing but their names apart, they are the values `one` and `two`, and `Alike` lets
TLC exchange them; no property of that run is about liveness. Deadlock is not
checked where a service stops when all requests are served; it is for the allocator.

**Fairness.** `SagaOneSlot` assumes that BullMQ keeps handing out waiting jobs
and that a call returns (weak fairness of a slot), and that moderation handlers
that have started go on. Nothing is assumed of submissions or decisions being
made, nor of faults. `IdAllocation` assumes strong fairness of a connection's
statements, since PostgreSQL queues the waiters of a row lock. `QueueServices`
assumes weak fairness of each slot, for the same reason as the saga, and for
`MentionsArrive` that the supervisor restarts a stopped process, the socket
reconnects and delivers, and an insert that was sent ends.

## 7. Where the code and its documents disagree

Each run below finds a short behaviour of the code that breaks what a document
or comment says.

| run | says | does |
|---|---|---|
| `SagaDoublePost` | "Saga retries therefore can't double-post" (`bluesky-bridge.ts:20-21`) | a crash between the post and the row posts again |
| `SagaDoubleRecord` | "Each stage is idempotent" (`README.md:232`) | without any failure, an accept given while the submission job still compiles makes two jobs of one paper, and both write a record, under two rkeys |
| `SagaRefusalUndone` | a refusal hides the paper "from feeds and the homepage" (`refusals.ts:55-56`) | a job past the gate publishes it |
| `SagaStaleHold` | "status flips to `published`" (`README.md:239`) | without any failure, a job that read the saga row before the approval sets `pending_review` after the other published |
| `SagaApprovalStranded` | "After approval, the saga publishes" (`docs/ARCHITECTURE.md:288`) | the flag is set, the job is not added, and accepting again is a no-op |
| `IdentityOutage` | "degrade gracefully" (`users.ts:71`) | while the PLC directory does not answer, the shadow DID of a known Bluesky user collides with their row and the sign-in is refused |

Seen while modelling, and part of the model, without a run of their own. A property
that would be broken by one of these says "unless" and names it.

*Submission.* An error is recorded last against the first stage the job ran
(`submissions.ts:520`, `Unwind`). A crash between `setUri` and `setStatus` leaves a
finished paper unpublished (`submissions.ts:728`; the reason for `faults = 0` in
`HiddenNeedsFaults`). A retry before the first version uses a key that was never stored
(`submissions.ts:301`). A failed HTML conversion fails its stage, although
`docs/SUBMIT-RESOLUTION-RELEASE-2026-05-18.md:94` says it is tolerated. A failed
announcement completes its stage, although `docs/audit/bluesky-integration.md:241` says
it is retried. The job that should republish an edited paper does nothing once the saga
is finished (`paper-edit.ts:352`). An id past the 99,999th of a subject and year is
formatted with six digits, which `openxiv-id.ts:19` does not accept.

*Announcements.* The anchor is erased when an overlapping run records "failed"; a thread
that stopped in the middle is not resumed once the version is "posted", and the resuming
code is reached only after an overlap and a failure, when it mixes two threads; replies
for a second version are never made, since no second version is.

*Wizard.* A title of 501 characters, a mistyped ORCID, a 21st keyword or too long an abstract,
note or affiliation pass every step and are refused by the server only after "Publish",
as are a title that is shorter than four characters without its tags and a
model list of commas; metadata read from an upload are filled in without these checks.

*Edits.* A cleared abstract is kept by COALESCE while the audit row says null; a primary
category that moves out of the cross-listings shortens them without an audit row; a
repeated keyword deletes all keywords and fails the request.

*Identity.* Overlapping link requests demote or lose the `did:plc`, or make a second row;
a link of an ORCID that another row's column holds switches the DID and then fails; a
second ORCID linked to a user signs in to a new user of its own, whose account is without
a link once the first user drops theirs; two overlapping unlinks may leave no link. A handle chosen here is overwritten by Bluesky's
at the next sync; users without a session stay at the head of the loop's list of a
hundred; a late refresh may overwrite a newer profile.

*Sessions.* Linking changes the canonical DID of a user but not `submitterDid` of the papers
they have, so a fresh session may list an older paper and is refused its retry and its
changelog; after a link that failed half way two users share a DID, and each finds the
papers of the other. The intent to link is forgotten when the session is gone by the
callback (Bluesky, ORCID), which then signs in; Google's has no intent.

*Seminar.* Two overlapping pins leave two, though `posts.ts:111` says that state cannot exist.

*Keys and handles.* Overlapping rotations lose keys, and a 304 may certify an older set;
a crash between the two UPDATEs loses the old key; a change of handle does not change
the ETag; the timeout of `routes/did-web.ts` rejects a race nobody catches, and answers
500 where its header says 503 with Retry-After. `lastCheckedRef` of the picker is
written and never read, so an overtaken answer may be claimed.

*Explainer.* `llm-budget` refuses when Redis is down although its header says it is open;
refused prompts stay counted although `explain.ts` says "so a failed call doesn't burn
quota for nothing"; `upsertSummary` keeps `created_at`, so after seven days the cache
never hits again and an author's summary is overwritten by any reader's request.

*Circuits.* Embedding jobs have three attempts and no backoff (`paper-edit.ts:331`), so an
open circuit uses them up; the default options handed to Workers are ignored there by
BullMQ; a job that stalled out fails with attempts left and gets no dead letter; a
circuit's timeout does not end the call; `README.md:101` names a breaker for the jetstream
that does not exist; the storage probe of `/healthz` signs a URL locally, so storage is
"up" when it is down (`health.ts:54`).

*Text and search.* "The indexer refuses to run beyond this" (`sections.ts`), but it silently
cuts at eighty sections; headings of merged or empty sections leave the index;
`replaceForPaper` is called atomic and is a DELETE and an INSERT, and a search in between
caches an empty answer; text that is indexed last wins, old or new; recompiled HTML is
not indexed again.

*Bundles.* `.bbl` files are read as empty; an entry of more than four MiB is invisible to the
preflight; "Clear supplements/examples/templates are deprioritized" does not hold for a
root file called `smith2024.tex` beside `examples/main.tex`; the preflight refuses
`\input{glyphtounicode}`; a log that mentions "tls" or "timeout" makes an author's error
look transient.

*HTML.* A recompile request is answered `queued: true` while the id of an earlier job is
remembered, and dropped; failures that no retry can mend are retried five times; the
circuit's 180 seconds equal those of each command, so a slow conversion outlives its
circuit and overlaps the next. On the page, paragraphs after an inner section get no
anchor; a citation with an id of its own has a backlink that leads nowhere; images are
counted by placeholders, so a figure may get its neighbour's image when some were drawn.

*Figures.* A crash between rows and marker leaves rows without a marker; an outage of GROBID
is recorded as a complete extraction; `pdf_grobid_no_figures` is never reached;
`firstFigureForPapers` falls back to older versions although its comment says it omits.

*OAI-PMH and feeds.* `papers.published_at` is never written, so the list is ordered by
`created_at` and the weekly disclosure view is empty; withdrawn papers move rows across
an offset; withdrawals are never reported although deletedRecord is "transient". The
feed "featured" always fails, since `featured_items` has no column `paper_id`
(`bsky-feeds.ts`), and a failed call of the generator is an empty page without a cursor,
which looks like the end of the feed.

*Engagement.* The rollup counts impressions and expanded cards as views, the events alone
only views, so the badge jumps with the freshness of the rollup; a failure of Crossref is
cached as "no citations" for four hours; an endorsement made under one DID cannot be
removed under the other; two overlapping requests count twice.

*Flags and brief.* No route calls `flags.set`, although the header names admin endpoints; a
failed write returns the value as if it were stored; a Redis error gives the default even
when a stored override says otherwise; each caller makes a service of its own, so
nothing is cached between requests. A failed pick of the brief is stored like an empty
one; a failed read of the snapshot counts as none and rewrites it; an interval that
drifts over the first hour skips a day.

*Passport.* A completion between 0 and 1 is divided by 100; no code stores a detector score;
before any citation is read the lane says that no section was found. *PDF and stream.* A
cover built without its statistics is remembered under the same hash; the label of a
mention is never stored, since `bskyLabels.apply` names a constraint that migration 0019
removed, and its flag is read only at the start.

## 8. What is proved

All theorems are for arbitrary finite or infinite sets of papers, slots, connections,
decisions, retries and mentions and for every bound on attempts, stalls, faults and
requests (only the slots of `Crosspost` and the model names of `Intake` are assumed finite,
since they are counted), from the assumptions named in the modules (`RegistryAssumption`,
`AllocatorAssumption`, `SagaAssumption`, `FollowAssumption`, `PushAssumption`,
`FinalizeAssumption`, `StreamAssumption`, `ExplainAssumption`, `HandleAssumption`,
`KeysAssumption`, `IntakeAssumption`, `EditAssumption`, `SyncAssumption`,
`IdentityAssumption`, `AnnouncementAssumption`, `HarvestAssumption`, `EngagementAssumption`,
`BriefAssumption`, `FeedAssumption`, `SeminarAssumption`, `BreakersAssumption`,
`FlagsAssumption`, `HtmlAssumption`, `PassportAssumption`, `RerunAssumption`,
`SessionsAssumption`, `SectionIndexAssumption`, `FiguresAssumption`). Most say only
that the constants have their types and that names differ; those of `Harvest` and
`BskyFeeds` also that the papers are finitely many, which an offset counts.

* `RegistrySound`: the registry's ids are unique and gapless. The invariant is
  `IdsUnique /\ IdsGapless` with the types: an id is at most its counter, so
  the next number is new.
* `AllocatorSafe`, `AllocatorImplements`, `AllocatorIds`: the inductive invariant
  `Inv` of `IdAllocatorProofs` says that a transaction past its first statement
  holds the lock of its paper, that what it has read is still what the row
  says, and that its number is the next of a counter it has locked. The lock
  alone (`LocksAreHeld`) is not inductive: a commit must also find the rows as
  the transaction left them. `Commit` then is one `Assign`, every other action a
  stutter.
* `SagaTypes`, `GateHolds`: the inductive invariant `Inv` of
  `SubmissionSagaProofs`. `ApprovalGate` is not inductive, since the test that
  guards it is made on a snapshot steps before the write. `WorkerInv` adds that a
  snapshot is never ahead of the row (`saga \subseteq done`, which needs that
  flags are never taken back) and that a slot past the approval stage has seen
  the flag. `JobsExclusive` and `AttemptsLeft` are what the types of the queue
  need, `AcceptHasVersion` what an accept needs to give its job a key.
* `SagaIds`: the saga's allocation implements `IdRegistry`.
* `SagaGrants`: flags and ids are final.

* `FlagsMeanEffects`, `AcceptsComplete`, `PostsAreBacked`: the invariant `Evidence` of
  `SagaEffectsProofs`. A flag is written by a slot that made the effect some steps
  before, maybe with another slot's writes in between; `Evidence` says for each
  place of a slot's program which effects have happened by then, that effects are not
  undone, and that a slot past a stage found its flag in its snapshot or made it.
* `DuplicatesArePaid`, `HiddenIsPaid`, `UrisAreStable` (`SagaOneSlotProofs`) assume
  `OneSlot`, one slot, as section 7 shows they must. `Solo` is an account of the remote
  writes: what lies beyond the first of a kind is covered by the faults so far, and
  the slot at work still owes the effect its place says.
* `TootsArePaid` (`QueueProofs`): toots, together with those a slot is about to send, are at
  most one more than the calls nobody has heard of; `Owing` is the set of slots that may
  still send, and `OneOwner` says that a job is in one slot that holds its lock.
* `FinalIsUpToDate`: `Served` says that the last request is met, or is under way in a slot
  that reads or has read the row of now (`Underway`), or waits in the queue. `OneByOne`
  makes it inductive as long as no two jobs overlapped, which is what `FinalHolds` asks.
* `FollowsSettle` (`QueueProofs`): unless a lock was lost, a slot at work holds the
  lock of its job, so a look-up that saw no record is still right when the
  record is written (`LookUpsHold`); `FollowReached` and `UnfollowReached` say how far
  the last request has come at each place of the slot.
* `StreamSkipsNothing`: `StreamCovered` adds to the property what a new connection starts
  from: the events a look-back behind the stored cursor, and those this process has
  handled, are accounted for.
* `QueuesImplement`: the composition implements each of its parts, so that
  `QueuesTypes` and `QueuesKeepPromises` follow from their theorems.

* `BudgetsHoldAlways` (`RecordProofs`): `TokensCovered` and `QuotaCovered` put the counters
  between what was spent and the caps. A reader's text is counted before it is
  made, so the requests between the two (`Through`) belong to the account.
* `PickedHandleHoldsAlways`: `VerdictIsTyped` follows the text through the debounce and the
  look-ups, which answer in any order: unless one was overtaken, the last one under
  way, or else the verdict, is about the text of the field. `GrantIsMine` says that a
  name that was granted stays with its owner.
* `KeysStayKnownAlways`: `AloneWithRow` says that without overlapping rotations a request
  works on the row it has read, with a key of its own; so `FaultsLose`: each
  failure costs at most one key, counting the keys a rotation is about to write.
* `RefusalsExplainedAlways`, `SubmissionsHoldAlways`: `IntakeInv` says what the gates already
  passed still imply of the form (`GatesHold`), although uploads and suggestions are
  answered behind them, and hence that the server accepts a body or refuses it for one of
  the named reasons (`Explained`, `BodyExplained`); what each request has left behind (`Staged`); and, as an
  account, that the requests the tab no longer waits for are covered by failures and
  lost answers (`LooseCost`). The property alone only counts papers, and is not
  inductive: a request that has not made its paper yet still may.
* `EditHoldsAlways`: `InTurn` says that, while no two transactions on the categories have
  overlapped, the one at work has seen the rows that are there, so that its DELETE takes
  them all. `Told` gives for each place of an edit the fields that have their new value
  already; the audit rows come last and in any order, so between the first and the last
  the trail agrees with the paper in some fields only.

* `ProfilesSettle` (`RecordProofs`): `SyncInv` says of each row and of each refresh which
  editions and handles it may hold, and that two refreshes of one member are under way
  only when the history says so. The batch of the loop is part of it: a row is
  read long before it is written. The proof made `ChoicesComeBackLate` sharper: only
  a choice that was made while somebody held the row can be undone.
* `LinksRemainAlways`: `LinksInv` says that, until two requests met on a user's links,
  those at work are about different users and different accounts (`OnLinks`), so that
  the second link a request to unlink has seen is still there when it deletes the first.
* `ThreadsStayWhole`: `BridgeInv` and `ReplyFound`. A run adds a post, then its number to the
  row, and may die between; so `PostsChain` speaks of the posts there are, `RowNamesIt` of
  the prefix that the row names, `RowIsMine` of what the run at work will write, and
  `AnchorsPaid` pays every announcement beyond the first by a fault.

* `HomesStay`: `HomesInv` says that a row keeps a column of each provider it ever had one of
  (`RowsGrow`), that a DID and an account lead to one row (`RowsApart`), and that a request
  about to sign in has found a row with a column of its provider. The proof corrected the
  property: it was stated for one home without exceptions, which two links of two ORCIDs
  to one user break, as a run with more visits then showed.
* `SessionsFindTheirOwn`: the DIDs of a user only grow, and those of two users stay apart
  unless a link failed half way; a cookie, a paper and a trip each hold a DID that was
  their user's, so a session of any age finds by its DIDs what its user submitted.
* `IndexOfOneText`: a run between DELETE and INSERT, and a search that has charged its call,
  may only have one text in hand; chunks are embedded in any order, and what is embedded and
  what is on its way are apart, which makes the rows gapless.
* `MarkersTell`: `WritesAgree` says, of a run between its two writes, that the rows are the
  ones its marker will name, unless runs crossed. Here too the proof corrected the property: a run over an older extraction may end
  between the writes not only when it dies but when the second write fails.

* `HarvestLosesNothing` (`ServiceProofs`): `ShownSoFar` says that, unless rows moved across the
  offset, a paper the list had throughout and that now lies before the offset was
  shown. How many rows lie before one (`Ahead`) is the size of a finite set.
* `FeedsWalk`: the same for a walk through two processes with caches, where a page may be
  older than the one before it; `SettledShown` carries the case of an unchanged list.
* `EngagementCounts`: `FirstThenSecond` says that of two tabs that track one minute only one
  inserts; `RollupBehind` and `ReadsModest` bound what the badge has read so far.
* `BriefsKept`: `UnderDates` and `EditionsDated` keep apart the editions that are being made;
  `NotPaused` says that the cron has seen the hour, unless the process was down for it.
* `SeminarPins`: `SeesAllPins` says that a transaction which overlapped no other has seen,
  when it unpins, every pin there is.
* `OutagesContained`: `CircuitInv` is an account of the calls let through while a circuit is
  open, each paid for by a reset; `WorkInv` adds what each slot of the embed worker has
  left behind, the letters, and that a newer text is stored or on its way.
* `FlagsSettleAlways`: `FlagInv` says that what Redis told a call it still had when the call
  began, whatever happened since; so what a process remembers from a read expires
  thirty seconds after the flag last had it.
* `HtmlKeepsUp`: `LoneMaker` and `JobHeld` say who converts a version, and `AskedIsMade` that
  a job which is done has put and named a page of the release that was asked for.
* `PassportsExplain`: a lane with something to do has a pending check or a failure above
  low severity, and one with nothing to do has all of its credit (`FullCredit`), lane by
  lane, for any tallies of the text. The page derives the same states by other code.
* `RerunsAgree`: `RerunInv` says that what is kept or being built are posts as they were
  (`EventsFit`), although labels and hidden posts change between the reads, and that a
  passport nobody interfered with (`quiet`) is the one that would be built now. That a
  history is in order follows from the ranks that put it so (`History`).
* `RecordsImplement` (`MCRecordsProofs`): each step of `MCRecords` is a step or a stutter of
  each of these services. Hence `PagesHoldAlways`, `OperationsHoldAlways`,
  `PassportAddsUpAlways` and `RecordsKeepPromises`.

**Model-checked only.**

* `BundlesHold`, the texts in `SearchHolds` and `AnnouncementHolds` and the crops and pages in
  `FiguresHold`: what the folds and recursions of `PaperText`, `Compile`, `HtmlPage` and
  `FigureCrop` compute for inputs of any length needs induction over data, which is out of
  the prover's reach; the modules are checked over the inputs of section 6.
* `GoodNewsNeverHurts` compares two quotients of sums; the arithmetic is not linear.
* `IdentityHolds`: all of it is proved but `OneHome` and `BestDid` of `Identity`.
* `RecordsTypeOK`: the types of the services that are proved about are part of their
  invariants, those of the others are only checked.
* The liveness properties `JobsEnd`, `ApprovedIsPublished`, `CallsEnd`, `QueueJobsEnd` and
  `MentionsArrive`: the prover proves neither liveness under fairness nor facts about
  `ENABLED`.

## 9. Plan

What is left to prove is `OneHome` and `BestDid` of `Identity`: which link of a user stands
for which column of the row, while no two requests overlap, needs an invariant on the
history of every DID.

## 10. Not modelled, and why

Rights and rate limits are checked in the request they are about and, but for what
section 5 names, not modelled. Profiles, statistics,
suggestions, the home feed and the pages of the web application only read. Metadata
services, the lexicons, the layout of the PDF cover and the formats of OAI-PMH compute
values the properties do not tell apart; so do the passes of `html-postprocess.ts` over
math, tables and drawings. The DID resolver matters by whether it answers, which is part
of `Identity`. Reviews and preregistrations are single rows written after a check.
Cookies and states are signed, and a signature is taken to hold; PKCE, nonces and the
instance-specific part of the Mastodon routes are not modelled. Detector scores are read and never written. The external services themselves are
represented by their outcomes.
