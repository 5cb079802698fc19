------------------------------- MODULE Intake -------------------------------
(***************************************************************************)
(* From an uploaded source to a paper row: the submission wizard in the      *)
(* browser (components/SubmissionWizard.tsx), the intake sessions in Redis   *)
(* (services/intake.ts, routes/intake.ts) and finalizeImpl of                *)
(* services/submissions.ts.  One tab of one submitter.  A document stands    *)
(* for its upload and for the session the upload gets.  A summary is empty,  *)
(* unfit ("short": outside 80 to 4000 characters) or fit; of the other texts *)
(* there is what the gates of the wizard and the checks of the server tell   *)
(* apart, for the server has limits that no gate asks for.                   *)
(***************************************************************************)
EXTENDS Naturals, FiniteSets, Sequences

CONSTANTS
    Documents,        \* uploads of the tab
    NoDocument,
    Subjects,         \* category codes
    NoSubject,
    MaxCrossListings, \* (2)
    Tiers,            \* of a plain-language summary
    NoTier,
    FirstTier,        \* the tier that is active at first
    Models,           \* names of models, as disclosed
    AiModel,          \* the model that writes suggestions
    EmptyPiece,       \* what stands between two commas without a name
    MaxModels,        \* names that a disclosure may have (20)
    Extracts,         \* what may be read out of an upload
    MaxOverlong,      \* bound: fields beyond their limit at a time
    MaxFormEdits,     \* bound: edits of the form and uploads
    MaxRequests,      \* bound: publish requests
    MaxIntakeFaults   \* bound: failures, lost answers and expiries

\* A title is short (under 4 characters), fit, long (over 500), or fit until the server has
\* taken its tags and spaces away.
TitleLengths == {"short", "fit", "long", "shrinks"}

\* The fields that the server limits and no gate looks at: the length of the abstract, the
\* number of authors and the form of their data, the keywords, the notes.
Limited == {"abstract", "authors", "keywords", "notes"}

ASSUME IntakeAssumption ==
    /\ NoDocument \notin Documents /\ NoSubject \notin Subjects
    /\ NoTier \notin Tiers /\ FirstTier \in Tiers
    /\ AiModel \in Models /\ EmptyPiece \notin Models /\ IsFiniteSet(Models)
    /\ Extracts \subseteq [title: TitleLengths, over: SUBSET Limited,
                           found: SUBSET {"title", "abstract", "authors"}]
    /\ \A x \in Extracts : x.over \subseteq x.found
    /\ {MaxModels, MaxCrossListings} \subseteq Nat
    /\ {MaxOverlong, MaxFormEdits, MaxRequests, MaxIntakeFaults} \subseteq Nat

VARIABLES
    wizard,     \* what the tab shows and waits for
    form,       \* what has been entered
    sessions,   \* the documents whose session Redis holds
    finalizing, \* the finalize requests on the server, by number
    late,       \* a suggestion was answered on the last step (history)
    formEdits, intakeFaults   \* counters of the bounds

intakeVars == <<wizard, form, sessions, finalizing, late, formEdits, intakeFaults>>

Lengths == {"empty", "short", "fit"}
Uses    == {"summary", "other"}

EmptyDraft == [text |-> "empty", ai |-> FALSE, model |-> FALSE]

IntakeInit ==
    /\ wizard = [step |-> 1, intake |-> NoDocument, working |-> FALSE, uploads |-> {},
                 tier |-> FirstTier, suggesting |-> NoTier, terms |-> FALSE,
                 publishing |-> 0, done |-> FALSE]
    /\ form = [title |-> "short", named |-> TRUE, primary |-> NoSubject, cross |-> {},
               drafts |-> [t \in Tiers |-> EmptyDraft], overlong |-> {},
               level |-> FALSE, used |-> {}, models |-> {}]
    /\ sessions = {} /\ finalizing = <<>>
    /\ late = FALSE /\ formEdits = 0 /\ intakeFaults = 0

IntakeFault ==
    /\ intakeFaults < MaxIntakeFaults
    /\ intakeFaults' = intakeFaults + 1

\* The wizard is on screen and shows step s; the later steps need an intake.
On(s) == ~wizard.done /\ wizard.step = s /\ (s > 2 => wizard.intake # NoDocument)

-----------------------------------------------------------------------------
(* What decides whether a form may be published. *)

Filled(f)    == {t \in Tiers : f.drafts[t].text # "empty"}
Generated(f) == {t \in Filled(f) : f.drafts[t].ai}

SummariesFit(f) == Filled(f) # {} /\ \A t \in Filled(f) : f.drafts[t].text = "fit"

\* What is listed between the commas of a text of models.
Listed(pieces) == pieces \ {EmptyPiece}

\* disclosureInvalid: the gate of the summary step; a text of commas is not empty.
Disclosed(f) ==
    /\ f.level => f.used # {} /\ f.models # {}
    /\ Generated(f) # {} => f.level /\ "summary" \in f.used /\ f.models # {}

\* What no gate asks about and the server does not take.
OverLimit(f) == f.overlong \cup {x \in {"title"} : f.title \in {"long", "shrinks"}}

\* ensureSummaryDisclosure.
WithSummary(f, names) == [f EXCEPT !.level = TRUE, !.used = @ \cup {"summary"},
                                   !.models = Listed(@) \cup names]

\* The body of a publish: what the summaries tell is disclosed once more.
Body(f) ==
    [f EXCEPT !.level  = @ \/ Generated(f) # {},
              !.used   = IF Generated(f) # {} THEN @ \cup {"summary"} ELSE @,
              !.models = Listed(@) \cup {m \in {AiModel} :
                                            \E t \in Filled(f) : f.drafts[t].model}]

\* finalizeBodySchema, sanitizeCrossListings.
SchemaAccepts(b) ==
    /\ b.title \notin {"short", "long"} /\ b.named /\ b.overlong = {}
    /\ b.primary # NoSubject /\ b.primary \notin b.cross
    /\ Cardinality(b.cross) <= MaxCrossListings
    /\ SummariesFit(b)
    /\ Cardinality(b.models) <= MaxModels

\* validateSubmissionMetadata, of the sanitized input.
MetadataAccepts(b) ==
    /\ b.title = "fit"
    /\ b.level => b.used # {}
    /\ SummariesFit(b)
    /\ Generated(b) # {} => /\ b.level /\ "summary" \in b.used
                            /\ b.models # {} \/ \E t \in Generated(b) : b.drafts[t].model

Acceptable(b) == SchemaAccepts(b) /\ MetadataAccepts(b)

-----------------------------------------------------------------------------
(* The wizard. *)

\* A field of the step on screen is edited.
Enter(s, f) ==
    /\ On(s)
    /\ formEdits < MaxFormEdits /\ Cardinality(OverLimit(f)) <= MaxOverlong
    /\ formEdits' = formEdits + 1
    /\ form' = f
    /\ UNCHANGED <<wizard, sessions, finalizing, late, intakeFaults>>

PickPrimary(c) ==
    Enter(1, [form EXCEPT !.primary = c, !.cross = @ \ {c}])

ToggleCross(c) ==
    /\ form.primary # NoSubject /\ c # form.primary
    /\ c \in form.cross \/ Cardinality(form.cross) < MaxCrossListings
    /\ Enter(1, [form EXCEPT !.cross = IF c \in @ THEN @ \ {c} ELSE @ \cup {c}])

EnterTitle(l) == Enter(3, [form EXCEPT !.title = l])
NameAuthors(b) == Enter(4, [form EXCEPT !.named = b])

\* The limited fields of a step; the notes are shown with a disclosure only.
LimitedOn(s) ==
    {x \in Limited : \/ s = 3 /\ x = "abstract"
                     \/ s = 4 /\ x \in {"authors", "keywords"}
                     \/ s = 5 /\ x = "notes" /\ form.level}

\* A field is brought over its limit, or back.
Resize(s, x) ==
    /\ x \in LimitedOn(s)
    /\ Enter(s, [form EXCEPT !.overlong = IF x \in @ THEN @ \ {x} ELSE @ \cup {x}])

\* Typing makes a draft the author's own.
TypeSummary(l) ==
    Enter(5, [form EXCEPT !.drafts[wizard.tier] = [EmptyDraft EXCEPT !.text = l]])

\* The box is fixed for a draft that a model has written.
MarkAi(b) ==
    /\ ~form.drafts[wizard.tier].model
    /\ LET f == [form EXCEPT !.drafts[wizard.tier].ai = b] IN
       Enter(5, IF b THEN WithSummary(f, {}) ELSE f)

SetLevel(b)  == Enter(5, [form EXCEPT !.level = b])
ToggleUse(u) ==
    /\ form.level
    /\ Enter(5, [form EXCEPT !.used = IF u \in @ THEN @ \ {u} ELSE @ \cup {u}])
SetModels(p) == form.level /\ Enter(5, [form EXCEPT !.models = p])

\* The tier cannot be changed while a suggestion is on its way.
ChangeTier(t) ==
    /\ On(5) /\ wizard.suggesting = NoTier
    /\ wizard' = [wizard EXCEPT !.tier = t]
    /\ UNCHANGED <<form, sessions, finalizing, late, formEdits, intakeFaults>>

GoTo(s) ==
    /\ wizard' = [wizard EXCEPT !.step = s]
    /\ UNCHANGED <<form, sessions, finalizing, formEdits, intakeFaults>>

\* Mutant: any text is a summary; its length is left to the server.
NextAnySummary(s) ==
    /\ On(s)
    /\ s = 1 => form.primary # NoSubject /\ Cardinality(form.cross) <= MaxCrossListings
    /\ s = 2 => wizard.intake # NoDocument /\ ~wizard.working
    /\ s = 3 => form.title # "short"
    /\ s = 4 => form.named /\ form.primary # NoSubject
    /\ s = 5 => Filled(form) # {} /\ Disclosed(form)
    /\ late' = (late /\ s # 5)
    /\ GoTo(s + 1)

\* The gates of the steps.
NextStep(s) ==
    /\ On(s)
    /\ s = 1 => form.primary # NoSubject /\ Cardinality(form.cross) <= MaxCrossListings
    /\ s = 2 => wizard.intake # NoDocument /\ ~wizard.working
    /\ s = 3 => form.title # "short"
    /\ s = 4 => form.named /\ form.primary # NoSubject
    /\ s = 5 => SummariesFit(form) /\ Disclosed(form)
    /\ late' = (late /\ s # 5)
    /\ GoTo(s + 1)

BackStep(s) ==
    /\ On(s)
    /\ s = 2 => ~wizard.working
    /\ s = 6 => wizard.publishing = 0
    /\ GoTo(s - 1)
    /\ UNCHANGED late

\* The drop zone takes a file at any time.
Upload(d) ==
    /\ On(2)
    /\ d \notin wizard.uploads /\ d \notin sessions /\ d # wizard.intake
    /\ formEdits < MaxFormEdits
    /\ formEdits' = formEdits + 1
    /\ wizard' = [wizard EXCEPT !.working = TRUE, !.uploads = @ \cup {d}]
    /\ UNCHANGED <<form, sessions, finalizing, late, intakeFaults>>

\* The pre-flight check, the compiler or a store turns the upload down.
UploadRefused(d) ==
    /\ d \in wizard.uploads \ sessions
    /\ wizard' = [wizard EXCEPT !.working = FALSE, !.uploads = @ \ {d}]
    /\ UNCHANGED <<form, sessions, finalizing, late, formEdits, intakeFaults>>

\* Source, preview and extraction are done: the session is put into Redis.
StoreIntake(d) ==
    /\ d \in wizard.uploads \ sessions
    /\ sessions' = sessions \cup {d}
    /\ UNCHANGED <<wizard, form, finalizing, late, formEdits, intakeFaults>>

\* The answer fills the form with what was found, over a limit or not, and with few
\* keywords, and shows the upload step.
UploadAnswers(d, x) ==
    /\ d \in wizard.uploads \cap sessions
    /\ wizard' = [wizard EXCEPT !.working = FALSE, !.uploads = @ \ {d}, !.intake = d,
                                !.step = 2]
    /\ form' = [form EXCEPT !.title = IF "title" \in x.found THEN x.title ELSE @,
                            !.named = @ \/ "authors" \in x.found,
                            !.overlong = (@ \ (x.found \cup {"keywords"})) \cup x.over]
    /\ Cardinality(OverLimit(form')) <= MaxOverlong
    /\ UNCHANGED <<sessions, finalizing, late, formEdits, intakeFaults>>

Suggest ==
    /\ On(5) /\ wizard.suggesting = NoTier
    /\ formEdits < MaxFormEdits
    /\ formEdits' = formEdits + 1
    /\ wizard' = [wizard EXCEPT !.suggesting = wizard.tier]
    /\ UNCHANGED <<form, sessions, finalizing, late, intakeFaults>>

\* A text arrives, on whatever step, or an error does.
SuggestAnswers(l) ==
    /\ wizard.suggesting # NoTier /\ ~wizard.done
    /\ form' = WithSummary([form EXCEPT !.drafts[wizard.suggesting] =
                               [text |-> l, ai |-> TRUE, model |-> TRUE]], {AiModel})
    /\ wizard' = [wizard EXCEPT !.suggesting = NoTier]
    /\ late' = (late \/ On(6))
    /\ UNCHANGED <<sessions, finalizing, formEdits, intakeFaults>>

SuggestFails ==
    /\ wizard.suggesting # NoTier /\ ~wizard.done
    /\ wizard' = [wizard EXCEPT !.suggesting = NoTier]
    /\ UNCHANGED <<form, sessions, finalizing, late, formEdits, intakeFaults>>

AcceptTerms(b) ==
    /\ On(6) /\ wizard.publishing = 0
    /\ wizard' = [wizard EXCEPT !.terms = b]
    /\ UNCHANGED <<form, sessions, finalizing, late, formEdits, intakeFaults>>

NewRequest == [pc |-> "check", doc |-> wizard.intake, body |-> Body(form), late |-> late,
               commas |-> form.models = {EmptyPiece}, paper |-> FALSE, job |-> FALSE]

\* Mutant: the tab shows the paper as submitted when it sends the request.
PublishEarly ==
    /\ On(6) /\ wizard.terms /\ wizard.publishing = 0
    /\ Len(finalizing) < MaxRequests
    /\ finalizing' = Append(finalizing, NewRequest)
    /\ wizard' = [wizard EXCEPT !.publishing = Len(finalizing'), !.done = TRUE]
    /\ UNCHANGED <<form, sessions, late, formEdits, intakeFaults>>

Publish ==
    /\ On(6) /\ wizard.terms /\ wizard.publishing = 0
    /\ Len(finalizing) < MaxRequests
    /\ finalizing' = Append(finalizing, NewRequest)
    /\ wizard' = [wizard EXCEPT !.publishing = Len(finalizing')]
    /\ UNCHANGED <<form, sessions, late, formEdits, intakeFaults>>

-----------------------------------------------------------------------------
(* finalizeImpl, one action per group of calls that leaves something behind. *)

RequestAt(r, l) == finalizing[r].pc = l

Move(r, l) == finalizing' = [finalizing EXCEPT ![r].pc = l]

Check(r) ==
    /\ RequestAt(r, "check")
    /\ Move(r, IF Acceptable(finalizing[r].body) THEN "session" ELSE "refused")
    /\ UNCHANGED <<wizard, form, sessions, late, formEdits, intakeFaults>>

ReadSession(r) ==
    /\ RequestAt(r, "session")
    /\ Move(r, IF finalizing[r].doc \in sessions THEN "create" ELSE "gone")
    /\ UNCHANGED <<wizard, form, sessions, late, formEdits, intakeFaults>>

Create(r) ==
    /\ RequestAt(r, "create")
    /\ finalizing' = [finalizing EXCEPT ![r].pc = "fill", ![r].paper = TRUE]
    /\ UNCHANGED <<wizard, form, sessions, late, formEdits, intakeFaults>>

\* Categories, authors, keywords, disclosure, summaries, source, saga row.
Fill(r) ==
    /\ RequestAt(r, "fill")
    /\ Move(r, "enqueue")
    /\ UNCHANGED <<wizard, form, sessions, late, formEdits, intakeFaults>>

EnqueuePaper(r) ==
    /\ RequestAt(r, "enqueue")
    /\ finalizing' = [finalizing EXCEPT ![r].pc = "consume", ![r].job = TRUE]
    /\ UNCHANGED <<wizard, form, sessions, late, formEdits, intakeFaults>>

\* A failure to delete the session is ignored.
Consume(r) ==
    /\ RequestAt(r, "consume")
    /\ \/ sessions' = sessions \ {finalizing[r].doc} /\ UNCHANGED intakeFaults
       \/ IntakeFault /\ UNCHANGED sessions
    /\ Move(r, "done")
    /\ UNCHANGED <<wizard, form, late, formEdits>>

\* A call of the request fails: what it has written stays.
FinalizeCallFails(r) ==
    /\ finalizing[r].pc \in {"session", "create", "fill", "enqueue"}
    /\ IntakeFault
    /\ Move(r, "failed")
    /\ UNCHANGED <<wizard, form, sessions, late, formEdits>>

Answer(r) ==
    /\ wizard.publishing = r
    /\ finalizing[r].pc \in {"done", "refused", "gone", "failed"}
    /\ wizard' = [wizard EXCEPT !.publishing = 0, !.done = RequestAt(r, "done")]
    /\ UNCHANGED <<form, sessions, finalizing, late, formEdits, intakeFaults>>

\* The connection breaks before the answer; the request goes on.
AnswerLost(r) ==
    /\ wizard.publishing = r
    /\ IntakeFault
    /\ wizard' = [wizard EXCEPT !.publishing = 0]
    /\ UNCHANGED <<form, sessions, finalizing, late, formEdits>>

\* A session lives for 24 hours.
Expire(d) ==
    /\ d \in sessions
    /\ IntakeFault
    /\ sessions' = sessions \ {d}
    /\ UNCHANGED <<wizard, form, finalizing, late, formEdits>>

FormStep ==
    \/ \E c \in Subjects : PickPrimary(c) \/ ToggleCross(c)
    \/ \E l \in TitleLengths : EnterTitle(l)
    \/ \E l \in Lengths : TypeSummary(l) \/ SuggestAnswers(l)
    \/ \E s \in 3..5, x \in Limited : Resize(s, x)
    \/ \E b \in BOOLEAN : NameAuthors(b) \/ MarkAi(b) \/ SetLevel(b)
    \/ \E p \in SUBSET (Models \cup {EmptyPiece}) : SetModels(p)
    \/ \E u \in Uses : ToggleUse(u)
    \/ \E t \in Tiers : ChangeTier(t)
    \/ Suggest \/ SuggestFails

TabStep ==
    \/ \E s \in 1..5 : NextStep(s)
    \/ \E s \in 2..6 : BackStep(s)
    \/ \E b \in BOOLEAN : AcceptTerms(b)
    \/ Publish

UploadStep(d) ==
    \/ Upload(d) \/ UploadRefused(d) \/ StoreIntake(d) \/ Expire(d)
    \/ \E x \in Extracts : UploadAnswers(d, x)

FinalizeRequestStep(r) ==
    \/ Check(r) \/ ReadSession(r) \/ Create(r) \/ Fill(r) \/ EnqueuePaper(r) \/ Consume(r)
    \/ FinalizeCallFails(r) \/ Answer(r) \/ AnswerLost(r)

IntakeNext ==
    \/ FormStep \/ TabStep
    \/ \E d \in Documents : UploadStep(d)
    \/ \E r \in DOMAIN finalizing : FinalizeRequestStep(r)

IntakeSpec == IntakeInit /\ [][IntakeNext]_intakeVars

-----------------------------------------------------------------------------
Forms == [title: TitleLengths, named: BOOLEAN, primary: Subjects \cup {NoSubject},
          cross: SUBSET Subjects, overlong: SUBSET Limited,
          drafts: [Tiers -> [text: Lengths, ai: BOOLEAN, model: BOOLEAN]],
          level: BOOLEAN, used: SUBSET Uses,
          models: SUBSET (Models \cup {EmptyPiece})]

FinalizeStates == {"check", "session", "create", "fill", "enqueue", "consume", "done",
                   "refused", "gone", "failed"}

\* Every variable has its type; in particular the form and the bodies sent name only tiers,
\* subjects and uses that the schema of the request knows.
IntakeTypeOK ==
    /\ wizard \in [step: 1..6, intake: Documents \cup {NoDocument}, working: BOOLEAN,
                   uploads: SUBSET Documents, tier: Tiers, suggesting: Tiers \cup {NoTier},
                   terms: BOOLEAN, publishing: 0..MaxRequests, done: BOOLEAN]
    /\ form \in Forms
    /\ sessions \subseteq Documents
    /\ \A r \in DOMAIN finalizing :
        finalizing[r] \in [pc: FinalizeStates, doc: Documents, body: Forms, late: BOOLEAN,
                          commas: BOOLEAN, paper: BOOLEAN, job: BOOLEAN]
    /\ late \in BOOLEAN
    /\ formEdits \in 0..MaxFormEdits /\ intakeFaults \in 0..MaxIntakeFaults

\* What only the server asks for: the most that a title, another field or the list of
\* models may hold, the title without its tags, and the name of a model where the
\* text of models is commas.
Ungated(q) ==
    \/ OverLimit(q.body) # {}
    \/ Cardinality(q.body.models) > MaxModels
    \/ q.commas /\ Generated(q.body) # {} /\ q.body.models = {}

\* The server refuses what the wizard sends for two reasons only: a limit that no gate
\* asks for, or a summary that a suggestion has changed on the last step.  The
\* least of the title, the authors, the categories, the summaries and the AI
\* disclosure the gates have seen to, whatever steps, uploads and
\* suggestions came in between (SubmissionWizard.tsx:741-1155, routes/intake.ts:56-127,
\* submissions.ts:1206-1251).
RefusalsExplained ==
    \A r \in DOMAIN finalizing : RequestAt(r, "refused") =>
        \/ Ungated(finalizing[r])
        \/ finalizing[r].late /\ ~SummariesFit(finalizing[r].body)

\* A session gives one paper; each further one takes a failure or a lost
\* answer (submissions.ts:316-424).
OnePaperPerSession ==
    \A d \in Documents :
        Cardinality({r \in DOMAIN finalizing : finalizing[r].doc = d /\ finalizing[r].paper})
            <= 1 + intakeFaults

\* "Submitted" is shown for a paper that has its job, and without a failure no
\* paper is left without one (submissions.ts:405-424).
SubmittedHasJob ==
    /\ wizard.done => \E r \in DOMAIN finalizing : finalizing[r].paper /\ finalizing[r].job
    /\ \A r \in DOMAIN finalizing :
        finalizing[r].pc \in {"done", "refused", "gone"} => finalizing[r].paper = finalizing[r].job

\* What a tab submits becomes one paper with a job, whatever is sent twice.
SubmissionsHold == OnePaperPerSession /\ SubmittedHasJob
=============================================================================
