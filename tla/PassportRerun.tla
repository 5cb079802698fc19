---------------------------- MODULE PassportRerun ---------------------------
(***************************************************************************)
(* The signed passport of a published paper over time: how one is built from *)
(* reads that others change between, what its signature and its digest say,  *)
(* and the re-run (POST /papers/:id/passport/verify) that compares a         *)
(* passport a reader has kept with the paper of today.                       *)
(*                                                                           *)
(* The lanes are those whose items are read from the text, citations and     *)
(* math.  A digest and a signature stand for what they are made of: two      *)
(* digests are equal when what they cover is.  A paper has fewer posts than  *)
(* the 200 that a request reads, and the storage of its source answers.      *)
(***************************************************************************)
EXTENDS TrustPassport, Integers

CONSTANTS
    Contents,        \* what the index may hold of the text, with NoText
    SourceContent,   \* what the source archive holds
    InMath, HumanVerified,  \* a math category; the author has checked the paper
    Keyrings,        \* configurations of the service's key
    FirstKeyring,    \* the one the service starts with
    DisputedLanes,   \* bound: the lanes that posts are about
    MaxRerunPosts, MaxRerunActs, MaxPassports, MaxRerunFaults   \* bounds

AuditedLanes == {"citations", "math"}
EventTypes   == {"dispute", "response", "attestation"}
Unset        == "unset"
NoServiceKey == <<>>
TallyFields  == {"section", "markers", "entries", "resolved", "cited", "found",
                 "formulas", "cues", "bodyFormulas", "bodyCues", "snippets", "statements"}

\* The sections of a paper that is not indexed.
NoText == [f \in TallyFields |-> 0]

ASSUME RerunAssumption ==
    /\ {MaxRerunPosts, MaxRerunActs, MaxPassports, MaxRerunFaults} \subseteq Nat
    /\ DisputedLanes \subseteq AuditedLanes
    /\ InMath \in BOOLEAN /\ HumanVerified \in BOOLEAN
    /\ NoText \in Contents
    /\ \A c \in Contents \cup {SourceContent} :
           /\ DOMAIN c = TallyFields /\ c.section \in {0, 1} /\ c.found <= c.cited
           /\ \A f \in TallyFields : c[f] \in Nat
    /\ FirstKeyring \in Keyrings
    /\ \A k \in Keyrings : DOMAIN k = {"base64", "hex", "seed"}

VARIABLES
    postRows,   \* posts about the paper, in the order of their creation
    indexed,    \* what the index holds of its text
    keyring,    \* the key's configuration, which only a restart changes
    building,   \* the passport being built, and what has been read for it
    kept,       \* the passport a reader keeps
    answer,     \* the last answer to a re-run
    built, rerunActs, rerunFaults   \* passports so far, counters of the bounds

rerunVars == <<postRows, indexed, keyring, building, kept, answer, built, rerunActs, rerunFaults>>

NoBuild == [on |-> FALSE, read |-> {}, events |-> {}, cited |-> NoText,
            body |-> NoText, quiet |-> FALSE, contested |-> {}, told |-> FALSE]
NoPassport == [on |-> FALSE, quiet |-> FALSE]
NoAnswer   == [on |-> FALSE]

RerunInit ==
    /\ postRows = <<>> /\ indexed = NoText /\ keyring = FirstKeyring /\ building = NoBuild
    /\ kept = NoPassport /\ answer = NoAnswer /\ built = 0 /\ rerunActs = 0 /\ rerunFaults = 0

-----------------------------------------------------------------------------
(* The text: which sections are the evidence, and what items they make.     *)

CitationRank(c) == <<c.resolved, c.entries, c.section, c.markers>>

\* isCitationEvidenceBetter.
Better(c, d) ==
    \E i \in 1..4 : /\ CitationRank(c)[i] > CitationRank(d)[i]
                    /\ \A j \in 1..(i - 1) : CitationRank(c)[j] = CitationRank(d)[j]

\* loadBestCitationSections: the source archive is only asked when something is lacking.
Best(sections, source) ==
    IF 0 \in {sections.section, sections.markers, sections.entries, sections.resolved}
       /\ Better(source, sections)
    THEN source ELSE sections

Tally(passed, failed) == [pass |-> passed, fail |-> failed, pending |-> 0, not_applicable |-> 0]

\* One item a cited reference, and its DOI, arXiv id or address is found or not.
CitationItems(c) == Tally(c.found, c.cited - c.found)

\* extractMathEvidenceItems: formulas and statements of the sections that are not references,
\* the source archive, which a published paper has, and the author's word.
MathItems(c) ==
    LET shown == AtMost(c.snippets, 8) + AtMost(c.statements, 6)
    IN  IF c = NoText \/ ~(InMath \/ c.bodyFormulas >= 4 \/ c.bodyCues >= 2) THEN Tally(0, 0)
        ELSE Tally(shown + 1 + (IF HumanVerified THEN 1 ELSE 0),
                   (IF shown = 0 THEN 1 ELSE 0) + (IF HumanVerified THEN 0 ELSE 1))

TextItems(lane, found) == IF lane = "citations" THEN CitationItems(found.cited)
                                                ELSE MathItems(found.body)

\* The checks of the lane itself, from sections and evidence that are read again.
TextChecks(lane, sections, best) ==
    IF lane = "citations"
    THEN CitationChecks([text |-> TRUE, section |-> best.section = 1, markers |-> best.markers,
                         entries |-> best.entries, resolved |-> best.resolved])
    ELSE MathChecks([text |-> TRUE, byCategory |-> InMath, formulas |-> sections.formulas,
                     cues |-> sections.cues, version |-> TRUE, human |-> HumanVerified])

-----------------------------------------------------------------------------
(* The passport.                                                            *)

EventsOf(events, kind, lane) == {e \in events : e.kind = kind /\ e.lane = lane}
OpenOf(events, lane) == {e \in EventsOf(events, "dispute", lane) : e.label # "resolved"}
HighlightedOf(events, lane) == {e \in OpenOf(events, lane) : e.label = "highlighted"}
VouchedOf(events, lane) == {e \in EventsOf(events, "attestation", lane) : e.verified}

\* overrideItems: the items of the text, or the checks where it has none.
ItemTally(lane, checks, found) ==
    IF TextItems(lane, found) # Tally(0, 0) THEN TextItems(lane, found)
    ELSE [st \in DOMAIN Tally(0, 0) |-> Cardinality(WithStatus(checks, {st}))]

HistoryState(unresolved, responses, vouched) ==
    IF unresolved /\ vouched THEN "contested_and_attested"
    ELSE IF unresolved /\ responses THEN "answered_contestation"
    ELSE IF unresolved THEN "contested"
    ELSE IF vouched THEN "externally_attested" ELSE "computed"

LatestAt(events) ==
    IF events = {} THEN 0
    ELSE CHOOSE t \in {e.at : e \in events} : \A e \in events : e.at <= t

\* summarizeLane; topAction is something to do or nothing.
Summary(lane, items, actions, events) == [
    items |-> items,
    disputes |-> Cardinality(EventsOf(events, "dispute", lane)),
    unresolved |-> Cardinality(OpenOf(events, lane)),
    highlighted |-> Cardinality(HighlightedOf(events, lane)),
    responses |-> Cardinality(EventsOf(events, "response", lane)),
    attestations |-> Cardinality(EventsOf(events, "attestation", lane)),
    verified |-> Cardinality(VouchedOf(events, lane)),
    state |-> HistoryState(OpenOf(events, lane) # {}, EventsOf(events, "response", lane) # {},
                           VouchedOf(events, lane) # {}),
    last |-> LatestAt({e \in events : e.lane = lane}),
    topAction |-> OpenOf(events, lane) # {} \/ items.fail + items.pending > 0 \/ actions > 0]

\* laneToCheck; the items are told with the text they are of.
LaneOf(lane, checks, computed, found) == [
    items |-> IF lane = "citations" THEN found.cited ELSE found.body,
    signed |-> Longitudinal(computed, StatusFor[computed.state],
                            HighlightedOf(found.events, lane) # {}, OpenOf(found.events, lane) # {},
                            VouchedOf(found.events, lane) # {}),
    summary |-> Summary(lane, ItemTally(lane, checks, found), computed.actions, found.events)]

\* By time, and at one time by the names of the kinds and the ids.
KindRank == [response |-> 1, attestation |-> 2, dispute |-> 3]
Earlier(d, e) ==
    \/ d.at < e.at
    \/ d.at = e.at /\ KindRank[d.kind] < KindRank[e.kind]
    \/ d.at = e.at /\ d.kind = e.kind /\ d.id < e.id
History(events) ==
    CHOOSE h \in [1..Cardinality(events) -> events] :
        \A i, j \in DOMAIN h : i < j => Earlier(h[i], h[j])

\* passportSemanticDigest: all that the passport says of the paper, and not when.
Digest(lanes, events) == <<lanes, events, History(events)>>

\* loadServiceSigningKey: the first that is configured, all of them valid; the secret of the
\* sessions is the last resort.
ServiceKey(k) ==
    IF k.base64 # Unset THEN <<"given", k.base64>>
    ELSE IF k.hex # Unset THEN <<"given", k.hex>>
    ELSE IF k.seed # Unset THEN <<"derived", k.seed>> ELSE NoServiceKey

\* signTrustPassportBundle: the signature covers the digest and the rest.
Passport(lanes, events) == [
    on |-> TRUE, lanes |-> lanes, events |-> events, history |-> History(events),
    digest |-> Digest(lanes, events), key |-> ServiceKey(keyring), sealed |-> TRUE,
    quiet |-> building.quiet, contested |-> building.contested, told |-> building.told]

\* verifyTrustPassportBundle.
SignatureHolds(passport, key) == passport.sealed /\ passport.key = key

\* What a re-run compares of a lane: not the items, not what is to do.
Compared(lane) == <<lane.signed.status, lane.signed.issue, lane.summary>>

\* comparePassportBundle.
CompareBundle(base, current) == [
    on |-> TRUE, mode |-> "bundle", valid |-> SignatureHolds(base, ServiceKey(keyring)),
    changed |-> base.digest # current.digest,
    lanes |-> {l \in AuditedLanes : Compared(base.lanes[l]) # Compared(current.lanes[l])},
    historyDelta |-> Len(current.history) - Len(base.history),
    disputeDelta |-> Cardinality({e \in current.events : e.kind = "dispute"})
                     - Cardinality({e \in base.events : e.kind = "dispute"}),
    attestationDelta |-> Cardinality({e \in current.events : e.kind = "attestation"})
                         - Cardinality({e \in base.events : e.kind = "attestation"}),
    quiet |-> base.quiet /\ current.quiet]

\* comparePassportRerun of a reader who has noted the digest only: no lanes, no numbers.
CompareDigest(base, current) ==
    [CompareBundle(base, current) EXCEPT !.mode = "digest", !.lanes = {}, !.historyDelta = 0,
                                         !.disputeDelta = 0, !.attestationDelta = 0]

-----------------------------------------------------------------------------
(* Building one: the posts are read three times, the text twice.            *)

\* Bounds: what happens after the last passport is in none.
RerunAct == built < MaxPassports /\ rerunActs < MaxRerunActs /\ rerunActs' = rerunActs + 1
RerunFault(ok) ==
    /\ ok \/ rerunFaults < MaxRerunFaults
    /\ rerunFaults' = rerunFaults + (IF ok THEN 0 ELSE 1)

InView(all, kind) == {all[i] : i \in {j \in DOMAIN all : ~all[j].hidden /\ all[j].kind = kind}}
Contested(all) == {e \in InView(all, "dispute") : e.label # "resolved"}

\* buildSignedPassportForPaper, the same for one who fetches and one who verifies.
StartBuild ==
    /\ ~building.on /\ built < MaxPassports
    /\ building' = [NoBuild EXCEPT !.on = TRUE, !.quiet = TRUE, !.told = TRUE,
                                   !.contested = {e.id : e \in Contested(postRows)}]
    /\ UNCHANGED <<postRows, indexed, keyring, kept, answer, built, rerunActs, rerunFaults>>

\* loadPublicDisputes, loadPublicDisputeResponses, loadExternalAttestations; a query that
\* fails has found nothing.
ReadPosts(kind, ok) ==
    /\ building.on /\ kind \notin building.read /\ RerunFault(ok)
    /\ building' = [building EXCEPT
           !.read = @ \cup {kind}, !.events = @ \cup (IF ok THEN InView(postRows, kind) ELSE {}),
           !.quiet = @ /\ ok, !.told = @ /\ (ok \/ kind # "dispute")]
    /\ UNCHANGED <<postRows, indexed, keyring, kept, answer, built, rerunActs>>

\* A query that fails has found no section.
SectionsRead(ok) == IF ok THEN indexed ELSE NoText
Evidence(ok)     == Best(SectionsRead(ok), SourceContent)

\* loadCitationEvidenceItems and loadMathEvidenceItems.
ReadItems(ok) ==
    /\ building.on /\ "items" \notin building.read /\ RerunFault(ok)
    /\ building' = [building EXCEPT
           !.read = @ \cup {"items"}, !.quiet = @ /\ ok,
           !.body = SectionsRead(ok), !.cited = Evidence(ok)]
    /\ UNCHANGED <<postRows, indexed, keyring, kept, answer, built, rerunActs>>

LanesFrom(sections, best, found) == [lane \in AuditedLanes |->
    LaneOf(lane, TextChecks(lane, sections, best),
           Evaluate(TextChecks(lane, sections, best), FALSE), found)]

\* GET passport; POST verify with a passport or a digest.
Fetched(passport) == kept' = passport /\ UNCHANGED answer
Verified(passport) ==
    /\ kept.on /\ UNCHANGED kept
    /\ answer' \in {CompareBundle(kept, passport), CompareDigest(kept, passport)}

\* computePaperTrust reads the text again; without a key nothing is signed.
Sign(ok) ==
    /\ building.on /\ building.read = EventTypes \cup {"items"} /\ RerunFault(ok)
    /\ IF ServiceKey(keyring) = NoServiceKey THEN UNCHANGED <<kept, answer, built>>
       ELSE \E passport \in {[Passport(LanesFrom(SectionsRead(ok), Evidence(ok), building),
                                      building.events) EXCEPT !.quiet = @ /\ ok]} :
                built' = built + 1 /\ (Fetched(passport) \/ Verified(passport))
    /\ building' = NoBuild /\ UNCHANGED <<postRows, indexed, keyring, rerunActs>>

-----------------------------------------------------------------------------
(* What changes meanwhile.                                                  *)

\* What is being built, and what is kept, is not of a paper at rest any more.
Touch(all) ==
    /\ RerunAct
    /\ building' = [building EXCEPT !.quiet = FALSE,
                                    !.contested = @ \cap {e.id : e \in Contested(all)}]
    /\ kept' = [kept EXCEPT !.quiet = FALSE] /\ UNCHANGED <<keyring, answer, built, rerunFaults>>

ChangePosts(all) == postRows' = all /\ Touch(all) /\ UNCHANGED indexed

AddEvent(kind, lane, at, verified) ==
    /\ Len(postRows) < MaxRerunPosts
    /\ ChangePosts(Append(postRows,
           [id |-> Len(postRows) + 1, kind |-> kind, lane |-> lane, at |-> at, to |-> 0,
            label |-> "open", verified |-> verified, hidden |-> FALSE]))

RaiseDispute(lane) == AddEvent("dispute", lane, Len(postRows) + 1, FALSE)

\* An answer is in the lane of its dispute.
AnswerDispute(i) ==
    /\ i \in DOMAIN postRows /\ postRows[i].kind = "dispute" /\ Len(postRows) < MaxRerunPosts
    /\ ChangePosts(Append(postRows,
           [postRows[i] EXCEPT !.id = Len(postRows) + 1, !.kind = "response", !.to = i,
                               !.at = Len(postRows) + 1, !.label = "open", !.hidden = FALSE]))

\* The issuer signs the date, which may be any.
Attested(lane, at, verified) == AddEvent("attestation", lane, at, verified)

RelabelDispute(i, label) ==
    /\ i \in DOMAIN postRows /\ postRows[i].kind = "dispute" /\ postRows[i].label # label
    /\ ChangePosts([postRows EXCEPT ![i].label = label])

TogglePost(i) == i \in DOMAIN postRows /\ ChangePosts([postRows EXCEPT ![i].hidden = ~@])

Reindex(c) == c # indexed /\ indexed' = c /\ Touch(postRows) /\ UNCHANGED postRows

\* The service starts again with another key, and forgets what it was building.
Rekey(k) ==
    /\ k # keyring /\ keyring' = k /\ building' = NoBuild
    /\ RerunAct /\ UNCHANGED <<postRows, indexed, kept, answer, built, rerunFaults>>

\* The reader's copy loses what others have said, between two requests.
SpoilCopy ==
    /\ kept.on /\ kept.sealed /\ ~building.on /\ built < MaxPassports /\ RerunFault(FALSE)
    /\ kept' = [kept EXCEPT !.sealed = FALSE, !.quiet = FALSE, !.events = {}, !.history = <<>>]
    /\ UNCHANGED <<postRows, indexed, keyring, building, answer, built, rerunActs>>

RerunNext ==
    \/ StartBuild
    \/ \E ok \in BOOLEAN : ReadItems(ok) \/ Sign(ok) \/ \E kind \in EventTypes : ReadPosts(kind, ok)
    \/ \E lane \in DisputedLanes :
        \/ RaiseDispute(lane)
        \/ \E at \in {1, Len(postRows) + 1}, b \in BOOLEAN : Attested(lane, at, b)
    \/ \E i \in DOMAIN postRows :
        \/ AnswerDispute(i) \/ TogglePost(i)
        \/ \E l \in {"open", "highlighted", "resolved"} : RelabelDispute(i, l)
    \/ \E c \in Contents : Reindex(c)
    \/ \E k \in Keyrings : Rekey(k)
    \/ SpoilCopy

RerunSpec == RerunInit /\ [][RerunNext]_rerunVars

-----------------------------------------------------------------------------
(* Properties.                                                              *)

\* Posts are numbered as they come; an answer is to an older dispute.
RerunTypeOK ==
    /\ \A i \in DOMAIN postRows : postRows[i].id = i /\ postRows[i].kind \in EventTypes
           /\ (postRows[i].kind = "response" => postRows[i].to \in 1..(i - 1))
    /\ indexed \in Contents /\ keyring \in Keyrings
    /\ building.read \subseteq EventTypes \cup {"items"}
    /\ kept.on => DOMAIN kept.lanes = AuditedLanes

\* A re-run of a paper that nothing has happened to matches the passport that was kept, also
\* when the service has another key by now (papers.ts:160).
UntouchedMatches ==
    answer.on /\ answer.quiet => ~answer.changed /\ answer.lanes = {}
        /\ {answer.historyDelta, answer.disputeDelta, answer.attestationDelta} = {0}

\* A re-run that reports no change of a passport whose signature holds reports no changed
\* lane and no other number of disputes, answers and attestations.
UnchangedIsSame ==
    answer.on /\ answer.valid /\ ~answer.changed => answer.lanes = {}
        /\ {answer.historyDelta, answer.disputeDelta, answer.attestationDelta} = {0}

\* A dispute that nobody settled or hid while the passport was built is told in it, unless
\* the query for disputes has failed: its lane is not green, and the reader learns what
\* there is to do.
DisputesAreTold ==
    kept.on /\ kept.told /\ kept.sealed => \A d \in kept.contested :
        \E e \in kept.events :
            /\ e.id = d
            /\ e.lane \in AuditedLanes => LET lane == kept.lanes[e.lane] IN
                 /\ lane.signed.status \in {"yellow", "red"} /\ lane.signed.issue >= 2
                 /\ lane.summary.topAction /\ lane.summary.unresolved > 0

\* The history tells each event once and in the order of time; an answer comes after its
\* dispute, whenever the two were read; the last activity of a lane is its last event.
HistoryInOrder ==
    kept.on => LET h == kept.history IN
        /\ {h[i] : i \in DOMAIN h} = kept.events /\ Len(h) = Cardinality(kept.events)
        /\ \A i, j \in DOMAIN h : i < j => h[i].at <= h[j].at /\ h[i].to # h[j].id
        /\ \A i \in DOMAIN h : h[i].at <= kept.lanes[h[i].lane].summary.last

RerunHolds == UntouchedMatches /\ UnchangedIsSame /\ DisputesAreTold /\ HistoryInOrder
=============================================================================
