---------------------------- MODULE TrustPassport ---------------------------
(***************************************************************************)
(* The Trust Passport of one paper (packages/shared/src/trust-passport.ts),  *)
(* from its evidence to the lanes of the abstract page and to the checks of  *)
(* the signed passport (services/trust-passport-bundle.ts), with the routes  *)
(* that add endorsements, disputes, labels and attestations.                 *)
(*                                                                           *)
(* A check has a weight in percent of its lane, a status, a severity and a   *)
(* value in 24ths, which is exact for every coverage of the code (thirds,    *)
(* sixths, eighths, twelfths and up to four authors).  Nothing stores a      *)
(* detector score, so the detector is a pending check or does not apply.     *)
(***************************************************************************)
EXTENDS Naturals, FiniteSets, Sequences

CONSTANTS
    Papers,        \* what an author may submit
    Readers,       \* DIDs that may endorse
    Verbs,         \* what an endorsement says
    Discussed,     \* bound: the lanes that posts are about
    ThreadLimit,   \* posts of a paper that are read
    MaxThread,     \* bound: posts
    MaxReaderActs  \* bound: acts of readers and moderators

Lanes == {"transparency", "identity", "provenance", "citations", "math", "integrity",
          "socialReview"}
NoVerb == "none"

ASSUME PassportAssumption ==
    /\ {ThreadLimit, MaxThread, MaxReaderActs} \subseteq Nat /\ Discussed \subseteq Lanes
    /\ NoVerb \notin Verbs
    /\ \A p \in Papers :
        /\ p.ai \in BOOLEAN /\ p.models \in BOOLEAN /\ p.human \in BOOLEAN
        /\ p.authors \in 1..4 /\ p.identified \in 0..p.authors /\ p.orcids \in 0..p.identified
        /\ p.section \in BOOLEAN /\ p.byCategory \in BOOLEAN
        /\ {p.markers, p.entries, p.resolved, p.formulas, p.cues} \subseteq Nat

VARIABLES
    paper,      \* what is submitted
    progress,   \* the stages that have left a public trace
    endorsed,   \* endorsements: the verb of each reader's row
    thread,     \* posts about the paper, oldest first
    readerActs  \* counter of the bound

passVars == <<paper, progress, endorsed, thread, readerActs>>

Stages == {"metadata", "compiled", "html", "id", "pds", "indexed", "bridged"}

PassportInit ==
    /\ paper \in Papers /\ progress = {} /\ endorsed = [r \in Readers |-> NoVerb]
    /\ thread = <<>> /\ readerActs = 0

-----------------------------------------------------------------------------
(* Checks and lanes.                                                        *)

CheckOf(w, sev, st, v) == [weight |-> w, severity |-> sev, status |-> st, value |-> v]
Coverage(w, sev, v)    == CheckOf(w, sev, IF v = 24 THEN "pass" ELSE "fail", v)
Bool(w, sev, b)        == Coverage(w, sev, IF b THEN 24 ELSE 0)
Pending(w, sev)        == CheckOf(w, sev, "pending", 0)
NotApplicable(w)       == CheckOf(w, "info", "not_applicable", 0)

AtMost(n, m) == IF n <= m THEN n ELSE m

Share(n, full) == (24 * AtMost(n, full)) \div full
Percent(n, of) == IF of = 0 THEN 100 ELSE (200 * n + of) \div (2 * of)   \* Math.round
Weights(checks)  == [i \in DOMAIN checks |-> checks[i].weight]
Credits(checks)  == [i \in DOMAIN checks |-> checks[i].weight * checks[i].value]
WithStatus(checks, statuses) == {i \in DOMAIN checks : checks[i].status \in statuses}

\* Only what has been observed counts.
ApplicableSeen(checks) == WithStatus(checks, {"pass", "fail"})

Applicable(checks) == WithStatus(checks, {"pass", "fail", "pending"})

\* none, watch, needs-work and blocked are 0, 1, 2 and 3.
IssueLevel(high, medium, pending) ==
    IF high THEN 3 ELSE IF medium THEN 2 ELSE IF pending # {} THEN 1 ELSE 0

Total(amounts, s) ==
    LET Part(i) == IF i \in s THEN amounts[i] ELSE 0
    IN  Part(1) + Part(2) + Part(3) + Part(4) + Part(5)

State(observed, hollow, high, score, confidence) ==
    IF observed = {} \/ hollow THEN "pending"
    ELSE IF high /\ score < 55 /\ confidence >= 50 THEN "absent"
    ELSE IF score >= 80 /\ confidence >= 70 /\ ~high THEN "strong"
    ELSE IF score >= 25 \/ confidence < 70 THEN "partial" ELSE "absent"

Verdict(checks, applicable, observed, failed, pending, fails, possible, positive, noEvidence) ==
    LET score      == Percent(positive, 24 * possible)
        confidence == Percent(Total(Weights(checks), observed), possible)
    IN  [score |-> score, confidence |-> confidence,
         state |-> IF applicable = {} THEN "strong"
                   ELSE State(observed, noEvidence /\ positive = 0, "high" \in fails,
                              score, confidence),
         issue   |-> IssueLevel("high" \in fails, "medium" \in fails, pending),
         actions |-> Cardinality(failed \cup pending)]

\* evaluateLane; a lane has at most five checks.
Evaluate(checks, noEvidence) ==
    LET failed == WithStatus(checks, {"fail"})
    IN  Verdict(checks, Applicable(checks), WithStatus(checks, {"pass", "fail"}), failed,
                WithStatus(checks, {"pending"}), {checks[i].severity : i \in failed},
                Total(Weights(checks), Applicable(checks)),
                Total(Credits(checks), WithStatus(checks, {"pass", "fail"})), noEvidence)

-----------------------------------------------------------------------------
(* The inputs of the lanes: computePaperTrust and what it reads.            *)

Done(s)      == s \in progress
HasMetadata  == Done("metadata")
Endorsements == {r \in Readers : endorsed[r] # NoVerb}

\* buildProvenanceTimeline counts nine stages; three come with the upload and the metadata.
\* Its share of 1 is divided by 100 again, which leaves less than a 24th.
Completion == (Cardinality(progress \ {"metadata"}) + (IF HasMetadata THEN 3 ELSE 1)) \div 9
Lifecycle  == (24 * Completion) \div 100

\* loadPublicDisputes and loadExternalAttestations: the oldest posts that are not hidden.
Shown == {i \in DOMAIN thread :
            ~thread[i].hidden /\ Cardinality({j \in 1..i : ~thread[j].hidden}) <= ThreadLimit}
PostsOf(kind, lane) == {i \in Shown : thread[i].kind = kind /\ thread[i].lane \in lane}
Disputes(lane)  == PostsOf("dispute", lane)
Settled(lane)   == {i \in Disputes(lane) : thread[i].label = "resolved"}
Raised(lane)    == {i \in Disputes(lane) : thread[i].label = "highlighted"}
Unsettled(lane) == Disputes(lane) \ Settled(lane)
Vouched(lane)   == {i \in PostsOf("attestation", lane) : thread[i].verified}

\* The abstract page knows the provenance timeline, the signed passport does not.  The text
\* is that of the sections or of the source; formulas are counted in the sections only.
Inputs(onPage) == [
    filled |-> HasMetadata, ai |-> HasMetadata /\ paper.ai, models |-> paper.models,
    human |-> HasMetadata /\ paper.human, orcids |-> IF HasMetadata THEN paper.orcids ELSE 0,
    identified |-> paper.identified, authors |-> IF HasMetadata THEN paper.authors ELSE 0,
    version |-> Done("compiled"), html |-> Done("html"),
    timed |-> onPage, lifecycle |-> Lifecycle,
    text |-> Done("indexed") \/ Done("compiled"),
    section |-> paper.section, markers |-> paper.markers, entries |-> paper.entries,
    resolved |-> paper.resolved, byCategory |-> HasMetadata /\ paper.byCategory,
    formulas |-> IF Done("indexed") THEN paper.formulas ELSE 0,
    cues |-> IF Done("indexed") THEN paper.cues ELSE 0,
    endorsements |-> Cardinality(Endorsements),
    verbs |-> Cardinality({endorsed[r] : r \in Endorsements}),
    disputes |-> Cardinality(Disputes(Lanes)), settled |-> Cardinality(Settled(Lanes))]

-----------------------------------------------------------------------------
(* computeTrustPassport.                                                    *)

TransparencyChecks(in) == <<
    Bool(30, "high", in.filled), Bool(20, "high", in.filled),
    IF in.ai THEN Bool(20, "high", in.models) ELSE NotApplicable(20),
    Bool(15, "high", in.human), Bool(15, "low", in.filled)>>

IdentityChecks(in) == <<
    Bool(25, "high", TRUE), Bool(30, "medium", in.orcids > 0),
    IF in.authors > 0 THEN Coverage(35, "medium", Share(in.identified, in.authors))
                      ELSE Pending(35, "medium"),
    Bool(10, "high", in.authors > 0)>>

\* A timeline that is not finished counts like a missing artifact.
LifecycleHeavy(in) ==
    IF in.timed THEN Coverage(10, "high", in.lifecycle) ELSE Pending(10, "low")

LifecycleCheck(in) ==
    IF in.timed THEN Coverage(10, "low", in.lifecycle) ELSE Pending(10, "low")

ProvenanceChecks(in) == <<
    Bool(30, "high", in.version), Bool(25, "high", in.version), Bool(20, "medium", in.html),
    Bool(15, "medium", in.version), LifecycleCheck(in)>>

\* Without text the counts are null: they are pending, but the section is not found.
CitationChecks(in) ==
    IF in.text
    THEN <<Bool(30, "high", in.section), Coverage(25, "medium", Share(in.markers, 12)),
           Coverage(25, "high", Share(in.entries, 8)),
           Coverage(20, "medium", Share(in.resolved, 6))>>
    ELSE <<Bool(30, "high", FALSE), Pending(25, "medium"), Pending(25, "high"),
           Pending(20, "medium")>>

MathChecks(in) ==
    IF ~in.text THEN <<Pending(100, "medium")>>
    ELSE IF ~(in.byCategory \/ in.formulas >= 4 \/ in.cues >= 2) THEN <<NotApplicable(100)>>
    ELSE <<Bool(20, "info", TRUE), Coverage(30, "medium", Share(in.formulas, 6)),
           Coverage(20, "medium", Share(in.cues, 4)), Bool(15, "medium", in.version),
           Bool(15, "high", in.human)>>

IntegrityChecks(in) == <<
    IF in.ai THEN NotApplicable(35) ELSE Pending(35, "medium"),
    Bool(30, "high", in.version), Bool(20, "medium", in.version), Bool(15, "high", in.human)>>

SocialChecks(in) == <<
    Coverage(35, "low", Share(in.endorsements, 3)), Coverage(35, "medium", Share(in.verbs, 3)),
    IF in.disputes = 0 THEN NotApplicable(30)
                       ELSE Coverage(30, "high", Share(in.settled, in.disputes))>>

LaneChecks(lane, in) ==
    CASE lane = "transparency" -> TransparencyChecks(in)
      [] lane = "identity"     -> IdentityChecks(in)
      [] lane = "provenance"   -> ProvenanceChecks(in)
      [] lane = "citations"    -> CitationChecks(in)
      [] lane = "math"         -> MathChecks(in)
      [] lane = "integrity"    -> IntegrityChecks(in)
      [] lane = "socialReview" -> SocialChecks(in)

Trust(lane, in) ==
    Evaluate(LaneChecks(lane, in),
             lane = "socialReview" /\ in.endorsements = 0 /\ in.disputes = 0)

-----------------------------------------------------------------------------
(* laneToCheck, applyLongitudinalSignals: the signed checks.                *)

StatusFor == [strong |-> "green", partial |-> "yellow", absent |-> "red", pending |-> "pending"]
Worst(m, n) == IF m >= n THEN m ELSE n

Longitudinal(computed, colour, raised, unsettled, vouched) ==
    IF raised THEN [status |-> "red", issue |-> 3, actions |-> computed.actions + 1]
    ELSE IF unsettled
    THEN [status |-> IF colour \in {"green", "pending"} THEN "yellow" ELSE colour,
          issue |-> Worst(computed.issue, 2), actions |-> computed.actions + 1]
    ELSE IF vouched /\ colour = "pending"
    THEN [status |-> "yellow", issue |-> Worst(computed.issue, 1), actions |-> computed.actions]
    ELSE [status |-> colour, issue |-> computed.issue, actions |-> computed.actions]

Signed(lane, computed, colour) ==
    Longitudinal(computed, colour, Raised({lane}) # {}, Unsettled({lane}) # {},
                 Vouched({lane}) # {})

\* The checks of the signed passport.
SignedLane(lane) ==
    LET Sign(computed) == Signed(lane, computed, StatusFor[computed.state])
    IN  Sign(Trust(lane, Inputs(FALSE)))

\* buildTrustPassportJsonLd: one check a lane.
SignedPassport == {SignedLane(lane) : lane \in Lanes}

-----------------------------------------------------------------------------
(* What happens to the paper.                                               *)

\* The stages of the saga, in the order in which they can leave their trace.
Before(s) ==
    CASE s = "metadata" -> {}             [] s = "compiled" -> {"metadata"}
      [] s = "html" -> {"compiled"}       [] s = "id" -> {"compiled", "html"}
      [] s = "pds" -> {"id"}              [] s = "indexed" -> {"pds"}
      [] s = "bridged" -> {"pds"}

Advance(s) ==
    /\ ~Done(s) /\ Before(s) \subseteq progress
    /\ progress' = progress \cup {s} /\ UNCHANGED <<paper, endorsed, thread, readerActs>>

ReaderActs == readerActs < MaxReaderActs /\ readerActs' = readerActs + 1

\* POST endorsements: one row of a DID, whose verb a second request changes.
Endorse(r, v) ==
    /\ HasMetadata /\ endorsed[r] # v /\ ReaderActs
    /\ endorsed' = [endorsed EXCEPT ![r] = v] /\ UNCHANGED <<paper, progress, thread>>

Withdraw(r) ==
    /\ endorsed[r] # NoVerb /\ ReaderActs
    /\ endorsed' = [endorsed EXCEPT ![r] = NoVerb] /\ UNCHANGED <<paper, progress, thread>>

NewPost(kind, lane, verified) ==
    [kind |-> kind, lane |-> lane, label |-> "open", hidden |-> FALSE, verified |-> verified]
AddPost(kind, lane, verified) ==
    /\ Done("pds") /\ Len(thread) < MaxThread /\ ReaderActs
    /\ thread' = Append(thread, NewPost(kind, lane, verified))
    /\ UNCHANGED <<paper, progress, endorsed>>

\* Disputes, the submitter's answers to them, and comments of the seminar thread.
FileDispute(lane) == AddPost("dispute", lane, FALSE)
Respond(i)        == i \in DOMAIN thread /\ thread[i].kind = "dispute"
                     /\ AddPost("response", thread[i].lane, FALSE)

\* An attestation is accepted when its signature holds.  Its post keeps the address of the
\* passport where it gave none, and then the signature does not hold when it is read back.
Attest(lane, withUrl) == AddPost("attestation", lane, withUrl)

\* The label of a dispute, from the passport or from the thread; a hidden post can be labelled.
LabelDispute(i, l) ==
    /\ i \in DOMAIN thread /\ thread[i].kind = "dispute" /\ thread[i].label # l /\ ReaderActs
    /\ thread' = [thread EXCEPT ![i].label = l] /\ UNCHANGED <<paper, progress, endorsed>>

HidePost(i) ==
    /\ i \in DOMAIN thread /\ ReaderActs
    /\ thread' = [thread EXCEPT ![i].hidden = ~@] /\ UNCHANGED <<paper, progress, endorsed>>

PassportNext ==
    \/ \E s \in Stages : Advance(s)
    \/ \E r \in Readers, v \in Verbs : Endorse(r, v)
    \/ \E r \in Readers : Withdraw(r)
    \/ \E lane \in Discussed : FileDispute(lane) \/ \E b \in BOOLEAN : Attest(lane, b)
    \/ \E i \in DOMAIN thread :
        Respond(i) \/ HidePost(i) \/ \E l \in {"open", "highlighted", "resolved"} : LabelDispute(i, l)

PassportSpec == PassportInit /\ [][PassportNext]_passVars

-----------------------------------------------------------------------------
(* Properties.                                                              *)

\* Scores and shares are percentages, and a lane claims no more than what was observed of it.
PassportTypeOK ==
    /\ progress \subseteq Stages /\ endorsed \in [Readers -> Verbs \cup {NoVerb}]
    /\ \A lane \in {Trust(l, Inputs(known)) : l \in Lanes, known \in BOOLEAN} :
        lane.score \in 0..100 /\ lane.confidence \in lane.score..100

\* issueLevel and nextActions explain why a lane is not green (the header of
\* trust-passport.ts): no lane of the signed passport is another colour with no issue and
\* nothing to do about it.
NotGreenIsExplained ==
    \A lane \in SignedPassport :
        lane.status # "green" => lane.issue > 0 /\ lane.actions > 0

\* The page and the signed passport, which is computed without the timeline, agree: a lane
\* nobody disputes or vouches for has the same colour in both.
PageMatchesPassport ==
    \A l \in Lanes : Unsettled({l}) \cup Vouched({l}) = {}
        => SignedLane(l).status = StatusFor[Trust(l, Inputs(TRUE)).state]

Rank == [absent |-> 0, pending |-> 1, partial |-> 2, strong |-> 3]
GoodNews ==
    \/ \E s \in Stages \ {"indexed", "compiled"} : progress' = progress \cup {s} /\ progress' # progress
    \/ \E r \in Readers : endorsed[r] = NoVerb /\ endorsed'[r] # NoVerb
    \/ \E i \in DOMAIN thread : thread' = [thread EXCEPT ![i].label = "resolved"] /\ thread' # thread

\* A finished stage, a first endorsement of a reader and a settled dispute lower no score and
\* no lane.  (Compiling and indexing bring the text, which may show a lane to be weaker.)
GoodNewsNeverHurts == [][GoodNews =>
    \A change \in {<<Trust(l, was), Trust(l, is)>> :
                       l \in Lanes, was \in {Inputs(TRUE)}, is \in {Inputs(TRUE)'}} :
        /\ change[2].score >= change[1].score
        /\ Rank[change[2].state] >= Rank[change[1].state]]_passVars
=============================================================================
