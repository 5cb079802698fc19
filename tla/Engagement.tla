----------------------------- MODULE Engagement -----------------------------
(***************************************************************************)
(* What is counted about a paper: the events a browser sends once its reader *)
(* has agreed (CookieBanner, Base.astro, routes/events.ts), endorsements     *)
(* (routes/endorsements.ts), and the two places that show the sums: the      *)
(* badge (services/engagement-stats.ts), from a view that a worker           *)
(* refreshes or from the events, and the dashboard (routes/analytics.ts).    *)
(* Windows, caches and stamps run out at any time.                           *)
(***************************************************************************)
EXTENDS Naturals, FiniteSets

CONSTANTS
    Tabs,             \* tabs of one browser: they share its session id and cookies
    Endorsers,        \* readers who may endorse: none is an author of the paper
    Badges,           \* computations of the badge
    EventKinds,       \* kinds of events, of those in ViewEvents and others
    EndorseVerbs,     \* verbs of an endorsement
    MaxEngagements,   \* bound: events sent, endorsements, badges and dashboards asked for
    MaxChoices,       \* bound: answers to the banner, revocations, and links of accounts
    MaxEngagementFaults  \* bound: failed calls of Redis, Postgres, Crossref

ViewEvents == {"paper_view", "feed_impression", "card_expand"}

ASSUME EngagementAssumption ==
    /\ EventKinds \subseteq ViewEvents \cup {"html_open", "pdf_download"}
    /\ {MaxEngagements, MaxChoices, MaxEngagementFaults} \subseteq Nat

VARIABLES
    signal,      \* the browser sends DNT or Sec-GPC
    consent,     \* its cookie: "none", "granted" or "refused"
    tabs,        \* the request each tab has on its way
    events,      \* feed_events of the paper, how many of each kind
    inMinute,    \* those of the last sixty seconds
    rollup,      \* papers_views_hourly: how many of each kind it was made from
    stamped,     \* the stamp of the last refresh is there and is not too old
    endorsedAs,  \* endorsements of the paper: the verb under a reader's first, second DID
    plc,         \* readers with a Bluesky DID of their own: their second
    dropping,    \* readers whose request has still to drop the badge
    badges,      \* what each computation has read
    badge,       \* the cached badge
    crossref,    \* the cached answer of Crossref: "none", "null" or "count"
    refreshing,  \* the worker has made the view, and its stamp is still to be set
    overlapped,  \* kinds of which two requests were checked before one was stored (history)
    madeLate,    \* the badge was made before a change and stored after it, or a change
                 \* could not drop it (history)
    switched,    \* readers whose second DID came when they had endorsed (history)
    unheard,     \* Crossref has failed (history)
    engagements, choices, engagementFaults  \* counters of the bounds

browserVars     == <<signal, consent, tabs>>
countVars       == <<events, inMinute, rollup, stamped, refreshing>>
endorseVars     == <<endorsedAs, plc, dropping>>
badgeVars       == <<badges, badge, crossref>>
engagePast      == <<overlapped, madeLate, switched, unheard>>
engageBounds    == <<engagements, choices, engagementFaults>>
engageVars      == <<browserVars, countVars, endorseVars, badgeVars, engagePast,
                     engageBounds>>

NoEvent     == [pc |-> "idle", kind |-> "none"]
NoBadge     == [pc |-> "none", endorsements |-> 0, views |-> 0, citations |-> "null"]
NotEndorsed == "none"
Dids        == {"first", "second"}
NoCounts    == [k \in EventKinds |-> 0]

Views(counts, kinds) ==
    LET n(k) == IF k \in EventKinds THEN counts[k] ELSE 0
    IN  n("paper_view")
        + (IF kinds = ViewEvents THEN n("feed_impression") + n("card_expand") ELSE 0)

EndorsementRows == {r \in Endorsers \X Dids : endorsedAs[r] # NotEndorsed}

EngagementInit ==
    /\ signal \in BOOLEAN /\ consent = "none" /\ tabs = [t \in Tabs |-> NoEvent]
    /\ events = NoCounts /\ inMinute = NoCounts /\ rollup = NoCounts /\ stamped = FALSE
    /\ refreshing = FALSE
    /\ endorsedAs = [r \in Endorsers \X Dids |-> NotEndorsed] /\ plc = {} /\ dropping = {}
    /\ badges = [b \in Badges |-> NoBadge] /\ badge = NoBadge /\ crossref = "none"
    /\ overlapped = {} /\ madeLate = FALSE /\ switched = {} /\ unheard = FALSE
    /\ engagements = 0 /\ choices = 0 /\ engagementFaults = 0

Engage ==
    /\ engagements < MaxEngagements
    /\ engagements' = engagements + 1
    /\ UNCHANGED <<choices, engagementFaults>>

Choose ==
    /\ choices < MaxChoices
    /\ choices' = choices + 1
    /\ UNCHANGED <<engagements, engagementFaults>>

EngagementFault ==
    /\ engagementFaults < MaxEngagementFaults
    /\ engagementFaults' = engagementFaults + 1
    /\ UNCHANGED <<engagements, choices>>

-----------------------------------------------------------------------------
(* The browser. *)

\* A page is opened with a signal set: the refusal is written and no banner shown.
SignalRefuses ==
    /\ signal /\ consent = "none"
    /\ consent' = "refused"
    /\ UNCHANGED <<signal, tabs, countVars, endorseVars, badgeVars, engagePast, engageBounds>>

\* The banner, which shows without a cookie only, or its dialog.
Decide(analytics) ==
    /\ ~signal /\ consent = "none"
    /\ Choose
    /\ consent' = IF analytics THEN "granted" ELSE "refused"
    /\ UNCHANGED <<signal, tabs, countVars, endorseVars, badgeVars, engagePast>>

\* The link of the privacy page.
Revoke ==
    /\ consent # "refused"
    /\ Choose
    /\ consent' = "refused"
    /\ UNCHANGED <<signal, tabs, countVars, endorseVars, badgeVars, engagePast>>

\* openxivTrack: the request takes the cookies along, and the API reads them again.
Track(t, kind) ==
    /\ tabs[t].pc = "idle"
    /\ ~signal /\ consent = "granted"
    /\ Engage
    /\ tabs' = [tabs EXCEPT ![t] = [pc |-> "probe", kind |-> kind]]
    /\ UNCHANGED <<signal, consent, countVars, endorseVars, badgeVars, engagePast>>

-----------------------------------------------------------------------------
(* POST /events/track. *)

\* existsInBucket: the request ends here when the last minute has one of its kind.
Probe(t) ==
    /\ tabs[t].pc = "probe"
    /\ LET kind == tabs[t].kind
           on   == inMinute[kind] = 0
       IN  /\ tabs' = [tabs EXCEPT ![t] = IF on THEN [@ EXCEPT !.pc = "insert"] ELSE NoEvent]
           /\ overlapped' = overlapped \cup
                  {k \in {kind} : on /\ \E u \in Tabs : tabs[u] = [pc |-> "insert", kind |-> k]}
    /\ UNCHANGED <<signal, consent, countVars, endorseVars, badgeVars, madeLate, switched, unheard,
                   engageBounds>>

InsertEvent(t) ==
    /\ tabs[t].pc = "insert"
    /\ events' = [events EXCEPT ![tabs[t].kind] = @ + 1]
    /\ inMinute' = [inMinute EXCEPT ![tabs[t].kind] = @ + 1]
    /\ tabs' = [tabs EXCEPT ![t] = NoEvent]
    /\ UNCHANGED <<signal, consent, rollup, stamped, refreshing, endorseVars, badgeVars,
                   engagePast, engageBounds>>

\* A query fails: nobody sends the event again.
TrackFails(t) ==
    /\ tabs[t].pc # "idle"
    /\ EngagementFault
    /\ tabs' = [tabs EXCEPT ![t] = NoEvent]
    /\ UNCHANGED <<signal, consent, countVars, endorseVars, badgeVars, engagePast>>

EventAges(kind) ==
    /\ inMinute[kind] > 0
    /\ inMinute' = [inMinute EXCEPT ![kind] = @ - 1]
    /\ UNCHANGED <<browserVars, events, rollup, stamped, refreshing, endorseVars, badgeVars,
                   engagePast, engageBounds>>

-----------------------------------------------------------------------------
(* The worker: the view is refreshed, and the time of that noted afterwards. *)

Refresh ==
    /\ ~refreshing
    /\ rollup # events \/ ~stamped
    /\ rollup' = events /\ refreshing' = TRUE
    /\ UNCHANGED <<browserVars, events, inMinute, stamped, endorseVars, badgeVars, engagePast,
                   engageBounds>>

Stamp ==
    /\ refreshing
    /\ refreshing' = FALSE
    /\ \/ stamped' = TRUE /\ UNCHANGED engageBounds
       \/ EngagementFault /\ UNCHANGED stamped
    /\ UNCHANGED <<browserVars, events, inMinute, rollup, endorseVars, badgeVars, engagePast>>

\* Five minutes after the refresh, or the key is gone.
StampAges ==
    /\ stamped
    /\ stamped' = FALSE
    /\ UNCHANGED <<browserVars, events, inMinute, rollup, refreshing, endorseVars, badgeVars,
                   engagePast, engageBounds>>

-----------------------------------------------------------------------------
(* Endorsements. *)

\* The account of a reader is linked to Bluesky.
LinkBluesky(u) ==
    /\ u \notin plc
    /\ Choose
    /\ plc' = plc \cup {u}
    /\ switched' = IF endorsedAs[<<u, "first">>] # NotEndorsed THEN switched \cup {u} ELSE switched
    /\ UNCHANGED <<browserVars, countVars, endorsedAs, dropping, badgeVars, overlapped, madeLate,
                   unheard>>

\* POST: the row under the Bluesky DID where there is one, a new verb for an old row.  The
\* record in the reader's repository, which nothing here reads, is left out.
PostEndorsement(u, verb) ==
    /\ u \notin dropping
    /\ Engage
    /\ LET did == IF u \in plc THEN "second" ELSE "first"
       IN  endorsedAs' = [endorsedAs EXCEPT ![<<u, did>>] = verb]
    /\ dropping' = dropping \cup {u}
    /\ UNCHANGED <<browserVars, countVars, plc, badgeVars, engagePast>>

\* Mutant: the badge stays when an endorsement is taken back.
RetractSilently(u, did) ==
    /\ u \notin dropping
    /\ did = "second" => u \in plc
    /\ Engage
    /\ endorsedAs' = [endorsedAs EXCEPT ![<<u, did>>] = NotEndorsed]
    /\ UNCHANGED <<browserVars, countVars, plc, dropping, badgeVars, engagePast>>

\* DELETE: the row under the DID of the session, which is either of the two.
Retract(u, did) ==
    /\ u \notin dropping
    /\ did = "second" => u \in plc
    /\ Engage
    /\ endorsedAs' = [endorsedAs EXCEPT ![<<u, did>>] = NotEndorsed]
    /\ dropping' = dropping \cup {u}
    /\ UNCHANGED <<browserVars, countVars, plc, badgeVars, engagePast>>

\* invalidateEngagementCache, of a request that has changed the table.
DropBadge(u) ==
    /\ u \in dropping
    /\ dropping' = dropping \ {u}
    /\ \/ badge' = NoBadge /\ madeLate' = FALSE /\ UNCHANGED engageBounds
       \/ EngagementFault /\ madeLate' = TRUE /\ UNCHANGED badge     \* swallowed
    /\ UNCHANGED <<browserVars, countVars, endorsedAs, plc, badges, crossref, overlapped, switched,
                   unheard>>

-----------------------------------------------------------------------------
(* getEngagement, on a miss: three reads at once, then the cache. *)

AskBadge(b) ==
    /\ badge = NoBadge
    /\ badges[b].pc = "none"
    /\ Engage
    /\ badges' = [badges EXCEPT ![b].pc = "endorsements"]
    /\ UNCHANGED <<browserVars, countVars, endorseVars, badge, crossref, engagePast>>

LoadEndorsements(b) ==
    /\ badges[b].pc = "endorsements"
    /\ badges' = [badges EXCEPT ![b].pc = "reads", ![b].endorsements = Cardinality(EndorsementRows)]
    /\ UNCHANGED <<browserVars, countVars, endorseVars, badge, crossref, engagePast,
                   engageBounds>>

\* The view's own sum of the events it counts as views.
RollupViews(counts) == Views(counts, ViewEvents)

\* From the view when it is fresh; from the events when it is not, or cannot be read.
LoadReads(b) ==
    /\ badges[b].pc = "reads"
    /\ \/ /\ stamped
          /\ badges' = [badges EXCEPT ![b].pc = "citations", ![b].views = RollupViews(rollup)]
          /\ UNCHANGED engageBounds
       \/ /\ ~stamped
          /\ badges' = [badges EXCEPT ![b].pc = "citations",
                                      ![b].views = Views(events, {"paper_view"})]
          /\ UNCHANGED engageBounds
       \/ /\ stamped /\ EngagementFault
          /\ badges' = [badges EXCEPT ![b].pc = "citations",
                                      ![b].views = Views(events, {"paper_view"})]
    /\ UNCHANGED <<browserVars, countVars, endorseVars, badge, crossref, engagePast>>

\* Crossref's count; null for any failure, and null is cached like a count.
LoadCitations(b) ==
    /\ badges[b].pc = "citations"
    /\ \/ crossref # "none" /\ UNCHANGED <<crossref, unheard, engageBounds>>
       \/ crossref = "none" /\ crossref' = "count" /\ UNCHANGED <<unheard, engageBounds>>
       \/ crossref = "none" /\ EngagementFault /\ crossref' = "null" /\ unheard' = TRUE
    /\ badges' = [badges EXCEPT ![b].pc = "store", ![b].citations = crossref']
    /\ UNCHANGED <<browserVars, countVars, endorseVars, badge, overlapped, madeLate, switched>>

StoreBadge(b) ==
    /\ badges[b].pc = "store"
    /\ \/ badge' = [badges[b] EXCEPT !.pc = "cached"] /\ UNCHANGED engageBounds
       \/ EngagementFault /\ UNCHANGED badge                     \* swallowed
    /\ madeLate' = (\/ madeLate
                    \/ badge' # badge /\ badges[b].endorsements # Cardinality(EndorsementRows))
    /\ badges' = [badges EXCEPT ![b] = NoBadge]
    /\ UNCHANGED <<browserVars, countVars, endorseVars, crossref, overlapped, switched, unheard>>

BadgeExpires ==
    /\ badge # NoBadge
    /\ badge' = NoBadge
    /\ madeLate' = FALSE
    /\ UNCHANGED <<browserVars, countVars, endorseVars, badges, crossref, overlapped, switched,
                   unheard, engageBounds>>

CrossrefExpires ==
    /\ crossref # "none"
    /\ crossref' = "none"
    /\ UNCHANGED <<browserVars, countVars, endorseVars, badges, badge, engagePast, engageBounds>>

\* computeAnalytics, on a miss of its own cache, which nothing drops.
DashboardViews == Views(events, ViewEvents)

EngagementNext ==
    \/ SignalRefuses \/ Revoke \/ Refresh \/ Stamp \/ StampAges \/ BadgeExpires \/ CrossrefExpires
    \/ \E analytics \in BOOLEAN : Decide(analytics)
    \/ \E t \in Tabs : Probe(t) \/ InsertEvent(t) \/ TrackFails(t)
    \/ \E kind \in EventKinds : EventAges(kind) \/ \E t \in Tabs : Track(t, kind)
    \/ \E u \in Endorsers :
        \/ LinkBluesky(u) \/ DropBadge(u)
        \/ \E verb \in EndorseVerbs : PostEndorsement(u, verb)
        \/ \E did \in Dids : Retract(u, did)
    \/ \E b \in Badges :
        \/ AskBadge(b) \/ LoadEndorsements(b) \/ LoadReads(b) \/ LoadCitations(b) \/ StoreBadge(b)

EngagementSpec == EngagementInit /\ [][EngagementNext]_engageVars

-----------------------------------------------------------------------------
(* Properties *)

\* Every variable has its type.
EngagementTypeOK ==
    /\ signal \in BOOLEAN /\ consent \in {"none", "granted", "refused"}
    /\ tabs \in [Tabs -> [pc: {"idle", "probe", "insert"}, kind: EventKinds \cup {"none"}]]
    /\ {events, inMinute, rollup} \subseteq [EventKinds -> 0..MaxEngagements]
    /\ {stamped, refreshing, madeLate, unheard} \subseteq BOOLEAN
    /\ endorsedAs \in [Endorsers \X Dids -> EndorseVerbs \cup {NotEndorsed}]
    /\ plc \cup dropping \cup switched \subseteq Endorsers
    /\ {badge} \cup {badges[b] : b \in Badges} \subseteq
           [pc: {"none", "endorsements", "reads", "citations", "store", "cached"},
            endorsements: Nat, views: Nat, citations: {"null", "count"}]
    /\ crossref \in {"none", "null", "count"} /\ overlapped \subseteq EventKinds
    /\ engagements \in 0..MaxEngagements /\ choices \in 0..MaxChoices
    /\ engagementFaults \in 0..MaxEngagementFaults

\* A minute holds one event of a kind of one session (events.ts:24-28), unless two of
\* its requests were checked before either was stored.
CountedOnce == \A k \in EventKinds : inMinute[k] <= 1 \/ k \in overlapped

\* When no request has still to drop it, the cached badge shows the endorsements of the
\* table, unless it was made before a change and stored after it, or Redis failed.
BadgeIsCurrent ==
    badge # NoBadge /\ dropping = {} /\ ~madeLate =>
        badge.endorsements = Cardinality(EndorsementRows)

\* A reader endorses a paper once (endorsements.ts:102), unless the Bluesky account
\* came in between.
OneEndorsement ==
    \A u \in Endorsers :
        (\A did \in Dids : endorsedAs[<<u, did>>] # NotEndorsed) => u \in switched

\* The badge, from the view or from the events, never shows more views than the
\* dashboard, and shows no citations only when Crossref failed.
BadgeIsModest ==
    badge # NoBadge =>
        /\ badge.views <= DashboardViews
        /\ badge.citations = "null" => unheard
=============================================================================
