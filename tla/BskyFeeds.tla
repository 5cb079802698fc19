------------------------------ MODULE BskyFeeds ------------------------------
(***************************************************************************)
(* The custom feeds OpenXiv hosts on Bluesky (feed-skeleton.ts, the SQL of   *)
(* bsky-feeds.ts, the routes, and the feed generator, a process of its own   *)
(* that asks the API).  The App View walks a feed page by page, while papers *)
(* are announced and withdrawn; a cursor is an offset.                       *)
(***************************************************************************)
EXTENDS Integers, Sequences, FiniteSets

CONSTANTS
    FeedPapers,       \* papers a feed may show
    FeedNames,        \* the feeds that are walked, of FEED_NAMES
    Traits,           \* what each paper has: the feeds it belongs to by its own content
    Announced,        \* when each was announced, 0 for the papers that are yet to be
    FeedLimit,        \* posts of a page
    MaxFeedOffset,    \* MAX_FEED_OFFSET
    MaxFeedEvents,    \* bound: announcements and withdrawals
    MaxWalks,         \* bound: walks
    MaxFeedFaults     \* bound: failed or slow calls

ASSUME FeedAssumption ==
    /\ IsFiniteSet(FeedPapers)
    /\ Traits \in [FeedPapers -> SUBSET {"questions", "disclosed", "beginner", "claims"}]
    /\ FeedNames \subseteq {"latest", "featured", "questions", "disclosed", "beginner", "claims"}
    /\ Announced \in [FeedPapers -> 0..Cardinality(FeedPapers)]
    /\ \A p, q \in FeedPapers : Announced[p] = Announced[q] /\ p # q => Announced[p] = 0
    /\ {FeedLimit, MaxFeedOffset} \subseteq Nat \ {0}
    /\ {MaxFeedEvents, MaxWalks, MaxFeedFaults} \subseteq Nat

VARIABLES
    listed,       \* papers that are published
    post,         \* the versions of each paper: whether it was posted, and when
    pages,        \* pages the App View or a proxy holds for a minute, by feed and offset
    scroll,       \* the walk under way
    seen,         \* the posts the walk has shown, in order
    settled,      \* entries of the feed ever since the oldest page in use was made (history)
    left, grown,  \* an entry has left, or come into, the feed since then (history)
    mixed,        \* the walk was shown a held page after an entry came in (history)
    feedEvents, walks, feedFaults   \* counters of the bounds

feedRows    == <<listed, post>>
feedHistory == <<settled, left, grown>>
feedBounds  == <<feedEvents, walks, feedFaults>>
feedVars    == <<feedRows, pages, scroll, seen, mixed, feedHistory, feedBounds>>

NoScroll == [feed |-> "none", offset |-> 0, end |-> "none"]
Unposted == [status |-> "pending", at |-> 0]

-----------------------------------------------------------------------------
(* bsky-feeds.ts *)

PostedVersions(p) == {v \in 1..2 : post[p][v].status = "posted"}

InFeed(feed, p) == feed = "latest" \/ feed \in Traits[p]

\* The query of the featured papers names a column that featured_items does not have.
QueryFails(feed) == feed = "featured"

\* The latest version that was posted, of each published paper.
Entries(feed) ==
    {e \in FeedPapers \X (1..2) :
        e[1] \in listed /\ InFeed(feed, e[1]) /\ e[2] \in PostedVersions(e[1])
        /\ \A w \in PostedVersions(e[1]) : w <= e[2]}

Later(e, f) == post[e[1]][e[2]].at > post[f[1]][f[2]].at

\* How many rows of the feed come before an entry.
RowsBefore(feed, e) == Cardinality({f \in Entries(feed) : Later(f, e)})

FeedRows(feed, limit, offset) ==
    LET number == Cardinality(Entries(feed)) - offset
    IN  [i \in 1..(IF limit < number THEN limit ELSE number) |->
            CHOOSE e \in Entries(feed) : RowsBefore(feed, e) = offset + i - 1]

\* One row more than asked for tells whether there is a next page; the last offset has none.
Skeleton(feed, offset) ==
    LET rows == FeedRows(feed, FeedLimit + 1, offset)
        more == Len(rows) > FeedLimit /\ offset + FeedLimit < MaxFeedOffset
    IN  [feed |-> SubSeq(rows, 1, IF Len(rows) > FeedLimit THEN FeedLimit ELSE Len(rows)),
         next |-> IF more THEN offset + FeedLimit ELSE 0,
         cut  |-> Len(rows) > FeedLimit /\ ~more]

-----------------------------------------------------------------------------

FeedInit ==
    /\ listed = FeedPapers
    /\ post = [p \in FeedPapers |->
           <<IF Announced[p] = 0 THEN Unposted ELSE [status |-> "posted", at |-> Announced[p]],
             Unposted>>]
    /\ pages = {}
    /\ scroll = NoScroll /\ seen = <<>>
    /\ settled = {} /\ left = FALSE /\ grown = FALSE /\ mixed = FALSE
    /\ feedEvents = 0 /\ walks = 0 /\ feedFaults = 0

FeedFault ==
    /\ feedFaults < MaxFeedFaults
    /\ feedFaults' = feedFaults + 1

\* What an event does to the entries of the feed that is being walked.
Observe ==
    IF scroll.feed = "none" THEN UNCHANGED feedHistory
    ELSE /\ settled' = settled \cap Entries(scroll.feed)'
         /\ left' = (left \/ ~(Entries(scroll.feed) \subseteq Entries(scroll.feed)'))
         /\ grown' = (grown \/ ~(Entries(scroll.feed)' \subseteq Entries(scroll.feed)))

FeedEvent ==
    /\ feedEvents < MaxFeedEvents
    /\ feedEvents' = feedEvents + 1
    /\ UNCHANGED <<pages, scroll, seen, mixed, walks, feedFaults>>
    /\ Observe

\* The bridge announces a version, or a second try of an announced one fails.
Announce(p, v) ==
    /\ post[p][v].status = "pending" /\ (v = 2 => post[p][1].status # "pending")
    /\ post' = [post EXCEPT ![p][v] =
           [status |-> "posted", at |-> Cardinality(FeedPapers) + feedEvents + 1]]
    /\ UNCHANGED listed
    /\ FeedEvent

AnnounceFails(p, v) ==
    /\ post[p][v].status = "posted"
    /\ post' = [post EXCEPT ![p][v].status = "failed"]
    /\ UNCHANGED listed
    /\ FeedEvent

\* A refusal, or its rescission.
ChangeListing(p) ==
    /\ listed' = IF p \in listed THEN listed \ {p} ELSE listed \cup {p}
    /\ UNCHANGED post
    /\ FeedEvent

-----------------------------------------------------------------------------
(* The App View *)

\* A walk of a feed; what is settled is counted from here, or from the oldest page held.
StartScroll(feed) ==
    /\ scroll.end # "no"
    /\ walks < MaxWalks
    /\ walks' = walks + 1
    /\ scroll' = [feed |-> feed, offset |-> 0, end |-> "no"]
    /\ seen' = <<>> /\ mixed' = FALSE
    /\ \/ /\ pages # {} /\ scroll.feed = feed
          /\ UNCHANGED <<pages, feedHistory>>
       \/ /\ pages = {} \/ scroll.feed # feed
          /\ pages' = {}
          /\ settled' = Entries(feed) /\ left' = FALSE /\ grown' = FALSE
    /\ UNCHANGED <<feedRows, feedEvents, feedFaults>>

\* A page without a cursor is the end.
ShowPage(page) ==
    /\ seen' = seen \o page.feed
    /\ scroll' = [scroll EXCEPT
           !.offset = IF page.next = 0 THEN @ ELSE page.next,
           !.end = IF page.next # 0 THEN "no" ELSE IF page.cut THEN "cut" ELSE "end"]

\* A fresh page, which may be held for a minute.
AskPage ==
    /\ scroll.end = "no" /\ ~QueryFails(scroll.feed)
    /\ LET page == Skeleton(scroll.feed, scroll.offset) IN
           /\ ShowPage(page)
           /\ pages' \in {pages, {q \in pages : q.at # scroll.offset} \cup
                                 {[at |-> scroll.offset, page |-> page]}}
    /\ UNCHANGED <<feedRows, mixed, feedHistory, feedBounds>>

HeldPage(q) ==
    /\ scroll.end = "no" /\ q \in pages /\ q.at = scroll.offset
    /\ ShowPage(q.page)
    /\ mixed' = (mixed \/ grown)
    /\ UNCHANGED <<feedRows, pages, feedHistory, feedBounds>>

\* The API is slow or down, or fails: the generator answers an empty page, which nobody may hold.
AskFails ==
    /\ scroll.end = "no"
    /\ IF QueryFails(scroll.feed) THEN UNCHANGED feedFaults ELSE FeedFault
    /\ scroll' = [scroll EXCEPT !.end = "failed"]
    /\ UNCHANGED <<feedRows, pages, seen, mixed, feedHistory, feedEvents, walks>>

PageExpires(q) ==
    /\ q \in pages
    /\ pages' = pages \ {q}
    /\ UNCHANGED <<feedRows, scroll, seen, mixed, feedHistory, feedBounds>>

FeedsNext ==
    \/ AskPage \/ AskFails
    \/ \E feed \in FeedNames : StartScroll(feed)
    \/ \E q \in pages : HeldPage(q) \/ PageExpires(q)
    \/ \E p \in FeedPapers :
        \/ ChangeListing(p)
        \/ \E v \in 1..2 : Announce(p, v) \/ AnnounceFails(p, v)

FeedsSpec == FeedInit /\ [][FeedsNext]_feedVars

-----------------------------------------------------------------------------
(* Properties *)

\* Every variable has its type.
FeedTypeOK ==
    /\ listed \subseteq FeedPapers
    /\ \A p \in FeedPapers, v \in 1..2 : post[p][v] \in
           [status: {"pending", "posted", "failed"},
            at: 0..Cardinality(FeedPapers) + MaxFeedEvents]
    /\ scroll.end \in {"none", "no", "end", "cut", "failed"}
    /\ settled \subseteq FeedPapers \X (1..2) /\ {left, grown, mixed} \subseteq BOOLEAN
    /\ feedEvents \in 0..MaxFeedEvents /\ walks \in 0..MaxWalks
    /\ feedFaults \in 0..MaxFeedFaults

\* A walk that comes to the end shows every entry that was in the feed throughout, unless
\* another left meanwhile and moved the offsets, or pages held from before one came in were
\* mixed with fresh ones, and shows none twice unless one came in; "throughout" goes back
\* to the oldest page held (feed-skeleton.ts:11).
WalksAreComplete ==
    /\ scroll.end = "end" /\ ~left /\ ~mixed => settled \subseteq {seen[i] : i \in DOMAIN seen}
    /\ ~grown /\ ~left => \A i, j \in DOMAIN seen : seen[i] = seen[j] => i = j

\* A paper never stands in a page with two of its versions (bsky-feeds.ts:13), and is shown
\* twice only by a walk during which it was announced again.
OneVersionEach ==
    /\ \A q \in pages : \A i, j \in DOMAIN q.page.feed :
           q.page.feed[i][1] = q.page.feed[j][1] => i = j
    /\ \A i, j \in DOMAIN seen : seen[i][1] = seen[j][1] /\ seen[i] # seen[j] => grown
=============================================================================
