------------------------------- MODULE Harvest ------------------------------
(***************************************************************************)
(* OAI-PMH (routes/oai.ts): a harvester walks the published papers page by   *)
(* page with resumption tokens, while papers are published, edited and       *)
(* withdrawn, and comes back for what has changed since its last walk began. *)
(* Time is in seconds, the granularity of a datestamp; a row is stamped in   *)
(* the second it is committed in.                                            *)
(***************************************************************************)
EXTENDS Naturals, FiniteSets

CONSTANTS
    Records,             \* papers, numbered in the order of created_at
    Drafts,           \* those that wait for their publication at first
    PageSize,         \* PAGE_SIZE
    LastSecond, MaxChanges, MaxHarvestFaults   \* bounds

ASSUME HarvestAssumption ==
    Records \subseteq Nat /\ IsFiniteSet(Records) /\ Drafts \subseteq Records /\ PageSize \in Nat \ {0}
    /\ {LastSecond, MaxChanges, MaxHarvestFaults} \subseteq Nat

VARIABLES
    clock,
    rows,       \* papers: status and updated_at
    walk,       \* the walk under way: its filter, when it began, its offset and its token
    got,        \* the harvester's records: the datestamp of each, 0 without one
    since,      \* when the last complete walk began: the next asks for updates from then on
    shrunk,     \* a paper has left the list during a walk (history)
    unloaded,   \* papers a page left out because they could not be loaded (history)
    changes, harvestFaults   \* counters of the bounds

oaiVars == <<clock, rows, walk, got, since, shrunk, unloaded, changes, harvestFaults>>

\* No walk.
AtRest == [on |-> FALSE, from |-> 0, start |-> 0, offset |-> 0, stored |-> FALSE]

HarvestInit ==
    /\ clock = 1 /\ walk = AtRest /\ got = [p \in Records |-> 0] /\ since = 0
    /\ rows = [p \in Records |-> [status |-> IF p \in Drafts THEN "draft" ELSE "published",
                               updated |-> 1]]
    /\ shrunk = FALSE /\ unloaded = {} /\ changes = 0 /\ harvestFaults = 0

-----------------------------------------------------------------------------
(* papers.list.                                                             *)

MatchesLater(p, from) == rows[p].status = "published" /\ rows[p].updated > from

\* The bound is inclusive and its fraction of a second is zero.
Matches(p, from) == rows[p].status = "published" /\ rows[p].updated >= from

\* published_at descending, which nothing in the program ever sets, and created_at descending.
Newer(p, q) == p > q

\* How many of the list come before p.
Ahead(p, from) == Cardinality({q \in Records : Matches(q, from) /\ Newer(q, p)})

Page(from, offset) ==
    {p \in Records : Matches(p, from) /\ Ahead(p, from) \in offset..(offset + PageSize - 1)}

-----------------------------------------------------------------------------
(* The verbs.                                                               *)

HarvestFault == harvestFaults < MaxHarvestFaults /\ harvestFaults' = harvestFaults + 1
InPage == Page(walk.from, walk.offset)

\* ListRecords without a token.
StartWalk ==
    /\ ~walk.on
    /\ walk' = [on |-> TRUE, from |-> since, start |-> clock, offset |-> 0, stored |-> FALSE]
    /\ UNCHANGED <<clock, rows, got, since, shrunk, unloaded, changes, harvestFaults>>

\* A record is its datestamp, the column the list is filtered by; the rest follows the row.
RecordOf(p) == rows[p].updated

\* A page: its rows are loaded one by one, a row that cannot be loaded is left out, and a
\* short page ends the walk.  The token is a Redis key, or the state itself without Redis.
AnswerPage(loaded, stored) ==
    /\ got' = [p \in Records |-> IF p \in loaded THEN RecordOf(p) ELSE got[p]]
    /\ IF Cardinality(InPage) = PageSize
       THEN /\ walk' = [walk EXCEPT !.offset = @ + PageSize, !.stored = stored]
            /\ UNCHANGED since
       ELSE walk' = AtRest /\ since' = walk.start

ListPage ==
    /\ walk.on /\ \E stored \in BOOLEAN : AnswerPage(InPage, stored)
    /\ UNCHANGED <<clock, rows, shrunk, unloaded, changes, harvestFaults>>

LoadFails(p) ==
    /\ walk.on /\ p \in InPage /\ HarvestFault /\ AnswerPage(InPage \ {p}, TRUE)
    /\ unloaded' = unloaded \cup {p}
    /\ UNCHANGED <<clock, rows, shrunk, changes>>

\* badResumptionToken: the key has expired or Redis has lost it, and the walk begins anew.
TokenGone ==
    /\ walk.on /\ walk.stored /\ HarvestFault /\ walk' = AtRest
    /\ UNCHANGED <<clock, rows, got, since, shrunk, unloaded, changes>>

\* GetRecord looks at no status, only for an id.
GetRecord(p) ==
    /\ rows[p].status # "draft" /\ got[p] # RecordOf(p)
    /\ got' = [got EXCEPT ![p] = RecordOf(p)]
    /\ UNCHANGED <<clock, rows, walk, since, shrunk, unloaded, changes, harvestFaults>>

-----------------------------------------------------------------------------
(* The papers.                                                              *)

Change(p, row) ==
    /\ changes < MaxChanges /\ changes' = changes + 1
    /\ rows' = [rows EXCEPT ![p] = [row EXCEPT !.updated = clock]]
    /\ UNCHANGED <<clock, walk, got, since, unloaded, harvestFaults>>

EditRow(p) == rows[p].status = "published" /\ Change(p, rows[p]) /\ UNCHANGED shrunk

WithdrawRow(p) ==
    /\ rows[p].status = "published" /\ Change(p, [rows[p] EXCEPT !.status = "withdrawn"])
    /\ shrunk' = (shrunk \/ walk.on)

\* A first publication, whenever the paper was created, or one after a rescinded refusal.
PublishRow(p) ==
    /\ rows[p].status # "published"
    /\ Change(p, [rows[p] EXCEPT !.status = "published"])
    /\ UNCHANGED shrunk

NextSecond ==
    /\ clock < LastSecond /\ clock' = clock + 1
    /\ UNCHANGED <<rows, walk, got, since, shrunk, unloaded, changes, harvestFaults>>

HarvestNext ==
    \/ NextSecond \/ StartWalk \/ ListPage \/ TokenGone
    \/ \E p \in Records : LoadFails(p) \/ GetRecord(p) \/ EditRow(p) \/ WithdrawRow(p) \/ PublishRow(p)

HarvestSpec == HarvestInit /\ [][HarvestNext]_oaiVars

-----------------------------------------------------------------------------
(* Properties.                                                              *)

\* Types; no walk begins before the last complete one, no datestamp is of the future.
HarvestTypeOK ==
    /\ rows \in [Records -> [status: {"published", "withdrawn", "draft"}, updated: 0..clock]]
    /\ \A p \in Records : got[p] <= rows[p].updated
    /\ walk.on => walk.from = since /\ since <= walk.start /\ walk.start <= clock

\* "The datestamp MUST be the column we filter on for incremental harvest" (oai.ts): no
\* version of a published paper is lost to a harvester that asks for what has changed since
\* its last walk began.  What it lacks is newer than that, or could not be loaded, also when
\* papers are published and edited during the walks; a paper that leaves the list during a
\* walk moves the rows behind it across the offset, so then a record may be lost.
NothingIsLost ==
    ~shrunk => \A p \in Records : rows[p].status = "published" =>
        got[p] = rows[p].updated \/ rows[p].updated >= since \/ p \in unloaded
=============================================================================
