----------------------------- MODULE ProfileSync -----------------------------
(***************************************************************************)
(* The profile a user has at Bluesky, copied into their row: by a loop over  *)
(* the stalest rows (bluesky-profile-sync-loop.ts) and whenever a stale      *)
(* profile is looked at (bluesky-profile-sync.ts).  A refresh starts from    *)
(* the row of its caller, waits for Bluesky, and writes the row back; after  *)
(* five seconds the caller goes on and the refresh does too.                 *)
(***************************************************************************)
EXTENDS Naturals, Sequences, FiniteSets

CONSTANTS
    Members,          \* users who have linked Bluesky
    Refreshes,        \* refreshes that may be under way
    Handles,          \* handles, here and at Bluesky
    FirstHandle,      \* the handle each member begins with here
    FirstAtBluesky,   \* and at Bluesky
    SyncLimit,        \* candidates of one batch
    MaxAge,           \* BLUESKY_PROFILE_SYNC_MAX_AGE_MS, in ticks
    LastSyncTick,     \* bound: the last tick
    MaxProfileEdits,  \* bound: changes of profiles at Bluesky
    MaxClaims,        \* bound: handles claimed here
    MaxSyncs,         \* bound: refreshes begun
    MaxSyncFaults     \* bound: failed calls

ASSUME SyncAssumption ==
    /\ {FirstHandle, FirstAtBluesky} \subseteq [Members -> Handles]
    /\ \A m, n \in Members, first \in {FirstHandle, FirstAtBluesky} :
           first[m] = first[n] => m = n
    /\ {SyncLimit, MaxAge} \subseteq Nat \ {0}
    /\ {LastSyncTick, MaxProfileEdits, MaxClaims, MaxSyncs, MaxSyncFaults} \subseteq Nat

VARIABLES
    atBluesky,    \* the profile of each member at Bluesky: an edition and a handle
    member,       \* the row of each member: edition, handle, and updatedAt
    refreshes,    \* the refreshes under way
    batch,        \* the rows the loop has yet to visit
    syncTick,     \* the clock
    chosen,       \* the handle a member last chose here (history)
    reported,     \* the handles a member has had at Bluesky (history)
    entangled,    \* members two of whose refreshes were under way together (history)
    claimedLate,  \* members who chose a handle while their row was held (history)
    newest,       \* the newest edition a row has shown (history)
    profileEdits, claims, syncs, syncFaults   \* counters of the bounds

syncHistory == <<chosen, reported, entangled, claimedLate, newest>>
syncBounds  == <<profileEdits, claims, syncs, syncFaults>>
syncVars    == <<atBluesky, member, refreshes, batch, syncTick, syncHistory, syncBounds>>

NoRefresh == [pc |-> "idle"]
InFlight(m) == {r \in Refreshes : refreshes[r] # NoRefresh /\ refreshes[r].who = m}
AheadOfLoop == {batch[i].who : i \in DOMAIN batch}
Batched     == {r \in Refreshes : refreshes[r] # NoRefresh /\ refreshes[r].caller = "loop"}

\* Of five minutes or more; the loop asks for more than five, the same to within a tick.
Stale(row) == syncTick - row.at >= MaxAge

SyncInit ==
    /\ atBluesky = [m \in Members |-> [edition |-> 0, handle |-> FirstAtBluesky[m]]]
    /\ member = [m \in Members |-> [edition |-> 0, handle |-> FirstHandle[m], at |-> 0]]
    /\ refreshes = [r \in Refreshes |-> NoRefresh]
    /\ batch = <<>>
    /\ syncTick = 0
    /\ chosen = FirstHandle
    /\ reported = [m \in Members |-> {FirstAtBluesky[m]}]
    /\ entangled = {} /\ claimedLate = {}
    /\ newest = [m \in Members |-> 0]
    /\ profileEdits = 0 /\ claims = 0 /\ syncs = 0 /\ syncFaults = 0

SyncFault ==
    /\ syncFaults < MaxSyncFaults
    /\ syncFaults' = syncFaults + 1

SyncTickOn ==
    /\ syncTick < LastSyncTick
    /\ syncTick' = syncTick + 1
    /\ UNCHANGED <<atBluesky, member, refreshes, batch, syncHistory, syncBounds>>

\* A member edits the profile at Bluesky, where a handle has one owner.
EditProfile(m, h) ==
    /\ profileEdits < MaxProfileEdits
    /\ profileEdits' = profileEdits + 1
    /\ \A n \in Members \ {m} : atBluesky[n].handle # h
    /\ atBluesky' = [atBluesky EXCEPT ![m] = [edition |-> @.edition + 1, handle |-> h]]
    /\ reported' = [reported EXCEPT ![m] = @ \cup {h}]
    /\ UNCHANGED <<member, refreshes, batch, syncTick, chosen, entangled, claimedLate, newest,
                   claims, syncs, syncFaults>>

\* A member takes a free handle here.
ClaimHere(m, h) ==
    /\ claims < MaxClaims
    /\ claims' = claims + 1
    /\ \A n \in Members : member[n].handle # h
    /\ member' = [member EXCEPT ![m].handle = h, ![m].at = syncTick]
    /\ chosen' = [chosen EXCEPT ![m] = h]
    /\ claimedLate' = claimedLate \cup
           {n \in {m} : InFlight(n) # {} \/ n \in AheadOfLoop}
    /\ UNCHANGED <<atBluesky, refreshes, batch, syncTick, reported, entangled, newest,
                   profileEdits, syncs, syncFaults>>

-----------------------------------------------------------------------------
(* Who begins a refresh. *)

StartRefresh(r, m, row, caller) ==
    /\ refreshes[r] = NoRefresh
    /\ syncs < MaxSyncs
    /\ syncs' = syncs + 1
    /\ refreshes' = [refreshes EXCEPT ![r] =
           [pc |-> "asks", who |-> m, row |-> row, answer |-> atBluesky[m],
            handle |-> row.handle, caller |-> caller]]
    /\ entangled' = IF InFlight(m) = {} THEN entangled ELSE entangled \cup {m}

\* The loop, unless its last batch is still under way, takes the rows not written for
\* MaxAge, the oldest first.
Oldest(rows) ==
    \A i, j \in DOMAIN rows : i < j => rows[i].row.at <= rows[j].row.at

SyncCandidates(rows) ==
    LET stale == {m \in Members : Stale(member[m])} IN
    /\ Len(rows) = IF Cardinality(stale) < SyncLimit THEN Cardinality(stale) ELSE SyncLimit
    /\ {rows[i].who : i \in DOMAIN rows} \subseteq stale
    /\ \A i, j \in DOMAIN rows : rows[i].who = rows[j].who => i = j
    /\ Oldest(rows)
    /\ \A m \in stale \ {rows[i].who : i \in DOMAIN rows}, i \in DOMAIN rows :
           rows[i].row.at <= member[m].at

StartBatch ==
    /\ batch = <<>> /\ Batched = {}
    /\ syncs < MaxSyncs
    /\ \E n \in 1..SyncLimit : \E who \in [1..n -> Members] :
           LET rows == [i \in 1..n |-> [who |-> who[i], row |-> member[who[i]]]] IN
           SyncCandidates(rows) /\ batch' = rows
    /\ UNCHANGED <<atBluesky, member, refreshes, syncTick, syncHistory, syncBounds>>

\* One row after the other, as read at the start: a member without a session is passed
\* over, and an error of the session store ends the batch.
VisitRow(r) ==
    /\ batch # <<>> /\ Batched = {}
    /\ \/ /\ StartRefresh(r, Head(batch).who, Head(batch).row, "loop")
          /\ batch' = Tail(batch)
          /\ UNCHANGED syncFaults
       \/ /\ SyncFault
          /\ batch' \in {Tail(batch), <<>>}
          /\ UNCHANGED <<refreshes, entangled, syncs>>
    /\ UNCHANGED <<atBluesky, member, syncTick, chosen, reported, claimedLate, newest,
                   profileEdits, claims>>

\* A profile, or one's own account, is looked at.
ViewProfile(r, m) ==
    /\ Stale(member[m])
    /\ StartRefresh(r, m, member[m], "view")
    /\ UNCHANGED <<atBluesky, member, batch, syncTick, chosen, reported, claimedLate, newest,
                   profileEdits, claims, syncFaults>>

-----------------------------------------------------------------------------
(* A refresh *)

EndRefresh(r) == refreshes' = [refreshes EXCEPT ![r] = NoRefresh]

\* Bluesky reads the profile and its answer is on the way.
BlueskyAnswers(r) ==
    /\ refreshes[r].pc = "asks"
    /\ refreshes' = [refreshes EXCEPT ![r].pc = "hears",
                                      ![r].answer = atBluesky[refreshes[r].who]]
    /\ UNCHANGED <<atBluesky, member, batch, syncTick, syncHistory, syncBounds>>

\* No session, no answer, an open circuit: the row stays as it is.
RefreshFails(r) ==
    /\ refreshes[r].pc \in {"asks", "hears"}
    /\ SyncFault
    /\ EndRefresh(r)
    /\ UNCHANGED <<atBluesky, member, batch, syncTick, syncHistory, profileEdits, claims, syncs>>

\* Bluesky's handle, unless another member has it here; then the handle of the row read.
PickHandle(r) ==
    LET mine == refreshes[r] IN
    /\ mine.pc = "hears"
    /\ refreshes' = [refreshes EXCEPT ![r].pc = "writes", ![r].handle =
           IF \E n \in Members \ {mine.who} : member[n].handle = mine.answer.handle
           THEN mine.row.handle ELSE mine.answer.handle]
    /\ UNCHANGED <<atBluesky, member, batch, syncTick, syncHistory, syncBounds>>

\* The row as read, with what Bluesky told, is written; a handle taken meanwhile breaks the
\* unique index, and nothing is.
WriteProfile(r) ==
    LET mine == refreshes[r] IN
    /\ mine.pc = "writes"
    /\ EndRefresh(r)
    /\ \/ /\ \E n \in Members \ {mine.who} : member[n].handle = mine.handle
          /\ UNCHANGED <<member, newest>>
       \/ /\ \A n \in Members \ {mine.who} : member[n].handle # mine.handle
          /\ member' = [member EXCEPT ![mine.who] =
                 [edition |-> mine.answer.edition, handle |-> mine.handle, at |-> syncTick]]
          /\ newest' = [newest EXCEPT ![mine.who] =
                 IF mine.answer.edition > @ THEN mine.answer.edition ELSE @]
    /\ UNCHANGED <<atBluesky, batch, syncTick, chosen, reported, entangled, claimedLate, syncBounds>>

\* After five seconds the caller goes on with the row it had.
CallerLeaves(r) ==
    /\ refreshes[r].pc \in {"asks", "hears", "writes"}
    /\ refreshes[r].caller = "loop"
    /\ refreshes' = [refreshes EXCEPT ![r].caller = "nobody"]
    /\ UNCHANGED <<atBluesky, member, batch, syncTick, syncHistory, syncBounds>>

SyncNext ==
    \/ SyncTickOn \/ StartBatch
    \/ \E m \in Members, h \in Handles : EditProfile(m, h) \/ ClaimHere(m, h)
    \/ \E r \in Refreshes :
        \/ VisitRow(r) \/ BlueskyAnswers(r) \/ RefreshFails(r)
        \/ PickHandle(r) \/ WriteProfile(r) \/ CallerLeaves(r)
        \/ \E m \in Members : ViewProfile(r, m)

SyncSpec == SyncInit /\ [][SyncNext]_syncVars

-----------------------------------------------------------------------------
(* Properties *)

MemberRows == [edition: 0..MaxProfileEdits, handle: Handles, at: 0..LastSyncTick]
Profiles == [edition: 0..MaxProfileEdits, handle: Handles]

\* Every variable has its type.
SyncTypeOK ==
    /\ atBluesky \in [Members -> Profiles]
    /\ member \in [Members -> MemberRows]
    /\ \A r \in Refreshes : refreshes[r] # NoRefresh => refreshes[r] \in
           [pc: {"asks", "hears", "writes"}, who: Members, row: MemberRows, answer: Profiles,
            handle: Handles, caller: {"loop", "view", "nobody"}]
    /\ \A i \in DOMAIN batch : batch[i] \in [who: Members, row: MemberRows]
    /\ syncTick \in 0..LastSyncTick
    /\ chosen \in [Members -> Handles] /\ reported \in [Members -> SUBSET Handles]
    /\ entangled \subseteq Members /\ claimedLate \subseteq Members
    /\ newest \in [Members -> 0..MaxProfileEdits]
    /\ profileEdits \in 0..MaxProfileEdits /\ claims \in 0..MaxClaims
    /\ syncs \in 0..MaxSyncs /\ syncFaults \in 0..MaxSyncFaults

\* A row goes back to an older profile only after two refreshes of its member were under
\* way together, for which a refresh whose caller has left is enough.
ProfilesGoForward ==
    \A m \in Members : member[m].edition < newest[m] => m \in entangled

\* The handle of a row is one its member chose last, or had at Bluesky; an older choice
\* comes back only when the choice was made during a refresh or after the loop had read
\* the row.
ChoicesComeBackLate ==
    \A m \in Members : member[m].handle \notin reported[m] \cup {chosen[m]} => m \in claimedLate
=============================================================================
