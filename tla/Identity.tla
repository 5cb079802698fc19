------------------------------ MODULE Identity ------------------------------
(***************************************************************************)
(* Who a visitor is: signing in with an ORCID, Google or Bluesky account   *)
(* (services/users.ts, routes/auth.ts) and linking further accounts to a   *)
(* user row (services/account-linking.ts).  The row carries one canonical  *)
(* DID, the DIDs it had before, and one column per provider; every link is *)
(* a row of account_links.                                                 *)
(*                                                                         *)
(* A request is a process, one action per write and the reads it is based  *)
(* on.  The unique indexes of users (did, orcid, google_sub, bluesky_did)  *)
(* and of account_links (provider, subject) are part of the writes.  Names,*)
(* avatars, keys, modes and roles are left out.                            *)
(***************************************************************************)
EXTENDS Naturals, FiniteSets

CONSTANTS Accounts,       \* accounts at the providers
          ProviderOf,     \* "orcid", "google", "bluesky" or "mastodon"
          NoAccount,
          ReservedAccount,\* the one in reserved_dids, for nobody yet; or NoAccount
          OldAccount,     \* the ORCID of a row from before the canonical DIDs
          Visits,         \* requests that run at once
          MaxUsers, MaxVisits, MaxOutages, MaxIdFaults

ASSUME IdentityAssumption ==
    /\ ProviderOf \in [Accounts -> {"orcid", "google", "bluesky", "mastodon"}]
    /\ NoAccount \notin Accounts
    /\ ReservedAccount \in Accounts \cup {NoAccount}
    /\ OldAccount \in Accounts /\ ProviderOf[OldAccount] = "orcid"
    /\ MaxUsers \in Nat \ {0} /\ MaxVisits \in Nat
    /\ MaxOutages \in Nat /\ MaxIdFaults \in Nat

Users == 1..MaxUsers
Nobody == 0               \* a reservation for no user

VARIABLES users,          \* the rows: canonical DID, legacy DIDs, provider columns
          links,          \* account_links
          reserved,       \* whom ReservedAccount is reserved for
          signedIn,       \* users with a session cookie
          visit,          \* the requests in progress
          homes,          \* for each account, the users its sign-ins have led to
          raced,          \* two requests have worked on one user at once
          strayed,        \* a link was refused after the DID had changed, or an
                          \* account signed in to a user it is not linked to
          visits, outages, idFaults

idVars == <<users, links, reserved, signedIn, visit, homes, raced, strayed, visits,
            outages, idFaults>>

---------------------------------------------------------------------------
(* DIDs. *)

Kinds == {"plc", "orcid", "google", "bluesky", "mastodon", "local"}
DIDs == (Kinds \X Accounts) \cup {<<"none", NoAccount>>}
NoDid == <<"none", NoAccount>>

\* canonicalDidForProfile, and the candidate of a link.
CanonicalDid(a) ==
    <<IF ProviderOf[a] = "bluesky" THEN "plc" ELSE ProviderOf[a], a>>

\* The did:web stand-in for a did:plc that does not resolve.
ShadowDid(a) == <<"bluesky", a>>

DidPriority(d) ==
    CASE d[1] = "plc"      -> 100
      [] d[1] = "orcid"    -> 50
      [] d[1] = "google"   -> 25
      [] d[1] = "bluesky"  -> 10
      [] d[1] = "mastodon" -> 5
      [] OTHER             -> 0

NoRow == [did |-> NoDid, legacy |-> {}, own |-> {}]
Exists(u) == users[u] # NoRow

(* Changes of a row.  A column holds one account of its provider.          *)
WithColumns(row, as) ==
    [row EXCEPT !.own =
        {b \in @ : \A a \in as : ProviderOf[b] # ProviderOf[a]} \cup as]

Renamed(row, d, old) == [row EXCEPT !.did = d, !.legacy = @ \cup {old}]

\* Another row has the DID; another row has one of the columns.
DidTaken(d, u) == \E v \in Users \ {u} : users[v].did = d
ColumnTaken(as, d) ==
    \E v \in Users : users[v].did # d /\ users[v].own \cap as # {}

\* The row an upsert by DID lands on: the one that has it, or a new one.
RowFor(d) ==
    IF \E u \in Users : users[u].did = d
        THEN CHOOSE u \in Users : users[u].did = d
        ELSE CHOOSE u \in Users : ~Exists(u)

UpsertByDid(d, as) ==
    /\ \E u \in Users : users[u].did = d \/ ~Exists(u)          \* MaxUsers rows
    /\ users' = [users EXCEPT ![RowFor(d)] = WithColumns([@ EXCEPT !.did = d], as)]

LinksOf(u) == {l \in links : l.user = u}
LinkOf(a) == {l \in links : l.account = a}
Link(u, a, prev, new) == [user |-> u, account |-> a, prev |-> prev, new |-> new]

---------------------------------------------------------------------------
(* Requests. *)

Idle == [kind |-> "none", step |-> "idle", account |-> NoAccount, user |-> Nobody,
         did |-> NoDid, row |-> NoRow]

IdentityInit ==
    /\ users = [u \in Users |->
          IF u = 1 THEN [did |-> <<"local", OldAccount>>, legacy |-> {}, own |-> {OldAccount}]
          ELSE NoRow]
    /\ links = {}
    /\ reserved = Nobody
    /\ signedIn = {}
    /\ visit = [r \in Visits |-> Idle]
    /\ homes = [a \in Accounts |-> {}]
    /\ raced = FALSE /\ strayed = FALSE
    /\ visits = 0 /\ outages = 0 /\ idFaults = 0

Start(r, request) ==
    /\ visit[r].step = "idle" /\ visits < MaxVisits
    /\ visits' = visits + 1
    /\ visit' = [visit EXCEPT ![r] = request]

At(r, kind, step) == visit[r].kind = kind /\ visit[r].step = step
Go(r, step) == visit' = [visit EXCEPT ![r].step = step]

\* A request on the links of u, or to link a, runs already.
Busy(r, u, a) ==
    \E q \in Visits \ {r} :
        visit[q].kind \in {"link", "unlink"} /\ (visit[q].user = u \/ visit[q].account = a)

UNCHANGED_Store == UNCHANGED <<links, reserved, signedIn, homes>>
UNCHANGED_Counts == UNCHANGED <<raced, strayed, visits, outages, idFaults>>

---------------------------------------------------------------------------
(* Signing in: upsertFromOAuth. *)

(* The callback of the provider; resolveCanonicalDid.  A did:plc that does *)
(* not resolve within the resolver's budget gives the stand-in.            *)
SignIn(r, a) ==
    /\ ProviderOf[a] \in {"orcid", "google", "bluesky"}
    /\ \E outage \in BOOLEAN :
          /\ outage => ProviderOf[a] = "bluesky" /\ outages < MaxOutages
          /\ outages' = IF outage THEN outages + 1 ELSE outages
          /\ Start(r, [Idle EXCEPT !.kind = "signin", !.step = "find", !.account = a,
                                   !.did = IF outage THEN ShadowDid(a) ELSE CanonicalDid(a)])
    /\ UNCHANGED_Store /\ UNCHANGED <<users, raced, strayed, idFaults>>

(* findExistingOAuthUser and reconcileOAuthIdentity: a row known by its    *)
(* ORCID or Google column keeps a DID that is at least as good, or takes   *)
(* the canonical one.  A Bluesky account is known by its DID only.         *)
FindExisting(r) ==
    /\ At(r, "signin", "find")
    /\ LET a == visit[r].account
           known == {u \in Users : a \in users[u].own /\ ProviderOf[a] # "bluesky"}
           d == visit[r].did IN
       visit' = [visit EXCEPT ![r] =
          IF \A u \in known : users[u].did = d
              THEN [@ EXCEPT !.step = "upsert"]
          ELSE LET u == CHOOSE u \in known : TRUE IN
               IF d \in users[u].legacy \/ DidPriority(users[u].did) > DidPriority(d)
                   THEN [@ EXCEPT !.step = "upsert", !.did = users[u].did]
                   ELSE [@ EXCEPT !.step = "switch", !.user = u, !.row = users[u]]]
    /\ UNCHANGED_Store /\ UNCHANGED_Counts /\ UNCHANGED users

(* setCanonicalDid of the row found; findByDid before it and the unique    *)
(* index in it give the same refusal.                                      *)
SwitchOnSignIn(r) ==
    /\ At(r, "signin", "switch")
    /\ LET v == visit[r] IN
       /\ IF DidTaken(v.did, v.user)
          THEN Go(r, "refused") /\ UNCHANGED users
          ELSE /\ users' = [users EXCEPT ![v.user] = Renamed(@, v.did, v.row.did)]
               /\ Go(r, "upsert")
       /\ raced' = (raced \/ users[v.user] # v.row)
    /\ UNCHANGED_Store /\ UNCHANGED <<strayed, visits, outages, idFaults>>

\* Mutant: the row is written without its provider column.
UpsertWithoutColumn(r) ==
    /\ At(r, "signin", "upsert")
    /\ UpsertByDid(visit[r].did, {})
    /\ visit' = [visit EXCEPT ![r].step = "keep", ![r].user = RowFor(visit[r].did)]
    /\ UNCHANGED_Store /\ UNCHANGED_Counts

(* upsertByDid.  A violated unique index is an error, except for an ORCID, *)
(* whose row is then read back (recoverOrcidUniqueConflict).               *)
UpsertUser(r) ==
    /\ At(r, "signin", "upsert")
    /\ LET v == visit[r] IN
       IF ColumnTaken({v.account}, v.did)
       THEN /\ UNCHANGED users
            /\ visit' = [visit EXCEPT ![r] =
                 IF ProviderOf[v.account] = "orcid"
                     THEN [@ EXCEPT !.step = "keep",
                           !.user = CHOOSE u \in Users : v.account \in users[u].own]
                     ELSE [@ EXCEPT !.step = "refused"]]
       ELSE /\ UpsertByDid(v.did, {v.account})
            /\ visit' = [visit EXCEPT ![r].step = "keep", ![r].user = RowFor(v.did)]
    /\ UNCHANGED_Store /\ UNCHANGED_Counts

(* ensureAccountLink, and the session.  Its errors are swallowed.          *)
EnsureLink(r) ==
    /\ At(r, "signin", "keep")
    /\ LET v == visit[r] IN
       /\ \/ /\ links' = IF LinkOf(v.account) = {}
                 THEN links \cup {Link(v.user, v.account, NoDid, users[v.user].did)}
                 ELSE links
             /\ UNCHANGED idFaults
          \/ /\ LinkOf(v.account) = {} /\ idFaults < MaxIdFaults
             /\ idFaults' = idFaults + 1
             /\ UNCHANGED links
       /\ signedIn' = signedIn \cup {v.user}
       /\ homes' = [homes EXCEPT ![v.account] = @ \cup {v.user}]
       /\ strayed' = (strayed \/ \E l \in LinkOf(v.account) : l.user # v.user)
    /\ visit' = [visit EXCEPT ![r] = Idle]
    /\ UNCHANGED <<users, reserved, raced, visits, outages>>

---------------------------------------------------------------------------
(* Linking an account to the user of the session: link. *)

(* findByProviderSubject.  An account that is linked already is done with, *)
(* or refused when it is linked to another user.                           *)
BeginLink(r, u, a) ==
    /\ u \in signedIn /\ ProviderOf[a] \in {"orcid", "bluesky", "mastodon"}
    /\ Start(r, [Idle EXCEPT !.kind = "link", !.account = a, !.user = u,
                             !.did = CanonicalDid(a),
                             !.step = IF LinkOf(a) = {} THEN "load" ELSE "answer"])
    /\ raced' = (raced \/ Busy(r, u, a))
    /\ UNCHANGED_Store /\ UNCHANGED <<users, strayed, outages, idFaults>>

(* The reservation, then the row of the user (findById).                   *)
LoadUser(r) ==
    /\ At(r, "link", "load")
    /\ LET v == visit[r] IN
       IF v.account = ReservedAccount /\ reserved \notin {Nobody, v.user}
       THEN Go(r, "answer")
       ELSE visit' = [visit EXCEPT ![r].step = "switch", ![r].row = users[v.user]]
    /\ UNCHANGED_Store /\ UNCHANGED_Counts /\ UNCHANGED users

(* setCanonicalDid when the new DID is better than the one that was read.  *)
(* From here on the DID of the request is the one it believes in.          *)
SwitchDid(r) ==
    /\ At(r, "link", "switch")
    /\ LET v == visit[r] IN
       IF DidPriority(v.did) <= DidPriority(v.row.did)
       THEN /\ visit' = [visit EXCEPT ![r].step = "fold", ![r].did = v.row.did]
            /\ UNCHANGED users
       ELSE IF DidTaken(v.did, v.user)
            THEN Go(r, "refused") /\ UNCHANGED users
            ELSE /\ users' = [users EXCEPT ![v.user] = Renamed(@, v.did, v.row.did)]
                 /\ Go(r, "fold")
    /\ UNCHANGED_Store /\ UNCHANGED_Counts

(* The column of the provider, if the row that was read has none, written  *)
(* by an upsert on the DID: on the row that has that DID by now.           *)
Folded(v) ==
    {a \in {v.account} : /\ ProviderOf[a] # "mastodon"
                         /\ \A b \in v.row.own : ProviderOf[b] # ProviderOf[a]}

\* The request has changed the DID of the user.
Strays(v) == strayed' = (strayed \/ v.did # v.row.did)

FoldData(r) ==
    /\ At(r, "link", "fold")
    /\ LET v == visit[r] IN
       \/ /\ ColumnTaken(Folded(v), v.did)
          /\ Go(r, "refused") /\ UNCHANGED users /\ Strays(v)
       \/ /\ ~ColumnTaken(Folded(v), v.did)
          /\ Folded(v) # {} \/ ProviderOf[v.account] # "orcid"   \* or a new avatar
          /\ UpsertByDid(v.did, Folded(v)) /\ Go(r, "insert") /\ UNCHANGED strayed
       \/ /\ Folded(v) = {}
          /\ Go(r, "insert") /\ UNCHANGED <<users, strayed>>
    /\ UNCHANGED_Store /\ UNCHANGED <<raced, visits, outages, idFaults>>

(* releaseFor of a reserved account, then the row of account_links.        *)
InsertLink(r) ==
    /\ At(r, "link", "insert")
    /\ LET v == visit[r] IN
       /\ reserved' = IF v.account = ReservedAccount THEN v.user ELSE reserved
       /\ IF LinkOf(v.account) # {}
          THEN Go(r, "refused") /\ UNCHANGED links /\ Strays(v)
          ELSE /\ links' = links \cup {Link(v.user, v.account, v.row.did, v.did)}
               /\ Go(r, "answer") /\ UNCHANGED strayed
    /\ UNCHANGED <<signedIn, homes, users, raced, visits, outages, idFaults>>

---------------------------------------------------------------------------
(* Unlinking a provider: unlink. *)

\* Mutant: the last one too.
RemovableLast(u, l) == l.prev = l.new \/ users[u].did # l.new

(* The links of the user and the row; the only link stays, and so does the *)
(* one that gave the canonical DID.                                        *)
Removable(u, l) ==
    /\ Cardinality(LinksOf(u)) > 1
    /\ l.prev = l.new \/ users[u].did # l.new

BeginUnlink(r, u, l) ==
    /\ u \in signedIn /\ l \in LinksOf(u)
    /\ Start(r, [Idle EXCEPT !.kind = "unlink", !.account = l.account, !.user = u,
                             !.step = IF Removable(u, l) THEN "delete" ELSE "answer"])
    /\ raced' = (raced \/ Busy(r, u, l.account))
    /\ UNCHANGED_Store /\ UNCHANGED <<users, strayed, outages, idFaults>>

DeleteLink(r) ==
    /\ At(r, "unlink", "delete")
    /\ links' = links \ LinkOf(visit[r].account)
    /\ Go(r, "answer")
    /\ UNCHANGED <<reserved, signedIn, homes, users>> /\ UNCHANGED_Counts

---------------------------------------------------------------------------
(* A call of the database fails, at any step: the request is given up.     *)
VisitFails(r) ==
    /\ visit[r].step \notin {"idle", "answer", "refused", "keep"}
    /\ idFaults < MaxIdFaults
    /\ idFaults' = idFaults + 1
    /\ visit' = [visit EXCEPT ![r] = Idle]
    /\ UNCHANGED_Store /\ UNCHANGED <<users, raced, strayed, visits, outages>>

\* The request has been answered, with its result or with an error.
VisitEnds(r) ==
    /\ visit[r].step \in {"answer", "refused"}
    /\ visit' = [visit EXCEPT ![r] = Idle]
    /\ UNCHANGED_Store /\ UNCHANGED_Counts /\ UNCHANGED users

SignInStep(r) == FindExisting(r) \/ SwitchOnSignIn(r) \/ UpsertUser(r) \/ EnsureLink(r)
LinkStep(r) == LoadUser(r) \/ SwitchDid(r) \/ FoldData(r) \/ InsertLink(r)

IdentityNext ==
    \E r \in Visits :
        \/ \E a \in Accounts : SignIn(r, a)
        \/ SignInStep(r)
        \/ \E u \in Users, a \in Accounts : BeginLink(r, u, a)
        \/ LinkStep(r)
        \/ \E u \in Users, l \in links : BeginUnlink(r, u, l)
        \/ DeleteLink(r)
        \/ VisitFails(r)
        \/ VisitEnds(r)

IdentitySpec == IdentityInit /\ [][IdentityNext]_idVars

---------------------------------------------------------------------------
(* Properties. *)

Rows == [did : DIDs, legacy : SUBSET DIDs, own : SUBSET Accounts]

OneAccountAProvider(as) == \A a, b \in as : ProviderOf[a] = ProviderOf[b] => a = b

(* The types; a row has one account of a provider at most, and no two rows *)
(* answer to one DID.                                                      *)
IdentityTypeOK ==
    /\ users \in [Users -> Rows]
    /\ \A u \in Users : OneAccountAProvider(users[u].own)
    /\ \A u, v \in Users : Exists(u) /\ users[u].did = users[v].did => u = v
    /\ links \subseteq [user : Users, account : Accounts, prev : DIDs, new : DIDs]
    /\ reserved \in Users \cup {Nobody}
    /\ signedIn \subseteq Users
    /\ visit \in [Visits ->
          [kind : {"none", "signin", "link", "unlink"},
           step : {"idle", "find", "switch", "upsert", "keep", "load", "fold", "insert",
                   "delete", "answer", "refused"},
           account : Accounts \cup {NoAccount}, user : Users \cup {Nobody},
           did : DIDs, row : Rows]]
    /\ homes \in [Accounts -> SUBSET Users]
    /\ raced \in BOOLEAN /\ strayed \in BOOLEAN
    /\ visits \in 0..MaxVisits /\ outages \in 0..MaxOutages /\ idFaults \in 0..MaxIdFaults

SecondAccount(u, a) == \E b \in users[u].own : b # a /\ ProviderOf[b] = ProviderOf[a]

(* An account signs in to the same user ever after, whatever is linked,    *)
(* unlinked or renamed, overlaps, fails or does not resolve in between     *)
(* (users.ts: resolveCanonicalDid, reconcileOAuthIdentity), unless another *)
(* account of its provider has taken its place in the row: a link that     *)
(* works on a row it read earlier may do that.                             *)
HomesKept ==
    \A a \in Accounts : \A u, v \in homes[a] :
        u = v \/ SecondAccount(u, a) \/ SecondAccount(v, a)

(* And a linked account signs in to the user it is linked to: "bind        *)
(* multiple OAuth identities to the same OpenXiv user row"                 *)
(* (account-linking.ts:7).  The exceptions are the program's: a Bluesky    *)
(* account whose DID has failed to resolve; a second account of one        *)
(* provider, which has a link but no column; and requests that overlap on  *)
(* one user and work on rows they read earlier.                            *)
OneHome ==
    outages = 0 /\ ~raced =>
        \A l \in links : \A u \in homes[l.account] :
            u = l.user \/ SecondAccount(l.user, l.account)

Quiet(u) == \A r \in Visits : visit[r].user # u

(* "One DID wins as the primary identifier" (account-linking.ts:22): of    *)
(* the DIDs of the accounts linked to a user the canonical one has the     *)
(* highest priority, when no request is at work on the user; and dropping  *)
(* "the link whose subject is the user's current primary DID [...] would   *)
(* orphan the row" (account-linking.ts:273): the account behind it stays   *)
(* linked, or is held by another user.                                     *)
BestDid ==
    ~raced /\ ~strayed /\ idFaults = 0 =>
        \A u \in Users : Quiet(u) /\ LinksOf(u) # {} =>
            LET a == users[u].did[2] IN
            /\ LinkOf(a) # {} \/ \E v \in Users \ {u} : a \in users[v].own
            /\ outages = 0 => \A l \in LinksOf(u) :
                   DidPriority(users[u].did) >= DidPriority(CanonicalDid(l.account))

(* "Dropping the only provider is rejected" (account-linking.ts:29): a     *)
(* user that has a link keeps one, unless two unlinks overlap.             *)
LinksRemain ==
    [][~raced' => \A u \in Users : LinksOf(u) # {} => LinksOf(u)' # {}]_idVars

(* "Degrade gracefully to a did:web shadow so the user can still sign in"  *)
(* (users.ts:71): no Bluesky sign-in is refused while the database works.  *)
SignInSurvivesOutage ==
    \A r \in Visits :
        At(r, "signin", "refused") => ProviderOf[visit[r].account] # "bluesky"
=============================================================================
