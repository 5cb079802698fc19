------------------------------ MODULE Sessions ------------------------------
(***************************************************************************)
(* Signing in and linking from a browser (routes/auth.ts,                  *)
(* routes/auth-mastodon.ts, auth/session.ts, the OAuth clients), and what  *)
(* the session is then taken for (routes/me-submissions.ts, versions.ts,   *)
(* papers.ts).                                                             *)
(*                                                                         *)
(* A session is a cookie that nothing on the server knows of: the user and *)
(* the DID the user had when it was signed.  A trip to a provider begins   *)
(* in one request and ends in another, with whatever session the browser   *)
(* has by then.  Identity has the interleavings inside a request and the   *)
(* reserved DIDs; here a request is one step.  The DID of an account is    *)
(* the account.                                                            *)
(***************************************************************************)
EXTENDS Naturals, FiniteSets

CONSTANTS
    Browsers,
    OAuthAccounts,   \* accounts at the providers
    AtProvider,      \* the provider of an account
    OwnPapers,       \* papers that may be submitted
    Nil,
    MaxPersons,      \* bound: rows of users
    MaxTrips         \* bound: trips to a provider

OAuthProviders == {"orcid", "google", "bluesky", "mastodon"}

Persons == 1..MaxPersons

ASSUME SessionsAssumption ==
    /\ AtProvider \in [OAuthAccounts -> OAuthProviders]
    /\ Nil \notin Persons \cup OAuthAccounts
    /\ MaxPersons \in Nat /\ MaxTrips \in Nat

VARIABLES
    persons,        \* users: canonical DID, legacy DIDs, provider columns
    bindings,       \* account_links: the user, and the DID the link has led to
    cookies,        \* the session of each browser
    trips,          \* authorizations begun and not ended
    submitter,      \* who has submitted a paper, and under which DID
    actors,         \* users that have acted as the author of a paper
    wantsMastodon,  \* users that have asked to link a Mastodon account
    halfway,        \* a link has failed after the DID of the user had changed
    tripCount       \* counter of the bound

sessVars == <<persons, bindings, cookies, trips, submitter, actors, wantsMastodon, halfway,
              tripCount>>

Vacant    == [did |-> Nil, legacy |-> {}, columns |-> {}]
NoBinding == [person |-> Nil, gave |-> Nil]
NoCookie  == [person |-> Nil, did |-> Nil]
Nothing   == [person |-> Nil, did |-> Nil]

SessionsInit ==
    /\ persons = [u \in Persons |-> Vacant]
    /\ bindings = [a \in OAuthAccounts |-> NoBinding]
    /\ cookies = [b \in Browsers |-> NoCookie]
    /\ trips = {}
    /\ submitter = [p \in OwnPapers |-> Nothing]
    /\ actors = [p \in OwnPapers |-> {}]
    /\ wantsMastodon = {} /\ halfway = FALSE /\ tripCount = 0

---------------------------------------------------------------------------
(* Rows.  A Bluesky DID beats an ORCID, that a Google, that a Mastodon one. *)

RankOf(d) == CASE AtProvider[d] = "bluesky" -> 100 [] AtProvider[d] = "orcid" -> 50
               [] AtProvider[d] = "google" -> 25   [] AtProvider[d] = "mastodon" -> 5

HasDid(d)        == {u \in Persons : persons[u].did = d}
WithColumn(a)    == {u \in Persons : a \in persons[u].columns}
ColumnSet(row, a) == [row EXCEPT !.columns =
                         {c \in @ : AtProvider[c] # AtProvider[a]} \cup {a}]
Promoted(row, d) == IF row.did = d THEN row
                    ELSE [row EXCEPT !.did = d, !.legacy = @ \cup {row.did}]
NewRow           == {u \in Persons : /\ persons[u] = Vacant
                                     /\ \A v \in 1..(u - 1) : persons[v] # Vacant}
Has(row, p)      == \E c \in row.columns : AtProvider[c] = p

\* signSession: the claims are those of the row now.
Claims(u) == [person |-> u, did |-> persons'[u].did]

---------------------------------------------------------------------------
(* What a callback does with the account it has got.                       *)

(* upsertFromOAuth: the row of the account, which may take its DID, or one *)
(* that was vacant.                                                        *)
SignsIn(b, a) ==
    LET known  == IF AtProvider[a] = "bluesky" THEN HasDid(a) ELSE WithColumn(a)
        better == {u \in known : a \in persons[u].legacy \/ RankOf(persons[u].did) > RankOf(a)}
        taken  == HasDid(a) \ known IN
    \E u \in IF known # {} THEN known ELSE IF HasDid(a) # {} THEN HasDid(a) ELSE NewRow :
        /\ WithColumn(a) \subseteq {u}
        /\ u \in known \ better => taken = {}
        /\ persons' = [persons EXCEPT ![u] =
              ColumnSet(IF u \in better THEN @ ELSE IF @ = Vacant THEN [@ EXCEPT !.did = a]
                        ELSE Promoted(@, a), a)]
        /\ bindings' = [bindings EXCEPT ![a] =
              IF @ = NoBinding THEN [person |-> u, gave |-> persons'[u].did] ELSE @]
        /\ cookies' = [cookies EXCEPT ![b] = Claims(u)]
        /\ UNCHANGED halfway

(* link: held by another user, it is refused; held already, only the       *)
(* session is new.  The new DID is written first, the column next (unique  *)
(* over the rows), the row of account_links last.                          *)
Links(b, u, a) ==
    LET row == persons[u]
        did == IF RankOf(a) > RankOf(row.did) THEN a ELSE row.did
        column == AtProvider[a] # "mastodon" /\ ~Has(row, AtProvider[a])
        resigns == IF AtProvider[a] = "mastodon" THEN cookies
                   ELSE [cookies EXCEPT ![b] = Claims(u)] IN
    \/ /\ bindings[a].person = u
       /\ UNCHANGED <<persons, bindings, halfway>> /\ cookies' = resigns
    \/ /\ bindings[a] = NoBinding /\ HasDid(did) \subseteq {u}
       /\ IF column /\ WithColumn(a) \ {u} # {}
          THEN /\ persons' = [persons EXCEPT ![u] = Promoted(@, did)]
               /\ halfway' = (halfway \/ did # row.did)
               /\ UNCHANGED <<bindings, cookies>>
          ELSE /\ persons' = [persons EXCEPT ![u] =
                     IF column THEN ColumnSet(Promoted(@, did), a) ELSE Promoted(@, did)]
               /\ bindings' = [bindings EXCEPT ![a] =
                     [person |-> u, gave |-> IF did = row.did THEN Nil ELSE did]]
               /\ cookies' = resigns
               /\ UNCHANGED halfway

---------------------------------------------------------------------------
(* Trips. *)

Trip(b, p, intent, u) == [browser |-> b, provider |-> p, intent |-> intent, person |-> u]

(* GET /auth/:provider/login and POST /auth/bluesky/start: the intent goes *)
(* into the state, with nothing of the session; Google's has no intent.    *)
BeginTrip(b, p, intent) ==
    /\ p \in {"orcid", "google", "bluesky"} /\ tripCount < MaxTrips
    /\ trips' = trips \cup {Trip(b, p, IF p = "google" THEN "signin" ELSE intent, Nil)}
    /\ tripCount' = tripCount + 1
    /\ UNCHANGED <<persons, bindings, cookies, submitter, actors, wantsMastodon, halfway>>

\* POST /auth/mastodon/start: the state keeps the user of the session, for ten minutes.
BeginMastodon(b) ==
    /\ cookies[b] # NoCookie /\ tripCount < MaxTrips
    /\ trips' = trips \cup {Trip(b, "mastodon", "link", cookies[b].person)}
    /\ wantsMastodon' = wantsMastodon \cup {cookies[b].person}
    /\ tripCount' = tripCount + 1
    /\ UNCHANGED <<persons, bindings, cookies, submitter, actors, halfway>>

\* A state in Redis expires, or the visitor does not come back.
TripLost(t) ==
    /\ t \in trips /\ trips' = trips \ {t}
    /\ UNCHANGED <<persons, bindings, cookies, submitter, actors, wantsMastodon,
                   halfway, tripCount>>

(* selectBlueskyCallbackMode, and the same choice for ORCID: without a     *)
(* session the intent to link is forgotten.                                *)
LinksNow(t) == t.intent = "link" /\ cookies[t.browser] # NoCookie

\* "Mastodon callback session mismatch".
MayEnd(t) ==
    t.provider = "mastodon" =>
        cookies[t.browser] # NoCookie /\ cookies[t.browser].person = t.person

\* The accounts the visitor may have shown the provider of the trip.
ShownAccounts(t) == {a \in OAuthAccounts : AtProvider[a] = t.provider}

(* The callbacks.  One that is refused ends the trip and changes nothing   *)
(* (TripLost).                                                             *)
Callback(t, a) ==
    /\ t \in trips /\ a \in ShownAccounts(t) /\ MayEnd(t)
    /\ trips' = trips \ {t}
    /\ IF LinksNow(t) THEN Links(t.browser, cookies[t.browser].person, a)
       ELSE SignsIn(t.browser, a)
    /\ UNCHANGED <<submitter, actors, wantsMastodon, tripCount>>

---------------------------------------------------------------------------
(* The session. *)

\* POST /auth/logout, or the token has expired.
Logout(b) ==
    /\ cookies[b] # NoCookie
    /\ cookies' = [cookies EXCEPT ![b] = NoCookie]
    /\ UNCHANGED <<persons, bindings, trips, submitter, actors, wantsMastodon, halfway,
                   tripCount>>

(* DELETE /me/links/:provider.  The row of account_links goes, the column  *)
(* stays; the last link stays, and so does the one that gave the DID.      *)
Unlink(b, a) ==
    LET u == cookies[b].person IN
    /\ cookies[b] # NoCookie /\ bindings[a].person = u
    /\ \E c \in OAuthAccounts \ {a} : bindings[c].person = u
    /\ bindings[a].gave = Nil \/ bindings[a].gave # persons[u].did
    /\ bindings' = [bindings EXCEPT ![a] = NoBinding]
    /\ UNCHANGED <<persons, cookies, trips, submitter, actors, wantsMastodon, halfway,
                   tripCount>>

\* POST /intake/finalize: the paper carries the DID of the session.
SubmitPaper(b, p) ==
    /\ cookies[b] # NoCookie /\ submitter[p] = Nothing
    /\ submitter' = [submitter EXCEPT ![p] = cookies[b]]
    /\ UNCHANGED <<persons, bindings, cookies, trips, actors, wantsMastodon, halfway,
                   tripCount>>

(* POST /papers/:id/retry, PATCH .../changelog: the DID of the session is  *)
(* that of the paper.                                                      *)
ActAsAuthor(b, p) ==
    /\ cookies[b] # NoCookie /\ submitter[p].did = cookies[b].did
    /\ actors' = [actors EXCEPT ![p] = @ \cup {cookies[b].person}]
    /\ UNCHANGED <<persons, bindings, cookies, trips, submitter, wantsMastodon,
                   halfway, tripCount>>

SessionsNext ==
    \/ \E b \in Browsers, p \in OAuthProviders, i \in {"signin", "link"} : BeginTrip(b, p, i)
    \/ \E b \in Browsers : BeginMastodon(b) \/ Logout(b)
    \/ \E t \in trips : TripLost(t) \/ \E a \in OAuthAccounts : Callback(t, a)
    \/ \E b \in Browsers, a \in OAuthAccounts : Unlink(b, a)
    \/ \E b \in Browsers, p \in OwnPapers : SubmitPaper(b, p) \/ ActAsAuthor(b, p)

SessionsSpec == SessionsInit /\ [][SessionsNext]_sessVars

---------------------------------------------------------------------------
(* Properties. *)

SessionsTypeOK ==
    /\ persons \in [Persons -> [did : OAuthAccounts \cup {Nil}, legacy : SUBSET OAuthAccounts,
                                columns : SUBSET OAuthAccounts]]
    /\ bindings \in
          [OAuthAccounts -> [person : Persons \cup {Nil}, gave : OAuthAccounts \cup {Nil}]]
    /\ cookies \in [Browsers -> [person : Persons \cup {Nil}, did : OAuthAccounts \cup {Nil}]]
    /\ trips \subseteq [browser : Browsers, provider : OAuthProviders,
                        intent : {"signin", "link"}, person : Persons \cup {Nil}]
    /\ submitter \in [OwnPapers -> [person : Persons \cup {Nil}, did : OAuthAccounts \cup {Nil}]]
    /\ actors \in [OwnPapers -> SUBSET Persons]
    /\ wantsMastodon \subseteq Persons /\ halfway \in BOOLEAN /\ tripCount \in 0..MaxTrips

\* requesterSubmissionDids, and the papers of GET /me/submissions.
RequesterDids(b) ==
    LET row == persons[cookies[b].person] IN
    {cookies[b].did, row.did} \cup row.legacy
        \cup {c \in row.columns : AtProvider[c] = "bluesky"}
MySubmissions(b) == {p \in OwnPapers : submitter[p].did \in RequesterDids(b)}

(* GET /me/submissions lists the papers of the user, all of them, and no   *)
(* others, from a session of any age: the DID in it or in a paper may be   *)
(* one the user had before a link in another browser                       *)
(* (me-submissions.ts:62).  The exception is a link that failed after the  *)
(* DID of the user had changed: the DID belongs to two users' pasts then.  *)
SubmissionsAreMine ==
    \A b \in Browsers : cookies[b] # NoCookie =>
        LET mine == {p \in OwnPapers : submitter[p].person = cookies[b].person} IN
        /\ mine \subseteq MySubmissions(b)
        /\ halfway \/ MySubmissions(b) \subseteq mine

(* Whoever retries the saga of a paper or edits its changelog as "the      *)
(* submitter" (papers.ts:656, versions.ts:93) is the user who submitted    *)
(* it, though only DIDs are compared; with the same exception.             *)
AuthorsAct ==
    halfway \/ \A p \in OwnPapers : actors[p] \subseteq {submitter[p].person}

(* A Mastodon account is linked to a user who has asked for it, whoever has  *)
(* signed in to the browser since (auth-mastodon.ts:89).                   *)
MastodonAsked ==
    \A a \in OAuthAccounts : AtProvider[a] = "mastodon" /\ bindings[a] # NoBinding =>
        bindings[a].person \in wantsMastodon
=============================================================================
