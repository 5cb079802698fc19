------------------------------ MODULE UserKeys ------------------------------
(***************************************************************************)
(* The signing keys of one user (services/user-keys.ts): the pair made at    *)
(* sign-in, its rotation, and the DID document that resolvers fetch from the *)
(* web edge (routes/did-web.ts, pages/u/[id]/did.json.ts) and revalidate     *)
(* by ETag.  A key is a number, in the order of generation.                  *)
(***************************************************************************)
EXTENDS Naturals, FiniteSets, Sequences

CONSTANTS
    KeyRequests,             \* sign-ins and rotations at once
    MaxKeys, MaxKeyFaults    \* bounds

ASSUME KeysAssumption == MaxKeys \in Nat \ {0} /\ MaxKeyFaults \in Nat

VARIABLES
    keyRow,     \* users: public_signing_key, retired_pubkeys, and whether did is a did:plc
    kek,        \* OPENXIV_KEK_BASE64 is set
    keyReq,     \* requests
    copy,       \* what a resolver keeps: the keys of the document and its ETag
    issued,     \* keys generated so far
    used,       \* keys that have been active (history)
    keysRaced,  \* two requests have worked on the row at once (history)
    keyFaults   \* counter of the bound

keyVars == <<keyRow, kek, keyReq, copy, issued, used, keysRaced, keyFaults>>

NoKey    == 0
NoKeyReq == [pc |-> "idle", rotates |-> FALSE, key |-> NoKey, retired |-> <<>>]
NoCopy   == [held |-> FALSE, keys |-> {}, etag |-> <<NoKey, 0>>]

UserKeysInit ==
    /\ keyRow = [active |-> NoKey, retired |-> <<>>, plc |-> FALSE]
    /\ kek \in BOOLEAN /\ keyReq = [r \in KeyRequests |-> NoKeyReq] /\ copy = NoCopy
    /\ issued = 0 /\ used = {} /\ keysRaced = FALSE /\ keyFaults = 0

-----------------------------------------------------------------------------
(* The two ways to a new key.                                               *)

\* A request reads the row, makes a pair and goes on to its first UPDATE.
Begin(r, rotates, retired) ==
    /\ issued < MaxKeys /\ issued' = issued + 1
    /\ keyReq' = [keyReq EXCEPT ![r] =
                    [pc |-> "set", rotates |-> rotates, key |-> issued + 1, retired |-> retired]]
    /\ keysRaced' = (keysRaced \/ \E q \in KeyRequests : keyReq[q].pc # "idle")

\* ensureUserKeypair: a did:web user without a key gets one; a missing KEK is swallowed.
SignInKeys(r) ==
    /\ keyReq[r].pc = "idle" /\ kek /\ keyRow.active = NoKey /\ ~keyRow.plc
    /\ Begin(r, FALSE, <<>>) /\ UNCHANGED <<keyRow, kek, copy, used, keyFaults>>

\* The list of retired keys is made from the row that was read, before any write.
RetiredNext ==
    IF keyRow.active = NoKey THEN keyRow.retired ELSE Append(keyRow.retired, keyRow.active)

RotateKeys(r) ==
    /\ keyReq[r].pc = "idle" /\ kek
    /\ Begin(r, TRUE, RetiredNext) /\ UNCHANGED <<keyRow, kek, copy, used, keyFaults>>

SetKeys(r) ==
    /\ keyReq[r].pc = "set"
    /\ keyRow' = [keyRow EXCEPT !.active = keyReq[r].key] /\ used' = used \cup {keyReq[r].key}
    /\ keyReq' = [keyReq EXCEPT ![r] = IF @.rotates THEN [@ EXCEPT !.pc = "retire"] ELSE NoKeyReq]
    /\ UNCHANGED <<kek, copy, issued, keysRaced, keyFaults>>

SetRetiredPubkeys(r) ==
    /\ keyReq[r].pc = "retire"
    /\ keyRow' = [keyRow EXCEPT !.retired = keyReq[r].retired]
    /\ keyReq' = [keyReq EXCEPT ![r] = NoKeyReq]
    /\ UNCHANGED <<kek, copy, issued, used, keysRaced, keyFaults>>

\* The database fails or the process dies between the two UPDATEs, or before the first.
KeyRequestFails(r) ==
    /\ keyReq[r].pc # "idle" /\ keyFaults < MaxKeyFaults /\ keyFaults' = keyFaults + 1
    /\ keyReq' = [keyReq EXCEPT ![r] = NoKeyReq]
    /\ UNCHANGED <<keyRow, kek, copy, issued, used, keysRaced>>

-----------------------------------------------------------------------------
(* The rest of the row, and the operator.                                   *)

OperatorSetsKek ==
    /\ ~kek /\ kek' = TRUE
    /\ UNCHANGED <<keyRow, keyReq, copy, issued, used, keysRaced, keyFaults>>

\* Bluesky is linked: did becomes a did:plc, the did:web of before stays in legacy_dids.
LinksBluesky ==
    /\ ~keyRow.plc /\ keyRow' = [keyRow EXCEPT !.plc = TRUE]
    /\ UNCHANGED <<kek, keyReq, copy, issued, used, keysRaced, keyFaults>>

-----------------------------------------------------------------------------
(* Resolution.                                                              *)

\* buildUserDidDoc: the keys of verificationMethod.
DocKeys == {keyRow.retired[i] : i \in DOMAIN keyRow.retired}
           \cup (IF keyRow.active = NoKey THEN {} ELSE {keyRow.active})

EtagOfKey == <<keyRow.active, 0>>

\* The tail of the active key and the number of retired ones.
Etag == <<keyRow.active, Len(keyRow.retired)>>

\* A resolver that holds the ETag of the row is told 304 and keeps its copy.
Resolve ==
    /\ ~keyRow.plc /\ ~(copy.held /\ copy.etag = Etag)
    /\ copy' = [held |-> TRUE, keys |-> DocKeys, etag |-> Etag]
    /\ UNCHANGED <<keyRow, kek, keyReq, issued, used, keysRaced, keyFaults>>

\* A did:plc row answers 301; the edge follows it and passes the directory's document on.
ResolveMoved ==
    /\ keyRow.plc /\ copy # NoCopy /\ copy' = NoCopy
    /\ UNCHANGED <<keyRow, kek, keyReq, issued, used, keysRaced, keyFaults>>

UserKeysNext ==
    \/ OperatorSetsKek \/ LinksBluesky \/ Resolve \/ ResolveMoved
    \/ \E r \in KeyRequests :
        SignInKeys(r) \/ RotateKeys(r) \/ SetKeys(r) \/ SetRetiredPubkeys(r) \/ KeyRequestFails(r)

UserKeysSpec == UserKeysInit /\ [][UserKeysNext]_keyVars

-----------------------------------------------------------------------------
(* Properties.                                                              *)

UserKeysTypeOK ==
    /\ keyRow \in [active: 0..issued, retired: Seq(1..issued), plc: BOOLEAN]
    /\ keyReq \in [KeyRequests -> [pc: {"idle", "set", "retire"}, rotates: BOOLEAN,
                                   key: 0..issued, retired: Seq(1..issued)]]
    /\ copy \in [held: BOOLEAN, keys: SUBSET (1..issued), etag: (0..issued) \X (0..issued)]

\* Retired keys stay in the document "for retroactive verification" (did-web.ts): as long as
\* rotations of one user do not overlap, a key that has been active is lost only with a
\* failure between the two UPDATEs of a rotation.
KeysRemain ==
    ~keysRaced /\ (\A r \in KeyRequests : keyReq[r].pc # "retire")
        => Cardinality(used \ DocKeys) <= keyFaults

\* The ETag tells key sets apart: without overlapping rotations a resolver that is told 304
\* holds the keys of the row, also when it fetched in the middle of a rotation.
EtagTellsKeys == ~keysRaced /\ copy.held /\ copy.etag = Etag => copy.keys = DocKeys

\* The two together: what a resolver is given or keeps verifies every signature it should.
KeysStayKnown == KeysRemain /\ EtagTellsKeys
=============================================================================
