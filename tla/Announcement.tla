---------------------------- MODULE Announcement ----------------------------
(***************************************************************************)
(* The Bluesky thread of a paper (services/bluesky-bridge.ts): the post that *)
(* announces it, and its claim cards as a chain of replies.  The stage that  *)
(* runs the bridge may run again after a failure or a crash, or in a second  *)
(* slot, with the version row it has read.  Posts are numbered.              *)
(***************************************************************************)
EXTENDS Naturals, Sequences, SequencesExt, FiniteSets

CONSTANTS
    Bridges,        \* runs of the stage at once
    Cards,          \* claim cards of the launch kit
    Titles,         \* titles, as the sizes of their code points in bytes
    TitleBytes, PostBytes, PrefixBytes, TagBytes,   \* MAX_TITLE_BYTES, ... in small
    MaxPosts, MaxBridgeFaults   \* bounds

ASSUME AnnouncementAssumption ==
    /\ Titles \subseteq Seq(1..4) /\ {Cards, MaxPosts, MaxBridgeFaults} \subseteq Nat
    /\ {TitleBytes, PostBytes, PrefixBytes, TagBytes} \subseteq Nat

VARIABLES
    title,
    bskyThread,      \* paper_versions: bridge_status, the anchor, bsky_thread_replies
    posts,       \* what is on Bluesky
    bridging,    \* runs: what each has read, its anchor, its parent and its next claim
    stageOver,   \* the stage of the saga is done
    sideBySide,  \* two runs have been past their look at the row at once (history)
    bridgeFaults \* counter of the bound

bridgeVars == <<title, bskyThread, posts, bridging, stageOver, sideBySide, bridgeFaults>>

NoThread == [status |-> "none", anchor |-> 0, replies |-> <<>>]
NoBridge == [pc |-> "idle", seen |-> NoThread, anchor |-> 0, parent |-> 0, card |-> 1]

AnnouncementInit ==
    /\ title \in Titles /\ bskyThread = NoThread /\ posts = <<>>
    /\ bridging = [r \in Bridges |-> NoBridge]
    /\ stageOver = FALSE /\ sideBySide = FALSE /\ bridgeFaults = 0

BridgeAt(r, l) == bridging[r].pc = l
BridgeFault    == bridgeFaults < MaxBridgeFaults /\ bridgeFaults' = bridgeFaults + 1

-----------------------------------------------------------------------------
(* buildBskyPost: its text, cut twice, and where the tag is in it.          *)

Bytes(text) == FoldLeft(+, 0, text)

\* utf8Truncate: whole code points, and three bytes for the ellipsis.
Truncate(text, max) ==
    LET budget == IF max >= 3 THEN max - 3 ELSE max
        fits   == {n \in 0..Len(text) : Bytes(SubSeq(text, 1, n)) <= budget}
        kept   == SubSeq(text, 1, CHOOSE n \in fits : \A m \in fits : m <= n)
    IN  IF Bytes(text) <= max THEN text ELSE IF max >= 3 THEN kept \o <<3>> ELSE kept

Ascii(n) == [i \in 1..n |-> 1]

RawText == Ascii(PrefixBytes) \o Truncate(title, TitleBytes) \o Ascii(TagBytes)

\* A facet whose end is beyond the text is dropped; the tag is at the end of the raw text.
AnchorText ==
    LET text == Truncate(RawText, PostBytes)
    IN  [bytes |-> Bytes(text), tagged |-> Bytes(RawText) <= Bytes(text)]

-----------------------------------------------------------------------------
(* bridgeVersion.                                                           *)

\* latestVersion, and the look at its status: a posted version is left as it is.
StartBridge(r) ==
    /\ BridgeAt(r, "idle") /\ ~stageOver
    /\ IF bskyThread.status = "posted"
       THEN stageOver' = TRUE /\ UNCHANGED <<bridging, sideBySide>>
       ELSE /\ bridging' = [bridging EXCEPT ![r] = [NoBridge EXCEPT !.pc = "post", !.seen = bskyThread]]
            /\ sideBySide' = (sideBySide \/ \E q \in Bridges : ~BridgeAt(q, "idle"))
            /\ UNCHANGED stageOver
    /\ UNCHANGED <<title, bskyThread, posts, bridgeFaults>>

\* setBridgeResult overwrites the anchor and leaves the replies.
Result(status, anchor) == [bskyThread EXCEPT !.status = status, !.anchor = anchor]

Leave(r) == bridging' = [bridging EXCEPT ![r] = NoBridge]
GoBridge(r, l) == bridging' = [bridging EXCEPT ![r].pc = l]

\* The flag is off.
Skipped(r) ==
    /\ BridgeAt(r, "post") /\ bskyThread' = Result("skipped", 0) /\ Leave(r) /\ stageOver' = TRUE
    /\ UNCHANGED <<title, posts, sideBySide, bridgeFaults>>

Append1(post) == Len(posts) < MaxPosts /\ posts' = Append(posts, post)

PostAnchor(r) ==
    /\ BridgeAt(r, "post")
    /\ Append1([root |-> Len(posts) + 1, parent |-> 0, card |-> 0, text |-> AnchorText])
    /\ bridging' = [bridging EXCEPT ![r].pc = "record", ![r].anchor = Len(posts')]
    /\ UNCHANGED <<title, bskyThread, stageOver, sideBySide, bridgeFaults>>

\* restoreSession or the post fails, or its answer is lost.
PostAnchorFails(r, written) ==
    /\ BridgeAt(r, "post") /\ BridgeFault /\ GoBridge(r, "failed")
    /\ IF written
       THEN Append1([root |-> Len(posts) + 1, parent |-> 0, card |-> 0, text |-> AnchorText])
       ELSE UNCHANGED posts
    /\ UNCHANGED <<title, bskyThread, stageOver, sideBySide>>

\* Replies that the row read has make the last of them the parent.
RecordAnchor(r) ==
    /\ BridgeAt(r, "record")
    /\ bskyThread' = Result("posted", bridging[r].anchor)
    /\ LET replies == bridging[r].seen.replies
       IN  bridging' = [bridging EXCEPT ![r].pc = IF Cards < 2 THEN "over" ELSE "claims",
               ![r].parent = IF replies = <<>> THEN bridging[r].anchor ELSE Last(replies).post]
    /\ UNCHANGED <<title, posts, stageOver, sideBySide, bridgeFaults>>

RecordAnchorFails(r) ==
    /\ BridgeAt(r, "record") /\ BridgeFault /\ GoBridge(r, "failed")
    /\ UNCHANGED <<title, bskyThread, posts, stageOver, sideBySide>>

Failed(r) ==
    /\ BridgeAt(r, "failed") /\ bskyThread' = Result("failed", 0) /\ GoBridge(r, "over")
    /\ UNCHANGED <<title, posts, stageOver, sideBySide, bridgeFaults>>

-----------------------------------------------------------------------------
(* postClaimRepliesIfApplicable.                                            *)

\* Four cards at most.
Posted(r)   == {bridging[r].seen.replies[i].card : i \in DOMAIN bridging[r].seen.replies}
LastCard    == IF Cards < 4 THEN Cards ELSE 4
NextCard(r) == bridging[r].card

SkipCard(r) ==
    /\ BridgeAt(r, "claims")
    /\ IF NextCard(r) > LastCard THEN GoBridge(r, "over")
       ELSE NextCard(r) \in Posted(r) /\ bridging' = [bridging EXCEPT ![r].card = @ + 1]
    /\ UNCHANGED <<title, bskyThread, posts, stageOver, sideBySide, bridgeFaults>>

Reply(r) == [root |-> bridging[r].anchor, parent |-> bridging[r].parent, card |-> NextCard(r),
             text |-> [bytes |-> PostBytes, tagged |-> FALSE]]

PostClaim(r) ==
    /\ BridgeAt(r, "claims") /\ NextCard(r) <= LastCard /\ NextCard(r) \notin Posted(r)
    /\ Append1(Reply(r)) /\ GoBridge(r, "append")
    /\ UNCHANGED <<title, bskyThread, stageOver, sideBySide, bridgeFaults>>

\* The thread ends here; the version stays posted.
PostClaimFails(r, written) ==
    /\ BridgeAt(r, "claims") /\ NextCard(r) <= LastCard /\ NextCard(r) \notin Posted(r)
    /\ BridgeFault /\ GoBridge(r, "over")
    /\ IF written THEN Append1(Reply(r)) ELSE UNCHANGED posts
    /\ UNCHANGED <<title, bskyThread, stageOver, sideBySide>>

LastPost(r) == CHOOSE p \in DOMAIN posts :
    /\ posts[p].root = bridging[r].anchor /\ posts[p].card = NextCard(r)

\* Mutant: the next reply hangs on the same parent.
NextParentKept(r) ==
    bridging' = [bridging EXCEPT ![r].pc = "claims", ![r].card = @ + 1]

\* The next reply hangs on this one.
NextParent(r) ==
    bridging' = [bridging EXCEPT ![r].pc = "claims", ![r].card = @ + 1, ![r].parent = LastPost(r)]

AppendBridgeReply(r) ==
    /\ BridgeAt(r, "append") /\ NextParent(r)
    /\ bskyThread' = [bskyThread EXCEPT !.replies = Append(@, [card |-> NextCard(r), post |-> LastPost(r)])]
    /\ UNCHANGED <<title, posts, stageOver, sideBySide, bridgeFaults>>

\* A reply that is not recorded is not missed.
AppendBridgeReplyFails(r) ==
    /\ BridgeAt(r, "append") /\ BridgeFault /\ NextParent(r)
    /\ UNCHANGED <<title, bskyThread, posts, stageOver, sideBySide>>

-----------------------------------------------------------------------------
(* The stage.                                                               *)

FinishBridge(r) ==
    /\ BridgeAt(r, "over") /\ Leave(r) /\ stageOver' = TRUE
    /\ UNCHANGED <<title, bskyThread, posts, sideBySide, bridgeFaults>>

\* The jobs after the bridge are not added, or the process dies: the stage runs again.
BridgeCutOff(r) ==
    /\ ~BridgeAt(r, "idle") /\ BridgeFault /\ Leave(r)
    /\ UNCHANGED <<title, bskyThread, posts, stageOver, sideBySide>>

AnnouncementNext ==
    \E r \in Bridges :
        \/ StartBridge(r) \/ Skipped(r) \/ PostAnchor(r) \/ RecordAnchor(r) \/ RecordAnchorFails(r)
        \/ Failed(r) \/ SkipCard(r) \/ PostClaim(r) \/ AppendBridgeReply(r)
        \/ AppendBridgeReplyFails(r) \/ FinishBridge(r) \/ BridgeCutOff(r)
        \/ \E written \in BOOLEAN : PostAnchorFails(r, written) \/ PostClaimFails(r, written)

AnnouncementSpec == AnnouncementInit /\ [][AnnouncementNext]_bridgeVars

-----------------------------------------------------------------------------
(* Properties.                                                              *)

AnnouncementTypeOK ==
    /\ bskyThread.status \in {"none", "skipped", "failed", "posted"} /\ bskyThread.anchor \in 0..Len(posts)
    /\ \A i \in DOMAIN posts : posts[i].root \in 1..i /\ posts[i].parent \in 0..(i - 1)
    /\ \A i \in DOMAIN bskyThread.replies : bskyThread.replies[i] \in [card: 1..4, post: DOMAIN posts]

\* "it renders as a continuous thread" (bluesky-bridge.ts): a reply hangs in the thread of its
\* root on the card before it, and no thread has a card twice, unless runs overlapped and one
\* of them failed over the row of another.
ThreadsAreChains ==
    ~sideBySide \/ bridgeFaults = 0 =>
        \A i \in DOMAIN posts : posts[i].card > 0 =>
            /\ posts[posts[i].parent].root = posts[i].root
            /\ posts[posts[i].parent].card = posts[i].card - 1
            /\ \A j \in DOMAIN posts :
                   posts[j].root = posts[i].root /\ posts[j].card = posts[i].card => j = i

\* Runs that do not overlap: a second announcement takes a failure, a version that is posted
\* names an announcement of its own, and the replies it lists are of that thread, in order.
RowNamesThread ==
    ~sideBySide =>
        /\ Cardinality({i \in DOMAIN posts : posts[i].card = 0}) <= 1 + bridgeFaults
        /\ bskyThread.status = "posted" => bskyThread.anchor > 0 /\ posts[bskyThread.anchor].card = 0
        /\ \A i \in DOMAIN bskyThread.replies :
               /\ posts[bskyThread.replies[i].post].root = bskyThread.anchor
               /\ i > 1 => bskyThread.replies[i - 1].card < bskyThread.replies[i].card

\* The announcement fits and keeps its tag, whatever the title.
TextFits ==
    \A i \in DOMAIN posts : posts[i].card = 0 => posts[i].text.bytes <= PostBytes /\ posts[i].text.tagged

\* What is on Bluesky is one readable thread, and the row says which.
AnnouncementHolds == ThreadsAreChains /\ RowNamesThread /\ TextFits
=============================================================================
