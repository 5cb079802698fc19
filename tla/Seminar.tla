------------------------------- MODULE Seminar ------------------------------
(***************************************************************************)
(* The Living Seminar, the thread of posts about a paper                   *)
(* (routes/discussion.ts, repositories/posts.ts, SeminarThread.astro).     *)
(*                                                                         *)
(* Everyone of PaperAuthors has submitted one paper, and stands for it; a  *)
(* window is a tab of theirs with the thread of the paper, fresh or stale. *)
(* Two statements make a pin, in one transaction of PostgreSQL at READ     *)
(* COMMITTED: each sees what was committed when it began, and waits for    *)
(* the rows another transaction has written.  The first is taken to get    *)
(* its rows at once.  Texts are left out, and papers without a URI, which  *)
(* cannot be discussed.                                                    *)
(***************************************************************************)
EXTENDS Naturals, FiniteSets, Sequences

CONSTANTS
    PaperAuthors,     \* the papers, by who has submitted them
    Windows,          \* tabs
    SeminarLabels,    \* best_unresolved, resolved_by_v2
    MaxComments,      \* bound: posts
    MaxClicks         \* bound: requests about a post

Unlabelled == "none"
NoPost == 0

ASSUME SeminarAssumption ==
    /\ Unlabelled \notin SeminarLabels
    /\ MaxComments \in Nat /\ MaxClicks \in Nat

VARIABLES
    comments,      \* posts in the order of created_at
    windows,       \* the tabs, and the request each has sent
    pinnedBy,      \* who has had each post pinned last
    pinsCrossed,   \* two transactions that pin have overlapped
    clicks         \* counter of the bound

seminarVars == <<comments, windows, pinnedBy, pinsCrossed, clicks>>

Posts == DOMAIN comments
Comment(p) == [paper |-> p, pinned |-> FALSE, hidden |-> FALSE, label |-> Unlabelled]
Closed == [who |-> "nobody", pc |-> "idle", target |-> NoPost, snapshot |-> {}, locked |-> {}]

SeminarInit ==
    /\ comments = <<>>
    /\ windows = [w \in Windows |-> Closed]
    /\ pinnedBy = <<>>
    /\ pinsCrossed = FALSE /\ clicks = 0

---------------------------------------------------------------------------
(* Posts. *)

Click == clicks < MaxClicks /\ clicks' = clicks + 1

\* A tab is opened.
OpenThread(w, p) ==
    /\ windows[w] = Closed
    /\ windows' = [windows EXCEPT ![w].who = p]
    /\ UNCHANGED <<comments, pinnedBy, pinsCrossed, clicks>>

\* POST /papers/:id/discussion.
AddComment(p) ==
    /\ Len(comments) < MaxComments
    /\ comments' = Append(comments, Comment(p))
    /\ pinnedBy' = Append(pinnedBy, "nobody")
    /\ UNCHANGED <<windows, pinsCrossed, clicks>>

---------------------------------------------------------------------------
(* Pins. *)

Pinned(p) == {i \in Posts : comments[i].paper = p /\ comments[i].pinned}

\* PATCH /papers/:id/discussion/pin, by a button of the tab: a post, of the author's own
\* paper or, by its id, of another; or none.
AskPin(w, target) ==
    /\ windows[w].who # "nobody" /\ windows[w].pc = "idle" /\ Click
    /\ windows' = [windows EXCEPT ![w].pc = "begin", ![w].target = target]
    /\ UNCHANGED <<comments, pinnedBy, pinsCrossed>>

LockedByOther(w) == UNION {windows[v].locked : v \in Windows \ {w}}

\* First statement: the pins it finds; and it waits for their rows.
BeginUnpin(w) ==
    /\ windows[w].pc = "begin"
    /\ windows' = [windows EXCEPT ![w].pc = "unpin", ![w].snapshot = Pinned(windows[w].who)]
    /\ pinsCrossed' = (pinsCrossed \/ \E v \in Windows \ {w} :
                          windows[v].pc \in {"unpin", "pin", "commit"})
    /\ UNCHANGED <<comments, pinnedBy, clicks>>

EndUnpin(w) ==
    /\ windows[w].pc = "unpin" /\ windows[w].snapshot \cap LockedByOther(w) = {}
    /\ windows' = [windows EXCEPT ![w].pc = "pin",
                      ![w].locked = windows[w].snapshot \cap Pinned(windows[w].who)]
    /\ UNCHANGED <<comments, pinnedBy, pinsCrossed, clicks>>

\* The second statement finds the post, and it is about the paper.
TargetFound(w) ==
    windows[w].target # NoPost /\ comments[windows[w].target].paper = windows[w].who

SetPin(w) ==
    /\ windows[w].pc = "pin"
    /\ IF TargetFound(w)
       THEN /\ windows[w].target \notin LockedByOther(w)
            /\ windows' = [windows EXCEPT ![w].pc = "commit",
                                          ![w].locked = @ \cup {windows[w].target}]
       ELSE windows' = [windows EXCEPT ![w].pc = "commit", ![w].target = NoPost]
    /\ UNCHANGED <<comments, pinnedBy, pinsCrossed, clicks>>

\* The commit; the page is then loaded again.
CommitPin(w) ==
    LET mine == windows[w] IN
    /\ mine.pc = "commit"
    /\ comments' = [i \in Posts |->
          IF i \in mine.locked THEN [comments[i] EXCEPT !.pinned = (i = mine.target)]
          ELSE comments[i]]
    /\ pinnedBy' = IF mine.target = NoPost THEN pinnedBy
                   ELSE [pinnedBy EXCEPT ![mine.target] = mine.who]
    /\ windows' = [windows EXCEPT ![w] = Closed]
    /\ UNCHANGED <<pinsCrossed, clicks>>

---------------------------------------------------------------------------
(* Labels and moderation: one statement each, on other columns.            *)

\* PATCH /discussion/:postId/label, by a moderator or the author of the post's paper.
SetLabel(i, label) ==
    /\ comments[i].label # label /\ Click
    /\ comments' = [comments EXCEPT ![i].label = label]
    /\ UNCHANGED <<windows, pinnedBy, pinsCrossed>>

\* PATCH /discussion/:postId/hidden, by a moderator.
SetHidden(i, hidden) ==
    /\ comments[i].hidden # hidden /\ Click
    /\ comments' = [comments EXCEPT ![i].hidden = hidden]
    /\ UNCHANGED <<windows, pinnedBy, pinsCrossed>>

SeminarNext ==
    \/ \E p \in PaperAuthors : AddComment(p)
    \/ \E w \in Windows :
        \/ \E p \in PaperAuthors : OpenThread(w, p)
        \/ \E target \in Posts \cup {NoPost} : AskPin(w, target)
        \/ BeginUnpin(w) \/ EndUnpin(w) \/ SetPin(w) \/ CommitPin(w)
    \/ \E i \in Posts :
        \/ \E label \in SeminarLabels \cup {Unlabelled} : SetLabel(i, label)
        \/ \E hidden \in BOOLEAN : SetHidden(i, hidden)

SeminarSpec == SeminarInit /\ [][SeminarNext]_seminarVars

---------------------------------------------------------------------------
(* Properties. *)

SeminarTypeOK ==
    /\ comments \in Seq([paper : PaperAuthors, pinned : BOOLEAN, hidden : BOOLEAN,
                         label : SeminarLabels \cup {Unlabelled}])
    /\ \A w \in Windows :
        /\ windows[w].who \in PaperAuthors \cup {"nobody"}
        /\ windows[w].pc \in {"idle", "begin", "unpin", "pin", "commit"}
        /\ windows[w].target \in Posts \cup {NoPost}
        /\ windows[w].snapshot \cup windows[w].locked \subseteq Posts
    /\ DOMAIN pinnedBy = Posts /\ pinsCrossed \in BOOLEAN /\ clicks \in 0..MaxClicks

(* "Author can pin one post" (SeminarThread.astro:44): pins from any tabs, *)
(* fresh or stale, leave one post of a paper pinned at most.  "An          *)
(* overlapping-pin state can't exist" (posts.ts:111) is not so: two        *)
(* transactions that overlap see neither the other's pin.                  *)
OnePin == ~pinsCrossed => \A p \in PaperAuthors : Cardinality(Pinned(p)) <= 1

(* A row is written by one transaction at a time, and a post is pinned by  *)
(* the author of the paper it is about, though the route compares the      *)
(* session with the paper in the path only (discussion.ts:172).            *)
OwnPins ==
    /\ \A v, w \in Windows : v # w => windows[v].locked \cap windows[w].locked = {}
    /\ \A i \in Posts : comments[i].pinned => pinnedBy[i] = comments[i].paper
=============================================================================
