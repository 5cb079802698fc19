---------------------------- MODULE HandlePicker ----------------------------
(***************************************************************************)
(* Choosing a handle: the picker in a tab (components/HandlePicker.tsx) with *)
(* its debounced look-ups, whose answers come back in any order, and the     *)
(* claim (routes/handle.ts), which looks and then writes, against the claims *)
(* of other users.                                                           *)
(***************************************************************************)
EXTENDS Naturals, Sequences

CONSTANTS
    Names,         \* what somebody may type
    Unfit,         \* of these: bad shape, reserved, or too close to a name of trust
    NoName,
    People, Me,    \* users; the one whose tab it is
    Unowned,
    MaxKeystrokes, MaxHandleFaults   \* bounds

ASSUME HandleAssumption ==
    /\ Unfit \subseteq Names /\ NoName \notin Names /\ Me \in People /\ Unowned \notin People
    /\ {MaxKeystrokes, MaxHandleFaults} \subseteq Nat

VARIABLES
    typed,      \* the text of the field
    timer,      \* the text a look-up is due for
    checks,     \* look-ups under way, in the order they were sent, with their answers
    verdict,    \* status: none, no, or the name that is available
    claim,      \* claims, of the tab and of other users
    owner,      \* users.handle, which is unique
    page,       \* the profile the tab has moved on to
    meant,      \* the text that was in the field when the claim was sent (history)
    hasty,      \* it was sent with a look-up due or under way (history)
    overtaken,  \* an answer came after that to a later look-up, or to an emptied field (history)
    keystrokes, handleFaults   \* counters of the bounds

pickVars == <<typed, timer, checks, verdict, claim, owner, page, meant, hasty, overtaken,
              keystrokes, handleFaults>>

Unsure  == [kind |-> "none", name |-> NoName]
Refusal == [kind |-> "no", name |-> NoName]
NoClaim == [pc |-> "idle", name |-> NoName]

HandleInit ==
    /\ typed = NoName /\ timer = NoName /\ checks = <<>> /\ verdict = Unsure
    /\ claim = [u \in People |-> NoClaim] /\ owner = [n \in Names |-> Unowned] /\ page = NoName
    /\ meant = NoName /\ hasty = FALSE /\ overtaken = FALSE /\ keystrokes = 0 /\ handleFaults = 0

HandleFault == handleFaults < MaxHandleFaults /\ handleFaults' = handleFaults + 1

-----------------------------------------------------------------------------
(* The tab.                                                                 *)

\* The effect on the text: the timer starts again, an empty field clears the verdict, and
\* any other text leaves it.
Type(n) ==
    /\ page = NoName /\ n # typed /\ keystrokes < MaxKeystrokes /\ keystrokes' = keystrokes + 1
    /\ typed' = n /\ timer' = n
    /\ verdict' = IF n = NoName THEN Unsure ELSE verdict
    /\ UNCHANGED <<checks, claim, owner, page, meant, hasty, overtaken, handleFaults>>

SendCheck ==
    /\ timer # NoName /\ timer' = NoName
    /\ checks' = Append(checks, [name |-> timer, answer |-> Unsure])
    /\ UNCHANGED <<typed, verdict, claim, owner, page, meant, hasty, overtaken,
                   keystrokes, handleFaults>>

Without(i) == SubSeq(checks, 1, i - 1) \o SubSeq(checks, i + 1, Len(checks))

Shows(i, v) ==
    /\ verdict' = v /\ checks' = Without(i)
    /\ overtaken' = (overtaken \/ i > 1 \/ typed = NoName)

\* The answer becomes the verdict, whatever the field says by now.
CheckAnswered(i) ==
    /\ checks[i].answer # Unsure /\ Shows(i, checks[i].answer)
    /\ UNCHANGED <<typed, timer, claim, owner, page, meant, hasty, keystrokes, handleFaults>>

ForgetCheck(i) == Shows(i, verdict)

\* No answer, or not an OK one: the verdict is cleared.
LoseCheck(i) == Shows(i, Unsure)

CheckLost(i) ==
    /\ HandleFault /\ LoseCheck(i)
    /\ UNCHANGED <<typed, timer, claim, owner, page, meant, hasty, keystrokes>>

\* onSubmit sends the name of the verdict, not the text of the field.
Submit ==
    /\ page = NoName /\ verdict.kind = "yes" /\ claim[Me].pc = "idle"
    /\ claim' = [claim EXCEPT ![Me] = [pc |-> "check", name |-> verdict.name]]
    /\ meant' = typed /\ hasty' = (timer # NoName \/ checks # <<>>)
    /\ UNCHANGED <<typed, timer, checks, verdict, owner, page, overtaken, keystrokes, handleFaults>>

ClaimAnswered ==
    /\ claim[Me].pc \in {"granted", "refused"} /\ claim' = [claim EXCEPT ![Me] = NoClaim]
    /\ IF claim[Me].pc = "granted" THEN page' = claim[Me].name /\ UNCHANGED verdict
                                   ELSE verdict' = Refusal /\ UNCHANGED page
    /\ UNCHANGED <<typed, timer, checks, owner, meant, hasty, overtaken, keystrokes, handleFaults>>

\* The answer is lost, or it is not one of the route's: the tab says so and stays.
ClaimLost ==
    /\ claim[Me].pc # "idle" /\ HandleFault /\ claim' = [claim EXCEPT ![Me] = NoClaim]
    /\ UNCHANGED <<typed, timer, checks, verdict, owner, page, meant, hasty, overtaken, keystrokes>>

-----------------------------------------------------------------------------
(* The server.                                                              *)

\* checkAvailability; the owner itself is told that its own handle is taken.
Available(n) == n \notin Unfit /\ owner[n] = Unowned
Judged(n)    == IF Available(n) THEN [kind |-> "yes", name |-> n] ELSE Refusal

CheckHandle(i) ==
    /\ checks[i].answer = Unsure
    /\ checks' = [checks EXCEPT ![i].answer = Judged(checks[i].name)]
    /\ UNCHANGED <<typed, timer, verdict, claim, owner, page, meant, hasty, overtaken,
                   keystrokes, handleFaults>>

\* A look-up the database fails counts as taken.
CheckFails(i) ==
    /\ checks[i].answer = Unsure /\ HandleFault
    /\ checks' = [checks EXCEPT ![i].answer = Refusal]
    /\ UNCHANGED <<typed, timer, verdict, claim, owner, page, meant, hasty, overtaken, keystrokes>>

OtherClaims(u, n) ==
    /\ u # Me /\ claim[u].pc = "idle" /\ \A m \in Names : owner[m] # u
    /\ claim' = [claim EXCEPT ![u] = [pc |-> "check", name |-> n]]
    /\ UNCHANGED <<typed, timer, checks, verdict, owner, page, meant, hasty, overtaken,
                   keystrokes, handleFaults>>

ClaimCheck(u) ==
    /\ claim[u].pc = "check"
    /\ claim' = [claim EXCEPT ![u].pc = IF Available(claim[u].name) THEN "set" ELSE "refused"]
    /\ UNCHANGED <<typed, timer, checks, verdict, owner, page, meant, hasty, overtaken,
                   keystrokes, handleFaults>>

\* The unique index refuses the UPDATE: 23505 is answered like a name that was taken.
TakenMeanwhile(u) == owner[claim[u].name] \notin {u, Unowned}

SetHandle(u) ==
    /\ claim[u].pc = "set"
    /\ owner' = IF TakenMeanwhile(u) THEN owner
                ELSE [n \in Names |-> IF n = claim[u].name THEN u
                                      ELSE IF owner[n] = u THEN Unowned ELSE owner[n]]
    /\ claim' = [claim EXCEPT ![u].pc = IF TakenMeanwhile(u) THEN "refused" ELSE "granted"]
    /\ UNCHANGED <<typed, timer, checks, verdict, page, meant, hasty, overtaken,
                   keystrokes, handleFaults>>

OtherDone(u) ==
    /\ u # Me /\ claim[u].pc \in {"granted", "refused"} /\ claim' = [claim EXCEPT ![u] = NoClaim]
    /\ UNCHANGED <<typed, timer, checks, verdict, owner, page, meant, hasty, overtaken,
                   keystrokes, handleFaults>>

HandleNext ==
    \/ SendCheck \/ Submit \/ ClaimAnswered \/ ClaimLost
    \/ \E n \in Names \cup {NoName} : Type(n)
    \/ \E i \in DOMAIN checks :
        CheckAnswered(i) \/ CheckLost(i) \/ CheckHandle(i) \/ CheckFails(i)
    \/ \E u \in People :
        ClaimCheck(u) \/ SetHandle(u) \/ OtherDone(u) \/ \E n \in Names : OtherClaims(u, n)

HandleSpec == HandleInit /\ [][HandleNext]_pickVars

-----------------------------------------------------------------------------
(* Properties.                                                              *)

\* Types, and the verdict never offers a name that could not be anybody's.
HandleTypeOK ==
    /\ {typed, timer, page, meant} \subseteq Names \cup {NoName}
    /\ verdict.kind = "yes" <=> verdict.name \in Names \ Unfit
    /\ claim \in [People -> [pc: {"idle", "check", "set", "granted", "refused"},
                             name: Names \cup {NoName}]]
    /\ owner \in [Names -> People \cup {Unowned}]

\* The verdict is not cleared when the text changes and remembers no text (lastCheckedRef is
\* written and never read): a claim asks for the text of the field if no look-up was due or
\* under way, no answer was overtaken and none met an emptied field, whatever look-ups failed.
ClaimIsTyped == claim[Me].pc # "idle" /\ ~hasty /\ ~overtaken => claim[Me].name = meant

\* A claim that was granted is the user's: the tab moves to a page of its own, also when
\* somebody else took the name between the look and the write (handle.ts:66).
PageIsMine == page # NoName => owner[page] = Me

\* What the tab asks for and shows is what was typed and granted.
PickedHandleHolds == ClaimIsTyped /\ PageIsMine
=============================================================================
