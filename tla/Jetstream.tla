------------------------------ MODULE Jetstream -----------------------------
(***************************************************************************)
(* The subscriber of the Bluesky firehose                                    *)
(* (services/jetstream-subscriber.ts): posts that mention a paper become     *)
(* rows of posts.  An event is named by its place in the stream.  The label  *)
(* written beside a row is left out: bskyLabels.apply names no unique index  *)
(* of migration 0019, so it fails, and the failure is dropped.               *)
(***************************************************************************)
EXTENDS Naturals

CONSTANTS
    MaxEvents,         \* bound: length of the stream
    Mentions,          \* events that mention a paper
    CursorMarks,       \* events whose time is a multiple of 50
    LookBack,          \* events in five seconds
    MaxStreamFaults    \* bound: disconnects, crashes, stops, failed calls

ASSUME StreamAssumption ==
    /\ {MaxEvents, LookBack, MaxStreamFaults} \subseteq Nat
    /\ Mentions \subseteq 1..MaxEvents /\ CursorMarks \subseteq 1..MaxEvents

VARIABLES
    head,        \* the last event of the stream
    cursor,      \* bsky:jetstream:cursor, 0 for none
    socket,      \* what the process and its socket are doing
    upcoming,    \* the next event the socket delivers
    lastCursor,  \* the last event handled by this process, 0 for none
    handling,    \* events whose insert is on its way
    mentioned,   \* rows of posts
    passed,      \* events a subscription without a cursor went past (history)
    dropped,     \* events whose insert failed or died with its process (history)
    streamFaults \* counter of the bound

streamVars == <<head, cursor, socket, upcoming, lastCursor, handling, mentioned,
                passed, dropped, streamFaults>>

\* The process is yet to start, or runs with the flag off.
StreamInit ==
    /\ head = 0 /\ cursor = 0 /\ socket \in {"exited", "off"} /\ upcoming = 1 /\ lastCursor = 0
    /\ handling = {} /\ mentioned = {} /\ passed = {} /\ dropped = {}
    /\ streamFaults = 0

StreamFault ==
    /\ streamFaults < MaxStreamFaults
    /\ streamFaults' = streamFaults + 1

EventAppears ==
    /\ head < MaxEvents
    /\ head' = head + 1
    /\ UNCHANGED <<cursor, socket, upcoming, lastCursor, handling, mentioned,
                   passed, dropped, streamFaults>>

\* start reads the flag once: a flag that is off leaves the process without a
\* subscriber until it is started again.
StartStream ==
    /\ socket = "exited"
    /\ \/ socket' = "connecting" /\ UNCHANGED streamFaults
       \/ socket' = "off" /\ StreamFault
    /\ UNCHANGED <<head, cursor, upcoming, lastCursor, handling, mentioned, passed, dropped>>

\* buildSubscribeUrl.  Without a stored cursor, or when Redis does not answer,
\* the stream begins at its end.
Connect ==
    /\ socket = "connecting"
    /\ socket' = "open"
    /\ \/ /\ cursor # 0
          /\ upcoming' = IF cursor > LookBack THEN cursor - LookBack + 1 ELSE 1
          /\ UNCHANGED <<passed, streamFaults>>
       \/ /\ IF cursor = 0 THEN UNCHANGED streamFaults ELSE StreamFault
          /\ upcoming' = head + 1
          /\ passed' = passed \cup 1..head
    /\ UNCHANGED <<head, cursor, lastCursor, handling, mentioned, dropped>>

\* The socket closes; a timer of at most a minute reconnects.
Disconnect ==
    /\ socket = "open"
    /\ StreamFault
    /\ socket' = "connecting"
    /\ UNCHANGED <<head, cursor, upcoming, lastCursor, handling, mentioned, passed, dropped>>

\* handleMessage, which is not awaited.  The cursor is saved before the insert;
\* a failure to save it is ignored.
Deliver ==
    /\ socket = "open" /\ upcoming <= head
    /\ lastCursor' = upcoming
    /\ \/ /\ cursor' = IF upcoming \in CursorMarks THEN upcoming ELSE cursor
          /\ UNCHANGED streamFaults
       \/ upcoming \in CursorMarks /\ StreamFault /\ UNCHANGED cursor
    /\ handling' = handling \cup ({upcoming} \cap Mentions)
    /\ upcoming' = upcoming + 1
    /\ UNCHANGED <<head, socket, mentioned, passed, dropped>>

\* Mutant: only the first mention gets a row.
InsertFirst(e) ==
    /\ e \in handling
    /\ mentioned = {}
    /\ handling' = handling \ {e}
    /\ mentioned' = mentioned \cup {e}
    /\ UNCHANGED <<head, cursor, socket, upcoming, lastCursor, passed, dropped, streamFaults>>

\* posts.create; the unique index on the uri turns a repeated event down.
InsertMention(e) ==
    /\ e \in handling
    /\ handling' = handling \ {e}
    /\ mentioned' = mentioned \cup {e}
    /\ UNCHANGED <<head, cursor, socket, upcoming, lastCursor, passed, dropped, streamFaults>>

\* Promise.allSettled drops the error.
InsertFails(e) ==
    /\ e \in handling
    /\ StreamFault
    /\ handling' = handling \ {e}
    /\ dropped' = dropped \cup {e}
    /\ UNCHANGED <<head, cursor, socket, upcoming, lastCursor, mentioned, passed>>

\* Mutant: a stop leaves the cursor at the end of the stream.
StopAtHead ==
    /\ socket \in {"open", "connecting"}
    /\ StreamFault
    /\ socket' = "stopped"
    /\ cursor' = head
    /\ UNCHANGED <<head, upcoming, lastCursor, handling, mentioned, passed, dropped>>

\* stop closes the socket and saves the last cursor; inserts go on meanwhile.
StopStream ==
    /\ socket \in {"open", "connecting"}
    /\ StreamFault
    /\ socket' = "stopped"
    /\ cursor' = IF lastCursor # 0 THEN lastCursor ELSE cursor
    /\ UNCHANGED <<head, upcoming, lastCursor, handling, mentioned, passed, dropped>>

\* The process ends, at once in a crash.  An insert that dies with it is made
\* again if its event is within the look-back.
ExitStream ==
    /\ socket # "exited"
    /\ IF socket = "stopped" THEN UNCHANGED streamFaults ELSE StreamFault
    /\ socket' = "exited"
    /\ lastCursor' = 0 /\ handling' = {}
    /\ dropped' = dropped \cup {e \in handling : e + LookBack <= cursor}
    /\ UNCHANGED <<head, cursor, upcoming, mentioned, passed>>

StreamNext ==
    \/ EventAppears \/ StartStream \/ Connect \/ Disconnect \/ Deliver
    \/ StopStream \/ ExitStream
    \/ \E e \in Mentions : InsertMention(e) \/ InsertFails(e)

StreamSpec == StreamInit /\ [][StreamNext]_streamVars

\* The supervisor restarts the process, reconnects are timed, calls return.
StreamFairness ==
    /\ WF_streamVars(StartStream) /\ WF_streamVars(Connect) /\ WF_streamVars(Deliver)
    /\ WF_streamVars(socket = "stopped" /\ ExitStream)
    /\ \A e \in Mentions : WF_streamVars(InsertMention(e))

-----------------------------------------------------------------------------
\* Every variable has its type, and no cursor runs ahead of the stream.
StreamTypeOK ==
    /\ head \in 0..MaxEvents /\ cursor \in 0..head /\ lastCursor \in 0..head
    /\ socket \in {"exited", "off", "connecting", "open", "stopped"}
    /\ upcoming \in 1..(head + 1)
    /\ {handling, mentioned} \subseteq SUBSET Mentions
    /\ {passed, dropped} \subseteq SUBSET (1..head)
    /\ streamFaults \in 0..MaxStreamFaults

\* What the socket has gone past has its row or is being inserted, whatever was
\* disconnected or restarted and however rarely the cursor was saved, unless
\* its insert was lost or there was no cursor to go by
\* (jetstream-subscriber.ts:13-18).
NoMentionSkipped ==
    socket = "open" =>
        \A e \in Mentions : e < upcoming => e \in mentioned \cup handling \cup dropped \cup passed

\* A mention gets its row, unless the subscriber is off.
MentionsArrive ==
    \A e \in Mentions :
        e <= head ~> e \in mentioned \cup dropped \cup passed \/ socket = "off"
=============================================================================
