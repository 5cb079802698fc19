----------------------------- MODULE DailyBrief -----------------------------
(***************************************************************************)
(* The brief of a day (services/daily-brief.ts, services/daily-brief-cron.ts, *)
(* routes/daily-brief.ts): composed when someone asks, kept in Redis for an   *)
(* hour under the day, and stored once, by the first hourly tick of an API    *)
(* process within the hour after midnight.  The day has two parts here: that  *)
(* hour, and the twenty-three later ones, in which a tick does nothing.       *)
(***************************************************************************)
EXTENDS Naturals

CONSTANTS
    Crons,          \* API processes
    BriefAsks,      \* requests under way: of the page, or of an administrator
    MaxBriefDays,   \* bound: days
    MaxBriefAsks,   \* bound: requests
    MaxBriefFaults  \* bound: deaths, drift, pauses, failed calls

ASSUME BriefAssumption ==
    /\ Crons \cap BriefAsks = {}
    /\ MaxBriefDays \in Nat \ {0} /\ {MaxBriefAsks, MaxBriefFaults} \subseteq Nat

VARIABLES
    briefDay, firstHour,  \* the date, and whether it is between 00:00 and 01:00 UTC
    paused,       \* the flag daily_brief is off
    makers,       \* what each process's cron and each request does
    ticked,       \* processes whose timer has fired in this part of the day
    live,         \* brief:live:<date>
    snapshots,    \* daily_briefs
    excused,      \* a fault or a pause in this first hour (history)
    missed,       \* days without a snapshot though a process ticked in time (history)
    rewritten,    \* days whose snapshot a cron has replaced for no reason (history)
    composed, briefAsks, briefFaults  \* counters of the bounds

briefTime   == <<briefDay, firstHour, paused, ticked>>
briefPast   == <<excused, missed, rewritten>>
briefBounds == <<composed, briefAsks, briefFaults>>
briefVars   == <<briefTime, makers, live, snapshots, briefPast, briefBounds>>

BriefDays == 1..MaxBriefDays
NoBrief   == [date |-> 0, edition |-> 0, stubs |-> FALSE]
Waiting   == [pc |-> "wait", kind |-> "cron", brief |-> NoBrief, surprised |-> FALSE]
Down      == [Waiting EXCEPT !.pc = "down"]
NoBriefAsk     == [Waiting EXCEPT !.kind = "none"]
Rest(m)   == IF m \in Crons THEN Waiting ELSE NoBriefAsk

BriefInit ==
    /\ briefDay = 1 /\ firstHour = FALSE /\ paused = FALSE
    /\ makers = [m \in Crons \cup BriefAsks |-> IF m \in Crons THEN Down ELSE NoBriefAsk]
    /\ ticked = {}
    /\ live = [d \in BriefDays |-> NoBrief] /\ snapshots = [d \in BriefDays |-> NoBrief]
    /\ excused = FALSE /\ missed = {} /\ rewritten = {}
    /\ composed = 0 /\ briefAsks = 0 /\ briefFaults = 0

BriefFault ==
    /\ briefFaults < MaxBriefFaults
    /\ briefFaults' = briefFaults + 1
    /\ excused' = (excused \/ firstHour)
    /\ UNCHANGED <<missed, rewritten, composed, briefAsks>>

NoBriefFault == UNCHANGED <<briefPast, briefBounds>>

-----------------------------------------------------------------------------
(* Time and the timers. *)

\* start: a tick at once, then one every hour.
Starts(p) ==
    /\ makers[p] = Down
    /\ makers' = [makers EXCEPT ![p] = [Waiting EXCEPT !.pc = "flag"]]
    /\ ticked' = ticked \cup {p}
    /\ NoBriefFault
    /\ UNCHANGED <<briefDay, firstHour, paused, live, snapshots>>

Ticks(p) ==
    /\ makers[p] = Waiting /\ p \notin ticked
    /\ makers' = [makers EXCEPT ![p].pc = "flag"]
    /\ ticked' = ticked \cup {p}
    /\ NoBriefFault
    /\ UNCHANGED <<briefDay, firstHour, paused, live, snapshots>>

Dies(p) ==
    /\ p \in Crons /\ makers[p].pc # "down"
    /\ BriefFault
    /\ makers' = [makers EXCEPT ![p] = Down]
    /\ UNCHANGED <<briefTime, live, snapshots>>

\* An hour has one tick of every process, and sees its end; unless timers drift over
\* its border or a tick takes that long.
InTime == \A p \in Crons : makers[p] = Down \/ (makers[p] = Waiting /\ p \in ticked)

DayPasses ==
    /\ firstHour' = ~firstHour
    /\ IF firstHour THEN UNCHANGED briefDay ELSE briefDay < MaxBriefDays /\ briefDay' = briefDay + 1
    /\ ticked' = {}
    /\ UNCHANGED <<paused, makers, live, snapshots>>

TimePasses ==
    /\ InTime
    /\ DayPasses
    /\ LET late == firstHour /\ ~excused /\ snapshots[briefDay] = NoBrief
                   /\ \E p \in Crons : makers[p] # Down
       IN  missed' = IF late THEN missed \cup {briefDay} ELSE missed
    /\ excused' = paused
    /\ UNCHANGED <<rewritten, briefBounds>>

Drifts ==
    /\ ~InTime
    /\ DayPasses
    /\ briefFaults < MaxBriefFaults
    /\ briefFaults' = briefFaults + 1
    /\ excused' = TRUE
    /\ UNCHANGED <<missed, rewritten, composed, briefAsks>>

\* The operator turns the flag.
Pause ==
    /\ BriefFault
    /\ paused' = ~paused
    /\ UNCHANGED <<briefDay, firstHour, ticked, makers, live, snapshots>>

LiveExpires(d) ==
    /\ live[d] # NoBrief
    /\ live' = [live EXCEPT ![d] = NoBrief]
    /\ NoBriefFault
    /\ UNCHANGED <<briefTime, makers, snapshots>>

-----------------------------------------------------------------------------
(* The tick of a cron. *)

\* The flag, and then the hour.
CheckHour(p) ==
    /\ makers[p].pc = "flag"
    /\ makers' = [makers EXCEPT ![p].pc = IF paused \/ ~firstHour THEN "wait" ELSE "look"]
    /\ NoBriefFault
    /\ UNCHANGED <<briefTime, live, snapshots>>

\* A snapshot of the day ends the tick; a read that fails is taken for none.
LooksUp(p) ==
    /\ makers[p].pc = "look"
    /\ \/ /\ makers' = [makers EXCEPT ![p].pc =
                 IF snapshots[briefDay] # NoBrief THEN "wait" ELSE "compose"]
          /\ NoBriefFault
       \/ BriefFault /\ makers' = [makers EXCEPT ![p].pc = "compose", ![p].surprised = TRUE]
    /\ UNCHANGED <<briefTime, live, snapshots>>

-----------------------------------------------------------------------------
(* composeDailyBrief, for a cron, the page or an administrator. *)

AskBrief(r, kind) ==
    /\ makers[r] = NoBriefAsk
    /\ kind = "page" => ~paused
    /\ briefAsks < MaxBriefAsks
    /\ briefAsks' = briefAsks + 1
    /\ makers' = [makers EXCEPT ![r].pc = "compose", ![r].kind = kind]
    /\ UNCHANGED <<briefTime, live, snapshots, briefPast, composed, briefFaults>>

\* The cached brief of the date, or a new one of that date.
ReadsLive(m) ==
    /\ makers[m].pc = "compose"
    /\ \/ /\ live[briefDay] # NoBrief
          /\ makers' = [makers EXCEPT ![m] =
                 IF @.kind = "page" THEN Rest(m)
                 ELSE [@ EXCEPT !.pc = "store", !.brief = live[briefDay]]]
          /\ NoBriefFault
       \/ /\ live[briefDay] = NoBrief
          /\ makers' = [makers EXCEPT ![m].pc = "pick", ![m].brief.date = briefDay]
          /\ NoBriefFault
       \/ /\ BriefFault
          /\ makers' = [makers EXCEPT ![m].pc = "pick", ![m].brief.date = briefDay]
    /\ UNCHANGED <<briefTime, live, snapshots>>

\* Five picks; one that fails is a stub like one there is nothing for.
Picks(m) ==
    /\ makers[m].pc = "pick"
    /\ composed' = composed + 1
    /\ \/ /\ makers' = [makers EXCEPT ![m].pc = "cache", ![m].brief.edition = composed']
          /\ UNCHANGED <<briefPast, briefFaults>>
       \/ /\ briefFaults < MaxBriefFaults
          /\ briefFaults' = briefFaults + 1
          /\ makers' = [makers EXCEPT ![m].pc = "cache", ![m].brief.edition = composed',
                                      ![m].brief.stubs = TRUE]
          /\ UNCHANGED briefPast
    /\ UNCHANGED <<briefTime, live, snapshots, briefAsks>>

CachesBrief(m) ==
    /\ makers[m].pc = "cache"
    /\ \/ live' = [live EXCEPT ![makers[m].brief.date] = makers[m].brief] /\ NoBriefFault
       \/ BriefFault /\ UNCHANGED live
    /\ makers' = [makers EXCEPT ![m] =
           IF @.kind = "page" THEN Rest(m) ELSE [@ EXCEPT !.pc = "store"]]
    /\ UNCHANGED <<briefTime, snapshots>>

\* upsert, under the date of the brief; to those between their look and their own upsert
\* it comes as a surprise.
StoresSnapshot(m) ==
    LET d == makers[m].brief.date
    IN  /\ makers[m].pc = "store"
        /\ snapshots' = [snapshots EXCEPT ![d] = makers[m].brief]
        /\ makers' = [n \in DOMAIN makers |->
               IF n = m THEN Rest(m)
               ELSE [makers[n] EXCEPT !.surprised = @ \/ makers[n].pc \in
                                          {"compose", "pick", "cache", "store"}]]
        /\ rewritten' = rewritten \cup {e \in {d} : /\ makers[m].kind = "cron"
                                                    /\ snapshots[d] # NoBrief
                                                    /\ ~makers[m].surprised}
        /\ UNCHANGED <<briefTime, live, excused, missed, briefBounds>>

\* The upsert fails, or a call throws: the tick is over, and the request.
GivesUpBrief(m) ==
    /\ makers[m].pc = "store"
    /\ BriefFault
    /\ makers' = [makers EXCEPT ![m] = Rest(m)]
    /\ UNCHANGED <<briefTime, live, snapshots>>

BriefNext ==
    \/ TimePasses \/ Drifts \/ Pause
    \/ \E d \in BriefDays : LiveExpires(d)
    \/ \E p \in Crons : Starts(p) \/ Ticks(p) \/ Dies(p) \/ CheckHour(p) \/ LooksUp(p)
    \/ \E r \in BriefAsks : \E kind \in {"page", "admin"} : AskBrief(r, kind)
    \/ \E m \in Crons \cup BriefAsks :
        ReadsLive(m) \/ Picks(m) \/ CachesBrief(m) \/ StoresSnapshot(m) \/ GivesUpBrief(m)

BriefSpec == BriefInit /\ [][BriefNext]_briefVars

-----------------------------------------------------------------------------
(* Properties *)

\* Every variable has its type; a brief lies under its own date.
BriefTypeOK ==
    /\ briefDay \in BriefDays /\ {firstHour, paused, excused} \subseteq BOOLEAN
    /\ ticked \subseteq Crons /\ missed \cup rewritten \subseteq BriefDays
    /\ \A m \in DOMAIN makers :
        /\ makers[m].pc \in {"down", "wait", "flag", "look", "compose", "pick", "cache", "store"}
        /\ makers[m].kind \in {"none", "cron", "page", "admin"}
    /\ \A d \in BriefDays : {live[d].date, snapshots[d].date} \subseteq {0, d}
    /\ composed \in Nat /\ briefAsks \in 0..MaxBriefAsks /\ briefFaults \in 0..MaxBriefFaults

\* A day gets its snapshot when a process was up in its first hour, or came up in it, and
\* nothing failed (daily-brief-cron.ts:9-12).
EveryDayKept == missed = {}

\* A cron never replaces a snapshot, but for another's made since it looked
\* (daily-brief-cron.ts:11, "safely re-runs without duplicating").
SnapshotsStay == rewritten = {}

\* A stored brief is of an edition composed for its day, and no day has the brief of another.
EditionsApart ==
    \A d, e \in BriefDays :
        snapshots[d] # NoBrief /\ snapshots[d].edition = snapshots[e].edition => d = e
=============================================================================
