------------------------------ MODULE Breakers ------------------------------
(***************************************************************************)
(* Calls to a provider through circuit breakers (packages/clients: circuit,  *)
(* external-breakers, llm/breaker, factory), as two of their callers live    *)
(* with them: the worker that embeds an edited paper, with its dead letters  *)
(* (workers/index.ts), and those who ask and do not come again: a reader who *)
(* wants a text, the health page's probe (routes/health.ts).                 *)
(***************************************************************************)
EXTENDS Jobs, FiniteSets

CONSTANTS
    Embedders,         \* concurrent jobs of the embed worker (4)
    Reindexes,         \* jobs of edits of one paper; they have ids of their own
    Calls,             \* calls that may be in flight
    Volume,            \* fires before a circuit may open (5)
    MaxEmbedAttempts,  \* attempts of a job (3, without a delay)
    MaxEmbedStalls,    \* stalls of a job before it fails (1)
    MaxFires,          \* bound: fires of a circuit in one window
    MaxStumbles,       \* bound: calls a provider fails or leaves without an answer
    MaxResets,         \* bound: resets of circuits
    MaxSideCalls,           \* bound: calls besides the worker's, and windows that pass
    MaxEmbedFaults     \* bound: failed writes, deaths, lost letters

ASSUME BreakersAssumption ==
    /\ "none" \notin Embedders
    /\ {Volume, MaxEmbedAttempts} \subseteq Nat \ {0}
    /\ {MaxEmbedStalls, MaxFires, MaxStumbles, MaxResets, MaxSideCalls, MaxEmbedFaults} \subseteq Nat

VARIABLES
    circuits,    \* one circuit for each wrapped method
    calls,       \* the calls in flight
    embedders,   \* what each slot of the worker does
    reindexes,   \* the jobs of the edits
    letters,     \* worker:dlq, the entries of each job
    edition,       \* edits of the paper so far
    embedded,    \* the edit whose text the stored embedding is of
    blamed,      \* methods whose own provider failed (history)
    trials, resets,   \* requests let through while not closed, and resets (history)
    unposted, overwritten,  \* jobs that stalled out or whose letter was lost;
                          \* embeddings of an older text written last (history)
    stumbles, sideCalls, embedFaults  \* counters of the bounds

embedHistory == <<blamed, trials, resets, unposted, overwritten>>
jobSide      == <<embedders, reindexes, letters, edition, embedded>>
breakerBounds == <<stumbles, sideCalls, embedFaults>>
breakerVars  == <<circuits, calls, jobSide, embedHistory, breakerBounds>>

NoSlot == "none"
NoCall == [by |-> NoSlot, waits |-> {}]
IdleSlot   == [pc |-> "idle", job |-> NoSlot, read |-> 0]

\* Without a provider of embeddings DeepSeek's client hands the text to Gemini's,
\* which is wrapped already: two circuits, one inside the other.
Route(method) == IF method = "embed" THEN {"embed", "fallback"} ELSE {method}
Around(m)     == IF m = "fallback" THEN {"embed"} ELSE {}
Methods       == {"text", "embed", "fallback"}

-----------------------------------------------------------------------------
(* One circuit: opossum, as wrapBreaker sets it up. *)

NewCircuit == [state |-> "closed", trial |-> FALSE, fires |-> 0, failures |-> 0]

Admits(c) == c.state = "closed" \/ c.trial

Fired(c) == [c EXCEPT !.fires = @ + 1, !.trial = FALSE]

\* More than half of the fires of the window failed, or the trial did.
Failing(c) ==
    LET bad == c.failures + 1
        trips == c.state = "half" \/ (c.fires >= Volume /\ 2 * bad > c.fires)
    IN  [c EXCEPT !.failures = bad,
                  !.trial = IF trips THEN FALSE ELSE @,
                  !.state = IF trips THEN "open" ELSE @]

\* A success closes a half-open circuit; the window keeps its failures.
Succeeded(c) ==
    IF c.state = "half" THEN [c EXCEPT !.state = "closed", !.trial = FALSE] ELSE c

BreakersInit ==
    /\ circuits = [m \in Methods |-> NewCircuit]
    /\ calls = [c \in Calls |-> NoCall]
    /\ embedders = [s \in Embedders |-> IdleSlot]
    /\ reindexes = [j \in Reindexes |-> NewJob]
    /\ letters = [j \in Reindexes |-> 0]
    /\ edition = 0 /\ embedded = 0
    /\ blamed = {} /\ trials = 0 /\ resets = 0 /\ unposted = {} /\ overwritten = FALSE
    /\ stumbles = 0 /\ sideCalls = 0 /\ embedFaults = 0

EmbedFault ==
    /\ embedFaults < MaxEmbedFaults
    /\ embedFaults' = embedFaults + 1

SideCall ==
    /\ sideCalls < MaxSideCalls
    /\ sideCalls' = sideCalls + 1

Stumble ==
    /\ stumbles < MaxStumbles
    /\ stumbles' = stumbles + 1

\* After resetTimeoutMs an open circuit lets one call through.
Reset(m) ==
    /\ circuits[m].state = "open"
    /\ resets < MaxResets
    /\ circuits' = [circuits EXCEPT ![m].state = "half", ![m].trial = TRUE]
    /\ resets' = resets + 1
    /\ UNCHANGED <<calls, jobSide, blamed, trials, unposted, overwritten,
                   stumbles, sideCalls, embedFaults>>

\* The buckets of the rolling window, of five minutes, run out.
WindowPasses(m) ==
    /\ circuits[m].fires > 0
    /\ SideCall
    /\ circuits' = [circuits EXCEPT ![m].fires = 0, ![m].failures = 0]
    /\ UNCHANGED <<calls, jobSide, embedHistory, stumbles, embedFaults>>

-----------------------------------------------------------------------------
(* A call.  What its caller hears is what becomes of heard: "answer",        *)
(* "unavailable" or "invalid"; neither of the errors is terminal.            *)

Hear(by, heard) ==
    /\ embedders' = [s \in Embedders |->
           IF s # by THEN embedders[s]
           ELSE [embedders[s] EXCEPT !.pc = IF heard = "answer" THEN "write" ELSE "fail"]]

\* The outermost circuit that does not admit the call turns it away; to those
\* around it that is a failure of their own call.
TurnsAway(method, m) ==
    /\ m \in Route(method)
    /\ ~Admits(circuits[m])
    /\ \A n \in Around(m) \cap Route(method) : Admits(circuits[n])
    /\ circuits' = [n \in Methods |->
           IF n = m THEN Fired(circuits[n])
           ELSE IF n \in Around(m) \cap Route(method) THEN Failing(Fired(circuits[n]))
           ELSE circuits[n]]
    /\ blamed' = blamed \cup (Around(m) \cap Route(method))

LetsThrough(method) ==
    /\ \A m \in Route(method) : Admits(circuits[m])
    /\ circuits' = [n \in Methods |->
           IF n \in Route(method) THEN Fired(circuits[n]) ELSE circuits[n]]
    /\ trials' = IF \E m \in Route(method) : circuits[m].state # "closed"
                 THEN trials + 1 ELSE trials

HasRoom(method) == \A m \in Route(method) : circuits[m].fires < MaxFires

\* by asks for method: an answer will come, or the call is turned away.
Ask(by, method) ==
    /\ HasRoom(method)
    /\ \E c \in Calls :
        /\ calls[c] = NoCall
        /\ LetsThrough(method)
        /\ calls' = [calls EXCEPT ![c] = [by |-> by, waits |-> Route(method)]]
    /\ UNCHANGED blamed

AskInVain(by, method) ==
    /\ HasRoom(method)
    /\ \E m \in Methods : TurnsAway(method, m)
    /\ UNCHANGED <<calls, trials>>

\* Someone wants a text, or the health page asks for an embedding: its probe is a call
\* like any other, which goes on when the page has given it up after 1.5 s.
AskOnce(method) ==
    /\ SideCall
    /\ Ask(NoSlot, method) \/ AskInVain(NoSlot, method)
    /\ UNCHANGED <<jobSide, resets, unposted, overwritten, stumbles, embedFaults>>

\* The circuits that still wait for the call note its success.
Answered(c) ==
    /\ calls[c] # NoCall
    /\ circuits' = [m \in Methods |->
           IF m \in calls[c].waits THEN Succeeded(circuits[m]) ELSE circuits[m]]
    /\ calls' = [calls EXCEPT ![c] = NoCall]
    /\ Hear(calls[c].by, "answer")
    /\ UNCHANGED <<reindexes, letters, edition, embedded, embedHistory, stumbles, sideCalls,
                   embedFaults>>

\* The provider fails the call, and every try of its client.
CallFails(c) ==
    /\ calls[c] # NoCall
    /\ Stumble
    /\ circuits' = [m \in Methods |->
           IF m \in calls[c].waits THEN Failing(circuits[m]) ELSE circuits[m]]
    /\ blamed' = blamed \cup calls[c].waits
    /\ calls' = [calls EXCEPT ![c] = NoCall]
    /\ Hear(calls[c].by, "invalid")
    /\ UNCHANGED <<reindexes, letters, edition, embedded, trials, resets, unposted,
                   overwritten, sideCalls, embedFaults>>

\* A circuit's timeout (for the fallback and the embedding around it, 30 s each; three
\* requests of Gemini's client take longer): nobody ends the request, which goes on
\* with the circuits inside still waiting for it.
TimesOut(c, m) ==
    /\ calls[c] # NoCall
    /\ m \in calls[c].waits
    /\ Stumble
    /\ LET over == {m} \cup (Around(m) \cap calls[c].waits)
       IN  /\ circuits' = [n \in Methods |->
                  IF n \in over THEN Failing(circuits[n]) ELSE circuits[n]]
           /\ blamed' = blamed \cup over
           /\ calls' = [calls EXCEPT ![c] =
                  IF calls[c].waits = over THEN NoCall
                  ELSE [by |-> NoSlot, waits |-> calls[c].waits \ over]]
    /\ Hear(calls[c].by, "unavailable")
    /\ UNCHANGED <<reindexes, letters, edition, embedded, trials, resets, unposted,
                   overwritten, sideCalls, embedFaults>>

-----------------------------------------------------------------------------
(* An edit asks for a new embedding; the worker makes it.                    *)

EditText(j) ==
    /\ reindexes[j].state = "none"
    /\ edition' = edition + 1
    /\ reindexes' = [reindexes EXCEPT ![j] = Added(@)]
    /\ UNCHANGED <<circuits, calls, embedders, letters, embedded, embedHistory,
                   stumbles, sideCalls, embedFaults>>

TakeReindex(s, j) ==
    /\ embedders[s].pc = "idle"
    /\ reindexes[j].state = "waiting"
    /\ reindexes' = [reindexes EXCEPT ![j] = Taken(@)]
    /\ embedders' = [embedders EXCEPT ![s] = [pc |-> "load", job |-> j, read |-> 0]]
    /\ UNCHANGED <<circuits, calls, letters, edition, embedded, embedHistory,
                   stumbles, sideCalls, embedFaults>>

\* The text is read, and the model is asked for its embedding.
AskEmbedding(s) ==
    /\ embedders[s].pc = "load"
    /\ \/ /\ Ask(s, "embed")
          /\ embedders' = [embedders EXCEPT ![s].pc = "wait", ![s].read = edition]
       \/ AskInVain(s, "embed") /\ embedders' = [embedders EXCEPT ![s].pc = "fail"]
    /\ UNCHANGED <<reindexes, letters, edition, embedded, resets, unposted, overwritten,
                   stumbles, sideCalls, embedFaults>>

\* upsert: the row of the paper, whatever text it was made of.
StoreEmbedding(s) ==
    /\ embedders[s].pc = "write"
    /\ embedded' = embedders[s].read
    /\ overwritten' = (overwritten \/ embedded > embedders[s].read)
    /\ reindexes' = [reindexes EXCEPT ![embedders[s].job] = Completed(@)]
    /\ embedders' = [embedders EXCEPT ![s] = IdleSlot]
    /\ UNCHANGED <<circuits, calls, letters, edition, blamed, trials, resets,
                   unposted, stumbles, sideCalls, embedFaults>>

\* A query of the database fails: the paper is not read or its row not written.
EmbedQueryFails(s) ==
    /\ embedders[s].pc \in {"load", "write"}
    /\ EmbedFault
    /\ embedders' = [embedders EXCEPT ![s].pc = "fail"]
    /\ UNCHANGED <<circuits, calls, reindexes, letters, edition, embedded, embedHistory,
                   stumbles, sideCalls>>

\* shouldRecordDeadLetter, of a job whose attempt has just failed.
IsLast(job) == job.attempts >= MaxEmbedAttempts

\* The attempt throws; the failed listener notes a job that will not be tried again.
EmbedThrows(s, heard) ==
    LET j   == embedders[s].job
        job == Retried(reindexes[j], FALSE, MaxEmbedAttempts)
    IN  /\ embedders[s].pc = "fail"
        /\ reindexes' = [reindexes EXCEPT ![j] = job]
        /\ embedders' = [embedders EXCEPT ![s] = IdleSlot]
        /\ IF heard
           THEN /\ letters' = [letters EXCEPT ![j] = IF IsLast(job) THEN @ + 1 ELSE @]
                /\ UNCHANGED <<unposted, embedFaults>>
           ELSE /\ EmbedFault
                /\ unposted' = unposted \cup {j}
                /\ UNCHANGED letters
        /\ UNCHANGED <<circuits, calls, edition, embedded, blamed, trials,
                       resets, overwritten, stumbles, sideCalls>>

\* The worker dies.  A job that stalled too often fails with attempts left, which the
\* listener takes for one that will be tried again.
EmbedderDies(s) ==
    LET j == embedders[s].job
    IN  /\ embedders[s].pc # "idle"
        /\ EmbedFault
        /\ reindexes' = [reindexes EXCEPT ![j] = Stalled(@, MaxEmbedStalls)]
        /\ unposted' = unposted \cup {j}
        /\ embedders' = [embedders EXCEPT ![s] = IdleSlot]
        /\ calls' = [c \in Calls |-> IF calls[c].by = s THEN NoCall ELSE calls[c]]
        /\ UNCHANGED <<circuits, letters, edition, embedded, blamed, trials,
                       resets, overwritten, stumbles, sideCalls>>

BreakersNext ==
    \/ \E method \in {"text", "embed"} : AskOnce(method)
    \/ \E m \in Methods : Reset(m) \/ WindowPasses(m)
    \/ \E c \in Calls :
        \/ Answered(c) \/ CallFails(c)
        \/ \E m \in Methods : TimesOut(c, m)
    \/ \E j \in Reindexes : EditText(j) \/ \E s \in Embedders : TakeReindex(s, j)
    \/ \E s \in Embedders :
        \/ AskEmbedding(s) \/ StoreEmbedding(s) \/ EmbedQueryFails(s)
        \/ EmbedderDies(s)
        \/ \E heard \in BOOLEAN : EmbedThrows(s, heard)

BreakersSpec == BreakersInit /\ [][BreakersNext]_breakerVars

-----------------------------------------------------------------------------
\* Every variable has its type.
BreakersTypeOK ==
    /\ circuits \in [Methods -> [state: {"closed", "open", "half"}, trial: BOOLEAN,
                                 fires: 0..MaxFires, failures: Nat]]
    /\ calls \in [Calls -> [by: Embedders \cup {NoSlot}, waits: SUBSET Methods]]
    /\ embedders \in [Embedders -> [pc: {"idle", "load", "wait", "write", "fail"},
                                    job: Reindexes \cup {NoSlot}, read: Nat]]
    /\ reindexes \in [Reindexes -> JobSet(MaxEmbedAttempts, MaxEmbedStalls)]
    /\ letters \in [Reindexes -> Nat]
    /\ {edition, embedded, trials, resets} \subseteq Nat
    /\ blamed \subseteq Methods /\ unposted \subseteq Reindexes
    /\ stumbles \in 0..MaxStumbles /\ sideCalls \in 0..MaxSideCalls /\ resets <= MaxResets
    /\ embedFaults \in 0..MaxEmbedFaults

\* A circuit stands open only for failures of its own method: a model that
\* fails at texts leaves the embeddings alone, and the other way round
\* (llm/breaker.ts:18-22).
CircuitsKeepApart == \A m \in Methods : circuits[m].state # "closed" => m \in blamed

\* While a circuit on its way is not closed, no more calls reach a provider than
\* there were resets, whichever caller or probe asks (circuit.ts:11).
ProvidersSpared == trials <= resets

\* A job that failed for good has its dead letter, and one letter, and no job that is
\* alive or done has one, unless a worker died or the letter was not written
\* (workers/index.ts:63-73).
LettersTell ==
    \A j \in Reindexes :
        /\ letters[j] = (IF reindexes[j].state = "failed" /\ j \notin unposted THEN 1 ELSE 0)
           \/ j \in unposted
        /\ letters[j] <= 1

\* The stored embedding is of the text as the last edit left it, once no job is
\* alive, unless a job failed or wrote an older text over a newer one
\* (workers/index.ts:280-303).
EmbeddingFresh ==
    \/ embedded = edition
    \/ overwritten
    \/ \E j \in Reindexes : Live(reindexes[j]) \/ reindexes[j].state = "failed"
=============================================================================
