----------------------------- MODULE SectionIndex ----------------------------
(***************************************************************************)
(* The search index of a paper (services/sections.ts): a run of the saga     *)
(* embeds the chunks of its text with a few workers and replaces the rows of *)
(* paper_sections, by a DELETE and an INSERT.  Two jobs of a paper may be at *)
(* it at once, with other texts.  Searches pay from the same daily budget    *)
(* and are answered from a cache.                                            *)
(***************************************************************************)
EXTENDS Naturals, FiniteSets

CONSTANTS
    Indexings, Searches,  \* runs of the indexer, and searches, at once
    TextChunks,           \* chunks of the metadata (0), of the HTML (1) and of newer HTML (2)
    EmbedWorkers,         \* CONCURRENCY
    EmbedCap,             \* LLM_EMBED_TOKENS_DAILY, in chunks; 0 disables
    MaxIndexings, MaxSearches, MaxIndexFaults   \* bounds

ASSUME SectionIndexAssumption ==
    /\ TextChunks \in [0..2 -> Nat \ {0}] /\ EmbedWorkers \in Nat \ {0}
    /\ {EmbedCap, MaxIndexings, MaxSearches, MaxIndexFaults} \subseteq Nat

VARIABLES
    htmlText,    \* the text the HTML of the paper has now; 0 without
    sectionRows,        \* paper_sections of the paper
    indexing,    \* runs: text, next chunk, chunks at the model and chunks embedded
    searching, resultCache,   \* searches; the Redis key of the query
    embedCount,  \* llm:budget:embed:<today>
    embedCalls,  \* calls of the model (history)
    everIndexed, refused,     \* rows were inserted; a chunk was refused (history)
    indexings, searches, indexFaults   \* counters of the bounds

indexVars == <<htmlText, sectionRows, indexing, searching, resultCache, embedCount, embedCalls,
               everIndexed, refused, indexings, searches, indexFaults>>

NoRun     == [pc |-> "idle", text |-> 0, next |-> 0, flying |-> {}, embedded |-> {}]
NoResults == [kept |-> FALSE, found |-> {}]

IndexInit ==
    /\ htmlText = 0 /\ sectionRows = {} /\ indexing = [r \in Indexings |-> NoRun]
    /\ searching = [s \in Searches |-> "idle"] /\ resultCache = NoResults
    /\ embedCount = 0 /\ embedCalls = 0 /\ everIndexed = FALSE /\ refused = FALSE
    /\ indexings = 0 /\ searches = 0 /\ indexFaults = 0

IndexFault    == indexFaults < MaxIndexFaults /\ indexFaults' = indexFaults + 1
IndexingAt(r, l) == indexing[r].pc = l
IndexGo(r, l) == indexing' = [indexing EXCEPT ![r].pc = l]
IndexOver(r)  == indexing' = [indexing EXCEPT ![r] = NoRun]

-----------------------------------------------------------------------------
(* The indexer.                                                              *)

\* recompileHtml and its kin write new HTML; the index is left as it is.
NewHtml ==
    /\ htmlText < 2 /\ htmlText' = htmlText + 1
    /\ UNCHANGED <<sectionRows, indexing, searching, resultCache, embedCount, embedCalls, everIndexed,
                   refused, indexings, searches, indexFaults>>

\* indexSectionsBestEffort: the text of the HTML, or of the metadata if there is none.
BeginRun(r, text) ==
    /\ IndexingAt(r, "idle") /\ indexings < MaxIndexings /\ indexings' = indexings + 1
    /\ indexing' = [indexing EXCEPT ![r] = [NoRun EXCEPT !.pc = "embed", !.text = text]]
    /\ UNCHANGED <<htmlText, sectionRows, searching, resultCache, embedCount, embedCalls, everIndexed,
                   refused, searches>>

BeginIndexing(r)  == BeginRun(r, htmlText) /\ UNCHANGED indexFaults
StorageIsAway(r)  == htmlText > 0 /\ IndexFault /\ BeginRun(r, 0)

\* consumeFor: the count is kept when it is refused.
Charged   == IF EmbedCap > 0 THEN embedCount + 1 ELSE embedCount
WithinCap == EmbedCap = 0 \/ Charged <= EmbedCap

\* A worker takes the next chunk of the queue and pays for it.
Queued(r) == /\ IndexingAt(r, "embed") /\ indexing[r].next < TextChunks[indexing[r].text]
             /\ Cardinality(indexing[r].flying) < EmbedWorkers

TakeChunk(r) ==
    /\ Queued(r) /\ embedCount' = Charged
    /\ indexing' = [indexing EXCEPT ![r].next = @ + 1,
                       ![r].flying = IF WithinCap THEN @ \cup {indexing[r].next} ELSE @]
    /\ embedCalls' = IF WithinCap THEN embedCalls + 1 ELSE embedCalls
    /\ refused' = (refused \/ ~WithinCap)
    /\ UNCHANGED <<htmlText, sectionRows, searching, resultCache, everIndexed, indexings, searches, indexFaults>>

\* Redis is away: the chunk is a failure.
ChargeFails(r) ==
    /\ Queued(r) /\ IndexFault /\ indexing' = [indexing EXCEPT ![r].next = @ + 1]
    /\ UNCHANGED <<htmlText, sectionRows, searching, resultCache, embedCount, embedCalls, everIndexed,
                   refused, indexings, searches>>

\* The model answers the chunks in any order.
EmbedChunk(r) ==
    \E c \in indexing[r].flying :
        /\ indexing' = [indexing EXCEPT ![r].flying = @ \ {c}, ![r].embedded = @ \cup {c}]
        /\ UNCHANGED <<htmlText, sectionRows, searching, resultCache, embedCount, embedCalls, everIndexed,
                       refused, indexings, searches, indexFaults>>

EmbedFails(r) ==
    \E c \in indexing[r].flying :
        /\ IndexFault /\ indexing' = [indexing EXCEPT ![r].flying = @ \ {c}]
        /\ UNCHANGED <<htmlText, sectionRows, searching, resultCache, embedCount, embedCalls, everIndexed,
                       refused, indexings, searches>>

\* Without a chunk that was embedded the rows are left as they are.
EmbedsDone(r) ==
    /\ IndexingAt(r, "embed") /\ indexing[r].flying = {}
    /\ indexing[r].next = TextChunks[indexing[r].text]
    /\ IF indexing[r].embedded = {} THEN IndexOver(r) ELSE IndexGo(r, "delete")
    /\ UNCHANGED <<htmlText, sectionRows, searching, resultCache, embedCount, embedCalls, everIndexed,
                   refused, indexings, searches, indexFaults>>

\* The chunks in the order of the text, with indices from zero.
Repacked(r) ==
    {[idx |-> Cardinality({d \in indexing[r].embedded : d < c}), text |-> indexing[r].text,
      chunk |-> c] : c \in indexing[r].embedded}

\* replaceForPaper is two statements.
DeleteRows(r) ==
    /\ IndexingAt(r, "delete") /\ sectionRows' = {} /\ IndexGo(r, "insert")
    /\ UNCHANGED <<htmlText, searching, resultCache, embedCount, embedCalls, everIndexed, refused,
                   indexings, searches, indexFaults>>

\* paper_sections_unique: the INSERT of a run fails as a whole over the rows of another.
Indices(set) == {row.idx : row \in set}

InsertRows(r) ==
    /\ IndexingAt(r, "insert") /\ IndexOver(r)
    /\ IF Indices(sectionRows) \cap Indices(Repacked(r)) = {}
       THEN sectionRows' = sectionRows \cup Repacked(r) /\ everIndexed' = TRUE
       ELSE UNCHANGED <<sectionRows, everIndexed>>
    /\ UNCHANGED <<htmlText, searching, resultCache, embedCount, embedCalls, refused, indexings,
                   searches, indexFaults>>

\* A statement fails, or the process dies: the run ends where it is, and no error is told.
IndexingFails(r) ==
    /\ ~IndexingAt(r, "idle") /\ IndexFault /\ IndexOver(r)
    /\ UNCHANGED <<htmlText, sectionRows, searching, resultCache, embedCount, embedCalls, everIndexed,
                   refused, indexings, searches>>

-----------------------------------------------------------------------------
(* search, of one query: the cache, the budget, the model, the rows.         *)

SearchGo(s, l) == searching' = [searching EXCEPT ![s] = l]

\* A result of the cache costs nothing.
BeginSearch(s) ==
    /\ searching[s] = "idle" /\ searches < MaxSearches /\ searches' = searches + 1
    /\ IF resultCache.kept THEN UNCHANGED searching ELSE SearchGo(s, "charge")
    /\ UNCHANGED <<htmlText, sectionRows, indexing, resultCache, embedCount, embedCalls, everIndexed,
                   refused, indexings, indexFaults>>

ChargeSearch(s) ==
    /\ searching[s] = "charge" /\ embedCount' = Charged
    /\ SearchGo(s, IF WithinCap THEN "sectionRows" ELSE "idle")
    /\ embedCalls' = IF WithinCap THEN embedCalls + 1 ELSE embedCalls
    /\ UNCHANGED <<htmlText, sectionRows, indexing, resultCache, everIndexed, refused, indexings, searches,
                   indexFaults>>

\* The rows of the moment are the result, and are cached, none as well.
FindRows(s) ==
    /\ searching[s] = "sectionRows" /\ SearchGo(s, "idle")
    /\ resultCache' = [kept |-> TRUE, found |-> sectionRows]
    /\ UNCHANGED <<htmlText, sectionRows, indexing, embedCount, embedCalls, everIndexed, refused, indexings,
                   searches, indexFaults>>

SearchFails(s) ==
    /\ searching[s] # "idle" /\ IndexFault /\ SearchGo(s, "idle")
    /\ UNCHANGED <<htmlText, sectionRows, indexing, resultCache, embedCount, embedCalls, everIndexed,
                   refused, indexings, searches>>

\* SEARCH_CACHE_TTL_SECONDS are over.
CacheExpires ==
    /\ resultCache.kept /\ resultCache' = NoResults
    /\ UNCHANGED <<htmlText, sectionRows, indexing, searching, embedCount, embedCalls, everIndexed, refused,
                   indexings, searches, indexFaults>>

IndexNext ==
    \/ NewHtml \/ CacheExpires
    \/ \E r \in Indexings :
        \/ BeginIndexing(r) \/ StorageIsAway(r) \/ TakeChunk(r) \/ ChargeFails(r) \/ EmbedChunk(r)
        \/ EmbedFails(r) \/ EmbedsDone(r) \/ DeleteRows(r) \/ InsertRows(r) \/ IndexingFails(r)
    \/ \E s \in Searches : BeginSearch(s) \/ ChargeSearch(s) \/ FindRows(s) \/ SearchFails(s)

IndexSpec == IndexInit /\ [][IndexNext]_indexVars

-----------------------------------------------------------------------------
(* Properties.                                                               *)

\* Types, with the unique index of the table.
IndexTypeOK ==
    /\ htmlText \in 0..2 /\ sectionRows \subseteq [idx: Nat, text: 0..2, chunk: Nat]
    /\ Cardinality(sectionRows) = Cardinality(Indices(sectionRows))
    /\ \A r \in Indexings : /\ indexing[r].pc \in {"idle", "embed", "delete", "insert"}
                            /\ indexing[r].flying \cap indexing[r].embedded = {}
    /\ searching \in [Searches -> {"idle", "charge", "sectionRows"}]

\* Rows are of one text, in its order and without holes, whatever ran at once and failed.
OneText(set) ==
    /\ Indices(set) = 0..(Cardinality(set) - 1) \/ set = {}
    /\ \A a, b \in set : a.text = b.text /\ (a.idx < b.idx => a.chunk < b.chunk)

\* "Partial intermediate state never lands in the DB" (sections.ts:310), as far as two
\* statements keep it: the rows, and what a search is told of them, are of one run; a paper
\* that was indexed is without rows only while a run is between its statements, or after a
\* failure; without failures and refusals no chunk is missing; and the calls stay in the budget.
IndexHolds ==
    /\ OneText(sectionRows) /\ OneText(resultCache.found)
    /\ everIndexed /\ sectionRows = {} => indexFaults > 0 \/ \E r \in Indexings : IndexingAt(r, "insert")
    /\ indexFaults = 0 /\ ~refused =>
           \A row \in sectionRows : Cardinality(sectionRows) = TextChunks[row.text]
    /\ EmbedCap > 0 => embedCalls <= EmbedCap
=============================================================================
