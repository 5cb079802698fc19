------------------------------- MODULE Explain ------------------------------
(***************************************************************************)
(* The explainer (services/explain.ts) and the counters that limit it        *)
(* (services/llm-budget.ts): requests of signed-in readers for a summary of  *)
(* a paper at a tier, from the cached row to the model's text.  A topic is   *)
(* a paper and a tier.  The counters are Redis keys with the day in their    *)
(* name, so a request that runs past midnight charges two days.              *)
(***************************************************************************)
EXTENDS Naturals

CONSTANTS
    Topics, Askers, Asks,   \* what is explained, to whom, requests at once
    Costs,                  \* estimated tokens of a prompt and its answer
    TokenCap,               \* LLM_TEXT_TOKENS_DAILY; 0 disables
    DailyQuota,             \* LLM_EXPLAIN_PER_USER_DAILY; 0 disables
    CacheDays,              \* CACHE_TTL_MS
    LastDay, MaxAsks, MaxAskFaults   \* bounds

ASSUME ExplainAssumption ==
    Costs \cup {TokenCap, DailyQuota, CacheDays, LastDay, MaxAsks, MaxAskFaults} \subseteq Nat

Days == 0..LastDay

VARIABLES
    summary,   \* rows of summaries: who wrote the text, and the day of created_at
    today,
    tokens,    \* llm:budget:text:<day>
    quota,     \* quota:explain:<user>:<day>
    ask,       \* requests
    spent,     \* tokens of the calls of the model, by the day they were charged to (history)
    granted,   \* calls of the model a quota let through (history)
    asked, askFaults   \* counters of the bounds

askVars == <<summary, today, tokens, quota, ask, spent, granted, asked, askFaults>>

NoSummary == [by |-> "none", since |-> 0]
NoAsk     == [pc |-> "idle", user |-> CHOOSE u \in Askers : TRUE,
              topic |-> CHOOSE t \in Topics : TRUE, counted |-> FALSE, day |-> 0]

ExplainInit ==
    /\ summary \in [Topics -> {NoSummary, [by |-> "author", since |-> 0]}] /\ today = 0
    /\ tokens = [d \in Days |-> 0] /\ quota = [u \in Askers |-> [d \in Days |-> 0]]
    /\ ask = [a \in Asks |-> NoAsk] /\ spent = tokens /\ granted = quota
    /\ asked = 0 /\ askFaults = 0

AskAt(a, l) == ask[a].pc = l
AskGo(a, l) == ask' = [ask EXCEPT ![a].pc = l]
AskFault    == askFaults < MaxAskFaults /\ askFaults' = askFaults + 1

Cached(t) == summary[t].by # "none" /\ today - summary[t].since < CacheDays

\* The row is read once; a text that is young enough is the answer and costs nothing.
Explains(a, u, t) ==
    /\ AskAt(a, "idle") /\ asked < MaxAsks /\ asked' = asked + 1
    /\ ask' = IF Cached(t) THEN ask
              ELSE [ask EXCEPT ![a] = [NoAsk EXCEPT !.pc = "gate", !.user = u, !.topic = t]]
    /\ UNCHANGED <<summary, today, tokens, quota, spent, granted, askFaults>>

\* bumpAndCheckPerUserDaily: the count is taken before it is compared, and kept.
OverQuota(count) == DailyQuota > 0 /\ count > DailyQuota

CheckQuota(a) ==
    LET u == ask[a].user
        count == quota[u][today] + 1
    IN  /\ AskAt(a, "gate")
        /\ quota' = IF DailyQuota > 0 THEN [quota EXCEPT ![u][today] = count] ELSE quota
        /\ ask' = IF OverQuota(count) THEN [ask EXCEPT ![a] = NoAsk]
                  ELSE [ask EXCEPT ![a].pc = "charge", ![a].counted = TRUE, ![a].day = today]
        /\ UNCHANGED <<summary, today, tokens, spent, granted, asked, askFaults>>

\* Redis does not answer: the quota lets the reader through.
QuotaOutage(a) ==
    /\ AskAt(a, "gate") /\ AskFault /\ AskGo(a, "charge")
    /\ UNCHANGED <<summary, today, tokens, quota, spent, granted, asked>>

\* consume: INCRBY, then the sum is compared.  A refused prompt stays in the counter.
OverCapBefore(sum, cost) == TokenCap > 0 /\ sum - cost > TokenCap

OverCap(sum, cost) == TokenCap > 0 /\ sum > TokenCap

ChargeTokens(a, cost) ==
    LET sum  == tokens[today] + cost
        r    == ask[a]
        over == OverCap(sum, cost)
    IN  /\ AskAt(a, "charge")
        /\ tokens' = IF TokenCap > 0 THEN [tokens EXCEPT ![today] = sum] ELSE tokens
        /\ IF over THEN UNCHANGED <<spent, granted>>
           ELSE /\ spent' = [spent EXCEPT ![today] = @ + cost]
                /\ granted' = IF r.counted THEN [granted EXCEPT ![r.user][r.day] = @ + 1]
                              ELSE granted
        /\ ask' = IF over THEN [ask EXCEPT ![a] = NoAsk] ELSE [ask EXCEPT ![a].pc = "model"]
        /\ UNCHANGED <<summary, today, quota, asked, askFaults>>

\* The HTML, Redis or the model does not answer: the request fails.
ExplainFails(a) ==
    /\ ~AskAt(a, "idle") /\ AskFault /\ ask' = [ask EXCEPT ![a] = NoAsk]
    /\ UNCHANGED <<summary, today, tokens, quota, spent, granted, asked>>

\* upsertSummary: a new row is as old as today, a row that was there keeps its created_at.
SaveSummary(t) ==
    [by |-> "model", since |-> IF summary[t].by = "none" THEN today ELSE summary[t].since]

Generate(a) ==
    /\ AskAt(a, "model")
    /\ summary' = [summary EXCEPT ![ask[a].topic] = SaveSummary(ask[a].topic)]
    /\ ask' = [ask EXCEPT ![a] = NoAsk]
    /\ UNCHANGED <<today, tokens, quota, spent, granted, asked, askFaults>>

Midnight ==
    /\ today < LastDay /\ today' = today + 1
    /\ UNCHANGED <<summary, tokens, quota, ask, spent, granted, asked, askFaults>>

ExplainNext ==
    \/ Midnight
    \/ \E a \in Asks :
        \/ CheckQuota(a) \/ QuotaOutage(a) \/ Generate(a) \/ ExplainFails(a)
        \/ \E c \in Costs : ChargeTokens(a, c)
        \/ \E u \in Askers, t \in Topics : Explains(a, u, t)

ExplainSpec == ExplainInit /\ [][ExplainNext]_askVars

-----------------------------------------------------------------------------
(* Properties.                                                              *)

\* Types, and no counter ever misses a call: a day's counters cover what was spent that day.
ExplainTypeOK ==
    /\ summary \in [Topics -> [by: {"none", "author", "model"}, since: Days]]
    /\ ask \in [Asks -> [pc: {"idle", "gate", "charge", "model"}, user: Askers, topic: Topics,
                         counted: BOOLEAN, day: Days]]
    /\ \A d \in Days : TokenCap > 0 => tokens[d] >= spent[d]

\* The daily budget defends the bill (llm-budget.ts): whatever runs at once and whenever
\* midnight passes, the calls charged to a day stay within the cap, and a reader has at most
\* the quota's number of fresh texts a day, except while Redis is down (explain.ts:54).
BudgetsHold ==
    /\ TokenCap > 0 => \A d \in Days : spent[d] <= TokenCap
    /\ DailyQuota > 0 => \A u \in Askers, d \in Days : granted[u][d] <= DailyQuota
=============================================================================
