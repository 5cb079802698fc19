----------------------------- MODULE RecordProofs -----------------------------
(***************************************************************************)
(* What some of the services that answer people promise, for every number    *)
(* of requests, readers, keystrokes, keys and failures: the explainer's      *)
(* budgets (Explain), the picked handle (HandlePicker), the keys of a DID    *)
(* document (UserKeys), the submission wizard and the papers it makes        *)
(* (Intake), the edits of a paper (PaperEdit), the profiles from Bluesky     *)
(* (ProfileSync), the accounts people sign in with (Identity), their          *)
(* sessions (Sessions), the thread that announces a paper (Announcement),    *)
(* what is searched (SectionIndex), the figures of a paper (Figures).  Each  *)
(* is proved of its own specification; MCRecordsProofs takes it to           *)
(* MCRecords, which lets one of them take its steps while the others rest.   *)
(***************************************************************************)
EXTENDS Explain, HandlePicker, UserKeys, Intake, PaperEdit, ProfileSync, Identity, Announcement,
        Sessions, SectionIndex, Figures, FiniteSetTheorems, SequenceTheorems, TLAPS

-----------------------------------------------------------------------------
(* The explainer and its budgets. *)

AskStates == [pc: {"idle", "gate", "charge", "model"}, user: Askers \cup {NoAsk.user},
              topic: Topics \cup {NoAsk.topic}, counted: BOOLEAN, day: Days]

\* Requests the quota has let through and that have not been charged for.
Through(u, d) ==
    {a \in Asks : ask[a].pc = "charge" /\ ask[a].counted /\ ask[a].user = u /\ ask[a].day = d}

BudgetTypes ==
    /\ today \in Days
    /\ tokens \in [Days -> Nat] /\ spent \in [Days -> Nat]
    /\ quota \in [Askers -> [Days -> Nat]] /\ granted \in [Askers -> [Days -> Nat]]
    /\ ask \in [Asks -> AskStates]
    /\ \A a \in Asks : ask[a].pc = "gate" => ~ask[a].counted /\ ask[a].user \in Askers
    /\ \A a \in Asks : ask[a].pc = "charge" => ask[a].user \in Askers

\* The counter of tokens is at least what was spent, and that is within the cap.
TokensCovered ==
    TokenCap > 0 => \A d \in Days : spent[d] <= tokens[d] /\ spent[d] <= TokenCap

\* The counter of a reader is at least the texts that were made or are on their way,
\* and these are within the quota.
QuotaCovered ==
    DailyQuota > 0 => \A u \in Askers, d \in Days :
        /\ IsFiniteSet(Through(u, d))
        /\ granted[u][d] + Cardinality(Through(u, d)) <= quota[u][d]
        /\ granted[u][d] + Cardinality(Through(u, d)) <= DailyQuota

BudgetInv == BudgetTypes /\ TokensCovered /\ QuotaCovered

\* A request that does not wait for its charge with a place of the quota leaves it.
LEMMA ThroughLeaves ==
    ASSUME BudgetTypes, NEW a \in Asks, NEW r,
           ask' = [ask EXCEPT ![a] = r], r.pc # "charge" \/ ~r.counted,
           NEW u \in Askers, NEW d \in Days, IsFiniteSet(Through(u, d))
    PROVE  /\ IsFiniteSet(Through(u, d)')
           /\ Cardinality(Through(u, d)') \in Nat /\ Cardinality(Through(u, d)) \in Nat
           /\ Cardinality(Through(u, d)') <= Cardinality(Through(u, d))
           /\ a \in Through(u, d) => Cardinality(Through(u, d)') + 1 = Cardinality(Through(u, d))
  <1>1. Through(u, d)' = Through(u, d) \ {a}
    BY DEF Through, BudgetTypes
  <1> DEFINE s == Through(u, d)
  <1> HIDE DEF s
  <1>2. IsFiniteSet(s) BY DEF s
  <1>3. /\ IsFiniteSet(s \ {a}) /\ Cardinality(s \ {a}) \in Nat /\ Cardinality(s) \in Nat
        /\ Cardinality(s \ {a}) = IF a \in s THEN Cardinality(s) - 1 ELSE Cardinality(s)
    BY <1>2, FS_RemoveElement, FS_CardinalityType
  <1> QED BY <1>1, <1>3 DEF s

\* A step that changes no request changes nobody's place.
LEMMA ThroughStays ==
    ASSUME ask' = ask, NEW u, NEW d
    PROVE  Through(u, d)' = Through(u, d)
  BY DEF Through

\* The counters cover the calls after each step of a request, and past midnight.
LEMMA BudgetStep ==
    ASSUME BudgetInv, [ExplainNext]_askVars
    PROVE  BudgetInv'
  <1> USE ExplainAssumption DEF BudgetInv
  <1>1. CASE UNCHANGED askVars
    <2>1. \A u \in Askers, d \in Days : Through(u, d)' = Through(u, d)
      BY <1>1, ThroughStays DEF askVars
    <2> QED BY <1>1, <2>1 DEF askVars, BudgetTypes, TokensCovered, QuotaCovered
  <1>2. CASE Midnight
    <2>1. \A u \in Askers, d \in Days : Through(u, d)' = Through(u, d)
      BY <1>2, ThroughStays DEF Midnight
    <2>2. PICK n \in Nat : n = today BY DEF BudgetTypes, Days
    <2>3. n < LastDay /\ LastDay \in Nat /\ today' = n + 1 BY <1>2, <2>2 DEF Midnight
    <2>4. n + 1 \in Days BY <2>3 DEF Days
    <2> QED BY <1>2, <2>1, <2>3, <2>4 DEF Midnight, BudgetTypes, TokensCovered, QuotaCovered
  <1> SUFFICES ASSUME NEW a \in Asks,
                      \/ CheckQuota(a) \/ QuotaOutage(a) \/ Generate(a) \/ ExplainFails(a)
                      \/ \E c \in Costs : ChargeTokens(a, c)
                      \/ \E u \in Askers, t \in Topics : Explains(a, u, t)
               PROVE  BudgetInv'
    BY <1>1, <1>2 DEF ExplainNext
  <1>n. /\ NoAsk \in AskStates /\ NoAsk.pc = "idle" /\ ~NoAsk.counted
    BY DEF NoAsk, AskStates, Days
  <1>3. ASSUME CheckQuota(a) PROVE BudgetInv'
    <2> DEFINE u == ask[a].user
               count == quota[u][today] + 1
    <2>1. /\ AskAt(a, "gate") /\ u \in Askers /\ today \in Days /\ quota[u][today] \in Nat
          /\ count \in Nat
      BY <1>3 DEF CheckQuota, BudgetTypes, AskAt
    <2>2. /\ quota' = IF DailyQuota > 0 THEN [quota EXCEPT ![u][today] = count] ELSE quota
          /\ UNCHANGED <<summary, today, tokens, spent, granted, asked, askFaults>>
      BY <1>3 DEF CheckQuota
    <2>q. quota' \in [Askers -> [Days -> Nat]]
      BY <2>1, <2>2 DEF BudgetTypes
    <2>t. TokensCovered' BY <2>2 DEF TokensCovered
    <2>3. CASE OverQuota(count)
      <3>1. ask' = [ask EXCEPT ![a] = NoAsk] BY <1>3, <2>3 DEF CheckQuota
      <3>2. BudgetTypes'
        BY <3>1, <2>2, <2>q, <1>n DEF BudgetTypes
      <3>3. ASSUME DailyQuota > 0, NEW v \in Askers, NEW d \in Days
            PROVE  /\ IsFiniteSet(Through(v, d)')
                   /\ granted'[v][d] + Cardinality(Through(v, d)') <= quota'[v][d]
                   /\ granted'[v][d] + Cardinality(Through(v, d)') <= DailyQuota
        <4>1. /\ IsFiniteSet(Through(v, d)') /\ Cardinality(Through(v, d)') \in Nat
              /\ Cardinality(Through(v, d)) \in Nat
              /\ Cardinality(Through(v, d)') <= Cardinality(Through(v, d))
          BY <3>1, <3>3, <1>n, ThroughLeaves DEF QuotaCovered
        <4>2. quota[v][d] <= quota'[v][d] /\ quota[v][d] \in Nat /\ quota'[v][d] \in Nat
          BY <2>1, <2>2 DEF BudgetTypes
        <4>3. granted'[v][d] = granted[v][d] /\ granted[v][d] \in Nat BY <2>2 DEF BudgetTypes
        <4>4. /\ granted[v][d] + Cardinality(Through(v, d)) <= quota[v][d]
              /\ granted[v][d] + Cardinality(Through(v, d)) <= DailyQuota
          BY <3>3 DEF QuotaCovered
        <4> QED BY <4>1, <4>2, <4>3, <4>4
      <3> QED BY <3>2, <3>3, <2>t DEF QuotaCovered
    <2>4. CASE ~OverQuota(count)
      <3> DEFINE r == [ask[a] EXCEPT !.pc = "charge", !.counted = TRUE, !.day = today]
      <3>1. ask' = [ask EXCEPT ![a] = r] BY <1>3, <2>4 DEF CheckQuota
      <3>2. /\ r \in AskStates /\ r.pc = "charge" /\ r.counted /\ r.user = u /\ r.day = today
        BY <2>1 DEF BudgetTypes, AskStates
      <3> HIDE DEF r
      <3>3. BudgetTypes'
        BY <3>1, <3>2, <2>1, <2>2, <2>q DEF BudgetTypes
      <3>4. ASSUME DailyQuota > 0, NEW v \in Askers, NEW d \in Days
            PROVE  /\ IsFiniteSet(Through(v, d)')
                   /\ granted'[v][d] + Cardinality(Through(v, d)') <= quota'[v][d]
                   /\ granted'[v][d] + Cardinality(Through(v, d)') <= DailyQuota
        <4>1. granted'[v][d] = granted[v][d] /\ granted[v][d] \in Nat BY <2>2 DEF BudgetTypes
        <4>2. /\ granted[v][d] + Cardinality(Through(v, d)) <= quota[v][d]
              /\ granted[v][d] + Cardinality(Through(v, d)) <= DailyQuota
              /\ IsFiniteSet(Through(v, d)) /\ quota[v][d] \in Nat
          BY <3>4 DEF QuotaCovered, BudgetTypes
        <4>3. a \notin Through(v, d) BY <2>1 DEF Through, AskAt
        <4>4. CASE v = u /\ d = today
          <5>1. Through(v, d)' = Through(v, d) \cup {a}
            BY <4>4, <3>1, <3>2 DEF Through, BudgetTypes
          <5>2. /\ IsFiniteSet(Through(v, d) \cup {a}) /\ Cardinality(Through(v, d)) \in Nat
                /\ Cardinality(Through(v, d) \cup {a}) = Cardinality(Through(v, d)) + 1
            BY <4>2, <4>3, FS_AddElement, FS_CardinalityType
          <5>3. quota'[v][d] = count /\ count = quota[v][d] + 1
            BY <4>4, <3>4, <2>1, <2>2 DEF BudgetTypes
          <5> HIDE DEF u, count
          <5>4. count <= DailyQuota /\ DailyQuota \in Nat
            BY <3>4, <2>1, <2>4 DEF OverQuota
          <5>5. PICK k \in Nat : k = Cardinality(Through(v, d)) BY <5>2
          <5>6. PICK g \in Nat : g = granted[v][d] BY <4>1
          <5>7. PICK q \in Nat : q = quota[v][d] BY <4>2
          <5>8. g + k <= q BY <4>2, <5>5, <5>6, <5>7
          <5>9. g + (k + 1) <= q + 1 /\ g + (k + 1) \in Nat BY <5>8
          <5>10. granted'[v][d] + Cardinality(Through(v, d)') = g + (k + 1)
            BY <5>1, <5>2, <5>5, <5>6, <4>1
          <5>11. q + 1 = count BY <5>3, <5>7
          <5>12. g + (k + 1) <= DailyQuota BY <5>4, <5>9, <5>11
          <5> QED BY <5>1, <5>2, <5>3, <5>9, <5>10, <5>11, <5>12
        <4>5. CASE ~(v = u /\ d = today)
          <5>1. Through(v, d)' = Through(v, d)
            BY <4>5, <3>1, <3>2, <4>3 DEF Through, BudgetTypes
          <5>2. quota'[v][d] = quota[v][d]
            BY <4>5, <2>1, <2>2 DEF BudgetTypes
          <5> QED BY <5>1, <5>2, <4>1, <4>2
        <4> QED BY <4>4, <4>5
      <3> QED BY <3>3, <3>4, <2>t DEF QuotaCovered
    <2> QED BY <2>3, <2>4
  <1>4. ASSUME NEW r, r \in AskStates, r.pc # "charge" \/ ~r.counted,
               (r.pc = "gate") => (~r.counted /\ r.user \in Askers),
               (r.pc = "charge") => r.user \in Askers,
               ask' = [ask EXCEPT ![a] = r] \/ ask' = ask,
               UNCHANGED <<today, tokens, quota, spent, granted>>
        PROVE  BudgetInv'
    <2>1. BudgetTypes' BY <1>4 DEF BudgetTypes
    <2>2. TokensCovered' BY <1>4 DEF TokensCovered
    <2>3. ASSUME DailyQuota > 0, NEW v \in Askers, NEW d \in Days
          PROVE  /\ IsFiniteSet(Through(v, d)')
                 /\ granted'[v][d] + Cardinality(Through(v, d)') <= quota'[v][d]
                 /\ granted'[v][d] + Cardinality(Through(v, d)') <= DailyQuota
      <3>1. /\ granted[v][d] + Cardinality(Through(v, d)) <= quota[v][d]
            /\ granted[v][d] + Cardinality(Through(v, d)) <= DailyQuota
            /\ IsFiniteSet(Through(v, d)) /\ quota[v][d] \in Nat /\ granted[v][d] \in Nat
            /\ quota'[v][d] = quota[v][d] /\ granted'[v][d] = granted[v][d]
        BY <2>3, <1>4 DEF QuotaCovered, BudgetTypes
      <3>2. CASE ask' = ask
        BY <3>1, <3>2, ThroughStays
      <3>3. CASE ask' = [ask EXCEPT ![a] = r]
        <4>1. /\ IsFiniteSet(Through(v, d)') /\ Cardinality(Through(v, d)') \in Nat
              /\ Cardinality(Through(v, d)) \in Nat
              /\ Cardinality(Through(v, d)') <= Cardinality(Through(v, d))
          BY <3>1, <3>3, <1>4, ThroughLeaves
        <4> QED BY <3>1, <4>1
      <3> QED BY <3>2, <3>3, <1>4
    <2> QED BY <2>1, <2>2, <2>3 DEF QuotaCovered
  <1>5. ASSUME QuotaOutage(a) PROVE BudgetInv'
    <2> DEFINE r == [ask[a] EXCEPT !.pc = "charge"]
    <2>1. /\ r \in AskStates /\ ~r.counted /\ r.pc = "charge" /\ r.user \in Askers
          /\ ask' = [ask EXCEPT ![a] = r]
      BY <1>5 DEF QuotaOutage, AskAt, AskGo, BudgetTypes, AskStates
    <2> HIDE DEF r
    <2> QED BY <2>1, <1>5, <1>4 DEF QuotaOutage
  <1>6. ASSUME Generate(a) \/ ExplainFails(a) PROVE BudgetInv'
    BY <1>6, <1>n, <1>4 DEF Generate, ExplainFails
  <1>7. ASSUME NEW u \in Askers, NEW t \in Topics, Explains(a, u, t) PROVE BudgetInv'
    <2> DEFINE r == [NoAsk EXCEPT !.pc = "gate", !.user = u, !.topic = t]
    <2>1. /\ r \in AskStates /\ ~r.counted /\ r.pc = "gate" /\ r.user \in Askers
      BY <1>n DEF AskStates
    <2>2. ask' = [ask EXCEPT ![a] = r] \/ ask' = ask
      BY <1>7 DEF Explains
    <2> HIDE DEF r
    <2> QED BY <2>1, <2>2, <1>7, <1>4 DEF Explains
  <1>8. ASSUME NEW c \in Costs, ChargeTokens(a, c) PROVE BudgetInv'
    <2> DEFINE r == ask[a]
               sum == tokens[today] + c
               over == OverCap(sum, c)
               s == IF over THEN NoAsk ELSE [r EXCEPT !.pc = "model"]
    <2>1. /\ r \in AskStates /\ r.pc = "charge" /\ r.user \in Askers /\ r.day \in Days
          /\ today \in Days /\ c \in Nat /\ sum \in Nat /\ tokens[today] \in Nat
      BY <1>8 DEF ChargeTokens, AskAt, BudgetTypes, AskStates
    <2>2. /\ tokens' = IF TokenCap > 0 THEN [tokens EXCEPT ![today] = sum] ELSE tokens
          /\ over => spent' = spent /\ granted' = granted
          /\ ~over => spent' = [spent EXCEPT ![today] = @ + c]
          /\ ~over /\ r.counted => granted' = [granted EXCEPT ![r.user][r.day] = @ + 1]
          /\ ~over /\ ~r.counted => granted' = granted
          /\ today' = today /\ quota' = quota
      BY <1>8 DEF ChargeTokens
    <2>3. /\ s \in AskStates /\ s.pc # "charge" /\ s.pc # "gate"
          /\ ask' = [ask EXCEPT ![a] = s]
      BY <1>8, <2>1, <1>n DEF ChargeTokens, AskStates
    <2> HIDE DEF s
    <2>4. tokens' \in [Days -> Nat] /\ spent' \in [Days -> Nat]
      <3>1. tokens \in [Days -> Nat] /\ spent \in [Days -> Nat] BY DEF BudgetTypes
      <3> DEFINE n == spent[today] + c
      <3>2. n \in Nat /\ [spent EXCEPT ![today] = @ + c] = [spent EXCEPT ![today] = n]
        BY <2>1, <3>1
      <3>3. /\ tokens' = [tokens EXCEPT ![today] = sum] \/ tokens' = tokens
            /\ spent' = [spent EXCEPT ![today] = n] \/ spent' = spent
        BY <2>2, <3>2
      <3> HIDE DEF n, sum, over
      <3>4. tokens' \in [Days -> Nat] BY <2>1, <3>1, <3>3
      <3>5. spent' \in [Days -> Nat] BY <2>1, <3>1, <3>2, <3>3
      <3> QED BY <3>4, <3>5
    <2>5. granted' \in [Askers -> [Days -> Nat]]
      BY <2>1, <2>2 DEF BudgetTypes
    <2>6. BudgetTypes'
      BY <2>2, <2>3, <2>4, <2>5 DEF BudgetTypes
    <2>7. TokensCovered'
      <3> SUFFICES ASSUME TokenCap > 0, NEW d \in Days
                   PROVE  spent'[d] <= tokens'[d] /\ spent'[d] <= TokenCap
        BY DEF TokensCovered
      <3>1. /\ spent[d] <= tokens[d] /\ spent[d] <= TokenCap
            /\ spent[d] \in Nat /\ tokens[d] \in Nat
        BY DEF TokensCovered, BudgetTypes
      <3>2. CASE d # today
        BY <3>1, <3>2, <2>1, <2>2 DEF BudgetTypes
      <3>3. CASE d = today
        <4>1. tokens'[d] = tokens[d] + c BY <3>3, <2>1, <2>2 DEF BudgetTypes
        <4>2. CASE over BY <4>1, <4>2, <3>1, <2>1, <2>2
        <4>3. CASE ~over
          <5>1. spent'[d] = spent[d] + c BY <3>3, <4>3, <2>1, <2>2 DEF BudgetTypes
          <5>2. tokens[d] + c <= TokenCap
            <6>1. ~(TokenCap > 0 /\ sum > TokenCap) BY <4>3 DEF OverCap
            <6>2. sum = tokens[d] + c /\ TokenCap \in Nat BY <3>3
            <6> HIDE DEF sum, over
            <6> QED BY <6>1, <6>2, <2>1
          <5>3. PICK m \in Nat : m = spent[d] BY <3>1
          <5>4. PICK n \in Nat : n = tokens[d] BY <3>1
          <5>5. m <= n /\ n + c <= TokenCap /\ TokenCap \in Nat BY <5>2, <5>3, <5>4, <3>1
          <5>6. m + c <= n + c /\ m + c <= TokenCap BY <5>5, <2>1
          <5> QED BY <4>1, <5>1, <5>3, <5>4, <5>6
        <4> QED BY <4>2, <4>3
      <3> QED BY <3>2, <3>3
    <2>8. ASSUME DailyQuota > 0, NEW v \in Askers, NEW d \in Days
          PROVE  /\ IsFiniteSet(Through(v, d)')
                 /\ granted'[v][d] + Cardinality(Through(v, d)') <= quota'[v][d]
                 /\ granted'[v][d] + Cardinality(Through(v, d)') <= DailyQuota
      <3>1. /\ granted[v][d] + Cardinality(Through(v, d)) <= quota[v][d]
            /\ granted[v][d] + Cardinality(Through(v, d)) <= DailyQuota
            /\ IsFiniteSet(Through(v, d)) /\ quota[v][d] \in Nat /\ granted[v][d] \in Nat
            /\ quota'[v][d] = quota[v][d]
        BY <2>8, <2>2 DEF QuotaCovered, BudgetTypes
      <3>2. /\ IsFiniteSet(Through(v, d)') /\ Cardinality(Through(v, d)') \in Nat
            /\ Cardinality(Through(v, d)) \in Nat
            /\ Cardinality(Through(v, d)') <= Cardinality(Through(v, d))
            /\ a \in Through(v, d) => Cardinality(Through(v, d)') + 1 = Cardinality(Through(v, d))
        BY <3>1, <2>3, ThroughLeaves
      <3>3. CASE ~over /\ r.counted /\ v = r.user /\ d = r.day
        <4>1. a \in Through(v, d) BY <3>3, <2>1 DEF Through
        <4>2. granted'[v][d] = granted[v][d] + 1
          BY <3>3, <2>1, <2>2 DEF BudgetTypes
        <4> HIDE DEF r, over, sum
        <4> QED BY <3>1, <3>2, <4>1, <4>2
      <3>4. CASE ~(~over /\ r.counted /\ v = r.user /\ d = r.day)
        <4>1. granted'[v][d] = granted[v][d]
          BY <3>4, <2>1, <2>2 DEF BudgetTypes
        <4> HIDE DEF r, over, sum
        <4> QED BY <3>1, <3>2, <4>1
      <3> QED BY <3>3, <3>4
    <2> QED BY <2>6, <2>7, <2>8 DEF QuotaCovered
  <1> QED BY <1>3, <1>5, <1>6, <1>7, <1>8

\* The daily budget defends the bill.
THEOREM BudgetsHoldAlways == ExplainSpec => []BudgetsHold
  <1>1. ExplainInit => BudgetInv
    <2> SUFFICES ASSUME ExplainInit PROVE BudgetInv OBVIOUS
    <2>0. 0 \in Days BY ExplainAssumption DEF Days
    <2>1. /\ NoAsk \in AskStates /\ NoAsk.pc = "idle" /\ ~NoAsk.counted
      BY <2>0 DEF NoAsk, AskStates
    <2>2. BudgetTypes BY <2>0, <2>1 DEF ExplainInit, BudgetTypes
    <2>3. TokensCovered BY ExplainAssumption DEF ExplainInit, TokensCovered
    <2>4. \A u \in Askers, d \in Days : Through(u, d) = {}
      BY <2>1 DEF Through, ExplainInit
    <2>5. \A u \in Askers, d \in Days : granted[u][d] = 0 /\ quota[u][d] = 0
      BY DEF ExplainInit
    <2>6. QuotaCovered
      <3> SUFFICES ASSUME NEW u \in Askers, NEW d \in Days
                   PROVE  /\ IsFiniteSet(Through(u, d))
                          /\ granted[u][d] + Cardinality(Through(u, d)) <= quota[u][d]
                          /\ granted[u][d] + Cardinality(Through(u, d)) <= DailyQuota
        BY DEF QuotaCovered
      <3>1. IsFiniteSet(Through(u, d)) /\ Cardinality(Through(u, d)) = 0 BY <2>4, FS_EmptySet
      <3> QED BY <3>1, <2>5, ExplainAssumption
    <2> QED BY <2>2, <2>3, <2>6 DEF BudgetInv
  <1>2. BudgetInv => BudgetsHold
    <2> SUFFICES ASSUME BudgetInv PROVE BudgetsHold OBVIOUS
    <2>1. ASSUME DailyQuota > 0, NEW u \in Askers, NEW d \in Days
          PROVE  granted[u][d] <= DailyQuota
      <3>1. /\ granted[u][d] + Cardinality(Through(u, d)) <= DailyQuota
            /\ IsFiniteSet(Through(u, d)) /\ granted[u][d] \in Nat
        BY <2>1 DEF BudgetInv, QuotaCovered, BudgetTypes
      <3>2. Cardinality(Through(u, d)) \in Nat BY <3>1, FS_CardinalityType
      <3> QED BY <3>1, <3>2, ExplainAssumption
    <2> QED BY <2>1 DEF BudgetInv, TokensCovered, BudgetsHold
  <1> QED BY <1>1, <1>2, BudgetStep, PTL DEF ExplainSpec

-----------------------------------------------------------------------------
(* The handle that is picked. *)

Verdicts == {Unsure, Refusal} \cup [kind: {"yes"}, name: Names]

\* An answer that offers a name offers the one that was looked up.
LookUps == {c \in [name: Names, answer: Verdicts] :
                c.answer.kind = "yes" => c.answer.name = c.name}

PickStates == {c \in [pc: {"idle", "check", "set", "granted", "refused"},
                  name: Names \cup {NoName}] : c.pc # "idle" => c.name \in Names}

PickTypes ==
    /\ typed \in Names \cup {NoName} /\ timer \in Names \cup {NoName}
    /\ checks \in Seq(LookUps) /\ verdict \in Verdicts
    /\ claim \in [People -> PickStates] /\ owner \in [Names -> People \cup {Unowned}]
    /\ page \in Names \cup {NoName} /\ meant \in Names \cup {NoName}
    /\ hasty \in BOOLEAN /\ overtaken \in BOOLEAN

\* What the tab has moved on to, and what it was granted, is its user's.
GrantIsMine ==
    /\ page # NoName => claim[Me].pc = "idle" /\ owner[page] = Me
    /\ claim[Me].pc = "granted" => owner[claim[Me].name] = Me

\* Unless an answer was overtaken: when no look-up is due, the last one under way is about
\* the text of the field, and when none is under way, so is the verdict.
VerdictIsTyped ==
    /\ timer # NoName => timer = typed
    /\ ~overtaken /\ timer = NoName /\ typed # NoName /\ checks # <<>>
         => checks[Len(checks)].name = typed
    /\ ~overtaken /\ timer = NoName /\ checks = <<>> /\ verdict.kind = "yes"
         => verdict.name = typed

PickInv == PickTypes /\ GrantIsMine /\ VerdictIsTyped /\ ClaimIsTyped

\* One look-up less; the last one stays, unless it is the one that is taken.
LEMMA WithoutOne ==
    ASSUME checks \in Seq(LookUps), NEW i \in DOMAIN checks
    PROVE  /\ Without(i) \in Seq(LookUps)
           /\ Without(i) = <<>> => Len(checks) = 1
           /\ (i = 1 /\ Without(i) # <<>>) =>
                  Without(i)[Len(Without(i))] = checks[Len(checks)]
  <1>0. /\ i \in 1..Len(checks) /\ Len(checks) \in Nat
        /\ \A j \in 1..Len(checks) : checks[j] \in LookUps
    BY LenProperties, ElementOfSeq
  <1> DEFINE n == Len(checks)
             front == SubSeq(checks, 1, i - 1)
             back  == SubSeq(checks, i + 1, n)
  <1>1. front \in Seq(LookUps) BY <1>0, SubSeqProperties
  <1>2. /\ back \in Seq(LookUps) /\ Len(back) = IF i + 1 <= n THEN n - i ELSE 0
        /\ \A j \in 1..(n - i) : back[j] = checks[i + j]
    <2>1. \A j \in (i + 1)..n : checks[j] \in LookUps BY <1>0
    <2>2. /\ back \in Seq(LookUps)
          /\ Len(back) = IF i + 1 <= n THEN n - (i + 1) + 1 ELSE 0
          /\ \A j \in 1..(n - (i + 1) + 1) : back[j] = checks[(i + 1) + j - 1]
      BY <1>0, <2>1, SubSeqProperties
    <2> HIDE DEF back
    <2> QED BY <1>0, <2>2
  <1>3. Without(i) = front \o back BY DEF Without
  <1> HIDE DEF front, back
  <1>4. Without(i) \in Seq(LookUps) BY <1>1, <1>2, <1>3, ConcatProperties
  <1>5. ASSUME i = 1 PROVE Without(i) = back
    <2>1. front = <<>> BY <1>5, SubSeqEmpty DEF front
    <2> QED BY <1>2, <1>3, <2>1, ConcatEmptySeq
  <1>6. ASSUME Without(i) = <<>> PROVE n = 1
    <2>1. front = <<>> /\ back = <<>>
      <3>1. front \o back = <<>> BY <1>3, <1>6
      <3> QED BY <1>1, <1>2, <3>1, ConcatSimplifications
    <2>2. Len(front) = IF 1 <= i - 1 THEN i - 1 ELSE 0
      BY <1>0, SubSeqProperties DEF front
    <2>3. Len(front) = 0 /\ Len(back) = 0
      <3> HIDE DEF n
      <3> QED BY <2>1, EmptySeq
    <2>4. i = 1
      <3> HIDE DEF n
      <3>1. Len(front) = 0 /\ i \in Nat /\ i >= 1 BY <2>3, <1>0
      <3> QED BY <3>1, <2>2
    <2>5. Len(back) = IF 2 <= n THEN n - 1 ELSE 0 BY <2>4, <1>2
    <2>6. n \in Nat /\ 1 <= n BY <1>0, <2>4
    <2> HIDE DEF n
    <2> QED BY <2>3, <2>5, <2>6
  <1>7. ASSUME i = 1, Without(i) # <<>> PROVE Without(i)[Len(Without(i))] = checks[n]
    <2>1. Without(i) = back BY <1>5, <1>7
    <2>3. Len(back) # 0 BY <1>2, <1>7, <2>1, EmptySeq
    <2>2. /\ Len(back) = n - 1 /\ n - 1 \in 1..(n - i) /\ i + (n - 1) = n
      BY <1>0, <1>2, <1>7, <2>1, <2>3
    <2> QED BY <2>1, <2>2, <1>2
  <1> QED BY <1>4, <1>6, <1>7

\* An answer that comes to the tab, or is lost on the way.
LEMMA ShowsKeeps ==
    ASSUME PickInv, NEW i \in DOMAIN checks, NEW v \in Verdicts, Shows(i, v),
           v.kind = "yes" => v.name = checks[i].name,
           UNCHANGED <<typed, timer, claim, owner, page, meant, hasty>>
    PROVE  PickInv'
  <1> USE DEF PickInv
  <1>1. /\ verdict' = v /\ checks' = Without(i)
        /\ overtaken' = (overtaken \/ i > 1 \/ typed = NoName)
    BY DEF Shows
  <1>2. /\ Without(i) \in Seq(LookUps)
        /\ Without(i) = <<>> => Len(checks) = 1
        /\ (i = 1 /\ Without(i) # <<>>) =>
               Without(i)[Len(Without(i))] = checks[Len(checks)]
    BY WithoutOne DEF PickTypes
  <1>3. PickTypes' BY <1>1, <1>2 DEF PickTypes
  <1>4. GrantIsMine' BY <1>1 DEF GrantIsMine
  <1>5. ClaimIsTyped' BY <1>1 DEF ClaimIsTyped, PickTypes
  <1>6. VerdictIsTyped'
    <2>1. i \in 1..Len(checks) /\ Len(checks) \in Nat BY LenProperties DEF PickTypes
    <2>2. CASE overtaken' BY <2>2 DEF VerdictIsTyped
    <2>3. CASE ~overtaken'
      <3>1. ~overtaken /\ ~(i > 1) /\ typed # NoName BY <2>3, <1>1
      <3>4. i = 1 BY <2>1, <3>1
      <3>5. checks # <<>> BY <2>1, <3>4, EmptySeq
      <3>2. CASE timer # NoName BY <3>2 DEF VerdictIsTyped
      <3>3. CASE timer = NoName
        <4>1. checks[Len(checks)].name = typed BY <3>1, <3>3, <3>5 DEF VerdictIsTyped
        <4>2. CASE Without(i) = <<>>
          <5>1. Len(checks) = 1 BY <1>2, <4>2
          <5> QED BY <5>1, <4>1, <4>2, <3>1, <3>3, <3>4, <1>1 DEF VerdictIsTyped
        <4>3. CASE Without(i) # <<>>
          BY <4>1, <4>3, <3>1, <3>3, <3>4, <1>1, <1>2 DEF VerdictIsTyped
        <4> QED BY <4>2, <4>3
      <3> QED BY <3>2, <3>3
    <2> QED BY <2>2, <2>3 DEF Shows
  <1> QED BY <1>3, <1>4, <1>5, <1>6

\* The invariant holds after each step of the tab and of the server.
LEMMA PickStep ==
    ASSUME PickInv, [HandleNext]_pickVars
    PROVE  PickInv'
  <1> USE HandleAssumption DEF PickInv
  <1>v. /\ Unsure \in Verdicts /\ Refusal \in Verdicts
        /\ Unsure.kind # "yes" /\ Refusal.kind # "yes"
    BY DEF Unsure, Refusal, Verdicts
  <1>c. NoClaim \in PickStates /\ NoClaim.pc = "idle"
    BY DEF NoClaim, PickStates
  <1>0. CASE UNCHANGED pickVars
    BY <1>0 DEF pickVars, PickTypes, GrantIsMine, VerdictIsTyped, ClaimIsTyped
  <1>1. CASE SendCheck
    <2> DEFINE e == [name |-> timer, answer |-> Unsure]
    <2>1. /\ e \in LookUps /\ e.name = timer
      BY <1>1, <1>v DEF SendCheck, PickTypes, LookUps
    <2> HIDE DEF e
    <2>2. /\ Append(checks, e) \in Seq(LookUps) /\ Append(checks, e) # <<>>
          /\ Len(Append(checks, e)) = Len(checks) + 1
          /\ Append(checks, e)[Len(checks) + 1] = e
      BY <2>1, AppendProperties DEF PickTypes
    <2>3. checks' = Append(checks, e) /\ timer' = NoName /\ timer # NoName
      BY <1>1 DEF SendCheck, e
    <2>4. /\ PickTypes' /\ GrantIsMine' /\ ClaimIsTyped'
      BY <1>1, <2>2, <2>3 DEF SendCheck, PickTypes, GrantIsMine, ClaimIsTyped
    <2>5. VerdictIsTyped'
      BY <1>1, <2>1, <2>2, <2>3 DEF SendCheck, VerdictIsTyped
    <2> QED BY <2>4, <2>5
  <1>2. CASE Submit
    <2>1. verdict.kind = "yes" /\ verdict \in Verdicts /\ verdict.name \in Names
      BY <1>2, <1>v DEF Submit, PickTypes, Verdicts, Unsure, Refusal
    <2> DEFINE c == [pc |-> "check", name |-> verdict.name]
    <2>2. c \in PickStates /\ c.pc = "check" /\ c.name = verdict.name BY <2>1 DEF PickStates
    <2> HIDE DEF c
    <2>3. /\ claim' = [claim EXCEPT ![Me] = c] /\ claim'[Me] = c /\ page = NoName
          /\ meant' = typed /\ hasty' = (timer # NoName \/ checks # <<>>)
          /\ UNCHANGED <<typed, timer, checks, verdict, owner, page, overtaken>>
      BY <1>2 DEF Submit, PickTypes, c
    <2>4. PickTypes' BY <2>2, <2>3 DEF PickTypes
    <2>5. GrantIsMine' BY <2>2, <2>3 DEF GrantIsMine
    <2>6. VerdictIsTyped' BY <2>3 DEF VerdictIsTyped
    <2>7. ClaimIsTyped' BY <2>1, <2>2, <2>3 DEF ClaimIsTyped, VerdictIsTyped
    <2> QED BY <2>4, <2>5, <2>6, <2>7
  <1>3. CASE ClaimAnswered
    <2>1. /\ claim' = [claim EXCEPT ![Me] = NoClaim] /\ claim'[Me] = NoClaim
          /\ UNCHANGED <<typed, timer, checks, owner, meant, hasty, overtaken>>
          /\ verdict' = verdict \/ verdict' = Refusal
          /\ page' = page \/ (claim[Me].pc = "granted" /\ page' = claim[Me].name)
      BY <1>3 DEF ClaimAnswered, PickTypes
    <2>2. PickTypes' BY <2>1, <1>c, <1>v DEF PickTypes, PickStates
    <2>3. GrantIsMine' BY <2>1, <1>c DEF GrantIsMine
    <2>4. VerdictIsTyped' BY <2>1, <1>v DEF VerdictIsTyped
    <2>5. ClaimIsTyped' BY <2>1, <1>c DEF ClaimIsTyped
    <2> QED BY <2>2, <2>3, <2>4, <2>5
  <1>4. CASE ClaimLost
    <2>1. /\ claim' = [claim EXCEPT ![Me] = NoClaim] /\ claim'[Me] = NoClaim
          /\ UNCHANGED <<typed, timer, checks, verdict, owner, page, meant, hasty, overtaken>>
      BY <1>4 DEF ClaimLost, PickTypes
    <2>2. PickTypes' BY <2>1, <1>c DEF PickTypes
    <2>3. GrantIsMine' BY <2>1, <1>c DEF GrantIsMine
    <2>4. VerdictIsTyped' BY <2>1 DEF VerdictIsTyped
    <2>5. ClaimIsTyped' BY <2>1, <1>c DEF ClaimIsTyped
    <2> QED BY <2>2, <2>3, <2>4, <2>5
  <1>5. ASSUME NEW n \in Names \cup {NoName}, Type(n) PROVE PickInv'
    <2>1. /\ typed' = n /\ timer' = n /\ verdict' = IF n = NoName THEN Unsure ELSE verdict
          /\ UNCHANGED <<checks, claim, owner, page, meant, hasty, overtaken>>
      BY <1>5 DEF Type
    <2>2. PickTypes' BY <2>1, <1>v DEF PickTypes
    <2>3. GrantIsMine' BY <2>1 DEF GrantIsMine
    <2>4. VerdictIsTyped' BY <2>1, <1>v DEF VerdictIsTyped
    <2>5. ClaimIsTyped' BY <2>1 DEF ClaimIsTyped
    <2> QED BY <2>2, <2>3, <2>4, <2>5
  <1>6. ASSUME NEW i \in DOMAIN checks, CheckAnswered(i) \/ CheckLost(i) PROVE PickInv'
    <2>1. checks[i] \in LookUps BY LenProperties, ElementOfSeq DEF PickTypes
    <2>2. checks[i].answer \in Verdicts /\
          (checks[i].answer.kind = "yes" => checks[i].answer.name = checks[i].name)
      BY <2>1 DEF LookUps
    <2>3. CASE CheckAnswered(i)
      <3> DEFINE v == checks[i].answer
      <3>1. v \in Verdicts /\ (v.kind = "yes" => v.name = checks[i].name) /\ Shows(i, v)
        BY <2>2, <2>3 DEF CheckAnswered
      <3> HIDE DEF v
      <3> QED BY <3>1, <2>3, ShowsKeeps DEF CheckAnswered
    <2>4. CASE CheckLost(i)
      BY <2>4, <1>v, ShowsKeeps DEF CheckLost, LoseCheck
    <2> QED BY <1>6, <2>3, <2>4
  <1>7. ASSUME NEW i \in DOMAIN checks, CheckHandle(i) \/ CheckFails(i) PROVE PickInv'
    <2>0. i \in 1..Len(checks) /\ Len(checks) \in Nat /\ checks[i] \in LookUps
      BY LenProperties, ElementOfSeq DEF PickTypes
    <2>1. PICK v : /\ v = Judged(checks[i].name) \/ v = Refusal
                   /\ checks' = [checks EXCEPT ![i].answer = v]
      BY <1>7 DEF CheckHandle, CheckFails
    <2> DEFINE e == [checks[i] EXCEPT !.answer = v]
    <2>2. e \in LookUps /\ e.name = checks[i].name
      BY <2>0, <2>1, <1>v DEF LookUps, Judged, Verdicts
    <2>3. checks' = [checks EXCEPT ![i] = e] BY <2>1
    <2> HIDE DEF e
    <2>4. /\ checks' \in Seq(LookUps) /\ Len(checks') = Len(checks)
          /\ \A j \in 1..Len(checks) : checks'[j].name = checks[j].name
      BY <2>0, <2>2, <2>3, ExceptSeq DEF PickTypes
    <2>5. checks # <<>> /\ checks' # <<>> /\ Len(checks) \in 1..Len(checks)
      BY <2>0, <2>4, EmptySeq DEF PickTypes
    <2>6. UNCHANGED <<typed, timer, verdict, claim, owner, page, meant, hasty, overtaken>>
      BY <1>7 DEF CheckHandle, CheckFails
    <2>7. PickTypes' BY <2>4, <2>6 DEF PickTypes
    <2>8. GrantIsMine' /\ ClaimIsTyped' BY <2>6 DEF GrantIsMine, ClaimIsTyped
    <2>9. VerdictIsTyped' BY <2>4, <2>5, <2>6 DEF VerdictIsTyped
    <2> QED BY <2>7, <2>8, <2>9
  <1>8. ASSUME NEW u \in People, NEW c \in PickStates, claim' = [claim EXCEPT ![u] = c],
               u = Me => (c.pc # "idle" /\ claim[Me].pc # "idle" /\ c.pc # "granted"
                          /\ c.name = claim[Me].name),
               UNCHANGED <<typed, timer, checks, verdict, owner, page, meant, hasty, overtaken>>
        PROVE  PickInv'
    <2>1. PickTypes' BY <1>8 DEF PickTypes
    <2>2. claim'[Me] = IF u = Me THEN c ELSE claim[Me] BY <1>8 DEF PickTypes
    <2>3. GrantIsMine' BY <1>8, <2>2 DEF GrantIsMine
    <2>4. VerdictIsTyped' BY <1>8 DEF VerdictIsTyped
    <2>5. ClaimIsTyped' BY <1>8, <2>2 DEF ClaimIsTyped
    <2> QED BY <2>1, <2>3, <2>4, <2>5
  <1>9. ASSUME NEW u \in People, ClaimCheck(u) PROVE PickInv'
    <2> DEFINE c == [claim[u] EXCEPT !.pc = IF Available(claim[u].name) THEN "set" ELSE "refused"]
    <2>1. /\ c \in PickStates /\ c.pc # "idle" /\ c.pc # "granted" /\ c.name = claim[u].name
          /\ claim' = [claim EXCEPT ![u] = c] /\ claim[u].pc = "check"
      BY <1>9 DEF ClaimCheck, PickTypes, PickStates
    <2> HIDE DEF c
    <2> QED BY <2>1, <1>8, <1>9 DEF ClaimCheck
  <1>10. ASSUME NEW u \in People, OtherDone(u) PROVE PickInv'
    BY <1>10, <1>8, <1>c DEF OtherDone
  <1>11. ASSUME NEW u \in People, NEW n \in Names, OtherClaims(u, n) PROVE PickInv'
    <2> DEFINE c == [pc |-> "check", name |-> n]
    <2>1. c \in PickStates /\ claim' = [claim EXCEPT ![u] = c] BY <1>11 DEF PickStates, OtherClaims
    <2> HIDE DEF c
    <2> QED BY <2>1, <1>8, <1>11 DEF OtherClaims
  <1>12. ASSUME NEW u \in People, SetHandle(u) PROVE PickInv'
    <2>0. claim[u] \in PickStates /\ claim[u].pc = "set" /\ claim[u].name \in Names
      BY <1>12 DEF SetHandle, PickTypes, PickStates
    <2>1. CASE TakenMeanwhile(u)
      <3> DEFINE c == [claim[u] EXCEPT !.pc = "refused"]
      <3>1. /\ c \in PickStates /\ c.pc = "refused" /\ c.name = claim[u].name
            /\ claim' = [claim EXCEPT ![u] = c] /\ owner' = owner
        BY <1>12, <2>0, <2>1 DEF SetHandle, PickStates
      <3> HIDE DEF c
      <3> QED BY <2>0, <3>1, <1>8, <1>12 DEF SetHandle
    <2>2. CASE ~TakenMeanwhile(u)
      <3> DEFINE c == [claim[u] EXCEPT !.pc = "granted"]
      <3>1. /\ c \in PickStates /\ c.pc = "granted" /\ c.name = claim[u].name
            /\ claim' = [claim EXCEPT ![u] = c]
        BY <1>12, <2>0, <2>2 DEF SetHandle, PickStates
      <3>2. owner' = [n \in Names |-> IF n = claim[u].name THEN u
                                      ELSE IF owner[n] = u THEN Unowned ELSE owner[n]]
        BY <1>12, <2>2 DEF SetHandle
      <3>3. owner[claim[u].name] \in {u, Unowned} BY <2>2 DEF TakenMeanwhile
      <3>4. UNCHANGED <<typed, timer, checks, verdict, page, meant, hasty, overtaken>>
        BY <1>12 DEF SetHandle
      <3> HIDE DEF c
      <3>5. claim'[Me] = IF u = Me THEN c ELSE claim[Me] BY <3>1 DEF PickTypes
      <3>6. PickTypes' BY <3>1, <3>2, <3>4 DEF PickTypes
      <3>7. VerdictIsTyped' BY <3>4 DEF VerdictIsTyped
      <3>8. ClaimIsTyped' BY <2>0, <3>1, <3>4, <3>5 DEF ClaimIsTyped
      <3>9. GrantIsMine'
        <4>1. CASE u = Me
          BY <4>1, <2>0, <3>1, <3>2, <3>4, <3>5 DEF GrantIsMine
        <4>2. CASE u # Me
          <5>1. \A n \in Names : owner[n] = Me => owner'[n] = Me
            BY <4>2, <3>2, <3>3
          <5>2. claim[Me].pc = "granted" => claim[Me].name \in Names
            BY DEF PickTypes, PickStates
          <5> QED BY <4>2, <5>1, <5>2, <3>4, <3>5 DEF GrantIsMine, PickTypes
        <4> QED BY <4>1, <4>2
      <3> QED BY <3>6, <3>7, <3>8, <3>9
    <2> QED BY <2>1, <2>2
  <1> QED BY <1>0, <1>1, <1>2, <1>3, <1>4, <1>5, <1>6, <1>7, <1>9, <1>10, <1>11, <1>12
          DEF HandleNext

\* What the tab asks for and shows is what was typed and granted.
THEOREM PickedHandleHoldsAlways == HandleSpec => []PickedHandleHolds
  <1>1. HandleInit => PickInv
    <2> SUFFICES ASSUME HandleInit PROVE PickInv OBVIOUS
    <2>1. NoClaim \in PickStates /\ NoClaim.pc = "idle" BY DEF NoClaim, PickStates
    <2>2. PickTypes
      BY <2>1, EmptySeq, HandleAssumption DEF HandleInit, PickTypes, Verdicts
    <2>3. VerdictIsTyped BY DEF HandleInit, VerdictIsTyped, Unsure
    <2>4. GrantIsMine /\ ClaimIsTyped
      BY <2>1, HandleAssumption DEF HandleInit, GrantIsMine, ClaimIsTyped
    <2> QED BY <2>2, <2>3, <2>4 DEF PickInv
  <1>2. PickInv => PickedHandleHolds
    BY DEF PickInv, GrantIsMine, PickedHandleHolds, PageIsMine
  <1> QED BY <1>1, <1>2, PickStep, PTL DEF HandleSpec

-----------------------------------------------------------------------------
(* The keys of a DID document. *)

KeyStates == [pc: {"idle", "set", "retire"}, rotates: BOOLEAN, key: Nat, retired: Seq(Nat)]

KeyTypes ==
    /\ issued \in Nat /\ keyFaults \in Nat /\ keysRaced \in BOOLEAN
    /\ keyRow \in [active: Nat, retired: Seq(Nat), plc: BOOLEAN]
    /\ keyReq \in [KeyRequests -> KeyStates]
    /\ copy \in [held: BOOLEAN, keys: SUBSET Nat, etag: Nat \X Nat]
    /\ used \subseteq 1..issued
    /\ \A r \in KeyRequests : keyReq[r].pc = "set" => keyReq[r].key \in 1..issued

KeysIn(s) == {s[i] : i \in DOMAIN s}

\* The retired keys a rotation is about to write.
PendingKeys ==
    UNION {KeysIn(keyReq[r].retired) : r \in {q \in KeyRequests : keyReq[q].pc = "retire"}}

Lost == used \ (DocKeys \cup PendingKeys)

\* A request works alone, on the next it has read, with a key of its own.
AloneWithRow ==
    /\ \A q, r \in KeyRequests : keyReq[q].pc # "idle" /\ keyReq[r].pc # "idle" => q = r
    /\ keyRow.active \in used \cup {NoKey}
    /\ \A r \in KeyRequests :
        /\ keyReq[r].pc = "set" =>
            /\ keyReq[r].key \notin used
            /\ keyReq[r].rotates => keyReq[r].retired = RetiredNext
            /\ ~keyReq[r].rotates => keyRow.active = NoKey
        /\ keyReq[r].pc = "retire" =>
            \/ keyReq[r].retired = keyRow.retired
            \/ \E k \in Nat : keyReq[r].retired = Append(keyRow.retired, k)

\* Each failure costs at most one key.
FaultsLose == Cardinality(Lost) <= keyFaults

CopyIsOld ==
    copy.held => /\ copy.etag[1] \in used \cup {NoKey} /\ copy.etag[2] <= Len(keyRow.retired)
                 /\ copy.etag = Etag => copy.keys = DocKeys

KeyInv == KeyTypes /\ (~keysRaced => AloneWithRow /\ FaultsLose /\ CopyIsOld)

\* Appending a key to a list adds it to the keys of the list.
LEMMA KeysInAppend ==
    ASSUME NEW s \in Seq(Nat), NEW k \in Nat
    PROVE  /\ Append(s, k) \in Seq(Nat) /\ Len(Append(s, k)) = Len(s) + 1
           /\ KeysIn(Append(s, k)) = KeysIn(s) \cup {k}
  <1>1. /\ Append(s, k) \in Seq(Nat) /\ Len(Append(s, k)) = Len(s) + 1
        /\ \A i \in 1..Len(s) : Append(s, k)[i] = s[i]
        /\ Append(s, k)[Len(s) + 1] = k
    BY AppendProperties
  <1> DEFINE a == Append(s, k)
  <1> HIDE DEF a
  <1>2. DOMAIN s = 1..Len(s) /\ Len(s) \in Nat BY LenProperties
  <1>3. DOMAIN a = 1..(Len(s) + 1) BY <1>1, LenProperties DEF a
  <1>4. a[Len(s) + 1] = k /\ \A i \in 1..Len(s) : a[i] = s[i] BY <1>1 DEF a
  <1>5. 1..(Len(s) + 1) = (1..Len(s)) \cup {Len(s) + 1} BY <1>2
  <1>6. KeysIn(a) = KeysIn(s) \cup {k} BY <1>2, <1>3, <1>4, <1>5 DEF KeysIn
  <1> QED BY <1>1, <1>6 DEF a

\* No more keys are lost than before.
LEMMA LostShrinks ==
    ASSUME KeyTypes, FaultsLose, Lost' \subseteq Lost, keyFaults' = keyFaults
    PROVE  FaultsLose'
  <1>0. 1 \in Int /\ issued \in Int /\ used \subseteq 1..issued BY DEF KeyTypes
  <1>1. IsFiniteSet(1..issued) BY <1>0, FS_Interval
  <1>2. IsFiniteSet(Lost)
    <2>1. Lost \in SUBSET (1..issued) BY <1>0 DEF Lost
    <2> QED BY <1>1, <2>1, FS_Subset
  <1>3. /\ Cardinality(Lost') <= Cardinality(Lost) /\ IsFiniteSet(Lost')
    BY <1>2, FS_Subset
  <1>4. Cardinality(Lost') \in Nat /\ Cardinality(Lost) \in Nat /\ keyFaults \in Nat
    BY <1>2, <1>3, FS_CardinalityType DEF KeyTypes
  <1> QED BY <1>3, <1>4 DEF FaultsLose

\* A failure between the two UPDATEs loses one key more.
LEMMA LostGrowsByOne ==
    ASSUME KeyTypes, FaultsLose, NEW k, Lost' \subseteq Lost \cup {k},
           keyFaults' = keyFaults + 1
    PROVE  FaultsLose'
  <1>0. 1 \in Int /\ issued \in Int /\ used \subseteq 1..issued BY DEF KeyTypes
  <1>1. IsFiniteSet(1..issued) BY <1>0, FS_Interval
  <1>2. IsFiniteSet(Lost)
    <2>1. Lost \in SUBSET (1..issued) BY <1>0 DEF Lost
    <2> QED BY <1>1, <2>1, FS_Subset
  <1>3. /\ IsFiniteSet(Lost \cup {k}) /\ Cardinality(Lost) \in Nat
        /\ \/ Cardinality(Lost \cup {k}) = Cardinality(Lost)
           \/ Cardinality(Lost \cup {k}) = Cardinality(Lost) + 1
    BY <1>2, FS_AddElement, FS_CardinalityType
  <1>4. Cardinality(Lost') <= Cardinality(Lost \cup {k}) /\ IsFiniteSet(Lost')
    BY <1>3, FS_Subset
  <1>5. Cardinality(Lost') \in Nat /\ keyFaults \in Nat
    BY <1>4, FS_CardinalityType DEF KeyTypes
  <1>6. PICK m \in Nat : m = Cardinality(Lost) BY <1>3
  <1>7. PICK n \in Nat : n = Cardinality(Lost') BY <1>5
  <1>8. PICK f \in Nat : f = keyFaults BY <1>5
  <1>9. n <= m \/ n <= m + 1 BY <1>3, <1>4, <1>6, <1>7
  <1>10. m <= f BY <1>6, <1>8 DEF FaultsLose
  <1>11. n <= f + 1 BY <1>9, <1>10
  <1> QED BY <1>7, <1>8, <1>11 DEF FaultsLose

\* The invariant holds after each step of a sign-in, a rotation and a resolver.
LEMMA KeyStep ==
    ASSUME KeyInv, [UserKeysNext]_keyVars
    PROVE  KeyInv'
  <1> USE KeysAssumption DEF KeyInv
  <1>t. RetiredNext \in Seq(Nat)
    BY KeysInAppend DEF RetiredNext, KeyTypes
  <1>k. NoKeyReq \in KeyStates /\ NoKeyReq.pc = "idle"
    BY EmptySeq DEF NoKeyReq, KeyStates, NoKey
  <1>r. KeysIn(RetiredNext) = DocKeys
    <2>1. keyRow.active \in Nat /\ keyRow.retired \in Seq(Nat) BY DEF KeyTypes
    <2>2. DocKeys = KeysIn(keyRow.retired)
                    \cup (IF keyRow.active = NoKey THEN {} ELSE {keyRow.active})
      BY DEF DocKeys, KeysIn
    <2> QED BY <2>1, <2>2, KeysInAppend DEF RetiredNext
  <1>d. DocKeys = KeysIn(keyRow.retired)
                  \cup (IF keyRow.active = NoKey THEN {} ELSE {keyRow.active})
    BY DEF DocKeys, KeysIn
  <1>e. DocKeys' = KeysIn(keyRow'.retired)
                   \cup (IF keyRow'.active = NoKey THEN {} ELSE {keyRow'.active})
    BY DEF DocKeys, KeysIn
  <1>1. CASE /\ UNCHANGED <<issued, used, keysRaced, keyFaults, keyReq, copy>>
             /\ keyRow' = keyRow \/ keyRow' = [keyRow EXCEPT !.plc = TRUE]
    <2>1. /\ keyRow'.active = keyRow.active /\ keyRow'.retired = keyRow.retired
          /\ keyRow' \in [active: Nat, retired: Seq(Nat), plc: BOOLEAN]
      BY <1>1 DEF KeyTypes
    <2>2. KeyTypes' BY <1>1, <2>1 DEF KeyTypes
    <2>3. DocKeys' = DocKeys /\ Etag' = Etag /\ RetiredNext' = RetiredNext
      BY <2>1, <1>d, <1>e DEF Etag, RetiredNext
    <2>4. Lost' = Lost BY <1>1, <2>3 DEF Lost, PendingKeys
    <2>5. AloneWithRow => AloneWithRow' BY <1>1, <2>1, <2>3 DEF AloneWithRow
    <2>6. FaultsLose => FaultsLose' BY <1>1, <2>4 DEF FaultsLose
    <2>7. CopyIsOld => CopyIsOld' BY <1>1, <2>1, <2>3 DEF CopyIsOld
    <2> QED BY <1>1, <2>2, <2>5, <2>6, <2>7
  <1>2. CASE Resolve \/ ResolveMoved
    <2>1. /\ UNCHANGED <<keyRow, kek, keyReq, issued, used, keysRaced, keyFaults>>
          /\ copy' = [held |-> TRUE, keys |-> DocKeys, etag |-> Etag] \/ copy' = NoCopy
      BY <1>2 DEF Resolve, ResolveMoved
    <2>2. /\ Etag \in Nat \X Nat /\ DocKeys \subseteq Nat
          /\ Etag[1] = keyRow.active
          /\ Etag[2] = Len(keyRow.retired) /\ Len(keyRow.retired) \in Nat
      <3>1. keyRow.retired \in Seq(Nat) /\ keyRow.active \in Nat BY DEF KeyTypes
      <3>2. /\ Len(keyRow.retired) \in Nat
            /\ \A i \in DOMAIN keyRow.retired : keyRow.retired[i] \in Nat
        BY <3>1, LenProperties, ElementOfSeq
      <3> QED BY <3>1, <3>2 DEF Etag, DocKeys
    <2>3. DocKeys' = DocKeys /\ Etag' = Etag /\ RetiredNext' = RetiredNext
      BY <2>1, <1>d, <1>e DEF Etag, RetiredNext
    <2>c. copy' \in [held: BOOLEAN, keys: SUBSET Nat, etag: Nat \X Nat]
      <3>1. CASE copy' = NoCopy BY <3>1 DEF NoCopy, NoKey
      <3>2. CASE copy' = [held |-> TRUE, keys |-> DocKeys, etag |-> Etag]
        <4>1. DocKeys \in SUBSET Nat /\ Etag \in Nat \X Nat BY <2>2
        <4> QED BY <3>2, <4>1
      <3> QED BY <2>1, <3>1, <3>2
    <2>4. KeyTypes' BY <2>1, <2>c DEF KeyTypes
    <2>5. Lost' = Lost BY <2>1, <2>3 DEF Lost, PendingKeys
    <2>6. AloneWithRow => AloneWithRow' BY <2>1, <2>3 DEF AloneWithRow
    <2>7. FaultsLose => FaultsLose' BY <2>1, <2>5 DEF FaultsLose
    <2>8. AloneWithRow => CopyIsOld'
      BY <2>1, <2>2, <2>3 DEF CopyIsOld, NoCopy, AloneWithRow
    <2> QED BY <2>1, <2>4, <2>6, <2>7, <2>8
  <1>3. ASSUME NEW r \in KeyRequests, NEW b \in BOOLEAN, NEW s \in Seq(Nat), Begin(r, b, s),
               keyReq[r].pc = "idle",
               b => s = RetiredNext, ~b => keyRow.active = NoKey,
               UNCHANGED <<keyRow, kek, copy, used, keyFaults>>
        PROVE  KeyInv'
    <2> DEFINE q == [pc |-> "set", rotates |-> b, key |-> issued + 1, retired |-> s]
    <2>1. /\ q \in KeyStates /\ q.pc = "set" /\ q.key = issued + 1 
          /\ q.retired = s /\ q.rotates = b
          /\ keyReq' = [keyReq EXCEPT ![r] = q] /\ issued' = issued + 1 /\ issued \in Nat
          /\ keysRaced' = (keysRaced \/ \E p \in KeyRequests : keyReq[p].pc # "idle")
      BY <1>3 DEF Begin, KeyStates, KeyTypes
    <2> HIDE DEF q
    <2>2. 1..issued \subseteq 1..(issued + 1) /\ issued + 1 \in 1..(issued + 1) BY <2>1
    <2>3. KeyTypes' BY <1>3, <2>1, <2>2 DEF KeyTypes
    <2>4. DocKeys' = DocKeys /\ Etag' = Etag /\ RetiredNext' = RetiredNext
      BY <1>3, <1>d, <1>e DEF Etag, RetiredNext
    <2>5. PendingKeys' = PendingKeys BY <1>3, <2>1 DEF PendingKeys, KeyTypes
    <2>6. ASSUME ~keysRaced' PROVE AloneWithRow' /\ FaultsLose' /\ CopyIsOld'
      <3>1. /\ AloneWithRow /\ FaultsLose /\ CopyIsOld
            /\ \A p \in KeyRequests : keyReq[p].pc = "idle"
        BY <2>1, <2>6
      <3>2. FaultsLose' BY <3>1, <1>3, <2>4, <2>5 DEF FaultsLose, Lost
      <3>3. CopyIsOld' BY <3>1, <1>3, <2>4 DEF CopyIsOld
      <3>4. q.key \notin used
        <4>1. issued + 1 \notin 1..issued BY <2>1
        <4> QED BY <4>1, <2>1 DEF KeyTypes
      <3>5. \A p \in KeyRequests : keyReq'[p] = IF p = r THEN q ELSE keyReq[p]
        BY <2>1 DEF KeyTypes
      <3>6. AloneWithRow'
        BY <3>1, <3>4, <3>5, <1>3, <2>1, <2>4 DEF AloneWithRow
      <3> QED BY <3>2, <3>3, <3>6
    <2> QED BY <2>3, <2>6
  <1>4. ASSUME NEW r \in KeyRequests, SetKeys(r) PROVE KeyInv'
    <2> DEFINE q == IF keyReq[r].rotates THEN [keyReq[r] EXCEPT !.pc = "retire"] ELSE NoKeyReq
               next == [keyRow EXCEPT !.active = keyReq[r].key]
    <2>0. keyReq[r] \in KeyStates /\ keyReq[r].pc = "set" BY <1>4 DEF SetKeys, KeyTypes
    <2>1. /\ q \in KeyStates /\ q.pc # "set"
          /\ q.pc = "retire" => (keyReq[r].rotates /\ q.retired = keyReq[r].retired)
          /\ keyReq[r].rotates => q.pc = "retire"
          /\ ~keyReq[r].rotates => q.pc = "idle"
          /\ keyReq' = [keyReq EXCEPT ![r] = q]
      BY <1>4, <2>0, <1>k DEF SetKeys, KeyStates
    <2>2. /\ next \in [active: Nat, retired: Seq(Nat), plc: BOOLEAN]
          /\ next.active = keyReq[r].key /\ next.retired = keyRow.retired
          /\ keyRow' = next /\ used' = used \cup {keyReq[r].key}
          /\ UNCHANGED <<kek, copy, issued, keysRaced, keyFaults>>
      BY <1>4, <2>0 DEF SetKeys, KeyTypes, KeyStates
    <2> HIDE DEF q, next
    <2>3. \A p \in KeyRequests : keyReq'[p] = IF p = r THEN q ELSE keyReq[p]
      BY <2>1 DEF KeyTypes
    <2>4. keyReq[r].key \in 1..issued /\ keyReq[r].key # NoKey
      BY <2>0 DEF KeyTypes, NoKey
    <2>5. KeyTypes' BY <2>1, <2>2, <2>3, <2>4 DEF KeyTypes
    <2>6. ASSUME ~keysRaced' PROVE AloneWithRow' /\ FaultsLose' /\ CopyIsOld'
      <3>1. /\ AloneWithRow /\ FaultsLose /\ CopyIsOld
            /\ \A p \in KeyRequests : keyReq[p].pc # "idle" => p = r
            /\ keyReq[r].key \notin used
            /\ keyReq[r].rotates => keyReq[r].retired = RetiredNext
            /\ ~keyReq[r].rotates => keyRow.active = NoKey
        BY <2>0, <2>2, <2>6 DEF AloneWithRow
      <3>2. /\ DocKeys' = KeysIn(keyRow.retired) \cup {keyReq[r].key}
            /\ Etag' = <<keyReq[r].key, Len(keyRow.retired)>>
        BY <2>2, <2>4, <1>e DEF Etag
      <3>3. PendingKeys = {} BY <3>1, <2>0 DEF PendingKeys
      <3>4. Lost' \subseteq Lost
        <4>1. CASE keyReq[r].rotates
          <5>1. q.pc = "retire" /\ q.retired = RetiredNext BY <4>1, <2>1, <3>1
          <5>2. DocKeys \subseteq PendingKeys' BY <5>1, <2>3, <1>r DEF PendingKeys
          <5> QED BY <5>2, <2>2, <3>2, <3>3 DEF Lost
        <4>2. CASE ~keyReq[r].rotates
          BY <4>2, <2>2, <3>1, <3>2, <3>3, <1>d DEF Lost
        <4> QED BY <4>1, <4>2
      <3>5. FaultsLose' BY <3>1, <3>4, <2>2, LostShrinks
      <3>6. CopyIsOld'
        <4>1. copy.held => copy.etag[1] # keyReq[r].key BY <3>1, <2>4 DEF CopyIsOld
        <4> QED BY <4>1, <3>1, <3>2, <2>2 DEF CopyIsOld
      <3>7. q.pc = "retire" =>
               \/ q.retired = keyRow'.retired
               \/ \E k \in Nat : q.retired = Append(keyRow'.retired, k)
        BY <2>1, <2>2, <3>1 DEF RetiredNext, KeyTypes
      <3>8. AloneWithRow'
        BY <2>1, <2>2, <2>3, <3>1, <3>7 DEF AloneWithRow
      <3> QED BY <3>5, <3>6, <3>8
    <2> QED BY <2>5, <2>6
  <1>5. ASSUME NEW r \in KeyRequests, SetRetiredPubkeys(r) PROVE KeyInv'
    <2> DEFINE next == [keyRow EXCEPT !.retired = keyReq[r].retired]
    <2>0. keyReq[r] \in KeyStates /\ keyReq[r].pc = "retire"
      BY <1>5 DEF SetRetiredPubkeys, KeyTypes
    <2>1. /\ next \in [active: Nat, retired: Seq(Nat), plc: BOOLEAN]
          /\ next.active = keyRow.active /\ next.retired = keyReq[r].retired
          /\ keyRow' = next /\ keyReq' = [keyReq EXCEPT ![r] = NoKeyReq]
          /\ UNCHANGED <<kek, copy, issued, used, keysRaced, keyFaults>>
      BY <1>5, <2>0 DEF SetRetiredPubkeys, KeyTypes, KeyStates
    <2> HIDE DEF next
    <2>2. \A p \in KeyRequests : keyReq'[p] = IF p = r THEN NoKeyReq ELSE keyReq[p]
      BY <2>1 DEF KeyTypes
    <2>3. KeyTypes' BY <2>1, <2>2, <1>k DEF KeyTypes
    <2>4. ASSUME ~keysRaced' PROVE AloneWithRow' /\ FaultsLose' /\ CopyIsOld'
      <3>1. /\ AloneWithRow /\ FaultsLose /\ CopyIsOld
            /\ \A p \in KeyRequests : keyReq[p].pc # "idle" => p = r
            /\ \/ keyReq[r].retired = keyRow.retired
               \/ \E k \in Nat : keyReq[r].retired = Append(keyRow.retired, k)
        BY <2>0, <2>1, <2>4 DEF AloneWithRow
      <3>2. keyRow.retired \in Seq(Nat) /\ Len(keyRow.retired) \in Nat
        BY LenProperties DEF KeyTypes
      <3>3. /\ KeysIn(keyRow.retired) \subseteq KeysIn(keyReq[r].retired)
            /\ \/ keyReq[r].retired = keyRow.retired
               \/ Len(keyReq[r].retired) = Len(keyRow.retired) + 1
        BY <3>1, <3>2, KeysInAppend
      <3>4. PendingKeys = KeysIn(keyReq[r].retired)
        <4>1. {p \in KeyRequests : keyReq[p].pc = "retire"} = {r} BY <2>0, <3>1
        <4> QED BY <4>1 DEF PendingKeys
      <3>5. Lost' \subseteq Lost
        BY <2>1, <3>3, <3>4, <1>d, <1>e DEF Lost
      <3>6. FaultsLose' BY <3>1, <3>5, <2>1, LostShrinks
      <3>7. CopyIsOld'
        <4>1. CASE keyReq[r].retired = keyRow.retired
          BY <4>1, <2>1, <3>1, <1>d, <1>e DEF CopyIsOld, Etag
        <4>2. CASE Len(keyReq[r].retired) = Len(keyRow.retired) + 1
          <5> DEFINE l == Len(keyRow.retired)
          <5>1. copy \in [held: BOOLEAN, keys: SUBSET Nat, etag: Nat \X Nat] /\ l \in Nat
            BY <3>2 DEF KeyTypes
          <5>2. Etag'[2] = l + 1 BY <4>2, <2>1 DEF Etag
          <5>3. copy.held => copy.etag[2] <= l BY <3>1 DEF CopyIsOld
          <5> HIDE DEF l
          <5>4. copy.held => (copy.etag[2] <= l + 1 /\ copy.etag[2] # l + 1)
            BY <5>1, <5>3
          <5>5. Len(keyRow'.retired) = l + 1 BY <4>2, <2>1 DEF l
          <5> QED BY <5>2, <5>4, <5>5, <2>1, <3>1 DEF CopyIsOld
        <4> QED BY <4>1, <4>2, <3>3
      <3>8. AloneWithRow'
        BY <2>1, <2>2, <3>1, <1>k DEF AloneWithRow
      <3> QED BY <3>6, <3>7, <3>8
    <2> QED BY <2>3, <2>4
  <1>6. ASSUME NEW r \in KeyRequests, KeyRequestFails(r) PROVE KeyInv'
    <2>1. /\ keyReq[r].pc # "idle" /\ keyFaults' = keyFaults + 1 /\ keyFaults \in Nat
          /\ keyReq' = [keyReq EXCEPT ![r] = NoKeyReq]
          /\ UNCHANGED <<keyRow, kek, copy, issued, used, keysRaced>>
      BY <1>6 DEF KeyRequestFails, KeyTypes
    <2>2. \A p \in KeyRequests : keyReq'[p] = IF p = r THEN NoKeyReq ELSE keyReq[p]
      BY <2>1 DEF KeyTypes
    <2>3. KeyTypes' BY <2>1, <2>2, <1>k DEF KeyTypes
    <2>4. DocKeys' = DocKeys /\ Etag' = Etag /\ RetiredNext' = RetiredNext
      BY <2>1, <1>d, <1>e DEF Etag, RetiredNext
    <2>5. ASSUME ~keysRaced' PROVE AloneWithRow' /\ FaultsLose' /\ CopyIsOld'
      <3>1. /\ AloneWithRow /\ FaultsLose /\ CopyIsOld
            /\ \A p \in KeyRequests : keyReq[p].pc # "idle" => p = r
        BY <2>1, <2>5 DEF AloneWithRow
      <3>2. CopyIsOld' BY <3>1, <2>1, <2>4 DEF CopyIsOld
      <3>3. AloneWithRow' BY <3>1, <2>1, <2>2, <2>4, <1>k DEF AloneWithRow
      <3>4. PICK k \in Nat : PendingKeys \subseteq DocKeys \cup {k}
        <4>1. CASE keyReq[r].pc # "retire"
          <5>1. PendingKeys = {} BY <4>1, <3>1 DEF PendingKeys
          <5> QED BY <5>1
        <4>2. CASE keyReq[r].pc = "retire"
          <5>1. {p \in KeyRequests : keyReq[p].pc = "retire"} = {r} BY <4>2, <3>1
          <5>2. PendingKeys = KeysIn(keyReq[r].retired) BY <5>1 DEF PendingKeys
          <5>3. keyRow.retired \in Seq(Nat) BY DEF KeyTypes
          <5>4. CASE keyReq[r].retired = keyRow.retired BY <5>2, <5>4, <1>d
          <5>5. CASE \E k \in Nat : keyReq[r].retired = Append(keyRow.retired, k)
            <6>1. PICK k \in Nat : keyReq[r].retired = Append(keyRow.retired, k) BY <5>5
            <6>2. KeysIn(keyReq[r].retired) = KeysIn(keyRow.retired) \cup {k}
              BY <6>1, <5>3, KeysInAppend
            <6> QED BY <5>2, <6>2, <1>d
          <5> QED BY <4>2, <3>1, <5>4, <5>5 DEF AloneWithRow
        <4> QED BY <4>1, <4>2
      <3>5. Lost' \subseteq Lost \cup {k} BY <3>4, <2>1, <2>4 DEF Lost
      <3>6. FaultsLose' BY <3>1, <3>5, <2>1, LostGrowsByOne
      <3> QED BY <3>2, <3>3, <3>6
    <2> QED BY <2>3, <2>5
  <1>7. ASSUME NEW r \in KeyRequests, SignInKeys(r) \/ RotateKeys(r) PROVE KeyInv'
    <2>1. CASE SignInKeys(r)
      <3>1. <<>> \in Seq(Nat) /\ FALSE \in BOOLEAN BY EmptySeq
      <3> QED BY <2>1, <3>1, <1>3 DEF SignInKeys
    <2>2. CASE RotateKeys(r)
      BY <2>2, <1>t, <1>3 DEF RotateKeys
    <2> QED BY <1>7, <2>1, <2>2
  <1> QED
    <2>1. CASE UNCHANGED keyVars BY <2>1, <1>1 DEF keyVars
    <2>2. CASE OperatorSetsKek BY <2>2, <1>1 DEF OperatorSetsKek
    <2>3. CASE LinksBluesky BY <2>3, <1>1 DEF LinksBluesky
    <2> QED BY <2>1, <2>2, <2>3, <1>2, <1>4, <1>5, <1>6, <1>7 DEF UserKeysNext

\* What a resolver is given or keeps verifies every signature it should.
THEOREM KeysStayKnownAlways == UserKeysSpec => []KeysStayKnown
  <1>1. UserKeysInit => KeyInv
    <2> SUFFICES ASSUME UserKeysInit PROVE KeyInv OBVIOUS
    <2>1. NoKeyReq \in KeyStates /\ NoKeyReq.pc = "idle"
      BY EmptySeq DEF NoKeyReq, KeyStates, NoKey
    <2>2. <<>> \in Seq(Nat) BY EmptySeq
    <2>3. KeyTypes BY <2>1, <2>2 DEF UserKeysInit, KeyTypes, NoCopy, NoKey
    <2>4. AloneWithRow BY <2>1 DEF UserKeysInit, AloneWithRow
    <2>5. CopyIsOld BY DEF UserKeysInit, CopyIsOld, NoCopy
    <2>6. Lost = {} /\ keyFaults = 0 BY DEF UserKeysInit, Lost
    <2>7. FaultsLose BY <2>6, FS_EmptySet DEF FaultsLose
    <2> QED BY <2>3, <2>4, <2>5, <2>7 DEF KeyInv
  <1>2. KeyInv => KeysStayKnown
    <2> SUFFICES ASSUME KeyInv PROVE KeysStayKnown OBVIOUS
    <2>1. EtagTellsKeys BY DEF KeyInv, CopyIsOld, EtagTellsKeys
    <2>2. ASSUME \A r \in KeyRequests : keyReq[r].pc # "retire"
          PROVE  Lost = used \ DocKeys
      BY <2>2 DEF Lost, PendingKeys
    <2>3. KeysRemain BY <2>2 DEF KeyInv, FaultsLose, KeysRemain
    <2> QED BY <2>1, <2>3 DEF KeysStayKnown
  <1> QED BY <1>1, <1>2, KeyStep, PTL DEF UserKeysSpec

-----------------------------------------------------------------------------
(* The submission wizard and its requests. *)

WizardStates ==
    [step: 1..6, intake: Documents \cup {NoDocument}, working: BOOLEAN,
     uploads: SUBSET Documents, tier: Tiers, suggesting: Tiers \cup {NoTier},
     terms: BOOLEAN, publishing: Nat, done: BOOLEAN]

RequestStates == [pc: FinalizeStates, doc: Documents, body: Forms, late: BOOLEAN,
                  commas: BOOLEAN, paper: BOOLEAN, job: BOOLEAN]

IntakeTypes ==
    /\ wizard \in WizardStates /\ form \in Forms /\ finalizing \in Seq(RequestStates)
    /\ late \in BOOLEAN /\ intakeFaults \in Nat

\* What the steps that were passed have seen still holds of the form, but for the
\* summaries where a suggestion was answered on the last one.
GatesHold ==
    /\ form.primary \notin form.cross
    /\ IsFiniteSet(form.cross) /\ Cardinality(form.cross) <= MaxCrossListings
    /\ wizard.step >= 2 \/ wizard.uploads # {} => form.primary # NoSubject
    /\ wizard.step >= 3 => wizard.intake # NoDocument
    /\ wizard.step >= 4 => form.title # "short"
    /\ wizard.step >= 5 => form.named
    /\ wizard.step = 6 => Disclosed(form) /\ (late \/ SummariesFit(form))

\* A request is accepted, or for one of the two reasons it is not.
Explained(q) ==
    Acceptable(q.body) \/ Ungated(q) \/ (q.late /\ ~SummariesFit(q.body))

\* How far a request has come tells what it has left behind.
Staged(q) ==
    /\ q.pc \in {"check", "session", "create", "refused", "gone"} => ~q.paper /\ ~q.job
    /\ q.pc \in {"fill", "enqueue"} => q.paper /\ ~q.job
    /\ q.pc \in {"consume", "done"} => q.paper /\ q.job
    /\ Explained(q)
    /\ q.pc = "refused" => ~Acceptable(q.body)

RequestsStaged == \A r \in DOMAIN finalizing : Staged(finalizing[r])

TabWaits ==
    /\ wizard.publishing # 0 => ~wizard.done /\ wizard.publishing \in DOMAIN finalizing
    /\ wizard.done => \E r \in DOMAIN finalizing : finalizing[r].pc = "done"

\* The requests that the tab no longer waits for and that may have made a paper.
Loose == {r \in DOMAIN finalizing :
              r # wizard.publishing /\ finalizing[r].pc \notin {"refused", "gone"}}

\* The tab waits for a request that has failed.
FailedOne == IF wizard.publishing # 0 /\ finalizing[wizard.publishing].pc = "failed" THEN 1 ELSE 0
Served  == IF wizard.done THEN 1 ELSE 0

\* Each of them cost a failure or a lost answer, but for the one that ended well.
LooseCost == Cardinality(Loose) + FailedOne <= intakeFaults + Served

IntakeInv == IntakeTypes /\ GatesHold /\ RequestsStaged /\ TabWaits /\ LooseCost

\* The body of a form is a form.
LEMMA BodyIsForm ==
    ASSUME form \in Forms
    PROVE  Body(form) \in Forms
  BY IntakeAssumption DEF Forms, Body, Uses, Listed

\* A form that has passed the gates gives a body that the server accepts or refuses for one
\* of the two reasons.
LEMMA BodyExplained ==
    ASSUME form \in Forms, GatesHold, wizard.step = 6, late \in BOOLEAN
    PROVE  Explained(NewRequest)
  <1> DEFINE b == Body(form)
  <1> USE IntakeAssumption
  <1>1. /\ b.title = form.title /\ b.named = form.named /\ b.primary = form.primary
        /\ b.cross = form.cross /\ b.drafts = form.drafts /\ b.overlong = form.overlong
        /\ b.level = (form.level \/ Generated(form) # {})
        /\ b.used = IF Generated(form) # {} THEN form.used \cup {"summary"} ELSE form.used
        /\ Listed(form.models) \subseteq b.models
    BY DEF Forms, Body
  <1>2. b \in Forms BY BodyIsForm
  <1>3. NewRequest.body = b /\ NewRequest.late = late
        /\ NewRequest.commas = (form.models = {EmptyPiece})
    BY DEF NewRequest
  <1> HIDE DEF b
  <1>4. Filled(b) = Filled(form) /\ Generated(b) = Generated(form)
    BY <1>1 DEF Filled, Generated
  <1>5. Disclosed(form) /\ (late \/ SummariesFit(form)) BY DEF GatesHold
  <1>6. SummariesFit(b) = SummariesFit(form) BY <1>1, <1>4 DEF SummariesFit
  <1>7. SUFFICES ASSUME ~Ungated(NewRequest), ~(late /\ ~SummariesFit(b))
                 PROVE  Acceptable(b)
    BY <1>3 DEF Explained
  <1>8. SummariesFit(b) BY <1>5, <1>6, <1>7
  <1>9. b.title = "fit" /\ b.overlong = {}
    <2>1. OverLimit(b) = {} BY <1>3, <1>7 DEF Ungated
    <2>2. b.overlong = {} /\ b.title \notin {"long", "shrinks"} BY <2>1 DEF OverLimit
    <2>3. b.title \in TitleLengths /\ b.title # "short"
      BY <1>1, <1>2 DEF Forms, GatesHold
    <2> QED BY <2>2, <2>3 DEF TitleLengths
  <1>10. Cardinality(b.models) <= MaxModels
    <2>1. b.models \in SUBSET (Models \cup {EmptyPiece}) BY <1>2 DEF Forms
    <2>2. IsFiniteSet(Models \cup {EmptyPiece}) BY FS_AddElement
    <2>3. Cardinality(b.models) \in Nat BY <2>1, <2>2, FS_Subset, FS_CardinalityType
    <2>4. ~(Cardinality(b.models) > MaxModels) BY <1>3, <1>7 DEF Ungated
    <2> QED BY <2>3, <2>4
  <1>11. b.level => b.used # {} BY <1>1, <1>5 DEF Disclosed
  <1>12. Generated(b) # {} => b.level /\ "summary" \in b.used /\ b.models # {}
    <2> SUFFICES ASSUME Generated(b) # {} PROVE b.models # {}
      BY <1>1, <1>4
    <2>1. ~(form.models = {EmptyPiece} /\ b.models = {}) BY <1>3, <1>7 DEF Ungated
    <2>2. form.models # {} BY <1>4, <1>5 DEF Disclosed
    <2> QED BY <1>1, <2>1, <2>2 DEF Listed
  <1>13. /\ b.named /\ b.primary # NoSubject /\ b.primary \notin b.cross
         /\ Cardinality(b.cross) <= MaxCrossListings
    BY <1>1 DEF GatesHold
  <1> QED
    BY <1>8, <1>9, <1>10, <1>11, <1>12, <1>13 DEF Acceptable, SchemaAccepts, MetadataAccepts

LEMMA LooseFinite ==
    ASSUME IntakeTypes
    PROVE  /\ DOMAIN finalizing = 1..Len(finalizing) /\ Len(finalizing) \in Nat
           /\ IsFiniteSet(Loose) /\ Cardinality(Loose) \in Nat
           /\ \A r \in DOMAIN finalizing : finalizing[r] \in RequestStates
  <1>1. /\ DOMAIN finalizing = 1..Len(finalizing) /\ Len(finalizing) \in Nat
        /\ \A r \in 1..Len(finalizing) : finalizing[r] \in RequestStates
    BY LenProperties, ElementOfSeq DEF IntakeTypes
  <1>2. 1 \in Int /\ Len(finalizing) \in Int BY <1>1
  <1>3. IsFiniteSet(1..Len(finalizing)) BY <1>2, FS_Interval
  <1>4. Loose \in SUBSET (1..Len(finalizing)) BY <1>1 DEF Loose
  <1>5. IsFiniteSet(Loose) BY <1>3, <1>4, FS_Subset
  <1> QED BY <1>1, <1>5, FS_CardinalityType

\* No more requests are loose than before, and no more has failed than there were faults.
LEMMA CostKept ==
    ASSUME IntakeTypes, IntakeTypes', LooseCost, Loose' \subseteq Loose, wizard'.done = wizard.done,
           \/ FailedOne' <= FailedOne /\ intakeFaults' \in {intakeFaults, intakeFaults + 1}
           \/ FailedOne' <= FailedOne + 1 /\ intakeFaults' = intakeFaults + 1,
           FailedOne \in {0, 1}, FailedOne' \in {0, 1}
    PROVE  LooseCost'
  <1>1. IsFiniteSet(Loose) /\ Cardinality(Loose) \in Nat BY LooseFinite
  <1>2. Cardinality(Loose') <= Cardinality(Loose) /\ Cardinality(Loose') \in Nat
    BY <1>1, FS_Subset, FS_CardinalityType
  <1>3. Served' = Served /\ Served \in {0, 1} BY DEF Served
  <1>4. PICK m \in Nat : m = Cardinality(Loose) BY <1>1
  <1>5. PICK n \in Nat : n = Cardinality(Loose') BY <1>2
  <1>6. PICK f \in Nat : f = intakeFaults BY DEF IntakeTypes
  <1>7. PICK p \in {0, 1} : p = FailedOne OBVIOUS
  <1>8. PICK q \in {0, 1} : q = FailedOne' OBVIOUS
  <1>9. PICK v \in {0, 1} : v = Served BY <1>3
  <1>10. m + p <= f + v /\ n <= m BY <1>2, <1>4, <1>5, <1>6, <1>7, <1>9 DEF LooseCost
  <1>11. \/ q <= p /\ intakeFaults' = f
         \/ q <= p + 1 /\ intakeFaults' = f + 1
    <2>1. CASE FailedOne' <= FailedOne /\ intakeFaults' \in {intakeFaults, intakeFaults + 1}
      <3>1. q <= p /\ (intakeFaults' = f \/ intakeFaults' = f + 1) BY <2>1, <1>6, <1>7, <1>8
      <3>2. q <= p + 1 BY <3>1, <1>7, <1>8
      <3> QED BY <3>1, <3>2
    <2>2. CASE FailedOne' <= FailedOne + 1 /\ intakeFaults' = intakeFaults + 1
      BY <2>2, <1>6, <1>7, <1>8
    <2> QED BY <2>1, <2>2
  <1>12. \E g \in Nat : g = intakeFaults' /\ n + q <= g + v
    BY <1>10, <1>11
  <1> QED BY <1>3, <1>5, <1>8, <1>9, <1>12 DEF LooseCost

\* A step of the form: the requests and what the tab waits for are left alone.
LEMMA FormMoves ==
    ASSUME IntakeInv, wizard' \in WizardStates, form' \in Forms, late' \in BOOLEAN, GatesHold',
           finalizing' = finalizing, wizard'.publishing = wizard.publishing,
           wizard'.done = wizard.done, intakeFaults' \in {intakeFaults, intakeFaults + 1}
    PROVE  IntakeInv'
  <1>1. intakeFaults' \in Nat BY DEF IntakeInv, IntakeTypes
  <1>2. IntakeTypes' BY <1>1 DEF IntakeInv, IntakeTypes
  <1>3. RequestsStaged' /\ TabWaits' BY DEF IntakeInv, RequestsStaged, TabWaits
  <1>4. /\ Loose' = Loose /\ FailedOne' = FailedOne /\ FailedOne \in {0, 1}
        /\ FailedOne <= FailedOne
    BY DEF Loose, FailedOne
  <1>5. LooseCost' BY <1>2, <1>4, CostKept DEF IntakeInv
  <1> QED BY <1>2, <1>3, <1>5 DEF IntakeInv

\* A step of a request on the server.
LEMMA RequestMoves ==
    ASSUME IntakeInv, NEW r \in DOMAIN finalizing, NEW e \in RequestStates, Staged(e),
           finalizing[r].pc \notin {"refused", "gone", "failed", "done"},
           finalizing' = [finalizing EXCEPT ![r] = e],
           UNCHANGED <<wizard, form, late>>,
           intakeFaults' \in {intakeFaults, intakeFaults + 1},
           e.pc = "failed" => intakeFaults' = intakeFaults + 1
    PROVE  IntakeInv'
  <1> USE DEF IntakeInv
  <1>0. /\ DOMAIN finalizing = 1..Len(finalizing) /\ Len(finalizing) \in Nat
        /\ \A q \in DOMAIN finalizing : finalizing[q] \in RequestStates
    BY LooseFinite
  <1>1. /\ finalizing' \in Seq(RequestStates) /\ Len(finalizing') = Len(finalizing)
        /\ \A q \in 1..Len(finalizing) : finalizing'[q] = IF q = r THEN e ELSE finalizing[q]
    BY <1>0, ExceptSeq DEF IntakeTypes
  <1>2. intakeFaults' \in Nat BY DEF IntakeTypes
  <1>3. IntakeTypes' BY <1>1, <1>2 DEF IntakeTypes
  <1>4. DOMAIN finalizing' = DOMAIN finalizing BY <1>0, <1>1, <1>3, LooseFinite
  <1>5. GatesHold' BY DEF GatesHold
  <1>6. RequestsStaged' BY <1>0, <1>1, <1>4 DEF RequestsStaged
  <1>7. TabWaits'
    <2>1. \A q \in DOMAIN finalizing : finalizing[q].pc = "done" => finalizing'[q].pc = "done"
      BY <1>0, <1>1
    <2> QED BY <2>1, <1>4 DEF TabWaits
  <1>8. Loose' \subseteq Loose BY <1>0, <1>1, <1>4 DEF Loose
  <1>9. /\ FailedOne \in {0, 1} /\ FailedOne' \in {0, 1}
        /\ \/ FailedOne' <= FailedOne
           \/ FailedOne' <= FailedOne + 1 /\ intakeFaults' = intakeFaults + 1
    <2>1. FailedOne \in {0, 1} /\ FailedOne' \in {0, 1} BY DEF FailedOne
    <2>2. CASE e.pc = "failed" BY <2>1, <2>2
    <2>3. CASE e.pc # "failed"
      <3>1. FailedOne' = 1 => FailedOne = 1
        BY <2>3, <1>0, <1>1 DEF FailedOne, TabWaits
      <3> QED BY <2>1, <3>1
    <2> QED BY <2>1, <2>2, <2>3
  <1>10. LooseCost' BY <1>3, <1>8, <1>9, CostKept
  <1> QED BY <1>3, <1>5, <1>6, <1>7, <1>10

\* A field of the step on screen is edited: the later gates come again.
LEMMA EnterKeeps ==
    ASSUME IntakeInv, NEW s \in {1, 3, 4, 5}, NEW f \in Forms, Enter(s, f),
           f.primary \notin f.cross, IsFiniteSet(f.cross),
           Cardinality(f.cross) <= MaxCrossListings,
           form.primary # NoSubject => f.primary # NoSubject,
           s > 3 => f.title = form.title, s > 4 => f.named = form.named
    PROVE  IntakeInv'
  <1>1. /\ form' = f /\ wizard.step = s
        /\ UNCHANGED <<wizard, sessions, finalizing, late, intakeFaults>>
    BY DEF Enter, On
  <1>2. GatesHold' BY <1>1 DEF IntakeInv, GatesHold
  <1>3. wizard' \in WizardStates /\ form' \in Forms /\ late' \in BOOLEAN
    BY <1>1 DEF IntakeInv, IntakeTypes
  <1> QED BY <1>1, <1>2, <1>3, FormMoves

\* What a summary tells is disclosed; the rest of the form stays.
LEMMA WithSummaryForm ==
    ASSUME NEW f \in Forms, NEW n \in SUBSET Models
    PROVE  /\ WithSummary(f, n) \in Forms
           /\ WithSummary(f, n).title = f.title /\ WithSummary(f, n).named = f.named
           /\ WithSummary(f, n).primary = f.primary /\ WithSummary(f, n).cross = f.cross
           /\ WithSummary(f, n).level /\ "summary" \in WithSummary(f, n).used
           /\ n \subseteq WithSummary(f, n).models
  BY DEF WithSummary, Forms, Uses, Listed

\* A draft is written; the rest of the form stays.
LEMMA DraftWritten ==
    ASSUME form \in Forms, NEW t \in Tiers,
           NEW d \in [text: Lengths, ai: BOOLEAN, model: BOOLEAN]
    PROVE  /\ [form EXCEPT !.drafts[t] = d] \in Forms
           /\ [form EXCEPT !.drafts[t] = d].title = form.title
           /\ [form EXCEPT !.drafts[t] = d].named = form.named
           /\ [form EXCEPT !.drafts[t] = d].primary = form.primary
           /\ [form EXCEPT !.drafts[t] = d].cross = form.cross
  BY DEF Forms

\* The invariant holds after each edit of the form.
LEMMA FormStepKeeps ==
    ASSUME IntakeInv, FormStep
    PROVE  IntakeInv'
  <1> USE IntakeAssumption
  <1>0. /\ form \in Forms /\ wizard \in WizardStates /\ late \in BOOLEAN
        /\ form.primary \notin form.cross /\ IsFiniteSet(form.cross)
        /\ Cardinality(form.cross) <= MaxCrossListings /\ intakeFaults \in Nat
    BY DEF IntakeInv, IntakeTypes, GatesHold
  <1>1. ASSUME NEW c \in Subjects, PickPrimary(c) PROVE IntakeInv'
    <2> DEFINE f == [form EXCEPT !.primary = c, !.cross = @ \ {c}]
    <2>1. /\ f \in Forms /\ f.primary = c /\ f.cross = form.cross \ {c} /\ c # NoSubject
      BY <1>0 DEF Forms
    <2>2. /\ IsFiniteSet(form.cross \ {c})
          /\ Cardinality(form.cross \ {c}) <= MaxCrossListings
      <3>1. /\ IsFiniteSet(form.cross \ {c})
            /\ Cardinality(form.cross \ {c}) <= Cardinality(form.cross)
        BY <1>0, FS_Subset
      <3>2. Cardinality(form.cross \ {c}) \in Nat /\ Cardinality(form.cross) \in Nat
        BY <1>0, <3>1, FS_CardinalityType
      <3> QED BY <1>0, <3>1, <3>2
    <2>3. Enter(1, f) BY <1>1 DEF PickPrimary
    <2> HIDE DEF f
    <2>4. /\ f \in Forms /\ f.primary \notin f.cross /\ IsFiniteSet(f.cross)
          /\ Cardinality(f.cross) <= MaxCrossListings /\ f.primary # NoSubject
      BY <2>1, <2>2
    <2> QED BY <2>3, <2>4, EnterKeeps
  <1>2. ASSUME NEW c \in Subjects, ToggleCross(c) PROVE IntakeInv'
    <2> DEFINE x == IF c \in form.cross THEN form.cross \ {c} ELSE form.cross \cup {c}
               f == [form EXCEPT !.cross = x]
    <2>1. /\ f \in Forms /\ f.primary = form.primary /\ f.cross = x
          /\ f.title = form.title /\ f.named = form.named /\ form.primary \notin x
      BY <1>0, <1>2 DEF Forms, ToggleCross
    <2>2. IsFiniteSet(x) /\ Cardinality(x) <= MaxCrossListings
      <3>1. Cardinality(form.cross) \in Nat BY <1>0, FS_CardinalityType
      <3>2. CASE c \in form.cross
        <4>1. /\ IsFiniteSet(form.cross \ {c})
              /\ Cardinality(form.cross \ {c}) = Cardinality(form.cross) - 1
          BY <1>0, <3>2, FS_RemoveElement
        <4> QED BY <1>0, <3>1, <3>2, <4>1
      <3>3. CASE c \notin form.cross
        <4>1. /\ IsFiniteSet(form.cross \cup {c})
              /\ Cardinality(form.cross \cup {c}) = Cardinality(form.cross) + 1
          BY <1>0, <3>3, FS_AddElement
        <4>2. Cardinality(form.cross) < MaxCrossListings
          BY <1>2, <3>3 DEF ToggleCross
        <4> QED BY <3>1, <3>3, <4>1, <4>2
      <3> QED BY <3>2, <3>3
    <2>3. Enter(1, f) BY <1>2 DEF ToggleCross
    <2> HIDE DEF f, x
    <2> QED BY <2>1, <2>2, <2>3, EnterKeeps
  <1>3. ASSUME NEW f \in Forms, NEW s \in {3, 4, 5}, Enter(s, f),
               f.primary = form.primary, f.cross = form.cross,
               s > 3 => f.title = form.title, s > 4 => f.named = form.named
        PROVE  IntakeInv'
    BY <1>0, <1>3, EnterKeeps
  <1>4. ASSUME NEW l \in TitleLengths, EnterTitle(l) PROVE IntakeInv'
    <2> DEFINE f == [form EXCEPT !.title = l]
    <2>1. f \in Forms /\ f.primary = form.primary /\ f.cross = form.cross BY <1>0 DEF Forms
    <2>2. Enter(3, f) BY <1>4 DEF EnterTitle
    <2> HIDE DEF f
    <2> QED BY <2>1, <2>2, <1>3
  <1>5. ASSUME NEW b \in BOOLEAN, NameAuthors(b) PROVE IntakeInv'
    <2> DEFINE f == [form EXCEPT !.named = b]
    <2>1. /\ f \in Forms /\ f.primary = form.primary /\ f.cross = form.cross
          /\ f.title = form.title
      BY <1>0 DEF Forms
    <2>2. Enter(4, f) BY <1>5 DEF NameAuthors
    <2> HIDE DEF f
    <2> QED BY <2>1, <2>2, <1>3
  <1>6. ASSUME NEW f \in Forms, Enter(5, f),
               f.primary = form.primary, f.cross = form.cross,
               f.title = form.title, f.named = form.named
        PROVE  IntakeInv'
    BY <1>6, <1>3
  <1>7. ASSUME NEW l \in Lengths, TypeSummary(l) PROVE IntakeInv'
    <2> DEFINE d == [EmptyDraft EXCEPT !.text = l]
    <2>1. d \in [text: Lengths, ai: BOOLEAN, model: BOOLEAN] BY DEF EmptyDraft
    <2>2. Enter(5, [form EXCEPT !.drafts[wizard.tier] = d]) BY <1>7 DEF TypeSummary
    <2>3. wizard.tier \in Tiers BY <1>0 DEF WizardStates
    <2> HIDE DEF d
    <2> QED BY <2>1, <2>2, <2>3, <1>0, <1>6, DraftWritten
  <1>8. ASSUME NEW b \in BOOLEAN, MarkAi(b) PROVE IntakeInv'
    <2> DEFINE d == [form.drafts[wizard.tier] EXCEPT !.ai = b]
               f == [form EXCEPT !.drafts[wizard.tier] = d]
    <2>1. /\ d \in [text: Lengths, ai: BOOLEAN, model: BOOLEAN] /\ wizard.tier \in Tiers
      BY <1>0 DEF Forms, WizardStates
    <2>2. Enter(5, IF b THEN WithSummary(f, {}) ELSE f)
      <3>1. f = [form EXCEPT !.drafts[wizard.tier].ai = b] OBVIOUS
      <3> QED BY <1>8, <3>1 DEF MarkAi
    <2>3. /\ f \in Forms /\ f.primary = form.primary /\ f.cross = form.cross
          /\ f.title = form.title /\ f.named = form.named
      <3> HIDE DEF d
      <3> QED BY <2>1, <1>0, DraftWritten
    <2> HIDE DEF f, d
    <2>4. CASE b
      <3> DEFINE h == WithSummary(f, {})
      <3>1. /\ h \in Forms /\ h.title = f.title /\ h.named = f.named
            /\ h.primary = f.primary /\ h.cross = f.cross
        BY <2>3, WithSummaryForm
      <3>2. Enter(5, h) BY <2>2, <2>4
      <3> HIDE DEF h
      <3> QED BY <2>3, <3>1, <3>2, <1>6
    <2>5. CASE ~b
      BY <2>2, <2>3, <2>5, <1>6
    <2> QED BY <2>4, <2>5
  <1>9. ASSUME NEW b \in BOOLEAN, SetLevel(b) PROVE IntakeInv'
    <2> DEFINE f == [form EXCEPT !.level = b]
    <2>1. /\ f \in Forms /\ f.primary = form.primary /\ f.cross = form.cross
          /\ f.title = form.title /\ f.named = form.named
      BY <1>0 DEF Forms
    <2>2. Enter(5, f) BY <1>9 DEF SetLevel
    <2> HIDE DEF f
    <2> QED BY <2>1, <2>2, <1>6
  <1>10. ASSUME NEW u \in Uses, ToggleUse(u) PROVE IntakeInv'
    <2> DEFINE f == [form EXCEPT !.used = IF u \in @ THEN @ \ {u} ELSE @ \cup {u}]
    <2>1. /\ f \in Forms /\ f.primary = form.primary /\ f.cross = form.cross
          /\ f.title = form.title /\ f.named = form.named
      BY <1>0 DEF Forms
    <2>2. Enter(5, f) BY <1>10 DEF ToggleUse
    <2> HIDE DEF f
    <2> QED BY <2>1, <2>2, <1>6
  <1>11. ASSUME NEW w \in WizardStates, wizard' = w, w.step = wizard.step,
                w.intake = wizard.intake, w.uploads = wizard.uploads,
                w.publishing = wizard.publishing, w.done = wizard.done,
                UNCHANGED <<form, finalizing, late, intakeFaults>>
         PROVE  IntakeInv'
    <2>1. GatesHold' BY <1>11 DEF IntakeInv, GatesHold
    <2> QED BY <1>0, <1>11, <2>1, FormMoves
  <1>12. ASSUME NEW t \in Tiers, ChangeTier(t) PROVE IntakeInv'
    <2> DEFINE w == [wizard EXCEPT !.tier = t]
    <2>1. /\ w \in WizardStates /\ w.step = wizard.step /\ w.intake = wizard.intake
          /\ w.uploads = wizard.uploads /\ w.publishing = wizard.publishing
          /\ w.done = wizard.done
      BY <1>0 DEF WizardStates
    <2>2. wizard' = w /\ UNCHANGED <<form, finalizing, late, intakeFaults>>
      BY <1>12 DEF ChangeTier
    <2> HIDE DEF w
    <2> QED BY <2>1, <2>2, <1>11
  <1>13. ASSUME Suggest \/ SuggestFails PROVE IntakeInv'
    <2>1. PICK t \in Tiers \cup {NoTier} :
            /\ wizard' = [wizard EXCEPT !.suggesting = t]
            /\ UNCHANGED <<form, finalizing, late, intakeFaults>>
      BY <1>0, <1>13 DEF Suggest, SuggestFails, WizardStates
    <2> DEFINE w == [wizard EXCEPT !.suggesting = t]
    <2>2. /\ w \in WizardStates /\ w.step = wizard.step /\ w.intake = wizard.intake
          /\ w.uploads = wizard.uploads /\ w.publishing = wizard.publishing
          /\ w.done = wizard.done
      BY <1>0 DEF WizardStates
    <2>3. wizard' = w BY <2>1
    <2> HIDE DEF w
    <2> QED BY <2>1, <2>2, <2>3, <1>11
  <1>14. ASSUME NEW l \in Lengths, SuggestAnswers(l) PROVE IntakeInv'
    <2> DEFINE d == [text |-> l, ai |-> TRUE, model |-> TRUE]
               g == [form EXCEPT !.drafts[wizard.suggesting] = d]
               w == [wizard EXCEPT !.suggesting = NoTier]
    <2>1. /\ form' = WithSummary(g, {AiModel}) /\ wizard' = w /\ late' = (late \/ On(6))
          /\ UNCHANGED <<finalizing, intakeFaults>> /\ wizard.suggesting \in Tiers
          /\ ~wizard.done
      BY <1>0, <1>14 DEF SuggestAnswers, WizardStates
    <2>2. d \in [text: Lengths, ai: BOOLEAN, model: BOOLEAN] OBVIOUS
    <2>3. /\ g \in Forms /\ g.primary = form.primary /\ g.cross = form.cross
          /\ g.title = form.title /\ g.named = form.named
      <3> HIDE DEF d
      <3> QED BY <2>1, <2>2, <1>0, DraftWritten
    <2>4. /\ w \in WizardStates /\ w.step = wizard.step /\ w.intake = wizard.intake
          /\ w.uploads = wizard.uploads /\ w.publishing = wizard.publishing
          /\ w.done = wizard.done
      BY <1>0 DEF WizardStates
    <2> HIDE DEF g, w, d
    <2>5. /\ form' \in Forms /\ form'.primary = form.primary /\ form'.cross = form.cross
          /\ form'.title = form.title /\ form'.named = form.named /\ form'.level
          /\ "summary" \in form'.used /\ AiModel \in form'.models
      BY <2>1, <2>3, WithSummaryForm
    <2>6. ASSUME wizard.step = 6 PROVE late'
      <3>1. wizard.step >= 3 BY <2>6
      <3>2. wizard.intake # NoDocument BY <3>1 DEF IntakeInv, GatesHold
      <3>3. On(6) BY <2>1, <2>6, <3>2 DEF On
      <3> QED BY <2>1, <3>3
    <2>7. Disclosed(form)' BY <2>5 DEF Disclosed
    <2>8. GatesHold' BY <2>1, <2>4, <2>5, <2>6, <2>7 DEF IntakeInv, GatesHold
    <2>9. late' \in BOOLEAN BY <2>1, <1>0 DEF On
    <2> QED BY <2>1, <2>4, <2>5, <2>8, <2>9, FormMoves
  <1>15. ASSUME NEW p \in SUBSET (Models \cup {EmptyPiece}), SetModels(p) PROVE IntakeInv'
    <2> DEFINE f == [form EXCEPT !.models = p]
    <2>1. /\ f \in Forms /\ f.primary = form.primary /\ f.cross = form.cross
          /\ f.title = form.title /\ f.named = form.named
      BY <1>0 DEF Forms
    <2>2. Enter(5, f) BY <1>15 DEF SetModels
    <2> HIDE DEF f
    <2> QED BY <2>1, <2>2, <1>6
  <1>16. ASSUME NEW s \in 3..5, NEW x \in Limited, Resize(s, x) PROVE IntakeInv'
    <2> DEFINE f == [form EXCEPT !.overlong = IF x \in @ THEN @ \ {x} ELSE @ \cup {x}]
    <2>1. /\ f \in Forms /\ f.primary = form.primary /\ f.cross = form.cross
          /\ f.title = form.title /\ f.named = form.named
      BY <1>0 DEF Forms
    <2>2. Enter(s, f) /\ s \in {3, 4, 5} BY <1>16 DEF Resize
    <2> HIDE DEF f
    <2> QED BY <2>1, <2>2, <1>3
  <1> QED
    BY <1>1, <1>2, <1>4, <1>5, <1>7, <1>8, <1>9, <1>10, <1>12, <1>13, <1>14, <1>15,
       <1>16
    DEF FormStep

\* The tab goes on with the same form and the same requests.
LEMMA WizardMoves ==
    ASSUME IntakeInv, NEW w \in WizardStates, wizard' = w,
           w.publishing = wizard.publishing, w.done = wizard.done,
           w.step >= 2 \/ w.uploads # {} => form.primary # NoSubject,
           w.step >= 3 => w.intake # NoDocument,
           w.step >= 4 => form.title # "short", w.step >= 5 => form.named,
           w.step = 6 => (Disclosed(form) /\ (late' \/ SummariesFit(form))),
           late' \in BOOLEAN, UNCHANGED <<form, finalizing>>,
           intakeFaults' \in {intakeFaults, intakeFaults + 1}
    PROVE  IntakeInv'
  <1>1. GatesHold' BY DEF IntakeInv, GatesHold, SummariesFit, Disclosed, Filled, Generated
  <1>2. form' \in Forms BY DEF IntakeInv, IntakeTypes
  <1> QED BY <1>1, <1>2, FormMoves

\* The invariant holds after each step of the tab.
LEMMA TabStepKeeps ==
    ASSUME IntakeInv, TabStep
    PROVE  IntakeInv'
  <1> USE IntakeAssumption
  <1>0. /\ form \in Forms /\ wizard \in WizardStates /\ late \in BOOLEAN
        /\ intakeFaults \in Nat
        /\ wizard.step >= 2 \/ wizard.uploads # {} => form.primary # NoSubject
        /\ wizard.step >= 3 => wizard.intake # NoDocument
        /\ wizard.step >= 4 => form.title # "short"
        /\ wizard.step >= 5 => form.named
        /\ wizard.step = 6 => (Disclosed(form) /\ (late \/ SummariesFit(form)))
    BY DEF IntakeInv, IntakeTypes, GatesHold
  <1>1. ASSUME NEW n \in 1..6, GoTo(n)
        PROVE  /\ wizard' \in WizardStates /\ wizard'.step = n
               /\ wizard'.publishing = wizard.publishing /\ wizard'.done = wizard.done
               /\ wizard'.uploads = wizard.uploads /\ wizard'.intake = wizard.intake
               /\ UNCHANGED <<form, finalizing, intakeFaults>>
    BY <1>0, <1>1 DEF GoTo, WizardStates
  <1>2. ASSUME NEW s \in 1..5, NextStep(s) PROVE IntakeInv'
    <2>1. /\ wizard.step = s
          /\ s > 2 => wizard.intake # NoDocument
          /\ s = 1 => form.primary # NoSubject
          /\ s = 2 => wizard.intake # NoDocument
          /\ s = 3 => form.title # "short"
          /\ s = 4 => form.named
          /\ s = 5 => (SummariesFit(form) /\ Disclosed(form))
          /\ late' = (late /\ s # 5) /\ GoTo(s + 1)
      BY <1>2 DEF NextStep, On
    <2>2. s + 1 \in 1..6 OBVIOUS
    <2>3. /\ wizard' \in WizardStates /\ wizard'.step = s + 1
          /\ wizard'.publishing = wizard.publishing /\ wizard'.done = wizard.done
          /\ wizard'.uploads = wizard.uploads /\ wizard'.intake = wizard.intake
          /\ UNCHANGED <<form, finalizing, intakeFaults>>
      BY <2>1, <2>2, <1>1
    <2>4. /\ s + 1 >= 2 \/ wizard.uploads # {} => form.primary # NoSubject
          /\ s + 1 >= 3 => wizard.intake # NoDocument
          /\ s + 1 >= 4 => form.title # "short"
          /\ s + 1 >= 5 => form.named
          /\ s + 1 = 6 => (SummariesFit(form) /\ Disclosed(form))
      <3>1. /\ s >= 2 \/ wizard.uploads # {} => form.primary # NoSubject
            /\ s >= 3 => wizard.intake # NoDocument
            /\ s >= 4 => form.title # "short"
            /\ s >= 5 => form.named
        BY <1>0, <2>1
      <3>2. CASE s = 1 BY <2>1, <3>1, <3>2
      <3>3. CASE s = 2 BY <2>1, <3>1, <3>3
      <3>4. CASE s = 3 BY <2>1, <3>1, <3>4
      <3>5. CASE s = 4 BY <2>1, <3>1, <3>5
      <3>6. CASE s = 5 BY <2>1, <3>1, <3>6
      <3> QED BY <3>2, <3>3, <3>4, <3>5, <3>6
    <2>5. late' \in BOOLEAN BY <2>1
    <2> QED BY <2>3, <2>4, <2>5, WizardMoves
  <1>3. ASSUME NEW s \in 2..6, BackStep(s) PROVE IntakeInv'
    <2>1. wizard.step = s /\ GoTo(s - 1) /\ late' = late BY <1>3 DEF BackStep, On
    <2>2. s - 1 \in 1..6 OBVIOUS
    <2>3. /\ wizard' \in WizardStates /\ wizard'.step = s - 1
          /\ wizard'.publishing = wizard.publishing /\ wizard'.done = wizard.done
          /\ wizard'.uploads = wizard.uploads /\ wizard'.intake = wizard.intake
          /\ UNCHANGED <<form, finalizing, intakeFaults>>
      BY <2>1, <2>2, <1>1
    <2>4. /\ s - 1 >= 2 \/ wizard.uploads # {} => form.primary # NoSubject
          /\ s - 1 >= 3 => wizard.intake # NoDocument
          /\ s - 1 >= 4 => form.title # "short"
          /\ s - 1 >= 5 => form.named
          /\ s - 1 # 6
      BY <1>0, <2>1
    <2> QED BY <1>0, <2>1, <2>3, <2>4, WizardMoves
  <1>4. ASSUME NEW b \in BOOLEAN, AcceptTerms(b) PROVE IntakeInv'
    <2> DEFINE w == [wizard EXCEPT !.terms = b]
    <2>1. /\ w \in WizardStates /\ w.step = wizard.step /\ w.intake = wizard.intake
          /\ w.uploads = wizard.uploads /\ w.publishing = wizard.publishing
          /\ w.done = wizard.done
      BY <1>0 DEF WizardStates
    <2>2. wizard' = w /\ UNCHANGED <<form, finalizing, late, intakeFaults>>
      BY <1>4 DEF AcceptTerms
    <2> HIDE DEF w
    <2> QED BY <1>0, <2>1, <2>2, WizardMoves
  <1>5. ASSUME Publish PROVE IntakeInv'
    <2> DEFINE n == Len(finalizing)
               w == [wizard EXCEPT !.publishing = n + 1]
    <2>0. /\ DOMAIN finalizing = 1..n /\ n \in Nat
          /\ \A q \in DOMAIN finalizing : finalizing[q] \in RequestStates
      BY LooseFinite DEF IntakeInv
    <2>1. /\ On(6) /\ wizard.publishing = 0 /\ finalizing' = Append(finalizing, NewRequest)
          /\ wizard' = [wizard EXCEPT !.publishing = Len(finalizing')]
          /\ UNCHANGED <<form, late, intakeFaults>>
      BY <1>5 DEF Publish
    <2>2. wizard.step = 6 /\ wizard.intake \in Documents /\ ~wizard.done
      BY <1>0, <2>1 DEF On, WizardStates
    <2>3. NewRequest \in RequestStates
      <3>1. Body(form) \in Forms BY <1>0, BodyIsForm
      <3> QED BY <1>0, <2>2, <3>1 DEF NewRequest, RequestStates, FinalizeStates
    <2>4. Staged(NewRequest)
      <3>1. Explained(NewRequest) BY <1>0, <2>2, BodyExplained DEF IntakeInv
      <3> QED BY <3>1 DEF NewRequest, Staged
    <2>5. /\ finalizing' \in Seq(RequestStates) /\ Len(finalizing') = n + 1
          /\ \A q \in 1..n : finalizing'[q] = finalizing[q]
          /\ finalizing'[n + 1] = NewRequest
      BY <2>1, <2>3, AppendProperties DEF IntakeInv, IntakeTypes
    <2>6. /\ w \in WizardStates /\ w.step = wizard.step /\ w.intake = wizard.intake
          /\ w.uploads = wizard.uploads /\ w.publishing = n + 1 /\ w.done = wizard.done
          /\ wizard' = w
      <3>1. wizard' = w BY <2>1, <2>5
      <3>2. n + 1 \in Nat BY <2>0
      <3> HIDE DEF n
      <3> QED BY <1>0, <3>1, <3>2 DEF WizardStates
    <2> HIDE DEF w
    <2>7. IntakeTypes' BY <1>0, <2>1, <2>5, <2>6 DEF IntakeTypes
    <2>8. DOMAIN finalizing' = 1..(n + 1) BY <2>5, <2>7, LooseFinite
    <2>9. GatesHold' BY <2>1, <2>6 DEF IntakeInv, GatesHold
    <2>10. RequestsStaged'
      <3>1. \A q \in 1..(n + 1) : q \in 1..n \/ q = n + 1 BY <2>0
      <3> QED BY <2>0, <2>4, <2>5, <2>8, <3>1 DEF IntakeInv, RequestsStaged
    <2>11. n + 1 \in 1..(n + 1) BY <2>0
    <2>12. TabWaits' BY <2>2, <2>6, <2>8, <2>11 DEF TabWaits
    <2>13. Loose' = Loose
      <3>1. \A q \in 1..(n + 1) : q = n + 1 \/ q \in 1..n BY <2>0
      <3>2. \A q \in 1..n : q # n + 1 /\ q # 0 /\ q \in 1..(n + 1) BY <2>0
      <3> HIDE DEF n
      <3>3. Loose = {q \in 1..n : q # 0 /\ finalizing[q].pc \notin {"refused", "gone"}}
        BY <2>0, <2>1 DEF Loose
      <3>4. Loose' = {q \in 1..(n + 1) :
                        q # n + 1 /\ finalizing'[q].pc \notin {"refused", "gone"}}
        BY <2>6, <2>8 DEF Loose
      <3> QED BY <3>1, <3>2, <3>3, <3>4, <2>5
    <2>14. /\ FailedOne = 0 /\ FailedOne' = 0
      <3>1. NewRequest.pc # "failed" BY DEF NewRequest
      <3> QED BY <2>1, <2>5, <2>6, <3>1 DEF FailedOne
    <2>15. LooseCost'
      <3>1. Loose' \subseteq Loose /\ wizard'.done = wizard.done /\ FailedOne' <= FailedOne
        BY <2>6, <2>13, <2>14
      <3>2. FailedOne \in {0, 1} /\ FailedOne' \in {0, 1} BY <2>14
      <3> QED BY <2>1, <2>7, <3>1, <3>2, CostKept DEF IntakeInv
    <2> QED BY <2>7, <2>9, <2>10, <2>12, <2>15 DEF IntakeInv
  <1> QED BY <1>2, <1>3, <1>4, <1>5 DEF TabStep

\* The invariant holds after each step of an upload and of its session.
LEMMA UploadStepKeeps ==
    ASSUME IntakeInv, NEW d \in Documents, UploadStep(d)
    PROVE  IntakeInv'
  <1> USE IntakeAssumption
  <1>0. /\ form \in Forms /\ wizard \in WizardStates /\ late \in BOOLEAN
        /\ form.primary \notin form.cross /\ IsFiniteSet(form.cross)
        /\ Cardinality(form.cross) <= MaxCrossListings /\ intakeFaults \in Nat
        /\ wizard.step >= 2 \/ wizard.uploads # {} => form.primary # NoSubject
        /\ wizard.step >= 3 => wizard.intake # NoDocument
        /\ wizard.step >= 4 => form.title # "short"
        /\ wizard.step >= 5 => form.named
        /\ wizard.step = 6 => (Disclosed(form) /\ (late \/ SummariesFit(form)))
    BY DEF IntakeInv, IntakeTypes, GatesHold
  <1>1. ASSUME NEW w \in WizardStates, wizard' = w, w.step = wizard.step,
               w.intake = wizard.intake, w.uploads # {} => form.primary # NoSubject,
               w.publishing = wizard.publishing, w.done = wizard.done,
               UNCHANGED <<form, finalizing, late>>,
               intakeFaults' \in {intakeFaults, intakeFaults + 1}
        PROVE  IntakeInv'
    BY <1>0, <1>1, WizardMoves
  <1>2. ASSUME Upload(d) PROVE IntakeInv'
    <2> DEFINE w == [wizard EXCEPT !.working = TRUE, !.uploads = @ \cup {d}]
    <2>1. /\ w \in WizardStates /\ w.step = wizard.step /\ w.intake = wizard.intake
          /\ w.publishing = wizard.publishing /\ w.done = wizard.done
      BY <1>0 DEF WizardStates
    <2>2. wizard' = w /\ UNCHANGED <<form, finalizing, late, intakeFaults>>
      BY <1>2 DEF Upload
    <2>3. form.primary # NoSubject BY <1>0, <1>2 DEF Upload, On
    <2> HIDE DEF w
    <2> QED BY <2>1, <2>2, <2>3, <1>1
  <1>3. ASSUME UploadRefused(d) PROVE IntakeInv'
    <2> DEFINE w == [wizard EXCEPT !.working = FALSE, !.uploads = @ \ {d}]
    <2>1. /\ w \in WizardStates /\ w.step = wizard.step /\ w.intake = wizard.intake
          /\ w.publishing = wizard.publishing /\ w.done = wizard.done
      BY <1>0 DEF WizardStates
    <2>2. wizard' = w /\ UNCHANGED <<form, finalizing, late, intakeFaults>>
      BY <1>3 DEF UploadRefused
    <2>3. form.primary # NoSubject BY <1>0, <1>3 DEF UploadRefused
    <2> HIDE DEF w
    <2> QED BY <2>1, <2>2, <2>3, <1>1
  <1>4. ASSUME StoreIntake(d) \/ Expire(d) PROVE IntakeInv'
    <2>1. /\ UNCHANGED <<wizard, form, finalizing, late>>
          /\ intakeFaults' \in {intakeFaults, intakeFaults + 1}
      BY <1>4 DEF StoreIntake, Expire, IntakeFault
    <2> QED BY <2>1, <1>0, <1>1
  <1>5. ASSUME NEW x \in Extracts, UploadAnswers(d, x)
        PROVE  IntakeInv'
    <2> DEFINE w == [wizard EXCEPT !.working = FALSE, !.uploads = @ \ {d}, !.intake = d,
                                   !.step = 2]
               f == [form EXCEPT !.title = IF "title" \in x.found THEN x.title ELSE @,
                                 !.named = @ \/ "authors" \in x.found,
                                 !.overlong = (@ \ (x.found \cup {"keywords"})) \cup x.over]
    <2>1. wizard' = w /\ form' = f /\ UNCHANGED <<finalizing, late, intakeFaults>>
      BY <1>5 DEF UploadAnswers
    <2>2. /\ w \in WizardStates /\ w.step = 2
          /\ w.publishing = wizard.publishing /\ w.done = wizard.done
      <3>1. 2 \in 1..6 OBVIOUS
      <3> DEFINE v == [wizard EXCEPT !.working = FALSE, !.uploads = @ \ {d}]
      <3>2. /\ v \in WizardStates /\ v.publishing = wizard.publishing
            /\ v.done = wizard.done
        BY <1>0 DEF WizardStates
      <3>3. w = [v EXCEPT !.intake = d, !.step = 2] OBVIOUS
      <3> HIDE DEF v, w
      <3> QED BY <3>1, <3>2, <3>3 DEF WizardStates
    <2>3. /\ f \in Forms /\ f.primary = form.primary /\ f.cross = form.cross
      <3>1. x.title \in TitleLengths /\ x.over \subseteq Limited /\ x.found \subseteq
                {"title", "abstract", "authors"}
        BY IntakeAssumption
      <3> QED BY <1>0, <3>1 DEF Forms
    <2>4. form.primary # NoSubject BY <1>0, <1>5 DEF UploadAnswers
    <2> HIDE DEF w, f
    <2>5. GatesHold' BY <1>0, <2>1, <2>2, <2>3, <2>4 DEF GatesHold
    <2> QED BY <1>0, <2>1, <2>2, <2>3, <2>5, FormMoves
  <1> QED BY <1>2, <1>3, <1>4, <1>5 DEF UploadStep

\* The invariant holds after each step of a request and of its answer.
LEMMA RequestStepKeeps ==
    ASSUME IntakeInv, NEW r \in DOMAIN finalizing, FinalizeRequestStep(r)
    PROVE  IntakeInv'
  <1> DEFINE q == finalizing[r]
  <1>0. /\ DOMAIN finalizing = 1..Len(finalizing) /\ Len(finalizing) \in Nat
        /\ q \in RequestStates /\ Staged(q)
        /\ IsFiniteSet(Loose) /\ Cardinality(Loose) \in Nat
    BY LooseFinite DEF IntakeInv, RequestsStaged
  <1>1. ASSUME NEW e \in RequestStates, Staged(e), finalizing' = [finalizing EXCEPT ![r] = e],
               q.pc \notin {"refused", "gone", "failed", "done"}, e.pc # "failed",
               UNCHANGED <<wizard, form, late>>,
               intakeFaults' \in {intakeFaults, intakeFaults + 1}
        PROVE  IntakeInv'
    BY <1>1, RequestMoves
  <1>2. ASSUME Check(r) PROVE IntakeInv'
    <2> DEFINE l == IF Acceptable(q.body) THEN "session" ELSE "refused"
               e == [q EXCEPT !.pc = l]
    <2>1. /\ q.pc = "check" /\ UNCHANGED <<wizard, form, late, intakeFaults>>
          /\ finalizing' = [finalizing EXCEPT ![r] = e]
      BY <1>2 DEF Check, RequestAt, Move
    <2>2. e \in RequestStates /\ e.pc # "failed" BY <1>0 DEF RequestStates, FinalizeStates
    <2>3. Staged(e) BY <1>0, <2>1 DEF Staged, Explained, Ungated, RequestStates
    <2> HIDE DEF e, q
    <2> QED BY <2>1, <2>2, <2>3, <1>1
  <1>3. ASSUME ReadSession(r) PROVE IntakeInv'
    <2> DEFINE l == IF q.doc \in sessions THEN "create" ELSE "gone"
               e == [q EXCEPT !.pc = l]
    <2>1. /\ q.pc = "session" /\ UNCHANGED <<wizard, form, late, intakeFaults>>
          /\ finalizing' = [finalizing EXCEPT ![r] = e]
      BY <1>3 DEF ReadSession, RequestAt, Move
    <2>2. e \in RequestStates /\ e.pc # "failed" BY <1>0 DEF RequestStates, FinalizeStates
    <2>3. Staged(e) BY <1>0, <2>1 DEF Staged, Explained, Ungated, RequestStates
    <2> HIDE DEF e, q
    <2> QED BY <2>1, <2>2, <2>3, <1>1
  <1>4. ASSUME Create(r) PROVE IntakeInv'
    <2> DEFINE e == [q EXCEPT !.pc = "fill", !.paper = TRUE]
    <2>1. /\ q.pc = "create" /\ UNCHANGED <<wizard, form, late, intakeFaults>>
          /\ finalizing' = [finalizing EXCEPT ![r] = e]
      BY <1>4 DEF Create, RequestAt
    <2>2. e \in RequestStates /\ e.pc # "failed" BY <1>0 DEF RequestStates, FinalizeStates
    <2>3. Staged(e) BY <1>0, <2>1 DEF Staged, Explained, Ungated, RequestStates
    <2> HIDE DEF e, q
    <2> QED BY <2>1, <2>2, <2>3, <1>1
  <1>5. ASSUME Fill(r) PROVE IntakeInv'
    <2> DEFINE e == [q EXCEPT !.pc = "enqueue"]
    <2>1. /\ q.pc = "fill" /\ UNCHANGED <<wizard, form, late, intakeFaults>>
          /\ finalizing' = [finalizing EXCEPT ![r] = e]
      BY <1>5 DEF Fill, RequestAt, Move
    <2>2. e \in RequestStates /\ e.pc # "failed" BY <1>0 DEF RequestStates, FinalizeStates
    <2>3. Staged(e) BY <1>0, <2>1 DEF Staged, Explained, Ungated, RequestStates
    <2> HIDE DEF e, q
    <2> QED BY <2>1, <2>2, <2>3, <1>1
  <1>6. ASSUME EnqueuePaper(r) PROVE IntakeInv'
    <2> DEFINE e == [q EXCEPT !.pc = "consume", !.job = TRUE]
    <2>1. /\ q.pc = "enqueue" /\ UNCHANGED <<wizard, form, late, intakeFaults>>
          /\ finalizing' = [finalizing EXCEPT ![r] = e]
      BY <1>6 DEF EnqueuePaper, RequestAt
    <2>2. e \in RequestStates /\ e.pc # "failed" BY <1>0 DEF RequestStates, FinalizeStates
    <2>3. Staged(e) BY <1>0, <2>1 DEF Staged, Explained, Ungated, RequestStates
    <2> HIDE DEF e, q
    <2> QED BY <2>1, <2>2, <2>3, <1>1
  <1>7. ASSUME Consume(r) PROVE IntakeInv'
    <2> DEFINE e == [q EXCEPT !.pc = "done"]
    <2>1. /\ q.pc = "consume" /\ UNCHANGED <<wizard, form, late>>
          /\ intakeFaults' \in {intakeFaults, intakeFaults + 1}
          /\ finalizing' = [finalizing EXCEPT ![r] = e]
      BY <1>7 DEF Consume, RequestAt, Move, IntakeFault
    <2>2. e \in RequestStates /\ e.pc # "failed" BY <1>0 DEF RequestStates, FinalizeStates
    <2>3. Staged(e) BY <1>0, <2>1 DEF Staged, Explained, Ungated, RequestStates
    <2> HIDE DEF e, q
    <2> QED BY <2>1, <2>2, <2>3, <1>1
  <1>8. ASSUME FinalizeCallFails(r) PROVE IntakeInv'
    <2> DEFINE e == [q EXCEPT !.pc = "failed"]
    <2>1. /\ q.pc \in {"session", "create", "fill", "enqueue"}
          /\ UNCHANGED <<wizard, form, late>> /\ intakeFaults' = intakeFaults + 1
          /\ finalizing' = [finalizing EXCEPT ![r] = e]
      BY <1>8 DEF FinalizeCallFails, Move, IntakeFault
    <2>2. e \in RequestStates BY <1>0 DEF RequestStates, FinalizeStates
    <2>3. Staged(e) BY <1>0 DEF Staged, Explained, Ungated, RequestStates
    <2>4. intakeFaults' \in {intakeFaults, intakeFaults + 1} BY <2>1
    <2>5. finalizing[r].pc \notin {"refused", "gone", "failed", "done"} BY <2>1
    <2> HIDE DEF e, q
    <2> QED BY <2>1, <2>2, <2>3, <2>4, <2>5, RequestMoves
  <1>9. PICK m \in Nat : m = Cardinality(Loose) BY <1>0
  <1>10. PICK f \in Nat : f = intakeFaults BY DEF IntakeInv, IntakeTypes
  <1>11. wizard \in WizardStates BY DEF IntakeInv, IntakeTypes
  <1>12. ASSUME NEW w \in WizardStates, wizard' = w, wizard.publishing = r, w.publishing = 0,
                w.step = wizard.step, w.uploads = wizard.uploads, w.intake = wizard.intake,
                w.done => q.pc = "done", UNCHANGED <<form, finalizing, late>>,
                intakeFaults' \in {f, f + 1}
         PROVE  /\ IntakeTypes' /\ GatesHold' /\ RequestsStaged' /\ TabWaits'
                /\ wizard.done = FALSE /\ FailedOne' = 0 /\ Served = 0
                /\ Served' = IF w.done THEN 1 ELSE 0
                /\ Loose' = {s \in DOMAIN finalizing :
                                finalizing[s].pc \notin {"refused", "gone"}}
                /\ FailedOne = IF q.pc = "failed" THEN 1 ELSE 0
                /\ Loose = {s \in DOMAIN finalizing :
                               s # r /\ finalizing[s].pc \notin {"refused", "gone"}}
    <2>1. intakeFaults' \in Nat /\ r # 0 BY <1>0, <1>12
    <2>2. IntakeTypes' BY <1>12, <2>1 DEF IntakeInv, IntakeTypes
    <2>3. GatesHold' BY <1>12 DEF IntakeInv, GatesHold
    <2>4. RequestsStaged' BY <1>12 DEF IntakeInv, RequestsStaged
    <2>5. TabWaits' BY <1>12 DEF TabWaits
    <2>6. ~wizard.done BY <1>12, <2>1 DEF IntakeInv, TabWaits
    <2>7. wizard.done = FALSE BY <1>11, <2>6 DEF WizardStates
    <2>8. \A s \in DOMAIN finalizing : s # 0 BY <1>0
    <2> QED
      BY <1>12, <2>1, <2>2, <2>3, <2>4, <2>5, <2>7, <2>8 DEF FailedOne, Served, Loose
  <1>13. ASSUME Answer(r) PROVE IntakeInv'
    <2> DEFINE w == [wizard EXCEPT !.publishing = 0, !.done = (q.pc = "done")]
    <2>1. /\ wizard.publishing = r /\ q.pc \in {"done", "refused", "gone", "failed"}
          /\ wizard' = w /\ UNCHANGED <<form, finalizing, late>> /\ intakeFaults' = f
      BY <1>10, <1>13 DEF Answer, RequestAt
    <2>2. /\ w \in WizardStates /\ w.step = wizard.step /\ w.intake = wizard.intake
          /\ w.uploads = wizard.uploads /\ w.publishing = 0 /\ w.done = (q.pc = "done")
      BY <1>11 DEF WizardStates
    <2> HIDE DEF w
    <2>3. /\ IntakeTypes' /\ GatesHold' /\ RequestsStaged' /\ TabWaits'
          /\ wizard.done = FALSE /\ FailedOne' = 0 /\ Served = 0
          /\ Served' = IF w.done THEN 1 ELSE 0
          /\ Loose' = {s \in DOMAIN finalizing : finalizing[s].pc \notin {"refused", "gone"}}
          /\ FailedOne = IF q.pc = "failed" THEN 1 ELSE 0
          /\ Loose = {s \in DOMAIN finalizing :
                         s # r /\ finalizing[s].pc \notin {"refused", "gone"}}
      BY <2>1, <2>2, <1>12
    <2>4. m + FailedOne <= f BY <1>9, <1>10, <2>3 DEF IntakeInv, LooseCost
    <2>5. CASE q.pc \in {"refused", "gone"}
      <3>1. Loose' = Loose /\ Served' = 0 /\ FailedOne = 0 BY <2>2, <2>3, <2>5
      <3>2. m <= f BY <2>4, <3>1
      <3>3. Cardinality(Loose') = m BY <1>9, <3>1
      <3>4. LooseCost' BY <2>1, <2>3, <3>1, <3>2, <3>3 DEF LooseCost
      <3> QED BY <2>3, <3>4 DEF IntakeInv
    <2>6. CASE q.pc \in {"done", "failed"}
      <3>1. Loose' = Loose \cup {r} /\ r \notin Loose BY <2>3, <2>6
      <3>2. Cardinality(Loose') = m + 1 BY <1>0, <1>9, <3>1, FS_AddElement
      <3>3. \/ Served' = 1
            \/ Served' = 0 /\ FailedOne = 1
        BY <2>2, <2>3, <2>6
      <3>4. \/ Served' = 1 /\ m <= f
            \/ Served' = 0 /\ m + 1 <= f
        <4>1. CASE Served' = 1
          <5>1. FailedOne \in {0, 1} BY <2>3
          <5> QED BY <2>4, <4>1, <5>1
        <4>2. CASE Served' = 0 /\ FailedOne = 1 BY <2>4, <4>2
        <4> QED BY <3>3, <4>1, <4>2
      <3>5. LooseCost' BY <2>1, <2>3, <3>2, <3>4 DEF LooseCost
      <3> QED BY <2>3, <3>5 DEF IntakeInv
    <2> QED BY <2>1, <2>5, <2>6
  <1>14. ASSUME AnswerLost(r) PROVE IntakeInv'
    <2> DEFINE w == [wizard EXCEPT !.publishing = 0]
    <2>1. /\ wizard.publishing = r
          /\ wizard' = w /\ UNCHANGED <<form, finalizing, late>> /\ intakeFaults' = f + 1
      BY <1>10, <1>14 DEF AnswerLost, IntakeFault
    <2>2. /\ w \in WizardStates /\ w.step = wizard.step /\ w.intake = wizard.intake
          /\ w.uploads = wizard.uploads /\ w.publishing = 0 /\ w.done = wizard.done
      BY <1>11 DEF WizardStates
    <2>3. ~wizard.done BY <1>0, <2>1 DEF IntakeInv, TabWaits
    <2> HIDE DEF w
    <2>4. /\ IntakeTypes' /\ GatesHold' /\ RequestsStaged' /\ TabWaits'
          /\ wizard.done = FALSE /\ FailedOne' = 0 /\ Served = 0
          /\ Served' = IF w.done THEN 1 ELSE 0
          /\ Loose' = {s \in DOMAIN finalizing : finalizing[s].pc \notin {"refused", "gone"}}
          /\ FailedOne = IF q.pc = "failed" THEN 1 ELSE 0
          /\ Loose = {s \in DOMAIN finalizing :
                         s # r /\ finalizing[s].pc \notin {"refused", "gone"}}
      BY <2>1, <2>2, <2>3, <1>12
    <2>5. m + FailedOne <= f /\ FailedOne \in {0, 1} BY <1>9, <1>10, <2>4 DEF IntakeInv, LooseCost
    <2>6. m <= f BY <2>5
    <2>7. Loose' = Loose \/ (Loose' = Loose \cup {r} /\ r \notin Loose) BY <2>4
    <2>8. Cardinality(Loose') \in {m, m + 1} BY <1>0, <1>9, <2>7, FS_AddElement
    <2>9. Served' = 0 BY <2>2, <2>3, <2>4
    <2>10. PICK n \in Nat : n = Cardinality(Loose') /\ n <= m + 1 BY <2>8
    <2>11. LooseCost' BY <2>1, <2>4, <2>6, <2>9, <2>10 DEF LooseCost
    <2> QED BY <2>4, <2>11 DEF IntakeInv
  <1> QED
    BY <1>2, <1>3, <1>4, <1>5, <1>6, <1>7, <1>8, <1>13, <1>14 DEF FinalizeRequestStep

\* The invariant holds at first and after each step.
LEMMA IntakeStarts ==
    ASSUME IntakeInit
    PROVE  IntakeInv
  <1> USE IntakeAssumption
  <1>1. /\ wizard \in WizardStates /\ wizard.step = 1 /\ wizard.uploads = {}
        /\ wizard.publishing = 0 /\ ~wizard.done
    BY DEF IntakeInit, WizardStates
  <1>2. form \in Forms /\ form.primary = NoSubject /\ form.cross = {}
    BY DEF IntakeInit, Forms, Lengths, TitleLengths, Uses, EmptyDraft
  <1>3. finalizing \in Seq(RequestStates) /\ Len(finalizing) = 0
    BY EmptySeq DEF IntakeInit
  <1>4. IntakeTypes BY <1>1, <1>2, <1>3 DEF IntakeInit, IntakeTypes
  <1>5. DOMAIN finalizing = {} BY <1>3, <1>4, LooseFinite
  <1>6. IsFiniteSet({}) /\ Cardinality({}) = 0 BY FS_EmptySet
  <1>7. GatesHold BY <1>1, <1>2, <1>6 DEF GatesHold
  <1>8. RequestsStaged BY <1>5 DEF RequestsStaged
  <1>9. TabWaits BY <1>1 DEF TabWaits
  <1>10. Loose = {} /\ FailedOne = 0 /\ Served = 0 BY <1>1, <1>5 DEF Loose, FailedOne, Served
  <1>11. LooseCost BY <1>6, <1>10 DEF LooseCost, IntakeInit
  <1> QED BY <1>4, <1>7, <1>8, <1>9, <1>11 DEF IntakeInv

\* The invariant of the wizard and its requests holds in every state.
LEMMA IntakeInvAlways == IntakeSpec => []IntakeInv
  <1>1. IntakeInit => IntakeInv BY IntakeStarts
  <1>2. IntakeInv /\ [IntakeNext]_intakeVars => IntakeInv'
    <2> SUFFICES ASSUME IntakeInv, [IntakeNext]_intakeVars PROVE IntakeInv'
      OBVIOUS
    <2>1. CASE IntakeNext
      BY <2>1, FormStepKeeps, TabStepKeeps, UploadStepKeeps, RequestStepKeeps DEF IntakeNext
    <2>2. CASE UNCHANGED intakeVars
      BY <2>2
      DEF intakeVars, IntakeInv, IntakeTypes, GatesHold, RequestsStaged, TabWaits, LooseCost,
          Loose, FailedOne, Served
    <2> QED BY <2>1, <2>2
  <1> QED BY <1>1, <1>2, PTL DEF IntakeSpec

\* For every number of documents, edits, models, requests and failures: the server refuses
\* what the wizard sends for a limit that no gate asks for, or for a summary that a
\* suggestion has changed on the last step, and for nothing else (routes/intake.ts:56-127,
\* submissions.ts:1206-1251).
THEOREM RefusalsExplainedAlways == IntakeSpec => []RefusalsExplained
  <1>1. IntakeInv => RefusalsExplained
    BY DEF IntakeInv, RequestsStaged, Staged, Explained, RefusalsExplained, RequestAt
  <1> QED BY <1>1, IntakeInvAlways, PTL

\* For every number of documents, edits, requests and failures: a session gives one paper
\* and one more for each failure or lost answer, and what is shown as submitted has its job
\* (submissions.ts:316-424).
THEOREM SubmissionsHoldAlways == IntakeSpec => []SubmissionsHold
  <1>1. ASSUME IntakeInv PROVE SubmissionsHold
    <2>0. /\ DOMAIN finalizing = 1..Len(finalizing) /\ Len(finalizing) \in Nat
          /\ \A r \in DOMAIN finalizing : finalizing[r] \in RequestStates
          /\ IsFiniteSet(Loose) /\ Cardinality(Loose) \in Nat
      BY <1>1, LooseFinite DEF IntakeInv
    <2>1. PICK m \in Nat : m = Cardinality(Loose) BY <2>0
    <2>2. PICK f \in Nat : f = intakeFaults BY <1>1 DEF IntakeInv, IntakeTypes
    <2>3. ASSUME NEW d \in Documents
          PROVE  Cardinality({r \in DOMAIN finalizing :
                                 finalizing[r].doc = d /\ finalizing[r].paper}) <= 1 + f
      <3> DEFINE P == {r \in DOMAIN finalizing :
                           finalizing[r].doc = d /\ finalizing[r].paper}
                 T == Loose \cup (IF wizard.publishing = 0 THEN {} ELSE {wizard.publishing})
      <3>1. P \in SUBSET T
        <4>1. \A r \in P : finalizing[r].pc \notin {"refused", "gone"}
          BY <1>1 DEF IntakeInv, RequestsStaged, Staged
        <4>2. \A r \in P : r # 0 BY <2>0
        <4> QED BY <4>1, <4>2 DEF Loose
      <3>2. IsFiniteSet(T) /\ Cardinality(T) <= 1 + f
        <4>1. CASE wizard.publishing = 0
          <5>1. T = Loose /\ FailedOne = 0 /\ Served \in {0, 1}
            BY <4>1 DEF FailedOne, Served
          <5>2. m <= f + Served
            BY <1>1, <2>1, <2>2, <5>1 DEF IntakeInv, LooseCost
          <5>3. m <= 1 + f BY <5>1, <5>2
          <5> QED BY <2>0, <2>1, <5>1, <5>3
        <4>2. CASE wizard.publishing # 0
          <5>1. /\ T = Loose \cup {wizard.publishing} /\ wizard.publishing \notin Loose
                /\ Served = 0 /\ FailedOne \in {0, 1}
            BY <1>1, <4>2 DEF IntakeInv, TabWaits, FailedOne, Served, Loose
          <5>2. m + FailedOne <= f
            BY <1>1, <2>1, <2>2, <5>1 DEF IntakeInv, LooseCost
          <5>3. m <= f BY <5>1, <5>2
          <5>4. IsFiniteSet(T) /\ Cardinality(T) = m + 1
            BY <2>0, <2>1, <5>1, FS_AddElement
          <5> QED BY <5>3, <5>4
        <4> QED BY <4>1, <4>2
      <3>3. IsFiniteSet(P) /\ Cardinality(P) <= Cardinality(T)
        BY <3>1, <3>2, FS_Subset
      <3>4. Cardinality(P) \in Nat /\ Cardinality(T) \in Nat
        BY <3>2, <3>3, FS_CardinalityType
      <3> HIDE DEF T
      <3> QED BY <3>2, <3>3, <3>4
    <2>4. OnePaperPerSession BY <2>2, <2>3 DEF OnePaperPerSession
    <2>5. SubmittedHasJob
      <3>1. \A r \in DOMAIN finalizing :
              /\ finalizing[r].pc = "done" => finalizing[r].paper /\ finalizing[r].job
              /\ finalizing[r].pc \in {"refused", "gone"} =>
                    ~finalizing[r].paper /\ ~finalizing[r].job
        BY <1>1 DEF IntakeInv, RequestsStaged, Staged
      <3>2. \A r \in DOMAIN finalizing :
              finalizing[r].pc \in {"done", "refused", "gone"} =>
                  finalizing[r].paper = finalizing[r].job
        <4>1. \A r \in DOMAIN finalizing :
                finalizing[r].paper \in BOOLEAN /\ finalizing[r].job \in BOOLEAN
          BY <2>0 DEF RequestStates
        <4> QED BY <3>1, <4>1
      <3> QED BY <1>1, <3>1, <3>2 DEF IntakeInv, TabWaits, SubmittedHasJob
    <2> QED BY <2>4, <2>5 DEF SubmissionsHold
  <1>2. IntakeInv => SubmissionsHold BY <1>1
  <1> QED BY <1>2, IntakeInvAlways, PTL

-----------------------------------------------------------------------------
(* The edits of one paper. *)

EditPlaces == {"idle", "columns", "categories", "locking", "inserting", "keywords", "words",
               "audit"}

\* The value of a field an edit leaves behind.
Goal(q, f) == IF f \in DOMAIN q.new THEN Logged(q.new, f) ELSE q.old[f]

\* What an edit that was let in asks for and has read.
LetIn(q) ==
    /\ DOMAIN q.new \subseteq Fields /\ q.left \subseteq DOMAIN q.new
    /\ q.pc # "audit" => q.left = DOMAIN q.new
    /\ "abstract" \in DOMAIN q.new => q.new.abstract \in Abstracts \cup {NoAbstract}
    /\ "primary" \in DOMAIN q.new => q.new.primary \in Codes
    /\ "cross" \in DOMAIN q.new => q.new.cross \subseteq Codes
    /\ "keywords" \in DOMAIN q.new => q.new.keywords.words \subseteq Words
    /\ q.old.primary \in Codes /\ q.old.cross \subseteq Codes
    /\ q.old.primary \notin q.old.cross
    /\ "cross" \in DOMAIN q.new =>
           (IF "primary" \in DOMAIN q.new THEN q.new.primary ELSE q.old.primary) \notin q.new.cross
    /\ q.pc = "columns" => "abstract" \in DOMAIN q.new
    /\ q.pc \in {"keywords", "words"} => "keywords" \in DOMAIN q.new

EditorState(q) ==
    /\ q = [pc |-> q.pc, old |-> q.old, new |-> q.new, seen |-> q.seen, left |-> q.left]
    /\ q.pc \in EditPlaces
    /\ q.pc # "idle" => LetIn(q)

EditTypes ==
    /\ row \in [abstract: Abstracts \cup {NoAbstract}, primary: Codes, cross: SUBSET Codes]
    /\ catRows \subseteq Codes \X BOOLEAN \X Nat /\ kwRows \subseteq Words /\ edits \in Nat
    /\ editor = [e \in Editors |-> editor[e]] /\ \A e \in Editors : EditorState(editor[e])
    /\ trail = [f \in Fields |-> trail[f]]

\* One transaction at a time deletes what is there.
InTurn ==
    /\ \A d, e \in Editors :
        editor[d].pc \in {"locking", "inserting"} /\ editor[e].pc \in {"locking", "inserting"}
            => d = e
    /\ \A e \in Editors : editor[e].pc \in {"locking", "inserting"} => editor[e].seen = catRows

\* No edit has overlapped with another, failed, or said something else than it did.
Clean == ~together /\ ~unsaid /\ ~broken

\* How far the edit q has come tells which fields have their new value, and the audit rows
\* that are written say so.
Told(q) ==
    /\ "abstract" \in DOMAIN q.new => q.new.abstract # NoAbstract
    /\ "primary" \in DOMAIN q.new /\ "cross" \notin DOMAIN q.new => q.new.primary \notin q.old.cross
    /\ chained
    /\ \A f \in Fields : trail[f] = IF f \in q.left THEN q.old[f] ELSE Goal(q, f)
    /\ row.abstract = IF q.pc = "columns" THEN q.old["abstract"] ELSE Goal(q, "abstract")
    /\ row.primary = IF q.pc \in {"keywords", "words", "audit"} THEN Goal(q, "primary")
                     ELSE q.old["primary"]
    /\ row.cross = IF q.pc \in {"keywords", "words", "audit"} THEN Goal(q, "cross")
                   ELSE q.old["cross"]
    /\ kwRows = IF q.pc = "audit" THEN Goal(q, "keywords")
                ELSE IF q.pc = "words" THEN {} ELSE q.old["keywords"]

AuditTold ==
    Clean =>
        /\ EditsIdle => chained /\ \A f \in Fields : trail[f] = Loaded[f]
        /\ \A e \in Editors : editor[e].pc # "idle" =>
              Told(editor[e]) /\ \A d \in Editors : d # e => editor[d].pc = "idle"

EditInv ==
    /\ EditTypes /\ row.primary \notin row.cross
    /\ ~catTogether => ViewsAgree /\ InTurn
    /\ AuditTold

\* The record of one edit changes, and the others stay.
LEMMA OneEditor ==
    ASSUME EditTypes, NEW e \in Editors, NEW q, editor' = [editor EXCEPT ![e] = q]
    PROVE  /\ editor'[e] = q /\ \A d \in Editors : d # e => editor'[d] = editor[d]
           /\ editor' = [d \in Editors |-> editor'[d]]
  BY DEF EditTypes

\* An edit that fails leaves the categories as they are.
LEMMA EditDrops ==
    ASSUME EditInv, NEW e \in Editors, editor' = [editor EXCEPT ![e] = NoEdit], broken',
           kwRows' \subseteq Words, edits' = edits,
           UNCHANGED <<row, catRows, trail, chained, catTogether>>
    PROVE  EditInv'
  <1>1. /\ editor'[e] = NoEdit /\ \A d \in Editors : d # e => editor'[d] = editor[d]
        /\ editor' = [d \in Editors |-> editor'[d]]
    BY OneEditor DEF EditInv
  <1>2. EditorState(NoEdit) /\ NoEdit.pc = "idle"
    BY DEF EditorState, NoEdit, EditPlaces
  <1>3. EditTypes' BY <1>1, <1>2 DEF EditInv, EditTypes, EditorState, LetIn
  <1>4. AuditTold' BY DEF AuditTold, Clean
  <1>5. catTogether' \/ (ViewsAgree /\ InTurn)' BY <1>1, <1>2 DEF EditInv, ViewsAgree, InTurn
  <1> QED BY <1>3, <1>4, <1>5 DEF EditInv

\* A step of one edit.
LEMMA EditMoves ==
    ASSUME EditInv, NEW e \in Editors, NEW q, EditorState(q), editor' = [editor EXCEPT ![e] = q],
           row' \in [abstract: Abstracts \cup {NoAbstract}, primary: Codes, cross: SUBSET Codes],
           row'.primary \notin row'.cross,
           catRows' \subseteq Codes \X BOOLEAN \X Nat, kwRows' \subseteq Words, edits' \in Nat,
           trail' = [f \in Fields |-> trail'[f]],
           ~catTogether' => ViewsAgree' /\ InTurn',
           Clean' => /\ \A d \in Editors : d # e => editor[d].pc = "idle"
                     /\ q.pc # "idle" => Told(q)'
                     /\ q.pc = "idle" => (chained /\ \A f \in Fields : trail[f] = Loaded[f])'
    PROVE  EditInv'
  <1>1. /\ editor'[e] = q /\ \A d \in Editors : d # e => editor'[d] = editor[d]
        /\ editor' = [d \in Editors |-> editor'[d]]
    BY OneEditor DEF EditInv
  <1>2. EditTypes'
    <2>1. \A d \in Editors : EditorState(editor[d])
      BY DEF EditInv, EditTypes
    <2>2. \A d \in Editors : EditorState(editor'[d])
      BY <1>1, <2>1
    <2> QED BY <1>1, <2>2 DEF EditTypes, EditorState, LetIn
  <1>3. AuditTold'
    <2> SUFFICES ASSUME Clean' PROVE
           /\ EditsIdle' => (chained /\ \A f \in Fields : trail[f] = Loaded[f])'
           /\ \A d \in Editors : editor'[d].pc # "idle" =>
                 Told(editor[d])' /\ \A c \in Editors : c # d => editor'[c].pc = "idle"
      BY DEF AuditTold
    <2>1. \A d \in Editors : d # e => editor'[d].pc = "idle" BY <1>1
    <2>2. CASE q.pc = "idle"
      BY <1>1, <2>1, <2>2
    <2>3. CASE q.pc # "idle"
      <3>1. ~EditsIdle' BY <1>1, <2>3 DEF EditsIdle, EditAt
      <3>2. Told(editor[e])' BY <1>1, <2>3 DEF Told, Goal, Logged
      <3> QED BY <1>1, <2>1, <3>1, <3>2
    <2> QED BY <2>2, <2>3
  <1> QED BY <1>2, <1>3 DEF EditInv

\* What is loaded, field by field.
LEMMA LoadedFields ==
    /\ Loaded["abstract"] = row.abstract /\ Loaded["primary"] = row.primary
    /\ Loaded["cross"] = row.cross /\ Loaded["keywords"] = kwRows
  BY DEF Loaded, Fields, Columns

\* One edit is let in.
LEMMA BeginKeeps ==
    ASSUME EditInv, NEW e \in Editors, NEW r \in EditRequests, BeginEdit(e, r)
    PROVE  EditInv'
  <1>a. PICK old : old = Loaded OBVIOUS
  <1>b. PICK new : new = Diffs(r, old) OBVIOUS
  <1> DEFINE q == [pc |-> IF "abstract" \in DOMAIN new THEN "columns" ELSE AfterColumns(new),
                   old |-> old, new |-> new, seen |-> {}, left |-> DOMAIN new]
  <1>1. /\ editor' = [editor EXCEPT ![e] = q] /\ edits' = edits + 1 /\ new # NoDiffs
        /\ unsaid' = (unsaid \/ LogsAnother(new, old)) /\ together' = (together \/ ~EditsIdle)
        /\ UNCHANGED <<row, catRows, kwRows, trail, chained, catTogether, broken>>
    BY <1>a, <1>b DEF BeginEdit, editStores, editAudit
  <1>2. /\ DOMAIN r \subseteq Fields
        /\ "abstract" \in DOMAIN r => r.abstract \in Abstracts \cup {NoAbstract}
        /\ "primary" \in DOMAIN r => r.primary \in Codes
        /\ "cross" \in DOMAIN r => r.cross \subseteq Codes
        /\ "keywords" \in DOMAIN r => r.keywords.words \subseteq Words
    BY EditAssumption DEF FieldValues
  <1>3. /\ DOMAIN new \subseteq DOMAIN r
        /\ "abstract" \in DOMAIN new => new.abstract = r.abstract
        /\ "primary" \in DOMAIN new => new.primary = r.primary
        /\ "cross" \in DOMAIN new =>
              new.cross = r.cross \ {IF "primary" \in DOMAIN r THEN r.primary
                                     ELSE old["primary"]}
        /\ "keywords" \in DOMAIN new => new.keywords = r.keywords
    BY <1>b DEF Diffs, Asked
  <1>4. "primary" \in DOMAIN r /\ "primary" \notin DOMAIN new => r.primary = old["primary"]
    BY <1>b DEF Diffs, Differs, Asked
  <1>5. /\ row.primary \in Codes /\ row.cross \subseteq Codes /\ row.primary \notin row.cross
        /\ kwRows \subseteq Words
    BY DEF EditInv, EditTypes
  <1>6. /\ q.pc \in {"columns", "categories", "keywords", "audit"} /\ q.old = old
        /\ q.new = new /\ q.seen = {} /\ q.left = DOMAIN new
        /\ q.pc = "columns" => "abstract" \in DOMAIN new
        /\ q.pc = "keywords" => "keywords" \in DOMAIN new
        /\ q.pc # "columns" => "abstract" \notin DOMAIN new
        /\ q.pc \in {"keywords", "audit"} =>
              "primary" \notin DOMAIN new /\ "cross" \notin DOMAIN new
        /\ q.pc = "audit" => "keywords" \notin DOMAIN new
        /\ q = [pc |-> q.pc, old |-> q.old, new |-> q.new, seen |-> q.seen, left |-> q.left]
    BY DEF AfterColumns
  <1>7. editor[e].pc = "idle" BY DEF BeginEdit, EditAt
  <1> HIDE DEF q
  <1>8. LetIn(q)
    BY <1>a, <1>2, <1>3, <1>4, <1>5, <1>6, LoadedFields DEF LetIn
  <1>9. EditorState(q) BY <1>6, <1>8 DEF EditorState, EditPlaces
  <1>10. ASSUME Clean'
         PROVE  /\ \A d \in Editors : d # e => editor[d].pc = "idle"
                /\ Told(q)'
    <2>1. Clean /\ EditsIdle /\ ~LogsAnother(new, old) BY <1>1, <1>10 DEF Clean
    <2>2. chained /\ \A f \in Fields : trail[f] = old[f] BY <1>a, <2>1 DEF EditInv, AuditTold
    <2>3. /\ "abstract" \in DOMAIN new => new.abstract # NoAbstract
          /\ "primary" \in DOMAIN new /\ "cross" \notin DOMAIN new =>
                new.primary \notin old["cross"]
      BY <2>1 DEF LogsAnother
    <2>4. \A f \in Fields : f \notin q.left => Goal(q, f) = old[f]
      BY <1>6 DEF Goal
    <2>5. "abstract" \in Fields /\ "primary" \in Fields /\ "cross" \in Fields
          /\ "keywords" \in Fields
      BY DEF Fields
    <2>6. Told(q)
      BY <1>a, <1>6, <2>2, <2>3, <2>4, <2>5, LoadedFields DEF Told
    <2>7. Told(q)' BY <1>1, <2>6 DEF Told, Goal, Logged
    <2> QED BY <2>1, <2>7 DEF EditsIdle, EditAt
  <1>11. ~catTogether' => ViewsAgree' /\ InTurn'
    <2> SUFFICES ASSUME ~catTogether PROVE ViewsAgree' /\ InTurn' BY <1>1
    <2>1. ViewsAgree /\ InTurn BY DEF EditInv
    <2>2. ViewsAgree' BY <1>1, <2>1 DEF ViewsAgree
    <2>3. editor'[e] = q /\ \A d \in Editors : d # e => editor'[d] = editor[d]
      BY <1>1, OneEditor DEF EditInv
    <2>4. q.pc \notin {"locking", "inserting"} BY <1>6
    <2>5. InTurn' BY <1>1, <2>1, <2>3, <2>4 DEF InTurn
    <2> QED BY <2>2, <2>5
  <1>12. edits' \in Nat BY <1>1 DEF EditInv, EditTypes
  <1> HIDE DEF Clean
  <1> QED BY <1>1, <1>6, <1>9, <1>10, <1>11, <1>12, EditMoves DEF EditInv, EditTypes

\* UpdateColumns writes the abstract, and nothing is left between it and the next step.
LEMMA ColumnsKeep ==
    ASSUME EditInv, NEW e \in Editors, UpdateColumns(e)
    PROVE  EditInv'
  <1>a. PICK p : p = editor[e] OBVIOUS
  <1> DEFINE q == [p EXCEPT !.pc = AfterColumns(p.new)]
             a == p.new.abstract
  <1>1. /\ p.pc = "columns" /\ editor' = [editor EXCEPT ![e] = q]
        /\ row' = [row EXCEPT !.abstract = IF a = NoAbstract THEN @ ELSE a]
        /\ UNCHANGED <<catRows, kwRows, trail, chained, together, catTogether, unsaid, broken,
                       edits>>
    BY <1>a DEF UpdateColumns, EditAt, editAudit, editHistory, editSpent
  <1>2. EditorState(p) /\ LetIn(p) BY <1>a, <1>1 DEF EditInv, EditTypes, EditorState
  <1>3. /\ q.pc \in {"categories", "keywords", "audit"}
        /\ q.old = p.old /\ q.new = p.new /\ q.seen = p.seen /\ q.left = p.left
        /\ q.pc = "keywords" => "keywords" \in DOMAIN p.new
        /\ q.pc \in {"keywords", "audit"} =>
              "primary" \notin DOMAIN p.new /\ "cross" \notin DOMAIN p.new
        /\ q.pc = "audit" => "keywords" \notin DOMAIN p.new
        /\ q = [pc |-> q.pc, old |-> q.old, new |-> q.new, seen |-> q.seen, left |-> q.left]
    BY <1>2 DEF EditorState, AfterColumns
  <1> HIDE DEF q
  <1>4. LetIn(q) BY <1>1, <1>2, <1>3 DEF LetIn
  <1>5. EditorState(q) BY <1>3, <1>4 DEF EditorState, EditPlaces
  <1>6. /\ row' \in [abstract: Abstracts \cup {NoAbstract}, primary: Codes, cross: SUBSET Codes]
        /\ row'.primary = row.primary /\ row'.cross = row.cross
        /\ row'.abstract = IF a = NoAbstract THEN row.abstract ELSE a
    BY <1>1, <1>2 DEF EditInv, EditTypes, LetIn
  <1>7. ASSUME Clean'
        PROVE  (\A d \in Editors : d # e => editor[d].pc = "idle") /\ Told(q)'
    <2>1. Clean BY <1>1, <1>7 DEF Clean
    <2>2. Told(p) /\ \A d \in Editors : d # e => editor[d].pc = "idle"
      BY <1>a, <1>1, <2>1 DEF EditInv, AuditTold
    <2>3. /\ \A f \in Fields : Goal(q, f) = Goal(p, f)
          /\ Goal(p, "abstract") = a
      BY <1>1, <1>2, <1>3 DEF Goal, Logged, LetIn
    <2>4. /\ "primary" \in Fields /\ "cross" \in Fields /\ "keywords" \in Fields
          /\ "abstract" \in Fields
      BY DEF Fields
    <2>5. /\ q.pc \in {"keywords", "audit"} =>
              Goal(q, "primary") = p.old["primary"] /\ Goal(q, "cross") = p.old["cross"]
          /\ q.pc = "audit" => Goal(q, "keywords") = p.old["keywords"]
      BY <1>3 DEF Goal
    <2>6. Told(q)'
      BY <1>1, <1>2, <1>3, <1>6, <2>2, <2>3, <2>4, <2>5 DEF Told, LetIn, Goal, Logged
    <2> QED BY <2>2, <2>6
  <1>8. ~catTogether' => ViewsAgree' /\ InTurn'
    <2> SUFFICES ASSUME ~catTogether PROVE ViewsAgree' /\ InTurn' BY <1>1
    <2>1. ViewsAgree /\ InTurn BY DEF EditInv
    <2>2. ViewsAgree' BY <1>1, <1>6, <2>1 DEF ViewsAgree
    <2>3. editor'[e] = q /\ \A d \in Editors : d # e => editor'[d] = editor[d]
      BY <1>1, OneEditor DEF EditInv
    <2>4. InTurn' BY <1>1, <1>3, <2>1, <2>3 DEF InTurn
    <2> QED BY <2>2, <2>4
  <1> HIDE DEF Clean
  <1> QED BY <1>1, <1>3, <1>5, <1>6, <1>7, <1>8, EditMoves DEF EditInv, EditTypes

\* The transaction on the categories begins, or has its locks.
LEMMA CategoriesTurn ==
    ASSUME EditInv, NEW e \in Editors, DeleteCategories(e) \/ LockCategories(e)
    PROVE  EditInv'
  <1>a. PICK p : p = editor[e] OBVIOUS
  <1>b. PICK q : /\ q \in {[p EXCEPT !.pc = "locking", !.seen = catRows],
                           [p EXCEPT !.pc = "inserting"]}
                 /\ editor' = [editor EXCEPT ![e] = q]
                 /\ p.pc = IF q.pc = "locking" THEN "categories" ELSE "locking"
                 /\ q.pc = "locking" => /\ q.seen = catRows
                                        /\ ~catTogether' =>
                                             /\ ~catTogether
                                             /\ \A d \in Editors :
                                                  editor[d].pc \notin {"locking", "inserting"}
                 /\ q.pc = "inserting" => q.seen = p.seen /\ catTogether' = catTogether
    <2>0. EditorState(p) BY <1>a DEF EditInv, EditTypes
    <2>1. CASE DeleteCategories(e)
      <3> DEFINE g == [p EXCEPT !.pc = "locking", !.seen = catRows]
      <3>1. g.pc = "locking" /\ g.seen = catRows BY <2>0 DEF EditorState
      <3>2. /\ editor' = [editor EXCEPT ![e] = g] /\ p.pc = "categories"
            /\ ~catTogether' =>
                  /\ ~catTogether
                  /\ \A d \in Editors : editor[d].pc \notin {"locking", "inserting"}
        BY <1>a, <2>1 DEF DeleteCategories, EditAt
      <3> QED BY <3>1, <3>2
    <2>2. CASE LockCategories(e)
      <3> DEFINE g == [p EXCEPT !.pc = "inserting"]
      <3>1. g.pc = "inserting" /\ g.seen = p.seen BY <2>0 DEF EditorState
      <3>2. /\ editor' = [editor EXCEPT ![e] = g] /\ p.pc = "locking"
            /\ catTogether' = catTogether
        BY <1>a, <2>2 DEF LockCategories, EditAt, editHistory
      <3> QED BY <3>1, <3>2
    <2> QED BY <2>1, <2>2
  <1>1. UNCHANGED <<row, catRows, kwRows, trail, chained, together, unsaid, broken, edits>>
    BY DEF DeleteCategories, LockCategories, editStores, editAudit, editHistory, editSpent
  <1>2. EditorState(p) /\ LetIn(p) BY <1>a, <1>b DEF EditInv, EditTypes, EditorState
  <1>3. /\ q.pc \in {"locking", "inserting"}
        /\ q.old = p.old /\ q.new = p.new /\ q.left = p.left
        /\ q = [pc |-> q.pc, old |-> q.old, new |-> q.new, seen |-> q.seen, left |-> q.left]
    BY <1>b, <1>2 DEF EditorState
  <1>4. LetIn(q) BY <1>b, <1>2, <1>3 DEF LetIn
  <1>5. EditorState(q) BY <1>3, <1>4 DEF EditorState, EditPlaces
  <1>6. ASSUME Clean'
        PROVE  (\A d \in Editors : d # e => editor[d].pc = "idle") /\ Told(q)'
    <2>1. Clean BY <1>1, <1>6 DEF Clean
    <2>2. Told(p) /\ \A d \in Editors : d # e => editor[d].pc = "idle"
      BY <1>a, <1>b, <2>1 DEF EditInv, AuditTold
    <2>3. \A f : Goal(q, f) = Goal(p, f) BY <1>3 DEF Goal
    <2>4. Told(q) BY <1>b, <1>3, <2>2, <2>3 DEF Told
    <2>5. Told(q)' BY <1>1, <2>4 DEF Told, Goal, Logged
    <2> QED BY <2>2, <2>5
  <1>7. ~catTogether' => ViewsAgree' /\ InTurn'
    <2> SUFFICES ASSUME ~catTogether' PROVE ViewsAgree' /\ InTurn' OBVIOUS
    <2>1. ~catTogether BY <1>b, <1>3
    <2>2. ViewsAgree /\ InTurn BY <2>1 DEF EditInv
    <2>3. ViewsAgree' BY <1>1, <2>2 DEF ViewsAgree
    <2>4. editor'[e] = q /\ \A d \in Editors : d # e => editor'[d] = editor[d]
      BY <1>b, OneEditor DEF EditInv
    <2>5. \A d \in Editors : d # e => editor[d].pc \notin {"locking", "inserting"}
      BY <1>a, <1>b, <1>3, <2>2 DEF InTurn
    <2>6. q.seen = catRows BY <1>a, <1>b, <1>3, <2>2 DEF InTurn
    <2>7. InTurn' BY <1>1, <2>4, <2>5, <2>6 DEF InTurn
    <2> QED BY <2>3, <2>7
  <1> HIDE DEF Clean
  <1> QED BY <1>1, <1>3, <1>5, <1>6, <1>7, <1>b, EditMoves DEF EditInv, EditTypes

\* The new categories are in, with their copy in the columns, or the edit has failed.
LEMMA InsertKeeps ==
    ASSUME EditInv, NEW e \in Editors, InsertCategories(e)
    PROVE  EditInv'
  <1>a. PICK p : p = editor[e] OBVIOUS
  <1> DEFINE c == NextPrimary(e)
             x == NextCross(e)
             kept == catRows \ editor[e].seen
             new  == {<<c, TRUE, edits>>} \cup {<<d, FALSE, edits>> : d \in x}
             q == [p EXCEPT !.pc = AfterCategories(p.new), !.seen = {}]
  <1>1. p.pc = "inserting" /\ UNCHANGED <<kwRows, trail, chained, together, catTogether, unsaid,
                                          edits>>
    BY <1>a DEF InsertCategories, EditAt, editAudit, editSpent
  <1>2. EditorState(p) /\ LetIn(p) BY <1>a, <1>1 DEF EditInv, EditTypes, EditorState
  <1>3. CASE \E k \in kept, n \in new : k[1] = n[1]
    <2>1. editor' = [editor EXCEPT ![e] = NoEdit] /\ broken' /\ UNCHANGED <<row, catRows>>
      BY <1>3 DEF InsertCategories
    <2> QED BY <1>1, <2>1, EditDrops DEF EditInv, EditTypes
  <1>4. CASE ~\E k \in kept, n \in new : k[1] = n[1]
    <2>1. /\ catRows' = kept \cup new /\ row' = [row EXCEPT !.primary = c, !.cross = x]
          /\ editor' = [editor EXCEPT ![e] = q] /\ UNCHANGED broken
      BY <1>a, <1>4 DEF InsertCategories
    <2>2. /\ c = IF "primary" \in DOMAIN p.new THEN p.new.primary ELSE p.old["primary"]
          /\ x = (IF "cross" \in DOMAIN p.new THEN p.new.cross ELSE p.old["cross"]) \ {c}
          /\ c \in Codes /\ x \subseteq Codes /\ c \notin x
      BY <1>a, <1>2 DEF NextPrimary, NextCross, LetIn
    <2>3. /\ q.pc \in {"keywords", "audit"}
          /\ q.old = p.old /\ q.new = p.new /\ q.seen = {} /\ q.left = p.left
          /\ q.pc = "keywords" => "keywords" \in DOMAIN p.new
          /\ q.pc = "audit" => "keywords" \notin DOMAIN p.new
          /\ q = [pc |-> q.pc, old |-> q.old, new |-> q.new, seen |-> q.seen, left |-> q.left]
      <3> DEFINE l == AfterCategories(p.new)
      <3>1. l = IF "keywords" \in DOMAIN p.new THEN "keywords" ELSE "audit"
        BY DEF AfterCategories
      <3>2. q = [p EXCEPT !.pc = l, !.seen = {}] OBVIOUS
      <3> HIDE DEF c, x, kept, new, l, q
      <3>3. p = [pc |-> p.pc, old |-> p.old, new |-> p.new, seen |-> p.seen, left |-> p.left]
        BY <1>2 DEF EditorState
      <3>4. q = [pc |-> l, old |-> p.old, new |-> p.new, seen |-> {}, left |-> p.left]
        BY <3>2, <3>3
      <3> QED BY <3>1, <3>4
    <2>4. LetIn(q) BY <1>1, <1>2, <2>3 DEF LetIn
    <2>5. EditorState(q) BY <2>3, <2>4 DEF EditorState, EditPlaces
    <2>6. /\ row' \in [abstract: Abstracts \cup {NoAbstract}, primary: Codes,
                       cross: SUBSET Codes]
          /\ row'.primary = c /\ row'.cross = x /\ row'.abstract = row.abstract
      BY <2>1, <2>2 DEF EditInv, EditTypes
    <2>7. edits \in Nat /\ catRows \subseteq Codes \X BOOLEAN \X Nat
      BY DEF EditInv, EditTypes
    <2>8. catRows' \subseteq Codes \X BOOLEAN \X Nat
      <3> HIDE DEF c, x, q, kept
      <3>a. PICK n \in Nat : n = edits BY <2>7
      <3>b. <<c, TRUE, n>> \in Codes \X BOOLEAN \X Nat BY <2>2
      <3>c. \A d \in x : <<d, FALSE, n>> \in Codes \X BOOLEAN \X Nat BY <2>2
      <3>1. new \subseteq Codes \X BOOLEAN \X Nat BY <3>a, <3>b, <3>c
      <3> HIDE DEF new
      <3>2. kept \subseteq catRows BY DEF kept
      <3> QED BY <2>1, <2>7, <3>1, <3>2
    <2> HIDE DEF q
    <2>9. ~catTogether' => ViewsAgree' /\ InTurn'
      <3> SUFFICES ASSUME ~catTogether PROVE ViewsAgree' /\ InTurn' BY <1>1
      <3>1. InTurn BY DEF EditInv
      <3>2. kept = {} BY <1>a, <1>1, <3>1 DEF InTurn
      <3>3. catRows' = new BY <2>1, <3>2
      <3>4. /\ {r[1] : r \in {s \in new : s[2]}} = {c}
            /\ {r[1] : r \in {s \in new : ~s[2]}} = x
        <4>1. PICK b, y, n : b = c /\ y = x /\ n = edits OBVIOUS
        <4> DEFINE first == <<b, TRUE, n>>
                   Other(d) == <<d, FALSE, n>>
        <4>2. PICK rows : rows = new OBVIOUS
        <4>3. first \in rows /\ \A d \in y : Other(d) \in rows BY <4>1, <4>2
        <4>4. \A s \in rows : s = first \/ \E d \in y : s = Other(d) BY <4>1, <4>2
        <4> HIDE DEF c, x, new
        <4>5. first[1] = b /\ first[2] = TRUE OBVIOUS
        <4>6. \A d \in y : Other(d)[1] = d /\ Other(d)[2] = FALSE OBVIOUS
        <4> HIDE DEF first, Other
        <4>7. /\ \A s \in rows : (s[2] = TRUE /\ s[1] = b) \/ (s[2] = FALSE /\ s[1] \in y)
              /\ \A d \in y : \E s \in rows : s[2] = FALSE /\ s[1] = d
              /\ \E s \in rows : s[2] = TRUE /\ s[1] = b
          BY <4>3, <4>4, <4>5, <4>6
        <4>8. {r[1] : r \in {s \in rows : s[2]}} = {b} BY <4>7
        <4>9. {r[1] : r \in {s \in rows : ~s[2]}} = y BY <4>7
        <4> QED BY <4>1, <4>2, <4>8, <4>9
      <3> HIDE DEF new, c, x
      <3>5. ViewsAgree' BY <2>6, <3>3, <3>4 DEF ViewsAgree
      <3>6. editor'[e] = q /\ \A d \in Editors : d # e => editor'[d] = editor[d]
        BY <2>1, OneEditor DEF EditInv
      <3>7. \A d \in Editors : d # e => editor[d].pc \notin {"locking", "inserting"}
        BY <1>a, <1>1, <3>1 DEF InTurn
      <3>8. InTurn' BY <2>3, <3>6, <3>7 DEF InTurn
      <3> QED BY <3>5, <3>8
    <2>10. ASSUME Clean'
           PROVE  (\A d \in Editors : d # e => editor[d].pc = "idle") /\ Told(q)'
      <3>1. Clean BY <1>1, <2>1, <2>10 DEF Clean
      <3>2. Told(p) /\ \A d \in Editors : d # e => editor[d].pc = "idle"
        BY <1>a, <1>1, <3>1 DEF EditInv, AuditTold
      <3>3. \A f : Goal(q, f) = Goal(p, f) BY <2>3 DEF Goal
      <3>4. Goal(p, "primary") = c BY <2>2 DEF Goal, Logged
      <3>5. Goal(p, "cross") = x
        <4>1. CASE "cross" \in DOMAIN p.new
          BY <1>2, <2>2, <4>1 DEF Goal, Logged, LetIn
        <4>2. CASE "cross" \notin DOMAIN p.new
          <5>1. c \notin p.old["cross"]
            BY <1>2, <2>2, <3>2, <4>2 DEF Told, LetIn
          <5> QED BY <2>2, <4>2, <5>1 DEF Goal
        <4> QED BY <4>1, <4>2
      <3>6. q.pc = "audit" => Goal(p, "keywords") = p.old["keywords"] BY <2>3 DEF Goal
      <3> HIDE DEF c, x
      <3>7. Told(q)'
        BY <1>1, <2>3, <2>6, <3>2, <3>3, <3>4, <3>5, <3>6 DEF Told, Goal, Logged
      <3> QED BY <3>2, <3>7
    <2>11. /\ row'.primary \notin row'.cross /\ q.pc # "idle" /\ edits' \in Nat
           /\ kwRows' \subseteq Words /\ trail' = [f \in Fields |-> trail'[f]]
      BY <1>1, <2>2, <2>3, <2>6 DEF EditInv, EditTypes
    <2> HIDE DEF c, x, Clean
    <2> QED BY <2>1, <2>5, <2>6, <2>8, <2>9, <2>10, <2>11, EditMoves
  <1> QED BY <1>3, <1>4

\* The keywords are deleted, or the new ones are in, or a keyword was there twice.
LEMMA KeywordsKeep ==
    ASSUME EditInv, NEW e \in Editors, DeleteKeywords(e) \/ InsertKeywords(e)
    PROVE  EditInv'
  <1>a. PICK p : p = editor[e] OBVIOUS
  <1>1. /\ p.pc \in {"keywords", "words"}
        /\ UNCHANGED <<row, catRows, trail, chained, together, catTogether, unsaid, edits>>
    BY <1>a
    DEF DeleteKeywords, InsertKeywords, EditAt, editStores, editAudit, editHistory, editSpent
  <1>2. EditorState(p) /\ LetIn(p) BY <1>a, <1>1 DEF EditInv, EditTypes, EditorState
  <1>3. ASSUME NEW l \in {"words", "audit"}, editor' = [editor EXCEPT ![e] = [p EXCEPT !.pc = l]],
               UNCHANGED broken, kwRows' \subseteq Words,
               p.pc = IF l = "words" THEN "keywords" ELSE "words",
               l = "words" => kwRows' = {},
               l = "audit" => kwRows' = kwRows \cup p.new.keywords.words
        PROVE  EditInv'
    <2> DEFINE q == [p EXCEPT !.pc = l]
    <2>1. /\ q.pc = l /\ q.old = p.old /\ q.new = p.new /\ q.seen = p.seen /\ q.left = p.left
          /\ q = [pc |-> q.pc, old |-> q.old, new |-> q.new, seen |-> q.seen, left |-> q.left]
      BY <1>2 DEF EditorState
    <2>2. editor' = [editor EXCEPT ![e] = q] BY <1>3
    <2> HIDE DEF q
    <2>3. LetIn(q) BY <1>2, <1>3, <2>1 DEF LetIn
    <2>4. EditorState(q) BY <1>3, <2>1, <2>3 DEF EditorState, EditPlaces
    <2>5. ASSUME Clean'
          PROVE  (\A d \in Editors : d # e => editor[d].pc = "idle") /\ Told(q)'
      <3>1. Clean BY <1>1, <1>3, <2>5 DEF Clean
      <3>2. Told(p) /\ \A d \in Editors : d # e => editor[d].pc = "idle"
        BY <1>a, <1>1, <3>1 DEF EditInv, AuditTold
      <3>3. \A f : Goal(q, f) = Goal(p, f) BY <2>1 DEF Goal
      <3>4. Goal(p, "keywords") = p.new.keywords.words
        BY <1>1, <1>2 DEF Goal, Logged, LetIn
      <3>5. kwRows' = IF q.pc = "audit" THEN Goal(q, "keywords") ELSE {}
        BY <1>3, <2>1, <3>2, <3>3, <3>4 DEF Told
      <3>6. Told(q)'
        BY <1>1, <1>3, <2>1, <3>2, <3>3, <3>5 DEF Told, Goal, Logged
      <3> QED BY <3>2, <3>6
    <2>6. ~catTogether' => ViewsAgree' /\ InTurn'
      <3> SUFFICES ASSUME ~catTogether PROVE ViewsAgree' /\ InTurn' BY <1>1
      <3>1. ViewsAgree /\ InTurn BY DEF EditInv
      <3>2. ViewsAgree' BY <1>1, <3>1 DEF ViewsAgree
      <3>3. editor'[e] = q /\ \A d \in Editors : d # e => editor'[d] = editor[d]
        BY <2>2, OneEditor DEF EditInv
      <3>4. InTurn' BY <1>1, <2>1, <3>1, <3>3 DEF InTurn
      <3> QED BY <3>2, <3>4
    <2>7. q.pc # "idle" BY <2>1
    <2> HIDE DEF Clean
    <2> QED BY <1>1, <1>3, <2>2, <2>4, <2>5, <2>6, <2>7, EditMoves DEF EditInv, EditTypes
  <1>4. CASE DeleteKeywords(e)
    <2>1. /\ p.pc = "keywords" /\ kwRows' = {} /\ UNCHANGED broken
          /\ editor' = [editor EXCEPT ![e] = [p EXCEPT !.pc = "words"]]
      BY <1>a, <1>4 DEF DeleteKeywords, EditAt, editHistory
    <2> QED BY <2>1, <1>3
  <1>5. CASE InsertKeywords(e)
    <2> DEFINE list == p.new.keywords
    <2>1. p.pc = "words" BY <1>a, <1>5 DEF InsertKeywords, EditAt
    <2>2. CASE list.repeats \/ list.words \cap kwRows # {}
      <3>1. editor' = [editor EXCEPT ![e] = NoEdit] /\ broken' /\ UNCHANGED kwRows
        BY <1>a, <1>5, <2>2 DEF InsertKeywords
      <3> QED BY <1>1, <3>1, EditDrops DEF EditInv, EditTypes
    <2>3. CASE ~(list.repeats \/ list.words \cap kwRows # {})
      <3>1. /\ kwRows' = kwRows \cup list.words /\ UNCHANGED broken
            /\ editor' = [editor EXCEPT ![e] = [p EXCEPT !.pc = "audit"]]
        BY <1>a, <1>5, <2>3 DEF InsertKeywords
      <3>2. kwRows' \subseteq Words
        BY <1>2, <2>1, <3>1 DEF LetIn, EditInv, EditTypes
      <3> QED BY <2>1, <3>1, <3>2, <1>3
    <2> QED BY <2>2, <2>3
  <1> QED BY <1>4, <1>5

\* An audit row is written, in whatever order they come.
LEMMA AuditKeeps ==
    ASSUME EditInv, NEW e \in Editors, NEW f \in Fields, AppendAudit(e, f)
    PROVE  EditInv'
  <1>a. PICK p : p = editor[e] OBVIOUS
  <1> DEFINE q == IF p.left = {f} THEN NoEdit ELSE [p EXCEPT !.left = p.left \ {f}]
  <1>1. /\ p.pc = "audit" /\ f \in p.left /\ editor' = [editor EXCEPT ![e] = q]
        /\ chained' = (chained /\ trail[f] = p.old[f])
        /\ trail' = [trail EXCEPT ![f] = Logged(p.new, f)]
        /\ UNCHANGED <<row, catRows, kwRows, together, catTogether, unsaid, broken, edits>>
    <2>2. editor' = [editor EXCEPT ![e] = q] BY <1>a DEF AppendAudit
    <2> HIDE DEF q
    <2> QED BY <1>a, <2>2 DEF AppendAudit, EditAt, editStores, editHistory, editSpent
  <1>2. EditorState(p) /\ LetIn(p) BY <1>a, <1>1 DEF EditInv, EditTypes, EditorState
  <1>3. /\ p.left = {f} => q = NoEdit
        /\ p.left # {f} =>
             /\ q.pc = "audit" /\ q.old = p.old /\ q.new = p.new /\ q.seen = p.seen
             /\ q.left = p.left \ {f}
             /\ q = [pc |-> q.pc, old |-> q.old, new |-> q.new, seen |-> q.seen, left |-> q.left]
    BY <1>1, <1>2 DEF EditorState
  <1> HIDE DEF q
  <1>4. EditorState(q)
    <2>1. CASE p.left = {f} BY <1>3, <2>1 DEF EditorState, NoEdit, EditPlaces
    <2>2. CASE p.left # {f}
      <3>1. LetIn(q) BY <1>1, <1>2, <1>3, <2>2 DEF LetIn
      <3> QED BY <1>3, <2>2, <3>1 DEF EditorState, EditPlaces
    <2> QED BY <2>1, <2>2
  <1>5. /\ trail' = [g \in Fields |-> trail'[g]] /\ trail'[f] = Logged(p.new, f)
        /\ \A g \in Fields : g # f => trail'[g] = trail[g]
    BY <1>1 DEF EditInv, EditTypes
  <1>6. ASSUME Clean'
        PROVE  /\ \A d \in Editors : d # e => editor[d].pc = "idle"
               /\ q.pc # "idle" => Told(q)'
               /\ q.pc = "idle" => (chained /\ \A g \in Fields : trail[g] = Loaded[g])'
    <2>1. Clean BY <1>1, <1>6 DEF Clean
    <2>2. Told(p) /\ \A d \in Editors : d # e => editor[d].pc = "idle"
      BY <1>a, <1>1, <2>1 DEF EditInv, AuditTold
    <2>3. chained' BY <1>1, <2>2 DEF Told
    <2>4. Goal(p, f) = Logged(p.new, f) /\ f \in DOMAIN p.new
      BY <1>1, <1>2 DEF Goal, LetIn
    <2>5. \A g \in Fields : trail'[g] = IF g \in p.left \ {f} THEN p.old[g] ELSE Goal(p, g)
      BY <1>5, <2>2, <2>4 DEF Told
    <2>6. CASE p.left # {f}
      <3>1. \A g : Goal(q, g) = Goal(p, g) BY <1>3, <2>6 DEF Goal
      <3>2. Told(q)'
        BY <1>1, <1>3, <2>2, <2>3, <2>5, <2>6, <3>1 DEF Told, Goal, Logged
      <3> QED BY <1>3, <2>2, <2>6, <3>2
    <2>7. CASE p.left = {f}
      <3>1. \A g \in Fields : trail'[g] = Goal(p, g) BY <2>5, <2>7
      <3>2. /\ row.abstract = Goal(p, "abstract") /\ row.primary = Goal(p, "primary")
            /\ row.cross = Goal(p, "cross") /\ kwRows = Goal(p, "keywords")
        BY <1>1, <2>2 DEF Told
      <3>3. \A g \in Fields : Goal(p, g) = Loaded[g]
        BY <3>2, LoadedFields DEF Fields
      <3>4. Loaded' = Loaded BY <1>1 DEF Loaded
      <3>5. q.pc = "idle" BY <1>3, <2>7 DEF NoEdit
      <3> QED BY <2>2, <2>3, <3>1, <3>3, <3>4, <3>5
    <2> QED BY <2>6, <2>7
  <1>7. ~catTogether' => ViewsAgree' /\ InTurn'
    <2> SUFFICES ASSUME ~catTogether PROVE ViewsAgree' /\ InTurn' BY <1>1
    <2>1. ViewsAgree /\ InTurn BY DEF EditInv
    <2>2. ViewsAgree' BY <1>1, <2>1 DEF ViewsAgree
    <2>3. editor'[e] = q /\ \A d \in Editors : d # e => editor'[d] = editor[d]
      BY <1>1, OneEditor DEF EditInv
    <2>4. q.pc \in {"idle", "audit"} BY <1>3 DEF NoEdit
    <2>5. InTurn' BY <1>1, <2>1, <2>3, <2>4 DEF InTurn
    <2> QED BY <2>2, <2>5
  <1> HIDE DEF Clean
  <1> QED BY <1>1, <1>4, <1>5, <1>6, <1>7, EditMoves DEF EditInv, EditTypes

\* The paper has its first category and no audit rows.
LEMMA EditStarts ==
    ASSUME EditInit
    PROVE  EditInv
  <1> USE EditAssumption
  <1>1. /\ row = FirstRow /\ row.abstract = NoAbstract /\ row.primary = FirstCode /\ row.cross = {}
        /\ catRows = {<<FirstCode, TRUE, 0>>} /\ kwRows = {} /\ edits = 0
        /\ editor = [e \in Editors |-> NoEdit] /\ chained
        /\ trail = [f \in Fields |-> IF f \in Columns THEN FirstRow[f] ELSE {}]
    BY DEF EditInit, FirstRow
  <1>2. \A e \in Editors : EditorState(editor[e]) /\ editor[e].pc = "idle"
    BY <1>1 DEF EditorState, NoEdit, EditPlaces
  <1>3. row \in [abstract: Abstracts \cup {NoAbstract}, primary: Codes, cross: SUBSET Codes]
    BY <1>1 DEF FirstRow
  <1>4. EditTypes
    <2>1. <<FirstCode, TRUE, 0>> \in Codes \X BOOLEAN \X Nat OBVIOUS
    <2>2. catRows \subseteq Codes \X BOOLEAN \X Nat BY <1>1, <2>1
    <2>3. editor = [e \in Editors |-> editor[e]] BY <1>1
    <2>4. trail = [f \in Fields |-> trail[f]] BY <1>1
    <2>5. kwRows \subseteq Words /\ edits \in Nat BY <1>1
    <2> QED BY <1>2, <1>3, <2>2, <2>3, <2>4, <2>5 DEF EditTypes
  <1>5. ViewsAgree
    <2> DEFINE first == <<FirstCode, TRUE, 0>>
    <2>a. first[1] = FirstCode /\ first[2] = TRUE OBVIOUS
    <2>b. catRows = {first} BY <1>1
    <2> HIDE DEF first
    <2>1. \A r \in catRows : r[2] = TRUE /\ r[1] = FirstCode BY <2>a, <2>b
    <2>2. \E r \in catRows : r[2] = TRUE /\ r[1] = FirstCode BY <2>a, <2>b
    <2>3. {r[1] : r \in {s \in catRows : s[2]}} = {FirstCode} BY <2>1, <2>2
    <2>4. {r[1] : r \in {s \in catRows : ~s[2]}} = {} BY <2>1
    <2> QED BY <1>1, <2>3, <2>4 DEF ViewsAgree
  <1>6. InTurn BY <1>2 DEF InTurn
  <1>7. \A f \in Fields : trail[f] = Loaded[f] BY <1>1 DEF Loaded
  <1>8. AuditTold BY <1>1, <1>2, <1>7 DEF AuditTold
  <1> QED BY <1>1, <1>4, <1>5, <1>6, <1>8 DEF EditInv

\* For every number of requests at once: the two homes of a category agree unless two
\* transactions on them overlapped, a primary category is never listed twice, and after
\* edits one by one the audit rows lead to what the paper says (papers.ts:345-373,
\* paper-edit.ts:232-256).
THEOREM EditHoldsAlways == EditSpec => []EditHolds
  <1>1. EditInit => EditInv BY EditStarts
  <1>2. EditInv /\ [EditNext]_editVars => EditInv'
    <2> SUFFICES ASSUME EditInv, [EditNext]_editVars PROVE EditInv' OBVIOUS
    <2>1. ASSUME NEW e \in Editors, EditStep(e) PROVE EditInv'
      BY <2>1, ColumnsKeep, CategoriesTurn, InsertKeeps, KeywordsKeep, AuditKeeps DEF EditStep
    <2>2. ASSUME NEW e \in Editors, EditFails(e) PROVE EditInv'
      <3>1. /\ editor' = [editor EXCEPT ![e] = NoEdit] /\ broken'
            /\ UNCHANGED <<row, catRows, kwRows, trail, chained, catTogether, edits>>
        BY <2>2 DEF EditFails, editStores, editAudit
      <3> QED BY <2>2, <3>1, EditDrops DEF EditInv, EditTypes
    <2>3. ASSUME NEW e \in Editors, NEW r \in EditRequests, BeginEdit(e, r) PROVE EditInv'
      BY <2>3, BeginKeeps
    <2>4. CASE UNCHANGED editVars
      <3>1. UNCHANGED <<row, catRows, kwRows, trail, chained, editor, together, catTogether,
                        unsaid, broken, edits>>
        BY <2>4 DEF editVars, editStores, editAudit, editHistory, editSpent
      <3>2. EditTypes' BY <3>1 DEF EditInv, EditTypes
      <3>3. (~catTogether => ViewsAgree /\ InTurn)' BY <3>1 DEF EditInv, ViewsAgree, InTurn
      <3>4. AuditTold'
        BY <3>1 DEF EditInv, AuditTold, Clean, EditsIdle, EditAt, Loaded, Told
      <3> QED BY <3>1, <3>2, <3>3, <3>4 DEF EditInv
    <2> QED BY <2>1, <2>2, <2>3, <2>4 DEF EditNext
  <1>3. EditInv => EditHolds
    BY DEF EditInv, AuditTold, Clean, EditHolds, CategoryViewsAgree, AuditExplainsRow
  <1> QED BY <1>1, <1>2, <1>3, PTL DEF EditSpec

-----------------------------------------------------------------------------
(* The profiles that are copied from Bluesky. *)

ProfileStates == [edition : Nat, handle : Handles]
RowStates == [edition : Nat, handle : Handles, at : Nat]
VisitStates == [who : Members, row : RowStates]
RefreshStates == [pc : {"asks", "hears", "writes"}, who : Members, row : RowStates,
                  answer : ProfileStates, handle : Handles, caller : {"loop", "view", "nobody"}]

SyncKinds ==
    /\ atBluesky \in [Members -> ProfileStates] /\ member \in [Members -> RowStates]
    /\ refreshes \in [Refreshes -> {NoRefresh} \cup RefreshStates]
    /\ batch \in Seq(VisitStates) /\ syncTick \in Nat
    /\ chosen \in [Members -> Handles] /\ reported \in [Members -> SUBSET Handles]
    /\ newest \in [Members -> Nat]

HandlesOf(m) == reported[m] \cup {chosen[m]}

\* Bluesky's answer is of a profile the member had, none older than the row shows, as long as
\* the refresh is the only one of its member; the handles it may write are the member's.
RefreshFits(x) ==
    /\ x.answer.edition <= atBluesky[x.who].edition /\ x.answer.handle \in reported[x.who]
    /\ x.who \notin entangled => newest[x.who] <= x.answer.edition
    /\ x.who \notin claimedLate =>
           x.row.handle \in HandlesOf(x.who) /\ x.handle \in HandlesOf(x.who)

RowFits(m) ==
    /\ newest[m] <= atBluesky[m].edition /\ atBluesky[m].handle \in reported[m]
    /\ m \notin entangled => newest[m] <= member[m].edition
    /\ m \notin claimedLate => member[m].handle \in HandlesOf(m)

\* The loop's rows are of the members as they were when none had chosen since.
VisitFits(v) == v.who \notin claimedLate => v.row.handle \in HandlesOf(v.who)

SyncInv ==
    /\ SyncKinds
    /\ \A m \in Members : RowFits(m)
    /\ \A r \in Refreshes : refreshes[r] # NoRefresh => RefreshFits(refreshes[r])
    /\ \A i \in DOMAIN batch : VisitFits(batch[i])
    /\ \A r, q \in Refreshes :
           (/\ refreshes[r] # NoRefresh /\ refreshes[q] # NoRefresh
            /\ refreshes[r].who = refreshes[q].who)
           => r = q \/ refreshes[r].who \in entangled

\* No refresh is under way at first.
LEMMA SyncInitInv == ASSUME SyncInit PROVE SyncInv
<1>1. FirstHandle \in [Members -> Handles] /\ FirstAtBluesky \in [Members -> Handles]
    BY SyncAssumption
<1>2. SyncKinds
    BY <1>1 DEF SyncInit, SyncKinds, ProfileStates, RowStates
<1>3. \A m \in Members : RowFits(m)
    BY <1>1 DEF SyncInit, RowFits, HandlesOf
<1> QED BY <1>2, <1>3 DEF SyncInit, SyncInv

\* A record with a step of its own is not NoRefresh.
LEMMA BusyRefresh == \A x \in RefreshStates : x # NoRefresh
BY DEF RefreshStates, NoRefresh

\* One refresh goes a step, or ends, and the rows stay.
LEMMA RefreshMoves ==
    ASSUME SyncInv, NEW r \in Refreshes, refreshes[r] # NoRefresh,
           NEW next, refreshes' = [refreshes EXCEPT ![r] = next],
           \/ next = NoRefresh
           \/ next \in RefreshStates /\ next.who = refreshes[r].who /\ RefreshFits(next),
           UNCHANGED <<atBluesky, member, batch, syncTick, syncHistory>>
    PROVE  SyncInv'
<1>1. UNCHANGED <<chosen, reported, entangled, claimedLate, newest>>
    BY DEF syncHistory
<1>2. /\ refreshes' \in [Refreshes -> {NoRefresh} \cup RefreshStates] /\ refreshes'[r] = next
      /\ \A q \in Refreshes : q # r => refreshes'[q] = refreshes[q]
    BY DEF SyncInv, SyncKinds
<1>3. SyncKinds'
    BY <1>1, <1>2 DEF SyncInv, SyncKinds
<1>4. (\A m \in Members : RowFits(m))' /\ (\A i \in DOMAIN batch : VisitFits(batch[i]))'
    BY <1>1 DEF SyncInv, RowFits, VisitFits, HandlesOf
<1>5. ASSUME NEW q \in Refreshes, refreshes'[q] # NoRefresh
      PROVE  /\ RefreshFits(refreshes[q])' /\ refreshes[q] # NoRefresh
             /\ refreshes'[q].who = refreshes[q].who
    <2>1. PICK y : y = refreshes'[q]
        OBVIOUS
    <2>2. RefreshFits(y) /\ refreshes[q] # NoRefresh /\ y.who = refreshes[q].who
        <3>1. CASE q = r
            BY <1>2, <1>5, <2>1, <3>1
        <3>2. CASE q # r
            BY <1>2, <1>5, <2>1, <3>2 DEF SyncInv
        <3> QED BY <3>1, <3>2
    <2>3. RefreshFits(y)'
        BY <1>1, <2>2 DEF RefreshFits, HandlesOf
    <2> QED BY <2>1, <2>2, <2>3 DEF RefreshFits, HandlesOf
<1>6. ASSUME NEW p \in Refreshes, NEW q \in Refreshes, refreshes'[p] # NoRefresh,
             refreshes'[q] # NoRefresh, refreshes'[p].who = refreshes'[q].who, p # q
      PROVE  refreshes'[p].who \in entangled'
    BY <1>1, <1>5, <1>6 DEF SyncInv
<1> QED BY <1>3, <1>4, <1>5, <1>6 DEF SyncInv

\* A refresh begins from a row whose handle is one of the member's.
LEMMA StartKeeps ==
    ASSUME SyncInv, NEW r \in Refreshes, NEW m \in Members, NEW entry \in RowStates,
           NEW caller \in {"loop", "view"}, StartRefresh(r, m, entry, caller),
           m \notin claimedLate => entry.handle \in HandlesOf(m),
           batch' \in Seq(VisitStates),
           \A i \in DOMAIN batch' : \E j \in DOMAIN batch : batch'[i] = batch[j],
           UNCHANGED <<atBluesky, member, syncTick, chosen, reported, claimedLate, newest>>
    PROVE  SyncInv'
<1>1. PICK next : next = [pc |-> "asks", who |-> m, row |-> entry, answer |-> atBluesky[m],
                          handle |-> entry.handle, caller |-> caller]
    OBVIOUS
<1>2. next \in RefreshStates /\ next # NoRefresh /\ next.who = m
    BY <1>1, BusyRefresh DEF SyncInv, SyncKinds, RefreshStates, RowStates
<1>3. /\ refreshes' \in [Refreshes -> {NoRefresh} \cup RefreshStates] /\ refreshes'[r] = next
      /\ refreshes[r] = NoRefresh /\ \A q \in Refreshes : q # r => refreshes'[q] = refreshes[q]
    BY <1>1, <1>2 DEF StartRefresh, SyncInv, SyncKinds
<1>4. /\ entangled \subseteq entangled' /\ entangled' \subseteq entangled \cup {m}
      /\ InFlight(m) # {} => m \in entangled'
    BY DEF StartRefresh
<1>5. SyncKinds'
    BY <1>3 DEF SyncInv, SyncKinds
<1>6. (\A n \in Members : RowFits(n))' /\ (\A i \in DOMAIN batch : VisitFits(batch[i]))'
    BY <1>4 DEF SyncInv, RowFits, VisitFits, HandlesOf
<1>8. RefreshFits(next)
    <2>1. next.answer = atBluesky[m] /\ next.row = entry /\ next.handle = entry.handle
        BY <1>1
    <2>2. atBluesky[m].edition \in Nat /\ newest[m] \in Nat
        BY DEF SyncInv, SyncKinds, ProfileStates
    <2> QED BY <1>2, <2>1, <2>2 DEF SyncInv, RowFits, RefreshFits
<1>9. ASSUME NEW q \in Refreshes, refreshes'[q] # NoRefresh PROVE RefreshFits(refreshes[q])'
    <2>1. PICK y : y = refreshes'[q]
        OBVIOUS
    <2>2. RefreshFits(y)
        BY <1>3, <1>8, <1>9, <2>1 DEF SyncInv
    <2>3. RefreshFits(y)'
        BY <1>4, <2>2 DEF RefreshFits, HandlesOf
    <2> QED BY <2>1, <2>3 DEF RefreshFits, HandlesOf
<1>10. ASSUME NEW p \in Refreshes, NEW q \in Refreshes, p # q, refreshes'[p] # NoRefresh,
              refreshes'[q] # NoRefresh, refreshes'[p].who = refreshes'[q].who
       PROVE  refreshes'[p].who \in entangled'
    <2>1. CASE p = r
        BY <1>2, <1>3, <1>4, <1>10, <2>1 DEF InFlight
    <2>2. CASE q = r
        BY <1>2, <1>3, <1>4, <1>10, <2>2 DEF InFlight
    <2>3. CASE p # r /\ q # r
        BY <1>3, <1>4, <1>10, <2>3 DEF SyncInv
    <2> QED BY <2>1, <2>2, <2>3
<1> QED BY <1>5, <1>6, <1>9, <1>10 DEF SyncInv

\* Every step of the members, the loop and the refreshes keeps SyncInv.
LEMMA SyncInductive == ASSUME SyncInv, [SyncNext]_syncVars PROVE SyncInv'
<1>0. /\ refreshes \in [Refreshes -> {NoRefresh} \cup RefreshStates]
      /\ member \in [Members -> RowStates] /\ atBluesky \in [Members -> ProfileStates]
      /\ batch \in Seq(VisitStates) /\ NoRefresh.pc = "idle" /\ syncTick \in Nat
      /\ \A r \in Refreshes : refreshes[r].pc # "idle" =>
             refreshes[r] \in RefreshStates /\ refreshes[r] # NoRefresh /\ RefreshFits(refreshes[r])
    BY BusyRefresh DEF SyncInv, SyncKinds, NoRefresh
<1>1. CASE UNCHANGED syncVars
    BY <1>1 DEF syncVars, syncHistory, SyncInv, SyncKinds, RowFits, RefreshFits, VisitFits,
       HandlesOf
<1>2. CASE SyncTickOn
    BY <1>0, <1>2 DEF SyncTickOn, syncHistory, SyncInv, SyncKinds, RowFits, RefreshFits, VisitFits,
       HandlesOf
<1>3. ASSUME NEW m \in Members, NEW h \in Handles, EditProfile(m, h) PROVE SyncInv'
    <2>1. PICK e \in Nat : e = atBluesky[m].edition
        BY <1>0 DEF ProfileStates
    <2>0. [edition |-> e + 1, handle |-> h] \in ProfileStates
        BY <2>1 DEF ProfileStates
    <2>2. PICK profile \in ProfileStates : profile = [edition |-> e + 1, handle |-> h]
        BY <2>0
    <2>3. atBluesky' = [atBluesky EXCEPT ![m] = profile]
        BY <1>3, <2>1, <2>2 DEF EditProfile
    <2>4. /\ reported' = [reported EXCEPT ![m] = reported[m] \cup {h}]
          /\ UNCHANGED <<member, refreshes, batch, syncTick, chosen, entangled, claimedLate,
                         newest>>
        BY <1>3 DEF EditProfile
    <2>5. /\ atBluesky' \in [Members -> ProfileStates] /\ reported' \in [Members -> SUBSET Handles]
          /\ \A n \in Members : reported[n] \subseteq reported'[n]
          /\ atBluesky'[m].handle = h /\ h \in reported'[m] /\ atBluesky'[m].edition = e + 1
          /\ \A n \in Members : n # m => atBluesky'[n] = atBluesky[n]
        BY <1>0, <2>2, <2>3, <2>4 DEF SyncInv, SyncKinds
    <2>6. \A n \in Members, k \in Nat : k <= atBluesky[n].edition => k <= atBluesky'[n].edition
        BY <2>1, <2>5
    <2>7. SyncKinds'
        BY <2>4, <2>5 DEF SyncInv, SyncKinds
    <2>8. ASSUME NEW n \in Members PROVE RowFits(n)'
        <3>1. newest[n] \in Nat
            BY DEF SyncInv, SyncKinds
        <3>2. newest[n] <= atBluesky'[n].edition
            BY <2>6, <3>1 DEF SyncInv, RowFits
        <3> QED BY <2>4, <2>5, <3>2 DEF SyncInv, RowFits, HandlesOf
    <2>9. ASSUME NEW r \in Refreshes, refreshes[r] # NoRefresh PROVE RefreshFits(refreshes[r])'
        <3>1. refreshes[r].who \in Members /\ refreshes[r].answer.edition \in Nat
            BY <1>0, <2>9 DEF RefreshStates, ProfileStates
        <3>2. refreshes[r].answer.edition <= atBluesky'[refreshes[r].who].edition
            BY <2>6, <2>9, <3>1 DEF SyncInv, RefreshFits
        <3> QED BY <2>4, <2>5, <2>9, <3>1, <3>2 DEF SyncInv, RefreshFits, HandlesOf
    <2>10. ASSUME NEW i \in DOMAIN batch PROVE VisitFits(batch[i])'
        <3>0. batch[i] \in VisitStates
            BY <1>0, <2>10
        <3>1. batch[i].who \in Members
            BY <3>0 DEF VisitStates
        <3> QED BY <2>4, <2>5, <3>1 DEF SyncInv, VisitFits, HandlesOf
    <2> QED BY <2>4, <2>7, <2>8, <2>9, <2>10 DEF SyncInv
<1>4. ASSUME NEW m \in Members, NEW h \in Handles, ClaimHere(m, h) PROVE SyncInv'
    <2>1. PICK entry : entry = [edition |-> member[m].edition, handle |-> h, at |-> syncTick]
        OBVIOUS
    <2>2. PICK mid \in RowStates : mid = [member[m] EXCEPT !.handle = h]
        BY <1>0 DEF RowStates
    <2>0. mid = [edition |-> member[m].edition, handle |-> h, at |-> member[m].at]
        BY <1>0, <2>2 DEF RowStates
    <2>3. [mid EXCEPT !.at = syncTick] = entry
        BY <2>0, <2>1
    <2>4. member' = [member EXCEPT ![m] = entry]
        BY <1>0, <1>4, <2>2, <2>3 DEF ClaimHere
    <2>5. /\ chosen' = [chosen EXCEPT ![m] = h]
          /\ claimedLate \subseteq claimedLate'
          /\ InFlight(m) # {} \/ m \in AheadOfLoop => m \in claimedLate'
          /\ UNCHANGED <<atBluesky, refreshes, batch, syncTick, reported, entangled, newest>>
        BY <1>4 DEF ClaimHere
    <2>6. /\ entry \in RowStates /\ member' \in [Members -> RowStates] /\ member'[m] = entry
          /\ chosen' \in [Members -> Handles] /\ chosen'[m] = h
          /\ \A n \in Members : n # m => member'[n] = member[n] /\ chosen'[n] = chosen[n]
        BY <1>0, <2>1, <2>4, <2>5 DEF SyncInv, SyncKinds, RowStates
    <2>7. SyncKinds'
        BY <2>5, <2>6 DEF SyncInv, SyncKinds
    <2>8. ASSUME NEW n \in Members PROVE RowFits(n)'
        <3>1. CASE n = m
            BY <2>1, <2>5, <2>6, <3>1 DEF SyncInv, RowFits, HandlesOf
        <3>2. CASE n # m
            BY <2>5, <2>6, <3>2 DEF SyncInv, RowFits, HandlesOf
        <3> QED BY <3>1, <3>2
    <2>9. ASSUME NEW r \in Refreshes, refreshes[r] # NoRefresh PROVE RefreshFits(refreshes[r])'
        <3>1. refreshes[r].who \in Members /\ RefreshFits(refreshes[r])
            BY <1>0, <2>9 DEF SyncInv, RefreshStates
        <3>2. CASE refreshes[r].who = m
            <4>1. m \in claimedLate'
                BY <2>5, <2>9, <3>2 DEF InFlight
            <4> QED BY <2>5, <3>1, <3>2, <4>1 DEF RefreshFits
        <3>3. CASE refreshes[r].who # m
            BY <2>5, <2>6, <3>1, <3>3 DEF RefreshFits, HandlesOf
        <3> QED BY <3>2, <3>3
    <2>10. ASSUME NEW i \in DOMAIN batch PROVE VisitFits(batch[i])'
        <3>0. batch[i] \in VisitStates
            BY <1>0, <2>10
        <3>1. batch[i].who \in Members /\ VisitFits(batch[i])
            BY <2>10, <3>0 DEF SyncInv, VisitStates
        <3>2. CASE batch[i].who = m
            <4>1. m \in claimedLate'
                BY <2>5, <3>2 DEF AheadOfLoop
            <4> QED BY <2>5, <3>2, <4>1 DEF VisitFits
        <3>3. CASE batch[i].who # m
            BY <2>5, <2>6, <3>1, <3>3 DEF VisitFits, HandlesOf
        <3> QED BY <3>2, <3>3
    <2> QED BY <2>5, <2>7, <2>8, <2>9, <2>10 DEF SyncInv
<1>5. CASE StartBatch
    <2>0. PICK n \in 1..SyncLimit : \E who \in [1..n -> Members] :
            batch' = [i \in 1..n |-> [who |-> who[i], row |-> member[who[i]]]]
        BY <1>5 DEF StartBatch
    <2>1. PICK who \in [1..n -> Members] :
            batch' = [i \in 1..n |-> [who |-> who[i], row |-> member[who[i]]]]
        BY <2>0
    <2>2. n \in Nat
        BY <2>0, SyncAssumption
    <2>3. batch' \in Seq(VisitStates)
        BY <1>0, <2>1, <2>2 DEF VisitStates
    <2>4. UNCHANGED <<atBluesky, member, refreshes, syncTick, chosen, reported, entangled,
                      claimedLate, newest>>
        BY <1>5 DEF StartBatch, syncHistory
    <2>5. ASSUME NEW i \in DOMAIN batch' PROVE VisitFits(batch[i])'
        <3>1. i \in 1..n /\ who[i] \in Members
            BY <2>1
        <3>2. batch'[i].who = who[i] /\ batch'[i].row = member[who[i]]
            BY <2>1, <3>1
        <3> QED BY <2>4, <3>1, <3>2 DEF SyncInv, RowFits, VisitFits, HandlesOf
    <2>6. SyncKinds' /\ (\A m \in Members : RowFits(m))'
        BY <2>3, <2>4 DEF SyncInv, SyncKinds, RowFits, HandlesOf
    <2>7. \A r \in Refreshes : refreshes[r] # NoRefresh => RefreshFits(refreshes[r])'
        BY <2>4 DEF SyncInv, RefreshFits, HandlesOf
    <2> QED BY <2>4, <2>5, <2>6, <2>7 DEF SyncInv
<1>6. batch # <<>> =>
          /\ Head(batch) \in VisitStates /\ Head(batch) = batch[1] /\ 1 \in DOMAIN batch
          /\ Tail(batch) \in Seq(VisitStates)
          /\ \A i \in DOMAIN Tail(batch) : i + 1 \in DOMAIN batch /\ Tail(batch)[i] = batch[i + 1]
    BY <1>0
<1>7. ASSUME NEW r \in Refreshes, VisitRow(r) PROVE SyncInv'
    <2>0. batch # <<>> /\ UNCHANGED <<atBluesky, member, syncTick, chosen, reported,
                                      claimedLate, newest>>
        BY <1>7 DEF VisitRow
    <2>1. CASE /\ StartRefresh(r, Head(batch).who, Head(batch).row, "loop")
               /\ batch' = Tail(batch)
        <3>1. PICK m \in Members, entry \in RowStates :
                  m = Head(batch).who /\ entry = Head(batch).row
            BY <1>6, <2>0 DEF VisitStates
        <3>2. m \notin claimedLate => entry.handle \in HandlesOf(m)
            BY <1>6, <2>0, <3>1 DEF SyncInv, VisitFits
        <3>3. /\ batch' \in Seq(VisitStates)
              /\ \A i \in DOMAIN batch' : \E j \in DOMAIN batch : batch'[i] = batch[j]
            BY <1>6, <2>0, <2>1
        <3> QED BY <2>0, <2>1, <3>1, <3>2, <3>3, StartKeeps
    <2>2. CASE batch' \in {Tail(batch), <<>>} /\ UNCHANGED <<refreshes, entangled, syncs>>
        <3>1. /\ batch' \in Seq(VisitStates)
              /\ \A i \in DOMAIN batch' : \E j \in DOMAIN batch : batch'[i] = batch[j]
            <4>1. CASE batch' = <<>>
                BY <4>1
            <4>2. CASE batch' = Tail(batch)
                <5>1. \A i \in DOMAIN batch' : i + 1 \in DOMAIN batch /\ batch'[i] = batch[i + 1]
                    BY <1>6, <2>0, <4>2
                <5> QED BY <1>6, <2>0, <4>2, <5>1
            <4> QED BY <2>2, <4>1, <4>2
        <3>2. \A i \in DOMAIN batch' : VisitFits(batch[i])'
            BY <2>0, <3>1 DEF SyncInv, VisitFits, HandlesOf
        <3>3. SyncKinds' /\ (\A m \in Members : RowFits(m))'
            BY <2>0, <2>2, <3>1 DEF SyncInv, SyncKinds, RowFits, HandlesOf
        <3>4. \A q \in Refreshes : refreshes[q] # NoRefresh => RefreshFits(refreshes[q])'
            BY <2>0, <2>2 DEF SyncInv, RefreshFits, HandlesOf
        <3> QED BY <2>0, <2>2, <3>2, <3>3, <3>4 DEF SyncInv
    <2> QED BY <1>7, <2>1, <2>2 DEF VisitRow
<1>8. ASSUME NEW r \in Refreshes, NEW m \in Members, ViewProfile(r, m) PROVE SyncInv'
    <2>1. PICK entry \in RowStates : entry = member[m]
        BY <1>0
    <2>2. /\ StartRefresh(r, m, entry, "view")
          /\ UNCHANGED <<atBluesky, member, batch, syncTick, chosen, reported, claimedLate, newest>>
        BY <1>8, <2>1 DEF ViewProfile
    <2>3. m \notin claimedLate => entry.handle \in HandlesOf(m)
        BY <2>1 DEF SyncInv, RowFits
    <2>4. /\ batch' \in Seq(VisitStates)
          /\ \A i \in DOMAIN batch' : \E j \in DOMAIN batch : batch'[i] = batch[j]
        BY <1>0, <2>2
    <2> QED BY <2>2, <2>3, <2>4, StartKeeps
<1>9. ASSUME NEW r \in Refreshes, BlueskyAnswers(r) PROVE SyncInv'
    <2>1. PICK x \in RefreshStates : x = refreshes[r] /\ RefreshFits(x) /\ x # NoRefresh
        BY <1>0, <1>9 DEF BlueskyAnswers
    <2>2. PICK next : next = [x EXCEPT !.pc = "hears", !.answer = atBluesky[x.who]]
        OBVIOUS
    <2>3. refreshes' = [refreshes EXCEPT ![r] = next]
        BY <1>0, <1>9, <2>1, <2>2 DEF BlueskyAnswers
    <2>4. /\ next \in RefreshStates /\ next.who = x.who /\ next.row = x.row
          /\ next.handle = x.handle
          /\ next.answer = atBluesky[x.who] /\ x.who \in Members
        BY <1>0, <2>1, <2>2 DEF RefreshStates
    <2>5. atBluesky[x.who].edition \in Nat
        BY <1>0, <2>4 DEF ProfileStates
    <2>6. RefreshFits(next)
        BY <2>1, <2>4, <2>5 DEF RefreshFits, SyncInv, RowFits
    <2>7. UNCHANGED <<atBluesky, member, batch, syncTick, syncHistory>>
        BY <1>9 DEF BlueskyAnswers
    <2> QED BY <2>1, <2>3, <2>4, <2>6, <2>7, RefreshMoves
<1>10. ASSUME NEW r \in Refreshes, RefreshFails(r) PROVE SyncInv'
    <2>1. refreshes[r] # NoRefresh /\ refreshes' = [refreshes EXCEPT ![r] = NoRefresh]
          /\ UNCHANGED <<atBluesky, member, batch, syncTick, syncHistory>>
        BY <1>0, <1>10 DEF RefreshFails, EndRefresh
    <2> QED BY <2>1, RefreshMoves
<1>11. ASSUME NEW r \in Refreshes, PickHandle(r) PROVE SyncInv'
    <2>1. PICK x \in RefreshStates : x = refreshes[r] /\ RefreshFits(x) /\ x # NoRefresh
        BY <1>0, <1>11 DEF PickHandle
    <2>2. PICK h \in {x.row.handle, x.answer.handle} :
            refreshes' = [refreshes EXCEPT ![r].pc = "writes", ![r].handle = h]
        BY <1>11, <2>1 DEF PickHandle
    <2>3. PICK next : next = [x EXCEPT !.pc = "writes", !.handle = h]
        OBVIOUS
    <2>4. refreshes' = [refreshes EXCEPT ![r] = next]
        BY <1>0, <2>1, <2>2, <2>3
    <2>5. h \in Handles
        BY <2>1, <2>2 DEF RefreshStates, RowStates, ProfileStates
    <2>6. /\ next \in RefreshStates /\ next.who = x.who /\ next.row = x.row /\ next.handle = h
          /\ next.answer = x.answer
        BY <2>1, <2>3, <2>5 DEF RefreshStates
    <2>7. RefreshFits(next)
        BY <2>1, <2>2, <2>6 DEF RefreshFits, HandlesOf
    <2>8. UNCHANGED <<atBluesky, member, batch, syncTick, syncHistory>>
        BY <1>11 DEF PickHandle
    <2> QED BY <2>1, <2>4, <2>6, <2>7, <2>8, RefreshMoves
<1>12. ASSUME NEW r \in Refreshes, CallerLeaves(r) PROVE SyncInv'
    <2>1. PICK x \in RefreshStates : x = refreshes[r] /\ RefreshFits(x) /\ x # NoRefresh
        BY <1>0, <1>12 DEF CallerLeaves
    <2>2. PICK next : next = [x EXCEPT !.caller = "nobody"]
        OBVIOUS
    <2>3. refreshes' = [refreshes EXCEPT ![r] = next]
          /\ UNCHANGED <<atBluesky, member, batch, syncTick, syncHistory>>
        BY <1>0, <1>12, <2>1, <2>2 DEF CallerLeaves
    <2>4. /\ next \in RefreshStates /\ next.who = x.who /\ next.row = x.row
          /\ next.handle = x.handle
          /\ next.answer = x.answer
        BY <2>1, <2>2 DEF RefreshStates
    <2>5. RefreshFits(next)
        BY <2>1, <2>4 DEF RefreshFits
    <2> QED BY <2>1, <2>3, <2>4, <2>5, RefreshMoves
<1>13. ASSUME NEW r \in Refreshes, WriteProfile(r) PROVE SyncInv'
    <2>1. PICK x \in RefreshStates : x = refreshes[r] /\ RefreshFits(x) /\ x # NoRefresh
        BY <1>0, <1>13 DEF WriteProfile
    <2>2. /\ refreshes' = [refreshes EXCEPT ![r] = NoRefresh]
          /\ UNCHANGED <<atBluesky, batch, syncTick, chosen, reported, entangled, claimedLate>>
        BY <1>13 DEF WriteProfile, EndRefresh
    <2>3. CASE UNCHANGED <<member, newest>>
        BY <2>1, <2>2, <2>3, RefreshMoves DEF syncHistory
    <2>4. CASE /\ member' = [member EXCEPT ![x.who] =
                     [edition |-> x.answer.edition, handle |-> x.handle, at |-> syncTick]]
               /\ newest' = [newest EXCEPT ![x.who] =
                     IF x.answer.edition > newest[x.who] THEN x.answer.edition ELSE newest[x.who]]
        <3>1. PICK m \in Members, e \in Nat, n \in Nat :
                m = x.who /\ e = x.answer.edition /\ n = newest[m]
            BY <2>1 DEF RefreshStates, ProfileStates, SyncInv, SyncKinds
        <3>2. PICK entry \in RowStates :
                  entry = [edition |-> e, handle |-> x.handle, at |-> syncTick]
            BY <1>0, <2>1 DEF RefreshStates, RowStates
        <3>3. PICK new \in Nat : new = IF e > n THEN e ELSE n
            OBVIOUS
        <3>4. member' = [member EXCEPT ![m] = entry] /\ newest' = [newest EXCEPT ![m] = new]
            BY <2>4, <3>1, <3>2, <3>3
        <3>5. /\ member' \in [Members -> RowStates] /\ newest' \in [Members -> Nat]
              /\ member'[m] = entry /\ newest'[m] = new
              /\ \A o \in Members : o # m => member'[o] = member[o] /\ newest'[o] = newest[o]
            BY <1>0, <3>4 DEF SyncInv, SyncKinds
        <3>6. /\ refreshes' \in [Refreshes -> {NoRefresh} \cup RefreshStates]
              /\ refreshes'[r] = NoRefresh
              /\ \A q \in Refreshes : q # r => refreshes'[q] = refreshes[q]
            BY <1>0, <2>2
        <3>7. SyncKinds'
            BY <2>2, <3>5, <3>6 DEF SyncInv, SyncKinds
        <3>8. ASSUME NEW o \in Members PROVE RowFits(o)'
            <4>1. CASE o = m
                <5>1. atBluesky[m].edition \in Nat
                    BY <1>0 DEF ProfileStates
                <5>2. new <= atBluesky[m].edition
                    BY <2>1, <3>1, <3>3, <5>1 DEF RefreshFits, SyncInv, RowFits
                <5>3. m \notin entangled => new <= entry.edition
                    BY <2>1, <3>1, <3>2, <3>3 DEF RefreshFits
                <5>4. m \notin claimedLate => entry.handle \in HandlesOf(m)
                    BY <2>1, <3>1, <3>2 DEF RefreshFits
                <5> QED BY <2>2, <3>5, <4>1, <5>2, <5>3, <5>4 DEF SyncInv, RowFits, HandlesOf
            <4>2. CASE o # m
                BY <2>2, <3>5, <4>2 DEF SyncInv, RowFits, HandlesOf
            <4> QED BY <4>1, <4>2
        <3>9. ASSUME NEW q \in Refreshes, refreshes'[q] # NoRefresh PROVE RefreshFits(refreshes[q])'
            <4>1. q # r /\ refreshes'[q] = refreshes[q] /\ refreshes[q] # NoRefresh
                BY <3>6, <3>9
            <4>2. refreshes[q].who = m => m \in entangled
                BY <2>1, <3>1, <4>1 DEF SyncInv
            <4>3. refreshes[q].who \in Members /\ RefreshFits(refreshes[q])
                BY <1>0, <4>1 DEF SyncInv, RefreshStates
            <4> QED BY <2>2, <3>5, <4>1, <4>2, <4>3 DEF RefreshFits, HandlesOf
        <3>10. \A i \in DOMAIN batch : VisitFits(batch[i])'
            BY <2>2 DEF SyncInv, VisitFits, HandlesOf
        <3>11. ASSUME NEW p \in Refreshes, NEW q \in Refreshes, refreshes'[p] # NoRefresh,
                      refreshes'[q] # NoRefresh, refreshes'[p].who = refreshes'[q].who, p # q
               PROVE  refreshes'[p].who \in entangled'
            BY <2>2, <3>6, <3>11 DEF SyncInv
        <3> QED BY <2>2, <3>7, <3>8, <3>9, <3>10, <3>11 DEF SyncInv
    <2> QED BY <1>13, <2>1, <2>3, <2>4 DEF WriteProfile
<1> QED BY <1>1, <1>2, <1>3, <1>4, <1>5, <1>7, <1>8, <1>9, <1>10, <1>11, <1>12, <1>13 DEF SyncNext

\* A row goes back to an older profile only after two refreshes of its member were under way
\* together, and shows a handle its member has neither chosen last nor had at Bluesky only after
\* a choice that was made while the row was held, for any number of members and refreshes
\* (bluesky-profile-sync.ts:38).
THEOREM ProfilesSettle == SyncSpec => [](ProfilesGoForward /\ ChoicesComeBackLate)
<1>1. SyncInv => ProfilesGoForward /\ ChoicesComeBackLate
    <2> SUFFICES ASSUME SyncInv PROVE ProfilesGoForward /\ ChoicesComeBackLate
        OBVIOUS
    <2>1. ASSUME NEW m \in Members PROVE m \notin entangled => ~(member[m].edition < newest[m])
        BY DEF SyncInv, SyncKinds, RowFits, RowStates
    <2> QED BY <2>1 DEF ProfilesGoForward, ChoicesComeBackLate, SyncInv, RowFits, HandlesOf
<1> QED BY <1>1, SyncInitInv, SyncInductive, PTL DEF SyncSpec

-----------------------------------------------------------------------------
(* The links of a user. *)

VisitShape(x) ==
    x = [kind |-> x.kind, step |-> x.step, account |-> x.account, user |-> x.user,
         did |-> x.did, row |-> x.row]

OnLinks(x) == x.kind \in {"link", "unlink"}

\* An unlink that is about to delete still has its link, and its user another one.
DropIsSafe(x) ==
    x.kind = "unlink" /\ x.step = "delete" =>
        /\ \E l \in links : l.user = x.user /\ l.account = x.account
        /\ \E l \in links : l.user = x.user /\ l.account # x.account

\* An account has one link, the unique index of account_links; requests on links, as long as
\* none has met another, are about different users and different accounts.
LinksInv ==
    /\ visit = [r \in Visits |-> visit[r]] /\ \A r \in Visits : VisitShape(visit[r])
    /\ \A k, l \in links : k.account = l.account => k = l
    /\ ~raced => \A r, q \in Visits : OnLinks(visit[r]) /\ OnLinks(visit[q]) =>
           \/ r = q
           \/ visit[r].user # visit[q].user /\ visit[r].account # visit[q].account
    /\ ~raced => \A r \in Visits : DropIsSafe(visit[r])

\* A request that takes part in no decision about links goes a step; links may be added.
LEMMA VisitKeeps ==
    ASSUME LinksInv, NEW r \in Visits, NEW next, visit' = [visit EXCEPT ![r] = next],
           VisitShape(next), ~(next.kind = "unlink" /\ next.step = "delete"),
           OnLinks(next) => /\ OnLinks(visit[r]) /\ next.user = visit[r].user
                            /\ next.account = visit[r].account,
           links \subseteq links', \A k, l \in links' : k.account = l.account => k = l,
           raced => raced'
    PROVE  LinksInv'
<1>1. /\ visit' = [q \in Visits |-> visit'[q]] /\ visit'[r] = next
      /\ \A q \in Visits : q # r => visit'[q] = visit[q]
    BY DEF LinksInv
<1>2. \A q \in Visits : VisitShape(visit'[q])
    BY <1>1 DEF LinksInv
<1>3. ASSUME ~raced', NEW p \in Visits, NEW q \in Visits, OnLinks(visit'[p]), OnLinks(visit'[q])
      PROVE  \/ p = q
             \/ visit'[p].user # visit'[q].user /\ visit'[p].account # visit'[q].account
    <2>1. /\ OnLinks(visit[p]) /\ visit'[p].user = visit[p].user
          /\ visit'[p].account = visit[p].account
        BY <1>1, <1>3
    <2>2. /\ OnLinks(visit[q]) /\ visit'[q].user = visit[q].user
          /\ visit'[q].account = visit[q].account
        BY <1>1, <1>3
    <2> QED BY <1>3, <2>1, <2>2 DEF LinksInv
<1>4. ASSUME ~raced', NEW q \in Visits PROVE DropIsSafe(visit[q])'
    <2>1. CASE q = r
        BY <1>1, <2>1 DEF DropIsSafe
    <2>2. CASE q # r
        BY <1>1, <1>4, <2>2 DEF LinksInv, DropIsSafe
    <2> QED BY <2>1, <2>2
<1>5. \A q \in Visits : VisitShape(visit[q])'
    BY <1>2 DEF VisitShape
<1> QED BY <1>1, <1>3, <1>4, <1>5 DEF LinksInv, OnLinks

\* A request begins that found no other on its user or its account.
LEMMA VisitBegins ==
    ASSUME LinksInv, NEW r \in Visits, NEW next, visit' = [visit EXCEPT ![r] = next],
           VisitShape(next), OnLinks(next), links' = links,
           raced' = (raced \/ Busy(r, next.user, next.account)),
           ~raced => DropIsSafe(next)
    PROVE  LinksInv'
<1>1. /\ visit' = [q \in Visits |-> visit'[q]] /\ visit'[r] = next
      /\ \A q \in Visits : q # r => visit'[q] = visit[q]
    BY DEF LinksInv
<1>2. \A q \in Visits : VisitShape(visit'[q])
    BY <1>1 DEF LinksInv
<1>3. ~raced' => ~raced /\ \A q \in Visits : q # r /\ OnLinks(visit[q]) =>
          visit[q].user # next.user /\ visit[q].account # next.account
    BY DEF Busy, OnLinks
<1>4. ASSUME ~raced', NEW p \in Visits, NEW q \in Visits, OnLinks(visit'[p]), OnLinks(visit'[q])
      PROVE  \/ p = q
             \/ visit'[p].user # visit'[q].user /\ visit'[p].account # visit'[q].account
    <2>1. CASE p = r /\ q # r
        BY <1>1, <1>3, <1>4, <2>1
    <2>2. CASE q = r /\ p # r
        BY <1>1, <1>3, <1>4, <2>2
    <2>3. CASE p # r /\ q # r
        BY <1>1, <1>3, <1>4, <2>3 DEF LinksInv
    <2> QED BY <2>1, <2>2, <2>3
<1>5. ASSUME ~raced', NEW q \in Visits PROVE DropIsSafe(visit[q])'
    <2>1. CASE q = r
        BY <1>1, <1>3, <1>5, <2>1 DEF DropIsSafe
    <2>2. CASE q # r
        BY <1>1, <1>3, <1>5, <2>2 DEF LinksInv, DropIsSafe
    <2> QED BY <2>1, <2>2
<1>6. \A q \in Visits : VisitShape(visit[q])'
    BY <1>2 DEF VisitShape
<1>7. \A k, l \in links' : k.account = l.account => k = l
    BY DEF LinksInv
<1> QED BY <1>1, <1>4, <1>5, <1>6, <1>7 DEF LinksInv, OnLinks

\* One of two links of a user is not the other.
LEMMA AnotherLink ==
    ASSUME LinksInv, NEW u, NEW l \in LinksOf(u), Cardinality(LinksOf(u)) > 1
    PROVE  \E k \in links : k.user = u /\ k.account # l.account
<1>1. LinksOf(u) # {l}
    <2>1. Cardinality({l}) = 1
        BY FS_Singleton
    <2> QED BY <2>1
<1>2. PICK k \in LinksOf(u) : k # l
    BY <1>1
<1> QED BY <1>2 DEF LinksInv, LinksOf

\* A delete takes one link, of its own user.
LEMMA DeleteKeeps ==
    ASSUME LinksInv, NEW r \in Visits, DeleteLink(r)
    PROVE  LinksInv' /\ (~raced => \A u \in Users : LinksOf(u) # {} => LinksOf(u)' # {})
<1>1. PICK x : x = visit[r] /\ VisitShape(x) /\ x.kind = "unlink" /\ x.step = "delete"
    BY DEF DeleteLink, At, LinksInv
<1>2. PICK next : next = [x EXCEPT !.step = "answer"]
    OBVIOUS
<1>3. VisitShape(next) /\ next.step = "answer" /\ next.user = x.user /\ next.account = x.account
    BY <1>1, <1>2 DEF VisitShape
<1>4. /\ visit' = [visit EXCEPT ![r] = next] /\ raced' = raced
      /\ \A l : l \in links' <=> l \in links /\ l.account # x.account
    BY <1>1, <1>2 DEF DeleteLink, Go, LinkOf, LinksInv, UNCHANGED_Counts
<1>5. ASSUME ~raced, NEW l \in links, l.account = x.account PROVE l.user = x.user
    <2>1. DropIsSafe(x)
        BY <1>1, <1>5 DEF LinksInv
    <2> QED BY <1>1, <1>5, <2>1 DEF LinksInv, DropIsSafe
<1>6. /\ visit' = [q \in Visits |-> visit'[q]] /\ visit'[r] = next
      /\ \A q \in Visits : q # r => visit'[q] = visit[q]
    BY <1>4 DEF LinksInv
<1>7. \A q \in Visits : VisitShape(visit[q])'
    BY <1>3, <1>6 DEF LinksInv, VisitShape
<1>8. \A k, l \in links' : k.account = l.account => k = l
    BY <1>4 DEF LinksInv
<1>9. ASSUME ~raced', NEW p \in Visits, NEW q \in Visits, OnLinks(visit'[p]), OnLinks(visit'[q])
      PROVE  \/ p = q
             \/ visit'[p].user # visit'[q].user /\ visit'[p].account # visit'[q].account
    <2>1. \A o \in Visits : OnLinks(visit'[o]) =>
            /\ OnLinks(visit[o]) /\ visit'[o].user = visit[o].user
            /\ visit'[o].account = visit[o].account
        BY <1>1, <1>3, <1>6 DEF OnLinks
    <2> QED BY <1>4, <1>9, <2>1 DEF LinksInv
<1>10. ASSUME ~raced', NEW q \in Visits PROVE DropIsSafe(visit[q])'
    <2>1. CASE q = r
        BY <1>3, <1>6, <2>1 DEF DropIsSafe
    <2>2. CASE q # r
        <3> SUFFICES ASSUME visit[q].kind = "unlink", visit[q].step = "delete"
                     PROVE  /\ \E l \in links' : l.user = visit[q].user
                                                 /\ l.account = visit[q].account
                            /\ \E l \in links' : l.user = visit[q].user
                                                 /\ l.account # visit[q].account
            BY <1>6, <2>2 DEF DropIsSafe
        <3>1. visit[q].user # x.user /\ visit[q].account # x.account
            BY <1>1, <1>4, <1>10, <2>2 DEF LinksInv, OnLinks
        <3>2. DropIsSafe(visit[q])
            BY <1>4, <1>10 DEF LinksInv
        <3>3. PICK k \in links : k.user = visit[q].user /\ k.account = visit[q].account
            BY <3>2 DEF DropIsSafe
        <3>4. PICK l \in links : l.user = visit[q].user /\ l.account # visit[q].account
            BY <3>2 DEF DropIsSafe
        <3>5. k \in links' /\ l \in links'
            BY <1>4, <1>5, <1>10, <3>1, <3>3, <3>4
        <3> QED BY <3>3, <3>4, <3>5
    <2> QED BY <2>1, <2>2
<1>11. ASSUME ~raced, NEW u \in Users, LinksOf(u) # {} PROVE LinksOf(u)' # {}
    <2>1. DropIsSafe(x)
        BY <1>1, <1>11 DEF LinksInv
    <2>2. CASE u = x.user
        BY <1>1, <1>4, <2>1, <2>2 DEF LinksOf, DropIsSafe
    <2>3. CASE u # x.user
        BY <1>4, <1>5, <1>11, <2>3 DEF LinksOf
    <2> QED BY <2>2, <2>3
<1> QED BY <1>6, <1>7, <1>8, <1>9, <1>10, <1>11 DEF LinksInv, OnLinks

\* A sign-in looks for the user, renames it, writes its row.
LEMMA SignInKeeps ==
    ASSUME LinksInv, NEW r \in Visits, FindExisting(r) \/ SwitchOnSignIn(r) \/ UpsertUser(r)
    PROVE  LinksInv' /\ links' = links
<1>1. PICK x : x = visit[r] /\ VisitShape(x) /\ x.kind = "signin"
    BY DEF FindExisting, SwitchOnSignIn, UpsertUser, At, LinksInv
<1>2. \E next : /\ visit' = [visit EXCEPT ![r] = next] /\ VisitShape(next) /\ next.kind = "signin"
    <2>1. CASE FindExisting(r)
        <3> DEFINE a == visit[r].account
                   known == {u \in Users : a \in users[u].own /\ ProviderOf[a] # "bluesky"}
                   held == CHOOSE u \in known : TRUE
        <3>1. CASE \A u \in known : users[u].did = visit[r].did
            <4>1. PICK next : next = [x EXCEPT !.step = "upsert"]
                OBVIOUS
            <4>2. visit' = [visit EXCEPT ![r] = next]
                BY <1>1, <2>1, <3>1, <4>1 DEF FindExisting
            <4>3. VisitShape(next) /\ next.kind = "signin"
                BY <1>1, <4>1 DEF VisitShape
            <4> QED BY <4>2, <4>3
        <3>2. CASE ~(\A u \in known : users[u].did = visit[r].did)
            <4>1. PICK u, entry : u = held /\ entry = users[held]
                OBVIOUS
            <4>2. visit' = [visit EXCEPT ![r] =
                      IF \/ visit[r].did \in entry.legacy
                         \/ DidPriority(entry.did) > DidPriority(visit[r].did)
                      THEN [visit[r] EXCEPT !.step = "upsert", !.did = entry.did]
                      ELSE [visit[r] EXCEPT !.step = "switch", !.user = u, !.row = entry]]
                BY <2>1, <3>2, <4>1 DEF FindExisting
            <4>3. PICK next : next \in {[x EXCEPT !.step = "upsert", !.did = entry.did],
                                        [x EXCEPT !.step = "switch", !.user = u, !.row = entry]}
                              /\ visit' = [visit EXCEPT ![r] = next]
                BY <1>1, <4>2
            <4>4. VisitShape(next) /\ next.kind = "signin"
                BY <1>1, <4>3 DEF VisitShape
            <4> QED BY <4>3, <4>4
        <3> QED BY <3>1, <3>2
    <2>2. CASE SwitchOnSignIn(r)
        <3>1. PICK next : /\ visit' = [visit EXCEPT ![r] = next]
                          /\ \E step : next = [x EXCEPT !.step = step]
            BY <1>1, <2>2 DEF SwitchOnSignIn, Go
        <3>2. VisitShape(next) /\ next.kind = "signin"
            BY <1>1, <3>1 DEF VisitShape
        <3> QED BY <3>1, <3>2
    <2>3. CASE UpsertUser(r)
        <3>1. PICK next : /\ visit' = [visit EXCEPT ![r] = next]
                          /\ \/ \E step : next = [x EXCEPT !.step = step]
                             \/ \E u : next = [x EXCEPT !.step = "keep", !.user = u]
            <4>1. \/ visit' = [visit EXCEPT ![r].step = "keep", ![r].user = RowFor(visit[r].did)]
                  \/ visit' = [visit EXCEPT ![r] = IF ProviderOf[x.account] = "orcid"
                        THEN [visit[r] EXCEPT !.step = "keep",
                                 !.user = CHOOSE u \in Users : x.account \in users[u].own]
                        ELSE [visit[r] EXCEPT !.step = "refused"]]
                BY <1>1, <2>3 DEF UpsertUser
            <4>2. CASE visit' = [visit EXCEPT ![r].step = "keep", ![r].user = RowFor(visit[r].did)]
                BY <1>1, <4>2
            <4>3. CASE visit' = [visit EXCEPT ![r] = IF ProviderOf[x.account] = "orcid"
                        THEN [visit[r] EXCEPT !.step = "keep",
                                 !.user = CHOOSE u \in Users : x.account \in users[u].own]
                        ELSE [visit[r] EXCEPT !.step = "refused"]]
                BY <1>1, <4>3
            <4> QED BY <4>1, <4>2, <4>3
        <3>2. VisitShape(next) /\ next.kind = "signin"
            BY <1>1, <3>1 DEF VisitShape
        <3> QED BY <3>1, <3>2
    <2> QED BY <2>1, <2>2, <2>3
<1>3. links' = links /\ (raced => raced')
    <2>1. CASE FindExisting(r) \/ UpsertUser(r)
        <3>1. UNCHANGED_Store /\ UNCHANGED_Counts
            BY <2>1 DEF FindExisting, UpsertUser
        <3> QED BY <3>1 DEF UNCHANGED_Store, UNCHANGED_Counts
    <2>2. CASE SwitchOnSignIn(r)
        <3>1. links' = links /\ raced' = (raced \/ users[visit[r].user] # visit[r].row)
            BY <2>2 DEF SwitchOnSignIn, UNCHANGED_Store
        <3> QED BY <3>1
    <2> QED BY <2>1, <2>2
<1>4. \A k, l \in links' : k.account = l.account => k = l
    BY <1>3 DEF LinksInv
<1> QED BY <1>2, <1>3, <1>4, VisitKeeps DEF OnLinks

\* A request on a link reads, renames, writes and inserts, and none of it takes a link.
LEMMA LinkStepKeeps ==
    ASSUME LinksInv, NEW r \in Visits, LinkStep(r)
    PROVE  LinksInv' /\ links \subseteq links'
<1>1. PICK x : x = visit[r] /\ VisitShape(x) /\ x.kind = "link"
    BY DEF LinkStep, LoadUser, SwitchDid, FoldData, InsertLink, At, LinksInv
<1>2. \E next : /\ visit' = [visit EXCEPT ![r] = next] /\ VisitShape(next) /\ next.kind = "link"
                /\ next.user = x.user /\ next.account = x.account
    <2>1. PICK next : /\ visit' = [visit EXCEPT ![r] = next]
                      /\ \/ \E step : next = [x EXCEPT !.step = step]
                         \/ \E entry : next = [x EXCEPT !.step = "switch", !.row = entry]
                         \/ \E did : next = [x EXCEPT !.step = "fold", !.did = did]
        <3>1. CASE LoadUser(r)
            <4>1. \/ visit' = [visit EXCEPT ![r].step = "answer"]
                  \/ \E entry : visit' = [visit EXCEPT ![r].step = "switch", ![r].row = entry]
                BY <3>1 DEF LoadUser, Go
            <4>2. CASE visit' = [visit EXCEPT ![r].step = "answer"]
                BY <1>1, <4>2
            <4>3. CASE \E entry : visit' = [visit EXCEPT ![r].step = "switch", ![r].row = entry]
                <5>1. PICK entry : visit' = [visit EXCEPT ![r].step = "switch", ![r].row = entry]
                    BY <4>3
                <5>2. visit' = [visit EXCEPT ![r] = [x EXCEPT !.step = "switch", !.row = entry]]
                    BY <1>1, <5>1
                <5> QED BY <5>2
            <4> QED BY <4>1, <4>2, <4>3
        <3>2. CASE SwitchDid(r)
            <4>1. \/ \E step : visit' = [visit EXCEPT ![r].step = step]
                  \/ \E did : visit' = [visit EXCEPT ![r].step = "fold", ![r].did = did]
                BY <3>2 DEF SwitchDid, Go
            <4>2. CASE \E step : visit' = [visit EXCEPT ![r].step = step]
                BY <1>1, <4>2
            <4>3. CASE \E did : visit' = [visit EXCEPT ![r].step = "fold", ![r].did = did]
                <5>1. PICK did : visit' = [visit EXCEPT ![r].step = "fold", ![r].did = did]
                    BY <4>3
                <5>2. visit' = [visit EXCEPT ![r] = [x EXCEPT !.step = "fold", !.did = did]]
                    BY <1>1, <5>1
                <5> QED BY <5>2
            <4> QED BY <4>1, <4>2, <4>3
        <3>3. CASE FoldData(r)
            BY <1>1, <3>3 DEF FoldData, Go
        <3>4. CASE InsertLink(r)
            BY <1>1, <3>4 DEF InsertLink, Go
        <3> QED BY <3>1, <3>2, <3>3, <3>4 DEF LinkStep
    <2>2. VisitShape(next) /\ next.kind = "link" /\ next.user = x.user /\ next.account = x.account
        BY <1>1, <2>1 DEF VisitShape
    <2> QED BY <2>1, <2>2
<1>3. /\ links \subseteq links' /\ raced' = raced
      /\ \A k, l \in links' : k.account = l.account => k = l
    <2>1. CASE InsertLink(r)
        BY <2>1 DEF InsertLink, LinkOf, Link, LinksInv, UNCHANGED_Counts
    <2>2. CASE LoadUser(r) \/ SwitchDid(r) \/ FoldData(r)
        BY <2>2 DEF LoadUser, SwitchDid, FoldData, LinksInv, UNCHANGED_Store, UNCHANGED_Counts
    <2> QED BY <2>1, <2>2 DEF LinkStep
<1> QED BY <1>1, <1>2, <1>3, VisitKeeps DEF OnLinks

\* Every step keeps the invariant, and a user that has a link keeps one.
LEMMA LinksInductive ==
    ASSUME LinksInv, [IdentityNext]_idVars
    PROVE  /\ LinksInv'
           /\ ~raced' => \A u \in Users : LinksOf(u) # {} => LinksOf(u)' # {}
<1>0. links \subseteq links' => \A u \in Users : LinksOf(u) # {} => LinksOf(u)' # {}
    BY DEF LinksOf
<1>1. CASE UNCHANGED idVars
    BY <1>0, <1>1 DEF idVars, LinksInv, VisitShape, OnLinks, DropIsSafe
<1>2. ASSUME NEW r \in Visits, NEW a \in Accounts, SignIn(r, a)
      PROVE  LinksInv' /\ links' = links
    <2>1. PICK next : /\ visit' = [visit EXCEPT ![r] = next]
                      /\ \E did : next = [Idle EXCEPT !.kind = "signin", !.step = "find",
                                                      !.account = a, !.did = did]
        BY <1>2 DEF SignIn, Start
    <2>2. VisitShape(next) /\ next.kind = "signin"
        BY <2>1 DEF VisitShape, Idle
    <2>3. links' = links /\ raced' = raced
        BY <1>2 DEF SignIn, UNCHANGED_Store
    <2>4. \A k, l \in links' : k.account = l.account => k = l
        BY <2>3 DEF LinksInv
    <2> QED BY <2>1, <2>2, <2>3, <2>4, VisitKeeps DEF OnLinks
<1>3. ASSUME NEW r \in Visits, EnsureLink(r) PROVE LinksInv' /\ links \subseteq links'
    <2>1. visit' = [visit EXCEPT ![r] = Idle] /\ VisitShape(Idle) /\ Idle.kind = "none"
        BY <1>3 DEF EnsureLink, Idle, VisitShape
    <2>2. /\ links \subseteq links' /\ raced' = raced
          /\ \A k, l \in links' : k.account = l.account => k = l
        BY <1>3 DEF EnsureLink, LinkOf, Link, LinksInv
    <2> QED BY <2>1, <2>2, VisitKeeps DEF OnLinks
<1>4. ASSUME NEW r \in Visits, NEW u \in Users, NEW a \in Accounts, BeginLink(r, u, a)
      PROVE  LinksInv' /\ links' = links
    <2>1. PICK next : /\ visit' = [visit EXCEPT ![r] = next]
                      /\ \E did, step : next = [Idle EXCEPT !.kind = "link", !.account = a,
                                                            !.user = u, !.did = did, !.step = step]
        BY <1>4 DEF BeginLink, Start
    <2>2. VisitShape(next) /\ next.kind = "link" /\ next.user = u /\ next.account = a
        BY <2>1 DEF VisitShape, Idle
    <2>3. links' = links /\ raced' = (raced \/ Busy(r, u, a))
        BY <1>4 DEF BeginLink, UNCHANGED_Store
    <2> QED BY <2>1, <2>2, <2>3, VisitBegins DEF OnLinks, DropIsSafe
<1>5. ASSUME NEW r \in Visits, NEW u \in Users, NEW l \in links, BeginUnlink(r, u, l)
      PROVE  LinksInv' /\ links' = links
    <2>1. PICK next : /\ visit' = [visit EXCEPT ![r] = next]
                      /\ next = [Idle EXCEPT !.kind = "unlink", !.account = l.account, !.user = u,
                                     !.step = IF Removable(u, l) THEN "delete" ELSE "answer"]
        BY <1>5 DEF BeginUnlink, Start
    <2>2. /\ VisitShape(next) /\ next.kind = "unlink" /\ next.user = u /\ next.account = l.account
          /\ next.step = IF Removable(u, l) THEN "delete" ELSE "answer"
        BY <2>1 DEF VisitShape, Idle
    <2>3. l \in LinksOf(u) /\ links' = links /\ raced' = (raced \/ Busy(r, u, l.account))
        BY <1>5 DEF BeginUnlink, UNCHANGED_Store
    <2>4. next.step = "delete" => \E k \in links : k.user = u /\ k.account # l.account
        BY <2>2, <2>3, AnotherLink DEF Removable
    <2>5. DropIsSafe(next)
        BY <2>2, <2>3, <2>4 DEF DropIsSafe, LinksOf
    <2> QED BY <2>1, <2>2, <2>3, <2>5, VisitBegins DEF OnLinks
<1>6. ASSUME NEW r \in Visits, DeleteLink(r)
      PROVE  /\ LinksInv'
             /\ ~raced' => \A u \in Users : LinksOf(u) # {} => LinksOf(u)' # {}
    <2>1. raced' = raced
        BY <1>6 DEF DeleteLink, UNCHANGED_Counts
    <2> QED BY <1>6, <2>1, DeleteKeeps
<1>7. ASSUME NEW r \in Visits, VisitFails(r) \/ VisitEnds(r) PROVE LinksInv' /\ links' = links
    <2>1. visit' = [visit EXCEPT ![r] = Idle] /\ VisitShape(Idle) /\ Idle.kind = "none"
        BY <1>7 DEF VisitFails, VisitEnds, Idle, VisitShape
    <2>2. links' = links /\ raced' = raced
        BY <1>7 DEF VisitFails, VisitEnds, UNCHANGED_Store, UNCHANGED_Counts
    <2>3. \A k, l \in links' : k.account = l.account => k = l
        BY <2>2 DEF LinksInv
    <2> QED BY <2>1, <2>2, <2>3, VisitKeeps DEF OnLinks
<1>8. ASSUME NEW r \in Visits, SignInStep(r) \/ LinkStep(r)
      PROVE  LinksInv' /\ links \subseteq links'
    BY <1>3, <1>8, SignInKeeps, LinkStepKeeps DEF SignInStep
<1> QED BY <1>0, <1>1, <1>2, <1>4, <1>5, <1>6, <1>7, <1>8 DEF IdentityNext

\* A user that has a link to an account keeps one, however many requests, users and accounts
\* there are, unless two requests on the links of one user have overlapped
\* (account-linking.ts:29).
THEOREM LinksRemainAlways == IdentitySpec => LinksRemain
<1>1. IdentityInit => LinksInv
    BY DEF IdentityInit, LinksInv, VisitShape, Idle, OnLinks, DropIsSafe
<1>2. LinksInv /\ [IdentityNext]_idVars =>
          LinksInv' /\ [~raced' => \A u \in Users : LinksOf(u) # {} => LinksOf(u)' # {}]_idVars
    BY LinksInductive
<1> QED BY <1>1, <1>2, PTL DEF IdentitySpec, LinksRemain

-----------------------------------------------------------------------------
(* The thread that announces a paper. *)

ThreadStatuses == {"none", "skipped", "failed", "posted"}
BridgePlaces == {"idle", "post", "record", "failed", "claims", "append", "over"}
PostTexts == {AnchorText, [bytes |-> PostBytes, tagged |-> FALSE]}
ReplyRows == [card : Nat, post : Nat]
ThreadRows == [status : ThreadStatuses, anchor : Nat, replies : Seq(ReplyRows)]
BskyPosts == [root : Nat, parent : Nat, card : Nat, text : PostTexts]
BridgeStates == [pc : BridgePlaces, seen : ThreadRows, anchor : Nat, parent : Nat, card : Nat]

BridgeKinds ==
    /\ posts \in Seq(BskyPosts) /\ bskyThread \in ThreadRows
    /\ bridging \in [Bridges -> BridgeStates] /\ bridgeFaults \in Nat

\* The behaviours the threads are about: no two runs side by side, or no failure.
InOrder == ~sideBySide \/ bridgeFaults = 0

\* A reply hangs on the card before it in the thread of its root, and a thread has a card once.
PostsChain ==
    /\ \A i \in DOMAIN posts : posts[i].root \in DOMAIN posts
    /\ \A i \in DOMAIN posts : posts[i].card > 0 =>
           /\ posts[i].parent \in DOMAIN posts /\ posts[posts[i].parent].root = posts[i].root
           /\ posts[posts[i].parent].card = posts[i].card - 1
    /\ \A i, j \in DOMAIN posts :
           posts[i].root = posts[j].root /\ posts[i].card = posts[j].card => i = j

InThread == {"record", "claims", "append"}

\* What a run has posted by now: its announcement, and the cards before the one it is at.
RunPosted(x) ==
    /\ x.anchor \in DOMAIN posts /\ posts[x.anchor].root = x.anchor
    /\ posts[x.anchor].card = 0 /\ x.card >= 1 /\ (x.pc = "record" => x.card = 1)
    /\ x.pc \in {"record", "claims"} =>
           \A i \in DOMAIN posts : posts[i].root = x.anchor => posts[i].card < x.card
    /\ x.pc = "claims" => /\ x.parent \in DOMAIN posts /\ posts[x.parent].root = x.anchor
                          /\ posts[x.parent].card = x.card - 1
    /\ x.pc = "append" =>
           /\ \A i \in DOMAIN posts : posts[i].root = x.anchor => posts[i].card <= x.card
           /\ \E i \in DOMAIN posts : posts[i].root = x.anchor /\ posts[i].card = x.card

\* A run finds no replies when it begins, since a row with replies is posted or its stage over.
RunsApart ==
    /\ \A r \in Bridges : bridging[r].pc # "idle" => bridging[r].seen.replies = <<>>
    /\ \A r \in Bridges : bridging[r].pc = "post" => bridging[r].card = 1
    /\ \A r \in Bridges : bridging[r].pc \in InThread => RunPosted(bridging[r])
    /\ \A r, q \in Bridges : bridging[r].pc \in InThread /\ bridging[q].pc \in InThread =>
           r = q \/ bridging[r].anchor # bridging[q].anchor

RowSettled ==
    /\ bskyThread.replies # <<>> => bskyThread.status = "posted" \/ stageOver
    /\ \A r \in Bridges : bridging[r].pc \in {"claims", "append"} =>
           bskyThread.status = "posted" \/ stageOver
    /\ bridgeFaults = 0 => \A r \in Bridges : bridging[r].pc # "failed"

Anchors == {i \in DOMAIN posts : posts[i].card = 0}

\* The row of one run after another: it is that of the run at work, or of the last.
RowIsMine ==
    /\ \A r, q \in Bridges : bridging[r].pc # "idle" /\ bridging[q].pc # "idle" => r = q
    /\ \A r \in Bridges : bridging[r].pc \in {"post", "record", "failed"} =>
           bskyThread.status # "posted" /\ bskyThread.replies = <<>>
    /\ \A r \in Bridges : bridging[r].pc \in {"claims", "append"} =>
           /\ bskyThread.status = "posted" /\ bskyThread.anchor = bridging[r].anchor
           /\ \A i \in DOMAIN bskyThread.replies : bskyThread.replies[i].card < bridging[r].card

RowNamesIt ==
    /\ bskyThread.status = "posted" =>
           bskyThread.anchor \in DOMAIN posts /\ posts[bskyThread.anchor].card = 0
    /\ \A i \in DOMAIN bskyThread.replies :
           /\ bskyThread.replies[i].post \in DOMAIN posts
           /\ posts[bskyThread.replies[i].post].root = bskyThread.anchor
           /\ i > 1 => bskyThread.replies[i - 1].card < bskyThread.replies[i].card

\* An announcement is that of the row, or of a run that has yet to say so, or lost by a failure.
AnchorsPaid ==
    /\ IsFiniteSet(Anchors)
    /\ Cardinality(Anchors) <= bridgeFaults + 1
    /\ bskyThread.status # "posted" /\ (\A r \in Bridges : bridging[r].pc # "record") =>
           Cardinality(Anchors) <= bridgeFaults

BridgeInv ==
    /\ BridgeKinds
    /\ InOrder => PostsChain /\ RunsApart /\ RowSettled
    /\ ~sideBySide => RowIsMine /\ RowNamesIt /\ AnchorsPaid

\* What a new post is, and that the others stay.
LEMMA PostAppended ==
    ASSUME BridgeKinds, NEW p \in BskyPosts, posts' = Append(posts, p)
    PROVE  /\ posts' \in Seq(BskyPosts)
           /\ \A i \in DOMAIN posts : i \in DOMAIN posts' /\ posts'[i] = posts[i]
           /\ \A i \in DOMAIN posts' : i \in DOMAIN posts \/ i = Len(posts) + 1
           /\ Len(posts) + 1 \in DOMAIN posts' /\ Len(posts) + 1 \notin DOMAIN posts
           /\ posts'[Len(posts) + 1] = p
BY DEF BridgeKinds

\* The cards of posts are numbers.
LEMMA CardTypes == ASSUME BridgeKinds PROVE \A i \in DOMAIN posts : posts[i].card \in Nat
<1>1. ASSUME NEW i \in DOMAIN posts PROVE posts[i] \in BskyPosts
    BY <1>1 DEF BridgeKinds
<1> QED BY <1>1 DEF BskyPosts

\* A post that is the first of a thread, or hangs on the card before it, keeps the chains.
LEMMA ChainGrows ==
    ASSUME PostsChain, NEW n, NEW p, posts'[n] = p, n \in DOMAIN posts', n \notin DOMAIN posts,
           \A i \in DOMAIN posts : i \in DOMAIN posts' /\ posts'[i] = posts[i],
           \A i \in DOMAIN posts' : i \in DOMAIN posts \/ i = n,
           p.root \in DOMAIN posts',
           p.card > 0 => /\ p.parent \in DOMAIN posts /\ posts[p.parent].root = p.root
                         /\ posts[p.parent].card = p.card - 1,
           \A i \in DOMAIN posts : posts[i].root = p.root => posts[i].card # p.card
    PROVE  PostsChain'
<1>1. ASSUME NEW i \in DOMAIN posts'
      PROVE  /\ posts'[i].root \in DOMAIN posts'
             /\ posts'[i].card > 0 => /\ posts'[i].parent \in DOMAIN posts'
                                      /\ posts'[posts'[i].parent].root = posts'[i].root
                                      /\ posts'[posts'[i].parent].card = posts'[i].card - 1
    <2>1. CASE i = n
        BY <2>1
    <2>2. CASE i \in DOMAIN posts
        <3>1. posts'[i] = posts[i] /\ posts[i].root \in DOMAIN posts'
            BY <2>2 DEF PostsChain
        <3>2. posts[i].card > 0 => /\ posts[i].parent \in DOMAIN posts
                                   /\ posts[posts[i].parent].root = posts[i].root
                                   /\ posts[posts[i].parent].card = posts[i].card - 1
            BY <2>2 DEF PostsChain
        <3>3. posts[i].card > 0 => /\ posts[i].parent \in DOMAIN posts'
                                   /\ posts'[posts[i].parent] = posts[posts[i].parent]
            BY <3>2
        <3> QED BY <3>1, <3>2, <3>3
    <2> QED BY <2>1, <2>2
<1>2. ASSUME NEW i \in DOMAIN posts', NEW j \in DOMAIN posts',
             posts'[i].root = posts'[j].root, posts'[i].card = posts'[j].card
      PROVE  i = j
    <2>1. CASE i \in DOMAIN posts /\ j \in DOMAIN posts
        <3>1. posts[i].root = posts[j].root /\ posts[i].card = posts[j].card
            BY <1>2, <2>1
        <3> QED BY <2>1, <3>1 DEF PostsChain
    <2>2. CASE i = n /\ j \in DOMAIN posts
        BY <1>2, <2>2
    <2>3. CASE j = n /\ i \in DOMAIN posts
        BY <1>2, <2>3
    <2>4. CASE i = n /\ j = n
        BY <2>4
    <2> QED BY <2>1, <2>2, <2>3, <2>4
<1> QED BY <1>1, <1>2 DEF PostsChain

\* A run of another thread, or none of whose cards is new, has posted what it had.
LEMMA PostedBefore ==
    ASSUME NEW x, RunPosted(x), NEW n, NEW p, posts'[n] = p,
           \A i \in DOMAIN posts : i \in DOMAIN posts' /\ posts'[i] = posts[i],
           \A i \in DOMAIN posts' : i \in DOMAIN posts \/ i = n,
           p.root # x.anchor
    PROVE  RunPosted(x)'
<1>1. /\ x.anchor \in DOMAIN posts' /\ posts'[x.anchor] = posts[x.anchor]
      /\ x.pc = "claims" => x.parent \in DOMAIN posts' /\ posts'[x.parent] = posts[x.parent]
    BY DEF RunPosted
<1>2. \A i \in DOMAIN posts' :
          posts'[i].root = x.anchor => i \in DOMAIN posts /\ posts'[i] = posts[i]
    OBVIOUS
<1>3. x.pc = "append" =>
          \E i \in DOMAIN posts' : posts'[i].root = x.anchor /\ posts'[i].card = x.card
    BY DEF RunPosted
<1> QED BY <1>1, <1>2, <1>3 DEF RunPosted

\* At first there is nothing.
LEMMA BridgeInitInv == ASSUME AnnouncementInit PROVE BridgeInv
<1>1. posts = <<>> /\ bskyThread = NoThread /\ bridging = [r \in Bridges |-> NoBridge]
      /\ bridgeFaults = 0
    BY DEF AnnouncementInit
<1>2. BridgeKinds
    BY <1>1 DEF BridgeKinds, NoThread, NoBridge, BridgeStates, BridgePlaces, ThreadRows,
       ThreadStatuses
<1>3. PostsChain /\ RowNamesIt
    BY <1>1 DEF PostsChain, RowNamesIt, NoThread
<1>4. RunsApart /\ RowSettled /\ RowIsMine
    BY <1>1 DEF RunsApart, RowSettled, RowIsMine, NoThread, NoBridge, InThread
<1>5. Anchors = {}
    BY <1>1 DEF Anchors
<1>6. AnchorsPaid
    BY <1>1, <1>5, FS_EmptySet DEF AnchorsPaid
<1> QED BY <1>2, <1>3, <1>4, <1>6 DEF BridgeInv

\* A run starts or stops, or gives up, and neither posts nor writes the row.
LEMMA RunStops ==
    ASSUME BridgeInv, NEW r \in Bridges, NEW next \in BridgeStates,
           bridging' = [bridging EXCEPT ![r] = next],
           UNCHANGED <<title, posts, bskyThread>>, next.pc \notin InThread,
           sideBySide => sideBySide', bridgeFaults' \in Nat, bridgeFaults' >= bridgeFaults,
           stageOver => stageOver',
           next.pc = "failed" => bridgeFaults' > 0 /\ bridging[r].pc \in {"post", "record"},
           bridging[r].pc = "record" => bridgeFaults' > bridgeFaults,
           bridging[r].pc = "idle" /\ next.pc # "idle" =>
               /\ next.pc = "post" /\ next.seen = bskyThread /\ next.card = 1
               /\ bskyThread.status # "posted" /\ ~stageOver
               /\ ~sideBySide' => \A q \in Bridges : bridging[q].pc = "idle",
           bridging[r].pc # "idle" /\ next.pc # "idle" =>
               next.pc # "post" /\ next.seen = bridging[r].seen
    PROVE  BridgeInv'
<1>0. BridgeKinds /\ posts' = posts /\ bskyThread' = bskyThread /\ bridgeFaults \in Nat
    BY DEF BridgeInv, BridgeKinds
<1>1. /\ bridging' \in [Bridges -> BridgeStates] /\ bridging'[r] = next
      /\ \A q \in Bridges : q # r => bridging'[q] = bridging[q]
    BY <1>0 DEF BridgeKinds
<1>2. AnchorText' = AnchorText
    BY DEF AnchorText, RawText
<1>3. BridgeKinds'
    BY <1>0, <1>1, <1>2 DEF BridgeKinds, BskyPosts, PostTexts
<1>4. InOrder' => InOrder
    BY <1>0 DEF InOrder
<1>5. ASSUME InOrder' PROVE PostsChain' /\ RunsApart' /\ RowSettled'
    <2>1. PostsChain /\ RunsApart /\ RowSettled
        BY <1>4, <1>5 DEF BridgeInv
    <2>2. PostsChain'
        BY <1>0, <2>1 DEF PostsChain
    <2>3. bridging'[r].pc # "idle" => bridging'[r].seen.replies = <<>>
        BY <1>1, <2>1 DEF RunsApart, RowSettled
    <2>4. \A q \in Bridges : bridging'[q].pc \in InThread =>
              q # r /\ bridging'[q] = bridging[q]
        BY <1>1
    <2>5. \A q \in Bridges : bridging'[q].pc \in InThread => RunPosted(bridging[q])'
        BY <1>0, <2>1, <2>4 DEF RunsApart, RunPosted
    <2>6. RunsApart'
        BY <1>1, <2>1, <2>3, <2>4, <2>5 DEF RunsApart
    <2>7. RowSettled'
        BY <1>0, <1>1, <2>1 DEF RowSettled, InThread
    <2> QED BY <2>2, <2>6, <2>7
<1>6. ASSUME ~sideBySide' PROVE RowIsMine' /\ RowNamesIt' /\ AnchorsPaid'
    <2>1. RowIsMine /\ RowNamesIt /\ AnchorsPaid /\ RowSettled
        BY <1>6 DEF BridgeInv, InOrder
    <2>2. RowIsMine'
        BY <1>0, <1>1, <1>6, <2>1 DEF RowIsMine, RowSettled, InThread
    <2>3. RowNamesIt'
        BY <1>0, <2>1 DEF RowNamesIt
    <2>4. Anchors' = Anchors /\ Cardinality(Anchors) \in Nat
        BY <1>0, <2>1, FS_CardinalityType DEF Anchors, AnchorsPaid
    <2>5. (\A q \in Bridges : bridging'[q].pc # "record") /\ bskyThread.status # "posted" =>
              Cardinality(Anchors) <= bridgeFaults'
        <3>1. CASE bridging[r].pc = "record"
            BY <1>0, <2>1, <2>4, <3>1 DEF AnchorsPaid
        <3>2. CASE bridging[r].pc # "record"
            BY <1>0, <1>1, <2>1, <2>4, <3>2 DEF AnchorsPaid
        <3> QED BY <3>1, <3>2
    <2>6. AnchorsPaid'
        BY <1>0, <2>1, <2>4, <2>5 DEF AnchorsPaid
    <2> QED BY <2>2, <2>3, <2>6
<1> QED BY <1>3, <1>5, <1>6 DEF BridgeInv

\* An announcement is made, and its run knows of it, or its answer was lost.
LEMMA AnchorPosted ==
    ASSUME BridgeInv, NEW r \in Bridges, bridging[r].pc = "post", NEW next \in BridgeStates,
           bridging' = [bridging EXCEPT ![r] = next],
           posts' = Append(posts, [root |-> Len(posts) + 1, parent |-> 0, card |-> 0,
                                   text |-> AnchorText]),
           UNCHANGED <<title, bskyThread, stageOver, sideBySide>>,
           next.seen = bridging[r].seen, next.card = bridging[r].card, bridgeFaults' \in Nat,
           \/ next.pc = "record" /\ next.anchor = Len(posts) + 1 /\ bridgeFaults' = bridgeFaults
           \/ next.pc = "failed" /\ bridgeFaults' = bridgeFaults + 1
    PROVE  BridgeInv'
<1>0. BridgeKinds /\ bskyThread' = bskyThread /\ bridgeFaults \in Nat
    BY DEF BridgeInv, BridgeKinds
<1>1. /\ bridging' \in [Bridges -> BridgeStates] /\ bridging'[r] = next
      /\ \A q \in Bridges : q # r => bridging'[q] = bridging[q]
    BY <1>0 DEF BridgeKinds
<1>2. AnchorText' = AnchorText
    BY DEF AnchorText, RawText
<1>3. Len(posts) \in Nat
    BY <1>0 DEF BridgeKinds
<1>4. PICK p \in BskyPosts : p = [root |-> Len(posts) + 1, parent |-> 0, card |-> 0,
                                  text |-> AnchorText]
    BY <1>3 DEF BskyPosts, PostTexts
<1>5. PICK n \in Nat : n = Len(posts) + 1
    BY <1>3
<1>13. posts' \in Seq(BskyPosts)
    BY <1>0, <1>4, <1>5, PostAppended
<1>6. /\ posts'[n] = p /\ n \in DOMAIN posts' /\ n \notin DOMAIN posts
      /\ \A i \in DOMAIN posts : i \in DOMAIN posts' /\ posts'[i] = posts[i]
      /\ \A i \in DOMAIN posts' : i \in DOMAIN posts \/ i = n
    BY <1>0, <1>4, <1>5, PostAppended
<1>7. BridgeKinds'
    BY <1>0, <1>1, <1>2, <1>13 DEF BridgeKinds, BskyPosts, PostTexts
<1>8. InOrder' => InOrder
    BY <1>0 DEF InOrder
<1>9. p.root = n /\ p.card = 0 /\ \A i \in DOMAIN posts : posts[i].card \in Nat
    BY <1>0, <1>4, <1>5, CardTypes
<1>10. ASSUME InOrder' PROVE PostsChain' /\ RunsApart' /\ RowSettled'
    <2>1. PostsChain /\ RunsApart /\ RowSettled
        BY <1>8, <1>10 DEF BridgeInv
    <2>2. ASSUME NEW i \in DOMAIN posts PROVE posts[i].root # n
        <3>1. posts[i].root \in DOMAIN posts
            BY <2>1 DEF PostsChain
        <3> QED BY <1>6, <3>1
    <2>3. PostsChain'
        <3>1. \A i \in DOMAIN posts : posts[i].root = p.root => posts[i].card # p.card
            BY <1>9, <2>2
        <3>2. p.root \in DOMAIN posts' /\ ~(p.card > 0)
            BY <1>6, <1>9
        <3> QED BY <1>6, <2>1, <3>1, <3>2, ChainGrows
    <2>4. ASSUME NEW q \in Bridges, bridging'[q].pc \in InThread PROVE RunPosted(bridging[q])'
        <3>1. CASE q = r
            <4>1. next.pc = "record" /\ next.anchor = n /\ next.card = 1
                BY <1>1, <1>5, <2>1, <2>4, <3>1 DEF InThread, RunsApart
            <4>2. \A i \in DOMAIN posts' : posts'[i].root = n => posts'[i].card = 0
                BY <1>6, <1>9, <2>2
            <4> QED BY <1>1, <1>6, <1>9, <3>1, <4>1, <4>2 DEF RunPosted
        <3>2. CASE q # r
            <4>1. PICK x : x = bridging[q] /\ x = bridging'[q] /\ RunPosted(x) /\ x.anchor # n
                BY <1>1, <1>6, <2>1, <2>4, <3>2 DEF RunsApart, RunPosted
            <4>2. RunPosted(x)'
                BY <1>6, <1>9, <4>1, PostedBefore
            <4> QED BY <4>1, <4>2 DEF RunPosted
        <3> QED BY <3>1, <3>2
    <2>5. \A q \in Bridges : q # r /\ bridging[q].pc \in InThread => bridging[q].anchor # n
        BY <1>6, <2>1 DEF RunsApart, RunPosted
    <2>6. RunsApart'
        BY <1>1, <1>5, <2>1, <2>4, <2>5 DEF RunsApart, InThread
    <2>7. RowSettled'
        BY <1>0, <1>1, <2>1 DEF RowSettled
    <2> QED BY <2>3, <2>6, <2>7
<1>11. ASSUME ~sideBySide' PROVE RowIsMine' /\ RowNamesIt' /\ AnchorsPaid'
    <2>1. RowIsMine /\ RowNamesIt /\ AnchorsPaid
        BY <1>11 DEF BridgeInv
    <2>2. RowIsMine'
        BY <1>0, <1>1, <2>1 DEF RowIsMine
    <2>3. RowNamesIt'
        BY <1>0, <1>6, <2>1 DEF RowNamesIt
    <2>4. Anchors' = Anchors \cup {n} /\ n \notin Anchors
        BY <1>6, <1>9 DEF Anchors
    <2>5. Cardinality(Anchors) <= bridgeFaults
        BY <2>1 DEF RowIsMine, AnchorsPaid
    <2>6. /\ IsFiniteSet(Anchors') /\ Cardinality(Anchors') = Cardinality(Anchors) + 1
          /\ Cardinality(Anchors) \in Nat
        BY <2>1, <2>4, FS_AddElement, FS_CardinalityType DEF AnchorsPaid
    <2>7. AnchorsPaid'
        <3>1. CASE next.pc = "record"
            <4>1. ~(\A q \in Bridges : bridging'[q].pc # "record")
                BY <1>1, <3>1
            <4>2. Cardinality(Anchors') <= bridgeFaults' + 1
                BY <1>0, <2>5, <2>6
            <4> QED BY <2>6, <4>1, <4>2 DEF AnchorsPaid
        <3>2. CASE next.pc = "failed"
            BY <1>0, <2>5, <2>6, <3>2 DEF AnchorsPaid
        <3> QED BY <3>1, <3>2
    <2> QED BY <2>2, <2>3, <2>7
<1> QED BY <1>7, <1>10, <1>11 DEF BridgeInv

\* A card is posted, and its run knows of it, or its answer was lost.
LEMMA CardPosted ==
    ASSUME BridgeInv, NEW r \in Bridges, bridging[r].pc = "claims", NEW next \in BridgeStates,
           bridging' = [bridging EXCEPT ![r] = next], posts' = Append(posts, Reply(r)),
           UNCHANGED <<title, bskyThread, stageOver, sideBySide>>,
           next = [bridging[r] EXCEPT !.pc = next.pc], bridgeFaults' \in Nat,
           \/ next.pc = "append" /\ bridgeFaults' = bridgeFaults
           \/ next.pc = "over" /\ bridgeFaults' = bridgeFaults + 1
    PROVE  BridgeInv'
<1>0. /\ BridgeKinds /\ bskyThread' = bskyThread /\ bridgeFaults \in Nat
      /\ bridging[r] \in BridgeStates
    BY DEF BridgeInv, BridgeKinds
<1>1. /\ bridging' \in [Bridges -> BridgeStates] /\ bridging'[r] = next
      /\ \A q \in Bridges : q # r => bridging'[q] = bridging[q]
    BY <1>0 DEF BridgeKinds
<1>2. AnchorText' = AnchorText
    BY DEF AnchorText, RawText
<1>3. /\ next.seen = bridging[r].seen /\ next.anchor = bridging[r].anchor
      /\ next.card = bridging[r].card /\ next.parent = bridging[r].parent
    BY <1>0 DEF BridgeStates
<1>4. PICK p \in BskyPosts : /\ p = Reply(r) /\ p.root = next.anchor /\ p.card = next.card
                             /\ p.parent = next.parent
    BY <1>0, <1>3 DEF BskyPosts, PostTexts, Reply, NextCard, BridgeStates
<1>5. PICK n \in Nat : n = Len(posts) + 1
    BY <1>0 DEF BridgeKinds
<1>13. posts' \in Seq(BskyPosts)
    BY <1>0, <1>4, <1>5, PostAppended
<1>6. /\ posts'[n] = p /\ n \in DOMAIN posts' /\ n \notin DOMAIN posts
      /\ \A i \in DOMAIN posts : i \in DOMAIN posts' /\ posts'[i] = posts[i]
      /\ \A i \in DOMAIN posts' : i \in DOMAIN posts \/ i = n
    BY <1>0, <1>4, <1>5, PostAppended
<1>7. BridgeKinds'
    BY <1>0, <1>1, <1>2, <1>13 DEF BridgeKinds, BskyPosts, PostTexts
<1>8. InOrder' => InOrder
    BY <1>0 DEF InOrder
<1>9. next.card \in Nat /\ \A i \in DOMAIN posts : posts[i].card \in Nat
    BY <1>0, CardTypes DEF BridgeStates
<1>10. ASSUME InOrder PROVE /\ PostsChain /\ RunsApart /\ RowSettled /\ RunPosted(bridging[r])
                           /\ next.card >= 1
    BY <1>3, <1>10 DEF BridgeInv, RunsApart, InThread, RunPosted
<1>11. ASSUME InOrder' PROVE PostsChain' /\ RunsApart' /\ RowSettled'
    <2>1. PostsChain /\ RunsApart /\ RowSettled /\ RunPosted(bridging[r]) /\ next.card >= 1
        BY <1>8, <1>10, <1>11
    <2>2. /\ \A i \in DOMAIN posts : posts[i].root = next.anchor => posts[i].card < next.card
          /\ next.anchor \in DOMAIN posts /\ posts[next.anchor].root = next.anchor
          /\ posts[next.anchor].card = 0
          /\ next.parent \in DOMAIN posts /\ posts[next.parent].root = next.anchor
          /\ posts[next.parent].card = next.card - 1
        BY <1>3, <2>1 DEF RunPosted
    <2>3. PostsChain'
        <3>1. p.root \in DOMAIN posts'
            BY <1>4, <1>6, <2>2
        <3>2. \A i \in DOMAIN posts : posts[i].root = p.root => posts[i].card # p.card
            BY <1>4, <1>9, <2>2
        <3>3. /\ p.parent \in DOMAIN posts /\ posts[p.parent].root = p.root
              /\ posts[p.parent].card = p.card - 1
            BY <1>4, <2>2
        <3> QED BY <1>6, <2>1, <3>1, <3>2, <3>3, ChainGrows
    <2>4. ASSUME NEW q \in Bridges, bridging'[q].pc \in InThread PROVE RunPosted(bridging[q])'
        <3>1. CASE q = r
            <4>1. next.pc = "append"
                BY <1>1, <2>4, <3>1 DEF InThread
            <4>2. ASSUME NEW i \in DOMAIN posts', posts'[i].root = next.anchor
                  PROVE  posts'[i].card <= next.card
                <5>1. CASE i = n
                    BY <1>4, <1>6, <1>9, <5>1
                <5>2. CASE i \in DOMAIN posts
                    BY <1>6, <1>9, <2>2, <4>2, <5>2
                <5> QED BY <1>6, <5>1, <5>2
            <4> QED BY <1>1, <1>4, <1>6, <2>1, <2>2, <3>1, <4>1, <4>2 DEF RunPosted
        <3>2. CASE q # r
            <4>1. PICK x : /\ x = bridging[q] /\ x = bridging'[q] /\ RunPosted(x)
                           /\ x.anchor # next.anchor
                BY <1>1, <1>3, <2>1, <2>4, <3>2 DEF RunsApart, InThread
            <4>2. RunPosted(x)'
                BY <1>4, <1>6, <4>1, PostedBefore
            <4> QED BY <4>1, <4>2 DEF RunPosted
        <3> QED BY <3>1, <3>2
    <2>5. RunsApart'
        BY <1>1, <1>3, <2>1, <2>4 DEF RunsApart, InThread
    <2>6. RowSettled'
        BY <1>0, <1>1, <2>1 DEF RowSettled
    <2> QED BY <2>3, <2>5, <2>6
<1>12. ASSUME ~sideBySide' PROVE RowIsMine' /\ RowNamesIt' /\ AnchorsPaid'
    <2>1. RowIsMine /\ RowNamesIt /\ AnchorsPaid /\ next.card >= 1
        BY <1>10, <1>12 DEF BridgeInv, InOrder
    <2>2. RowIsMine'
        BY <1>0, <1>1, <1>3, <2>1 DEF RowIsMine
    <2>3. RowNamesIt'
        BY <1>0, <1>6, <2>1 DEF RowNamesIt
    <2>4. Anchors' = Anchors
        BY <1>4, <1>6, <1>9, <2>1 DEF Anchors
    <2>5. Cardinality(Anchors) \in Nat /\ bskyThread.status = "posted"
        BY <2>1, FS_CardinalityType DEF AnchorsPaid, RowIsMine
    <2>6. AnchorsPaid'
        BY <1>0, <2>1, <2>4, <2>5 DEF AnchorsPaid
    <2> QED BY <2>2, <2>3, <2>6
<1> QED BY <1>7, <1>11, <1>12 DEF BridgeInv

\* A run writes the row: its announcement, or that there is none.
LEMMA RowWritten ==
    ASSUME BridgeInv, NEW r \in Bridges, NEW next \in BridgeStates,
           bridging' = [bridging EXCEPT ![r] = next],
           UNCHANGED <<title, posts, sideBySide, bridgeFaults>>, stageOver => stageOver',
           NEW status \in {"posted", "skipped", "failed"}, NEW anchor \in Nat,
           bskyThread' = [bskyThread EXCEPT !.status = status, !.anchor = anchor],
           status = "posted" => /\ bridging[r].pc = "record" /\ anchor = bridging[r].anchor
                                /\ next.pc \in {"over", "claims"} /\ next.anchor = anchor
                                /\ next.seen = bridging[r].seen /\ next.card = bridging[r].card
                                /\ next.seen.replies = <<>> => next.parent = anchor,
           status = "skipped" => bridging[r].pc = "post" /\ next.pc = "idle" /\ stageOver',
           status = "failed" => /\ bridging[r].pc = "failed" /\ next.pc = "over"
                                /\ next.seen = bridging[r].seen
    PROVE  BridgeInv'
<1>0. /\ BridgeKinds /\ posts' = posts /\ bridgeFaults' = bridgeFaults /\ bridgeFaults \in Nat
      /\ bridging[r] \in BridgeStates
    BY DEF BridgeInv, BridgeKinds
<1>1. /\ bridging' \in [Bridges -> BridgeStates] /\ bridging'[r] = next
      /\ \A q \in Bridges : q # r => bridging'[q] = bridging[q]
    BY <1>0 DEF BridgeKinds
<1>2. AnchorText' = AnchorText
    BY DEF AnchorText, RawText
<1>3. /\ bskyThread' \in ThreadRows /\ bskyThread'.status = status
      /\ bskyThread'.anchor = anchor /\ bskyThread'.replies = bskyThread.replies
    BY <1>0 DEF BridgeKinds, ThreadRows, ThreadStatuses
<1>4. BridgeKinds'
    BY <1>0, <1>1, <1>2, <1>3 DEF BridgeKinds, BskyPosts, PostTexts
<1>5. InOrder' => InOrder
    BY <1>0 DEF InOrder
<1>6. ASSUME InOrder' PROVE PostsChain' /\ RunsApart' /\ RowSettled'
    <2>1. PostsChain /\ RunsApart /\ RowSettled
        BY <1>5, <1>6 DEF BridgeInv
    <2>2. PostsChain'
        BY <1>0, <2>1 DEF PostsChain
    <2>3. ASSUME NEW q \in Bridges, bridging'[q].pc \in InThread PROVE RunPosted(bridging[q])'
        <3>1. CASE q = r
            <4>1. /\ status = "posted" /\ RunPosted(bridging[r]) /\ next.pc = "claims"
                  /\ next.seen.replies = <<>>
                BY <1>1, <2>1, <2>3, <3>1 DEF RunsApart, InThread
            <4> QED BY <1>0, <1>1, <3>1, <4>1 DEF RunPosted
        <3>2. CASE q # r
            <4>1. RunPosted(bridging[q]) /\ bridging'[q] = bridging[q]
                BY <1>1, <2>1, <2>3, <3>2 DEF RunsApart
            <4> QED BY <1>0, <4>1 DEF RunPosted
        <3> QED BY <3>1, <3>2
    <2>4. RunsApart'
        BY <1>1, <2>1, <2>3 DEF RunsApart, InThread
    <2>5. RowSettled'
        <3>1. status = "failed" => bridgeFaults # 0
            BY <2>1 DEF RowSettled
        <3>2. status = "failed" => bskyThread.replies = <<>>
              /\ \A q \in Bridges : bridging[q].pc \notin {"claims", "append"}
            BY <1>0, <1>6, <3>1 DEF InOrder, BridgeInv, RowIsMine
        <3> QED BY <1>0, <1>1, <1>3, <2>1, <3>1, <3>2 DEF RowSettled
    <2> QED BY <2>2, <2>4, <2>5
<1>7. ASSUME ~sideBySide' PROVE RowIsMine' /\ RowNamesIt' /\ AnchorsPaid'
    <2>1. RowIsMine /\ RowNamesIt /\ AnchorsPaid /\ RunsApart
        BY <1>7 DEF BridgeInv, InOrder
    <2>2. bskyThread.replies = <<>> /\ bskyThread.status # "posted" /\ bridging[r].pc # "idle"
        BY <2>1 DEF RowIsMine
    <2>3. \A q \in Bridges : q # r => bridging[q].pc = "idle"
        BY <2>1, <2>2 DEF RowIsMine
    <2>4. RowIsMine'
        BY <1>0, <1>1, <1>3, <2>2, <2>3 DEF RowIsMine
    <2>5. status = "posted" => anchor \in DOMAIN posts /\ posts[anchor].card = 0
        BY <2>1 DEF RunsApart, RunPosted, InThread
    <2>6. RowNamesIt'
        BY <1>0, <1>3, <2>2, <2>5 DEF RowNamesIt
    <2>7. Anchors' = Anchors /\ Cardinality(Anchors) \in Nat
        BY <1>0, <2>1, FS_CardinalityType DEF Anchors, AnchorsPaid
    <2>8. status # "posted" => Cardinality(Anchors) <= bridgeFaults
        BY <1>0, <2>1, <2>2, <2>3 DEF AnchorsPaid
    <2>9. AnchorsPaid'
        BY <1>0, <1>3, <2>1, <2>7, <2>8 DEF AnchorsPaid
    <2> QED BY <2>4, <2>6, <2>9
<1> QED BY <1>4, <1>6, <1>7 DEF BridgeInv

\* A run notes its reply in the row, or fails to, and goes on to the next card.
LEMMA ReplyNoted ==
    ASSUME BridgeInv, NEW r \in Bridges, bridging[r].pc = "append", NextParent(r),
           UNCHANGED <<title, posts, stageOver, sideBySide>>, bridgeFaults' \in Nat,
           bridgeFaults' >= bridgeFaults, LastPost(r) \in Nat,
           \/ bskyThread' = bskyThread
           \/ bskyThread' = [bskyThread EXCEPT !.replies =
                  Append(bskyThread.replies, [card |-> NextCard(r), post |-> LastPost(r)])]
    PROVE  BridgeInv'
<1>0. /\ BridgeKinds /\ posts' = posts /\ bridgeFaults \in Nat
      /\ bridging[r] \in BridgeStates
    BY DEF BridgeInv, BridgeKinds
<1>1. PICK x \in BridgeStates : x = bridging[r]
    BY <1>0
<1>2. PICK next \in BridgeStates :
        next = [x EXCEPT !.pc = "claims", !.card = x.card + 1, !.parent = LastPost(r)]
    <2>1. x.card + 1 \in Nat /\ LastPost(r) \in Nat /\ "claims" \in BridgePlaces
        BY <1>1 DEF BridgeStates, BridgePlaces
    <2>2. [x EXCEPT !.pc = "claims", !.card = x.card + 1, !.parent = LastPost(r)] \in BridgeStates
        BY <1>1, <2>1 DEF BridgeStates
    <2> QED BY <2>2
<1>3. /\ next.pc = "claims" /\ next.card = x.card + 1 /\ next.parent = LastPost(r)
      /\ next.anchor = x.anchor /\ next.seen = x.seen /\ x.card \in Nat
    BY <1>1, <1>2 DEF BridgeStates
<1>4. bridging' = [bridging EXCEPT ![r] = next]
    BY <1>1, <1>2 DEF NextParent, BridgeInv, BridgeKinds
<1>5. /\ bridging' \in [Bridges -> BridgeStates] /\ bridging'[r] = next
      /\ \A q \in Bridges : q # r => bridging'[q] = bridging[q]
    BY <1>0, <1>4 DEF BridgeKinds
<1>6. PICK reply \in ReplyRows : reply = [card |-> x.card, post |-> LastPost(r)]
    BY <1>3 DEF ReplyRows
<1>7. reply.card = x.card /\ reply.post = LastPost(r)
    BY <1>6
<1>8. PICK old \in Seq(ReplyRows) : old = bskyThread.replies
    BY <1>0 DEF BridgeKinds, ThreadRows
<1>9. \/ bskyThread' = bskyThread
      \/ bskyThread' = [bskyThread EXCEPT !.replies = Append(old, reply)]
    BY <1>1, <1>6, <1>8 DEF NextCard
<1>10. /\ bskyThread' \in ThreadRows /\ bskyThread'.status = bskyThread.status
       /\ bskyThread'.anchor = bskyThread.anchor
       /\ bskyThread'.replies = old \/ bskyThread'.replies = Append(old, reply)
    <2>1. Append(old, reply) \in Seq(ReplyRows)
        BY <1>6, <1>8
    <2> QED BY <1>0, <1>8, <1>9, <2>1 DEF BridgeKinds, ThreadRows
<1>11. AnchorText' = AnchorText
    BY DEF AnchorText, RawText
<1>12. BridgeKinds'
    BY <1>0, <1>5, <1>10, <1>11 DEF BridgeKinds, BskyPosts, PostTexts
<1>13. InOrder' => InOrder
    BY <1>0 DEF InOrder
<1>14. ASSUME InOrder PROVE /\ PostsChain /\ RunsApart /\ RowSettled /\ RunPosted(x)
                           /\ LastPost(r) \in DOMAIN posts /\ posts[LastPost(r)].root = x.anchor
                           /\ posts[LastPost(r)].card = x.card
    <2>1. PostsChain /\ RunsApart /\ RowSettled
        BY <1>14 DEF BridgeInv
    <2>2. RunPosted(x)
        BY <1>1, <2>1 DEF RunsApart, InThread
    <2>3. \E i \in DOMAIN posts : posts[i].root = bridging[r].anchor /\ posts[i].card = NextCard(r)
        BY <1>1, <2>2 DEF RunPosted, NextCard
    <2>4. /\ LastPost(r) \in DOMAIN posts /\ posts[LastPost(r)].root = bridging[r].anchor
          /\ posts[LastPost(r)].card = NextCard(r)
        BY <2>3 DEF LastPost
    <2> QED BY <1>1, <2>1, <2>2, <2>4 DEF NextCard
<1>15. ASSUME InOrder' PROVE PostsChain' /\ RunsApart' /\ RowSettled'
    <2>1. /\ PostsChain /\ RunsApart /\ RowSettled /\ RunPosted(x)
          /\ next.parent \in DOMAIN posts /\ posts[next.parent].root = next.anchor
          /\ posts[next.parent].card = next.card - 1
        BY <1>3, <1>13, <1>14, <1>15
    <2>2. PostsChain'
        BY <1>0, <2>1 DEF PostsChain
    <2>3. ASSUME NEW q \in Bridges, bridging'[q].pc \in InThread PROVE RunPosted(bridging[q])'
        <3>1. CASE q = r
            <4>1. \A i \in DOMAIN posts : posts[i].root = next.anchor => posts[i].card < next.card
                BY <1>0, <1>1, <1>3, <2>1, CardTypes DEF RunPosted
            <4> QED BY <1>0, <1>3, <1>5, <2>1, <3>1, <4>1 DEF RunPosted
        <3>2. CASE q # r
            <4>1. RunPosted(bridging[q]) /\ bridging'[q] = bridging[q]
                BY <1>5, <2>1, <2>3, <3>2 DEF RunsApart
            <4> QED BY <1>0, <4>1 DEF RunPosted
        <3> QED BY <3>1, <3>2
    <2>4. RunsApart'
        BY <1>1, <1>3, <1>5, <2>1, <2>3 DEF RunsApart, InThread
    <2>5. RowSettled'
        <3>1. bskyThread.status = "posted" \/ stageOver
            BY <2>1 DEF RowSettled
        <3>2. bskyThread'.status = "posted" \/ stageOver'
            BY <1>10, <3>1
        <3>3. bridgeFaults' = 0 => \A q \in Bridges : bridging'[q].pc # "failed"
            <4>1. bridgeFaults' = 0 => bridgeFaults = 0
                BY <1>0
            <4> QED BY <1>3, <1>5, <2>1, <4>1 DEF RowSettled
        <3> QED BY <3>2, <3>3 DEF RowSettled
    <2> QED BY <2>2, <2>4, <2>5
<1>16. ASSUME ~sideBySide' PROVE RowIsMine' /\ RowNamesIt' /\ AnchorsPaid'
    <2>1. /\ RowIsMine /\ RowNamesIt /\ AnchorsPaid /\ LastPost(r) \in DOMAIN posts
          /\ posts[LastPost(r)].root = x.anchor /\ bridging[r].pc # "idle"
        BY <1>14, <1>16 DEF BridgeInv, InOrder
    <2>2. /\ bskyThread.status = "posted" /\ bskyThread.anchor = x.anchor
          /\ \A i \in DOMAIN old : old[i].card < x.card
          /\ \A q \in Bridges : q # r => bridging[q].pc = "idle"
        BY <1>1, <1>8, <2>1 DEF RowIsMine
    <2>3. \A i \in DOMAIN old : old[i].card \in Nat
        <3>1. ASSUME NEW i \in DOMAIN old PROVE old[i] \in ReplyRows
            BY <1>8, <3>1
        <3> QED BY <3>1 DEF ReplyRows
    <2>4. ASSUME NEW i \in DOMAIN bskyThread'.replies
          PROVE  \/ i \in DOMAIN old /\ bskyThread'.replies[i] = old[i]
                                     /\ (i > 1 => bskyThread'.replies[i - 1] = old[i - 1])
                 \/ /\ bskyThread'.replies[i] = reply
                    /\ i > 1 => i - 1 \in DOMAIN old /\ bskyThread'.replies[i - 1] = old[i - 1]
        <3>1. CASE bskyThread'.replies = old
            BY <2>4, <3>1
        <3>2. CASE bskyThread'.replies = Append(old, reply)
            BY <1>6, <1>8, <2>4, <3>2
        <3> QED BY <1>10, <3>1, <3>2
    <2>5. RowIsMine'
        <3>1. ASSUME NEW i \in DOMAIN bskyThread'.replies
              PROVE  bskyThread'.replies[i].card < next.card
            <4>1. CASE i \in DOMAIN old /\ bskyThread'.replies[i] = old[i]
                <5>1. old[i].card \in Nat /\ old[i].card < x.card
                    BY <2>2, <2>3, <4>1
                <5> QED BY <1>3, <4>1, <5>1
            <4>2. CASE bskyThread'.replies[i] = reply
                BY <1>3, <1>7, <4>2
            <4> QED BY <2>4, <3>1, <4>1, <4>2
        <3> QED BY <1>3, <1>5, <1>10, <2>2, <3>1 DEF RowIsMine
    <2>6. RowNamesIt'
        <3>1. bskyThread.anchor \in DOMAIN posts /\ posts[bskyThread.anchor].card = 0
            BY <2>1, <2>2 DEF RowNamesIt
        <3>2. ASSUME NEW i \in DOMAIN bskyThread'.replies
              PROVE  /\ bskyThread'.replies[i].post \in DOMAIN posts
                     /\ posts[bskyThread'.replies[i].post].root = bskyThread.anchor
                     /\ i > 1 => bskyThread'.replies[i - 1].card < bskyThread'.replies[i].card
            <4>1. CASE i \in DOMAIN old /\ bskyThread'.replies[i] = old[i]
                                      /\ (i > 1 => bskyThread'.replies[i - 1] = old[i - 1])
                BY <1>8, <2>1, <4>1 DEF RowNamesIt
            <4>2. CASE /\ bskyThread'.replies[i] = reply
                       /\ i > 1 => i - 1 \in DOMAIN old /\ bskyThread'.replies[i - 1] = old[i - 1]
                BY <1>7, <2>1, <2>2, <4>2
            <4> QED BY <2>4, <3>2, <4>1, <4>2
        <3> QED BY <1>0, <1>10, <3>1, <3>2 DEF RowNamesIt
    <2>7. Anchors' = Anchors /\ Cardinality(Anchors) \in Nat
        BY <1>0, <2>1, FS_CardinalityType DEF Anchors, AnchorsPaid
    <2>8. AnchorsPaid'
        BY <1>0, <1>10, <2>1, <2>2, <2>7 DEF AnchorsPaid
    <2> QED BY <2>5, <2>6, <2>8
<1> QED BY <1>12, <1>15, <1>16 DEF BridgeInv

\* A run that is to note a reply has posted it.
ReplyFound ==
    \A r \in Bridges : bridging[r].pc = "append" =>
        \E i \in DOMAIN posts :
            posts[i].root = bridging[r].anchor /\ posts[i].card = bridging[r].card

\* The posts of a step are those before it, and one more at most.
LEMMA PostsStay ==
    ASSUME BridgeKinds, AnnouncementNext
    PROVE  \A i \in DOMAIN posts : i \in DOMAIN posts' /\ posts'[i] = posts[i]
<1>1. posts \in Seq(BskyPosts)
    BY DEF BridgeKinds
<1>2. ASSUME NEW p, Append1(p)
      PROVE  \A i \in DOMAIN posts : i \in DOMAIN posts' /\ posts'[i] = posts[i]
    BY <1>1, <1>2 DEF Append1
<1>3. PICK r \in Bridges :
        \/ StartBridge(r) \/ Skipped(r) \/ PostAnchor(r) \/ RecordAnchor(r) \/ RecordAnchorFails(r)
        \/ Failed(r) \/ SkipCard(r) \/ PostClaim(r) \/ AppendBridgeReply(r)
        \/ AppendBridgeReplyFails(r) \/ FinishBridge(r) \/ BridgeCutOff(r)
        \/ \E written \in BOOLEAN : PostAnchorFails(r, written) \/ PostClaimFails(r, written)
    BY DEF AnnouncementNext
<1>4. posts' = posts \/ \E p : Append1(p)
    BY <1>3 DEF StartBridge, Skipped, PostAnchor, RecordAnchor, RecordAnchorFails, Failed, SkipCard,
       PostClaim, AppendBridgeReply, AppendBridgeReplyFails, FinishBridge, BridgeCutOff,
       PostAnchorFails, PostClaimFails
<1> QED BY <1>2, <1>4

\* What a step makes of its run.
MovesTo(r, next) == next \in BridgeStates /\ bridging' = [bridging EXCEPT ![r] = next]

\* Each step gives its run one new state, with what the next steps go by.
LEMMA RunMoves ==
    ASSUME BridgeKinds, NEW r \in Bridges
    PROVE  /\ bridging[r] \in BridgeStates
           /\ \A l \in BridgePlaces : GoBridge(r, l) =>
                  \E next : MovesTo(r, next) /\ next = [bridging[r] EXCEPT !.pc = l]
           /\ Leave(r) => MovesTo(r, NoBridge)
           /\ StartBridge(r) => \/ bridging' = bridging
                                \/ \E next : /\ MovesTo(r, next) /\ next.pc = "post"
                                             /\ next.seen = bskyThread /\ next.card = 1
           /\ PostAnchor(r) => \E next :
                  /\ MovesTo(r, next) /\ next.pc = "record" /\ next.anchor = Len(posts) + 1
                  /\ next.seen = bridging[r].seen /\ next.card = bridging[r].card
           /\ RecordAnchor(r) => \E next :
                  /\ MovesTo(r, next) /\ next.pc \in {"over", "claims"}
                  /\ next.anchor = bridging[r].anchor /\ next.seen = bridging[r].seen
                  /\ next.card = bridging[r].card
                  /\ next.seen.replies = <<>> => next.parent = next.anchor
<1>1. /\ bridging \in [Bridges -> BridgeStates] /\ bridging[r] \in BridgeStates
      /\ bskyThread \in ThreadRows /\ posts \in Seq(BskyPosts)
    BY DEF BridgeKinds
<1>2. ASSUME NEW l \in BridgePlaces, GoBridge(r, l)
      PROVE  \E next : MovesTo(r, next) /\ next = [bridging[r] EXCEPT !.pc = l]
    <2>1. [bridging[r] EXCEPT !.pc = l] \in BridgeStates
        BY <1>1 DEF BridgeStates
    <2>2. bridging' = [bridging EXCEPT ![r] = [bridging[r] EXCEPT !.pc = l]]
        BY <1>1, <1>2 DEF GoBridge
    <2> QED BY <2>1, <2>2 DEF MovesTo
<1>3. NoBridge \in BridgeStates
    BY DEF NoBridge, NoThread, BridgeStates, BridgePlaces, ThreadRows, ThreadStatuses
<1>4. ASSUME StartBridge(r)
      PROVE  \/ bridging' = bridging
             \/ \E next : /\ MovesTo(r, next) /\ next.pc = "post"
                          /\ next.seen = bskyThread /\ next.card = 1
    <2>1. PICK next : next = [NoBridge EXCEPT !.pc = "post", !.seen = bskyThread]
        OBVIOUS
    <2>2. /\ next \in BridgeStates /\ next.pc = "post" /\ next.seen = bskyThread
          /\ next.card = 1
        BY <1>1, <2>1 DEF NoBridge, BridgeStates, BridgePlaces
    <2>3. bridging' = bridging \/ bridging' = [bridging EXCEPT ![r] = next]
        BY <1>4, <2>1 DEF StartBridge
    <2> QED BY <2>2, <2>3 DEF MovesTo
<1>5. ASSUME PostAnchor(r)
      PROVE  \E next :
                  /\ MovesTo(r, next) /\ next.pc = "record" /\ next.anchor = Len(posts) + 1
                  /\ next.seen = bridging[r].seen /\ next.card = bridging[r].card
    <2>1. PICK n \in Nat : n = Len(posts) + 1 /\ n = Len(posts')
        BY <1>1, <1>5 DEF PostAnchor, Append1
    <2>2. PICK next : next = [bridging[r] EXCEPT !.pc = "record", !.anchor = n]
        OBVIOUS
    <2>3. /\ next \in BridgeStates /\ next.pc = "record" /\ next.anchor = n
          /\ next.seen = bridging[r].seen /\ next.card = bridging[r].card
        BY <1>1, <2>1, <2>2 DEF BridgeStates, BridgePlaces
    <2>4. bridging' = [bridging EXCEPT ![r] = next]
        BY <1>1, <1>5, <2>1, <2>2 DEF PostAnchor
    <2> QED BY <2>1, <2>3, <2>4 DEF MovesTo
<1>6. ASSUME RecordAnchor(r)
      PROVE  \E next :
                  /\ MovesTo(r, next) /\ next.pc \in {"over", "claims"}
                  /\ next.anchor = bridging[r].anchor /\ next.seen = bridging[r].seen
                  /\ next.card = bridging[r].card
                  /\ next.seen.replies = <<>> => next.parent = next.anchor
    <2>1. PICK old \in Seq(ReplyRows) : old = bridging[r].seen.replies
        BY <1>1 DEF BridgeStates, ThreadRows
    <2>2. PICK parent : parent = IF old = <<>> THEN bridging[r].anchor ELSE Last(old).post
        OBVIOUS
    <2>3. parent \in Nat
        <3>1. CASE old = <<>>
            BY <1>1, <2>2, <3>1 DEF BridgeStates
        <3>2. CASE old # <<>>
            <4>1. Len(old) \in DOMAIN old
                BY <2>1, <3>2
            <4>2. old[Len(old)] \in ReplyRows
                BY <2>1, <4>1
            <4> QED BY <2>2, <3>2, <4>2 DEF Last, ReplyRows
        <3> QED BY <3>1, <3>2
    <2>4. PICK place \in {"over", "claims"} : place = IF Cards < 2 THEN "over" ELSE "claims"
        OBVIOUS
    <2>5. PICK next : next = [bridging[r] EXCEPT !.pc = place, !.parent = parent]
        OBVIOUS
    <2>6. /\ next \in BridgeStates /\ next.pc = place /\ next.parent = parent
          /\ next.anchor = bridging[r].anchor /\ next.seen = bridging[r].seen
          /\ next.card = bridging[r].card
        BY <1>1, <2>3, <2>4, <2>5 DEF BridgeStates, BridgePlaces
    <2>7. bridging' = [bridging EXCEPT ![r] = next]
        BY <1>1, <1>6, <2>1, <2>2, <2>4, <2>5 DEF RecordAnchor
    <2> QED BY <2>1, <2>2, <2>4, <2>6, <2>7 DEF MovesTo
<1> QED BY <1>1, <1>2, <1>3, <1>4, <1>5, <1>6, Zenon DEF Leave, MovesTo

\* What a run has posted and is to note does not go.
LEMMA ReplyFoundKept ==
    ASSUME BridgeKinds, ReplyFound, AnnouncementNext
    PROVE  ReplyFound'
<1>1. \A i \in DOMAIN posts : i \in DOMAIN posts' /\ posts'[i] = posts[i]
    BY PostsStay
<1>2. PICK r \in Bridges :
        \/ StartBridge(r) \/ Skipped(r) \/ PostAnchor(r) \/ RecordAnchor(r) \/ RecordAnchorFails(r)
        \/ Failed(r) \/ SkipCard(r) \/ PostClaim(r) \/ AppendBridgeReply(r)
        \/ AppendBridgeReplyFails(r) \/ FinishBridge(r) \/ BridgeCutOff(r)
        \/ \E written \in BOOLEAN : PostAnchorFails(r, written) \/ PostClaimFails(r, written)
    BY DEF AnnouncementNext
<1>3. /\ bridging \in [Bridges -> BridgeStates] /\ posts \in Seq(BskyPosts)
      /\ \A q \in Bridges : bridging[q] \in BridgeStates
    BY DEF BridgeKinds
<1>4. ASSUME NEW q \in Bridges, bridging'[q].pc = "append", bridging'[q] = bridging[q]
      PROVE  \E i \in DOMAIN posts' :
                 posts'[i].root = bridging'[q].anchor /\ posts'[i].card = bridging'[q].card
    BY <1>1, <1>4 DEF ReplyFound
<1>5. CASE PostClaim(r)
    <2>1. \A q \in Bridges : q # r => bridging'[q] = bridging[q]
        BY <1>3, <1>5 DEF PostClaim, GoBridge
    <2>2. bridging'[r].anchor = bridging[r].anchor /\ bridging'[r].card = bridging[r].card
        BY <1>3, <1>5 DEF PostClaim, GoBridge, BridgeStates
    <2>3. posts' = Append(posts, Reply(r)) /\ Len(posts) \in Nat
        BY <1>3, <1>5 DEF PostClaim, Append1
    <2>4. Len(posts) + 1 \in DOMAIN posts' /\ posts'[Len(posts) + 1] = Reply(r)
        BY <1>3, <2>3
    <2>5. Reply(r).root = bridging[r].anchor /\ Reply(r).card = bridging[r].card
        BY DEF Reply, NextCard
    <2> QED BY <1>4, <2>1, <2>2, <2>4, <2>5 DEF ReplyFound
<1>6. CASE ~PostClaim(r)
    <2>1. ASSUME NEW next, MovesTo(r, next), next.pc # "append" \/ next = bridging[r]
          PROVE  \A q \in Bridges : bridging'[q].pc = "append" => bridging'[q] = bridging[q]
        BY <1>3, <2>1 DEF MovesTo
    <2>2. NoBridge.pc # "append"
        BY DEF NoBridge
    <2>3. \A q \in Bridges : bridging'[q].pc = "append" => bridging'[q] = bridging[q]
        <3>1. CASE StartBridge(r)
            BY <2>1, <3>1, RunMoves
        <3>2. CASE Skipped(r) \/ FinishBridge(r) \/ BridgeCutOff(r)
            BY <2>1, <2>2, <3>2, RunMoves DEF Skipped, FinishBridge, BridgeCutOff
        <3>3. CASE PostAnchor(r)
            BY <2>1, <3>3, RunMoves
        <3>4. CASE RecordAnchor(r)
            BY <2>1, <3>4, RunMoves
        <3>5. ASSUME NEW l \in {"failed", "over"}, GoBridge(r, l)
              PROVE  \A q \in Bridges : bridging'[q].pc = "append" => bridging'[q] = bridging[q]
            BY <1>3, <3>5 DEF GoBridge, BridgeStates
        <3>6. CASE AppendBridgeReply(r) \/ AppendBridgeReplyFails(r)
            <4>1. NextParent(r)
                BY <3>6 DEF AppendBridgeReply, AppendBridgeReplyFails
            <4> QED BY <1>3, <4>1 DEF NextParent, BridgeStates
        <3>7. CASE SkipCard(r) /\ ~GoBridge(r, "over")
            <4>1. /\ bridging' = [bridging EXCEPT ![r].card = @ + 1]
                  /\ bridging[r].pc = "claims"
                BY <3>7 DEF SkipCard, BridgeAt
            <4> QED BY <1>3, <4>1 DEF BridgeStates
        <3> QED BY <1>2, <1>6, <3>1, <3>2, <3>3, <3>4, <3>5, <3>6, <3>7 DEF RecordAnchorFails,
                Failed, PostAnchorFails, PostClaimFails
    <2> QED BY <1>4, <2>3 DEF ReplyFound
<1> QED BY <1>5, <1>6

\* A stage that finds a posted version is over.
LEMMA NothingPosted ==
    ASSUME BridgeInv, stageOver => stageOver',
           UNCHANGED <<title, posts, bskyThread, bridging, sideBySide, bridgeFaults>>
    PROVE  BridgeInv'
<1>1. AnchorText' = AnchorText
    BY DEF AnchorText, RawText
<1>2. BridgeKinds'
    BY <1>1 DEF BridgeInv, BridgeKinds, BskyPosts, PostTexts
<1>3. InOrder' => PostsChain' /\ RunsApart' /\ RowSettled'
    BY DEF BridgeInv, InOrder, PostsChain, RunsApart, RowSettled, RunPosted
<1>4. ~sideBySide' => RowIsMine' /\ RowNamesIt' /\ AnchorsPaid'
    BY DEF BridgeInv, RowIsMine, RowNamesIt, AnchorsPaid, Anchors
<1> QED BY <1>2, <1>3, <1>4 DEF BridgeInv

\* No card is passed over by runs in order: a run that begins reads no replies.
LEMMA CardPassed ==
    ASSUME BridgeInv, NEW r \in Bridges, bridging[r].pc = "claims", NextCard(r) \in Posted(r),
           bridging' = [bridging EXCEPT ![r].card = @ + 1],
           UNCHANGED <<title, bskyThread, posts, stageOver, sideBySide, bridgeFaults>>
    PROVE  BridgeInv'
<1>1. BridgeKinds /\ bridging[r] \in BridgeStates
    BY DEF BridgeInv, BridgeKinds
<1>2. ~InOrder
    <2>1. InOrder => bridging[r].seen.replies = <<>>
        BY DEF BridgeInv, RunsApart
    <2>2. bridging[r].seen.replies = <<>> => Posted(r) = {}
        BY DEF Posted
    <2> QED BY <2>1, <2>2
<1>3. [bridging[r] EXCEPT !.card = bridging[r].card + 1] \in BridgeStates
    BY <1>1 DEF BridgeStates
<1>4. bridging' = [bridging EXCEPT ![r] = [bridging[r] EXCEPT !.card = bridging[r].card + 1]]
    BY <1>1
<1>5. AnchorText' = AnchorText
    BY DEF AnchorText, RawText
<1>6. BridgeKinds'
    BY <1>1, <1>3, <1>4, <1>5 DEF BridgeKinds, BskyPosts, PostTexts
<1>7. ~InOrder' /\ sideBySide'
    BY <1>2 DEF InOrder
<1> QED BY <1>6, <1>7 DEF BridgeInv

\* A run that stops, fails or gives up as the code says.
LEMMA RunEnds ==
    ASSUME BridgeInv, NEW r \in Bridges, UNCHANGED <<title, posts, bskyThread, sideBySide>>,
           stageOver => stageOver',
           \/ bridgeFaults' = bridgeFaults \/ bridgeFaults' = bridgeFaults + 1,
           bridging[r].pc = "record" => bridgeFaults' = bridgeFaults + 1,
           bridging[r].pc # "idle",
           \/ Leave(r)
           \/ GoBridge(r, "over")
           \/ /\ GoBridge(r, "failed") /\ bridging[r].pc \in {"post", "record"}
              /\ bridgeFaults' = bridgeFaults + 1
    PROVE  BridgeInv'
<1>1. BridgeKinds /\ bridgeFaults \in Nat /\ bridging[r] \in BridgeStates
    BY DEF BridgeInv, BridgeKinds
<1>2. /\ bridgeFaults' \in Nat /\ bridgeFaults' >= bridgeFaults
      /\ bridgeFaults' = bridgeFaults + 1 => bridgeFaults' > 0 /\ bridgeFaults' > bridgeFaults
    BY <1>1
<1>3. PICK next : /\ next \in BridgeStates /\ bridging' = [bridging EXCEPT ![r] = next]
                  /\ next.pc \in {"idle", "over", "failed"}
                  /\ next.pc # "idle" => next.seen = bridging[r].seen
                  /\ next.pc = "failed" => /\ bridging[r].pc \in {"post", "record"}
                                          /\ bridgeFaults' = bridgeFaults + 1
    <2>1. CASE Leave(r)
        BY <1>1, <2>1, RunMoves DEF MovesTo, NoBridge
    <2>2. CASE GoBridge(r, "over")
        BY <1>1, <2>2, RunMoves DEF MovesTo, BridgePlaces, BridgeStates
    <2>3. CASE /\ GoBridge(r, "failed") /\ bridging[r].pc \in {"post", "record"}
               /\ bridgeFaults' = bridgeFaults + 1
        BY <1>1, <2>3, RunMoves DEF MovesTo, BridgePlaces, BridgeStates
    <2> QED BY <2>1, <2>2, <2>3
<1>4. next.pc \notin InThread /\ next.pc # "post"
    BY <1>3 DEF InThread
<1> QED BY <1>2, <1>3, <1>4, RunStops

\* Every step of the stage keeps the invariant.
LEMMA BridgeInductive ==
    ASSUME BridgeInv, ReplyFound, [AnnouncementNext]_bridgeVars
    PROVE  BridgeInv'
<1>0. BridgeKinds /\ bridgeFaults \in Nat /\ Len(posts) \in Nat
    BY DEF BridgeInv, BridgeKinds
<1>1. CASE UNCHANGED bridgeVars
    BY <1>1, NothingPosted DEF bridgeVars
<1>2. ASSUME NEW r \in Bridges, StartBridge(r) PROVE BridgeInv'
    <2>1. CASE bridging' = bridging /\ sideBySide' = sideBySide
        BY <1>2, <2>1, NothingPosted DEF StartBridge
    <2>2. CASE ~(bridging' = bridging /\ sideBySide' = sideBySide)
        <3>1. /\ bskyThread.status # "posted" /\ ~stageOver /\ bridging[r].pc = "idle"
              /\ sideBySide' = (sideBySide \/ \E q \in Bridges : bridging[q].pc # "idle")
              /\ UNCHANGED <<title, bskyThread, posts, bridgeFaults, stageOver>>
            BY <1>2, <2>2 DEF StartBridge, BridgeAt
        <3>2. CASE bridging' = bridging
            <4>1. [NoBridge EXCEPT !.pc = "post", !.seen = bskyThread].pc = "post"
                BY DEF NoBridge
            <4>2. bridging'[r].pc = "post"
                BY <1>0, <1>2, <3>1, <4>1 DEF StartBridge, BridgeKinds
            <4> QED BY <3>1, <3>2, <4>2
        <3>3. CASE bridging' # bridging
            <4>1. PICK next \in BridgeStates : /\ bridging' = [bridging EXCEPT ![r] = next]
                                               /\ next.pc = "post" /\ next.seen = bskyThread
                                               /\ next.card = 1
                BY <1>0, <1>2, <3>3, RunMoves DEF MovesTo
            <4>2. next.pc \notin InThread /\ bridgeFaults' >= bridgeFaults
                BY <1>0, <3>1, <4>1 DEF InThread
            <4>3. ~sideBySide' => \A q \in Bridges : bridging[q].pc = "idle"
                BY <3>1
            <4> QED BY <1>0, <3>1, <4>1, <4>2, <4>3, RunStops
        <3> QED BY <3>2, <3>3
    <2> QED BY <2>1, <2>2
<1>3. ASSUME NEW r \in Bridges, Skipped(r) PROVE BridgeInv'
    <2>1. NoBridge \in BridgeStates /\ bridging' = [bridging EXCEPT ![r] = NoBridge]
        BY <1>0, <1>3, RunMoves DEF Skipped, MovesTo
    <2>2. NoBridge.pc = "idle"
        BY DEF NoBridge
    <2>3. bskyThread' = [bskyThread EXCEPT !.status = "skipped", !.anchor = 0]
        BY <1>3 DEF Skipped, Result
    <2> QED BY <1>3, <2>1, <2>2, <2>3, RowWritten DEF Skipped, BridgeAt
<1>4. ASSUME NEW r \in Bridges, RecordAnchor(r) PROVE BridgeInv'
    <2>1. PICK next \in BridgeStates :
              /\ bridging' = [bridging EXCEPT ![r] = next] /\ next.pc \in {"over", "claims"}
              /\ next.anchor = bridging[r].anchor /\ next.seen = bridging[r].seen
              /\ next.card = bridging[r].card
              /\ next.seen.replies = <<>> => next.parent = next.anchor
        BY <1>0, <1>4, RunMoves DEF MovesTo
    <2>2. PICK anchor \in Nat : anchor = bridging[r].anchor
        BY <1>0 DEF BridgeKinds, BridgeStates
    <2>3. /\ bskyThread' = [bskyThread EXCEPT !.status = "posted", !.anchor = anchor]
          /\ bridging[r].pc = "record"
          /\ UNCHANGED <<title, posts, stageOver, sideBySide, bridgeFaults>>
        BY <1>4, <2>2 DEF RecordAnchor, Result, BridgeAt
    <2> QED BY <2>1, <2>2, <2>3, RowWritten
<1>5. ASSUME NEW r \in Bridges, Failed(r) PROVE BridgeInv'
    <2>1. PICK next \in BridgeStates :
              /\ bridging' = [bridging EXCEPT ![r] = next] /\ next.pc = "over"
              /\ next.seen = bridging[r].seen
        BY <1>0, <1>5, RunMoves DEF Failed, MovesTo, BridgePlaces, BridgeStates
    <2>2. bskyThread' = [bskyThread EXCEPT !.status = "failed", !.anchor = 0]
        BY <1>5 DEF Failed, Result
    <2> QED BY <1>5, <2>1, <2>2, RowWritten DEF Failed, BridgeAt
<1>6. ASSUME NEW r \in Bridges, PostAnchor(r) PROVE BridgeInv'
    <2>1. PICK next \in BridgeStates :
              /\ bridging' = [bridging EXCEPT ![r] = next] /\ next.pc = "record"
              /\ next.anchor = Len(posts) + 1
              /\ next.seen = bridging[r].seen /\ next.card = bridging[r].card
        BY <1>0, <1>6, RunMoves DEF MovesTo
    <2> QED BY <1>0, <1>6, <2>1, AnchorPosted DEF PostAnchor, BridgeAt, Append1
<1>7. ASSUME NEW r \in Bridges, NEW written \in BOOLEAN, PostAnchorFails(r, written)
      PROVE  BridgeInv'
    <2>1. /\ bridging[r].pc = "post" /\ bridgeFaults' = bridgeFaults + 1
          /\ GoBridge(r, "failed") /\ UNCHANGED <<title, bskyThread, stageOver, sideBySide>>
        BY <1>7 DEF PostAnchorFails, BridgeAt, BridgeFault
    <2>2. CASE posts' = posts
        BY <2>1, <2>2, RunEnds
    <2>3. CASE posts' # posts
        <3>1. posts' = Append(posts, [root |-> Len(posts) + 1, parent |-> 0, card |-> 0,
                                      text |-> AnchorText])
            BY <1>7, <2>3 DEF PostAnchorFails, Append1
        <3>2. PICK next \in BridgeStates :
                  /\ bridging' = [bridging EXCEPT ![r] = next] /\ next.pc = "failed"
                  /\ next.seen = bridging[r].seen /\ next.card = bridging[r].card
            BY <1>0, <2>1, RunMoves DEF MovesTo, BridgePlaces, BridgeStates
        <3>3. bridgeFaults' \in Nat
            BY <1>0, <2>1
        <3> QED BY <1>0, <2>1, <3>1, <3>2, <3>3, AnchorPosted
    <2> QED BY <2>2, <2>3
<1>8. ASSUME NEW r \in Bridges, SkipCard(r) PROVE BridgeInv'
    <2>1. CASE GoBridge(r, "over")
        BY <1>8, <2>1, RunEnds DEF SkipCard, BridgeAt
    <2>2. CASE ~GoBridge(r, "over")
        BY <1>8, <2>2, CardPassed DEF SkipCard, BridgeAt
    <2> QED BY <2>1, <2>2
<1>9. ASSUME NEW r \in Bridges,
             PostClaim(r) \/ \E written \in BOOLEAN : PostClaimFails(r, written)
      PROVE  BridgeInv'
    <2>1. /\ bridging[r].pc = "claims" /\ UNCHANGED <<title, bskyThread, stageOver, sideBySide>>
          /\ \/ GoBridge(r, "append") /\ bridgeFaults' = bridgeFaults
             \/ GoBridge(r, "over") /\ bridgeFaults' = bridgeFaults + 1
        BY <1>9 DEF PostClaim, PostClaimFails, BridgeAt, BridgeFault
    <2>2. CASE posts' = Append(posts, Reply(r))
        <3>1. PICK next \in BridgeStates :
                  /\ bridging' = [bridging EXCEPT ![r] = next]
                  /\ next = [bridging[r] EXCEPT !.pc = next.pc]
                  /\ \/ next.pc = "append" /\ bridgeFaults' = bridgeFaults
                     \/ next.pc = "over" /\ bridgeFaults' = bridgeFaults + 1
            BY <1>0, <2>1, RunMoves DEF MovesTo, BridgePlaces, BridgeStates
        <3>2. bridgeFaults' \in Nat
            BY <1>0, <2>1
        <3> QED BY <1>0, <2>1, <2>2, <3>1, <3>2, CardPosted
    <2>3. CASE posts' # Append(posts, Reply(r))
        <3>1. posts' = posts /\ GoBridge(r, "over") /\ bridgeFaults' = bridgeFaults + 1
            BY <1>9, <2>3 DEF PostClaim, PostClaimFails, Append1, BridgeFault
        <3> QED BY <2>1, <3>1, RunEnds
    <2> QED BY <2>2, <2>3
<1>10. ASSUME NEW r \in Bridges, AppendBridgeReply(r) \/ AppendBridgeReplyFails(r)
       PROVE  BridgeInv'
    <2>1. /\ bridging[r].pc = "append" /\ NextParent(r)
          /\ UNCHANGED <<title, posts, stageOver, sideBySide>>
          /\ bridgeFaults' \in Nat /\ bridgeFaults' >= bridgeFaults
        BY <1>0, <1>10 DEF AppendBridgeReply, AppendBridgeReplyFails, BridgeAt, BridgeFault
    <2>2. LastPost(r) \in Nat
        <3>1. \E i \in DOMAIN posts :
                  posts[i].root = bridging[r].anchor /\ posts[i].card = NextCard(r)
            BY <2>1 DEF ReplyFound, NextCard
        <3>2. LastPost(r) \in DOMAIN posts
            BY <3>1 DEF LastPost
        <3> QED BY <1>0, <3>2 DEF BridgeKinds
    <2>3. \/ bskyThread' = bskyThread
          \/ bskyThread' = [bskyThread EXCEPT !.replies =
                 Append(bskyThread.replies, [card |-> NextCard(r), post |-> LastPost(r)])]
        BY <1>10 DEF AppendBridgeReply, AppendBridgeReplyFails
    <2> QED BY <2>1, <2>2, <2>3, ReplyNoted
<1>11. ASSUME NEW r \in Bridges,
              RecordAnchorFails(r) \/ FinishBridge(r) \/ BridgeCutOff(r)
       PROVE  BridgeInv'
    <2>1. CASE RecordAnchorFails(r)
        BY <2>1, RunEnds DEF RecordAnchorFails, BridgeAt, BridgeFault
    <2>2. CASE FinishBridge(r)
        BY <2>2, RunEnds DEF FinishBridge, BridgeAt
    <2>3. CASE BridgeCutOff(r)
        BY <2>3, RunEnds DEF BridgeCutOff, BridgeAt, BridgeFault
    <2> QED BY <1>11, <2>1, <2>2, <2>3
<1> QED BY <1>1, <1>2, <1>3, <1>4, <1>5, <1>6, <1>7, <1>8, <1>9, <1>10, <1>11
        DEF AnnouncementNext

\* What the invariant says of threads.
LEMMA BridgeInvSuffices == BridgeInv => ThreadsAreChains /\ RowNamesThread
<1>1. ASSUME BridgeInv, InOrder PROVE ThreadsAreChains
    BY <1>1 DEF BridgeInv, PostsChain, ThreadsAreChains
<1>2. ASSUME BridgeInv, ~InOrder PROVE ThreadsAreChains
    BY <1>2 DEF InOrder, ThreadsAreChains
<1>3. ASSUME BridgeInv, ~sideBySide PROVE RowNamesThread
    <2>1. RowIsMine /\ RowNamesIt /\ AnchorsPaid /\ bridgeFaults \in Nat
        BY <1>3 DEF BridgeInv, BridgeKinds
    <2>2. posts \in Seq(BskyPosts)
        BY <1>3 DEF BridgeInv, BridgeKinds
    <2>3. Cardinality({i \in DOMAIN posts : posts[i].card = 0}) <= 1 + bridgeFaults
        <3>1. Cardinality(Anchors) \in Nat /\ Cardinality(Anchors) <= bridgeFaults + 1
            BY <2>1, FS_CardinalityType DEF AnchorsPaid
        <3> QED BY <2>1, <3>1 DEF Anchors
    <2>4. bskyThread.status = "posted" => bskyThread.anchor > 0 /\ posts[bskyThread.anchor].card = 0
        BY <2>1, <2>2 DEF RowNamesIt
    <2> QED BY <2>1, <2>3, <2>4 DEF RowNamesThread, RowNamesIt
<1>4. sideBySide => RowNamesThread
    BY DEF RowNamesThread
<1> QED BY <1>1, <1>2, <1>3, <1>4

\* Whatever fails, is lost or is run again (bluesky-bridge.ts): the replies of a thread are a chain
\* from its announcement, with no card twice, unless runs overlap and one fails; and without
\* overlap the row of the version names an announcement and replies of its thread, in order.
THEOREM ThreadsStayWhole == AnnouncementSpec => [](ThreadsAreChains /\ RowNamesThread)
<1>1. AnnouncementInit => BridgeInv /\ ReplyFound
    <2>1. ASSUME AnnouncementInit, NEW r \in Bridges PROVE bridging[r].pc = "idle"
        BY <2>1 DEF AnnouncementInit, NoBridge
    <2> QED BY <2>1, BridgeInitInv DEF ReplyFound
<1>2. BridgeInv /\ ReplyFound /\ [AnnouncementNext]_bridgeVars => BridgeInv' /\ ReplyFound'
    <2>1. ASSUME BridgeInv, ReplyFound, AnnouncementNext PROVE ReplyFound'
        BY <2>1, ReplyFoundKept DEF BridgeInv
    <2>2. ASSUME ReplyFound, UNCHANGED bridgeVars PROVE ReplyFound'
        BY <2>2 DEF ReplyFound, bridgeVars
    <2> QED BY <2>1, <2>2, BridgeInductive
<1> QED BY <1>1, <1>2, BridgeInvSuffices, PTL DEF AnnouncementSpec

-----------------------------------------------------------------------------
(* The sessions. *)

\* The DIDs of a row, now and before.
HadDids(rec) == {rec.did} \cup rec.legacy

\* A cookie, or a paper, carries a DID its user has or had.
HeldBy(all, c) ==
    c # NoCookie => /\ c.person \in Persons /\ all[c.person] # Vacant
                    /\ c.did \in HadDids(all[c.person])

PersonRows == [did : OAuthAccounts \cup {Nil}, legacy : SUBSET OAuthAccounts,
               columns : SUBSET OAuthAccounts]

\* The DID of a row is the best of its columns, those it had before are among them, and a
\* column has one account of each provider.
RowStraight(rec) ==
    /\ rec.did \in rec.columns /\ rec.legacy \subseteq rec.columns
    /\ \A c \in rec.columns : RankOf(c) <= RankOf(rec.did)
    /\ \A c, d \in rec.columns : AtProvider[c] = AtProvider[d] => c = d

\* As long as no link has failed half way the columns, which are unique, tell the users apart.
Straight(all) ==
    /\ \A u \in Persons : all[u] # Vacant => RowStraight(all[u])
    /\ \A u, v \in Persons : all[u].columns \cap all[v].columns # {} => u = v

\* Only users who asked are on a trip to Mastodon.
TripsAsked == \A t \in trips : t.provider = "mastodon" =>
                  t.intent = "link" /\ t.person \in wantsMastodon

SessInv ==
    /\ SessionsTypeOK
    /\ \A u \in Persons : persons[u] # Vacant => persons[u].did # Nil
    /\ \A b \in Browsers : HeldBy(persons, cookies[b])
    /\ \A p \in OwnPapers : HeldBy(persons, submitter[p])
    /\ ~halfway => Straight(persons)
    /\ AuthorsAct /\ TripsAsked /\ MastodonAsked

\* The ranks of accounts are those of their providers.
LEMMA RankFacts ==
    ASSUME NEW c \in OAuthAccounts
    PROVE  /\ RankOf(c) \in Nat /\ RankOf(c) >= 5
           /\ AtProvider[c] = "mastodon" => RankOf(c) = 5
           /\ \A d \in OAuthAccounts : RankOf(c) = RankOf(d) <=> AtProvider[c] = AtProvider[d]
<1>1. \A d \in OAuthAccounts : AtProvider[d] \in {"orcid", "google", "bluesky", "mastodon"}
    BY SessionsAssumption DEF OAuthProviders
<1>2. \A d \in OAuthAccounts :
          /\ AtProvider[d] = "bluesky" => RankOf(d) = 100
          /\ AtProvider[d] = "orcid" => RankOf(d) = 50
          /\ AtProvider[d] = "google" => RankOf(d) = 25
          /\ AtProvider[d] = "mastodon" => RankOf(d) = 5
    BY DEF RankOf
<1>3. RankOf(c) \in Nat /\ RankOf(c) >= 5 /\ (AtProvider[c] = "mastodon" => RankOf(c) = 5)
    BY <1>1, <1>2
<1>4. \A d \in OAuthAccounts : RankOf(c) = RankOf(d) <=> AtProvider[c] = AtProvider[d]
    BY <1>1, <1>2
<1> QED BY <1>3, <1>4

\* A row that is changed keeps the DIDs it had.
LEMMA RowKeeps ==
    ASSUME SessInv, NEW u \in Persons, NEW rec \in PersonRows, rec.did # Nil,
           persons' = [persons EXCEPT ![u] = rec],
           persons[u] = Vacant \/ HadDids(persons[u]) \subseteq HadDids(rec)
    PROVE  /\ persons' \in [Persons -> PersonRows] /\ persons'[u] = rec
           /\ \A v \in Persons : persons'[v] # Vacant => persons'[v].did # Nil
           /\ \A c : HeldBy(persons, c) => HeldBy(persons', c)
<1>1. persons \in [Persons -> PersonRows]
    BY DEF SessInv, SessionsTypeOK, PersonRows
<1>2. persons' \in [Persons -> PersonRows] /\ persons'[u] = rec
    BY <1>1
<1>3. rec # Vacant
    BY DEF Vacant
<1>4. \A v \in Persons : v # u => persons'[v] = persons[v]
    BY <1>1
<1>5. ASSUME NEW c, HeldBy(persons, c) PROVE HeldBy(persons', c)
    BY <1>2, <1>3, <1>4, <1>5 DEF HeldBy, HadDids
<1>6. \A v \in Persons : persons'[v] # Vacant => persons'[v].did # Nil
    BY <1>2, <1>4 DEF SessInv
<1> QED BY <1>2, <1>5, <1>6

\* What a promotion and a new column make of a row.
LEMMA RowsChange ==
    ASSUME NEW rec \in PersonRows, rec.did # Nil, NEW d \in OAuthAccounts, NEW a \in OAuthAccounts
    PROVE  /\ Promoted(rec, d) \in PersonRows /\ Promoted(rec, d).did = d
           /\ Promoted(rec, d).columns = rec.columns
           /\ {rec.did} \cup rec.legacy \subseteq {d} \cup Promoted(rec, d).legacy
           /\ Promoted(rec, d).legacy \subseteq {rec.did} \cup rec.legacy
           /\ rec.did = d => Promoted(rec, d) = rec
           /\ ColumnSet(rec, a) \in PersonRows /\ ColumnSet(rec, a).did = rec.did
           /\ ColumnSet(rec, a).legacy = rec.legacy
           /\ ColumnSet(rec, a).columns
                 = {c \in rec.columns : AtProvider[c] # AtProvider[a]} \cup {a}
           /\ (/\ a \in rec.columns
               /\ \A c, e \in rec.columns : AtProvider[c] = AtProvider[e] => c = e)
              => ColumnSet(rec, a) = rec
<1>1. PersonRows = [did : OAuthAccounts \cup {Nil}, legacy : SUBSET OAuthAccounts,
                    columns : SUBSET OAuthAccounts]
    BY DEF PersonRows
<1>2. /\ Promoted(rec, d) \in PersonRows /\ Promoted(rec, d).did = d
      /\ Promoted(rec, d).columns = rec.columns
      /\ {rec.did} \cup rec.legacy \subseteq {d} \cup Promoted(rec, d).legacy
      /\ Promoted(rec, d).legacy \subseteq {rec.did} \cup rec.legacy
      /\ rec.did = d => Promoted(rec, d) = rec
    BY <1>1 DEF Promoted
<1>3. /\ ColumnSet(rec, a) \in PersonRows /\ ColumnSet(rec, a).did = rec.did
      /\ ColumnSet(rec, a).legacy = rec.legacy
      /\ ColumnSet(rec, a).columns
            = {c \in rec.columns : AtProvider[c] # AtProvider[a]} \cup {a}
    BY <1>1 DEF ColumnSet
<1>4. ASSUME a \in rec.columns,
             \A c, e \in rec.columns : AtProvider[c] = AtProvider[e] => c = e
      PROVE  ColumnSet(rec, a) = rec
    <2>1. {c \in rec.columns : AtProvider[c] # AtProvider[a]} \cup {a} = rec.columns
        BY <1>4
    <2> QED BY <1>1, <2>1 DEF ColumnSet
<1> QED BY <1>2, <1>3, <1>4

\* Where no link has failed half way, a sign-in changes no row but a vacant one.
LEMMA SignInKeepsRows ==
    ASSUME SessInv, ~halfway, NEW a \in OAuthAccounts, NEW u \in Persons, persons[u] # Vacant,
           NEW known, known = (IF AtProvider[a] = "bluesky" THEN HasDid(a) ELSE WithColumn(a)),
           u \in IF known # {} THEN known ELSE HasDid(a)
    PROVE  /\ ColumnSet(persons[u], a) = persons[u]
           /\ RankOf(persons[u].did) <= RankOf(a) =>
                 ColumnSet(Promoted(persons[u], a), a) = persons[u]
<1>1. persons \in [Persons -> PersonRows] /\ persons[u] \in PersonRows
    BY DEF SessInv, SessionsTypeOK, PersonRows
<1>2. RowStraight(persons[u]) /\ persons[u].did # Nil
    BY DEF SessInv, Straight
<1>3. a \in persons[u].columns
    <2>1. CASE u \in WithColumn(a)
        BY <2>1 DEF WithColumn
    <2>2. CASE u \in HasDid(a)
        BY <1>2, <2>2 DEF HasDid, RowStraight
    <2> QED BY <2>1, <2>2
<1>4. ColumnSet(persons[u], a) = persons[u]
    BY <1>1, <1>2, <1>3, RowsChange DEF RowStraight
<1>5. ASSUME RankOf(persons[u].did) <= RankOf(a) PROVE persons[u].did = a
    <2>1. RankOf(a) <= RankOf(persons[u].did) /\ persons[u].did \in persons[u].columns
        BY <1>2, <1>3 DEF RowStraight
    <2>2. persons[u].did \in OAuthAccounts
        BY <1>1, <2>1 DEF PersonRows
    <2>3. RankOf(a) \in Nat /\ RankOf(persons[u].did) \in Nat
        BY <2>2, RankFacts
    <2>4. RankOf(a) = RankOf(persons[u].did)
        BY <1>5, <2>1, <2>3
    <2>5. AtProvider[a] = AtProvider[persons[u].did]
        BY <2>2, <2>4, RankFacts
    <2> QED BY <1>2, <1>3, <2>1, <2>5 DEF RowStraight
<1>6. ASSUME RankOf(persons[u].did) <= RankOf(a)
      PROVE  ColumnSet(Promoted(persons[u], a), a) = persons[u]
    <2>1. Promoted(persons[u], a) = persons[u]
        BY <1>5, <1>6 DEF Promoted
    <2> QED BY <1>4, <2>1
<1> QED BY <1>4, <1>6

\* The rest of the invariant, for a callback that keeps it for rows and cookies.
LEMMA CallbackKeeps ==
    ASSUME SessInv, NEW t \in trips, trips' = trips \ {t},
           UNCHANGED <<submitter, actors, wantsMastodon, tripCount>>,
           persons' \in [Persons -> PersonRows],
           \A v \in Persons : persons'[v] # Vacant => persons'[v].did # Nil,
           \A c : HeldBy(persons, c) => HeldBy(persons', c),
           bindings' \in [OAuthAccounts -> [person : Persons \cup {Nil},
                                            gave : OAuthAccounts \cup {Nil}]],
           cookies' \in [Browsers -> [person : Persons \cup {Nil}, did : OAuthAccounts \cup {Nil}]],
           \A b \in Browsers : HeldBy(persons', cookies'[b]),
           halfway' \in BOOLEAN, halfway => halfway', ~halfway' => Straight(persons'),
           \A a \in OAuthAccounts : bindings'[a] = bindings[a] \/ AtProvider[a] # "mastodon"
                                    \/ bindings'[a].person \in wantsMastodon
    PROVE  SessInv'
<1>1. SessionsTypeOK'
    BY DEF SessInv, SessionsTypeOK, PersonRows
<1>2. \A p \in OwnPapers : HeldBy(persons', submitter'[p])
    BY DEF SessInv
<1>3. AuthorsAct' /\ TripsAsked' /\ MastodonAsked'
    BY DEF SessInv, AuthorsAct, TripsAsked, MastodonAsked
<1>4. /\ \A u \in Persons : persons'[u] # Vacant => persons'[u].did # Nil
      /\ \A b \in Browsers : HeldBy(persons', cookies'[b])
      /\ ~halfway' => Straight(persons')
    OBVIOUS
<1> HIDE DEF SessInv
<1> QED BY <1>1, <1>2, <1>3, <1>4 DEF SessInv

\* A visitor signs in.
LEMMA SignsInKeeps ==
    ASSUME SessInv, NEW t \in trips, trips' = trips \ {t}, NEW b \in Browsers,
           NEW a \in OAuthAccounts, AtProvider[a] # "mastodon", SignsIn(b, a),
           UNCHANGED <<submitter, actors, wantsMastodon, tripCount>>
    PROVE  SessInv'
<1> DEFINE known  == IF AtProvider[a] = "bluesky" THEN HasDid(a) ELSE WithColumn(a)
           better == {u \in known : \/ a \in persons[u].legacy
                                    \/ RankOf(persons[u].did) > RankOf(a)}
<1>1. PICK u \in IF known # {} THEN known ELSE IF HasDid(a) # {} THEN HasDid(a) ELSE NewRow :
        /\ WithColumn(a) \subseteq {u}
        /\ persons' = [persons EXCEPT ![u] =
              ColumnSet(IF u \in better THEN @ ELSE IF @ = Vacant THEN [@ EXCEPT !.did = a]
                        ELSE Promoted(@, a), a)]
        /\ bindings' = [bindings EXCEPT ![a] =
              IF @ = NoBinding THEN [person |-> u, gave |-> persons'[u].did] ELSE @]
        /\ cookies' = [cookies EXCEPT ![b] = Claims(u)]
        /\ UNCHANGED halfway
    BY DEF SignsIn
<1>2. u \in Persons /\ persons \in [Persons -> PersonRows] /\ persons[u] \in PersonRows
    BY <1>1 DEF SessInv, SessionsTypeOK, PersonRows, HasDid, WithColumn, NewRow
<1>3. Nil \notin OAuthAccounts /\ Nil \notin Persons
    BY SessionsAssumption
<1>4. PICK rec : rec = ColumnSet(IF u \in better THEN persons[u]
                        ELSE IF persons[u] = Vacant THEN [persons[u] EXCEPT !.did = a]
                        ELSE Promoted(persons[u], a), a)
    OBVIOUS
<1>5. persons' = [persons EXCEPT ![u] = rec]
    BY <1>1, <1>4
<1>6. persons[u] # Vacant => persons[u].did # Nil
    BY <1>2 DEF SessInv
<1>7. persons[u] = Vacant => /\ rec = [did |-> a, legacy |-> {}, columns |-> {a}]
                             /\ u \in NewRow /\ WithColumn(a) = {}
    <2> SUFFICES ASSUME persons[u] = Vacant
                 PROVE  /\ rec = [did |-> a, legacy |-> {}, columns |-> {a}]
                        /\ u \in NewRow /\ WithColumn(a) = {}
        OBVIOUS
    <2>1. u \notin HasDid(a) /\ u \notin WithColumn(a)
        BY <1>3 DEF HasDid, WithColumn, Vacant
    <2>2. u \notin known /\ u \in NewRow /\ WithColumn(a) = {}
        BY <1>1, <2>1
    <2>3. rec = ColumnSet([Vacant EXCEPT !.did = a], a)
        BY <1>4, <2>2
    <2> QED BY <2>2, <2>3 DEF ColumnSet, Vacant
<1>8. /\ rec \in PersonRows /\ rec.did # Nil
      /\ persons[u] = Vacant \/ HadDids(persons[u]) \subseteq HadDids(rec)
    <2>1. CASE persons[u] = Vacant
        BY <1>3, <1>7, <2>1 DEF PersonRows
    <2>2. CASE persons[u] # Vacant
        <3>1. Promoted(persons[u], a) \in PersonRows /\ Promoted(persons[u], a).did = a
              /\ {persons[u].did} \cup persons[u].legacy
                    \subseteq {a} \cup Promoted(persons[u], a).legacy
            BY <1>2, <1>6, <2>2, RowsChange
        <3>2. CASE u \in better
            <4>1. rec = ColumnSet(persons[u], a)
                BY <1>4, <3>2
            <4> QED BY <1>2, <1>6, <2>2, <4>1, RowsChange DEF HadDids
        <3>3. CASE u \notin better
            <4>1. rec = ColumnSet(Promoted(persons[u], a), a)
                BY <1>4, <2>2, <3>3
            <4>2. /\ rec \in PersonRows /\ rec.did = a
                  /\ rec.legacy = Promoted(persons[u], a).legacy
                BY <1>3, <3>1, <4>1, RowsChange
            <4> QED BY <1>3, <3>1, <4>2 DEF HadDids
        <3> QED BY <3>2, <3>3
    <2> QED BY <2>1, <2>2
<1>9. /\ persons' \in [Persons -> PersonRows] /\ persons'[u] = rec
      /\ \A v \in Persons : persons'[v] # Vacant => persons'[v].did # Nil
      /\ \A c : HeldBy(persons, c) => HeldBy(persons', c)
    BY <1>2, <1>5, <1>8, RowKeeps
<1>10. Claims(u) = [person |-> u, did |-> rec.did]
    BY <1>9 DEF Claims
<1>11. cookies' = [cookies EXCEPT ![b] = [person |-> u, did |-> rec.did]]
    BY <1>1, <1>10
<1>12. /\ cookies' \in [Browsers -> [person : Persons \cup {Nil}, did : OAuthAccounts \cup {Nil}]]
       /\ \A c \in Browsers : HeldBy(persons', cookies'[c])
    <2>1. rec.did \in OAuthAccounts \cup {Nil}
        BY <1>8 DEF PersonRows
    <2>2. cookies \in [Browsers -> [person : Persons \cup {Nil}, did : OAuthAccounts \cup {Nil}]]
        BY DEF SessInv, SessionsTypeOK
    <2>3. persons'[u] # Vacant /\ rec.did \in HadDids(persons'[u])
        BY <1>3, <1>8, <1>9 DEF Vacant, HadDids
    <2>4. HeldBy(persons', [person |-> u, did |-> rec.did])
        BY <1>2, <2>3 DEF HeldBy
    <2>5. \A c \in Browsers : HeldBy(persons', cookies[c])
        BY <1>9 DEF SessInv
    <2> QED BY <1>2, <1>11, <2>1, <2>2, <2>4, <2>5
<1>13. bindings' \in [OAuthAccounts -> [person : Persons \cup {Nil},
                                         gave : OAuthAccounts \cup {Nil}]]
       /\ \A x \in OAuthAccounts : x # a => bindings'[x] = bindings[x]
    <2>1. bindings \in [OAuthAccounts -> [person : Persons \cup {Nil},
                                          gave : OAuthAccounts \cup {Nil}]]
        BY DEF SessInv, SessionsTypeOK
    <2>2. persons'[u].did \in OAuthAccounts \cup {Nil}
        BY <1>2, <1>9 DEF PersonRows
    <2> QED BY <1>1, <1>2, <2>1, <2>2
<1>14. ASSUME ~halfway PROVE Straight(persons')
    <2>1. Straight(persons)
        BY <1>14 DEF SessInv
    <2>2. CASE persons[u] = Vacant
        <3>1. RowStraight(rec)
            BY <1>7, <2>2, RankFacts DEF RowStraight
        <3>2. \A v \in Persons : a \notin persons[v].columns
            BY <1>7, <2>2 DEF WithColumn
        <3>3. \A v \in Persons : v # u => persons'[v] = persons[v]
            BY <1>2, <1>5
        <3>4. rec.columns = {a}
            BY <1>7, <2>2
        <3> QED BY <1>9, <2>1, <3>1, <3>2, <3>3, <3>4 DEF Straight
    <2>3. CASE persons[u] # Vacant
        <3>1. u \notin NewRow
            BY <2>3 DEF NewRow
        <3>2. u \in IF known # {} THEN known ELSE HasDid(a)
            BY <1>1, <3>1
        <3>3. /\ ColumnSet(persons[u], a) = persons[u]
              /\ RankOf(persons[u].did) <= RankOf(a)
                    => ColumnSet(Promoted(persons[u], a), a) = persons[u]
            BY <1>2, <1>14, <2>3, <3>2, SignInKeepsRows
        <3>4. rec = persons[u]
            <4>1. CASE u \in better
                BY <1>4, <3>3, <4>1
            <4>2. CASE u \in known /\ u \notin better
                <5>1. persons[u].did \in OAuthAccounts
                    BY <1>2, <1>6, <2>3 DEF PersonRows
                <5>2. ~(RankOf(persons[u].did) > RankOf(a))
                    BY <4>2
                <5>3. RankOf(persons[u].did) <= RankOf(a)
                    BY <5>1, <5>2, RankFacts
                <5> QED BY <1>4, <2>3, <3>3, <4>2, <5>3
            <4>3. CASE u \notin known
                <5>1. persons[u].did = a
                    BY <3>2, <4>3 DEF HasDid
                <5>2. RankOf(persons[u].did) <= RankOf(a)
                    BY <5>1, RankFacts
                <5> QED BY <1>4, <2>3, <3>3, <4>3, <5>2
            <4> QED BY <4>1, <4>2, <4>3
        <3>5. persons' = persons
            BY <1>2, <1>5, <3>4
        <3> QED BY <2>1, <3>5
    <2> QED BY <2>2, <2>3
<1>15. halfway' \in BOOLEAN /\ halfway' = halfway
    BY <1>1 DEF SessInv, SessionsTypeOK
<1>16. \A x \in OAuthAccounts : bindings'[x] = bindings[x] \/ AtProvider[x] # "mastodon"
                                \/ bindings'[x].person \in wantsMastodon
    BY <1>13
<1> QED BY <1>9, <1>12, <1>13, <1>14, <1>15, <1>16, CallbackKeeps

\* A session gets a link.
LEMMA LinksKeep ==
    ASSUME SessInv, NEW t \in trips, trips' = trips \ {t}, NEW b \in Browsers,
           cookies[b] # NoCookie, NEW a \in OAuthAccounts, Links(b, cookies[b].person, a),
           AtProvider[a] = "mastodon" => cookies[b].person \in wantsMastodon,
           UNCHANGED <<submitter, actors, wantsMastodon, tripCount>>
    PROVE  SessInv'
<1>1. PICK u : u = cookies[b].person
    OBVIOUS
<1>2. Nil \notin OAuthAccounts /\ Nil \notin Persons
    BY SessionsAssumption
<1>3. /\ u \in Persons /\ persons \in [Persons -> PersonRows] /\ persons[u] \in PersonRows
      /\ persons[u] # Vacant /\ persons[u].did # Nil /\ persons[u].did \in OAuthAccounts
    BY <1>1 DEF SessInv, HeldBy, SessionsTypeOK, PersonRows
<1>4. PICK d : d = IF RankOf(a) > RankOf(persons[u].did) THEN a ELSE persons[u].did
    OBVIOUS
<1>5. d \in OAuthAccounts /\ d # Nil
    BY <1>2, <1>3, <1>4
<1>6. PICK column \in BOOLEAN :
          column <=> (AtProvider[a] # "mastodon" /\ ~Has(persons[u], AtProvider[a]))
    OBVIOUS
<1>7. PICK resigns : resigns = IF AtProvider[a] = "mastodon" THEN cookies
                               ELSE [cookies EXCEPT ![b] = Claims(u)]
    OBVIOUS
<1>8. PICK promoted : promoted = Promoted(persons[u], d)
    OBVIOUS
<1>9. /\ promoted \in PersonRows /\ promoted.did = d /\ promoted.columns = persons[u].columns
      /\ HadDids(persons[u]) \subseteq HadDids(promoted)
      /\ promoted.legacy \subseteq {persons[u].did} \cup persons[u].legacy
      /\ persons[u].did = d => promoted = persons[u]
    BY <1>3, <1>5, <1>8, RowsChange DEF HadDids
<1>10. /\ ColumnSet(promoted, a) \in PersonRows /\ ColumnSet(promoted, a).did = d
       /\ ColumnSet(promoted, a).legacy = promoted.legacy
       /\ ColumnSet(promoted, a).columns
              = {c \in persons[u].columns : AtProvider[c] # AtProvider[a]} \cup {a}
    BY <1>5, <1>9, RowsChange
<1>11. \/ /\ bindings[a].person = u
          /\ UNCHANGED <<persons, bindings, halfway>> /\ cookies' = resigns
       \/ /\ column /\ WithColumn(a) \ {u} # {}
          /\ persons' = [persons EXCEPT ![u] = promoted]
          /\ halfway' = (halfway \/ d # persons[u].did)
          /\ UNCHANGED <<bindings, cookies>>
       \/ /\ column => WithColumn(a) \subseteq {u}
          /\ persons' = [persons EXCEPT ![u] =
                 IF column THEN ColumnSet(promoted, a) ELSE promoted]
          /\ bindings' = [bindings EXCEPT ![a] =
                 [person |-> u, gave |-> IF d = persons[u].did THEN Nil ELSE d]]
          /\ cookies' = resigns
          /\ UNCHANGED halfway
    BY <1>1, <1>4, <1>6, <1>7, <1>8 DEF Links
<1>12. PICK rec : rec = IF persons' = persons THEN persons[u] ELSE persons'[u]
    OBVIOUS
<1>13. /\ rec \in PersonRows /\ rec.did # Nil /\ HadDids(persons[u]) \subseteq HadDids(rec)
       /\ persons' = [persons EXCEPT ![u] = rec]
    <2>1. persons' = persons => /\ rec = persons[u] /\ persons' = [persons EXCEPT ![u] = rec]
        BY <1>3, <1>12
    <2>2. ASSUME persons' # persons
          PROVE  /\ rec = promoted \/ rec = ColumnSet(promoted, a)
                 /\ persons' = [persons EXCEPT ![u] = rec]
        BY <1>3, <1>11, <1>12, <2>2
    <2>3. HadDids(persons[u]) \subseteq HadDids(ColumnSet(promoted, a))
        BY <1>9, <1>10 DEF HadDids
    <2> QED BY <1>3, <1>5, <1>9, <1>10, <2>1, <2>2, <2>3
<1>14. /\ persons' \in [Persons -> PersonRows] /\ persons'[u] = rec
       /\ \A v \in Persons : persons'[v] # Vacant => persons'[v].did # Nil
       /\ \A c : HeldBy(persons, c) => HeldBy(persons', c)
    BY <1>3, <1>13, RowKeeps
<1>15. \/ cookies' = cookies
       \/ cookies' = [cookies EXCEPT ![b] = [person |-> u, did |-> rec.did]]
    BY <1>7, <1>11, <1>14 DEF Claims
<1>16. /\ cookies' \in [Browsers -> [person : Persons \cup {Nil}, did : OAuthAccounts \cup {Nil}]]
       /\ \A c \in Browsers : HeldBy(persons', cookies'[c])
    <2>1. rec.did \in OAuthAccounts \cup {Nil}
        BY <1>13 DEF PersonRows
    <2>2. cookies \in [Browsers -> [person : Persons \cup {Nil}, did : OAuthAccounts \cup {Nil}]]
        BY DEF SessInv, SessionsTypeOK
    <2>3. persons'[u] # Vacant /\ rec.did \in HadDids(persons'[u])
        BY <1>13, <1>14 DEF Vacant, HadDids
    <2>4. HeldBy(persons', [person |-> u, did |-> rec.did])
        BY <1>3, <2>3 DEF HeldBy
    <2>5. \A c \in Browsers : HeldBy(persons', cookies[c])
        BY <1>14 DEF SessInv
    <2> QED BY <1>3, <1>15, <2>1, <2>2, <2>4, <2>5
<1>17. /\ bindings' \in [OAuthAccounts -> [person : Persons \cup {Nil},
                                           gave : OAuthAccounts \cup {Nil}]]
       /\ \A x \in OAuthAccounts :
              bindings'[x] = bindings[x] \/ (x = a /\ bindings'[x].person = u)
    <2>1. bindings \in [OAuthAccounts -> [person : Persons \cup {Nil},
                                          gave : OAuthAccounts \cup {Nil}]]
        BY DEF SessInv, SessionsTypeOK
    <2> QED BY <1>3, <1>5, <1>11, <2>1
<1>18. halfway' \in BOOLEAN /\ (halfway => halfway')
    BY <1>11 DEF SessInv, SessionsTypeOK
<1>19. ASSUME ~halfway' PROVE Straight(persons')
    <2>0. ~halfway
        BY <1>18, <1>19
    <2>1. Straight(persons) /\ RowStraight(persons[u])
        <3>1. Straight(persons)
            BY <2>0 DEF SessInv
        <3> QED BY <1>3, <3>1 DEF Straight
    <2>2. ASSUME ~column PROVE promoted = persons[u]
        <3>1. RankOf(a) \in Nat /\ RankOf(persons[u].did) \in Nat /\ RankOf(persons[u].did) >= 5
            BY <1>3, RankFacts
        <3>2. CASE AtProvider[a] = "mastodon"
            BY <1>4, <1>9, <3>1, <3>2, RankFacts
        <3>3. CASE Has(persons[u], AtProvider[a])
            <4>1. PICK c \in persons[u].columns : AtProvider[c] = AtProvider[a]
                BY <3>3 DEF Has
            <4>2. RankOf(c) = RankOf(a) /\ RankOf(c) <= RankOf(persons[u].did)
                BY <1>3, <2>1, <4>1, RankFacts DEF RowStraight, PersonRows
            <4> QED BY <1>4, <1>9, <3>1, <4>2
        <3> QED BY <1>6, <2>2, <3>2, <3>3
    <2>3. CASE rec = persons[u]
        BY <1>3, <1>13, <2>1, <2>3
    <2>4. CASE column /\ WithColumn(a) \subseteq {u} /\ rec = ColumnSet(promoted, a)
        <3>1. \A c \in persons[u].columns : AtProvider[c] # AtProvider[a]
            BY <1>6, <2>4 DEF Has
        <3>2. rec.columns = persons[u].columns \cup {a} /\ rec.did = d
              /\ rec.legacy \subseteq {persons[u].did} \cup persons[u].legacy
            BY <1>9, <1>10, <2>4, <3>1
        <3>3. persons[u].columns \subseteq OAuthAccounts
            BY <1>3 DEF PersonRows
        <3>4. RowStraight(rec)
            <4>1. rec.did \in rec.columns /\ rec.legacy \subseteq rec.columns
                BY <1>4, <2>1, <3>2 DEF RowStraight
            <4>2. \A c \in rec.columns : RankOf(c) <= RankOf(rec.did)
                <5>1. \A c \in OAuthAccounts : RankOf(c) \in Nat
                    BY RankFacts
                <5>2. /\ \A c \in persons[u].columns : RankOf(c) <= RankOf(persons[u].did)
                      /\ RankOf(persons[u].did) <= RankOf(d) /\ RankOf(a) <= RankOf(d)
                    BY <1>3, <1>4, <2>1, <5>1 DEF RowStraight
                <5> QED BY <1>3, <1>5, <3>2, <3>3, <5>1, <5>2
            <4>3. \A c, e \in rec.columns : AtProvider[c] = AtProvider[e] => c = e
                BY <2>1, <3>1, <3>2 DEF RowStraight
            <4> QED BY <4>1, <4>2, <4>3 DEF RowStraight
        <3>5. \A v \in Persons : v # u => persons'[v] = persons[v] /\ a \notin persons[v].columns
            BY <1>3, <1>13, <2>4 DEF WithColumn
        <3> QED BY <1>14, <2>1, <3>2, <3>4, <3>5 DEF Straight
    <2>5. CASE rec # persons[u]
        <3>1. persons' # persons
            BY <1>12, <2>5
        <3>2. ~(WithColumn(a) \ {u} # {} /\ persons' = [persons EXCEPT ![u] = promoted]
                /\ halfway' = (halfway \/ d # persons[u].did))
            <4> SUFFICES ASSUME persons' = [persons EXCEPT ![u] = promoted],
                                halfway' = (halfway \/ d # persons[u].did)
                         PROVE  FALSE
                OBVIOUS
            <4>1. promoted = persons[u]
                BY <1>9, <1>19
            <4> QED BY <1>3, <3>1, <4>1
        <3>3. /\ column => WithColumn(a) \subseteq {u}
              /\ persons' = [persons EXCEPT ![u] = IF column THEN ColumnSet(promoted, a)
                                                   ELSE promoted]
            BY <1>11, <3>1, <3>2
        <3>4. column
            BY <1>3, <2>2, <3>1, <3>3
        <3>5. rec = ColumnSet(promoted, a)
            BY <1>3, <1>14, <3>3, <3>4
        <3> QED BY <2>4, <3>3, <3>4, <3>5
    <2> QED BY <2>3, <2>5
<1>20. \A x \in OAuthAccounts : bindings'[x] = bindings[x] \/ AtProvider[x] # "mastodon"
                                \/ bindings'[x].person \in wantsMastodon
    BY <1>1, <1>17
<1>21. /\ bindings' \in [OAuthAccounts -> [person : Persons \cup {Nil},
                                           gave : OAuthAccounts \cup {Nil}]]
       /\ persons' \in [Persons -> PersonRows]
       /\ ~halfway' => Straight(persons')
    BY <1>14, <1>17, <1>19
<1> QED BY <1>14, <1>16, <1>18, <1>20, <1>21, CallbackKeeps

\* The invariant is inductive.
LEMMA SessInductive == SessInv /\ [SessionsNext]_sessVars => SessInv'
<1> SUFFICES ASSUME SessInv, [SessionsNext]_sessVars PROVE SessInv'
    OBVIOUS
<1>0. Nil \notin OAuthAccounts /\ Nil \notin Persons
    BY SessionsAssumption
<1>1. ASSUME NEW b \in Browsers, NEW p \in OAuthProviders, NEW i \in {"signin", "link"},
             BeginTrip(b, p, i)
      PROVE  SessInv'
    <2>1. PICK new : /\ new = Trip(b, p, IF p = "google" THEN "signin" ELSE i, Nil)
                     /\ trips' = trips \cup {new}
        BY <1>1 DEF BeginTrip
    <2>2. new \in [browser : Browsers, provider : OAuthProviders,
                   intent : {"signin", "link"}, person : Persons \cup {Nil}]
        BY <2>1 DEF Trip
    <2>3. new.provider # "mastodon"
        BY <1>1, <2>1 DEF Trip, BeginTrip
    <2>4. tripCount' \in 0..MaxTrips
        BY <1>1, SessionsAssumption DEF SessInv, SessionsTypeOK, BeginTrip
    <2>5. SessionsTypeOK'
        BY <1>1, <2>1, <2>2, <2>4 DEF SessInv, SessionsTypeOK, BeginTrip
    <2>6. TripsAsked'
        BY <1>1, <2>1, <2>3 DEF SessInv, TripsAsked, BeginTrip
    <2> QED BY <1>1, <2>5, <2>6 DEF SessInv, BeginTrip, AuthorsAct, MastodonAsked
<1>2. ASSUME NEW b \in Browsers, BeginMastodon(b) PROVE SessInv'
    <2>1. cookies[b].person \in Persons
        BY <1>2 DEF SessInv, BeginMastodon, HeldBy
    <2>2. PICK new : /\ new = Trip(b, "mastodon", "link", cookies[b].person)
                     /\ trips' = trips \cup {new}
        BY <1>2 DEF BeginMastodon
    <2>3. /\ new \in [browser : Browsers, provider : OAuthProviders,
                      intent : {"signin", "link"}, person : Persons \cup {Nil}]
          /\ new.intent = "link" /\ new.person = cookies[b].person
        BY <2>1, <2>2 DEF Trip, OAuthProviders
    <2>4. /\ tripCount' \in 0..MaxTrips /\ wantsMastodon' \subseteq Persons
          /\ wantsMastodon \subseteq wantsMastodon' /\ cookies[b].person \in wantsMastodon'
        BY <1>2, <2>1, SessionsAssumption DEF SessInv, SessionsTypeOK, BeginMastodon
    <2>5. SessionsTypeOK'
        BY <1>2, <2>2, <2>3, <2>4 DEF SessInv, SessionsTypeOK, BeginMastodon
    <2>6. TripsAsked'
        BY <1>2, <2>2, <2>3, <2>4 DEF SessInv, TripsAsked, BeginMastodon
    <2>7. MastodonAsked'
        BY <1>2, <2>4 DEF SessInv, MastodonAsked, BeginMastodon
    <2> QED BY <1>2, <2>5, <2>6, <2>7 DEF SessInv, BeginMastodon, AuthorsAct
<1>3. ASSUME NEW b \in Browsers, Logout(b) PROVE SessInv'
    <2>1. SessionsTypeOK' /\ \A c \in Browsers : HeldBy(persons', cookies'[c])
        BY <1>3 DEF SessInv, SessionsTypeOK, Logout, HeldBy, NoCookie
    <2> QED BY <1>3, <2>1 DEF SessInv, Logout, AuthorsAct, TripsAsked, MastodonAsked
<1>4. ASSUME NEW t \in trips, TripLost(t) PROVE SessInv'
    BY <1>4 DEF SessInv, SessionsTypeOK, TripLost, AuthorsAct, TripsAsked, MastodonAsked
<1>5. ASSUME NEW t \in trips, NEW a \in OAuthAccounts, Callback(t, a) PROVE SessInv'
    <2>1. t.browser \in Browsers /\ AtProvider[a] = t.provider
        BY <1>5 DEF SessInv, SessionsTypeOK, Callback, ShownAccounts
    <2>2. t.provider = "mastodon" =>
              t.intent = "link" /\ cookies[t.browser] # NoCookie
              /\ cookies[t.browser].person \in wantsMastodon
        BY <1>5 DEF SessInv, TripsAsked, Callback, MayEnd
    <2>3. CASE LinksNow(t)
        BY <1>5, <2>1, <2>2, <2>3, LinksKeep DEF Callback, LinksNow
    <2>4. CASE ~LinksNow(t)
        BY <1>5, <2>1, <2>2, <2>4, SignsInKeeps DEF Callback, LinksNow
    <2> QED BY <2>3, <2>4
<1>6. ASSUME NEW b \in Browsers, NEW a \in OAuthAccounts, Unlink(b, a) PROVE SessInv'
    <2>1. SessionsTypeOK' /\ MastodonAsked'
        BY <1>6 DEF SessInv, SessionsTypeOK, MastodonAsked, Unlink, NoBinding
    <2> QED BY <1>6, <2>1 DEF SessInv, Unlink, AuthorsAct, TripsAsked
<1>7. ASSUME NEW b \in Browsers, NEW p \in OwnPapers, SubmitPaper(b, p) PROVE SessInv'
    <2>1. SessionsTypeOK' /\ \A q \in OwnPapers : HeldBy(persons', submitter'[q])
        BY <1>7 DEF SessInv, SessionsTypeOK, SubmitPaper
    <2>2. actors[p] = {} \/ halfway
        BY <1>0, <1>7 DEF SessInv, SessionsTypeOK, AuthorsAct, SubmitPaper, Nothing
    <2>3. AuthorsAct'
        BY <1>7, <2>2 DEF SessInv, SessionsTypeOK, AuthorsAct, SubmitPaper
    <2> QED BY <1>7, <2>1, <2>3 DEF SessInv, SubmitPaper, TripsAsked, MastodonAsked
<1>8. ASSUME NEW b \in Browsers, NEW p \in OwnPapers, ActAsAuthor(b, p) PROVE SessInv'
    <2>1. cookies[b] # NoCookie /\ HeldBy(persons, cookies[b]) /\ cookies[b].person \in Persons
        BY <1>8 DEF SessInv, ActAsAuthor, HeldBy
    <2>2. SessionsTypeOK'
        BY <1>8, <2>1 DEF SessInv, SessionsTypeOK, ActAsAuthor
    <2>3. ~halfway => submitter[p].person = cookies[b].person
        <3> SUFFICES ASSUME ~halfway PROVE submitter[p].person = cookies[b].person
            OBVIOUS
        <3>1. cookies[b].did \in persons[cookies[b].person].columns
              /\ persons[cookies[b].person].columns \subseteq OAuthAccounts
            BY <2>1 DEF SessInv, SessionsTypeOK, Straight, RowStraight, HeldBy, HadDids
        <3>2. submitter[p] # NoCookie
            BY <1>0, <1>8, <3>1 DEF ActAsAuthor, NoCookie
        <3>3. /\ submitter[p].person \in Persons
              /\ submitter[p].did \in persons[submitter[p].person].columns
            BY <3>2 DEF SessInv, Straight, RowStraight, HeldBy, HadDids
        <3> QED BY <1>8, <2>1, <3>1, <3>3 DEF SessInv, Straight, ActAsAuthor
    <2>4. AuthorsAct'
        BY <1>8, <2>3 DEF SessInv, SessionsTypeOK, AuthorsAct, ActAsAuthor
    <2> QED BY <1>8, <2>2, <2>4 DEF SessInv, ActAsAuthor, TripsAsked, MastodonAsked
<1>9. CASE UNCHANGED sessVars
    BY <1>9 DEF sessVars, SessInv, SessionsTypeOK, AuthorsAct, TripsAsked, MastodonAsked
<1> QED BY <1>1, <1>2, <1>3, <1>4, <1>5, <1>6, <1>7, <1>8, <1>9 DEF SessionsNext

\* A session of any age lists all papers of its user, whatever links, sign-ins and unlinks there
\* were in other browsers; it lists and commands no others, unless a link has failed half way;
\* and a Mastodon account goes to a user who has asked for it, for any number of browsers,
\* accounts, users and trips (me-submissions.ts:62, versions.ts:92, auth-mastodon.ts:89).
THEOREM SessionsFindTheirOwn ==
    SessionsSpec => [](SubmissionsAreMine /\ AuthorsAct /\ MastodonAsked)
<1>1. SessionsInit => SessInv
    <2> SUFFICES ASSUME SessionsInit PROVE SessInv
        OBVIOUS
    <2>1. SessionsTypeOK
        <3>1. /\ Vacant \in [did : OAuthAccounts \cup {Nil}, legacy : SUBSET OAuthAccounts,
                             columns : SUBSET OAuthAccounts]
              /\ NoBinding \in [person : Persons \cup {Nil}, gave : OAuthAccounts \cup {Nil}]
              /\ NoCookie \in [person : Persons \cup {Nil}, did : OAuthAccounts \cup {Nil}]
              /\ Nothing \in [person : Persons \cup {Nil}, did : OAuthAccounts \cup {Nil}]
            BY DEF Vacant, NoBinding, NoCookie, Nothing
        <3>2. tripCount \in 0..MaxTrips
            BY SessionsAssumption DEF SessionsInit
        <3> QED BY <3>1, <3>2 DEF SessionsInit, SessionsTypeOK
    <2>2. Straight(persons)
        BY DEF SessionsInit, Straight, Vacant
    <2> QED BY <2>1, <2>2 DEF SessionsInit, SessInv, HeldBy, Nothing, NoCookie, AuthorsAct,
                              TripsAsked, MastodonAsked
<1>2. SessInv => SubmissionsAreMine /\ AuthorsAct /\ MastodonAsked
    <2> SUFFICES ASSUME SessInv, NEW b \in Browsers, cookies[b] # NoCookie, NEW p \in OwnPapers
                 PROVE  /\ submitter[p].person = cookies[b].person =>
                               submitter[p].did \in RequesterDids(b)
                        /\ ~halfway /\ submitter[p].did \in RequesterDids(b) =>
                               submitter[p].person = cookies[b].person
        BY DEF SessInv, SubmissionsAreMine, MySubmissions
    <2>0. Nil \notin OAuthAccounts /\ Nil \notin Persons
        BY SessionsAssumption
    <2>1. /\ cookies[b].person \in Persons /\ persons[cookies[b].person] # Vacant
          /\ cookies[b].did \in HadDids(persons[cookies[b].person])
        BY DEF SessInv, HeldBy
    <2>2. ASSUME submitter[p].person = cookies[b].person
          PROVE  submitter[p].did \in RequesterDids(b)
        BY <2>0, <2>1, <2>2 DEF SessInv, HeldBy, NoCookie, RequesterDids, HadDids
    <2>3. ASSUME ~halfway, submitter[p].did \in RequesterDids(b)
          PROVE  submitter[p].person = cookies[b].person
        <3>1. RequesterDids(b) \subseteq persons[cookies[b].person].columns
              /\ persons[cookies[b].person].columns \subseteq OAuthAccounts
            BY <2>1, <2>3 DEF SessInv, SessionsTypeOK, Straight, RowStraight, RequesterDids, HadDids
        <3>2. submitter[p] # NoCookie
            BY <2>0, <2>3, <3>1 DEF NoCookie
        <3>3. /\ submitter[p].person \in Persons
              /\ submitter[p].did \in persons[submitter[p].person].columns
            BY <2>3, <3>2 DEF SessInv, Straight, RowStraight, HeldBy, HadDids
        <3> QED BY <2>1, <2>3, <3>1, <3>3 DEF SessInv, Straight
    <2> QED BY <2>2, <2>3
<1> QED BY <1>1, <1>2, SessInductive, PTL DEF SessionsSpec

-----------------------------------------------------------------------------
(* The search index. *)

\* Chunks of a text, numbered in its order.
RankIn(set, c) == Cardinality({d \in set : d < c})
Packed(t, set) == {[idx |-> RankIn(set, c), text |-> t, chunk |-> c] : c \in set}

\* Nothing was lost to a failure or to the budget.
NothingLost == indexFaults = 0 /\ ~refused

\* No row, or those of some chunks of a text: of all of them unless something was lost.
RowsOfOne(set) ==
    set = {} \/ \E t \in 0..2, e \in SUBSET Nat :
        /\ e # {} /\ e \subseteq 0..(TextChunks[t] - 1) /\ set = Packed(t, e)
        /\ NothingLost => e = 0..(TextChunks[t] - 1)

RunStates == [pc : {"idle", "embed", "delete", "insert"}, text : 0..2, next : Nat,
              flying : SUBSET Nat, embedded : SUBSET Nat]

\* What a run has taken of its text.
RunFits(run) ==
    /\ run.next <= TextChunks[run.text]
    /\ run.flying \subseteq 0..(run.next - 1) /\ run.embedded \subseteq 0..(run.next - 1)
    /\ run.flying \cap run.embedded = {}
    /\ NothingLost => run.flying \cup run.embedded = 0..(run.next - 1)
    /\ run.pc \in {"delete", "insert"} =>
           run.embedded # {} /\ run.flying = {} /\ run.next = TextChunks[run.text]

IndexKinds ==
    /\ htmlText \in 0..2 /\ indexing \in [Indexings -> RunStates]
    /\ {embedCount, embedCalls, indexFaults} \subseteq Nat
    /\ {everIndexed, refused} \subseteq BOOLEAN
    /\ searching \in [Searches -> {"idle", "charge", "sectionRows"}]

\* A paper that was indexed is without rows between two statements, or after a failure.
RowsThere ==
    everIndexed /\ sectionRows = {} =>
        indexFaults > 0 \/ \E r \in Indexings : IndexingAt(r, "insert")

\* What was paid for is counted.
CallsPaid == EmbedCap > 0 => embedCalls <= embedCount /\ embedCalls <= EmbedCap

IndexInv ==
    /\ IndexKinds /\ \A r \in Indexings : RunFits(indexing[r])
    /\ RowsOfOne(sectionRows) /\ RowsOfOne(resultCache.found)
    /\ RowsThere /\ CallsPaid

\* The numbers below a length.
LEMMA BelowIs ==
    ASSUME NEW n \in Nat
    PROVE  IsFiniteSet(0..(n - 1)) /\ Cardinality(0..(n - 1)) = n
<1>1. \A a \in Int, b \in Int :
          IsFiniteSet(a..b) /\ Cardinality(a..b) = IF a > b THEN 0 ELSE b - a + 1
    BY FS_Interval
<1>2. IsFiniteSet(0..(n - 1))
    BY <1>1
<1>3. Cardinality(0..(n - 1)) = IF 0 > n - 1 THEN 0 ELSE (n - 1) - 0 + 1
    BY <1>1
<1> QED BY <1>2, <1>3

\* Ranks grow with the chunks, and are the numbers below how many chunks there are.
LEMMA RanksAre ==
    ASSUME NEW n \in Nat, NEW e \in SUBSET (0..(n - 1))
    PROVE  /\ IsFiniteSet(e) /\ Cardinality(e) \in Nat
           /\ \A c \in e : RankIn(e, c) \in 0..(Cardinality(e) - 1)
           /\ \A a, b \in e : a < b => RankIn(e, a) < RankIn(e, b)
           /\ \A k \in 0..(Cardinality(e) - 1) : \E c \in e : RankIn(e, c) = k
<1>1. IsFiniteSet(e) /\ Cardinality(e) \in Nat
    BY BelowIs, FS_Subset, FS_CardinalityType
<1>2. ASSUME NEW A \in SUBSET e, NEW B \in SUBSET e, A \subseteq B, NEW x \in B, x \notin A
      PROVE  /\ Cardinality(A) \in Nat /\ Cardinality(B) \in Nat
             /\ Cardinality(A) < Cardinality(B)
    <2>1. IsFiniteSet(A) /\ IsFiniteSet(B)
        BY <1>1, FS_Subset
    <2>2. Cardinality(A) \in Nat /\ Cardinality(B) \in Nat
        BY <2>1, FS_CardinalityType
    <2>3. Cardinality(A) <= Cardinality(B) /\ (Cardinality(B) = Cardinality(A) => B = A)
        BY <1>2, <2>1, FS_Subset
    <2> QED BY <1>2, <2>2, <2>3
<1>3. ASSUME NEW c \in e PROVE RankIn(e, c) \in 0..(Cardinality(e) - 1)
    <2>1. PICK A : A = {d \in e : d < c}
        OBVIOUS
    <2>2. A \in SUBSET e /\ c \notin A
        BY <2>1
    <2>3. Cardinality(A) \in Nat /\ Cardinality(A) < Cardinality(e)
        BY <1>2, <2>2
    <2>4. RankIn(e, c) = Cardinality(A)
        BY <2>1 DEF RankIn
    <2> QED BY <1>1, <2>3, <2>4
<1>4. ASSUME NEW a \in e, NEW b \in e, a < b PROVE RankIn(e, a) < RankIn(e, b)
    <2>1. PICK A : A = {d \in e : d < a}
        OBVIOUS
    <2>2. PICK B : B = {d \in e : d < b}
        OBVIOUS
    <2>3. A \in SUBSET e /\ B \in SUBSET e /\ A \subseteq B /\ a \in B /\ a \notin A
        <3>1. \A d \in e : d \in Int
            OBVIOUS
        <3>2. a \in Int /\ b \in Int /\ ~(a < a) /\ \A d \in Int : d < a => d < b
            BY <1>4, <3>1
        <3> QED BY <1>4, <2>1, <2>2, <3>1, <3>2
    <2>4. Cardinality(A) < Cardinality(B)
        BY <1>2, <2>3
    <2> QED BY <2>1, <2>2, <2>4 DEF RankIn
<1>5. \A k \in 0..(Cardinality(e) - 1) : \E c \in e : RankIn(e, c) = k
    <2>1. PICK f : f = [c \in e |-> RankIn(e, c)]
        OBVIOUS
    <2>2. PICK T : T = 0..(Cardinality(e) - 1)
        OBVIOUS
    <2>3. f \in [e -> T]
        BY <1>3, <2>1, <2>2
    <2>4. \A a, b \in e : f[a] = f[b] => a = b
        <3> SUFFICES ASSUME NEW a \in e, NEW b \in e, RankIn(e, a) = RankIn(e, b), a # b
                     PROVE  FALSE
            BY <2>1
        <3>1. a < b \/ b < a
            OBVIOUS
        <3>2. RankIn(e, a) \in Int
            BY <1>3
        <3> QED BY <1>4, <3>1, <3>2
    <2>5. f \in Injection(e, T)
        BY <2>3, <2>4 DEF Injection, IsInjective
    <2>6. IsFiniteSet(T) /\ Cardinality(T) = Cardinality(e)
        BY <1>1, <2>2, BelowIs
    <2>7. f \in Surjection(e, T)
        BY <2>5, <2>6, FS_Injection
    <2> QED BY <2>1, <2>2, <2>7 DEF Surjection
<1> QED BY <1>1, <1>3, <1>4, <1>5

\* Packed rows are of one text, in its order and without holes, with one row for each chunk.
LEMMA PackedIs ==
    ASSUME NEW n \in Nat, NEW e \in SUBSET (0..(n - 1)), NEW t
    PROVE  /\ OneText(Packed(t, e)) /\ Cardinality(Packed(t, e)) = Cardinality(e)
           /\ Cardinality(Indices(Packed(t, e))) = Cardinality(e)
           /\ e # {} => 0 \in Indices(Packed(t, e)) /\ Packed(t, e) # {}
           /\ \A rec \in Packed(t, e) : rec.text = t
<1>1. /\ IsFiniteSet(e) /\ Cardinality(e) \in Nat
      /\ \A c \in e : RankIn(e, c) \in 0..(Cardinality(e) - 1)
      /\ \A a, b \in e : a < b => RankIn(e, a) < RankIn(e, b)
      /\ \A k \in 0..(Cardinality(e) - 1) : \E c \in e : RankIn(e, c) = k
    BY RanksAre
<1>2. PICK P : P = Packed(t, e)
    OBVIOUS
<1>3. /\ \A rec \in P : /\ rec.chunk \in e /\ rec.text = t /\ rec.idx = RankIn(e, rec.chunk)
                        /\ rec = [idx |-> RankIn(e, rec.chunk), text |-> t, chunk |-> rec.chunk]
      /\ \A c \in e : \E rec \in P : rec.chunk = c /\ rec.idx = RankIn(e, c)
    <2>1. P = {[idx |-> RankIn(e, c), text |-> t, chunk |-> c] : c \in e}
        BY <1>2 DEF Packed
    <2>2. ASSUME NEW c \in e PROVE \E rec \in P : rec.chunk = c /\ rec.idx = RankIn(e, c)
        <3>1. PICK new : new = [idx |-> RankIn(e, c), text |-> t, chunk |-> c]
            OBVIOUS
        <3>2. new \in P /\ new.chunk = c /\ new.idx = RankIn(e, c)
            BY <2>1, <3>1
        <3> QED BY <3>2
    <2>3. ASSUME NEW rec \in P
          PROVE  /\ rec.chunk \in e /\ rec.text = t /\ rec.idx = RankIn(e, rec.chunk)
                 /\ rec = [idx |-> RankIn(e, rec.chunk), text |-> t, chunk |-> rec.chunk]
        <3>1. PICK c \in e : rec = [idx |-> RankIn(e, c), text |-> t, chunk |-> c]
            BY <2>1
        <3> QED BY <3>1
    <2> QED BY <2>2, <2>3
<1>4. Indices(P) = 0..(Cardinality(e) - 1)
    <2>1. \A k \in Indices(P) : k \in 0..(Cardinality(e) - 1)
        BY <1>1, <1>3 DEF Indices
    <2>2. ASSUME NEW k \in 0..(Cardinality(e) - 1) PROVE k \in Indices(P)
        <3>1. PICK c \in e : RankIn(e, c) = k
            BY <1>1
        <3>2. PICK rec \in P : rec.idx = k
            BY <1>3, <3>1
        <3> QED BY <3>2 DEF Indices
    <2> QED BY <2>1, <2>2
<1>5. Cardinality(P) = Cardinality(e)
    <2>1. PICK g : g = [c \in e |-> [idx |-> RankIn(e, c), text |-> t, chunk |-> c]]
        OBVIOUS
    <2>2. g \in [e -> P] /\ \A a, b \in e : g[a] = g[b] => a = b
        BY <1>2, <2>1 DEF Packed
    <2>3. \A rec \in P : \E c \in e : g[c] = rec
        BY <1>3, <2>1
    <2>4. g \in Bijection(e, P)
        BY <2>2, <2>3 DEF Bijection, Injection, IsInjective, Surjection
    <2>5. ExistsBijection(e, P)
        BY <2>4 DEF ExistsBijection
    <2> QED BY <1>1, <2>5, FS_Bijection
<1>6. Cardinality(Indices(P)) = Cardinality(e)
    BY <1>1, <1>4, BelowIs
<1>7. ASSUME NEW x \in P, NEW y \in P, x.idx < y.idx PROVE x.chunk < y.chunk
    <2>1. x.chunk \in e /\ y.chunk \in e /\ RankIn(e, x.chunk) < RankIn(e, y.chunk)
        BY <1>3, <1>7
    <2>2. PICK c, d : c = x.chunk /\ d = y.chunk
        OBVIOUS
    <2>3. c \in e /\ d \in e /\ RankIn(e, c) < RankIn(e, d)
        BY <2>1, <2>2
    <2>4. c \in Int /\ d \in Int
        BY <2>3
    <2>5. RankIn(e, c) \in Int /\ RankIn(e, d) \in Int
        <3>1. \A k \in 0..(Cardinality(e) - 1) : k \in Int
            OBVIOUS
        <3> QED BY <1>1, <2>3, <3>1
    <2>6. ~(d < c) /\ d # c
        BY <1>1, <2>3, <2>5
    <2> QED BY <2>2, <2>4, <2>6
<1>8. OneText(P)
    BY <1>3, <1>4, <1>5, <1>7 DEF OneText
<1>9. e # {} => 0 \in Indices(P) /\ P # {}
    <2> SUFFICES ASSUME e # {} PROVE 0 \in Indices(P) /\ P # {}
        OBVIOUS
    <2>1. PICK c \in e : TRUE
        OBVIOUS
    <2>2. 0 \in 0..(Cardinality(e) - 1)
        BY <1>1, <2>1
    <2> QED BY <1>3, <1>4, <2>1, <2>2
<1> QED BY <1>2, <1>3, <1>5, <1>6, <1>8, <1>9

\* What is inserted are the chunks of a run, packed.
LEMMA RepackedIs ==
    ASSUME NEW r
    PROVE  Repacked(r) = Packed(indexing[r].text, indexing[r].embedded)
BY DEF Repacked, Packed, RankIn

\* More may be lost, and what fitted then still does.
LEMMA LossKeeps ==
    ASSUME NothingLost' => NothingLost
    PROVE  /\ \A set : RowsOfOne(set) => (RowsOfOne(set))'
           /\ \A run : RunFits(run) => (RunFits(run))'
<1>1. ASSUME NEW set, RowsOfOne(set) PROVE (RowsOfOne(set))'
    BY <1>1 DEF RowsOfOne
<1>2. ASSUME NEW run, RunFits(run) PROVE (RunFits(run))'
    BY <1>2 DEF RunFits
<1> QED BY <1>1, <1>2

\* A run goes a step that touches no row and no search.
LEMMA RunKeeps ==
    ASSUME IndexInv, NEW r \in Indexings, NEW run \in RunStates,
           indexing' = [indexing EXCEPT ![r] = run], (RunFits(run))',
           UNCHANGED <<htmlText, sectionRows, searching, resultCache, everIndexed>>,
           {embedCount', embedCalls', indexFaults'} \subseteq Nat, refused' \in BOOLEAN,
           NothingLost' => NothingLost, indexFaults <= indexFaults',
           IndexingAt(r, "insert") => indexFaults' > 0, CallsPaid'
    PROVE  IndexInv'
<1>1. IndexKinds'
    BY DEF IndexInv, IndexKinds
<1>2. \A q \in Indexings : (RunFits(indexing[q]))'
    <2>1. \A q \in Indexings : q # r => indexing'[q] = indexing[q]
        BY DEF IndexInv, IndexKinds
    <2>2. indexing'[r] = run
        BY DEF IndexInv, IndexKinds
    <2>3. ASSUME NEW q \in Indexings, q # r PROVE (RunFits(indexing[q]))'
        BY <2>1, <2>3 DEF IndexInv, RunFits
    <2>4. (RunFits(indexing[r]))'
        BY <2>2 DEF RunFits
    <2> QED BY <2>3, <2>4
<1>3. RowsOfOne(sectionRows)' /\ RowsOfOne(resultCache.found)'
    BY DEF IndexInv, RowsOfOne
<1>4. RowsThere'
    <2>1. CASE indexFaults' > 0
        BY <2>1 DEF RowsThere
    <2>2. CASE ~(indexFaults' > 0)
        <3>1. ~IndexingAt(r, "insert") /\ ~(indexFaults > 0)
            BY <2>2 DEF IndexInv, IndexKinds
        <3>2. \A q \in Indexings : q # r => (IndexingAt(q, "insert") => IndexingAt(q, "insert")')
            BY DEF IndexInv, IndexKinds, IndexingAt
        <3> QED BY <3>1, <3>2 DEF IndexInv, RowsThere
    <2> QED BY <2>1, <2>2
<1> QED BY <1>1, <1>2, <1>3, <1>4 DEF IndexInv

\* The invariant, while only searches, the cache and the HTML move.
LEMMA SearchKeeps ==
    ASSUME IndexInv, UNCHANGED <<sectionRows, indexing, everIndexed, refused>>,
           htmlText' \in 0..2, {embedCount', embedCalls', indexFaults'} \subseteq Nat,
           searching' \in [Searches -> {"idle", "charge", "sectionRows"}],
           indexFaults <= indexFaults', CallsPaid',
           resultCache'.found \in {{}, sectionRows, resultCache.found}
    PROVE  IndexInv'
<1>1. IndexKinds'
    BY DEF IndexInv, IndexKinds
<1>2. NothingLost' => NothingLost
    BY DEF IndexInv, IndexKinds, NothingLost
<1>3. \A q \in Indexings : (RunFits(indexing[q]))'
    BY <1>2 DEF IndexInv, RunFits
<1>4. RowsOfOne(sectionRows)' /\ RowsOfOne(resultCache.found)'
    <2>1. RowsOfOne(sectionRows)'
        BY <1>2 DEF IndexInv, RowsOfOne
    <2>2. CASE resultCache'.found = {}
        BY <2>1, <2>2 DEF RowsOfOne
    <2>3. CASE resultCache'.found = sectionRows
        BY <1>2, <2>3 DEF IndexInv, RowsOfOne
    <2>4. CASE resultCache'.found = resultCache.found
        BY <1>2, <2>4 DEF IndexInv, RowsOfOne
    <2> QED BY <2>1, <2>2, <2>3, <2>4
<1>5. RowsThere'
    BY DEF IndexInv, IndexKinds, RowsThere, IndexingAt
<1> QED BY <1>1, <1>3, <1>4, <1>5 DEF IndexInv

\* A charge that stays in the cap leaves room for its call.
LEMMA ChargePays ==
    ASSUME IndexInv, embedCount' = Charged,
           embedCalls' = IF WithinCap THEN embedCalls + 1 ELSE embedCalls
    PROVE  CallsPaid' /\ embedCount' \in Nat /\ embedCalls' \in Nat
<1>1. embedCount \in Nat /\ embedCalls \in Nat /\ EmbedCap \in Nat
    BY SectionIndexAssumption DEF IndexInv, IndexKinds
<1>2. EmbedCap > 0 => embedCalls <= embedCount /\ embedCalls <= EmbedCap
    BY DEF IndexInv, CallsPaid
<1>3. Charged = IF EmbedCap > 0 THEN embedCount + 1 ELSE embedCount
    BY DEF Charged
<1>4. WithinCap <=> (EmbedCap = 0 \/ Charged <= EmbedCap)
    BY DEF WithinCap
<1>5. CASE WithinCap
    BY <1>1, <1>2, <1>3, <1>4, <1>5 DEF CallsPaid
<1>6. CASE ~WithinCap
    BY <1>1, <1>2, <1>3, <1>4, <1>6 DEF CallsPaid
<1> QED BY <1>5, <1>6

\* A run is one of the states, and its text has chunks.
LEMMA RunIs ==
    ASSUME IndexInv, NEW r \in Indexings
    PROVE  /\ indexing[r] \in RunStates /\ RunFits(indexing[r])
           /\ TextChunks[indexing[r].text] \in Nat \ {0}
           /\ DOMAIN indexing = Indexings
           /\ NoRun \in RunStates /\ RunFits(NoRun) /\ (RunFits(NoRun))'
<1>1. indexing[r] \in RunStates /\ DOMAIN indexing = Indexings /\ RunFits(indexing[r])
    BY DEF IndexInv, IndexKinds
<1>2. TextChunks[indexing[r].text] \in Nat \ {0} /\ TextChunks[0] \in Nat \ {0}
    BY <1>1, SectionIndexAssumption DEF RunStates
<1>3. NoRun \in RunStates /\ RunFits(NoRun) /\ (RunFits(NoRun))'
    BY <1>2 DEF NoRun, RunStates, RunFits
<1> QED BY <1>1, <1>2, <1>3

\* A run takes a chunk, hears of one, or ends.
LEMMA RunStep ==
    ASSUME IndexInv, NEW r \in Indexings,
           \/ BeginIndexing(r) \/ StorageIsAway(r) \/ TakeChunk(r) \/ ChargeFails(r)
           \/ EmbedChunk(r) \/ EmbedFails(r) \/ EmbedsDone(r) \/ IndexingFails(r)
    PROVE  IndexInv'
<1> DEFINE x == indexing[r]
<1>1. /\ x \in RunStates /\ RunFits(x) /\ TextChunks[x.text] \in Nat \ {0}
      /\ NoRun \in RunStates /\ RunFits(NoRun) /\ (RunFits(NoRun))'
    BY RunIs
<1>2. /\ embedCount \in Nat /\ embedCalls \in Nat /\ indexFaults \in Nat /\ refused \in BOOLEAN
      /\ htmlText \in 0..2 /\ CallsPaid
    BY DEF IndexInv, IndexKinds
<1>3. /\ x.pc \in {"idle", "embed", "delete", "insert"} /\ x.text \in 0..2 /\ x.next \in Nat
      /\ x.flying \in SUBSET Nat /\ x.embedded \in SUBSET Nat
    BY <1>1 DEF RunStates
<1>4. /\ x.next <= TextChunks[x.text] /\ x.flying \cap x.embedded = {}
      /\ x.flying \subseteq 0..(x.next - 1) /\ x.embedded \subseteq 0..(x.next - 1)
      /\ NothingLost => x.flying \cup x.embedded = 0..(x.next - 1)
    BY <1>1 DEF RunFits
<1>5. IndexFault => indexFaults' \in Nat /\ indexFaults' > 0 /\ indexFaults <= indexFaults'
                    /\ ~NothingLost'
    BY <1>2 DEF IndexFault, NothingLost
<1>6. ASSUME NEW text \in 0..2, BeginRun(r, text), UNCHANGED indexFaults \/ IndexFault
      PROVE  IndexInv'
    <2>1. PICK run : run = [NoRun EXCEPT !.pc = "embed", !.text = text]
        OBVIOUS
    <2>2. TextChunks[text] \in Nat \ {0}
        BY SectionIndexAssumption
    <2>3. run \in RunStates /\ (RunFits(run))'
        <3>1. /\ run = [pc |-> "embed", text |-> text, next |-> 0, flying |-> {}, embedded |-> {}]
              /\ run.pc = "embed" /\ run.text = text /\ run.next = 0 /\ run.flying = {}
              /\ run.embedded = {}
            BY <2>1 DEF NoRun
        <3>2. run \in RunStates
            BY <3>1 DEF RunStates
        <3> QED BY <2>2, <3>1, <3>2 DEF RunFits
    <2>4. /\ indexing' = [indexing EXCEPT ![r] = run] /\ ~IndexingAt(r, "insert")
          /\ UNCHANGED <<htmlText, sectionRows, searching, resultCache, embedCount, embedCalls,
                         everIndexed, refused>>
        BY <1>6, <2>1 DEF BeginRun, IndexingAt
    <2>5. CallsPaid'
        BY <1>2, <2>4 DEF CallsPaid
    <2>6. NothingLost' => NothingLost
        BY <1>2, <1>5, <1>6, <2>4 DEF NothingLost
    <2>7. indexFaults' \in Nat /\ indexFaults <= indexFaults'
        BY <1>2, <1>5, <1>6
    <2> QED BY <1>2, <2>3, <2>4, <2>5, <2>6, <2>7, RunKeeps
<1>7. CASE BeginIndexing(r) \/ StorageIsAway(r)
    BY <1>2, <1>6, <1>7 DEF BeginIndexing, StorageIsAway
<1>8. CASE TakeChunk(r)
    <2>1. PICK more : more = IF WithinCap THEN x.flying \cup {x.next} ELSE x.flying
        OBVIOUS
    <2>2. PICK run : run = [x EXCEPT !.next = @ + 1, !.flying = more]
        OBVIOUS
    <2>3. /\ IndexingAt(r, "embed") /\ x.next < TextChunks[x.text]
          /\ indexing' = [indexing EXCEPT ![r] = run]
          /\ refused' = (refused \/ ~WithinCap)
          /\ UNCHANGED <<htmlText, sectionRows, searching, resultCache, everIndexed, indexFaults>>
        BY <1>8, <2>1, <2>2 DEF TakeChunk, Queued
    <2>4. run \in RunStates /\ run.pc = "embed" /\ run.next = x.next + 1 /\ run.flying = more
          /\ run.embedded = x.embedded /\ run.text = x.text
        <3>1. more \in SUBSET Nat /\ x.next + 1 \in Nat
            BY <1>3, <2>1
        <3>2. x.pc = "embed"
            BY <2>3 DEF IndexingAt
        <3>3. x \in [pc : {"idle", "embed", "delete", "insert"}, text : 0..2, next : Nat,
                     flying : SUBSET Nat, embedded : SUBSET Nat]
            BY <1>1 DEF RunStates
        <3> QED BY <2>2, <3>1, <3>2, <3>3 DEF RunStates
    <2>5. /\ more \subseteq 0..x.next /\ x.embedded \subseteq 0..x.next
          /\ more \cap x.embedded = {}
        BY <1>3, <1>4, <2>1
    <2>6. NothingLost' => NothingLost /\ WithinCap
        BY <2>3 DEF NothingLost
    <2>7. NothingLost' => more \cup x.embedded = 0..x.next
        BY <1>3, <1>4, <2>1, <2>6
    <2>8. run.next - 1 = x.next
        BY <1>3, <2>4
    <2>9. (RunFits(run))'
        BY <1>1, <1>3, <2>3, <2>4, <2>5, <2>7, <2>8 DEF RunFits
    <2>10. CallsPaid' /\ embedCount' \in Nat /\ embedCalls' \in Nat
        BY <1>8, ChargePays DEF TakeChunk
    <2>11. /\ ~IndexingAt(r, "insert") /\ indexFaults' \in Nat /\ indexFaults <= indexFaults'
           /\ refused' \in BOOLEAN
        BY <1>2, <2>3 DEF IndexingAt
    <2> QED BY <2>3, <2>4, <2>6, <2>9, <2>10, <2>11, RunKeeps
<1>9. CASE ChargeFails(r)
    <2>1. PICK run : run = [x EXCEPT !.next = @ + 1]
        OBVIOUS
    <2>2. /\ IndexingAt(r, "embed") /\ x.next < TextChunks[x.text] /\ IndexFault
          /\ indexing' = [indexing EXCEPT ![r] = run]
          /\ UNCHANGED <<htmlText, sectionRows, searching, resultCache, embedCount, embedCalls,
                         everIndexed, refused>>
        BY <1>9, <2>1 DEF ChargeFails, Queued
    <2>3. run \in RunStates /\ run.pc = "embed" /\ run.next = x.next + 1
          /\ run.flying = x.flying /\ run.embedded = x.embedded /\ run.text = x.text
        BY <1>1, <1>3, <2>1, <2>2 DEF RunStates, IndexingAt
    <2>4. (RunFits(run))'
        BY <1>1, <1>3, <1>4, <1>5, <2>2, <2>3 DEF RunFits
    <2>5. CallsPaid'
        BY <1>2, <2>2 DEF CallsPaid
    <2> QED BY <1>2, <1>5, <2>2, <2>3, <2>4, <2>5, RunKeeps DEF IndexingAt
<1>10. CASE EmbedChunk(r)
    <2>1. PICK c \in x.flying :
            /\ indexing' = [indexing EXCEPT ![r].flying = @ \ {c}, ![r].embedded = @ \cup {c}]
            /\ UNCHANGED <<htmlText, sectionRows, searching, resultCache, embedCount, embedCalls,
                           everIndexed, refused, indexings, searches, indexFaults>>
        BY <1>10 DEF EmbedChunk
    <2>2. PICK run : run = [x EXCEPT !.flying = @ \ {c}, !.embedded = @ \cup {c}]
        OBVIOUS
    <2>3. indexing' = [indexing EXCEPT ![r] = run]
        BY <2>1, <2>2
    <2>4. run \in RunStates /\ run.pc = x.pc /\ run.next = x.next /\ run.text = x.text
          /\ run.flying = x.flying \ {c} /\ run.embedded = x.embedded \cup {c}
        BY <1>1, <1>3, <2>2 DEF RunStates
    <2>5. ~(x.pc \in {"delete", "insert"})
        BY <1>1 DEF RunFits
    <2>6. NothingLost' => NothingLost
        BY <2>1 DEF NothingLost
    <2>7. (RunFits(run))'
        BY <1>1, <1>4, <2>4, <2>5, <2>6 DEF RunFits
    <2>8. CallsPaid'
        BY <1>2, <2>1 DEF CallsPaid
    <2>9. /\ ~IndexingAt(r, "insert") /\ indexFaults' \in Nat /\ indexFaults <= indexFaults'
          /\ {embedCount', embedCalls'} \subseteq Nat /\ refused' \in BOOLEAN
        BY <1>2, <2>1, <2>5 DEF IndexingAt
    <2> QED BY <2>1, <2>3, <2>4, <2>6, <2>7, <2>8, <2>9, RunKeeps
<1>11. CASE EmbedFails(r)
    <2>1. PICK c \in x.flying :
            /\ IndexFault /\ indexing' = [indexing EXCEPT ![r].flying = @ \ {c}]
            /\ UNCHANGED <<htmlText, sectionRows, searching, resultCache, embedCount, embedCalls,
                           everIndexed, refused, indexings, searches>>
        BY <1>11 DEF EmbedFails
    <2>2. PICK run : run = [x EXCEPT !.flying = @ \ {c}]
        OBVIOUS
    <2>3. indexing' = [indexing EXCEPT ![r] = run]
        BY <2>1, <2>2
    <2>4. run \in RunStates /\ run.pc = x.pc /\ run.next = x.next /\ run.text = x.text
          /\ run.flying = x.flying \ {c} /\ run.embedded = x.embedded
        BY <1>1, <1>3, <2>2 DEF RunStates
    <2>5. ~(x.pc \in {"delete", "insert"})
        BY <1>1 DEF RunFits
    <2>6. (RunFits(run))'
        BY <1>1, <1>4, <1>5, <2>1, <2>4, <2>5 DEF RunFits
    <2>7. CallsPaid'
        BY <1>2, <2>1 DEF CallsPaid
    <2> QED BY <1>2, <1>5, <2>1, <2>3, <2>4, <2>5, <2>6, <2>7, RunKeeps DEF IndexingAt
<1>12. CASE EmbedsDone(r)
    <2>1. PICK run : run = IF x.embedded = {} THEN NoRun ELSE [x EXCEPT !.pc = "delete"]
        OBVIOUS
    <2>2. /\ IndexingAt(r, "embed") /\ x.flying = {} /\ x.next = TextChunks[x.text]
          /\ indexing' = [indexing EXCEPT ![r] = run]
          /\ UNCHANGED <<htmlText, sectionRows, searching, resultCache, embedCount, embedCalls,
                         everIndexed, refused, indexFaults>>
        BY <1>12, <2>1 DEF EmbedsDone, IndexOver, IndexGo
    <2>3. NothingLost' => NothingLost
        BY <2>2 DEF NothingLost
    <2>4. run \in RunStates /\ (RunFits(run))'
        <3>1. CASE x.embedded = {}
            BY <1>1, <2>1, <3>1
        <3>2. CASE x.embedded # {}
            <4>1. run \in RunStates /\ run.next = x.next /\ run.text = x.text
                  /\ run.flying = x.flying /\ run.embedded = x.embedded
                BY <1>1, <1>3, <2>1, <3>2 DEF RunStates
            <4> QED BY <1>1, <1>4, <2>2, <2>3, <3>2, <4>1 DEF RunFits
        <3> QED BY <3>1, <3>2
    <2>5. CallsPaid'
        BY <1>2, <2>2 DEF CallsPaid
    <2>6. /\ ~IndexingAt(r, "insert") /\ indexFaults' \in Nat /\ indexFaults <= indexFaults'
          /\ {embedCount', embedCalls'} \subseteq Nat /\ refused' \in BOOLEAN
        BY <1>2, <2>2 DEF IndexingAt
    <2> QED BY <2>2, <2>3, <2>4, <2>5, <2>6, RunKeeps
<1>13. CASE IndexingFails(r)
    <2>1. /\ IndexFault /\ indexing' = [indexing EXCEPT ![r] = NoRun]
          /\ UNCHANGED <<htmlText, sectionRows, searching, resultCache, embedCount, embedCalls,
                         everIndexed, refused>>
        BY <1>13 DEF IndexingFails, IndexOver
    <2>2. CallsPaid'
        BY <1>2, <2>1 DEF CallsPaid
    <2> QED BY <1>1, <1>2, <1>5, <2>1, <2>2, RunKeeps
<1> QED BY <1>7, <1>8, <1>9, <1>10, <1>11, <1>12, <1>13

\* The rows are replaced, by two statements.
LEMMA ReplaceStep ==
    ASSUME IndexInv, NEW r \in Indexings, DeleteRows(r) \/ InsertRows(r)
    PROVE  IndexInv'
<1>1. /\ indexing[r] \in RunStates /\ RunFits(indexing[r]) /\ DOMAIN indexing = Indexings
      /\ TextChunks[indexing[r].text] \in Nat \ {0}
      /\ NoRun \in RunStates /\ (RunFits(NoRun))'
    BY RunIs
<1>2. /\ UNCHANGED <<htmlText, searching, resultCache, embedCount, embedCalls, refused,
                     indexFaults>>
      /\ NothingLost' <=> NothingLost
    BY DEF DeleteRows, InsertRows, NothingLost
<1>3. CallsPaid' /\ RowsOfOne(resultCache.found)'
    BY <1>2 DEF IndexInv, CallsPaid, RowsOfOne
<1>4. ASSUME NEW run \in RunStates, (RunFits(run))', indexing' = [indexing EXCEPT ![r] = run]
      PROVE  /\ indexing' \in [Indexings -> RunStates] /\ indexing'[r] = run
             /\ \A q \in Indexings : (RunFits(indexing[q]))'
    <2>1. /\ indexing' \in [Indexings -> RunStates] /\ indexing'[r] = run
          /\ \A q \in Indexings : q # r => indexing'[q] = indexing[q]
        BY <1>4 DEF IndexInv, IndexKinds
    <2>2. ASSUME NEW q \in Indexings, q # r PROVE (RunFits(indexing[q]))'
        BY <1>2, <2>1, <2>2 DEF IndexInv, RunFits
    <2>3. (RunFits(indexing[r]))'
        BY <1>4, <2>1 DEF RunFits
    <2> QED BY <2>1, <2>2, <2>3
<1>5. CASE DeleteRows(r)
    <2>1. PICK run : run = [indexing[r] EXCEPT !.pc = "insert"]
        OBVIOUS
    <2>2. /\ indexing' = [indexing EXCEPT ![r] = run] /\ sectionRows' = {}
          /\ UNCHANGED everIndexed /\ indexing[r].pc = "delete"
        BY <1>5, <2>1 DEF DeleteRows, IndexGo, IndexingAt
    <2>3. run \in RunStates /\ run.pc = "insert" /\ run.next = indexing[r].next
          /\ run.flying = indexing[r].flying /\ run.embedded = indexing[r].embedded
          /\ run.text = indexing[r].text
        BY <1>1, <2>1 DEF RunStates
    <2>4. (RunFits(run))'
        BY <1>1, <1>2, <2>2, <2>3 DEF RunFits
    <2>5. indexing' \in [Indexings -> RunStates] /\ indexing'[r] = run
          /\ \A q \in Indexings : (RunFits(indexing[q]))'
        BY <1>4, <2>2, <2>3, <2>4
    <2>6. RowsThere' /\ RowsOfOne(sectionRows)'
        BY <2>2, <2>3, <2>5 DEF RowsThere, RowsOfOne, IndexingAt
    <2> QED BY <1>2, <1>3, <2>2, <2>5, <2>6 DEF IndexInv, IndexKinds
<1>6. CASE InsertRows(r)
    <2>1. /\ indexing' = [indexing EXCEPT ![r] = NoRun] /\ indexing[r].pc = "insert"
          /\ IF Indices(sectionRows) \cap Indices(Repacked(r)) = {}
             THEN sectionRows' = sectionRows \cup Repacked(r) /\ everIndexed' = TRUE
             ELSE UNCHANGED <<sectionRows, everIndexed>>
        BY <1>6 DEF InsertRows, IndexOver, IndexingAt
    <2>2. \A q \in Indexings : (RunFits(indexing[q]))'
          /\ indexing' \in [Indexings -> RunStates]
        BY <1>1, <1>4, <2>1
    <2>3. PICK e, t : e = indexing[r].embedded /\ t = indexing[r].text
        OBVIOUS
    <2>4. /\ t \in 0..2 /\ e # {} /\ e \in SUBSET (0..(TextChunks[t] - 1)) /\ e \in SUBSET Nat
          /\ NothingLost => e = 0..(TextChunks[t] - 1)
        BY <1>1, <2>1, <2>3 DEF RunFits, RunStates
    <2>5. /\ Repacked(r) = Packed(t, e) /\ 0 \in Indices(Repacked(r)) /\ Repacked(r) # {}
        BY <1>1, <2>3, <2>4, PackedIs, RepackedIs
    <2>6. sectionRows # {} => 0 \in Indices(sectionRows)
        <3> SUFFICES ASSUME sectionRows # {} PROVE 0 \in Indices(sectionRows)
            OBVIOUS
        <3>1. PICK s \in 0..2, f \in SUBSET Nat :
                f # {} /\ f \subseteq 0..(TextChunks[s] - 1) /\ sectionRows = Packed(s, f)
            BY DEF IndexInv, RowsOfOne
        <3>2. TextChunks[s] \in Nat
            BY SectionIndexAssumption
        <3> QED BY <3>1, <3>2, PackedIs
    <2>7. CASE sectionRows = {}
        <3>1. sectionRows' = Packed(t, e) /\ everIndexed' = TRUE
            BY <2>1, <2>5, <2>7 DEF Indices
        <3>2. RowsOfOne(sectionRows)'
            BY <1>2, <2>4, <3>1 DEF RowsOfOne
        <3>3. RowsThere'
            BY <2>5, <3>1 DEF RowsThere
        <3> QED BY <1>2, <1>3, <2>2, <3>1, <3>2, <3>3 DEF IndexInv, IndexKinds
    <2>8. CASE sectionRows # {}
        <3>1. UNCHANGED <<sectionRows, everIndexed>>
            BY <2>1, <2>5, <2>6, <2>8
        <3>2. RowsOfOne(sectionRows)'
            BY <1>2, <3>1 DEF IndexInv, RowsOfOne
        <3>3. RowsThere'
            BY <2>8, <3>1 DEF RowsThere
        <3> QED BY <1>2, <1>3, <2>2, <3>1, <3>2, <3>3 DEF IndexInv, IndexKinds
    <2> QED BY <2>7, <2>8
<1> QED BY <1>5, <1>6

\* The invariant is inductive.
LEMMA IndexInductive == IndexInv /\ [IndexNext]_indexVars => IndexInv'
<1> SUFFICES ASSUME IndexInv, [IndexNext]_indexVars PROVE IndexInv'
    OBVIOUS
<1>1. /\ embedCount \in Nat /\ embedCalls \in Nat /\ indexFaults \in Nat /\ htmlText \in 0..2
      /\ searching \in [Searches -> {"idle", "charge", "sectionRows"}] /\ CallsPaid
    BY DEF IndexInv, IndexKinds
<1>2. UNCHANGED <<embedCount, embedCalls>> =>
          CallsPaid' /\ embedCount' \in Nat /\ embedCalls' \in Nat
    BY <1>1 DEF CallsPaid
<1>3. CASE NewHtml
    BY <1>1, <1>2, <1>3, SearchKeeps DEF NewHtml
<1>4. CASE CacheExpires
    BY <1>1, <1>2, <1>4, SearchKeeps DEF CacheExpires, NoResults
<1>5. ASSUME NEW r \in Indexings,
             \/ BeginIndexing(r) \/ StorageIsAway(r) \/ TakeChunk(r) \/ ChargeFails(r)
             \/ EmbedChunk(r) \/ EmbedFails(r) \/ EmbedsDone(r) \/ IndexingFails(r)
             \/ DeleteRows(r) \/ InsertRows(r)
      PROVE  IndexInv'
    BY <1>5, RunStep, ReplaceStep
<1>6. ASSUME NEW s \in Searches, BeginSearch(s) PROVE IndexInv'
    <2>1. searching' \in [Searches -> {"idle", "charge", "sectionRows"}]
        BY <1>1, <1>6 DEF BeginSearch, SearchGo
    <2> QED BY <1>1, <1>2, <1>6, <2>1, SearchKeeps DEF BeginSearch
<1>7. ASSUME NEW s \in Searches, ChargeSearch(s) PROVE IndexInv'
    <2>1. searching' \in [Searches -> {"idle", "charge", "sectionRows"}]
        BY <1>1, <1>7 DEF ChargeSearch, SearchGo
    <2>2. CallsPaid' /\ embedCount' \in Nat /\ embedCalls' \in Nat
        BY <1>7, ChargePays DEF ChargeSearch
    <2> QED BY <1>1, <1>7, <2>1, <2>2, SearchKeeps DEF ChargeSearch
<1>8. ASSUME NEW s \in Searches, FindRows(s) PROVE IndexInv'
    <2>1. searching' \in [Searches -> {"idle", "charge", "sectionRows"}]
        BY <1>1, <1>8 DEF FindRows, SearchGo
    <2>2. resultCache'.found = sectionRows
        BY <1>8 DEF FindRows
    <2> QED BY <1>1, <1>2, <1>8, <2>1, <2>2, SearchKeeps DEF FindRows
<1>9. ASSUME NEW s \in Searches, SearchFails(s) PROVE IndexInv'
    <2>1. searching' \in [Searches -> {"idle", "charge", "sectionRows"}]
        BY <1>1, <1>9 DEF SearchFails, SearchGo
    <2>2. indexFaults' \in Nat /\ indexFaults <= indexFaults'
        BY <1>1, <1>9 DEF SearchFails, IndexFault
    <2> QED BY <1>1, <1>2, <1>9, <2>1, <2>2, SearchKeeps DEF SearchFails
<1>10. CASE UNCHANGED indexVars
    BY <1>1, <1>2, <1>10, SearchKeeps DEF indexVars
<1> QED BY <1>3, <1>4, <1>5, <1>6, <1>7, <1>8, <1>9, <1>10 DEF IndexNext

\* What the index keeps of a paper and what a search is told are rows of one text, in its order
\* and without holes; none is missing unless something failed or was refused, and the calls stay
\* in the budget, for any number of runs, searches, workers and chunks (sections.ts:310).
THEOREM IndexOfOneText == IndexSpec => []IndexHolds
<1>1. IndexInit => IndexInv
    <2> SUFFICES ASSUME IndexInit PROVE IndexInv
        OBVIOUS
    <2>1. NoRun \in RunStates /\ RunFits(NoRun)
        BY SectionIndexAssumption DEF NoRun, RunStates, RunFits
    <2>2. IndexKinds
        <3>1. indexing \in [Indexings -> RunStates]
            BY <2>1 DEF IndexInit
        <3>2. htmlText \in 0..2 /\ embedCount \in Nat /\ embedCalls \in Nat /\ indexFaults \in Nat
            BY DEF IndexInit
        <3>3. everIndexed \in BOOLEAN /\ refused \in BOOLEAN
            BY DEF IndexInit
        <3>4. searching \in [Searches -> {"idle", "charge", "sectionRows"}]
            BY DEF IndexInit
        <3> QED BY <3>1, <3>2, <3>3, <3>4 DEF IndexKinds
    <2> QED BY <2>1, <2>2, SectionIndexAssumption
            DEF IndexInit, IndexInv, RowsOfOne, NoResults, RowsThere, CallsPaid
<1>2. IndexInv => IndexHolds
    <2> SUFFICES ASSUME IndexInv PROVE IndexHolds
        OBVIOUS
    <2>1. ASSUME NEW set, RowsOfOne(set)
          PROVE  /\ OneText(set)
                 /\ NothingLost => \A rec \in set : Cardinality(set) = TextChunks[rec.text]
        <3>1. CASE set = {}
            BY <3>1 DEF OneText
        <3>2. CASE set # {}
            <4>1. PICK t \in 0..2, e \in SUBSET Nat :
                    /\ e # {} /\ e \subseteq 0..(TextChunks[t] - 1) /\ set = Packed(t, e)
                    /\ NothingLost => e = 0..(TextChunks[t] - 1)
                BY <2>1, <3>2 DEF RowsOfOne
            <4>2. TextChunks[t] \in Nat
                BY SectionIndexAssumption
            <4>3. /\ OneText(set) /\ Cardinality(set) = Cardinality(e)
                  /\ \A rec \in set : rec.text = t
                BY <4>1, <4>2, PackedIs
            <4>4. NothingLost => Cardinality(e) = TextChunks[t]
                BY <4>1, <4>2, BelowIs
            <4> QED BY <4>3, <4>4
        <3> QED BY <3>1, <3>2
    <2>2. /\ OneText(sectionRows) /\ OneText(resultCache.found)
          /\ NothingLost => \A rec \in sectionRows :
                 Cardinality(sectionRows) = TextChunks[rec.text]
        BY <2>1 DEF IndexInv
    <2> QED BY <2>2 DEF IndexInv, IndexHolds, NothingLost, RowsThere, CallsPaid
<1> QED BY <1>1, <1>2, IndexInductive, PTL DEF IndexSpec

-----------------------------------------------------------------------------
(* The figures. *)

FigureSets == [kind : {"pdf", "source"}, n : Nat]

CropStates == [pc : {"idle", "look", "extract", "replace", "mark", "done", "throw"},
               job : FigureJobs, mine : BOOLEAN, found : FigureSets]

\* All figures there are; a PDF has some.
FullFigures == [kind |-> "pdf", n |-> InPdf]

\* A run that is past its look and not over.
Cropping(crops, w) == crops[w].pc \in {"extract", "replace", "mark"}

\* Runs that have not crossed are one at a time; the rows are those of the run between its
\* writes, and else those the marker tells, if there is one.
WritesAgree ==
    /\ \A v, w \in FigureSlots : Cropping(cropper, v) /\ Cropping(cropper, w) => v = w
    /\ ~torn =>
           /\ \A w \in FigureSlots : CropAt(w, "mark") => figures = cropper[w].found
           /\ (\A w \in FigureSlots : ~CropAt(w, "mark")) => marker \in {Unmarked, figures}

\* Without a lapse of the tools, all that is to be written and all that was marked is complete.
NoneMissing ==
    /\ marker \in {Unmarked, FullFigures}
    /\ \A w \in FigureSlots : cropper[w].pc \in {"replace", "mark"} =>
           cropper[w].found = FullFigures

FigInv ==
    /\ cropper \in [FigureSlots -> CropStates]
    /\ lapsed \in BOOLEAN /\ crossed \in BOOLEAN /\ torn \in BOOLEAN
    /\ ~crossed => WritesAgree
    /\ ~lapsed => NoneMissing

\* A slot leaves the writes alone.
LEMMA CropperMoves ==
    ASSUME FigInv, NEW w \in FigureSlots, NEW c \in CropStates,
           cropper' = [cropper EXCEPT ![w] = c],
           c.pc \in {"extract", "replace", "mark"} => Cropping(cropper, w),
           c.pc # "mark", CropAt(w, "mark") /\ ~torn' => marker = Unmarked,
           c.pc = "replace" /\ ~lapsed' => c.found = FullFigures,
           UNCHANGED <<figures, marker, crossed>>,
           torn' \in BOOLEAN, torn => torn', lapsed' \in BOOLEAN, lapsed => lapsed'
    PROVE  FigInv'
<1>1. /\ cropper' \in [FigureSlots -> CropStates] /\ cropper'[w] = c
      /\ \A v \in FigureSlots : v # w => cropper'[v] = cropper[v]
    BY DEF FigInv
<1>2. ASSUME ~crossed PROVE WritesAgree'
    <2>1. WritesAgree
        BY <1>2 DEF FigInv
    <2>2. \A v \in FigureSlots : Cropping(cropper', v) => Cropping(cropper, v)
        BY <1>1 DEF Cropping
    <2>3. \A u, v \in FigureSlots : Cropping(cropper', u) /\ Cropping(cropper', v) => u = v
        BY <2>1, <2>2 DEF WritesAgree
    <2>4. ASSUME ~torn'
          PROVE  /\ \A v \in FigureSlots : cropper'[v].pc = "mark" => figures' = cropper'[v].found
                 /\ (\A v \in FigureSlots : cropper'[v].pc # "mark") =>
                        marker' \in {Unmarked, figures'}
        <3>1. ~torn
            BY <2>4
        <3>2. /\ \A v \in FigureSlots : cropper[v].pc = "mark" => figures = cropper[v].found
              /\ (\A v \in FigureSlots : cropper[v].pc # "mark") => marker \in {Unmarked, figures}
            BY <2>1, <3>1 DEF WritesAgree, CropAt
        <3>3. CASE cropper[w].pc = "mark"
            BY <1>1, <2>4, <3>2, <3>3 DEF CropAt
        <3>4. CASE cropper[w].pc # "mark"
            BY <1>1, <3>2, <3>4
        <3> QED BY <3>3, <3>4
    <2> QED BY <2>3, <2>4 DEF WritesAgree, CropAt, Cropping
<1>3. ASSUME ~lapsed' PROVE NoneMissing'
    <2>1. ~lapsed
        BY <1>3
    <2>2. NoneMissing
        BY <2>1 DEF FigInv
    <2> QED BY <1>1, <1>3, <2>2 DEF NoneMissing
<1>4. crossed' \in BOOLEAN /\ (~crossed' => ~crossed)
    BY DEF FigInv
<1> QED BY <1>1, <1>2, <1>3, <1>4 DEF FigInv

\* A step that writes nothing and moves no slot.
LEMMA SlotsRest ==
    ASSUME FigInv, UNCHANGED <<figures, marker, cropper, lapsed, crossed, torn>>
    PROVE  FigInv'
<1>1. WritesAgree => WritesAgree'
    BY DEF WritesAgree, CropAt, Cropping
<1>2. NoneMissing => NoneMissing'
    BY DEF NoneMissing
<1> QED BY <1>1, <1>2 DEF FigInv

\* A run goes past its look.
LEMMA RunGoesOn ==
    ASSUME FigInv, NEW w \in FigureSlots, CropAt(w, "look"), GoesOn(w),
           UNCHANGED <<figures, marker, lapsed, torn>>
    PROVE  FigInv'
<1>1. PICK c : c = [cropper[w] EXCEPT !.pc = "extract"]
    OBVIOUS
<1>2. cropper[w] \in CropStates
    BY DEF FigInv
<1>3. c \in CropStates /\ c.pc = "extract"
    BY <1>1, <1>2 DEF CropStates
<1>4. cropper' = [cropper EXCEPT ![w] = c]
    BY <1>1 DEF GoesOn, CropGo
<1>5. /\ cropper' \in [FigureSlots -> CropStates] /\ cropper'[w] = c
      /\ \A v \in FigureSlots : v # w => cropper'[v] = cropper[v]
    BY <1>3, <1>4 DEF FigInv
<1>6. crossed' \in BOOLEAN
      /\ (~crossed' => ~crossed /\ \A v \in FigureSlots : ~Cropping(cropper, v))
    BY DEF FigInv, GoesOn, Cropping
<1>7. ASSUME ~crossed' PROVE WritesAgree'
    <2>1. WritesAgree
        BY <1>6, <1>7 DEF FigInv
    <2>2. \A u, v \in FigureSlots : Cropping(cropper', u) /\ Cropping(cropper', v) => u = v
        BY <1>5, <1>6, <1>7 DEF Cropping
    <2>3. \A v \in FigureSlots : cropper[v].pc # "mark" /\ cropper'[v].pc # "mark"
        BY <1>3, <1>5, <1>6, <1>7 DEF Cropping
    <2> QED BY <2>1, <2>2, <2>3 DEF WritesAgree, CropAt, Cropping
<1>8. ASSUME ~lapsed' PROVE NoneMissing'
    <2>1. NoneMissing
        BY <1>8 DEF FigInv
    <2> QED BY <1>3, <1>5, <2>1 DEF NoneMissing
<1> QED BY <1>5, <1>6, <1>7, <1>8 DEF FigInv

\* The rows are replaced, or the marker is set.
LEMMA RunWrites ==
    ASSUME FigInv, NEW w \in FigureSlots, Replace(w) \/ MarkComplete(w)
    PROVE  FigInv'
<1>1. PICK c : c = [cropper[w] EXCEPT !.pc = IF Replace(w) THEN "mark" ELSE "done"]
    OBVIOUS
<1>2. cropper[w] \in CropStates
    BY DEF FigInv
<1>3. /\ c \in CropStates /\ c.found = cropper[w].found
      /\ c.pc = IF Replace(w) THEN "mark" ELSE "done"
    BY <1>1, <1>2 DEF CropStates
<1>4. Replace(w) => cropper[w].pc = "replace"
    BY DEF Replace, CropAt
<1>5. ~Replace(w) => cropper[w].pc = "mark"
    BY DEF MarkComplete, CropAt
<1>6. cropper' = [cropper EXCEPT ![w] = c] /\ UNCHANGED <<lapsed, crossed, torn>>
    BY <1>1 DEF Replace, MarkComplete, CropGo
<1>7. /\ cropper' \in [FigureSlots -> CropStates] /\ cropper'[w] = c
      /\ \A v \in FigureSlots : v # w => cropper'[v] = cropper[v]
    BY <1>3, <1>6 DEF FigInv
<1>8. /\ Replace(w) => figures' = cropper[w].found /\ marker' = marker
      /\ ~Replace(w) => marker' = cropper[w].found /\ figures' = figures
    BY DEF Replace, MarkComplete
<1>9. ASSUME ~crossed PROVE WritesAgree'
    <2>1. WritesAgree
        BY <1>9 DEF FigInv
    <2>2. Cropping(cropper, w)
        BY <1>4, <1>5 DEF Cropping
    <2>3. \A v \in FigureSlots : v # w => ~Cropping(cropper, v)
        BY <2>1, <2>2 DEF WritesAgree
    <2>4. \A v \in FigureSlots : v # w => ~Cropping(cropper', v) /\ cropper'[v].pc # "mark"
        BY <1>7, <2>3 DEF Cropping
    <2>5. \A u, v \in FigureSlots : Cropping(cropper', u) /\ Cropping(cropper', v) => u = v
        BY <2>4
    <2>6. ASSUME ~torn'
          PROVE  /\ \A v \in FigureSlots : cropper'[v].pc = "mark" => figures' = cropper'[v].found
                 /\ (\A v \in FigureSlots : cropper'[v].pc # "mark") =>
                        marker' \in {Unmarked, figures'}
        <3>1. CASE Replace(w)
            BY <1>3, <1>7, <1>8, <2>4, <3>1
        <3>2. CASE ~Replace(w)
            <4>1. figures = cropper[w].found
                BY <1>5, <1>6, <2>1, <2>6, <3>2 DEF WritesAgree, CropAt
            <4>2. marker' = figures'
                BY <1>8, <3>2, <4>1
            <4>3. \A v \in FigureSlots : cropper'[v].pc # "mark"
                BY <1>3, <1>7, <2>4, <3>2
            <4> QED BY <4>2, <4>3
        <3> QED BY <3>1, <3>2
    <2> QED BY <2>5, <2>6 DEF WritesAgree, CropAt, Cropping
<1>10. ASSUME ~lapsed PROVE NoneMissing'
    <2>1. /\ marker \in {Unmarked, FullFigures} /\ cropper[w].found = FullFigures
          /\ \A v \in FigureSlots : cropper[v].pc \in {"replace", "mark"} =>
                 cropper[v].found = FullFigures
        BY <1>4, <1>5, <1>10 DEF FigInv, NoneMissing
    <2>2. \A v \in FigureSlots : cropper'[v].pc \in {"replace", "mark"} =>
              cropper'[v].found = FullFigures
        BY <1>3, <1>7, <2>1
    <2>3. marker' \in {Unmarked, FullFigures}
        BY <1>8, <2>1
    <2> QED BY <2>2, <2>3 DEF NoneMissing
<1> QED BY <1>6, <1>7, <1>9, <1>10 DEF FigInv

\* What an extraction finds.
LEMMA FoundIs ==
    ASSUME NEW pdf \in Nat, NEW source \in Nat
    PROVE  Found(pdf, source) \in FigureSets /\ (pdf = InPdf => Found(pdf, source) = FullFigures)
BY FiguresAssumption DEF Found, FigureSets, FullFigures

\* A slot goes elsewhere and keeps what it has.
LEMMA SlotIs ==
    ASSUME FigInv, NEW w \in FigureSlots,
           NEW l \in {"idle", "look", "extract", "replace", "mark", "done", "throw"}
    PROVE  /\ [cropper[w] EXCEPT !.pc = l] \in CropStates
           /\ [cropper[w] EXCEPT !.pc = l].pc = l
           /\ NoCrop \in CropStates /\ NoCrop.pc = "idle"
<1>1. cropper[w] \in CropStates
    BY DEF FigInv
<1>2. NoCrop \in CropStates /\ NoCrop.pc = "idle"
    BY FiguresAssumption DEF NoCrop, CropStates, FigureSets, NoFigures
<1> QED BY <1>1, <1>2 DEF CropStates

\* A process loses the lock of its job, and goes on.
LEMMA SlotGoesOn ==
    ASSUME FigInv, NEW w \in FigureSlots, FiguresStall(w, FALSE)
    PROVE  FigInv'
<1>1. PICK c : c = [cropper[w] EXCEPT !.mine = FALSE]
    OBVIOUS
<1>2. c \in CropStates /\ c.pc = cropper[w].pc /\ c.found = cropper[w].found
    <2>1. cropper[w] \in CropStates
        BY DEF FigInv
    <2> QED BY <1>1, <2>1 DEF CropStates
<1>3. /\ cropper' = [cropper EXCEPT ![w] = c]
      /\ UNCHANGED <<figures, marker, lapsed, crossed>> /\ torn' = torn
    <2>1. torn \in BOOLEAN
        BY DEF FigInv
    <2> QED BY <1>1, <2>1 DEF FiguresStall
<1>4. /\ cropper' \in [FigureSlots -> CropStates]
      /\ \A v \in FigureSlots : /\ cropper'[v].pc = cropper[v].pc
                                /\ cropper'[v].found = cropper[v].found
    BY <1>2, <1>3 DEF FigInv
<1>5. WritesAgree => WritesAgree'
    BY <1>3, <1>4 DEF WritesAgree, CropAt, Cropping
<1>6. NoneMissing => NoneMissing'
    BY <1>3, <1>4 DEF NoneMissing
<1> QED BY <1>3, <1>4, <1>5, <1>6 DEF FigInv

\* The invariant is inductive.
LEMMA FigInductive == FigInv /\ [FiguresNext]_figVars => FigInv'
<1> SUFFICES ASSUME FigInv, [FiguresNext]_figVars PROVE FigInv'
    OBVIOUS
<1>0. lapsed \in BOOLEAN /\ crossed \in BOOLEAN /\ torn \in BOOLEAN /\ NoFigures \in FigureSets
    BY DEF FigInv, NoFigures, FigureSets
<1>1. CASE AfterCompile
    BY <1>1, SlotsRest DEF AfterCompile
<1>2. ASSUME NEW j \in FigureJobs, NEW force \in BOOLEAN, AfterFinalize(j) \/ Backfill(j, force)
      PROVE  FigInv'
    BY <1>2, SlotsRest DEF AfterFinalize, Backfill
<1>3. ASSUME NEW w \in FigureSlots, NEW j \in FigureJobs, TakeFigures(w, j) PROVE FigInv'
    <2>1. PICK c : c = [NoCrop EXCEPT !.pc = "look", !.job = j, !.mine = TRUE]
        OBVIOUS
    <2>2. c \in CropStates /\ c.pc = "look"
        BY <1>0, <2>1 DEF NoCrop, CropStates
    <2> QED BY <1>0, <1>3, <2>1, <2>2, CropperMoves DEF TakeFigures, CropAt
<1>4. ASSUME NEW w \in FigureSlots, Look(w) \/ LookFails(w) PROVE FigInv'
    <2>1. CASE GoesOn(w)
        BY <1>4, <2>1, RunGoesOn DEF Look, LookFails
    <2>2. CASE ~GoesOn(w)
        <3>1. PICK c : c = [cropper[w] EXCEPT !.pc = "done"]
            OBVIOUS
        <3>2. c \in CropStates /\ c.pc = "done"
            BY <1>0, <3>1, SlotIs
        <3>3. /\ cropper' = [cropper EXCEPT ![w] = c] /\ CropAt(w, "look")
              /\ UNCHANGED <<figures, marker, lapsed, crossed, torn>>
            BY <1>4, <2>2, <3>1 DEF Look, LookFails, CropGo
        <3> QED BY <1>0, <3>2, <3>3, CropperMoves DEF CropAt
    <2> QED BY <2>1, <2>2
<1>5. ASSUME NEW w \in FigureSlots, NEW found \in FigureSets, CropAt(w, "extract"),
             cropper' = [cropper EXCEPT ![w].pc = "replace", ![w].found = found],
             lapsed' \in BOOLEAN, lapsed => lapsed', ~lapsed' => found = FullFigures,
             UNCHANGED <<figures, marker, crossed, torn>>
      PROVE  FigInv'
    <2>1. PICK c : c = [cropper[w] EXCEPT !.pc = "replace", !.found = found]
        OBVIOUS
    <2>2. c \in CropStates /\ c.pc = "replace" /\ c.found = found
        <3>1. cropper[w] \in CropStates
            BY DEF FigInv
        <3> QED BY <2>1, <3>1 DEF CropStates
    <2>3. cropper' = [cropper EXCEPT ![w] = c]
        BY <1>5, <2>1
    <2>4. Cropping(cropper, w) /\ ~CropAt(w, "mark")
        BY <1>5 DEF CropAt, Cropping
    <2> QED BY <1>0, <1>5, <2>2, <2>3, <2>4, CropperMoves
<1>6. ASSUME NEW w \in FigureSlots, Extract(w) PROVE FigInv'
    <2>1. Found(InPdf, InSource) \in FigureSets /\ Found(InPdf, InSource) = FullFigures
        BY FoundIs, FiguresAssumption
    <2> QED BY <1>0, <1>5, <1>6, <2>1 DEF Extract
<1>7. ASSUME NEW w \in FigureSlots, NEW pdf \in 0..InPdf, NEW source \in 0..InSource,
             ExtractLess(w, pdf, source)
      PROVE  FigInv'
    <2>1. Found(pdf, source) \in FigureSets
        BY FoundIs, FiguresAssumption
    <2> QED BY <1>0, <1>5, <1>7, <2>1 DEF ExtractLess
<1>8. ASSUME NEW w \in FigureSlots, Replace(w) \/ MarkComplete(w) PROVE FigInv'
    BY <1>8, RunWrites
<1>9. ASSUME NEW w \in FigureSlots, FiguresFail(w) PROVE FigInv'
    <2>1. PICK c : c = [cropper[w] EXCEPT !.pc = "throw"]
        OBVIOUS
    <2>2. c \in CropStates /\ c.pc = "throw"
        BY <1>0, <2>1, SlotIs
    <2>3. /\ cropper' = [cropper EXCEPT ![w] = c] /\ UNCHANGED <<figures, marker, lapsed, crossed>>
          /\ torn' = (torn \/ (CropAt(w, "mark") /\ marker # Unmarked))
        BY <1>9, <2>1 DEF FiguresFail, CropGo
    <2> QED BY <1>0, <2>2, <2>3, CropperMoves
<1>10. ASSUME NEW w \in FigureSlots, FiguresDone(w) \/ FiguresThrow(w) PROVE FigInv'
    <2>1. NoCrop \in CropStates /\ NoCrop.pc = "idle"
        BY <1>0, SlotIs
    <2>2. /\ cropper' = [cropper EXCEPT ![w] = NoCrop] /\ ~CropAt(w, "mark")
          /\ UNCHANGED <<figures, marker, lapsed, crossed, torn>>
        BY <1>10 DEF FiguresDone, FiguresThrow, Ends, CropAt
    <2> QED BY <1>0, <2>1, <2>2, CropperMoves
<1>11. ASSUME NEW w \in FigureSlots, FiguresStall(w, TRUE) PROVE FigInv'
    <2>1. NoCrop \in CropStates /\ NoCrop.pc = "idle"
        BY <1>0, SlotIs
    <2>2. /\ cropper' = [cropper EXCEPT ![w] = NoCrop]
          /\ UNCHANGED <<figures, marker, lapsed, crossed>>
          /\ torn' = (torn \/ (CropAt(w, "mark") /\ marker # Unmarked))
        BY <1>11 DEF FiguresStall
    <2> QED BY <1>0, <2>1, <2>2, CropperMoves
<1>12. ASSUME NEW w \in FigureSlots, NEW dead \in BOOLEAN, FiguresStall(w, dead) PROVE FigInv'
    BY <1>11, <1>12, SlotGoesOn
<1>13. CASE UNCHANGED figVars
    BY <1>13, SlotsRest DEF figVars
<1> QED BY <1>1, <1>2, <1>3, <1>4, <1>6, <1>7, <1>8, <1>9, <1>10, <1>12, <1>13 DEF FiguresNext

\* The marker of a version tells the rows that are there, unless a run over an older extraction
\* has ended between its two writes or two runs have crossed; and it never tells of fewer
\* figures than there are unless the tools have lapsed, for any number of jobs, slots, figures
\* and failures (pdf-figures-worker.ts:166).
THEOREM MarkersTell == FiguresSpec => []MarkerTellsFigures
<1>1. FiguresInit => FigInv
    <2> SUFFICES ASSUME FiguresInit PROVE FigInv
        OBVIOUS
    <2>1. NoCrop \in CropStates /\ NoCrop.pc = "idle"
        BY FiguresAssumption DEF NoCrop, CropStates, FigureSets, NoFigures
    <2>2. cropper \in [FigureSlots -> CropStates] /\ \A w \in FigureSlots : cropper[w].pc = "idle"
        BY <2>1 DEF FiguresInit
    <2>3. marker = Unmarked /\ lapsed \in BOOLEAN /\ crossed \in BOOLEAN /\ torn \in BOOLEAN
        BY DEF FiguresInit
    <2> QED BY <2>2, <2>3 DEF FigInv, WritesAgree, NoneMissing, CropAt, Cropping
<1>2. FigInv => MarkerTellsFigures
    BY DEF FigInv, WritesAgree, NoneMissing, MarkerTellsFigures, CropAt, FullFigures
<1> QED BY <1>1, <1>2, FigInductive, PTL DEF FiguresSpec

-----------------------------------------------------------------------------
(* Where an account signs in. *)

CallerSteps ==
    {"idle", "find", "switch", "upsert", "keep", "load", "fold", "insert", "delete",
     "answer", "refused"}

CallerStates ==
    [kind : {"none", "signin", "link", "unlink"}, step : CallerSteps,
     account : Accounts \cup {NoAccount}, user : Users \cup {Nobody}, did : DIDs, row : Rows]

\* The row has a column of the provider of the account.
HasColumn(u, a) == \E b \in users[u].own : ProviderOf[b] = ProviderOf[a]

SettledRow(u) == u \in Users /\ users[u].did # NoDid

\* A DID and an account lead to one row, and a row with a column has a DID.
RowsApart ==
    /\ users \in [Users -> Rows]
    /\ \A u \in Users : users[u].own # {} => users[u].did # NoDid
    /\ \A u, v \in Users : users[u].did = users[v].did /\ users[u].did # NoDid => u = v
    /\ \A u, v \in Users : \A a \in users[u].own : a \in users[v].own => u = v

\* What a request knows of the row it is about to write or to sign in to.
CallerFits(v) ==
    /\ v.kind \in {"signin", "link"} => v.account \in Accounts /\ v.did # NoDid
    /\ v.kind = "signin" /\ v.step = "switch" => v.user \in Users
    /\ v.kind = "signin" /\ v.step = "keep" => SettledRow(v.user) /\ HasColumn(v.user, v.account)
    /\ v.kind = "link" => SettledRow(v.user)
    /\ v.kind = "link" /\ v.step \in {"switch", "fold", "insert"} => v.row.did # NoDid

\* An account has signed in to users that have a column of its provider.
HomesInv ==
    /\ RowsApart
    /\ visit \in [Visits -> CallerStates]
    /\ \A r \in Visits : CallerFits(visit[r])
    /\ \A u \in signedIn : SettledRow(u)
    /\ homes \in [Accounts -> SUBSET Users]
    /\ \A a \in Accounts : \A u \in homes[a] : HasColumn(u, a)

\* No row loses its DID, or its last column of a provider.
RowsGrow ==
    \A u \in Users :
        /\ users[u].did # NoDid => users'[u].did # NoDid
        /\ \A a \in Accounts : HasColumn(u, a) => HasColumn(u, a)'

\* The DIDs an account stands for are DIDs, and not the one of an empty row.
LEMMA DidsOfAccounts ==
    ASSUME NEW a \in Accounts
    PROVE  /\ CanonicalDid(a) \in DIDs /\ CanonicalDid(a) # NoDid
           /\ ShadowDid(a) \in DIDs /\ ShadowDid(a) # NoDid
    BY IdentityAssumption DEF CanonicalDid, ShadowDid, DIDs, NoDid, Kinds

\* A row that is written keeps rows apart when no other has its DID or its accounts, and
\* every provider it had keeps a column.
LEMMA WriteKeepsApart ==
    ASSUME RowsApart, NEW u0 \in Users, NEW entry \in Rows,
           users' = [users EXCEPT ![u0] = entry], entry.did # NoDid,
           \A v \in Users \ {u0} : users[v].did # entry.did /\ users[v].own \cap entry.own = {},
           \A b \in users[u0].own : \E c \in entry.own : ProviderOf[c] = ProviderOf[b]
    PROVE  RowsApart' /\ RowsGrow
<1>1. users' \in [Users -> Rows]
    BY DEF RowsApart
<1>2. \A u \in Users : users'[u] = IF u = u0 THEN entry ELSE users[u]
    BY DEF RowsApart
<1>3. \A u \in Users : users'[u].own # {} => users'[u].did # NoDid
    BY <1>2 DEF RowsApart
<1>4. \A u, v \in Users : users'[u].did = users'[v].did /\ users'[u].did # NoDid => u = v
    BY <1>2 DEF RowsApart
<1>5. \A u, v \in Users : \A a \in users'[u].own : a \in users'[v].own => u = v
    BY <1>2 DEF RowsApart
<1>6. RowsGrow
    BY <1>2 DEF RowsGrow, HasColumn
<1> QED BY <1>1, <1>3, <1>4, <1>5, <1>6 DEF RowsApart

\* The row an upsert lands on has the DID, or is empty while no row has it.
LEMMA RowForIsThere ==
    ASSUME RowsApart, NEW d, \E u \in Users : users[u].did = d \/ ~Exists(u)
    PROVE  /\ RowFor(d) \in Users
           /\ \/ users[RowFor(d)].did = d
              \/ users[RowFor(d)] = NoRow /\ \A u \in Users : users[u].did # d
<1>1. CASE \E u \in Users : users[u].did = d
    <2> DEFINE holder == CHOOSE u \in Users : users[u].did = d
    <2>1. holder \in Users /\ users[holder].did = d
        BY <1>1
    <2>2. RowFor(d) = holder
        BY <1>1 DEF RowFor
    <2> QED BY <2>1, <2>2
<1>2. CASE ~ \E u \in Users : users[u].did = d
    <2> DEFINE holder == CHOOSE u \in Users : ~Exists(u)
    <2>1. holder \in Users /\ ~Exists(holder)
        BY <1>2
    <2>2. RowFor(d) = holder
        BY <1>2 DEF RowFor
    <2> QED BY <1>2, <2>1, <2>2 DEF Exists
<1> QED BY <1>1, <1>2

\* An upsert by DID of an account that no other row has.
LEMMA UpsertKeepsApart ==
    ASSUME RowsApart, NEW d \in DIDs, d # NoDid, NEW as \in SUBSET Accounts,
           UpsertByDid(d, as), ~ColumnTaken(as, d)
    PROVE  /\ RowsApart' /\ RowsGrow /\ RowFor(d) \in Users
           /\ users'[RowFor(d)].did = d /\ as \subseteq users'[RowFor(d)].own
<1>1. PICK u0 \in Users : /\ u0 = RowFor(d)
                          /\ \/ users[u0].did = d
                             \/ users[u0] = NoRow /\ \A u \in Users : users[u].did # d
    BY RowForIsThere DEF UpsertByDid
<1>2. users[u0] \in Rows
    BY DEF RowsApart
<1>3. PICK entry \in Rows :
          /\ entry.did = d
          /\ entry.own = {b \in users[u0].own :
                              \A a \in as : ProviderOf[b] # ProviderOf[a]} \cup as
          /\ users' = [users EXCEPT ![u0] = entry]
    <2>1. users' = [users EXCEPT ![u0] = WithColumns([users[u0] EXCEPT !.did = d], as)]
        BY <1>1 DEF UpsertByDid
    <2>2. WithColumns([users[u0] EXCEPT !.did = d], as) =
              [did |-> d, legacy |-> users[u0].legacy,
               own |-> {b \in users[u0].own :
                            \A a \in as : ProviderOf[b] # ProviderOf[a]} \cup as]
        <3>1. PICK w \in Rows : w = users[u0]
            BY <1>2
        <3>2. w = [did |-> w.did, legacy |-> w.legacy, own |-> w.own]
            BY DEF Rows
        <3>3. [w EXCEPT !.did = d] = [did |-> d, legacy |-> w.legacy, own |-> w.own]
            BY <3>2
        <3> DEFINE kept(own) == {b \in own : \A a \in as : ProviderOf[b] # ProviderOf[a]} \cup as
        <3>4. PICK x : x = [did |-> d, legacy |-> w.legacy, own |-> w.own]
            OBVIOUS
        <3>5. WithColumns(x, as) = [x EXCEPT !.own = kept(x.own)]
            BY DEF WithColumns
        <3>6. PICK columns : columns = kept(w.own)
            OBVIOUS
        <3>7. [x EXCEPT !.own = columns] = [did |-> d, legacy |-> w.legacy, own |-> columns]
            BY <3>4
        <3>8. x.own = w.own
            BY <3>4
        <3> QED BY <3>1, <3>3, <3>4, <3>5, <3>6, <3>7, <3>8
    <2>3. users[u0].legacy \subseteq DIDs /\ users[u0].own \subseteq Accounts
        BY <1>2 DEF Rows
    <2>4. [did |-> d, legacy |-> users[u0].legacy,
           own |-> {b \in users[u0].own :
                        \A a \in as : ProviderOf[b] # ProviderOf[a]} \cup as] \in Rows
        BY <2>3 DEF Rows
    <2> QED BY <2>1, <2>2, <2>4
<1>4. \A v \in Users \ {u0} : users[v].did # d
    BY <1>1 DEF RowsApart
<1>5. \A v \in Users \ {u0} : users[v].own \cap entry.own = {}
    <2> SUFFICES ASSUME NEW v \in Users \ {u0}, NEW a \in users[v].own, a \in entry.own
                 PROVE  FALSE
        OBVIOUS
    <2>1. a \notin as
        BY <1>4 DEF ColumnTaken
    <2>2. a \in users[u0].own
        BY <1>3, <2>1
    <2> QED BY <2>2 DEF RowsApart
<1>6. \A b \in users[u0].own : \E c \in entry.own : ProviderOf[c] = ProviderOf[b]
    BY <1>3
<1>7. RowsApart' /\ RowsGrow
    <2>1. entry.did # NoDid
        BY <1>3
    <2>2. \A v \in Users \ {u0} : users[v].did # entry.did /\ users[v].own \cap entry.own = {}
        BY <1>3, <1>4, <1>5
    <2> QED BY <1>3, <1>6, <2>1, <2>2, WriteKeepsApart
<1>8. users'[u0] = entry
    BY <1>3 DEF RowsApart
<1> QED BY <1>1, <1>3, <1>7, <1>8

\* A new canonical DID that no other row has.
LEMMA RenameKeepsApart ==
    ASSUME RowsApart, NEW u0 \in Users, NEW d \in DIDs, d # NoDid, NEW old \in DIDs,
           ~DidTaken(d, u0), users' = [users EXCEPT ![u0] = Renamed(@, d, old)]
    PROVE  RowsApart' /\ RowsGrow
<1>1. users[u0] \in Rows
    BY DEF RowsApart
<1>2. Renamed(users[u0], d, old) =
          [did |-> d, legacy |-> users[u0].legacy \cup {old}, own |-> users[u0].own]
    <2>1. PICK w \in Rows : w = users[u0]
        BY <1>1
    <2>2. w = [did |-> w.did, legacy |-> w.legacy, own |-> w.own]
        BY DEF Rows
    <2>3. Renamed(w, d, old) = [w EXCEPT !.did = d, !.legacy = w.legacy \cup {old}]
        BY DEF Renamed, Rows
    <2>4. Renamed(w, d, old) = [did |-> d, legacy |-> w.legacy \cup {old}, own |-> w.own]
        BY <2>2, <2>3
    <2> QED BY <2>1, <2>4
<1>3. PICK entry \in Rows : /\ entry.did = d /\ entry.own = users[u0].own
                            /\ users' = [users EXCEPT ![u0] = entry]
    <2>1. users' = [users EXCEPT ![u0] = Renamed(users[u0], d, old)]
        OBVIOUS
    <2>2. users[u0].legacy \subseteq DIDs /\ users[u0].own \subseteq Accounts
        BY <1>1 DEF Rows
    <2>3. [did |-> d, legacy |-> users[u0].legacy \cup {old}, own |-> users[u0].own] \in Rows
        BY <2>2 DEF Rows
    <2> QED BY <1>2, <2>1, <2>3
<1>4. \A v \in Users \ {u0} : users[v].did # d /\ users[v].own \cap entry.own = {}
    BY <1>3 DEF DidTaken, RowsApart
<1> QED BY <1>3, <1>4, WriteKeepsApart

\* What was known of a row stays true as rows grow.
LEMMA FitsStays ==
    ASSUME RowsGrow, NEW v \in CallerStates, CallerFits(v)
    PROVE  CallerFits(v)'
    BY DEF RowsGrow, CallerFits, SettledRow

\* A request that goes on, or gives up, leaves the other requests and the homes alone.
LEMMA CallerKeepsHomes ==
    ASSUME HomesInv, NEW r \in Visits, NEW next \in CallerStates,
           visit' = [visit EXCEPT ![r] = next], CallerFits(next)',
           RowsApart', RowsGrow, signedIn' = signedIn, homes' = homes
    PROVE  HomesInv'
<1>1. visit' \in [Visits -> CallerStates]
    BY DEF HomesInv
<1>2. ASSUME NEW q \in Visits PROVE CallerFits(visit[q])'
    <2>1. CASE q = r
        <3>1. visit'[q] = next
            BY <2>1 DEF HomesInv
        <3> QED BY <3>1 DEF CallerFits, SettledRow, HasColumn
    <2>2. CASE q # r
        <3>1. PICK v \in CallerStates : v = visit[q] /\ visit'[q] = v
            BY <2>2 DEF HomesInv
        <3>2. CallerFits(v)
            BY <3>1 DEF HomesInv
        <3>3. CallerFits(v)'
            BY <3>2, FitsStays
        <3> QED BY <3>1, <3>3 DEF CallerFits, SettledRow, HasColumn
    <2> QED BY <2>1, <2>2
<1>3. (\A u \in signedIn : SettledRow(u))'
    BY DEF HomesInv, RowsGrow, SettledRow
<1>4. homes' \in [Accounts -> SUBSET Users]
    BY DEF HomesInv
<1>5. (\A a \in Accounts : \A u \in homes[a] : HasColumn(u, a))'
    <2> SUFFICES ASSUME NEW a \in Accounts, NEW u \in homes[a] PROVE HasColumn(u, a)'
        OBVIOUS
    <2>1. u \in Users /\ HasColumn(u, a)
        BY DEF HomesInv
    <2> QED BY <2>1 DEF RowsGrow
<1> QED BY <1>1, <1>2, <1>3, <1>4, <1>5 DEF HomesInv

\* Rows nobody writes to.
LEMMA RowsUnwritten ==
    ASSUME RowsApart, users' = users
    PROVE  RowsApart' /\ RowsGrow
    BY DEF RowsApart, RowsGrow, HasColumn

\* A request with no row in hand.
LEMMA IdleFits == Idle \in CallerStates /\ CallerFits(Idle)'
    BY DEF Idle, CallerStates, CallerSteps, CallerFits, DIDs, NoDid, NoRow, Rows

\* A visitor comes back from the provider.
LEMMA SignInKeepsHomes ==
    ASSUME HomesInv, NEW r \in Visits, NEW a \in Accounts, SignIn(r, a)
    PROVE  HomesInv'
<1>1. PICK d \in DIDs : /\ d # NoDid
                        /\ visit' = [visit EXCEPT ![r] = [Idle EXCEPT !.kind = "signin",
                               !.step = "find", !.account = a, !.did = d]]
    BY DidsOfAccounts DEF SignIn, Start
<1>2. PICK next : next = [Idle EXCEPT !.kind = "signin", !.step = "find", !.account = a, !.did = d]
    OBVIOUS
<1>3. next \in CallerStates /\ CallerFits(next)'
    <2>1. next = [kind |-> "signin", step |-> "find", account |-> a, user |-> Nobody,
                  did |-> d, row |-> NoRow]
        BY <1>2 DEF Idle
    <2>2. NoRow \in Rows
        BY DEF NoRow, Rows, DIDs, NoDid
    <2> QED BY <1>1, <2>1, <2>2 DEF CallerStates, CallerSteps, CallerFits
<1>4. users' = users /\ signedIn' = signedIn /\ homes' = homes
    BY DEF SignIn, UNCHANGED_Store
<1>5. RowsApart' /\ RowsGrow
    BY <1>4, RowsUnwritten DEF HomesInv
<1> QED BY <1>1, <1>2, <1>3, <1>4, <1>5, CallerKeepsHomes

\* The row known by the column of the account has a DID to keep, or one to change.
LEMMA FindKeepsHomes ==
    ASSUME HomesInv, NEW r \in Visits, FindExisting(r)
    PROVE  HomesInv'
<1>1. PICK x \in CallerStates : x = visit[r] /\ x.kind = "signin" /\ x.step = "find"
                                 /\ x.account \in Accounts /\ x.did # NoDid
    BY DEF FindExisting, At, HomesInv, CallerFits
<1>2. PICK next \in CallerStates : /\ visit' = [visit EXCEPT ![r] = next]
                                    /\ next.kind = "signin" /\ next.account = x.account
                                    /\ next.did # NoDid
                                    /\ \/ next.step = "upsert"
                                       \/ next.step = "switch" /\ next.user \in Users
    <2> DEFINE known == {u \in Users : x.account \in users[u].own
                                       /\ ProviderOf[x.account] # "bluesky"}
               who == CHOOSE u \in known : TRUE
    <2>1. \/ visit' = [visit EXCEPT ![r] = [x EXCEPT !.step = "upsert"]]
          \/ /\ known # {}
             /\ \/ visit' = [visit EXCEPT ![r] =
                       [x EXCEPT !.step = "upsert", !.did = users[who].did]]
                \/ visit' = [visit EXCEPT ![r] =
                       [x EXCEPT !.step = "switch", !.user = who, !.row = users[who]]]
        BY <1>1 DEF FindExisting
    <2>2. CASE visit' = [visit EXCEPT ![r] = [x EXCEPT !.step = "upsert"]]
        <3>1. PICK next : next = [x EXCEPT !.step = "upsert"]
            OBVIOUS
        <3>2. /\ next \in CallerStates /\ next.step = "upsert" /\ next.kind = x.kind
              /\ next.account = x.account /\ next.did = x.did
            BY <3>1 DEF CallerStates, CallerSteps
        <3> QED BY <1>1, <2>2, <3>1, <3>2
    <2>3. CASE known # {}
        <3>1. PICK u \in known : u = who
            BY <2>3
        <3>2. /\ u \in Users /\ users[u] \in Rows /\ users[u].did \in DIDs
              /\ users[u].did # NoDid
            BY <3>1 DEF HomesInv, RowsApart, Rows
        <3>3. CASE visit' = [visit EXCEPT ![r] = [x EXCEPT !.step = "upsert",
                                                          !.did = users[who].did]]
            <4>1. PICK next : next = [x EXCEPT !.step = "upsert", !.did = users[u].did]
                OBVIOUS
            <4>2. /\ next \in CallerStates /\ next.step = "upsert" /\ next.kind = x.kind
                  /\ next.account = x.account /\ next.did = users[u].did
                BY <3>2, <4>1 DEF CallerStates, CallerSteps
            <4> QED BY <1>1, <3>1, <3>2, <3>3, <4>1, <4>2
        <3>4. CASE visit' = [visit EXCEPT ![r] = [x EXCEPT !.step = "switch",
                                                   !.user = who, !.row = users[who]]]
            <4>1. PICK next : next = [x EXCEPT !.step = "switch", !.user = u, !.row = users[u]]
                OBVIOUS
            <4>2. /\ next \in CallerStates /\ next.step = "switch" /\ next.kind = x.kind
                  /\ next.account = x.account /\ next.did = x.did /\ next.user = u
                BY <3>2, <4>1 DEF CallerStates, CallerSteps
            <4> QED BY <1>1, <3>1, <3>2, <3>4, <4>1, <4>2
        <3> QED BY <2>1, <2>2, <3>3, <3>4
    <2> QED BY <2>1, <2>2, <2>3
<1>3. users' = users /\ signedIn' = signedIn /\ homes' = homes
    BY DEF FindExisting, UNCHANGED_Store
<1>4. RowsApart' /\ RowsGrow
    BY <1>3, RowsUnwritten DEF HomesInv
<1>5. CallerFits(next)'
    BY <1>1, <1>2 DEF CallerFits
<1> QED BY <1>2, <1>3, <1>4, <1>5, CallerKeepsHomes

\* A request that takes its next step with what it has in hand.
LEMMA CallerGoesOn ==
    ASSUME NEW x \in CallerStates, CallerFits(x), NEW step \in CallerSteps,
           x.kind = "signin" => step \notin {"switch", "keep"},
           x.kind = "link" /\ step \in {"switch", "fold", "insert"} => x.row.did # NoDid
    PROVE  /\ [x EXCEPT !.step = step] \in CallerStates
           /\ CallerFits([x EXCEPT !.step = step])
<1>1. PICK next : next = [x EXCEPT !.step = step]
    OBVIOUS
<1>2. /\ next \in CallerStates /\ next.kind = x.kind /\ next.step = step
      /\ next.account = x.account /\ next.user = x.user /\ next.did = x.did
      /\ next.row = x.row
    BY <1>1 DEF CallerStates
<1>3. CallerFits(next)
    BY <1>2 DEF CallerFits, HasColumn
<1> QED BY <1>1, <1>2, <1>3

\* The canonical DID is changed, unless another row has it.
LEMMA SwitchOnSignInKeepsHomes ==
    ASSUME HomesInv, NEW r \in Visits, SwitchOnSignIn(r)
    PROVE  HomesInv'
<1>1. PICK x \in CallerStates : /\ x = visit[r] /\ x.kind = "signin" /\ x.step = "switch"
                                 /\ CallerFits(x) /\ x.user \in Users /\ x.did # NoDid
                                 /\ x.did \in DIDs /\ x.row.did \in DIDs
    <2>1. visit[r] \in CallerStates /\ CallerFits(visit[r])
        BY DEF HomesInv
    <2>2. visit[r].kind = "signin" /\ visit[r].step = "switch"
        BY DEF SwitchOnSignIn, At
    <2> QED BY <2>1, <2>2 DEF CallerFits, CallerStates, Rows
<1>2. signedIn' = signedIn /\ homes' = homes /\ RowsApart
    BY DEF SwitchOnSignIn, UNCHANGED_Store, HomesInv
<1>3. \/ /\ visit' = [visit EXCEPT ![r] = [x EXCEPT !.step = "refused"]]
         /\ users' = users
      \/ /\ visit' = [visit EXCEPT ![r] = [x EXCEPT !.step = "upsert"]]
         /\ ~DidTaken(x.did, x.user)
         /\ users' = [users EXCEPT ![x.user] = Renamed(@, x.did, x.row.did)]
    BY <1>1 DEF SwitchOnSignIn, Go
<1>4. RowsApart' /\ RowsGrow
    BY <1>1, <1>2, <1>3, RowsUnwritten, RenameKeepsApart
<1>5. PICK step \in {"refused", "upsert"} : visit' = [visit EXCEPT ![r] = [x EXCEPT !.step = step]]
    BY <1>3
<1>6. PICK next \in CallerStates : next = [x EXCEPT !.step = step] /\ CallerFits(next)
    BY <1>1, CallerGoesOn DEF CallerSteps
<1>7. CallerFits(next)'
    BY <1>4, <1>6, FitsStays
<1> QED BY <1>2, <1>4, <1>5, <1>6, <1>7, CallerKeepsHomes

\* The row is written, or found by the ORCID it has already.
LEMMA UpsertUserKeepsHomes ==
    ASSUME HomesInv, NEW r \in Visits, UpsertUser(r)
    PROVE  HomesInv'
<1>1. PICK x \in CallerStates : /\ x = visit[r] /\ x.kind = "signin" /\ x.step = "upsert"
                                 /\ CallerFits(x) /\ x.account \in Accounts
                                 /\ x.did \in DIDs /\ x.did # NoDid
    <2>1. visit[r] \in CallerStates /\ CallerFits(visit[r])
        BY DEF HomesInv
    <2>2. visit[r].kind = "signin" /\ visit[r].step = "upsert"
        BY DEF UpsertUser, At
    <2> QED BY <2>1, <2>2 DEF CallerFits, CallerStates
<1>2. signedIn' = signedIn /\ homes' = homes /\ RowsApart
    BY DEF UpsertUser, UNCHANGED_Store, HomesInv
<1>3. ASSUME NEW u \in Users, users'[u].did # NoDid, x.account \in users'[u].own,
             RowsApart', RowsGrow,
             visit' = [visit EXCEPT ![r] = [x EXCEPT !.step = "keep", !.user = u]]
      PROVE  HomesInv'
    <2>1. PICK next : next = [x EXCEPT !.step = "keep", !.user = u]
        OBVIOUS
    <2>2. /\ next \in CallerStates /\ next.kind = "signin" /\ next.account = x.account
          /\ next.did = x.did /\ next.user = u
        BY <1>1, <2>1 DEF CallerStates, CallerSteps
    <2>3. CallerFits(next)'
        BY <1>1, <1>3, <2>2 DEF CallerFits, SettledRow, HasColumn
    <2> QED BY <1>2, <1>3, <2>1, <2>2, <2>3, CallerKeepsHomes
<1>4. CASE ~ColumnTaken({x.account}, x.did)
    <2>1. /\ UpsertByDid(x.did, {x.account})
          /\ visit' = [visit EXCEPT ![r].step = "keep", ![r].user = RowFor(x.did)]
        BY <1>1, <1>4 DEF UpsertUser
    <2>2. /\ RowsApart' /\ RowsGrow /\ RowFor(x.did) \in Users
          /\ users'[RowFor(x.did)].did = x.did /\ {x.account} \subseteq users'[RowFor(x.did)].own
        BY <1>1, <1>2, <1>4, <2>1, UpsertKeepsApart
    <2>3. PICK u \in Users : u = RowFor(x.did)
        BY <2>2
    <2>4. visit' = [visit EXCEPT ![r] = [x EXCEPT !.step = "keep", !.user = u]]
        BY <1>1, <2>1, <2>3
    <2>5. users'[u].did # NoDid /\ x.account \in users'[u].own
        BY <1>1, <2>2, <2>3
    <2> QED BY <1>3, <2>2, <2>4, <2>5
<1>5. CASE ColumnTaken({x.account}, x.did)
    <2> DEFINE who == CHOOSE u \in Users : x.account \in users[u].own
    <2>1. users' = users
        BY <1>1, <1>5 DEF UpsertUser
    <2>2. RowsApart' /\ RowsGrow
        BY <1>2, <2>1, RowsUnwritten
    <2>3. \/ visit' = [visit EXCEPT ![r] = [x EXCEPT !.step = "keep", !.user = who]]
          \/ visit' = [visit EXCEPT ![r] = [x EXCEPT !.step = "refused"]]
        BY <1>1, <1>5 DEF UpsertUser
    <2>4. CASE visit' = [visit EXCEPT ![r] = [x EXCEPT !.step = "keep", !.user = who]]
        <3>1. \E u \in Users : x.account \in users[u].own
            BY <1>5 DEF ColumnTaken
        <3>2. PICK u \in Users : u = who /\ x.account \in users[u].own
            BY <3>1
        <3>3. users'[u].did # NoDid /\ x.account \in users'[u].own
            BY <1>2, <2>1, <3>2 DEF RowsApart
        <3> QED BY <1>3, <2>2, <2>4, <3>2, <3>3
    <2>5. CASE visit' = [visit EXCEPT ![r] = [x EXCEPT !.step = "refused"]]
        <3>1. PICK next \in CallerStates : /\ next = [x EXCEPT !.step = "refused"]
                                            /\ CallerFits(next)
            BY <1>1, CallerGoesOn DEF CallerSteps
        <3>2. CallerFits(next)'
            BY <2>2, <3>1, FitsStays
        <3> QED BY <1>2, <2>2, <2>5, <3>1, <3>2, CallerKeepsHomes
    <2> QED BY <2>3, <2>4, <2>5
<1> QED BY <1>4, <1>5

\* The session: the visitor is at home with a user who has a column of the provider.
LEMMA EnsureLinkKeepsHomes ==
    ASSUME HomesInv, NEW r \in Visits, EnsureLink(r)
    PROVE  HomesInv'
<1>1. PICK u \in Users, a \in Accounts :
          /\ u = visit[r].user /\ a = visit[r].account /\ SettledRow(u) /\ HasColumn(u, a)
    <2>1. CallerFits(visit[r]) /\ visit[r].kind = "signin" /\ visit[r].step = "keep"
        BY DEF EnsureLink, At, HomesInv
    <2> QED BY <2>1 DEF CallerFits, SettledRow
<1>2. /\ users' = users /\ signedIn' = signedIn \cup {u}
      /\ homes' = [homes EXCEPT ![a] = @ \cup {u}]
      /\ visit' = [visit EXCEPT ![r] = Idle]
    BY <1>1 DEF EnsureLink
<1>3. RowsApart' /\ RowsGrow
    BY <1>2, RowsUnwritten DEF HomesInv
<1>4. visit' \in [Visits -> CallerStates]
    BY <1>2, IdleFits DEF HomesInv
<1>5. ASSUME NEW q \in Visits PROVE CallerFits(visit[q])'
    <2>1. CASE q = r
        BY <1>2, <2>1, IdleFits DEF HomesInv, CallerFits, SettledRow, HasColumn
    <2>2. CASE q # r
        <3>1. PICK v \in CallerStates : v = visit[q] /\ visit'[q] = v /\ CallerFits(v)
            BY <1>2, <2>2 DEF HomesInv
        <3>2. CallerFits(v)'
            BY <1>3, <3>1, FitsStays
        <3> QED BY <3>1, <3>2 DEF CallerFits, SettledRow, HasColumn
    <2> QED BY <2>1, <2>2
<1>6. (\A w \in signedIn : SettledRow(w))'
    BY <1>1, <1>2 DEF HomesInv, SettledRow
<1>7. homes' \in [Accounts -> SUBSET Users]
    BY <1>2 DEF HomesInv
<1>8. (\A b \in Accounts : \A w \in homes[b] : HasColumn(w, b))'
    BY <1>1, <1>2 DEF HomesInv, HasColumn
<1> QED BY <1>3, <1>4, <1>5, <1>6, <1>7, <1>8 DEF HomesInv

\* A user of a session asks for a link.
LEMMA BeginLinkKeepsHomes ==
    ASSUME HomesInv, NEW r \in Visits, NEW u \in Users, NEW a \in Accounts, BeginLink(r, u, a)
    PROVE  HomesInv'
<1>1. PICK step \in {"load", "answer"} :
          visit' = [visit EXCEPT ![r] = [Idle EXCEPT !.kind = "link", !.account = a, !.user = u,
                                                     !.did = CanonicalDid(a), !.step = step]]
    BY DEF BeginLink, Start
<1>2. PICK next : next = [Idle EXCEPT !.kind = "link", !.account = a, !.user = u,
                                      !.did = CanonicalDid(a), !.step = step]
    OBVIOUS
<1>3. next = [kind |-> "link", step |-> step, account |-> a, user |-> u,
              did |-> CanonicalDid(a), row |-> NoRow]
    BY <1>2 DEF Idle
<1>4. NoRow \in Rows /\ SettledRow(u)
    BY DEF NoRow, Rows, DIDs, NoDid, BeginLink, HomesInv
<1>5. next \in CallerStates /\ CallerFits(next)
    BY <1>3, <1>4, DidsOfAccounts DEF CallerStates, CallerSteps, CallerFits
<1>6. users' = users /\ signedIn' = signedIn /\ homes' = homes
    BY DEF BeginLink, UNCHANGED_Store
<1>7. RowsApart' /\ RowsGrow
    BY <1>6, RowsUnwritten DEF HomesInv
<1>8. CallerFits(next)'
    BY <1>5, <1>7, FitsStays
<1> QED BY <1>1, <1>2, <1>5, <1>6, <1>7, <1>8, CallerKeepsHomes

\* The row of a user who is signed in has a DID.
LEMMA LoadUserKeepsHomes ==
    ASSUME HomesInv, NEW r \in Visits, LoadUser(r)
    PROVE  HomesInv'
<1>1. PICK x \in CallerStates : /\ x = visit[r] /\ x.kind = "link" /\ x.step = "load"
                                 /\ CallerFits(x) /\ SettledRow(x.user)
    <2>1. visit[r] \in CallerStates /\ CallerFits(visit[r])
        BY DEF HomesInv
    <2>2. visit[r].kind = "link" /\ visit[r].step = "load"
        BY DEF LoadUser, At
    <2> QED BY <2>1, <2>2 DEF CallerFits
<1>2. users' = users /\ signedIn' = signedIn /\ homes' = homes
    BY DEF LoadUser, UNCHANGED_Store
<1>3. RowsApart' /\ RowsGrow
    BY <1>2, RowsUnwritten DEF HomesInv
<1>4. \/ visit' = [visit EXCEPT ![r] = [x EXCEPT !.step = "answer"]]
      \/ visit' = [visit EXCEPT ![r] = [x EXCEPT !.step = "switch", !.row = users[x.user]]]
    BY <1>1 DEF LoadUser, Go
<1>5. PICK next \in CallerStates : visit' = [visit EXCEPT ![r] = next] /\ CallerFits(next)
    <2>1. CASE visit' = [visit EXCEPT ![r] = [x EXCEPT !.step = "answer"]]
        BY <1>1, <2>1, CallerGoesOn DEF CallerSteps
    <2>2. CASE visit' = [visit EXCEPT ![r] = [x EXCEPT !.step = "switch", !.row = users[x.user]]]
        <3>1. PICK next : next = [x EXCEPT !.step = "switch", !.row = users[x.user]]
            OBVIOUS
        <3>2. users[x.user] \in Rows /\ users[x.user].did # NoDid
            BY <1>1 DEF SettledRow, HomesInv, RowsApart
        <3>3. /\ next \in CallerStates /\ next.kind = "link" /\ next.account = x.account
              /\ next.did = x.did /\ next.user = x.user /\ next.row = users[x.user]
            BY <1>1, <3>1, <3>2 DEF CallerStates, CallerSteps
        <3>4. CallerFits(next)
            BY <1>1, <3>2, <3>3 DEF CallerFits
        <3> QED BY <2>2, <3>1, <3>3, <3>4
    <2> QED BY <1>4, <2>1, <2>2
<1>6. CallerFits(next)'
    BY <1>3, <1>5, FitsStays
<1> QED BY <1>2, <1>3, <1>5, <1>6, CallerKeepsHomes

\* The canonical DID changes to a better one that no other row has.
LEMMA SwitchDidKeepsHomes ==
    ASSUME HomesInv, NEW r \in Visits, SwitchDid(r)
    PROVE  HomesInv'
<1>1. PICK x \in CallerStates : /\ x = visit[r] /\ x.kind = "link" /\ x.step = "switch"
                                 /\ CallerFits(x) /\ x.user \in Users /\ x.account \in Accounts
                                 /\ SettledRow(x.user)
                                 /\ x.did \in DIDs /\ x.did # NoDid
                                 /\ x.row.did \in DIDs /\ x.row.did # NoDid
    <2>1. visit[r] \in CallerStates /\ CallerFits(visit[r])
        BY DEF HomesInv
    <2>2. visit[r].kind = "link" /\ visit[r].step = "switch"
        BY DEF SwitchDid, At
    <2> QED BY <2>1, <2>2 DEF CallerFits, CallerStates, Rows, SettledRow
<1>2. signedIn' = signedIn /\ homes' = homes /\ RowsApart
    BY DEF SwitchDid, UNCHANGED_Store, HomesInv
<1>3. \/ /\ visit' = [visit EXCEPT ![r].step = "fold", ![r].did = x.row.did]
         /\ users' = users
      \/ visit' = [visit EXCEPT ![r] = [x EXCEPT !.step = "refused"]] /\ users' = users
      \/ /\ visit' = [visit EXCEPT ![r] = [x EXCEPT !.step = "fold"]]
         /\ ~DidTaken(x.did, x.user)
         /\ users' = [users EXCEPT ![x.user] = Renamed(@, x.did, x.row.did)]
    BY <1>1 DEF SwitchDid, Go
<1>4. RowsApart' /\ RowsGrow
    BY <1>1, <1>2, <1>3, RowsUnwritten, RenameKeepsApart
<1>5. PICK next \in CallerStates : visit' = [visit EXCEPT ![r] = next] /\ CallerFits(next)
    <2>1. CASE \E step \in {"refused", "fold"} :
                   visit' = [visit EXCEPT ![r] = [x EXCEPT !.step = step]]
        BY <1>1, <2>1, CallerGoesOn DEF CallerSteps
    <2>2. CASE visit' = [visit EXCEPT ![r].step = "fold", ![r].did = x.row.did]
        <3>1. PICK next : next = [x EXCEPT !.step = "fold", !.did = x.row.did]
            OBVIOUS
        <3>2. /\ next \in CallerStates /\ next.kind = "link" /\ next.account = x.account
              /\ next.did = x.row.did /\ next.user = x.user /\ next.row = x.row
            BY <1>1, <3>1 DEF CallerStates, CallerSteps
        <3>3. CallerFits(next)
            BY <1>1, <3>2 DEF CallerFits
        <3>4. visit' = [visit EXCEPT ![r] = next]
            BY <1>1, <2>2, <3>1
        <3> QED BY <3>2, <3>3, <3>4
    <2> QED BY <1>3, <2>1, <2>2
<1>6. CallerFits(next)'
    BY <1>4, <1>5, FitsStays
<1> QED BY <1>2, <1>4, <1>5, <1>6, CallerKeepsHomes

\* The column of the provider is written where no other row has the account.
LEMMA FoldDataKeepsHomes ==
    ASSUME HomesInv, NEW r \in Visits, FoldData(r)
    PROVE  HomesInv'
<1>1. PICK x \in CallerStates : /\ x = visit[r] /\ x.kind = "link" /\ x.step = "fold"
                                 /\ CallerFits(x) /\ x.account \in Accounts
                                 /\ x.did \in DIDs /\ x.did # NoDid /\ x.row.did # NoDid
    <2>1. visit[r] \in CallerStates /\ CallerFits(visit[r])
        BY DEF HomesInv
    <2>2. visit[r].kind = "link" /\ visit[r].step = "fold"
        BY DEF FoldData, At
    <2> QED BY <2>1, <2>2 DEF CallerFits, CallerStates
<1>2. signedIn' = signedIn /\ homes' = homes /\ RowsApart
    BY DEF FoldData, UNCHANGED_Store, HomesInv
<1>3. \/ visit' = [visit EXCEPT ![r] = [x EXCEPT !.step = "refused"]] /\ users' = users
      \/ /\ visit' = [visit EXCEPT ![r] = [x EXCEPT !.step = "insert"]]
         /\ \/ users' = users
            \/ ~ColumnTaken(Folded(x), x.did) /\ UpsertByDid(x.did, Folded(x))
    BY <1>1 DEF FoldData, Go
<1>4. Folded(x) \in SUBSET Accounts
    BY <1>1 DEF Folded
<1>5. RowsApart' /\ RowsGrow
    BY <1>1, <1>2, <1>3, <1>4, RowsUnwritten, UpsertKeepsApart
<1>6. PICK step \in {"refused", "insert"} : visit' = [visit EXCEPT ![r] = [x EXCEPT !.step = step]]
    BY <1>3
<1>7. PICK next \in CallerStates : next = [x EXCEPT !.step = step] /\ CallerFits(next)
    BY <1>1, CallerGoesOn DEF CallerSteps
<1>8. CallerFits(next)'
    BY <1>5, <1>7, FitsStays
<1> QED BY <1>2, <1>5, <1>6, <1>7, <1>8, CallerKeepsHomes

\* A row of account_links is written or deleted, the request ends or fails: no row of users
\* is written.
LEMMA OtherStepsKeepHomes ==
    ASSUME HomesInv, NEW r \in Visits,
           InsertLink(r) \/ DeleteLink(r) \/ VisitFails(r) \/ VisitEnds(r)
    PROVE  HomesInv'
<1>1. users' = users /\ signedIn' = signedIn /\ homes' = homes
    BY DEF InsertLink, DeleteLink, VisitFails, VisitEnds, UNCHANGED_Store
<1>2. RowsApart' /\ RowsGrow
    BY <1>1, RowsUnwritten DEF HomesInv
<1>3. PICK x \in CallerStates : x = visit[r] /\ CallerFits(x)
    BY DEF HomesInv
<1>4. CASE VisitFails(r) \/ VisitEnds(r)
    <2>1. visit' = [visit EXCEPT ![r] = Idle]
        BY <1>4 DEF VisitFails, VisitEnds
    <2> QED BY <1>1, <1>2, <2>1, IdleFits, CallerKeepsHomes
<1>5. CASE InsertLink(r) \/ DeleteLink(r)
    <2>1. x.kind \in {"link", "unlink"}
        BY <1>3, <1>5 DEF InsertLink, DeleteLink, At
    <2>2. PICK step \in {"refused", "answer"} :
              visit' = [visit EXCEPT ![r] = [x EXCEPT !.step = step]]
        BY <1>3, <1>5 DEF InsertLink, DeleteLink, Go
    <2>3. PICK next \in CallerStates : next = [x EXCEPT !.step = step] /\ CallerFits(next)
        BY <1>3, <2>1, CallerGoesOn DEF CallerSteps
    <2>4. CallerFits(next)'
        BY <1>2, <2>3, FitsStays
    <2> QED BY <1>1, <1>2, <2>2, <2>3, <2>4, CallerKeepsHomes
<1> QED BY <1>4, <1>5

\* A user of a session asks for a link to be dropped.
LEMMA BeginUnlinkKeepsHomes ==
    ASSUME HomesInv, NEW r \in Visits, NEW u \in Users, NEW l, BeginUnlink(r, u, l),
           l.account \in Accounts \cup {NoAccount}
    PROVE  HomesInv'
<1>1. PICK step \in {"delete", "answer"} :
          visit' = [visit EXCEPT ![r] = [Idle EXCEPT !.kind = "unlink", !.account = l.account,
                                                     !.user = u, !.step = step]]
    BY DEF BeginUnlink, Start
<1>2. PICK next : next = [Idle EXCEPT !.kind = "unlink", !.account = l.account, !.user = u,
                                      !.step = step]
    OBVIOUS
<1>3. next = [kind |-> "unlink", step |-> step, account |-> l.account, user |-> u,
              did |-> NoDid, row |-> NoRow]
    BY <1>2 DEF Idle
<1>4. NoRow \in Rows /\ NoDid \in DIDs
    BY DEF NoRow, Rows, DIDs, NoDid
<1>5. next \in CallerStates /\ CallerFits(next)'
    BY <1>3, <1>4 DEF CallerStates, CallerSteps, CallerFits
<1>6. users' = users /\ signedIn' = signedIn /\ homes' = homes
    BY DEF BeginUnlink, UNCHANGED_Store
<1>7. RowsApart' /\ RowsGrow
    BY <1>6, RowsUnwritten DEF HomesInv
<1> QED BY <1>1, <1>2, <1>5, <1>6, <1>7, CallerKeepsHomes

LinkedAccounts == \A l \in links : l.account \in Accounts

\* Only an account gets a link.
LEMMA LinksOfAccounts ==
    ASSUME HomesInv, LinkedAccounts, [IdentityNext]_idVars
    PROVE  LinkedAccounts'
<1>1. ASSUME NEW r \in Visits, EnsureLink(r) \/ InsertLink(r) PROVE LinkedAccounts'
    <2>1. PICK x \in CallerStates : x = visit[r] /\ CallerFits(x)
        BY DEF HomesInv
    <2>2. x.kind \in {"signin", "link"}
        BY <1>1, <2>1 DEF EnsureLink, InsertLink, At
    <2>3. x.account \in Accounts
        BY <2>1, <2>2 DEF CallerFits
    <2>4. PICK u, prev, new : links' \subseteq links \cup {Link(u, x.account, prev, new)}
        <3>1. CASE EnsureLink(r)
            BY <2>1, <3>1 DEF EnsureLink
        <3>2. CASE InsertLink(r)
            BY <2>1, <3>2 DEF InsertLink
        <3> QED BY <1>1, <3>1, <3>2
    <2> QED BY <2>3, <2>4 DEF LinkedAccounts, Link
<1>2. CASE links' \subseteq links
    BY <1>2 DEF LinkedAccounts
<1>3. CASE UNCHANGED idVars
    BY <1>2, <1>3 DEF idVars
<1>4. ASSUME NEW r \in Visits,
             \/ \E a \in Accounts : SignIn(r, a)
             \/ FindExisting(r) \/ SwitchOnSignIn(r) \/ UpsertUser(r)
             \/ \E u \in Users, a \in Accounts : BeginLink(r, u, a)
             \/ LoadUser(r) \/ SwitchDid(r) \/ FoldData(r)
             \/ \E u \in Users, l \in links : BeginUnlink(r, u, l)
             \/ DeleteLink(r) \/ VisitFails(r) \/ VisitEnds(r)
      PROVE  links' \subseteq links
    <2>1. CASE DeleteLink(r)
        BY <2>1 DEF DeleteLink
    <2>2. CASE ~DeleteLink(r)
        <3>1. UNCHANGED_Store
            BY <1>4, <2>2 DEF SignIn, FindExisting, SwitchOnSignIn, UpsertUser, BeginLink,
                              LoadUser, SwitchDid, FoldData, BeginUnlink, VisitFails, VisitEnds
        <3> QED BY <3>1 DEF UNCHANGED_Store
    <2> QED BY <2>1, <2>2
<1> QED BY <1>1, <1>2, <1>3, <1>4 DEF IdentityNext, SignInStep, LinkStep

\* Every step keeps the homes.
LEMMA HomesInductive ==
    ASSUME HomesInv, LinkedAccounts, [IdentityNext]_idVars
    PROVE  HomesInv'
<1>1. CASE UNCHANGED idVars
    BY <1>1 DEF idVars, HomesInv, RowsApart, CallerFits, SettledRow, HasColumn
<1>2. ASSUME NEW r \in Visits, NEW u \in Users, NEW l \in links, BeginUnlink(r, u, l)
      PROVE  HomesInv'
    BY <1>2, BeginUnlinkKeepsHomes DEF LinkedAccounts
<1>3. ASSUME NEW r \in Visits, SignInStep(r) PROVE HomesInv'
    BY <1>3, FindKeepsHomes, SwitchOnSignInKeepsHomes, UpsertUserKeepsHomes,
       EnsureLinkKeepsHomes DEF SignInStep
<1>4. ASSUME NEW r \in Visits,
             LinkStep(r) \/ DeleteLink(r) \/ VisitFails(r) \/ VisitEnds(r)
      PROVE  HomesInv'
    BY <1>4, LoadUserKeepsHomes, SwitchDidKeepsHomes, FoldDataKeepsHomes,
       OtherStepsKeepHomes DEF LinkStep
<1> QED BY <1>1, <1>2, <1>3, <1>4, SignInKeepsHomes, BeginLinkKeepsHomes DEF IdentityNext

\* An account signs in to the same user ever after, however many accounts, users, requests,
\* outages and failures there are and however they overlap, unless another account of its
\* provider has taken its place in the row (users.ts: resolveCanonicalDid,
\* reconcileOAuthIdentity).
THEOREM HomesStay == IdentitySpec => []HomesKept
<1>1. IdentityInit => HomesInv /\ LinkedAccounts
    <2> SUFFICES ASSUME IdentityInit PROVE HomesInv /\ LinkedAccounts
        OBVIOUS
    <2>1. NoRow \in Rows /\ NoRow.did = NoDid /\ NoRow.own = {}
        BY DEF NoRow, Rows, DIDs, NoDid
    <2>2. PICK first :
              first = [did |-> <<"local", OldAccount>>, legacy |-> {}, own |-> {OldAccount}]
        OBVIOUS
    <2>3. <<"local", OldAccount>> \in DIDs /\ <<"local", OldAccount>> # NoDid
        BY IdentityAssumption DEF DIDs, NoDid, Kinds
    <2>4. first \in Rows /\ first.did # NoDid
        BY <2>2, <2>3, IdentityAssumption DEF Rows
    <2>5. users = [u \in Users |-> IF u = 1 THEN first ELSE NoRow]
        BY <2>2 DEF IdentityInit
    <2>6. RowsApart
        BY <2>1, <2>4, <2>5 DEF RowsApart
    <2>7. visit = [r \in Visits |-> Idle]
        BY DEF IdentityInit
    <2>8. Idle \in CallerStates /\ CallerFits(Idle)
        BY <2>1 DEF Idle, CallerStates, CallerSteps, CallerFits, DIDs, NoDid
    <2>9. visit \in [Visits -> CallerStates] /\ \A r \in Visits : CallerFits(visit[r])
        BY <2>7, <2>8
    <2>10. signedIn = {} /\ homes = [a \in Accounts |-> {}] /\ links = {}
        BY DEF IdentityInit
    <2> QED BY <2>6, <2>9, <2>10 DEF HomesInv, LinkedAccounts
<1>2. HomesInv /\ LinkedAccounts /\ [IdentityNext]_idVars => HomesInv' /\ LinkedAccounts'
    BY HomesInductive, LinksOfAccounts
<1>3. HomesInv => HomesKept
    BY DEF HomesInv, RowsApart, HomesKept, SecondAccount, HasColumn
<1> QED BY <1>1, <1>2, <1>3, PTL DEF IdentitySpec
=============================================================================
