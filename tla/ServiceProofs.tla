---------------------------- MODULE ServiceProofs ----------------------------
(***************************************************************************)
(* What is shown of a paper to people and to programs, for every number of   *)
(* papers, readers, tabs, walks and failures: the harvester's pages          *)
(* (Harvest), the counts and the badge (Engagement), the brief of a day      *)
(* (DailyBrief), the feeds on Bluesky (BskyFeeds), the pins of a seminar     *)
(* (Seminar), the trust passport and its re-runs (TrustPassport,             *)
(* PassportRerun); and what operators rely on: the circuits and the worker   *)
(* that embeds (Breakers), the flags (Flags), the HTML of a version          *)
(* (HtmlCompile).  Each is proved of its own specification; MCRecordsProofs  *)
(* takes it to MCRecords, which lets one of them take its steps while the    *)
(* others rest.                                                              *)
(***************************************************************************)
EXTENDS Harvest, Engagement, DailyBrief, BskyFeeds, Seminar, PassportRerun, Breakers, Flags,
        HtmlCompile, FiniteSetTheorems, SequenceTheorems, TLAPS

-----------------------------------------------------------------------------
(* The harvester and its pages. *)

\* When each element of a finite set has a rank of its own, and below p there are as many
\* elements as its rank, then the ranks below p are all taken, and a window of them holds
\* as many elements as it is wide.
LEMMA RanksFill ==
    ASSUME NEW M, IsFiniteSet(M), NEW r \in [M -> Nat],
           \A x, y \in M : r[x] = r[y] => x = y,
           NEW p \in M, NEW U \in SUBSET M, Cardinality(U) = r[p], \A q \in U : r[q] < r[p],
           NEW a \in Nat, NEW b \in Nat, a <= b, b < r[p]
    PROVE  Cardinality({q \in M : r[q] \in a..b}) = b - a + 1
<1>1. IsFiniteSet(U)
    BY FS_Subset
<1> DEFINE f == [q \in U |-> r[q]]
<1>2. r[p] \in Nat /\ IsFiniteSet(0..(r[p] - 1)) /\ Cardinality(0..(r[p] - 1)) = r[p]
    <2>1. r[p] \in Nat /\ 0 \in Int /\ r[p] - 1 \in Int OBVIOUS
    <2>2. IsFiniteSet(0..(r[p] - 1))
          /\ Cardinality(0..(r[p] - 1)) = IF 0 > r[p] - 1 THEN 0 ELSE (r[p] - 1) - 0 + 1
        BY <2>1, FS_Interval
    <2> QED BY <2>1, <2>2
<1>3. f \in Injection(U, 0..(r[p] - 1))
    <2>0. \A q \in U : r[q] \in 0..(r[p] - 1)
        BY <1>2
    <2>1. f \in [U -> 0..(r[p] - 1)]
        BY <2>0
    <2>2. \A x, y \in U : f[x] = f[y] => x = y
        OBVIOUS
    <2> QED BY <2>1, <2>2 DEF Injection, IsInjective
<1>4. f \in Surjection(U, 0..(r[p] - 1))
    BY <1>2, <1>3, FS_Injection
<1>5. \A k \in 0..(r[p] - 1) : \E q \in U : r[q] = k
    BY <1>4 DEF Surjection
<1> DEFINE X == {q \in M : r[q] \in a..b}
<1> DEFINE g == [q \in X |-> r[q]]
<1>6. g \in Bijection(X, a..b)
    <2>1. g \in [X -> a..b]
        OBVIOUS
    <2>2. \A x, y \in X : g[x] = g[y] => x = y
        OBVIOUS
    <2>3. \A k \in a..b : \E q \in X : g[q] = k
        <3> TAKE k \in a..b
        <3>1. k \in 0..(r[p] - 1) BY <1>2
        <3>2. PICK q \in U : r[q] = k BY <1>5, <3>1
        <3>3. q \in X BY <3>2
        <3>4. g[q] = k BY <3>2, <3>3
        <3> QED BY <3>3, <3>4
    <2> QED BY <2>1, <2>2, <2>3 DEF Bijection, Injection, IsInjective, Surjection
<1>7. X \in SUBSET M /\ IsFiniteSet(X)
    BY FS_Subset
<1> HIDE DEF X, g
<1>8. ExistsBijection(X, a..b)
    BY <1>6 DEF ExistsBijection
<1>9. Cardinality(X) = Cardinality(a..b)
    BY <1>7, <1>8, FS_Bijection
<1>10. Cardinality(a..b) = b - a + 1
    <2>1. Cardinality(a..b) = IF a > b THEN 0 ELSE b - a + 1
        BY FS_Interval
    <2> QED BY <2>1
<1> QED BY <1>9, <1>10 DEF X

RecordRows == [status : {"published", "withdrawn", "draft"}, updated : Nat]
WalkStates == [on : BOOLEAN, from : Nat, start : Nat, offset : Nat, stored : BOOLEAN]

HarvestTypes ==
    /\ clock \in Nat /\ since \in Nat /\ since <= clock
    /\ rows \in [Records -> RecordRows] /\ \A p \in Records : rows[p].updated <= clock
    /\ got \in [Records -> Nat] /\ \A p \in Records : got[p] <= rows[p].updated
    /\ walk \in WalkStates
    /\ walk.on => walk.from = since /\ since <= walk.start /\ walk.start <= clock
    /\ shrunk \in BOOLEAN

\* The harvester has the record of p, or p is newer than t, or it could not be loaded.
Kept(p, t) == got[p] = rows[p].updated \/ rows[p].updated >= t \/ p \in unloaded

\* Of the papers a walk has to show, those before its offset have been shown.
ShownSoFar ==
    ~shrunk /\ walk.on =>
        \A p \in Records : Matches(p, walk.from) /\ Ahead(p, walk.from) < walk.offset =>
            Kept(p, walk.start)

HarvestInv == HarvestTypes /\ NothingIsLost /\ ShownSoFar

\* The papers before one of the list are a finite set, and more are before an older one.
LEMMA AheadFacts ==
    ASSUME NEW from
    PROVE  /\ \A p \in Records : Ahead(p, from) \in Nat
           /\ \A p, q \in Records : Newer(q, p) /\ Matches(q, from)
                     => Ahead(q, from) < Ahead(p, from)
<1> DEFINE B(p) == {q \in Records : Matches(q, from) /\ Newer(q, p)}
<1>1. \A p \in Records : IsFiniteSet(B(p)) /\ Cardinality(B(p)) \in Nat
    <2> TAKE p \in Records
    <2>1. PICK S : S = B(p) OBVIOUS
    <2>2. S \in SUBSET Records BY <2>1
    <2>3. IsFiniteSet(S) BY <2>2, FS_Subset, HarvestAssumption
    <2>4. Cardinality(S) \in Nat BY <2>3, FS_CardinalityType
    <2> QED BY <2>1, <2>3, <2>4
<1>2. ASSUME NEW p \in Records, NEW q \in Records, Newer(q, p), Matches(q, from)
      PROVE  Cardinality(B(q)) < Cardinality(B(p))
    <2>1. PICK S, T : S = B(p) /\ T = B(q) OBVIOUS
    <2>2. T \in SUBSET S /\ q \in S /\ q \notin T
        <3>1. \A x \in Records : Newer(x, q) => Newer(x, p) /\ x # q
            BY <1>2, HarvestAssumption DEF Newer
        <3> QED BY <1>2, <2>1, <3>1
    <2>3. IsFiniteSet(S) /\ Cardinality(S) \in Nat /\ Cardinality(T) \in Nat
        BY <1>1, <2>1
    <2>4. Cardinality(T) <= Cardinality(S) /\ Cardinality(T) # Cardinality(S)
        BY <2>2, <2>3, FS_Subset
    <2> QED BY <2>1, <2>3, <2>4
<1> QED BY <1>1, <1>2 DEF Ahead

\* A page that is not full is the last: what is on the list lies before its end.
LEMMA ShortPageIsLast ==
    ASSUME NEW from, NEW offset \in Nat, NEW p \in Records, Matches(p, from),
           Ahead(p, from) >= offset + PageSize
    PROVE  Cardinality(Page(from, offset)) = PageSize
<1>0. PageSize \in Nat /\ PageSize > 0 /\ Records \subseteq Nat
    BY HarvestAssumption
<1> DEFINE M == {q \in Records : Matches(q, from)}
           r == [q \in M |-> Ahead(q, from)]
           U == {q \in M : Newer(q, p)}
           b == offset + PageSize - 1
<1>1. M \in SUBSET Records /\ IsFiniteSet(M) /\ p \in M /\ U \in SUBSET M
    BY FS_Subset, HarvestAssumption
<1>2. r \in [M -> Nat]
    BY AheadFacts
<1>3. \A x, y \in M : r[x] = r[y] => x = y
    <2> SUFFICES ASSUME NEW x \in M, NEW y \in M, x # y PROVE r[x] # r[y]
        OBVIOUS
    <2>1. Newer(x, y) \/ Newer(y, x) BY <1>0 DEF Newer
    <2>2. Ahead(x, from) < Ahead(y, from) \/ Ahead(y, from) < Ahead(x, from)
        BY <2>1, AheadFacts
    <2>3. Ahead(x, from) \in Nat /\ Ahead(y, from) \in Nat BY AheadFacts
    <2> QED BY <2>2, <2>3
<1>4. Cardinality(U) = r[p]
    <2>1. U = {q \in Records : Matches(q, from) /\ Newer(q, p)} OBVIOUS
    <2> QED BY <1>1, <2>1 DEF Ahead
<1>5. \A q \in U : r[q] < r[p]
    BY <1>1, AheadFacts
<1>6. b \in Nat /\ offset <= b /\ b < r[p]
    BY <1>0, <1>1, <1>2
<1>7. Page(from, offset) = {q \in M : r[q] \in offset..b}
    BY DEF Page
<1> HIDE DEF M, r, U, b
<1>8. Cardinality({q \in M : r[q] \in offset..b}) = b - offset + 1
    BY <1>1, <1>2, <1>3, <1>4, <1>5, <1>6, RanksFill
<1> QED BY <1>0, <1>7, <1>8 DEF b

\* The harvest begins with HarvestInv.
LEMMA HarvestInitInv == ASSUME HarvestInit PROVE HarvestInv
<1>1. AtRest \in WalkStates /\ ~AtRest.on
    BY DEF AtRest, WalkStates
<1>2. /\ rows \in [Records -> RecordRows] /\ got \in [Records -> Nat]
      /\ \A p \in Records : rows[p].updated = 1 /\ got[p] = 0
    BY DEF HarvestInit, RecordRows
<1>3. clock = 1 /\ since = 0 /\ walk = AtRest /\ shrunk = FALSE
    BY DEF HarvestInit
<1>4. HarvestTypes
    <2>1. shrunk \in BOOLEAN BY <1>3
    <2>2. /\ clock \in Nat /\ since \in Nat /\ since <= clock
          /\ \A p \in Records : rows[p].updated <= clock /\ got[p] <= rows[p].updated
        BY <1>2, <1>3
    <2> QED BY <1>1, <1>2, <1>3, <2>1, <2>2 DEF HarvestTypes
<1>5. NothingIsLost
    BY <1>2, <1>3 DEF NothingIsLost
<1> QED BY <1>1, <1>3, <1>4, <1>5 DEF HarvestInv, ShownSoFar

\* A page is shown: what was on it is kept, and so is what was before it.
LEMMA PageShown ==
    ASSUME HarvestInv, walk.on, NEW loaded \in SUBSET InPage, NEW held \in BOOLEAN,
           AnswerPage(loaded, held), UNCHANGED <<clock, rows, shrunk>>,
           unloaded' = unloaded \cup (InPage \ loaded)
    PROVE  HarvestInv'
<1> PICK from, offset, start : from = walk.from /\ offset = walk.offset /\ start = walk.start
    OBVIOUS
<1>0. /\ clock \in Nat /\ since \in Nat /\ walk \in WalkStates /\ from = since
      /\ start \in Nat /\ offset \in Nat /\ start <= clock /\ since <= start
      /\ got \in [Records -> Nat] /\ rows \in [Records -> RecordRows]
    BY DEF HarvestInv, HarvestTypes, WalkStates
<1>p. PageSize \in Nat /\ PageSize > 0
    BY HarvestAssumption
<1>a. \A p \in Records : Ahead(p, from) \in Nat
    BY AheadFacts
<1>1. \A p \in Records : got'[p] = IF p \in loaded THEN rows[p].updated ELSE got[p]
    BY DEF AnswerPage, RecordOf
<1>2. got' \in [Records -> Nat] /\ \A p \in Records : got'[p] <= rows[p].updated
    BY <1>0, <1>1 DEF HarvestInv, HarvestTypes, AnswerPage, RecordOf, RecordRows
<1>3. \A p \in Records, t \in Nat : Kept(p, t) => Kept(p, t)'
    BY <1>1 DEF Kept
<1>4. \A p \in InPage, t \in Nat : Kept(p, t)'
    <2>1. InPage \subseteq Records BY DEF InPage, Page
    <2> QED BY <1>1, <2>1 DEF Kept
<1>5. \A p \in Records : Matches(p, from)' = Matches(p, from) /\ Ahead(p, from)' = Ahead(p, from)
    BY DEF Matches, Ahead
<1>6. ASSUME ~shrunk, NEW p \in Records, Matches(p, from), Ahead(p, from) < offset + PageSize
      PROVE  Kept(p, start)'
    <2>1. CASE Ahead(p, from) < offset
        BY <1>0, <1>3, <1>6, <2>1 DEF HarvestInv, ShownSoFar
    <2>2. CASE ~(Ahead(p, from) < offset)
        <3>1. Ahead(p, from) \in offset..(offset + PageSize - 1)
            BY <1>0, <1>p, <1>a, <1>6, <2>2
        <3>2. p \in InPage
            BY <1>0, <1>6, <3>1 DEF InPage, Page
        <3> QED BY <1>0, <1>4, <3>2
    <2> QED BY <2>1, <2>2
<1>7. CASE Cardinality(InPage) = PageSize
    <2>0. PICK next \in Nat : next = offset + PageSize
        BY <1>0, <1>p
    <2> DEFINE w == [walk EXCEPT !.offset = next, !.stored = held]
    <2>1. walk' = w /\ since' = since
        BY <1>7, <2>0 DEF AnswerPage
    <2>2. w \in WalkStates /\ w.on /\ w.from = from /\ w.start = start /\ w.offset = next
        BY <1>0 DEF WalkStates
    <2> HIDE DEF w
    <2>3. HarvestTypes'
        BY <1>0, <1>2, <2>1, <2>2 DEF HarvestInv, HarvestTypes
    <2>4. NothingIsLost'
        BY <1>0, <1>3, <2>1 DEF HarvestInv, NothingIsLost, Kept
    <2>5. ShownSoFar'
        BY <1>5, <1>6, <2>0, <2>1, <2>2 DEF ShownSoFar
    <2> QED BY <2>3, <2>4, <2>5 DEF HarvestInv
<1>8. CASE Cardinality(InPage) # PageSize
    <2>1. walk' = AtRest /\ since' = start
        BY <1>8 DEF AnswerPage
    <2>2. AtRest \in WalkStates /\ ~AtRest.on
        BY DEF AtRest, WalkStates
    <2>3. HarvestTypes'
        BY <1>0, <1>2, <2>1, <2>2 DEF HarvestInv, HarvestTypes
    <2>4. ASSUME ~shrunk, NEW p \in Records, rows[p].status = "published"
          PROVE  Kept(p, start)'
        <3>1. CASE Matches(p, from)
            <4>1. ~(Ahead(p, from) >= offset + PageSize)
                BY <1>0, <1>8, <3>1, ShortPageIsLast DEF InPage
            <4>2. Ahead(p, from) < offset + PageSize
                BY <1>0, <1>p, <1>a, <4>1
            <4> QED BY <1>6, <2>4, <3>1, <4>2
        <3>2. CASE ~Matches(p, from)
            <4>1. rows[p].updated \in Nat /\ ~(rows[p].updated >= since)
                BY <1>0, <2>4, <3>2 DEF Matches, RecordRows
            <4>2. got[p] = rows[p].updated \/ p \in unloaded
                BY <2>4, <4>1 DEF HarvestInv, NothingIsLost
            <4>3. Kept(p, start)
                BY <4>2 DEF Kept
            <4> QED BY <1>0, <1>3, <4>3
        <3> QED BY <3>1, <3>2
    <2>5. NothingIsLost'
        BY <2>1, <2>4 DEF NothingIsLost, Kept
    <2>6. ShownSoFar'
        BY <2>1, <2>2 DEF ShownSoFar
    <2> QED BY <2>3, <2>5, <2>6 DEF HarvestInv
<1> QED BY <1>7, <1>8

\* A paper that is edited or published is newer than any walk; the list behind it may
\* only move away from the offset.  One that is withdrawn during a walk makes it shrink.
LEMMA RowChanges ==
    ASSUME HarvestInv, NEW p \in Records, EditRow(p) \/ WithdrawRow(p) \/ PublishRow(p)
    PROVE  HarvestInv'
<1>0. /\ clock \in Nat /\ since \in Nat /\ walk \in WalkStates /\ since <= clock
      /\ walk.on => walk.from = since /\ walk.start \in Nat /\ walk.start <= clock
      /\ walk.from \in Nat /\ walk.offset \in Nat
      /\ got \in [Records -> Nat] /\ rows \in [Records -> RecordRows] /\ shrunk \in BOOLEAN
      /\ \A q \in Records : rows[q] \in RecordRows /\ rows[q].updated <= clock
                /\ got[q] <= rows[q].updated
    BY DEF HarvestInv, HarvestTypes, WalkStates
<1>1. PICK now \in RecordRows :
        /\ rows' = [rows EXCEPT ![p] = now] /\ now.updated = clock
        /\ now.status \in {"published", "withdrawn"}
        /\ shrunk' = (shrunk \/ (now.status = "withdrawn" /\ walk.on))
    <2> DEFINE new(status) == [status |-> status, updated |-> clock]
    <2>1. \A s \in {"published", "withdrawn"} :
            new(s) \in RecordRows /\ new(s).updated = clock /\ new(s).status = s
        BY <1>0 DEF RecordRows
    <2>0. PICK before, t : rows[p] = [status |-> before, updated |-> t]
        BY <1>0 DEF RecordRows
    <2>2. ASSUME NEW s PROVE [[rows[p] EXCEPT !.status = s] EXCEPT !.updated = clock] = new(s)
        <3>1. PICK mid : mid = [rows[p] EXCEPT !.status = s]
            OBVIOUS
        <3>2. mid = [status |-> s, updated |-> t]
            BY <2>0, <3>1
        <3>3. [mid EXCEPT !.updated = clock] = new(s)
            BY <3>2
        <3> QED BY <3>1, <3>3
    <2>6. rows[p].status = "published" =>
            [rows[p] EXCEPT !.updated = clock] = new("published")
        BY <2>0
    <2>3. CASE EditRow(p)
        <3>1. rows' = [rows EXCEPT ![p] = new("published")] /\ shrunk' = shrunk
            BY <2>6, <2>3 DEF EditRow, Change
        <3> QED BY <1>0, <2>1, <3>1
    <2>4. CASE PublishRow(p)
        <3>1. rows' = [rows EXCEPT ![p] = new("published")] /\ shrunk' = shrunk
            BY <2>2, <2>4 DEF PublishRow, Change
        <3> QED BY <1>0, <2>1, <3>1
    <2>5. CASE WithdrawRow(p)
        <3>1. rows' = [rows EXCEPT ![p] = new("withdrawn")] /\ shrunk' = (shrunk \/ walk.on)
            BY <2>2, <2>5 DEF WithdrawRow, Change
        <3> QED BY <2>1, <3>1
    <2> QED BY <2>3, <2>4, <2>5
<1>2. UNCHANGED <<clock, walk, got, since, unloaded>>
    BY DEF EditRow, WithdrawRow, PublishRow, Change
<1>3. \A q \in Records : rows'[q] = IF q = p THEN now ELSE rows[q]
    BY <1>0, <1>1
<1>4. HarvestTypes'
    <2>1. rows' \in [Records -> RecordRows]
        BY <1>0, <1>1
    <2>2. \A q \in Records : rows'[q].updated <= clock /\ got[q] <= rows'[q].updated
        <3>1. \A q \in Records : rows[q].updated \in Nat /\ got[q] \in Nat
            BY <1>0 DEF RecordRows
        <3>2. \A q \in Records : got[q] <= clock
            BY <1>0, <3>1
        <3> QED BY <1>0, <1>1, <1>3, <3>2
    <2>3. shrunk' \in BOOLEAN
        BY <1>0, <1>1
    <2> QED BY <1>0, <1>2, <2>1, <2>2, <2>3 DEF HarvestInv, HarvestTypes
<1>5. NothingIsLost'
    BY <1>0, <1>1, <1>2, <1>3 DEF HarvestInv, NothingIsLost
<1>6. ShownSoFar'
    <2> SUFFICES ASSUME ~shrunk', walk.on, NEW q \in Records, Matches(q, walk.from)',
                        Ahead(q, walk.from)' < walk.offset
                 PROVE  Kept(q, walk.start)'
        BY <1>2 DEF ShownSoFar
    <2>1. CASE q = p
        BY <1>0, <1>1, <1>2, <1>3, <2>1 DEF Kept
    <2>2. CASE q # p
        <3>1. now.status = "published" /\ ~shrunk
            BY <1>0, <1>1
        <3>2. Matches(q, walk.from)
            BY <1>2, <1>3, <2>2 DEF Matches
        <3>3. \A x \in Records : Matches(x, walk.from) => Matches(x, walk.from)'
            BY <1>0, <1>1, <1>2, <1>3, <3>1 DEF Matches
        <3>4. Ahead(q, walk.from) <= Ahead(q, walk.from)'
            <4>1. PICK S, T : /\ S = {x \in Records : Matches(x, walk.from) /\ Newer(x, q)}
                              /\ T = {x \in Records : Matches(x, walk.from)' /\ Newer(x, q)}
                OBVIOUS
            <4>2. S \in SUBSET T /\ T \in SUBSET Records
                BY <3>3, <4>1
            <4>3. Cardinality(S) <= Cardinality(T)
                BY <4>2, FS_Subset, HarvestAssumption
            <4> QED BY <1>2, <4>1, <4>3 DEF Ahead
        <3>5. Ahead(q, walk.from) \in Nat /\ Ahead(q, walk.from)' \in Nat
            <4>1. PICK T : T = {x \in Records : Matches(x, walk.from)' /\ Newer(x, q)}
                OBVIOUS
            <4>2. IsFiniteSet(T)
                BY <4>1, FS_Subset, HarvestAssumption
            <4> QED BY <4>1, <4>2, FS_CardinalityType, AheadFacts DEF Ahead
        <3>6. Ahead(q, walk.from) < walk.offset
            BY <1>0, <1>2, <3>4, <3>5
        <3>7. Kept(q, walk.start)
            BY <3>1, <3>2, <3>6 DEF HarvestInv, ShownSoFar
        <3> QED BY <1>2, <1>3, <2>2, <3>7 DEF Kept
    <2> QED BY <2>1, <2>2
<1> QED BY <1>4, <1>5, <1>6 DEF HarvestInv

\* Every step of the harvest keeps HarvestInv.
LEMMA HarvestInductive == ASSUME HarvestInv, [HarvestNext]_oaiVars PROVE HarvestInv'
<1>0. /\ clock \in Nat /\ since \in Nat /\ walk \in WalkStates /\ since <= clock
      /\ walk.on => walk.from = since /\ walk.start \in Nat /\ walk.start <= clock
                /\ since <= walk.start
      /\ got \in [Records -> Nat] /\ rows \in [Records -> RecordRows] /\ shrunk \in BOOLEAN
      /\ \A q \in Records : rows[q] \in RecordRows /\ rows[q].updated \in Nat
                            /\ rows[q].updated <= clock /\ got[q] \in Nat
                                      /\ got[q] <= rows[q].updated
    BY DEF HarvestInv, HarvestTypes, WalkStates, RecordRows
<1>1. CASE UNCHANGED oaiVars
    BY <1>1 DEF oaiVars, HarvestInv, HarvestTypes, NothingIsLost, ShownSoFar, Kept, Matches, Ahead
<1>2. CASE NextSecond
    <2>1. clock' = clock + 1 /\ UNCHANGED <<rows, walk, got, since, shrunk, unloaded>>
        BY <1>2 DEF NextSecond
    <2>2. HarvestTypes'
        BY <1>0, <2>1 DEF HarvestTypes
    <2>3. NothingIsLost' /\ ShownSoFar'
        BY <2>1 DEF HarvestInv, NothingIsLost, ShownSoFar, Kept, Matches, Ahead
    <2> QED BY <2>2, <2>3 DEF HarvestInv
<1>3. CASE StartWalk
    <2> DEFINE w == [on |-> TRUE, from |-> since, start |-> clock, offset |-> 0, stored |-> FALSE]
    <2>1. walk' = w /\ UNCHANGED <<clock, rows, got, since, shrunk, unloaded>>
        BY <1>3 DEF StartWalk
    <2>2. w \in WalkStates /\ w.from = since /\ w.start = clock /\ w.offset = 0
        BY <1>0 DEF WalkStates
    <2> HIDE DEF w
    <2>3. HarvestTypes'
        BY <1>0, <2>1, <2>2 DEF HarvestTypes
    <2>4. NothingIsLost'
        BY <2>1 DEF HarvestInv, NothingIsLost
    <2>5. ShownSoFar'
        <3>1. \A p \in Records : Ahead(p, since)' = Ahead(p, since)
            BY <2>1 DEF Ahead, Matches
        <3>2. \A p \in Records : ~(Ahead(p, since) < 0)
            BY AheadFacts
        <3> QED BY <2>1, <2>2, <3>1, <3>2 DEF ShownSoFar
    <2> QED BY <2>3, <2>4, <2>5 DEF HarvestInv
<1>4. CASE ListPage
    <2>1. PICK held \in BOOLEAN : AnswerPage(InPage, held)
        BY <1>4 DEF ListPage
    <2>2. walk.on /\ UNCHANGED <<clock, rows, shrunk>>
        /\ unloaded' = unloaded \cup (InPage \ InPage)
        BY <1>4 DEF ListPage
    <2> QED BY <2>1, <2>2, PageShown
<1>5. ASSUME NEW p \in Records, LoadFails(p) PROVE HarvestInv'
    <2>1. p \in InPage /\ AnswerPage(InPage \ {p}, TRUE)
        BY <1>5 DEF LoadFails
    <2>2. walk.on /\ UNCHANGED <<clock, rows, shrunk>>
          /\ unloaded' = unloaded \cup (InPage \ (InPage \ {p}))
        BY <1>5, <2>1 DEF LoadFails
    <2> QED BY <2>1, <2>2, PageShown
<1>6. CASE TokenGone
    <2>1. walk' = AtRest /\ UNCHANGED <<clock, rows, got, since, shrunk, unloaded>>
        BY <1>6 DEF TokenGone
    <2>2. AtRest \in WalkStates /\ ~AtRest.on
        BY DEF AtRest, WalkStates
    <2> QED BY <1>0, <2>1, <2>2 DEF HarvestInv, HarvestTypes, NothingIsLost, ShownSoFar
<1>7. ASSUME NEW p \in Records, GetRecord(p) PROVE HarvestInv'
    <2>1. UNCHANGED <<clock, rows, walk, since, shrunk, unloaded>>
          /\ got' = [got EXCEPT ![p] = rows[p].updated]
        BY <1>7 DEF GetRecord, RecordOf
    <2>2. \A q \in Records : got'[q] = IF q = p THEN rows[p].updated ELSE got[q]
        BY <1>0, <2>1
    <2>3. HarvestTypes'
        BY <1>0, <2>1, <2>2 DEF HarvestTypes
    <2>4. NothingIsLost' /\ ShownSoFar'
        BY <2>1, <2>2 DEF HarvestInv, NothingIsLost, ShownSoFar, Kept, Matches, Ahead
    <2> QED BY <2>3, <2>4 DEF HarvestInv
<1>8. ASSUME NEW p \in Records, EditRow(p) \/ WithdrawRow(p) \/ PublishRow(p) PROVE HarvestInv'
    BY <1>8, RowChanges
<1> QED BY <1>1, <1>2, <1>3, <1>4, <1>5, <1>6, <1>7, <1>8 DEF HarvestNext

\* No version of a published paper is lost to a harvester that comes back for what has
\* changed since its last walk began (oai.ts:214), for any number of papers, pages of any
\* size, and whatever is published and edited during its walks, unless a paper has left
\* the list during one.
THEOREM HarvestLosesNothing == HarvestSpec => []NothingIsLost
BY HarvestInitInv, HarvestInductive, PTL DEF HarvestSpec, HarvestInv

-----------------------------------------------------------------------------
(* What is counted about a paper, and the badge. *)

EventTabs == [pc : {"idle", "probe", "insert"}, kind : EventKinds \cup {"none"}]
Tallies == [EventKinds -> Nat]
BadgeStates == [pc : {"none", "endorsements", "reads", "citations", "store", "cached"},
                endorsements : Nat, views : Nat, citations : {"null", "count"}]

EngagementTypes ==
    /\ tabs \in [Tabs -> EventTabs]
    /\ \A t \in Tabs : tabs[t].pc # "idle" => tabs[t].kind \in EventKinds
    /\ events \in Tallies /\ inMinute \in Tallies /\ rollup \in Tallies
    /\ endorsedAs \in [Endorsers \X Dids -> EndorseVerbs \cup {NotEndorsed}]
    /\ IsFiniteSet(EndorsementRows)
    /\ badges \in [Badges -> BadgeStates]
    /\ badge \in BadgeStates /\ crossref \in {"none", "null", "count"}

\* A request that is about to store its event found none of its kind in the minute, and
\* none about to be stored.
Inserts(t, k) == tabs[t].pc = "insert" /\ tabs[t].kind = k
Probed ==
    \A k \in EventKinds : k \notin overlapped =>
        /\ inMinute[k] <= 1
        /\ \A t \in Tabs : Inserts(t, k) => inMinute[k] = 0
        /\ \A t, u \in Tabs : Inserts(t, k) /\ Inserts(u, k) => t = u

\* The first DID of a reader is not used any more when there is a second.
FirstThenSecond ==
    \A u \in Endorsers :
        /\ u \in plc /\ endorsedAs[<<u, "first">>] # NotEndorsed => u \in switched
        /\ u \notin plc => endorsedAs[<<u, "second">>] = NotEndorsed

\* The view is made from no more events than there are.
RollupBehind == \A k \in EventKinds : rollup[k] <= events[k]

\* Every computation has read what the badge may show.
ReadsModest ==
    /\ crossref = "null" => unheard
    /\ \A b \in Badges :
        /\ badges[b].pc \in {"citations", "store"} => badges[b].views <= DashboardViews
        /\ badges[b].pc = "store" /\ badges[b].citations = "null" => unheard
    /\ badge # NoBadge => badge.views <= DashboardViews
    /\ badge # NoBadge /\ badge.citations = "null" => unheard

EngagementInv ==
    EngagementTypes /\ Probed /\ BadgeIsCurrent /\ FirstThenSecond /\ RollupBehind /\ ReadsModest

\* Sums of views: a number, and more events make no fewer views.
LEMMA ViewsFacts ==
    ASSUME NEW c \in Tallies, NEW kinds
    PROVE  Views(c, kinds) \in Nat
BY DEF Views, Tallies

\* One view more makes the sum no smaller.
LEMMA ViewsGrow ==
    ASSUME NEW c \in Tallies, NEW d \in Tallies, \A k \in EventKinds : c[k] <= d[k], NEW kinds
    PROVE  Views(c, kinds) <= Views(d, ViewEvents)
<1> DEFINE n(e, k) == IF k \in EventKinds THEN e[k] ELSE 0
<1>1. \A k : n(c, k) \in Nat /\ n(d, k) \in Nat /\ n(c, k) <= n(d, k)
    BY DEF Tallies
<1>2. Views(d, ViewEvents) = n(d, "paper_view") + (n(d, "feed_impression") + n(d, "card_expand"))
    BY DEF Views
<1>3. \/ Views(c, kinds) = n(c, "paper_view") + (n(c, "feed_impression") + n(c, "card_expand"))
      \/ Views(c, kinds) = n(c, "paper_view") + 0
    BY DEF Views
<1> HIDE DEF n
<1> QED BY <1>1, <1>2, <1>3

\* An endorsement more or less leaves a finite number of them.
LEMMA RowsStayFinite ==
    ASSUME EngagementTypes, NEW r \in Endorsers \X Dids, NEW v,
           endorsedAs' = [endorsedAs EXCEPT ![r] = v]
    PROVE  IsFiniteSet(EndorsementRows)'
<1>1. \A x \in Endorsers \X Dids : x # r => endorsedAs'[x] = endorsedAs[x]
    BY DEF EngagementTypes
<1>2. EndorsementRows' \in SUBSET (EndorsementRows \cup {r})
    BY <1>1 DEF EndorsementRows
<1>3. IsFiniteSet(EndorsementRows \cup {r})
    BY FS_AddElement DEF EngagementTypes
<1> QED BY <1>2, <1>3, FS_Subset

\* Counting begins with EngagementInv.
LEMMA EngagementInitInv == ASSUME EngagementInit PROVE EngagementInv
<1>1. NoCounts \in Tallies /\ \A k \in EventKinds : NoCounts[k] = 0
    BY DEF NoCounts, Tallies
<1>2. NoBadge \in BadgeStates /\ NoBadge.pc = "none" /\ NoEvent \in EventTabs /\ NoEvent.pc = "idle"
    BY DEF NoBadge, NoEvent, BadgeStates, EventTabs
<1>3. EndorsementRows = {}
    BY DEF EngagementInit, EndorsementRows
<1>4. EngagementTypes
    BY <1>1, <1>2, <1>3, FS_EmptySet DEF EngagementInit, EngagementTypes
<1>5. Probed /\ BadgeIsCurrent /\ RollupBehind
    BY <1>1, <1>2 DEF EngagementInit, Probed, BadgeIsCurrent, RollupBehind, Inserts
<1>6. FirstThenSecond
    BY DEF EngagementInit, FirstThenSecond, Dids, NotEndorsed
<1>7. ReadsModest
    BY <1>2 DEF EngagementInit, ReadsModest
<1> QED BY <1>4, <1>5, <1>6, <1>7 DEF EngagementInv

\* The steps of the browser, of its requests and of the minute.
LEMMA EventsStep ==
    ASSUME EngagementInv,
           \/ \E t \in Tabs : Probe(t) \/ InsertEvent(t) \/ TrackFails(t)
           \/ \E kind \in EventKinds : EventAges(kind) \/ \E t \in Tabs : Track(t, kind)
    PROVE  EngagementInv'
<1>1. UNCHANGED <<endorsedAs, plc, dropping, badges, badge, crossref, madeLate, switched, unheard,
    rollup>>
    BY DEF Probe, InsertEvent, TrackFails, EventAges, Track, countVars, endorseVars, badgeVars,
        engagePast
<1>2. UNCHANGED EndorsementRows
    BY <1>1 DEF EndorsementRows
<1>3. BadgeIsCurrent' /\ FirstThenSecond'
    BY <1>1, <1>2 DEF EngagementInv, BadgeIsCurrent, FirstThenSecond
<1>0. /\ tabs \in [Tabs -> EventTabs] /\ \A t \in Tabs : tabs[t].pc # "idle"
          => tabs[t].kind \in EventKinds
      /\ events \in Tallies /\ inMinute \in Tallies /\ rollup \in Tallies
    BY DEF EngagementInv, EngagementTypes
<1>4. ASSUME tabs' \in [Tabs -> EventTabs],
             \A t \in Tabs : tabs'[t].pc # "idle" => tabs'[t].kind \in EventKinds,
             events' \in Tallies, inMinute' \in Tallies, Probed',
             \A k \in EventKinds : events[k] <= events'[k]
      PROVE  EngagementInv'
    <2>1. EngagementTypes'
        BY <1>1, <1>2, <1>4 DEF EngagementInv, EngagementTypes
    <2>2. RollupBehind'
        <3>1. \A k \in EventKinds : rollup[k] \in Nat /\ events[k] \in Nat /\ events'[k] \in Nat
            BY <1>0, <1>4 DEF Tallies
        <3> QED BY <1>1, <1>4, <3>1 DEF EngagementInv, RollupBehind
    <2>3. DashboardViews <= DashboardViews' /\ DashboardViews \in Nat /\ DashboardViews' \in Nat
        <3>1. PICK e, f : e = events /\ f = events' OBVIOUS
        <3>2. Views(e, ViewEvents) <= Views(f, ViewEvents)
              /\ Views(e, ViewEvents) \in Nat /\ Views(f, ViewEvents) \in Nat
            BY <1>0, <1>4, <3>1, ViewsGrow, ViewsFacts
        <3> QED BY <3>1, <3>2 DEF DashboardViews
    <2>4. \A n \in Nat : n <= DashboardViews => n <= DashboardViews'
        BY <2>3
    <2>5. ReadsModest'
        <3>1. badge.views \in Nat /\ \A b \in Badges : badges[b].views \in Nat
            BY DEF EngagementInv, EngagementTypes, BadgeStates
        <3> QED BY <1>1, <2>4, <3>1 DEF EngagementInv, ReadsModest
    <2> QED BY <1>3, <1>4, <2>1, <2>2, <2>5 DEF EngagementInv
<1>5. ASSUME NEW t \in Tabs, Probe(t) PROVE EngagementInv'
    <2> DEFINE kind == tabs[t].kind
               next == IF inMinute[kind] = 0 THEN [pc |-> "insert", kind |-> kind] ELSE NoEvent
    <2>1. /\ tabs' = [tabs EXCEPT ![t] = next]
          /\ overlapped' = overlapped \cup {k \in {kind} : /\ inMinute[kind] = 0
                \* another is about to be stored
                /\ \E u \in Tabs : tabs[u] = [pc |-> "insert", kind |-> k]}
          /\ UNCHANGED <<events, inMinute>> /\ kind \in EventKinds
        <3>1. tabs[t] = [pc |-> "probe", kind |-> kind]
            BY <1>0, <1>5 DEF Probe, EventTabs
        <3>2. [tabs[t] EXCEPT !.pc = "insert"] = [pc |-> "insert", kind |-> kind]
            BY <3>1
        <3> QED BY <1>0, <1>5, <3>1, <3>2 DEF Probe, countVars
    <2>2. next \in EventTabs /\ (next.pc # "idle" => next.kind \in EventKinds)
          /\ (next.pc = "insert" => next.kind = kind /\ inMinute[kind] = 0)
        BY <2>1 DEF EventTabs, NoEvent
    <2>3. \A u \in Tabs : tabs'[u] = IF u = t THEN next ELSE tabs[u]
        BY <1>0, <2>1
    <2>4. \A u \in Tabs, k \in EventKinds : Inserts(u, k) => tabs[u] = [pc |-> "insert", kind |-> k]
        BY <1>0 DEF Inserts, EventTabs
    <2> HIDE DEF next
    <2>5. \A k \in EventKinds : k \notin overlapped' => k \notin overlapped
        BY <2>1
    <2>6. kind \notin overlapped' /\ next.pc = "insert" => \A u \in Tabs : ~Inserts(u, kind)
        BY <2>1, <2>2, <2>4
    <2>7. Probed'
        <3> SUFFICES ASSUME NEW k \in EventKinds, k \notin overlapped'
                     PROVE  /\ inMinute[k] <= 1
                            /\ \A u \in Tabs : Inserts(u, k)' => inMinute[k] = 0
                            /\ \A u, v \in Tabs : Inserts(u, k)' /\ Inserts(v, k)' => u = v
            BY <2>1 DEF Probed
        <3>1. /\ inMinute[k] <= 1
              /\ \A u \in Tabs : Inserts(u, k) => inMinute[k] = 0
              /\ \A u, v \in Tabs : Inserts(u, k) /\ Inserts(v, k) => u = v
            BY <2>5 DEF EngagementInv, Probed
        <3>2. \A u \in Tabs : u # t /\ Inserts(u, k)' => Inserts(u, k)
            BY <2>3 DEF Inserts
        <3>3. Inserts(t, k)' => next.pc = "insert" /\ k = kind
            BY <2>2, <2>3 DEF Inserts
        <3>4. Inserts(t, k)' => inMinute[k] = 0 /\ \A u \in Tabs : ~Inserts(u, k)
            BY <2>2, <2>6, <3>3
        <3> QED BY <3>1, <3>2, <3>4
    <2>8. tabs' \in [Tabs -> EventTabs]
        BY <1>0, <2>1, <2>2
    <2>9. \A u \in Tabs : tabs'[u].pc # "idle" => tabs'[u].kind \in EventKinds
        BY <1>0, <2>2, <2>3
    <2>10. \A k \in EventKinds : events[k] <= events'[k]
        BY <1>0, <2>1 DEF Tallies
    <2> QED BY <1>0, <1>4, <2>1, <2>7, <2>8, <2>9, <2>10
\* A step that makes no tab about to insert, and adds nothing to the minute.
<1>6. ASSUME NEW t \in Tabs, NEW next \in EventTabs, next.pc # "insert",
             next.pc # "idle" => next.kind \in EventKinds,
             tabs' = [tabs EXCEPT ![t] = next], UNCHANGED <<events, inMinute, overlapped>>
      PROVE  EngagementInv'
    <2>3. \A u \in Tabs : tabs'[u] = IF u = t THEN next ELSE tabs[u]
        BY <1>0, <1>6
    <2>7. Probed'
        <3>1. \A u \in Tabs : \A k : Inserts(u, k)' => Inserts(u, k)
            BY <1>6, <2>3 DEF Inserts
        <3> QED BY <1>6, <3>1 DEF EngagementInv, Probed
    <2>8. tabs' \in [Tabs -> EventTabs]
        BY <1>0, <1>6
    <2>9. \A u \in Tabs : tabs'[u].pc # "idle" => tabs'[u].kind \in EventKinds
        BY <1>0, <1>6, <2>3
    <2>10. \A k \in EventKinds : events[k] <= events'[k]
        BY <1>0, <1>6 DEF Tallies
    <2> QED BY <1>0, <1>4, <1>6, <2>7, <2>8, <2>9, <2>10
<1>7. NoEvent \in EventTabs /\ NoEvent.pc = "idle"
    BY DEF NoEvent, EventTabs
<1>8. ASSUME NEW t \in Tabs, InsertEvent(t) PROVE EngagementInv'
    <2> DEFINE kind == tabs[t].kind
    <2>1. /\ tabs' = [tabs EXCEPT ![t] = NoEvent] /\ Inserts(t, kind) /\ kind \in EventKinds
          /\ events' = [events EXCEPT ![kind] = events[kind] + 1]
          /\ inMinute' = [inMinute EXCEPT ![kind] = inMinute[kind] + 1] /\ overlapped' = overlapped
        BY <1>0, <1>8 DEF InsertEvent, Inserts, engagePast
    <2>2. \A u \in Tabs : tabs'[u] = IF u = t THEN NoEvent ELSE tabs[u]
        BY <1>0, <2>1
    <2>3. /\ \A k \in EventKinds : inMinute[k] \in Nat /\ events[k] \in Nat
          /\ \A k \in EventKinds : inMinute'[k] = IF k = kind THEN inMinute[k] + 1 ELSE inMinute[k]
          /\ \A k \in EventKinds : events'[k] = IF k = kind THEN events[k] + 1 ELSE events[k]
          /\ events' \in Tallies /\ inMinute' \in Tallies
        BY <1>0, <2>1 DEF Tallies
    <2>4. \A u \in Tabs : \A k : Inserts(u, k)' => Inserts(u, k) /\ u # t
        BY <1>7, <2>2 DEF Inserts
    <2> HIDE DEF kind
    <2>5. Probed'
        <3> SUFFICES ASSUME NEW k \in EventKinds, k \notin overlapped
                     PROVE  /\ inMinute'[k] <= 1
                            /\ \A u \in Tabs : Inserts(u, k)' => inMinute'[k] = 0
                            /\ \A u, v \in Tabs : Inserts(u, k)' /\ Inserts(v, k)' => u = v
            BY <2>1 DEF Probed
        <3>1. /\ inMinute[k] <= 1
              /\ \A u \in Tabs : Inserts(u, k) => inMinute[k] = 0
              /\ \A u, v \in Tabs : Inserts(u, k) /\ Inserts(v, k) => u = v
            BY DEF EngagementInv, Probed
        <3>2. CASE k = kind
            <4>1. inMinute[k] = 0 /\ \A u \in Tabs : ~Inserts(u, k)'
                BY <2>1, <2>4, <3>1, <3>2
            <4> QED BY <2>3, <3>2, <4>1
        <3>3. CASE k # kind
            BY <2>3, <2>4, <3>1, <3>3
        <3> QED BY <3>2, <3>3
    <2>6. tabs' \in [Tabs -> EventTabs]
        BY <1>0, <1>7, <2>1
    <2>7. \A u \in Tabs : tabs'[u].pc # "idle" => tabs'[u].kind \in EventKinds
        BY <1>0, <1>7, <2>2
    <2>8. \A k \in EventKinds : events[k] <= events'[k]
        BY <2>3
    <2> QED BY <1>4, <2>3, <2>5, <2>6, <2>7, <2>8
<1>9. ASSUME NEW t \in Tabs, TrackFails(t) PROVE EngagementInv'
    <2>1. tabs' = [tabs EXCEPT ![t] = NoEvent] /\ UNCHANGED <<events, inMinute, overlapped>>
        BY <1>9 DEF TrackFails, countVars, engagePast
    <2> QED BY <1>6, <1>7, <2>1
<1>10. ASSUME NEW t \in Tabs, NEW kind \in EventKinds, Track(t, kind) PROVE EngagementInv'
    <2> DEFINE next == [pc |-> "probe", kind |-> kind]
    <2>1. tabs' = [tabs EXCEPT ![t] = next] /\ UNCHANGED <<events, inMinute, overlapped>>
        BY <1>10 DEF Track, countVars, engagePast
    <2>2. next \in EventTabs /\ next.pc # "insert" /\ next.kind \in EventKinds
        BY DEF EventTabs
    <2> HIDE DEF next
    <2> QED BY <1>6, <2>1, <2>2
<1>11. ASSUME NEW kind \in EventKinds, EventAges(kind) PROVE EngagementInv'
    <2>1. /\ inMinute[kind] > 0 /\ inMinute' = [inMinute EXCEPT ![kind] = inMinute[kind] - 1]
          /\ UNCHANGED <<tabs, events, overlapped>>
        BY <1>11 DEF EventAges, browserVars, engagePast
    <2>2. /\ inMinute' \in Tallies
          /\ \A k \in EventKinds : inMinute[k] \in Nat /\ inMinute'[k] \in Nat
                    /\ inMinute'[k] <= inMinute[k]
        BY <1>0, <2>1 DEF Tallies
    <2>3. Probed'
        BY <2>1, <2>2 DEF EngagementInv, Probed, Inserts
    <2>4. \A k \in EventKinds : events[k] <= events'[k]
        BY <1>0, <2>1 DEF Tallies
    <2> QED BY <1>0, <1>4, <2>1, <2>2, <2>3, <2>4
<1> QED BY <1>5, <1>8, <1>9, <1>10, <1>11

\* The steps that change nothing but the browser's consent, the view, its stamp and
\* Crossref's cache.
LEMMA ViewStep ==
    ASSUME EngagementInv,
           \/ SignalRefuses \/ Revoke \/ Refresh \/ Stamp \/ StampAges \/ CrossrefExpires
           \/ \E analytics \in BOOLEAN : Decide(analytics)
    PROVE  EngagementInv'
<1>1. /\ UNCHANGED <<tabs, events, inMinute, endorsedAs, plc, dropping, badges, badge>>
      /\ UNCHANGED <<overlapped, madeLate, switched, unheard>>
      /\ crossref' \in {crossref, "none"} /\ rollup' \in {rollup, events}
    BY DEF SignalRefuses, Revoke, Refresh, Stamp, StampAges, CrossrefExpires, Decide,
           countVars, endorseVars, badgeVars, engagePast, browserVars
<1>2. UNCHANGED EndorsementRows /\ UNCHANGED DashboardViews
    BY <1>1 DEF EndorsementRows, DashboardViews
<1>3. EngagementTypes'
    BY <1>1, <1>2 DEF EngagementInv, EngagementTypes
<1>4. Probed'
    BY <1>1 DEF EngagementInv, Probed, Inserts
<1>5. BadgeIsCurrent'
    BY <1>1, <1>2 DEF EngagementInv, BadgeIsCurrent
<1>6. FirstThenSecond'
    BY <1>1 DEF EngagementInv, FirstThenSecond
<1>7. RollupBehind'
    BY <1>1 DEF EngagementInv, EngagementTypes, RollupBehind, Tallies
<1>8. ReadsModest'
    BY <1>1, <1>2 DEF EngagementInv, ReadsModest
<1> QED BY <1>3, <1>4, <1>5, <1>6, <1>7, <1>8 DEF EngagementInv

\* The readers' steps: an account is linked, an endorsement is made or taken back, and the
\* badge is dropped.
LEMMA EndorsementsStep ==
    ASSUME EngagementInv, NEW u \in Endorsers,
           \/ LinkBluesky(u) \/ DropBadge(u)
           \/ \E verb \in EndorseVerbs : PostEndorsement(u, verb)
           \/ \E did \in Dids : Retract(u, did)
    PROVE  EngagementInv'
<1>0. endorsedAs \in [Endorsers \X Dids -> EndorseVerbs \cup {NotEndorsed}]
    BY DEF EngagementInv, EngagementTypes
<1>1. /\ UNCHANGED <<tabs, events, inMinute, rollup, overlapped>>
      /\ UNCHANGED <<badges, crossref, unheard>>
    BY DEF LinkBluesky, DropBadge, PostEndorsement, Retract, browserVars, countVars, badgeVars,
        engagePast
<1>2. NoBadge \in BadgeStates
    BY DEF NoBadge, BadgeStates
<1>3. Probed' /\ RollupBehind'
    BY <1>1 DEF EngagementInv, Probed, RollupBehind, Inserts
<1>4. ASSUME badge' \in {badge, NoBadge} PROVE ReadsModest'
    <2>1. UNCHANGED DashboardViews
        BY <1>1 DEF DashboardViews
    <2> QED BY <1>1, <1>4, <2>1 DEF EngagementInv, ReadsModest
<1>5. CASE LinkBluesky(u)
    <2>1. /\ UNCHANGED <<endorsedAs, dropping, badge, madeLate>> /\ plc' = plc \cup {u}
          /\ switched' = IF endorsedAs[<<u,
                    "first">>] # NotEndorsed THEN switched \cup {u} ELSE switched
        BY <1>5 DEF LinkBluesky, badgeVars
    <2>2. UNCHANGED EndorsementRows
        BY <2>1 DEF EndorsementRows
    <2>3. EngagementTypes' /\ BadgeIsCurrent'
        BY <1>1, <2>1, <2>2 DEF EngagementInv, EngagementTypes, BadgeIsCurrent
    <2>4. FirstThenSecond'
        BY <2>1 DEF EngagementInv, FirstThenSecond
    <2> QED BY <1>3, <1>4, <2>1, <2>3, <2>4 DEF EngagementInv
<1>6. CASE DropBadge(u)
    <2>1. /\ UNCHANGED <<endorsedAs, plc, switched>>
          /\ badge' = NoBadge \/ (badge' = badge /\ madeLate' = TRUE)
        BY <1>6 DEF DropBadge
    <2>2. UNCHANGED EndorsementRows
        BY <2>1 DEF EndorsementRows
    <2>3. EngagementTypes'
        BY <1>1, <1>2, <2>1, <2>2 DEF EngagementInv, EngagementTypes
    <2>4. FirstThenSecond' /\ BadgeIsCurrent'
        BY <2>1, <2>2 DEF EngagementInv, FirstThenSecond, BadgeIsCurrent
    <2> QED BY <1>3, <1>4, <2>1, <2>3, <2>4 DEF EngagementInv
\* A row of the reader changes.
<1>7. ASSUME NEW did \in Dids, NEW verb \in EndorseVerbs \cup {NotEndorsed},
             endorsedAs' = [endorsedAs EXCEPT ![<<u, did>>] = verb],
             verb = NotEndorsed \/ (did = "second" <=> u \in plc),
             UNCHANGED <<plc, switched, badge, madeLate>>, u \in dropping'
      PROVE  EngagementInv'
    <2>1. <<u, did>> \in Endorsers \X Dids
        OBVIOUS
    <2>2. IsFiniteSet(EndorsementRows)'
        BY <1>7, <2>1, RowsStayFinite DEF EngagementInv
    <2>3. EngagementTypes'
        BY <1>0, <1>1, <1>7, <2>1, <2>2 DEF EngagementInv, EngagementTypes
    <2>4. BadgeIsCurrent'
        BY <1>7 DEF BadgeIsCurrent
    <2>5. \A v \in Endorsers, d \in Dids :
            endorsedAs'[<<v, d>>] = IF v = u /\ d = did THEN verb ELSE endorsedAs[<<v, d>>]
        BY <1>0, <1>7
    <2>6. FirstThenSecond'
        BY <1>7, <2>5 DEF EngagementInv, FirstThenSecond, Dids
    <2> QED BY <1>3, <1>4, <1>7, <2>3, <2>4, <2>6 DEF EngagementInv
<1>8. ASSUME NEW verb \in EndorseVerbs, PostEndorsement(u, verb) PROVE EngagementInv'
    <2> DEFINE did == IF u \in plc THEN "second" ELSE "first"
    <2>1. did \in Dids /\ (did = "second" <=> u \in plc)
        BY DEF Dids
    <2>2. /\ endorsedAs' = [endorsedAs EXCEPT ![<<u, did>>] = verb]
          /\ UNCHANGED <<plc, switched, badge, madeLate>> /\ u \in dropping'
        BY <1>8 DEF PostEndorsement, badgeVars, engagePast
    <2> HIDE DEF did
    <2> QED BY <1>7, <2>1, <2>2
<1>9. ASSUME NEW did \in Dids, Retract(u, did) PROVE EngagementInv'
    <2>1. /\ endorsedAs' = [endorsedAs EXCEPT ![<<u, did>>] = NotEndorsed]
          /\ UNCHANGED <<plc, switched, badge, madeLate>> /\ u \in dropping'
        BY <1>9 DEF Retract, badgeVars, engagePast
    <2> QED BY <1>7, <2>1
<1> QED BY <1>5, <1>6, <1>8, <1>9

\* The badge is asked for, computed, kept and dropped.
LEMMA BadgeStep ==
    ASSUME EngagementInv,
           \/ BadgeExpires
           \/ \E b \in Badges : \/ AskBadge(b) \/ LoadEndorsements(b) \/ LoadReads(b)
                                \/ LoadCitations(b) \/ StoreBadge(b)
    PROVE  EngagementInv'
<1>1. /\ UNCHANGED <<tabs, events, inMinute, rollup, overlapped>>
      /\ UNCHANGED <<endorsedAs, plc, dropping, switched>>
    BY DEF BadgeExpires, AskBadge, LoadEndorsements, LoadReads, LoadCitations, StoreBadge,
           browserVars, countVars, endorseVars, engagePast
<1>2. NoBadge \in BadgeStates /\ NoBadge.pc = "none"
    BY DEF NoBadge, BadgeStates
<1>3. Probed' /\ RollupBehind' /\ FirstThenSecond'
    BY <1>1 DEF EngagementInv, Probed, RollupBehind, FirstThenSecond, Inserts
<1>4. UNCHANGED <<EndorsementRows, DashboardViews>>
    BY <1>1 DEF EndorsementRows, DashboardViews
<1>0. /\ badges \in [Badges -> BadgeStates] /\ badge \in BadgeStates
      /\ Cardinality(EndorsementRows) \in Nat /\ events \in Tallies /\ rollup \in Tallies
      /\ crossref \in {"none", "null", "count"}
    BY FS_CardinalityType DEF EngagementInv, EngagementTypes
\* What a computation and the badge may become.
<1>5. ASSUME NEW b \in Badges, NEW next \in BadgeStates, crossref' \in {"none", "null", "count"},
             badges' = [badges EXCEPT ![b] = next],
             next.pc \in {"citations", "store"} => next.views <= DashboardViews,
             next.pc = "store" /\ next.citations = "null" => unheard',
             crossref' = "null" => unheard', unheard => unheard',
             badge' \in BadgeStates, badge' # NoBadge => badge'.views <= DashboardViews,
             badge' # NoBadge /\ badge'.citations = "null" => unheard', BadgeIsCurrent'
      PROVE  EngagementInv'
    <2>1. \A c \in Badges : badges'[c] = IF c = b THEN next ELSE badges[c]
        BY <1>0, <1>5
    <2>2. badges' \in [Badges -> BadgeStates]
        BY <1>0, <1>5
    <2>3. EngagementTypes'
        BY <1>1, <1>4, <1>5, <2>2 DEF EngagementInv, EngagementTypes
    <2>4. ReadsModest'
        <3>1. DashboardViews' = DashboardViews
            BY <1>4
        <3> QED BY <1>5, <2>1, <3>1 DEF EngagementInv, ReadsModest
    <2> QED BY <1>3, <1>5, <2>3, <2>4 DEF EngagementInv
<1>6. ASSUME UNCHANGED <<badge, madeLate>> PROVE BadgeIsCurrent'
    BY <1>1, <1>4, <1>6 DEF EngagementInv, BadgeIsCurrent
<1>7. CASE BadgeExpires
    <2>1. badge' = NoBadge /\ UNCHANGED <<badges, crossref, unheard>>
        BY <1>7 DEF BadgeExpires
    <2>2. EngagementTypes'
        BY <1>1, <1>2, <1>4, <2>1 DEF EngagementInv, EngagementTypes
    <2>3. BadgeIsCurrent' /\ ReadsModest'
        BY <1>4, <2>1 DEF EngagementInv, BadgeIsCurrent, ReadsModest
    <2> QED BY <1>3, <2>2, <2>3 DEF EngagementInv
<1>8. /\ crossref = "null" => unheard
      /\ badge # NoBadge => badge.views <= DashboardViews
      /\ badge # NoBadge /\ badge.citations = "null" => unheard
      /\ \A b \in Badges :
          /\ badges[b].pc \in {"citations", "store"} => badges[b].views <= DashboardViews
          /\ badges[b].pc = "store" /\ badges[b].citations = "null" => unheard
    BY DEF EngagementInv, ReadsModest
<1>9. ASSUME NEW b \in Badges, AskBadge(b) PROVE EngagementInv'
    <2> DEFINE next == [badges[b] EXCEPT !.pc = "endorsements"]
    <2>1. badges' = [badges EXCEPT ![b] = next] /\ UNCHANGED <<badge, madeLate, crossref, unheard>>
        BY <1>0, <1>9 DEF AskBadge, engagePast
    <2>2. next \in BadgeStates /\ next.pc = "endorsements"
        BY <1>0 DEF BadgeStates
    <2> HIDE DEF next
    <2> QED BY <1>0, <1>5, <1>6, <1>8, <2>1, <2>2
<1>10. ASSUME NEW b \in Badges, LoadEndorsements(b) PROVE EngagementInv'
    <2>0. PICK n \in Nat : n = Cardinality(EndorsementRows)
        BY <1>0
    <2> DEFINE next == [badges[b] EXCEPT !.pc = "reads", !.endorsements = n]
    <2>1. badges' = [badges EXCEPT ![b] = next] /\ UNCHANGED <<badge, madeLate, crossref, unheard>>
        BY <1>0, <1>10, <2>0 DEF LoadEndorsements, engagePast
    <2>2. next \in BadgeStates /\ next.pc = "reads"
        BY <1>0 DEF BadgeStates
    <2> HIDE DEF next
    <2> QED BY <1>0, <1>5, <1>6, <1>8, <2>1, <2>2
<1>11. ASSUME NEW b \in Badges, LoadReads(b) PROVE EngagementInv'
    <2>0. PICK n \in Nat : /\ n \in {RollupViews(rollup), Views(events, {"paper_view"})}
                           /\ badges' = [badges EXCEPT ![b].pc = "citations", ![b].views = n]
        <3>1. RollupViews(rollup) \in Nat /\ Views(events, {"paper_view"}) \in Nat
            BY <1>0, ViewsFacts DEF RollupViews
        <3> QED BY <1>11, <3>1 DEF LoadReads
    <2>3. n <= DashboardViews
        <3>1. PICK e, r : e = events /\ r = rollup OBVIOUS
        <3>2. /\ \A k \in EventKinds : r[k] <= e[k] /\ e[k] <= e[k]
              /\ e \in Tallies /\ r \in Tallies
            BY <1>0, <3>1 DEF EngagementInv, RollupBehind, Tallies
        <3>3. /\ Views(r, ViewEvents) <= Views(e, ViewEvents)
              /\ Views(e, {"paper_view"}) <= Views(e, ViewEvents)
            BY <3>2, ViewsGrow
        <3> QED BY <2>0, <3>1, <3>3 DEF DashboardViews, RollupViews
    <2> DEFINE next == [badges[b] EXCEPT !.pc = "citations", !.views = n]
    <2>1. badges' = [badges EXCEPT ![b] = next] /\ UNCHANGED <<badge, madeLate, crossref, unheard>>
        BY <1>0, <1>11, <2>0 DEF LoadReads, engagePast
    <2>2. next \in BadgeStates /\ next.pc = "citations" /\ next.views = n
        BY <1>0 DEF BadgeStates
    <2> HIDE DEF next
    <2> QED BY <1>0, <1>5, <1>6, <1>8, <2>1, <2>2, <2>3
<1>12. ASSUME NEW b \in Badges, LoadCitations(b) PROVE EngagementInv'
    <2> DEFINE next == [badges[b] EXCEPT !.pc = "store", !.citations = crossref']
    <2>1. badges' = [badges EXCEPT ![b] = next] /\ UNCHANGED <<badge, madeLate>>
        BY <1>0, <1>12 DEF LoadCitations
    <2>2. (crossref' = "null" => unheard') /\ (unheard => unheard')
        BY <1>8, <1>12 DEF LoadCitations
    <2>3. next.pc = "store" /\ next.citations = crossref' /\ next.views = badges[b].views
        BY <1>0 DEF BadgeStates
    <2>4. badges[b].pc = "citations"
        BY <1>12 DEF LoadCitations
    <2>5. crossref' \in {"null", "count"}
        BY <1>0, <1>12 DEF LoadCitations
    <2>6. next \in BadgeStates
        BY <1>0, <2>5 DEF BadgeStates
    <2> HIDE DEF next
    <2> QED BY <1>0, <1>5, <1>6, <1>8, <2>1, <2>2, <2>3, <2>4, <2>5, <2>6
<1>13. ASSUME NEW b \in Badges, StoreBadge(b) PROVE EngagementInv'
    <2> DEFINE cached == [badges[b] EXCEPT !.pc = "cached"]
    <2>1. /\ badges[b].pc = "store" /\ badges' = [badges EXCEPT ![b] = NoBadge]
          /\ UNCHANGED <<crossref, unheard>> /\ badge' \in {cached, badge}
        BY <1>13 DEF StoreBadge
    <2>2. /\ cached \in BadgeStates /\ cached.views = badges[b].views
          /\ cached.citations = badges[b].citations /\ cached.endorsements = badges[b].endorsements
        BY <1>0 DEF BadgeStates
    <2> HIDE DEF cached
    <2>3. madeLate' = (madeLate \/ (badge' # badge
                                    /\ badges[b].endorsements # Cardinality(EndorsementRows)))
        BY <1>13 DEF StoreBadge
    <2>4. BadgeIsCurrent'
        <3>1. CASE badge' = badge
            BY <1>1, <1>4, <2>3, <3>1 DEF EngagementInv, BadgeIsCurrent
        <3>2. CASE badge' # badge
            BY <1>4, <2>1, <2>2, <2>3, <3>2 DEF BadgeIsCurrent
        <3> QED BY <3>1, <3>2
    <2> QED BY <1>0, <1>2, <1>5, <1>8, <2>1, <2>2, <2>4
<1> QED BY <1>7, <1>9, <1>10, <1>11, <1>12, <1>13

\* Every step that is counted, shown or forgotten keeps EngagementInv.
LEMMA EngagementInductive == ASSUME EngagementInv, [EngagementNext]_engageVars PROVE EngagementInv'
<1>1. CASE UNCHANGED engageVars
    BY <1>1 DEF engageVars, browserVars, countVars, endorseVars, badgeVars, engagePast,
            EngagementInv, EngagementTypes, Probed, BadgeIsCurrent, FirstThenSecond, RollupBehind,
            ReadsModest, Inserts, EndorsementRows, DashboardViews
<1>2. CASE EngagementNext
    BY <1>2, EventsStep, ViewStep, EndorsementsStep, BadgeStep DEF EngagementNext
<1> QED BY <1>1, <1>2

\* What the four properties say follows.
LEMMA EngagementInvMeans ==
    EngagementInv => CountedOnce /\ BadgeIsCurrent /\ OneEndorsement /\ BadgeIsModest
<1>1. EngagementInv => CountedOnce /\ BadgeIsCurrent
    BY DEF EngagementInv, Probed, CountedOnce
<1>2. EngagementInv => OneEndorsement
    BY DEF EngagementInv, FirstThenSecond, OneEndorsement, Dids
<1>3. EngagementInv => BadgeIsModest
    BY DEF EngagementInv, ReadsModest, BadgeIsModest
<1> QED BY <1>1, <1>2, <1>3

\* An event is counted once a minute unless two requests for it overlap, the cached badge
\* shows the endorsements of the table, a reader endorses a paper once, and the badge shows no
\* more views than the dashboard (events.ts:24, endorsements.ts:102, engagement-stats.ts:79).
THEOREM EngagementCounts ==
    EngagementSpec => [](CountedOnce /\ BadgeIsCurrent /\ OneEndorsement /\ BadgeIsModest)
BY EngagementInitInv, EngagementInductive, EngagementInvMeans, PTL DEF EngagementSpec

-----------------------------------------------------------------------------
(* The brief of a day. *)

AllMakers == Crons \cup BriefAsks
Briefs == [date : Nat, edition : Nat, stubs : BOOLEAN]
MakerStates ==
    [pc : {"down", "wait", "flag", "look", "compose", "pick", "cache", "store"},
     kind : {"none", "cron", "page", "admin"}, brief : Briefs, surprised : BOOLEAN]

\* The briefs that are cached, stored, or about to be.
Held == {b \in Briefs : b # NoBrief /\
            \/ \E d \in BriefDays : live[d] = b \/ snapshots[d] = b
            \/ \E m \in AllMakers : makers[m].pc \in {"cache", "store"} /\ makers[m].brief = b}

BriefTypes ==
    /\ briefDay \in BriefDays /\ composed \in Nat
    /\ makers \in [AllMakers -> MakerStates]
    /\ live \in [BriefDays -> Briefs] /\ snapshots \in [BriefDays -> Briefs]

\* An edition is of one day, and of none to come.
EditionsDated ==
    /\ \A b \in Held : b.date \in 1..briefDay /\ b.edition \in 1..composed
    /\ \A b, c \in Held : b.edition = c.edition => b.date = c.date

UnderDates ==
    \A d \in BriefDays : /\ live[d] # NoBrief => live[d].date = d
                         /\ snapshots[d] # NoBrief => snapshots[d].date = d

\* A cron that is not surprised is about to write the first snapshot of its day.
Unsurprised(s) ==
    ~s.surprised => /\ s.pc = "compose" => snapshots[briefDay] = NoBrief
                    /\ s.pc \in {"pick", "cache", "store"} => snapshots[s.brief.date] = NoBrief

\* In a first hour without an excuse, a cron whose tick is over leaves a snapshot.
InHour(p, s) ==
    firstHour /\ ~excused =>
        /\ s.pc = "wait" /\ p \in ticked => snapshots[briefDay] # NoBrief
        /\ s.pc \in {"pick", "cache", "store"} => s.brief.date = briefDay

MakerOk(m, s) ==
    /\ m \in Crons => s.kind = "cron" /\ Unsurprised(s) /\ InHour(m, s)
    /\ m \in BriefAsks => s.kind # "cron"
    /\ s.pc = "pick" => s.brief.date \in 1..briefDay
    /\ s.pc \in {"cache", "store"} => s.brief # NoBrief

NotPaused == firstHour /\ ~excused => ~paused

BriefInv ==
    /\ BriefTypes /\ EditionsDated /\ UnderDates /\ NotPaused
    /\ \A m \in AllMakers : MakerOk(m, makers[m])
    /\ EveryDayKept /\ SnapshotsStay

\* Another edition is another number.
LEMMA EditionsStayDated ==
    ASSUME BriefTypes, EditionsDated, briefDay' \in Nat, briefDay <= briefDay', composed' \in Nat,
           composed <= composed', NEW new, Held' \subseteq Held \cup {new},
           \/ new \in Held
           \/ new.date \in 1..briefDay /\ new.edition = composed + 1 /\ composed' = composed + 1
    PROVE  EditionsDated'
<1>0. briefDay \in Nat /\ composed \in Nat /\ MaxBriefDays \in Nat
    BY BriefAssumption DEF BriefTypes, BriefDays
<1>1. \A b \in Held : b.date \in 1..briefDay /\ b.edition \in 1..composed
    BY DEF EditionsDated
<1>2. \A b \in Held \cup {new} : b.date \in 1..briefDay /\ b.edition \in 1..composed'
    BY <1>0, <1>1
<1>3. \A b, c \in Held \cup {new} : b.edition = c.edition => b.date = c.date
    BY <1>0, <1>1 DEF EditionsDated
<1>4. \A b \in Held' : b.date \in 1..briefDay' /\ b.edition \in 1..composed'
    BY <1>0, <1>2
<1> QED BY <1>3, <1>4 DEF EditionsDated

\* One of those who make briefs takes a step; the snapshots stay.
LEMMA OneMakerMoves ==
    ASSUME BriefInv, NEW m \in AllMakers, NEW next \in MakerStates,
           makers' = [makers EXCEPT ![m] = next],
           UNCHANGED <<briefDay, firstHour, paused, snapshots, missed, rewritten>>,
           ticked' \in {ticked, ticked \cup {m}}, excused => excused', MakerOk(m, next)',
           live' \in [BriefDays -> Briefs], \A d \in BriefDays : live'[d] # NoBrief
               => live'[d].date = d,
           composed' \in Nat, EditionsDated'
    PROVE  BriefInv'
<1>0. makers \in [AllMakers -> MakerStates]
    BY DEF BriefInv, BriefTypes
<1>1. BriefTypes'
    BY <1>0 DEF BriefInv, BriefTypes
<1>2. UnderDates' /\ NotPaused'
    BY DEF BriefInv, UnderDates, NotPaused
<1>3. ASSUME NEW n \in AllMakers PROVE MakerOk(n, makers[n])'
    <2>1. CASE n = m
        <3>1. makers'[n] = next BY <1>0, <2>1
        <3> QED BY <2>1, <3>1 DEF MakerOk, Unsurprised, InHour
    <2>2. CASE n # m
        <3>1. makers'[n] = makers[n] /\ (n \in ticked' <=> n \in ticked)
            BY <1>0, <2>2
        <3>2. MakerOk(n, makers[n])
            BY DEF BriefInv
        <3> QED BY <3>1, <3>2 DEF MakerOk, Unsurprised, InHour
    <2> QED BY <2>1, <2>2
<1>4. EveryDayKept' /\ SnapshotsStay'
    BY DEF BriefInv, EveryDayKept, SnapshotsStay
<1> QED BY <1>1, <1>2, <1>3, <1>4 DEF BriefInv

\* A step of one that holds no brief that was not held before.
LEMMA OneMakerKeeps ==
    ASSUME BriefInv, NEW m \in AllMakers, NEW next \in MakerStates,
           makers' = [makers EXCEPT ![m] = next],
           UNCHANGED <<briefDay, firstHour, paused, snapshots, missed, rewritten, live, composed>>,
           ticked' \in {ticked, ticked \cup {m}}, excused => excused', MakerOk(m, next)',
           next.pc \in {"cache", "store"} => next.brief \in Held
    PROVE  BriefInv'
<1>0. /\ makers \in [AllMakers -> MakerStates] /\ live \in [BriefDays -> Briefs]
      /\ briefDay \in Nat /\ composed \in Nat
    BY DEF BriefInv, BriefTypes, BriefDays
<1>1. \A n \in AllMakers : makers'[n] = IF n = m THEN next ELSE makers[n]
    BY <1>0
<1>2. Held' \subseteq Held
    BY <1>1 DEF Held
<1>3. EditionsDated'
    <2>1. \A b \in Held' : b \in Held BY <1>2
    <2> QED BY <2>1 DEF BriefInv, EditionsDated
<1> QED BY <1>0, <1>3, OneMakerMoves DEF BriefInv, UnderDates

\* The briefs begin with BriefInv.
LEMMA BriefInitInv == ASSUME BriefInit PROVE BriefInv
<1>1. NoBrief \in Briefs
    BY DEF NoBrief, Briefs
<1>2. /\ Down \in MakerStates /\ NoBriefAsk \in MakerStates
      /\ Down.pc = "down" /\ Down.kind = "cron" /\ NoBriefAsk.pc = "wait"
                /\ NoBriefAsk.kind = "none"
    BY <1>1 DEF Down, Waiting, NoBriefAsk, MakerStates
<1>3. /\ briefDay = 1 /\ composed = 0 /\ firstHour = FALSE /\ missed = {} /\ rewritten = {}
      /\ makers \in [AllMakers -> MakerStates]
      /\ \A m \in AllMakers : makers[m] = IF m \in Crons THEN Down ELSE NoBriefAsk
      /\ live = [d \in BriefDays |-> NoBrief] /\ snapshots = [d \in BriefDays |-> NoBrief]
    BY <1>2 DEF BriefInit, AllMakers
<1>4. BriefTypes
    BY <1>1, <1>3, BriefAssumption DEF BriefTypes, BriefDays
<1>5. Held = {}
    BY <1>2, <1>3 DEF Held
<1>6. \A m \in AllMakers : MakerOk(m, makers[m])
    BY <1>2, <1>3, BriefAssumption DEF MakerOk, Unsurprised, InHour
<1> QED BY <1>3, <1>4, <1>5, <1>6
        DEF BriefInv, EditionsDated, UnderDates, NotPaused, EveryDayKept, SnapshotsStay

\* Those at rest.
LEMMA RestFacts ==
    /\ NoBrief \in Briefs /\ Waiting \in MakerStates /\ Waiting.pc = "wait" /\ Waiting.kind = "cron"
    /\ Down \in MakerStates /\ Down.pc = "down" /\ Down.kind = "cron"
    /\ NoBriefAsk \in MakerStates /\ NoBriefAsk.pc = "wait" /\ NoBriefAsk.kind = "none"
<1>1. NoBrief \in Briefs
    BY DEF NoBrief, Briefs
<1> QED BY <1>1 DEF Down, Waiting, NoBriefAsk, MakerStates

\* Time, the timers' drift and the flag.
LEMMA TimeStep == ASSUME BriefInv, TimePasses \/ Drifts \/ Pause PROVE BriefInv'
<1>0. /\ briefDay \in BriefDays /\ briefDay \in Nat /\ MaxBriefDays \in Nat
      /\ snapshots \in [BriefDays -> Briefs] /\ composed \in Nat
    BY BriefAssumption DEF BriefInv, BriefTypes, BriefDays
<1>1. UNCHANGED <<makers, live, snapshots, composed, rewritten>>
    BY DEF TimePasses, Drifts, Pause, DayPasses, BriefFault, briefBounds
<1>2. UNCHANGED Held
    BY <1>1 DEF Held
<1>3. CASE TimePasses \/ Drifts
    <2>1. DayPasses
        BY <1>3 DEF TimePasses, Drifts
    <2>2. briefDay' \in BriefDays /\ briefDay' \in {briefDay, briefDay + 1} /\ briefDay <= briefDay'
        BY <1>0, <2>1 DEF DayPasses, BriefDays
    <2>3. BriefTypes'
        BY <1>1, <2>2 DEF BriefInv, BriefTypes
    <2>4. EditionsDated' /\ UnderDates'
        <3>1. \A n \in 1..briefDay : n \in 1..briefDay'
            BY <1>0, <2>2
        <3> QED BY <1>1, <1>2, <3>1 DEF BriefInv, EditionsDated, UnderDates
    <2>5. snapshots[briefDay + 1] = NoBrief \/ briefDay' = briefDay
        <3> SUFFICES ASSUME briefDay' = briefDay + 1, snapshots[briefDay + 1] # NoBrief PROVE FALSE
            BY <2>2
        <3>1. briefDay + 1 \in BriefDays BY <2>2
        <3>2. PICK b : b = snapshots[briefDay + 1] OBVIOUS
        <3>3. b \in Held /\ b.date = briefDay + 1
            BY <1>0, <3>1, <3>2 DEF BriefInv, UnderDates, Held
        <3>4. b.date \in 1..briefDay
            BY <3>3 DEF BriefInv, EditionsDated
        <3> QED BY <1>0, <3>3, <3>4
    <2>6. \A m \in AllMakers : MakerOk(m, makers[m])
        BY DEF BriefInv
    <2>7. CASE TimePasses
        <3>1. /\ InTime /\ ticked' = {} /\ excused' = paused /\ paused' = paused
              /\ missed' = missed \/ (firstHour /\ ~excused /\ snapshots[briefDay] = NoBrief
                                      /\ \E p \in Crons : makers[p] # Down)
            BY <2>7 DEF TimePasses, DayPasses
        <3>2. \A p \in Crons : makers[p] = Down \/ (makers[p] = Waiting /\ p \in ticked)
            BY <3>1 DEF InTime
        <3>3. missed' = missed
            <4> SUFFICES ASSUME firstHour, ~excused, snapshots[briefDay] = NoBrief,
                                NEW p \in Crons, makers[p] # Down
                         PROVE FALSE
                BY <3>1
            <4>1. makers[p] = Waiting /\ p \in ticked /\ p \in AllMakers
                BY <3>2 DEF AllMakers
            <4> QED BY <2>6, <4>1, RestFacts DEF MakerOk, InHour
        <3>4. ASSUME NEW m \in AllMakers PROVE MakerOk(m, makers[m])'
            <4>1. m \in Crons => makers[m].pc \in {"down", "wait"}
                BY <3>2, RestFacts
            <4>2. \A n \in 1..briefDay : n \in 1..briefDay'
                BY <1>0, <2>2
            <4> QED BY <1>1, <2>6, <3>1, <4>1, <4>2 DEF MakerOk, Unsurprised, InHour
        <3> QED BY <1>1, <2>3, <2>4, <3>1, <3>3, <3>4
                DEF BriefInv, NotPaused, EveryDayKept, SnapshotsStay
    <2>8. CASE Drifts
        <3>1. excused' = TRUE /\ missed' = missed
            BY <2>8 DEF Drifts
        <3>4. ASSUME NEW m \in AllMakers PROVE MakerOk(m, makers[m])'
            <4>1. \A n \in 1..briefDay : n \in 1..briefDay'
                BY <1>0, <2>2
            <4>2. snapshots[briefDay] = NoBrief => snapshots[briefDay'] = NoBrief
                BY <2>2, <2>5
            <4> QED BY <1>1, <2>6, <3>1, <4>1, <4>2 DEF MakerOk, Unsurprised, InHour
        <3> QED BY <1>1, <2>3, <2>4, <3>1, <3>4
                DEF BriefInv, NotPaused, EveryDayKept, SnapshotsStay
    <2> QED BY <1>3, <2>7, <2>8
<1>4. CASE Pause
    <2>1. UNCHANGED <<briefDay, firstHour, ticked, missed>> /\ excused' = (excused \/ firstHour)
        BY <1>4 DEF Pause, BriefFault
    <2>2. BriefTypes' /\ EditionsDated' /\ UnderDates'
        BY <1>1, <1>2, <2>1 DEF BriefInv, BriefTypes, EditionsDated, UnderDates
    <2>3. \A m \in AllMakers : MakerOk(m, makers[m])'
        BY <1>1, <2>1 DEF BriefInv, MakerOk, Unsurprised, InHour
    <2> QED BY <1>1, <2>1, <2>2, <2>3 DEF BriefInv, NotPaused, EveryDayKept, SnapshotsStay
<1> QED BY <1>3, <1>4

\* The cached brief of a day runs out.
LEMMA LiveStep == ASSUME BriefInv, NEW d \in BriefDays, LiveExpires(d) PROVE BriefInv'
<1>1. /\ live' = [live EXCEPT ![d] = NoBrief]
      /\ UNCHANGED <<briefDay, firstHour, paused, ticked, makers, snapshots, composed>>
      /\ UNCHANGED <<excused, missed, rewritten>>
    BY DEF LiveExpires, NoBriefFault, briefTime, briefPast, briefBounds
<1>2. live \in [BriefDays -> Briefs] /\ live' \in [BriefDays -> Briefs]
    BY <1>1, RestFacts DEF BriefInv, BriefTypes
<1>3. \A e \in BriefDays : live'[e] # NoBrief => live'[e] = live[e]
    BY <1>1, <1>2
<1>4. \A b \in Held' : b \in Held
    BY <1>1, <1>3 DEF Held
<1>5. EditionsDated'
    BY <1>1, <1>4 DEF BriefInv, EditionsDated
<1>6. BriefTypes' /\ UnderDates' /\ NotPaused' /\ EveryDayKept' /\ SnapshotsStay'
    BY <1>1, <1>2, <1>3
    DEF BriefInv, BriefTypes, UnderDates, NotPaused, EveryDayKept, SnapshotsStay
<1>7. \A m \in AllMakers : MakerOk(m, makers[m])'
    BY <1>1 DEF BriefInv, MakerOk, Unsurprised, InHour
<1> QED BY <1>5, <1>6, <1>7 DEF BriefInv

\* What a failure changes of what the invariant looks at.
LEMMA FaultFacts ==
    ASSUME BriefFault \/ NoBriefFault
    PROVE  (excused => excused') /\ UNCHANGED <<missed, rewritten, composed>>
<1>1. CASE BriefFault
    <2>1. excused' = (excused \/ firstHour)
        BY <1>1 DEF BriefFault
    <2> QED BY <1>1, <2>1 DEF BriefFault
<1>2. CASE NoBriefFault
    <2>1. excused' = excused
        BY <1>2 DEF NoBriefFault, briefPast
    <2> QED BY <1>2, <2>1 DEF NoBriefFault, briefPast, briefBounds
<1> QED BY <1>1, <1>2

\* The steps of a cron before it composes.
LEMMA CronStep ==
    ASSUME BriefInv, NEW p \in Crons,
           Starts(p) \/ Ticks(p) \/ Dies(p) \/ CheckHour(p) \/ LooksUp(p)
    PROVE  BriefInv'
<1>0. /\ makers \in [AllMakers -> MakerStates] /\ p \in AllMakers /\ p \notin BriefAsks
      /\ makers[p] \in MakerStates /\ makers[p].kind = "cron" /\ MakerOk(p, makers[p])
    BY BriefAssumption DEF BriefInv, BriefTypes, AllMakers, MakerOk
<1>1. /\ UNCHANGED <<briefDay, firstHour, paused, snapshots, missed, rewritten, live, composed>>
      /\ ticked' \in {ticked, ticked \cup {p}} /\ (excused => excused')
    BY FaultFacts DEF Starts, Ticks, Dies, CheckHour, LooksUp, briefTime
\* A cron that holds no brief.
<1>2. ASSUME NEW next \in MakerStates, makers' = [makers EXCEPT ![p] = next], next.kind = "cron",
             next.pc \in {"down", "wait", "flag", "look", "compose"},
             next.pc = "compose" => next.surprised \/ snapshots[briefDay] = NoBrief,
             next.pc = "wait" /\ firstHour /\ ~excused' => snapshots[briefDay] # NoBrief
      PROVE  BriefInv'
    <2>1. MakerOk(p, next)'
        BY <1>0, <1>1, <1>2 DEF MakerOk, Unsurprised, InHour
    <2> QED BY <1>0, <1>1, <1>2, <2>1, OneMakerKeeps
<1>3. CASE Starts(p) \/ Ticks(p)
    <2> DEFINE next == [Waiting EXCEPT !.pc = "flag"]
    <2>1. makers' = [makers EXCEPT ![p] = next]
        BY <1>0, <1>3 DEF Starts, Ticks
    <2>2. next \in MakerStates /\ next.pc = "flag" /\ next.kind = "cron"
        BY RestFacts DEF MakerStates
    <2> HIDE DEF next
    <2> QED BY <1>2, <2>1, <2>2
<1>4. CASE Dies(p)
    BY <1>2, <1>4, RestFacts DEF Dies
<1>5. CASE CheckHour(p)
    <2> DEFINE to == IF paused \/ ~firstHour THEN "wait" ELSE "look"
    <2> DEFINE next == [makers[p] EXCEPT !.pc = to]
    <2>1. makers' = [makers EXCEPT ![p] = next]
        BY <1>0, <1>5 DEF CheckHour
    <2>2. next \in MakerStates /\ next.pc = to /\ next.kind = "cron" /\ to \in {"wait", "look"}
        BY <1>0 DEF MakerStates
    <2>3. to = "wait" => ~(firstHour /\ ~excused')
        BY <1>1 DEF BriefInv, NotPaused
    <2> HIDE DEF next, to
    <2> QED BY <1>2, <2>1, <2>2, <2>3
<1>6. CASE LooksUp(p)
    <2>1. CASE makers' = [makers EXCEPT ![p].pc =
                              IF snapshots[briefDay] # NoBrief THEN "wait" ELSE "compose"]
        <3> DEFINE to == IF snapshots[briefDay] # NoBrief THEN "wait" ELSE "compose"
        <3> DEFINE next == [makers[p] EXCEPT !.pc = to]
        <3>1. makers' = [makers EXCEPT ![p] = next]
            BY <1>0, <2>1
        <3>2. next \in MakerStates /\ next.pc = to /\ next.kind = "cron"
            /\ to \in {"wait", "compose"}
            BY <1>0 DEF MakerStates
        <3>3. to = "wait" <=> snapshots[briefDay] # NoBrief
            OBVIOUS
        <3> HIDE DEF next, to
        <3> QED BY <1>2, <3>1, <3>2, <3>3
    <2>2. CASE makers' = [makers EXCEPT ![p].pc = "compose", ![p].surprised = TRUE]
        <3> DEFINE next == [makers[p] EXCEPT !.pc = "compose", !.surprised = TRUE]
        <3>1. makers' = [makers EXCEPT ![p] = next]
            BY <1>0, <2>2
        <3>2. next \in MakerStates /\ next.pc = "compose" /\ next.kind = "cron" /\ next.surprised
            BY <1>0 DEF MakerStates
        <3> HIDE DEF next
        <3> QED BY <1>2, <3>1, <3>2
    <2> QED BY <1>6, <2>1, <2>2 DEF LooksUp
<1> QED BY <1>3, <1>4, <1>5, <1>6

\* The steps of those who compose: what is asked for, read, picked, cached, given up.
LEMMA ComposeStep ==
    ASSUME BriefInv, NEW m \in AllMakers,
           \/ m \in BriefAsks /\ \E kind \in {"page", "admin"} : AskBrief(m, kind)
           \/ ReadsLive(m) \/ Picks(m) \/ CachesBrief(m) \/ GivesUpBrief(m)
    PROVE  BriefInv'
<1>0. /\ makers \in [AllMakers -> MakerStates] /\ makers[m] \in MakerStates
      /\ MakerOk(m, makers[m]) /\ (m \in Crons \/ m \in BriefAsks)
      /\ ~(m \in Crons /\ m \in BriefAsks)
      /\ live \in [BriefDays -> Briefs] /\ snapshots \in [BriefDays -> Briefs]
      /\ briefDay \in BriefDays /\ briefDay \in Nat /\ composed \in Nat
    BY BriefAssumption DEF BriefInv, BriefTypes, AllMakers, BriefDays
<1>1. /\ UNCHANGED <<briefDay, firstHour, paused, snapshots, missed, rewritten>>
      /\ ticked' = ticked /\ (excused => excused')
    BY FaultFacts DEF AskBrief, ReadsLive, Picks, CachesBrief, GivesUpBrief, briefTime, briefPast
<1>2. \A e \in BriefDays : live[e] # NoBrief => live[e] \in Held /\ live[e].date = e
    BY <1>0 DEF Held, BriefInv, UnderDates
<1>3. makers[m].pc \in {"cache", "store"} => makers[m].brief \in Held
    BY <1>0 DEF Held, MakerOk, MakerStates
<1>r. /\ Rest(m) \in MakerStates /\ Rest(m).pc = "wait"
      /\ (m \in Crons => Rest(m).kind = "cron") /\ (m \in BriefAsks => Rest(m).kind # "cron")
    BY <1>0, RestFacts DEF Rest
\* A request, or a cron in an hour with an excuse, is at rest again.
<1>4. ASSUME makers' = [makers EXCEPT ![m] = Rest(m)], UNCHANGED <<live, composed>>,
             m \in Crons => ~(firstHour /\ ~excused')
      PROVE  BriefInv'
    <2>1. MakerOk(m, Rest(m))'
        BY <1>r, <1>1, <1>4 DEF MakerOk, Unsurprised, InHour
    <2>2. ~(Rest(m).pc \in {"cache", "store"})
        BY <1>r
    <2> QED BY <1>r, <1>1, <1>4, <2>1, <2>2, OneMakerKeeps
<1>5. ASSUME m \in BriefAsks, NEW kind \in {"page", "admin"}, AskBrief(m, kind) PROVE BriefInv'
    <2>0. PICK next : next = [makers[m] EXCEPT !.pc = "compose", !.kind = kind]
        OBVIOUS
    <2>1. makers' = [makers EXCEPT ![m] = next] /\ UNCHANGED <<live, composed>>
        BY <1>0, <1>5, <2>0 DEF AskBrief
    <2>2. next \in MakerStates /\ next.pc = "compose" /\ next.kind = kind
        BY <1>0, <2>0 DEF MakerStates
    <2>3. MakerOk(m, next)'
        BY <1>0, <1>5, <2>2 DEF MakerOk
    <2> QED BY <1>1, <2>1, <2>2, <2>3, OneMakerKeeps
<1>6. CASE ReadsLive(m)
    <2>1. makers[m].pc = "compose" /\ UNCHANGED <<live, composed>>
        BY <1>6, FaultFacts DEF ReadsLive
    <2>2. ASSUME makers' = [makers EXCEPT ![m].pc = "pick", ![m].brief.date = briefDay]
          PROVE  BriefInv'
        <3>0. PICK dated : dated = [makers[m].brief EXCEPT !.date = briefDay]
            OBVIOUS
        <3>n. PICK next : next = [makers[m] EXCEPT !.pc = "pick", !.brief = dated]
            OBVIOUS
        <3>1. dated \in Briefs /\ dated.date = briefDay
            BY <1>0, <3>0 DEF MakerStates, Briefs
        <3>2. makers' = [makers EXCEPT ![m] = next]
            BY <1>0, <2>2, <3>0, <3>n DEF MakerStates
        <3>3. /\ next \in MakerStates /\ next.pc = "pick" /\ next.kind = makers[m].kind
              /\ next.brief = dated /\ next.surprised = makers[m].surprised
            BY <1>0, <3>1, <3>n DEF MakerStates
        <3>4. briefDay \in 1..briefDay
            BY <1>0 DEF BriefDays
        <3>5. MakerOk(m, next)'
            BY <1>0, <1>1, <2>1, <3>1, <3>3, <3>4 DEF MakerOk, Unsurprised, InHour
        <3> QED BY <1>1, <2>1, <3>2, <3>3, <3>5, OneMakerKeeps
    <2>3. CASE live[briefDay] # NoBrief /\ makers[m].kind = "page"
               /\ makers' = [makers EXCEPT ![m] = Rest(m)]
        <3>1. m \notin Crons
            BY <1>0, <2>3 DEF MakerOk
        <3> QED BY <1>4, <2>1, <2>3, <3>1
    <2>4. CASE /\ live[briefDay] # NoBrief
               /\ makers' = [makers EXCEPT ![m] =
                                [makers[m] EXCEPT !.pc = "store", !.brief = live[briefDay]]]
        <3>0. PICK next : next = [makers[m] EXCEPT !.pc = "store", !.brief = live[briefDay]]
            OBVIOUS
        <3>1. live[briefDay] \in Held /\ live[briefDay].date = briefDay
              /\ live[briefDay] \in Briefs /\ live[briefDay] # NoBrief
            BY <1>0, <1>2, <2>4
        <3>2. /\ next \in MakerStates /\ next.pc = "store" /\ next.kind = makers[m].kind
              /\ next.brief = live[briefDay] /\ next.surprised = makers[m].surprised
            BY <1>0, <3>0, <3>1 DEF MakerStates
        <3>3. makers' = [makers EXCEPT ![m] = next]
            BY <2>4, <3>0
        <3>5. MakerOk(m, next)'
            BY <1>0, <1>1, <2>1, <3>1, <3>2 DEF MakerOk, Unsurprised, InHour
        <3> QED BY <1>1, <2>1, <3>1, <3>2, <3>3, <3>5, OneMakerKeeps
    <2>5. \/ /\ live[briefDay] # NoBrief
             /\ makers' = [makers EXCEPT ![m] =
                               IF makers[m].kind = "page" THEN Rest(m)
                               ELSE [makers[m] EXCEPT !.pc = "store", !.brief = live[briefDay]]]
          \/ makers' = [makers EXCEPT ![m].pc = "pick", ![m].brief.date = briefDay]
        BY <1>6 DEF ReadsLive
    <2> QED BY <2>2, <2>3, <2>4, <2>5
<1>7. CASE Picks(m)
    <2>1. PICK new \in Briefs :
            /\ new.date = makers[m].brief.date /\ new.edition = composed + 1
            /\ makers' = [makers EXCEPT ![m] = [makers[m] EXCEPT !.pc = "cache", !.brief = new]]
        <3>1. PICK yes, n : yes = TRUE /\ n = composed + 1 /\ yes \in BOOLEAN
            OBVIOUS
        <3>2. composed' = n /\ n \in Nat /\ makers[m].brief \in Briefs
            BY <1>0, <1>7, <3>1 DEF Picks, MakerStates
        <3>3. CASE makers' = [makers EXCEPT ![m].pc = "cache", ![m].brief.edition = composed']
            <4> DEFINE new == [makers[m].brief EXCEPT !.edition = n]
            <4>1. new \in Briefs /\ new.date = makers[m].brief.date /\ new.edition = n
                BY <3>2 DEF Briefs
            <4>2. makers' = [makers EXCEPT ![m] = [makers[m] EXCEPT !.pc = "cache", !.brief = new]]
                BY <1>0, <3>2, <3>3 DEF MakerStates
            <4> QED BY <3>1, <4>1, <4>2
        <3>4. CASE makers' = [makers EXCEPT ![m].pc = "cache", ![m].brief.edition = composed',
                                            ![m].brief.stubs = TRUE]
            <4> DEFINE new == [makers[m].brief EXCEPT !.edition = n, !.stubs = yes]
            <4>1. new \in Briefs /\ new.date = makers[m].brief.date /\ new.edition = n
                BY <3>1, <3>2 DEF Briefs
            <4>2. makers' = [makers EXCEPT ![m] = [makers[m] EXCEPT !.pc = "cache", !.brief = new]]
                BY <1>0, <3>1, <3>2, <3>4 DEF MakerStates
            <4> QED BY <3>1, <4>1, <4>2
        <3> QED BY <1>7, <3>3, <3>4 DEF Picks
    <2>n. PICK next : next = [makers[m] EXCEPT !.pc = "cache", !.brief = new]
        OBVIOUS
    <2>2. /\ makers[m].pc = "pick" /\ live' = live /\ composed' = composed + 1
          /\ makers' = [makers EXCEPT ![m] = next]
        BY <1>7, <2>1, <2>n DEF Picks
    <2>3. makers[m].brief.date \in 1..briefDay
        BY <1>0, <2>2 DEF MakerOk
    <2>4. new \in Briefs /\ new.date = makers[m].brief.date /\ new.edition = composed + 1
        BY <2>1
    <2>5. new # NoBrief
        BY <1>0, <2>3, <2>4 DEF NoBrief
    <2>6. /\ next \in MakerStates /\ next.pc = "cache" /\ next.kind = makers[m].kind
          /\ next.brief = new /\ next.surprised = makers[m].surprised
        BY <1>0, <2>4, <2>n DEF MakerStates
    <2>7. \A n \in AllMakers : makers'[n] = IF n = m THEN next ELSE makers[n]
        BY <1>0, <2>2
    <2>8. Held' \subseteq Held \cup {new}
        BY <1>1, <2>2, <2>6, <2>7 DEF Held
    <2>9. EditionsDated'
        BY <1>0, <1>1, <2>2, <2>3, <2>4, <2>8, EditionsStayDated DEF BriefInv
    <2>10. MakerOk(m, next)'
        BY <1>0, <1>1, <2>2, <2>4, <2>5, <2>6 DEF MakerOk, Unsurprised, InHour
    <2>11. composed' \in Nat /\ live' \in [BriefDays -> Briefs]
           /\ \A e \in BriefDays : live'[e] # NoBrief => live'[e].date = e
        BY <1>0, <1>2, <2>2
    <2> QED BY <1>1, <2>2, <2>6, <2>9, <2>10, <2>11, OneMakerMoves
<1>8. CASE CachesBrief(m)
    <2>0. PICK b : b = makers[m].brief
        OBVIOUS
    <2>1. /\ makers[m].pc = "cache" /\ composed' = composed
          /\ live' \in {live, [live EXCEPT ![b.date] = b]}
          /\ makers' = [makers EXCEPT ![m] = IF makers[m].kind = "page" THEN Rest(m)
                                             ELSE [makers[m] EXCEPT !.pc = "store"]]
        BY <1>8, <2>0, FaultFacts DEF CachesBrief
    <2>2. b \in Held /\ b \in Briefs /\ b # NoBrief /\ b.date \in BriefDays
        BY <1>0, <1>3, <2>0, <2>1, BriefAssumption DEF MakerOk, MakerStates, BriefInv,
            EditionsDated, BriefDays
    <2>3. /\ live' \in [BriefDays -> Briefs]
          /\ \A e \in BriefDays : live'[e] = live[e] \/ (live'[e] = b /\ e = b.date)
        BY <1>0, <2>1, <2>2
    <2>4. PICK next \in MakerStates :
            /\ makers' = [makers EXCEPT ![m] = next]
            /\ next.pc = "wait" => m \notin Crons /\ next.kind # "cron"
            /\ next.pc # "wait" => /\ next.pc = "store" /\ next.brief = b
                                  /\ next.kind = makers[m].kind
                                            /\ next.surprised = makers[m].surprised
        <3>1. CASE makers[m].kind = "page"
            <4>1. m \notin Crons /\ m \in BriefAsks
                BY <1>0, <3>1 DEF MakerOk
            <4> QED BY <1>r, <2>1, <3>1, <4>1
        <3>2. CASE makers[m].kind # "page"
            <4> DEFINE next == [makers[m] EXCEPT !.pc = "store"]
            <4>1. next \in MakerStates /\ next.pc = "store" /\ next.kind = makers[m].kind
                  /\ next.brief = b /\ next.surprised = makers[m].surprised
                BY <1>0, <2>0 DEF MakerStates
            <4> QED BY <2>1, <3>2, <4>1
        <3> QED BY <3>1, <3>2
    <2>5. \A n \in AllMakers : makers'[n] = IF n = m THEN next ELSE makers[n]
        BY <1>0, <2>4
    <2>6. Held' \subseteq Held \cup {b}
        BY <1>1, <2>3, <2>4, <2>5 DEF Held
    <2>7. EditionsDated'
        BY <1>0, <1>1, <2>1, <2>2, <2>6, EditionsStayDated DEF BriefInv
    <2>8. MakerOk(m, next)'
        BY <1>0, <1>1, <2>0, <2>1, <2>2, <2>4 DEF MakerOk, Unsurprised, InHour
    <2>9. \A e \in BriefDays : live'[e] # NoBrief => live'[e].date = e
        BY <1>2, <2>3
    <2> QED BY <1>0, <1>1, <2>1, <2>3, <2>4, <2>7, <2>8, <2>9, OneMakerMoves
<1>9. CASE GivesUpBrief(m)
    <2>1. makers' = [makers EXCEPT ![m] = Rest(m)] /\ UNCHANGED <<live, composed>>
          /\ excused' = (excused \/ firstHour)
        BY <1>9 DEF GivesUpBrief, BriefFault
    <2> QED BY <1>4, <2>1
<1> QED BY <1>5, <1>6, <1>7, <1>8, <1>9

\* A snapshot is stored.
LEMMA StoreStep == ASSUME BriefInv, NEW m \in AllMakers, StoresSnapshot(m) PROVE BriefInv'
<1> DEFINE b == makers[m].brief
           busy(n) == makers[n].pc \in {"compose", "pick", "cache", "store"}
<1>0. /\ makers \in [AllMakers -> MakerStates] /\ makers[m] \in MakerStates
      /\ MakerOk(m, makers[m]) /\ (m \in Crons \/ m \in BriefAsks)
      /\ ~(m \in Crons /\ m \in BriefAsks)
      /\ snapshots \in [BriefDays -> Briefs]
      /\ briefDay \in BriefDays /\ briefDay \in Nat /\ composed \in Nat
    BY BriefAssumption DEF BriefInv, BriefTypes, AllMakers, BriefDays
<1>1. /\ UNCHANGED <<briefDay, firstHour, paused, ticked, live, composed, excused, missed>>
      /\ makers[m].pc = "store" /\ snapshots' = [snapshots EXCEPT ![b.date] = b]
      /\ makers' = [n \in AllMakers |->
            IF n = m THEN Rest(m)
            ELSE [makers[n] EXCEPT !.surprised = makers[n].surprised \/ busy(n)]]
    BY <1>0 DEF StoresSnapshot, briefTime, briefBounds
<1>2. b \in Held /\ b \in Briefs /\ b # NoBrief /\ b.date \in BriefDays
    BY <1>0, <1>1, BriefAssumption DEF Held, MakerOk, MakerStates, BriefInv, EditionsDated,
        BriefDays
<1>3. snapshots' \in [BriefDays -> Briefs]
      /\ \A e \in BriefDays : snapshots'[e] = IF e = b.date THEN b ELSE snapshots[e]
    BY <1>0, <1>1, <1>2
<1>r. /\ Rest(m) \in MakerStates /\ Rest(m).pc = "wait"
      /\ (m \in Crons => Rest(m).kind = "cron") /\ (m \in BriefAsks => Rest(m).kind # "cron")
    BY <1>0, RestFacts DEF Rest
<1>4. ASSUME NEW n \in AllMakers, n # m
      PROVE  /\ makers'[n] \in MakerStates /\ makers'[n].pc = makers[n].pc
             /\ makers'[n].kind = makers[n].kind /\ makers'[n].brief = makers[n].brief
             /\ busy(n) => makers'[n].surprised
    <2> DEFINE told == makers[n].surprised \/ busy(n)
    <2>1. makers[n] \in MakerStates /\ told \in BOOLEAN
        BY <1>0 DEF MakerStates
    <2>2. makers'[n] = [makers[n] EXCEPT !.surprised = told]
        BY <1>1, <1>4
    <2>3. busy(n) => told
        OBVIOUS
    <2> HIDE DEF told, busy
    <2> QED BY <2>1, <2>2, <2>3 DEF MakerStates
<1>5. makers'[m] = Rest(m)
    BY <1>1
<1>6. makers' \in [AllMakers -> MakerStates]
    <2>1. \A n \in AllMakers : makers'[n] \in MakerStates
        BY <1>4, <1>5, <1>r
    <2>2. makers' = [n \in AllMakers |-> makers'[n]]
        BY <1>1
    <2> QED BY <2>1, <2>2
<1>7. rewritten' = rewritten
    <2>1. rewritten' = rewritten \cup {e \in {b.date} : /\ makers[m].kind = "cron"
                                                       /\ snapshots[b.date] # NoBrief
                                                       /\ ~makers[m].surprised}
        BY DEF StoresSnapshot
    <2>2. makers[m].kind = "cron" /\ ~makers[m].surprised => snapshots[b.date] = NoBrief
        BY <1>0, <1>1 DEF MakerOk, Unsurprised
    <2> QED BY <2>1, <2>2
<1> HIDE DEF b
<1>8. Held' \subseteq Held \cup {b}
    BY <1>1, <1>3, <1>4, <1>5, <1>r DEF Held
<1>9. EditionsDated'
    BY <1>0, <1>1, <1>2, <1>8, EditionsStayDated DEF BriefInv
<1>10. BriefTypes' /\ UnderDates' /\ NotPaused'
    BY <1>1, <1>3, <1>6 DEF BriefInv, BriefTypes, UnderDates, NotPaused
<1>11. ASSUME NEW n \in AllMakers PROVE MakerOk(n, makers[n])'
    <2>1. CASE n = m
        <3>1. m \in Crons => InHour(m, makers[m])
            BY <1>0 DEF MakerOk
        <3>2. m \in Crons /\ firstHour /\ ~excused => b.date = briefDay
            BY <1>0, <1>1, <3>1 DEF InHour, MakerOk, b
        <3>3. m \in Crons /\ firstHour /\ ~excused => snapshots'[briefDay] # NoBrief
            BY <1>0, <1>2, <1>3, <3>2
        <3> QED BY <1>1, <1>5, <1>r, <2>1, <3>3 DEF MakerOk, Unsurprised, InHour
    <2>2. CASE n # m
        <3>1. MakerOk(n, makers[n])
            BY DEF BriefInv
        <3>2. snapshots[briefDay] # NoBrief => snapshots'[briefDay] # NoBrief
            BY <1>0, <1>2, <1>3
        <3>3. /\ n \in Crons => makers'[n].kind = "cron"
              /\ n \in BriefAsks => makers'[n].kind # "cron"
              /\ makers'[n].pc = "pick" => makers'[n].brief.date \in 1..briefDay
              /\ makers'[n].pc \in {"cache", "store"} => makers'[n].brief # NoBrief
            BY <1>4, <2>2, <3>1 DEF MakerOk
        <3>4. Unsurprised(makers[n])'
            BY <1>4, <2>2 DEF Unsurprised
        <3>5. n \in Crons => InHour(n, makers[n])'
            BY <1>1, <1>4, <2>2, <3>1, <3>2 DEF MakerOk, InHour
        <3> QED BY <1>1, <3>3, <3>4, <3>5 DEF MakerOk
    <2> QED BY <2>1, <2>2
<1> QED BY <1>1, <1>7, <1>9, <1>10, <1>11 DEF BriefInv, EveryDayKept, SnapshotsStay

\* Every step of the clock, the crons and the requests keeps BriefInv.
LEMMA BriefInductive == ASSUME BriefInv, [BriefNext]_briefVars PROVE BriefInv'
<1>1. CASE UNCHANGED briefVars
    BY <1>1 DEF briefVars, briefTime, briefPast, briefBounds, BriefInv, BriefTypes, EditionsDated,
            UnderDates, NotPaused, EveryDayKept, SnapshotsStay, MakerOk, Unsurprised, InHour, Held
<1>2. CASE BriefNext
    <2>1. \A p \in Crons : p \in AllMakers
        BY DEF AllMakers
    <2>2. \A r \in BriefAsks : r \in AllMakers
        BY DEF AllMakers
    <2> QED BY <1>2, <2>1, <2>2, TimeStep, LiveStep, CronStep, ComposeStep, StoreStep
            DEF BriefNext, AllMakers
<1> QED BY <1>1, <1>2

\* No day has the brief of another.
LEMMA EditionsAreApart == BriefInv => EditionsApart
<1> SUFFICES ASSUME BriefInv, NEW d \in BriefDays, NEW e \in BriefDays,
                    snapshots[d] # NoBrief, snapshots[d].edition = snapshots[e].edition
             PROVE  d = e
    BY DEF EditionsApart
<1>1. snapshots[d] \in Held /\ snapshots[d].date = d
    BY DEF BriefInv, BriefTypes, UnderDates, Held
<1>2. snapshots[d].edition \in 1..composed /\ composed \in Nat
    BY <1>1 DEF BriefInv, BriefTypes, EditionsDated
<1>3. snapshots[e] # NoBrief
    BY <1>2 DEF NoBrief
<1>4. snapshots[e] \in Held /\ snapshots[e].date = e
    BY <1>3 DEF BriefInv, BriefTypes, UnderDates, Held
<1> QED BY <1>1, <1>4 DEF BriefInv, EditionsDated

\* A day gets its snapshot when a process was up in its first hour and nothing failed, a cron
\* replaces no snapshot it could have seen, and no day has the brief of another, for any
\* number of processes, requests and days (daily-brief-cron.ts:9, daily-brief-cron.ts:11).
THEOREM BriefsKept == BriefSpec => [](EveryDayKept /\ SnapshotsStay /\ EditionsApart)
<1>1. BriefInv => EveryDayKept /\ SnapshotsStay /\ EditionsApart
    BY EditionsAreApart DEF BriefInv
<1> QED BY <1>1, BriefInitInv, BriefInductive, PTL DEF BriefSpec

-----------------------------------------------------------------------------
(* The walks of a feed. *)

Versions == FeedPapers \X (1..2)
PostStates == [status : {"pending", "posted", "failed"}, at : Nat]
PageStates == [feed : Seq(Versions), next : Nat, cut : BOOLEAN]
ScrollStates == [feed : FeedNames \cup {"none"}, offset : Nat,
                 end : {"none", "no", "end", "cut", "failed"}]

FeedTypes ==
    /\ listed \subseteq FeedPapers /\ feedEvents \in Nat
    /\ post \in [FeedPapers -> [1..2 -> PostStates]]
    /\ scroll \in ScrollStates /\ seen \in Seq(Versions)
    /\ pages \subseteq [at : Nat, page : PageStates]

IsPosted(e) == post[e[1]][e[2]].status = "posted"

\* No two versions were posted at the same time, and none will be.
TimesApart ==
    /\ \A e \in Versions : IsPosted(e)
              => post[e[1]][e[2]].at <= Cardinality(FeedPapers) + feedEvents
    /\ \A e, f \in Versions : IsPosted(e) /\ IsPosted(f) /\ e # f => Later(e, f) \/ Later(f, e)

WasShown(e) == \E i \in 1..Len(seen) : seen[i] = e
OnHeldPage(e) == \E q \in pages : \E i \in 1..Len(q.page.feed) : q.page.feed[i] = e

\* A page that is as the feed is now: the ranks from its offset, and all of them at the end.
PageFits(feed, offset, pg) ==
    /\ \A i \in 1..Len(pg.feed) :
        pg.feed[i] \in Entries(feed) /\ RowsBefore(feed, pg.feed[i]) = offset + i - 1
    /\ pg.next # 0 => pg.next = offset + FeedLimit /\ Len(pg.feed) = FeedLimit
    /\ pg.next = 0 /\ ~pg.cut =>
        \A e \in Entries(feed) : RowsBefore(feed, e) < offset + Len(pg.feed)

PageApart(pg) == \A i, j \in 1..Len(pg.feed) : pg.feed[i][1] = pg.feed[j][1] => i = j

NoWalk ==
    scroll.feed = "none" => pages = {} /\ seen = <<>> /\ settled = {} /\ scroll.end = "none"

\* While the feed has not changed since the oldest page in use, pages fit, and what was
\* shown is the feed up to the offset.
NothingChanged ==
    ~grown /\ ~left =>
        /\ \A q \in pages : PageFits(scroll.feed, q.at, q.page)
        /\ \A i \in 1..Len(seen) :
            seen[i] \in Entries(scroll.feed) /\ RowsBefore(scroll.feed, seen[i]) = i - 1
        /\ scroll.end = "no" => Len(seen) = scroll.offset

\* What is settled and lies before the offset has been shown.
SettledShown ==
    /\ settled \subseteq Entries(scroll.feed)
    /\ ~left /\ ~mixed =>
        /\ scroll.end = "no" =>
            \A e \in settled : RowsBefore(scroll.feed, e) < scroll.offset => WasShown(e)
        /\ scroll.end = "end" => \A e \in settled : WasShown(e)

\* Unless something came in, a paper has one version among all that is in use.
InUse(e) == WasShown(e) \/ OnHeldPage(e) \/ e \in Entries(scroll.feed)
OneInUse == ~grown => \A e, f \in Versions : InUse(e) /\ InUse(f) /\ e[1] = f[1] => e = f

FeedInv ==
    /\ FeedTypes /\ TimesApart /\ NoWalk /\ NothingChanged /\ SettledShown /\ OneInUse
    /\ \A q \in pages : PageApart(q.page)

\* When the ranks of a finite set are numbers of their own below its size, they are all.
LEMMA RanksAreAll ==
    ASSUME NEW M, IsFiniteSet(M), NEW r \in [M -> Nat], \A x, y \in M : r[x] = r[y] => x = y,
           \A x \in M : r[x] < Cardinality(M)
    PROVE  \A k \in 0..(Cardinality(M) - 1) : \E x \in M : r[x] = k
<1>1. PICK n \in Nat : n = Cardinality(M)
    BY FS_CardinalityType
<1>2. IsFiniteSet(0..(n - 1)) /\ Cardinality(0..(n - 1)) = n
    <2>1. 0 \in Int /\ n - 1 \in Int OBVIOUS
    <2>2. IsFiniteSet(0..(n - 1))
          /\ Cardinality(0..(n - 1)) = IF 0 > n - 1 THEN 0 ELSE (n - 1) - 0 + 1
        BY <2>1, FS_Interval
    <2> QED BY <2>2
<1>3. r \in Injection(M, 0..(n - 1))
    <2>1. \A x \in M : r[x] \in 0..(n - 1)
        BY <1>1
    <2>2. r \in [M -> 0..(n - 1)]
        BY <2>1
    <2> QED BY <2>2 DEF Injection, IsInjective
<1>4. r \in Surjection(M, 0..(n - 1))
    BY <1>1, <1>2, <1>3, FS_Injection
<1> QED BY <1>1, <1>4 DEF Surjection

\* The entries of a feed are finitely many versions that were posted, one of each paper.
LEMMA EntriesFacts ==
    ASSUME NEW feed
    PROVE  /\ Entries(feed) \in SUBSET Versions /\ IsFiniteSet(Entries(feed))
           /\ Cardinality(Entries(feed)) \in Nat
           /\ \A e \in Entries(feed) : IsPosted(e)
           /\ \A e, f \in Entries(feed) : e[1] = f[1] => e = f
<1>1. Entries(feed) \in SUBSET Versions
    BY DEF Entries, Versions
<1>2. IsFiniteSet(Versions)
    <2>1. IsFiniteSet(1..2)
        <3>1. 1 \in Int /\ 2 \in Int OBVIOUS
        <3> QED BY <3>1, FS_Interval
    <2> QED BY <2>1, FS_Product, FeedAssumption DEF Versions
<1>3. IsFiniteSet(Entries(feed))
    BY <1>1, <1>2, FS_Subset
<1>4. \A e \in Entries(feed) : e[2] \in PostedVersions(e[1])
    BY DEF Entries
<1>5. \A e, f \in Entries(feed) : e[1] = f[1] => e[2] <= f[2] /\ f[2] <= e[2]
    BY <1>4 DEF Entries
<1>6. \A e, f \in Entries(feed) : e[1] = f[1] => e = f
    <2> SUFFICES ASSUME NEW e \in Entries(feed), NEW f \in Entries(feed), e[1] = f[1] PROVE e = f
        OBVIOUS
    <2>1. PICK p \in FeedPapers, v \in 1..2, q \in FeedPapers, w \in 1..2 : e = <<p, v>>
        /\ f = <<q, w>>
        BY <1>1 DEF Versions
    <2>2. v <= w /\ w <= v
        BY <1>5, <2>1
    <2> QED BY <2>1, <2>2
<1> QED BY <1>1, <1>3, <1>4, <1>6, FS_CardinalityType DEF PostedVersions, IsPosted

\* Ranks are numbers of their own, below the number of entries, and none is missing.
LEMMA BeforeFacts ==
    ASSUME FeedTypes, TimesApart, NEW feed
    PROVE  /\ \A e \in Entries(feed) :
                RowsBefore(feed, e) \in Nat /\ RowsBefore(feed, e) < Cardinality(Entries(feed))
           /\ \A e, f \in Entries(feed) : RowsBefore(feed, e) = RowsBefore(feed, f) => e = f
           /\ \A k \in 0..(Cardinality(Entries(feed)) - 1) : \E e \in Entries(feed) :
                     RowsBefore(feed, e) = k
<1>0. PICK M : M = Entries(feed)
    OBVIOUS
<1>1. /\ M \in SUBSET Versions /\ IsFiniteSet(M) /\ Cardinality(M) \in Nat
      /\ \A e \in M : IsPosted(e)
    BY <1>0, EntriesFacts
<1>2. \A e \in M : post[e[1]][e[2]].at \in Nat
    BY <1>1 DEF FeedTypes, Versions, PostStates
<1>3. /\ \A e, f, g \in M : Later(g, f) /\ Later(f, e) => Later(g, e)
      /\ \A e \in M : ~Later(e, e)
    BY <1>2 DEF Later
<1>4. \A e, f \in M : e # f => Later(e, f) \/ Later(f, e)
    BY <1>1 DEF TimesApart
<1>5. ASSUME NEW e \in M PROVE RowsBefore(feed, e) \in Nat /\ RowsBefore(feed, e) < Cardinality(M)
    <2>1. PICK S : S = {f \in M : Later(f, e)}
        OBVIOUS
    <2>2. S \in SUBSET M /\ e \notin S /\ IsFiniteSet(S) /\ Cardinality(S) \in Nat
        BY <1>1, <1>3, <2>1, FS_Subset, FS_CardinalityType
    <2>3. Cardinality(S) <= Cardinality(M) /\ Cardinality(S) # Cardinality(M)
        BY <1>1, <2>2, FS_Subset
    <2>4. RowsBefore(feed, e) = Cardinality(S)
        BY <1>0, <2>1 DEF RowsBefore
    <2> QED BY <1>1, <2>2, <2>3, <2>4
<1>6. ASSUME NEW e \in M, NEW f \in M, Later(f, e) PROVE RowsBefore(feed, f) < RowsBefore(feed, e)
    <2>1. PICK S, T : S = {g \in M : Later(g, e)} /\ T = {g \in M : Later(g, f)}
        OBVIOUS
    <2>2. T \in SUBSET S /\ f \in S /\ f \notin T /\ S \in SUBSET M
        BY <1>3, <1>6, <2>1
    <2>3. IsFiniteSet(S) /\ IsFiniteSet(T)
        BY <1>1, <2>2, FS_Subset
    <2>4. Cardinality(S) \in Nat /\ Cardinality(T) \in Nat
          /\ Cardinality(T) <= Cardinality(S) /\ Cardinality(T) # Cardinality(S)
        BY <2>2, <2>3, FS_Subset, FS_CardinalityType
    <2>5. RowsBefore(feed, e) = Cardinality(S) /\ RowsBefore(feed, f) = Cardinality(T)
        BY <1>0, <2>1 DEF RowsBefore
    <2> QED BY <2>4, <2>5
<1>7. \A e, f \in M : RowsBefore(feed, e) = RowsBefore(feed, f) => e = f
    <2> SUFFICES ASSUME NEW e \in M, NEW f \in M, e # f
        PROVE RowsBefore(feed, e) # RowsBefore(feed, f)
        OBVIOUS
    <2>1. RowsBefore(feed, e) < RowsBefore(feed, f) \/ RowsBefore(feed, f) < RowsBefore(feed, e)
        BY <1>4, <1>6
    <2>2. RowsBefore(feed, e) \in Nat /\ RowsBefore(feed, f) \in Nat
        BY <1>5
    <2> QED BY <2>1, <2>2
<1>8. \A k \in 0..(Cardinality(M) - 1) : \E e \in M : RowsBefore(feed, e) = k
    <2>1. PICK r : r = [e \in M |-> RowsBefore(feed, e)]
        OBVIOUS
    <2>2. /\ r \in [M -> Nat] /\ \A x, y \in M : r[x] = r[y] => x = y
          /\ \A x \in M : r[x] < Cardinality(M) /\ r[x] = RowsBefore(feed, x)
        BY <1>5, <1>7, <2>1
    <2>3. \A k \in 0..(Cardinality(M) - 1) : \E x \in M : r[x] = k
        BY <1>1, <2>2, RanksAreAll
    <2> QED BY <2>2, <2>3
<1> QED BY <1>0, <1>5, <1>7, <1>8

\* The rows of a query: as many as there are of those asked for, by their ranks.
LEMMA RowsFacts ==
    ASSUME FeedTypes, TimesApart, NEW feed, NEW limit \in Nat, NEW offset \in Nat
    PROVE  LET list == FeedRows(feed, limit, offset)
               rest == Cardinality(Entries(feed)) - offset
           IN  /\ list \in Seq(Versions)
               /\ Len(list) = (IF limit < rest THEN limit ELSE IF rest < 0 THEN 0 ELSE rest)
               /\ \A i \in 1..Len(list) :
                    list[i] \in Entries(feed) /\ RowsBefore(feed, list[i]) = offset + i - 1
<1>0. PICK n \in Nat : n = Cardinality(Entries(feed))
    BY EntriesFacts
<1>1. PICK m \in Int : m = IF limit < n - offset THEN limit ELSE n - offset
    OBVIOUS
<1>2. PICK k \in Nat : k = IF m < 0 THEN 0 ELSE m
    BY <1>1
<1>3. 1..m = 1..k
    BY <1>2
<1>4. FeedRows(feed, limit, offset) =
        [i \in 1..k |-> CHOOSE e \in Entries(feed) : RowsBefore(feed, e) = offset + i - 1]
    BY <1>0, <1>1, <1>3 DEF FeedRows
<1>5. ASSUME NEW i \in 1..k PROVE \E e \in Entries(feed) : RowsBefore(feed, e) = offset + i - 1
    <2>1. offset + i - 1 \in 0..(n - 1)
        BY <1>1, <1>2
    <2> QED BY <1>0, <2>1, BeforeFacts
<1>6. PICK list : list = FeedRows(feed, limit, offset)
    OBVIOUS
<1>7. \A i \in 1..k : list[i] \in Entries(feed) /\ RowsBefore(feed, list[i]) = offset + i - 1
    BY <1>4, <1>5, <1>6
<1>8. list \in Seq(Versions) /\ Len(list) = k
    <2>1. Entries(feed) \in SUBSET Versions
        BY EntriesFacts
    <2>2. list \in [1..k -> Versions]
        BY <1>4, <1>6, <1>7, <2>1
    <2> QED BY <2>2, SeqDef, LenProperties
<1>9. k = (IF limit < n - offset THEN limit ELSE IF n - offset < 0 THEN 0 ELSE n - offset)
    BY <1>1, <1>2
<1> QED BY <1>0, <1>6, <1>7, <1>8, <1>9

\* A fresh page fits the feed.
LEMMA SkeletonFits ==
    ASSUME FeedTypes, TimesApart, NEW feed, NEW offset \in Nat, NEW pg,
           pg = Skeleton(feed, offset)
    PROVE  pg \in PageStates /\ PageFits(feed, offset, pg) /\ PageApart(pg)
           /\ \A i \in 1..Len(pg.feed) : pg.feed[i] \in Entries(feed)
<1>0. FeedLimit \in Nat /\ FeedLimit > 0 /\ FeedLimit + 1 \in Nat
    BY FeedAssumption
<1>1. PICK n \in Nat : n = Cardinality(Entries(feed))
    BY EntriesFacts
<1>2. PICK list : list = FeedRows(feed, FeedLimit + 1, offset)
    OBVIOUS
<1>3. /\ list \in Seq(Versions)
      /\ Len(list) = (IF FeedLimit + 1 < n - offset THEN FeedLimit + 1
                      ELSE IF n - offset < 0 THEN 0 ELSE n - offset)
      /\ \A i \in 1..Len(list) :
            list[i] \in Entries(feed) /\ RowsBefore(feed, list[i]) = offset + i - 1
    BY <1>0, <1>1, <1>2, RowsFacts
<1>r. Len(list) \in Nat
    BY <1>3, LenProperties
<1>4. PICK k \in Nat : /\ k = IF Len(list) > FeedLimit THEN FeedLimit ELSE Len(list)
                       /\ k <= Len(list)
    BY <1>0, <1>r
<1>5. PICK part : part = SubSeq(list, 1, k)
    OBVIOUS
<1>6. part \in Seq(Versions) /\ Len(part) = k /\ \A i \in 1..k : part[i] = list[i]
    <2>1. \A i \in 1..k : list[i] \in Versions
        BY <1>3, <1>4, ElementOfSeq
    <2>2. /\ SubSeq(list, 1, k) \in Seq(Versions)
          /\ Len(SubSeq(list, 1, k)) = IF 1 <= k THEN k - 1 + 1 ELSE 0
          /\ \A i \in 1..(k - 1 + 1) : SubSeq(list, 1, k)[i] = list[1 + i - 1]
        BY <1>4, <2>1, SubSeqProperties
    <2> QED BY <1>4, <1>5, <2>2
<1>7. PICK more \in BOOLEAN : more = (Len(list) > FeedLimit /\ offset + FeedLimit < MaxFeedOffset)
    OBVIOUS
<1>8. pg = [feed |-> part, next |-> IF more THEN offset + FeedLimit ELSE 0,
              cut |-> Len(list) > FeedLimit /\ ~more]
    BY <1>2, <1>4, <1>5, <1>7 DEF Skeleton
<1>n. PICK next \in Nat : next = IF more THEN offset + FeedLimit ELSE 0
    BY <1>0
<1>9. PICK cut \in BOOLEAN : cut = (Len(list) > FeedLimit /\ ~more)
    OBVIOUS
<1>10. pg = [feed |-> part, next |-> next, cut |-> cut]
    BY <1>8, <1>9, <1>n
<1>11. pg \in PageStates
    BY <1>6, <1>10 DEF PageStates
<1>12. pg.feed = part /\ pg.next = next /\ pg.cut = cut
    BY <1>10
<1>13. \A i \in 1..Len(part) : part[i] \in Entries(feed)
    /\ RowsBefore(feed, part[i]) = offset + i - 1
    <2>1. \A i \in 1..k : i \in 1..Len(list)
        BY <1>r, <1>4
    <2> QED BY <1>3, <1>6, <2>1
<1>14. next # 0 => next = offset + FeedLimit /\ Len(part) = FeedLimit
    BY <1>0, <1>r, <1>4, <1>6, <1>7, <1>n
<1>15. next = 0 /\ ~cut => n <= offset + Len(part)
    <2>1. next = 0 => ~more
        BY <1>0, <1>n
    <2>2. next = 0 /\ ~cut => ~(Len(list) > FeedLimit)
        BY <1>9, <2>1
    <2> QED BY <1>0, <1>r, <1>3, <1>4, <1>6, <2>2
<1>16. next = 0 /\ ~cut => \A e \in Entries(feed) : RowsBefore(feed, e) < offset + Len(part)
    <2>1. \A e \in Entries(feed) : RowsBefore(feed, e) \in Nat /\ RowsBefore(feed, e) < n
        BY <1>1, BeforeFacts
    <2> QED BY <1>6, <1>15, <2>1
<1>17. \A i, j \in 1..Len(part) : part[i][1] = part[j][1] => i = j
    <2> SUFFICES ASSUME NEW i \in 1..Len(part), NEW j \in 1..Len(part), part[i][1] = part[j][1]
                 PROVE i = j
        OBVIOUS
    <2>1. part[i] = part[j]
        BY <1>13, EntriesFacts
    <2>2. offset + i - 1 = offset + j - 1
        BY <1>13, <2>1
    <2> QED BY <1>6, <2>2
<1> QED BY <1>11, <1>12, <1>13, <1>14, <1>16, <1>17 DEF PageFits, PageApart

\* The feeds begin with FeedInv.
LEMMA FeedInitInv == ASSUME FeedInit PROVE FeedInv
<1>1. /\ listed = FeedPapers /\ pages = {} /\ seen = <<>> /\ settled = {} /\ feedEvents = 0
      /\ scroll.feed = "none" /\ scroll.end = "none" /\ scroll \in ScrollStates
    BY DEF FeedInit, NoScroll, ScrollStates
<1>2. /\ \A p \in FeedPapers : Announced[p] \in Nat /\ Announced[p] <= Cardinality(FeedPapers)
      /\ \A p, q \in FeedPapers : Announced[p] = Announced[q] /\ p # q => Announced[p] = 0
      /\ Cardinality(FeedPapers) \in Nat
    BY FeedAssumption, FS_CardinalityType
<1>3. /\ post \in [FeedPapers -> [1..2 -> PostStates]]
      /\ \A p \in FeedPapers : /\ post[p][2].status = "pending"
                               /\ post[p][1].status = "posted" => Announced[p] # 0
                               /\ post[p][1].at = Announced[p]
    <2>0. Unposted \in PostStates /\ Unposted.status = "pending" /\ Unposted.at = 0
        BY DEF Unposted, PostStates
    <2> DEFINE first(p) == IF Announced[p] = 0 THEN Unposted ELSE [status |-> "posted",
        at |-> Announced[p]]
    <2>1. \A p \in FeedPapers : /\ first(p) \in PostStates /\ first(p).at = Announced[p]
                                /\ first(p).status = "posted" => Announced[p] # 0
        BY <1>2, <2>0 DEF PostStates
    <2>2. post = [p \in FeedPapers |-> <<first(p), Unposted>>]
        BY DEF FeedInit
    <2> HIDE DEF first
    <2>3. \A p \in FeedPapers : <<first(p), Unposted>> \in [1..2 -> PostStates]
        <3> TAKE p \in FeedPapers
        <3>1. PICK a \in PostStates, b \in PostStates : a = first(p) /\ b = Unposted
            BY <2>0, <2>1
        <3>2. <<a, b>> \in [1..2 -> PostStates]
            OBVIOUS
        <3> QED BY <3>1, <3>2
    <2> QED BY <2>0, <2>1, <2>2, <2>3
<1>4. FeedTypes
    BY <1>1, <1>3, EmptySeq DEF FeedTypes
<1>5. TimesApart
    <2>1. \A e \in Versions : IsPosted(e) =>
            e[2] = 1 /\ e[1] \in FeedPapers /\ Announced[e[1]] # 0
                /\ post[e[1]][e[2]].at = Announced[e[1]]
        BY <1>3 DEF IsPosted, Versions
    <2>2. \A e, f \in Versions : e[1] = f[1] /\ e[2] = f[2] => e = f
        BY DEF Versions
    <2>3. \A e, f \in Versions : IsPosted(e) /\ IsPosted(f) /\ e # f =>
            Announced[e[1]] \in Nat /\ Announced[f[1]] \in Nat /\ Announced[e[1]] # Announced[f[1]]
        BY <1>2, <2>1, <2>2
    <2>4. \A e \in Versions : IsPosted(e)
        => post[e[1]][e[2]].at <= Cardinality(FeedPapers) + feedEvents
        BY <1>1, <1>2, <2>1
    <2>5. \A e, f \in Versions : IsPosted(e) /\ IsPosted(f) /\ e # f => Later(e, f) \/ Later(f, e)
        BY <2>1, <2>3 DEF Later
    <2> QED BY <2>4, <2>5 DEF TimesApart
<1>6. Len(seen) = 0
    BY <1>1, EmptySeq
<1>7. \A e : ~WasShown(e) /\ ~OnHeldPage(e)
    BY <1>1, <1>6 DEF WasShown, OnHeldPage
<1>8. OneInUse
    BY <1>7, EntriesFacts DEF OneInUse, InUse
<1>9. NothingChanged /\ SettledShown /\ NoWalk
    BY <1>1, <1>6 DEF NothingChanged, SettledShown, NoWalk
<1> QED BY <1>1, <1>4, <1>5, <1>8, <1>9 DEF FeedInv

\* A page is shown that fits the feed when nothing has left it, and, when held, came in.
LEMMA PageIsShown ==
    ASSUME FeedInv, NEW pg \in PageStates, ShowPage(pg), scroll.end = "no",
           UNCHANGED <<feedRows, feedHistory, feedEvents>>, mixed => mixed',
           ~grown /\ ~left => PageFits(scroll.feed, scroll.offset, pg),
           ~mixed' /\ ~left => PageFits(scroll.feed, scroll.offset, pg),
           pages' \subseteq pages \cup {[at |-> scroll.offset, page |-> pg]},
           \A e \in Versions : (\E i \in 1..Len(pg.feed) : pg.feed[i] = e) =>
                OnHeldPage(e) \/ e \in Entries(scroll.feed),
           PageApart(pg)
    PROVE  FeedInv'
<1> PICK feed, offset : feed = scroll.feed /\ offset = scroll.offset
    OBVIOUS
<1>0. /\ offset \in Nat /\ scroll \in ScrollStates /\ seen \in Seq(Versions)
      /\ pg.feed \in Seq(Versions) /\ pg.next \in Nat /\ pg.cut \in BOOLEAN
      /\ Len(seen) \in Nat /\ Len(pg.feed) \in Nat /\ feed \in FeedNames \cup {"none"}
    BY LenProperties DEF FeedInv, FeedTypes, ScrollStates, PageStates
<1>f. FeedLimit \in Nat /\ FeedLimit > 0
    BY FeedAssumption
<1>1. PICK next \in Nat, end \in {"no", "cut", "end"} :
        /\ scroll' = [scroll EXCEPT !.offset = next, !.end = end]
        /\ end = "no" => pg.next # 0 /\ next = pg.next
        /\ end = "end" => pg.next = 0 /\ ~pg.cut
    <2> DEFINE next == IF pg.next = 0 THEN scroll.offset ELSE pg.next
               end == IF pg.next # 0 THEN "no" ELSE IF pg.cut THEN "cut" ELSE "end"
    <2>1. scroll' = [scroll EXCEPT !.offset = next, !.end = end]
        BY DEF ShowPage
    <2>2. next \in Nat /\ end \in {"no", "cut", "end"}
        BY <1>0
    <2>3. (end = "no" => pg.next # 0 /\ next = pg.next) /\ (end = "end" => pg.next = 0 /\ ~pg.cut)
        BY <1>0
    <2> QED BY <2>1, <2>2, <2>3
<1>2. /\ scroll'.feed = feed /\ scroll'.offset = next /\ scroll'.end = end
      /\ scroll' \in ScrollStates
    BY <1>0, <1>1 DEF ScrollStates
<1>3. /\ seen' = seen \o pg.feed /\ seen' \in Seq(Versions)
      /\ Len(seen') = Len(seen) + Len(pg.feed)
      /\ \A i \in 1..(Len(seen) + Len(pg.feed)) :
            seen'[i] = IF i <= Len(seen) THEN seen[i] ELSE pg.feed[i - Len(seen)]
    BY <1>0, ConcatProperties DEF ShowPage
<1>4. \A e : WasShown(e)' <=> WasShown(e) \/ \E i \in 1..Len(pg.feed) : pg.feed[i] = e
    <2> SUFFICES ASSUME NEW e
                 PROVE  WasShown(e)' <=> WasShown(e) \/ \E i \in 1..Len(pg.feed) : pg.feed[i] = e
        OBVIOUS
    <2>1. ASSUME WasShown(e)' PROVE WasShown(e) \/ \E i \in 1..Len(pg.feed) : pg.feed[i] = e
        <3>1. PICK i \in 1..(Len(seen) + Len(pg.feed)) : seen'[i] = e
            BY <1>3, <2>1 DEF WasShown
        <3>2. CASE i <= Len(seen)
            BY <1>0, <1>3, <3>1, <3>2 DEF WasShown
        <3>3. CASE ~(i <= Len(seen))
            <4>1. i - Len(seen) \in 1..Len(pg.feed) /\ pg.feed[i - Len(seen)] = e
                BY <1>0, <1>3, <3>1, <3>3
            <4> QED BY <4>1
        <3> QED BY <3>2, <3>3
    <2>2. ASSUME WasShown(e) PROVE WasShown(e)'
        <3>1. PICK i \in 1..Len(seen) : seen[i] = e
            BY <2>2 DEF WasShown
        <3>2. i \in 1..(Len(seen) + Len(pg.feed)) /\ seen'[i] = e
            BY <1>0, <1>3, <3>1
        <3> QED BY <1>3, <3>2 DEF WasShown
    <2>3. ASSUME NEW i \in 1..Len(pg.feed), pg.feed[i] = e PROVE WasShown(e)'
        <3>1. i + Len(seen) \in 1..(Len(seen) + Len(pg.feed)) /\ ~(i + Len(seen) <= Len(seen))
              /\ (i + Len(seen)) - Len(seen) = i
            BY <1>0
        <3>2. seen'[i + Len(seen)] = e
            BY <1>3, <2>3, <3>1
        <3> QED BY <1>3, <3>1, <3>2 DEF WasShown
    <2> QED BY <2>1, <2>2, <2>3
<1>5. UNCHANGED <<listed, post, feedEvents, settled, left, grown>>
    BY DEF feedRows, feedHistory
<1>6. /\ Entries(feed)' = Entries(feed)
      /\ \A e : RowsBefore(feed, e)' = RowsBefore(feed, e) /\ (IsPosted(e)' <=> IsPosted(e))
      /\ \A e, f : Later(e, f)' <=> Later(e, f)
    BY <1>5 DEF Entries, RowsBefore, IsPosted, Later, PostedVersions, InFeed
<1>7. [at |-> scroll.offset, page |-> pg] \in [at : Nat, page : PageStates]
    BY <1>0
<1>8. FeedTypes'
    BY <1>2, <1>3, <1>5, <1>7 DEF FeedInv, FeedTypes
<1>9. TimesApart'
    BY <1>5, <1>6 DEF FeedInv, TimesApart
<1>10. NoWalk'
    BY <1>2 DEF FeedInv, NoWalk
\* What comes after the page's entries, and that no entry before is missing.
<1>11. ASSUME PageFits(feed, offset, pg), NEW e \in Entries(feed),
              ~(RowsBefore(feed, e) < offset), RowsBefore(feed, e) < offset + Len(pg.feed)
       PROVE  \E i \in 1..Len(pg.feed) : pg.feed[i] = e
    <2>1. /\ RowsBefore(feed, e) \in Nat
          /\ \A f \in Entries(feed) : RowsBefore(feed, e) = RowsBefore(feed, f) => e = f
        BY BeforeFacts DEF FeedInv
    <2>2. PICK i : i = RowsBefore(feed, e) - offset + 1
        OBVIOUS
    <2>3. i \in 1..Len(pg.feed) /\ offset + i - 1 = RowsBefore(feed, e)
        BY <1>0, <1>11, <2>1, <2>2
    <2>4. pg.feed[i] \in Entries(feed) /\ RowsBefore(feed, pg.feed[i]) = RowsBefore(feed, e)
        BY <1>11, <2>3 DEF PageFits
    <2> QED BY <2>1, <2>3, <2>4
<1>12. \A e \in Entries(feed) : RowsBefore(feed, e) \in Nat
    BY BeforeFacts DEF FeedInv
<1>13. SettledShown'
    <2>1. settled \subseteq Entries(feed)
        BY DEF FeedInv, SettledShown
    <2>2. ASSUME ~left, ~mixed', NEW e \in settled, RowsBefore(feed, e) < offset + Len(pg.feed)
          PROVE  WasShown(e)'
        <3>1. ~mixed /\ PageFits(feed, offset, pg)
            BY <2>2
        <3>2. RowsBefore(feed, e) < offset => WasShown(e)
            BY <2>2, <3>1 DEF FeedInv, SettledShown
        <3> QED BY <1>4, <1>11, <2>1, <2>2, <3>1, <3>2
    <2>3. ASSUME ~left, ~mixed', end = "no" PROVE next = offset + Len(pg.feed)
        BY <1>1, <2>3 DEF PageFits
    <2>4. ASSUME ~left, ~mixed', end = "end", NEW e \in settled PROVE WasShown(e)'
        <3>1. RowsBefore(feed, e) < offset + Len(pg.feed)
            BY <1>1, <2>1, <2>4 DEF PageFits
        <3> QED BY <2>2, <2>4, <3>1
    <2> QED BY <1>2, <1>5, <1>6, <2>1, <2>2, <2>3, <2>4 DEF SettledShown
<1>14. ASSUME ~grown, ~left
       PROVE  /\ \A q \in pages' : PageFits(feed, q.at, q.page)
              /\ \A i \in 1..Len(seen') : seen'[i] \in Entries(feed)
                        /\ RowsBefore(feed, seen'[i]) = i - 1
              /\ end = "no" => Len(seen') = next
    <2>1. /\ PageFits(feed, offset, pg) /\ Len(seen) = offset
          /\ \A q \in pages : PageFits(feed, q.at, q.page)
          /\ \A i \in 1..Len(seen) : seen[i] \in Entries(feed) /\ RowsBefore(feed, seen[i]) = i - 1
        BY <1>14 DEF FeedInv, NothingChanged
    <2>2. ASSUME NEW i \in 1..Len(seen')
          PROVE  seen'[i] \in Entries(feed) /\ RowsBefore(feed, seen'[i]) = i - 1
        <3>1. CASE i <= Len(seen)
            BY <1>0, <1>3, <2>1, <3>1
        <3>2. CASE ~(i <= Len(seen))
            <4>1. i - Len(seen) \in 1..Len(pg.feed) /\ seen'[i] = pg.feed[i - Len(seen)]
                BY <1>0, <1>3, <3>2
            <4>2. pg.feed[i - Len(seen)] \in Entries(feed)
                  /\ RowsBefore(feed, pg.feed[i - Len(seen)]) = offset + (i - Len(seen)) - 1
                BY <2>1, <4>1 DEF PageFits
            <4>3. offset + (i - Len(seen)) - 1 = i - 1
                BY <1>0, <1>3, <2>1
            <4> QED BY <4>1, <4>2, <4>3
        <3> QED BY <3>1, <3>2
    <2>3. end = "no" => Len(seen') = next
        BY <1>0, <1>1, <1>3, <2>1 DEF PageFits
    <2> QED BY <2>1, <2>2, <2>3
<1>15. NothingChanged'
    <2>1. \A o, g : PageFits(feed, o, g)' <=> PageFits(feed, o, g)
        BY <1>6 DEF PageFits
    <2> QED BY <1>2, <1>5, <1>6, <1>14, <2>1 DEF NothingChanged
<1>16. OneInUse'
    <2>1. \A e \in Versions : OnHeldPage(e)' => OnHeldPage(e) \/ \E i \in 1..Len(pg.feed) :
        pg.feed[i] = e
        BY DEF OnHeldPage
    <2>2. \A e \in Versions : InUse(e)' => InUse(e)
        BY <1>2, <1>4, <1>6, <2>1 DEF InUse
    <2> QED BY <1>5, <2>2 DEF FeedInv, OneInUse
<1>17. \A q \in pages' : PageApart(q.page)
    BY DEF FeedInv
<1> QED BY <1>8, <1>9, <1>10, <1>13, <1>15, <1>16, <1>17 DEF FeedInv, PageApart

\* What a walk, its pages and its end do.
LEMMA ScrollStep ==
    ASSUME FeedInv,
           \/ AskPage \/ AskFails \/ \E feed \in FeedNames : StartScroll(feed)
           \/ \E q \in pages : HeldPage(q) \/ PageExpires(q)
    PROVE  FeedInv'
<1>0. /\ scroll \in ScrollStates /\ scroll.offset \in Nat /\ seen \in Seq(Versions)
      /\ pages \subseteq [at : Nat, page : PageStates]
    BY DEF FeedInv, FeedTypes, ScrollStates
<1>1. UNCHANGED <<listed, post, feedEvents>>
    BY DEF AskPage, AskFails, StartScroll, HeldPage, PageExpires, feedRows, feedBounds
<1>2. /\ \A f : Entries(f)' = Entries(f)
      /\ \A f, e : RowsBefore(f, e)' = RowsBefore(f, e)
      /\ \A e : IsPosted(e)' <=> IsPosted(e)
      /\ \A e, f : Later(e, f)' <=> Later(e, f)
    BY <1>1 DEF Entries, RowsBefore, IsPosted, Later, PostedVersions, InFeed
<1>3. TimesApart'
    BY <1>1, <1>2 DEF FeedInv, TimesApart
<1>p. \A f, o, g : PageFits(f, o, g)' <=> PageFits(f, o, g)
    BY <1>2 DEF PageFits
<1>4. CASE AskPage
    <2>1. PICK pg : pg = Skeleton(scroll.feed, scroll.offset)
        OBVIOUS
    <2>2. /\ scroll.end = "no" /\ ShowPage(pg) /\ UNCHANGED <<feedRows, feedHistory, feedEvents,
              mixed>>
          /\ pages' \subseteq pages \cup {[at |-> scroll.offset, page |-> pg]}
        BY <1>4, <2>1 DEF AskPage, feedBounds
    <2>3. pg \in PageStates /\ PageFits(scroll.feed, scroll.offset, pg) /\ PageApart(pg)
          /\ \A i \in 1..Len(pg.feed) : pg.feed[i] \in Entries(scroll.feed)
        BY <1>0, <2>1, SkeletonFits DEF FeedInv
    <2> QED BY <2>2, <2>3, PageIsShown
<1>5. ASSUME NEW q \in pages, HeldPage(q) PROVE FeedInv'
    <2>1. /\ scroll.end = "no" /\ ShowPage(q.page) /\ UNCHANGED <<feedRows, feedHistory,
              feedEvents, pages>>
          /\ q.at = scroll.offset
        BY <1>5 DEF HeldPage, feedBounds
    <2>2. mixed' = (mixed \/ grown)
        BY <1>5 DEF HeldPage
    <2>3. q.page \in PageStates /\ PageApart(q.page)
        BY <1>0 DEF FeedInv
    <2>4. ~grown /\ ~left => PageFits(scroll.feed, scroll.offset, q.page)
        BY <2>1 DEF FeedInv, NothingChanged
    <2>5. ~mixed' /\ ~left => PageFits(scroll.feed, scroll.offset, q.page)
        BY <2>2, <2>4
    <2>6. \A e \in Versions : (\E i \in 1..Len(q.page.feed) : q.page.feed[i] = e) => OnHeldPage(e)
        BY DEF OnHeldPage
    <2>7. mixed => mixed'
        BY <2>2
    <2> QED BY <2>1, <2>3, <2>4, <2>5, <2>6, <2>7, PageIsShown
<1>6. CASE AskFails
    <2>1. /\ scroll' = [scroll EXCEPT !.end = "failed"] /\ scroll.end = "no"
          /\ UNCHANGED <<pages, seen, mixed, settled, left, grown>>
        BY <1>6 DEF AskFails, feedHistory
    <2>2. scroll' \in ScrollStates /\ scroll'.feed = scroll.feed /\ scroll'.end = "failed"
        BY <1>0, <2>1 DEF ScrollStates
    <2>3. FeedTypes' /\ NoWalk'
        BY <1>1, <2>1, <2>2 DEF FeedInv, FeedTypes, NoWalk
    <2>4. NothingChanged'
        BY <1>2, <1>p, <2>1, <2>2 DEF FeedInv, NothingChanged
    <2>5. SettledShown'
        BY <1>2, <2>1, <2>2 DEF FeedInv, SettledShown
    <2>6. OneInUse' /\ \A q \in pages' : PageApart(q.page)
        BY <1>2, <2>1, <2>2 DEF FeedInv, OneInUse, InUse, WasShown, OnHeldPage
    <2> QED BY <1>3, <2>3, <2>4, <2>5, <2>6 DEF FeedInv, PageApart
<1>7. ASSUME NEW q \in pages, PageExpires(q) PROVE FeedInv'
    <2>1. pages' = pages \ {q} /\ UNCHANGED <<scroll, seen, mixed, settled, left, grown>>
        BY <1>7 DEF PageExpires, feedHistory
    <2>2. FeedTypes' /\ NoWalk'
        BY <1>1, <2>1 DEF FeedInv, FeedTypes, NoWalk
    <2>3. NothingChanged'
        BY <1>2, <1>p, <2>1 DEF FeedInv, NothingChanged
    <2>4. SettledShown'
        BY <1>2, <2>1 DEF FeedInv, SettledShown, WasShown
    <2>5. \A e : InUse(e)' => InUse(e)
        BY <1>2, <2>1 DEF InUse, WasShown, OnHeldPage
    <2>6. OneInUse' /\ \A g \in pages' : PageApart(g.page)
        BY <2>1, <2>5 DEF FeedInv, OneInUse
    <2> QED BY <1>3, <2>2, <2>3, <2>4, <2>6 DEF FeedInv, PageApart
<1>8. ASSUME NEW feed \in FeedNames, StartScroll(feed) PROVE FeedInv'
    <2>1. scroll' = [feed |-> feed, offset |-> 0, end |-> "no"] /\ seen' = <<>> /\ mixed' = FALSE
        BY <1>8 DEF StartScroll
    <2>2. /\ scroll' \in ScrollStates /\ scroll'.feed = feed /\ scroll'.offset = 0
          /\ scroll'.end = "no" /\ feed # "none"
        BY <2>1, FeedAssumption DEF ScrollStates
    <2>3. seen' \in Seq(Versions) /\ Len(seen') = 0
        BY <2>1, EmptySeq
    <2>4. \A e : ~WasShown(e)'
        BY <2>3 DEF WasShown
    <2>5. \A e \in Entries(feed) : ~(RowsBefore(feed, e) < 0)
        BY BeforeFacts DEF FeedInv
    <2>6. CASE pages # {} /\ scroll.feed = feed /\ UNCHANGED <<pages, settled, left, grown>>
        <3>1. FeedTypes' /\ NoWalk'
            BY <1>1, <2>2, <2>3, <2>6 DEF FeedInv, FeedTypes, NoWalk
        <3>2. NothingChanged'
            BY <1>2, <1>p, <2>2, <2>3, <2>6 DEF FeedInv, NothingChanged
        <3>3. SettledShown'
            BY <1>2, <2>2, <2>4, <2>5, <2>6 DEF FeedInv, SettledShown
        <3>4. \A e : InUse(e)' => InUse(e)
            BY <1>2, <2>2, <2>4, <2>6 DEF InUse, OnHeldPage
        <3>5. OneInUse' /\ \A g \in pages' : PageApart(g.page)
            BY <2>6, <3>4 DEF FeedInv, OneInUse
        <3> QED BY <1>3, <3>1, <3>2, <3>3, <3>5 DEF FeedInv, PageApart
    <2>7. CASE pages' = {} /\ settled' = Entries(feed) /\ left' = FALSE /\ grown' = FALSE
        <3>1. FeedTypes' /\ NoWalk'
            BY <1>1, <2>2, <2>3, <2>7 DEF FeedInv, FeedTypes, NoWalk
        <3>2. NothingChanged'
            BY <2>2, <2>3, <2>7 DEF NothingChanged
        <3>3. SettledShown'
            BY <1>2, <2>2, <2>5, <2>7 DEF SettledShown
        <3>4. \A e : InUse(e)' => e \in Entries(feed)
            BY <1>2, <2>2, <2>4, <2>7 DEF InUse, OnHeldPage
        <3>5. OneInUse'
            BY <3>4, EntriesFacts DEF OneInUse
        <3> QED BY <1>3, <2>7, <3>1, <3>2, <3>3, <3>5 DEF FeedInv, PageApart
    <2> QED BY <1>8, <2>6, <2>7 DEF StartScroll, feedHistory
<1> QED BY <1>4, <1>5, <1>6, <1>7, <1>8

\* A version is announced or fails, or a paper comes or goes: what is left of the entries
\* keeps its time, and so its rank unless something came in.
LEMMA EventStep ==
    ASSUME FeedInv, NEW p \in FeedPapers,
           ChangeListing(p) \/ \E v \in 1..2 : Announce(p, v) \/ AnnounceFails(p, v)
    PROVE  FeedInv'
<1> PICK feed : feed = scroll.feed
    OBVIOUS
<1>0. /\ post \in [FeedPapers -> [1..2 -> PostStates]] /\ feedEvents \in Nat
      /\ Cardinality(FeedPapers) \in Nat /\ listed \subseteq FeedPapers
      /\ settled \subseteq Entries(feed)
    BY FeedAssumption, FS_CardinalityType DEF FeedInv, FeedTypes, SettledShown
<1>1. UNCHANGED <<pages, scroll, seen, mixed>> /\ feedEvents' = feedEvents + 1 /\ Observe
    BY DEF ChangeListing, Announce, AnnounceFails, FeedEvent
<1>2. listed' \subseteq FeedPapers
    BY <1>0 DEF ChangeListing, Announce, AnnounceFails
\* The versions: at most one changes.
<1>3. \/ post' = post
      \/ \E v \in 1..2, new \in PostStates :
            /\ post' = [post EXCEPT ![p] = [post[p] EXCEPT ![v] = new]]
            /\ \/ /\ new.status = "posted" /\ post[p][v].status = "pending"
                  /\ new.at = Cardinality(FeedPapers) + feedEvents + 1
               \/ new.status = "failed" /\ post[p][v].status = "posted"
    <2>1. ASSUME NEW v \in 1..2, Announce(p, v)
          PROVE  \E new \in PostStates :
                    /\ post' = [post EXCEPT ![p] = [post[p] EXCEPT ![v] = new]]
                    /\ new.status = "posted" /\ post[p][v].status = "pending"
                    /\ new.at = Cardinality(FeedPapers) + feedEvents + 1
        <3> DEFINE new == [status |-> "posted", at |-> Cardinality(FeedPapers) + feedEvents + 1]
        <3>1. new \in PostStates
            BY <1>0 DEF PostStates
        <3>2. post' = [post EXCEPT ![p] = [post[p] EXCEPT ![v] = new]]
            BY <1>0, <2>1 DEF Announce
        <3> QED BY <2>1, <3>1, <3>2 DEF Announce
    <2>2. ASSUME NEW v \in 1..2, AnnounceFails(p, v)
          PROVE  \E new \in PostStates :
                    /\ post' = [post EXCEPT ![p] = [post[p] EXCEPT ![v] = new]]
                    /\ new.status = "failed" /\ post[p][v].status = "posted"
        <3> DEFINE new == [post[p][v] EXCEPT !.status = "failed"]
        <3>1. new \in PostStates /\ new.status = "failed"
            BY <1>0 DEF PostStates
        <3>2. post' = [post EXCEPT ![p] = [post[p] EXCEPT ![v] = new]]
            BY <1>0, <2>2 DEF AnnounceFails
        <3> QED BY <2>2, <3>1, <3>2 DEF AnnounceFails
    <2> QED BY <2>1, <2>2 DEF ChangeListing
<1>4. /\ post' \in [FeedPapers -> [1..2 -> PostStates]]
      /\ \A e \in Versions : IsPosted(e) /\ IsPosted(e)'
                => post'[e[1]][e[2]].at = post[e[1]][e[2]].at
      /\ \A e \in Versions : IsPosted(e)' /\ ~IsPosted(e) =>
            post'[e[1]][e[2]].at = Cardinality(FeedPapers) + feedEvents + 1
      /\ \A e, f \in Versions : IsPosted(e)' /\ ~IsPosted(e) /\ IsPosted(f)' /\ ~IsPosted(f)
                => e = f
    <2>1. CASE post' = post
        BY <1>0, <2>1 DEF IsPosted
    <2>2. ASSUME NEW v \in 1..2, NEW new \in PostStates,
                 post' = [post EXCEPT ![p] = [post[p] EXCEPT ![v] = new]],
                 \/ /\ new.status = "posted" /\ post[p][v].status = "pending"
                    /\ new.at = Cardinality(FeedPapers) + feedEvents + 1
                 \/ new.status = "failed" /\ post[p][v].status = "posted"
          PROVE  /\ post' \in [FeedPapers -> [1..2 -> PostStates]]
                 /\ \A e \in Versions :
                      IsPosted(e) /\ IsPosted(e)' => post'[e[1]][e[2]].at = post[e[1]][e[2]].at
                 /\ \A e \in Versions : IsPosted(e)' /\ ~IsPosted(e) =>
                      post'[e[1]][e[2]].at = Cardinality(FeedPapers) + feedEvents + 1
                 /\ \A e, f \in Versions :
                      IsPosted(e)' /\ ~IsPosted(e) /\ IsPosted(f)' /\ ~IsPosted(f) => e = f
        <3>1. post' \in [FeedPapers -> [1..2 -> PostStates]]
            BY <1>0, <2>2
        <3>2. \A e \in Versions : post'[e[1]][e[2]] = IF e[1] = p
            /\ e[2] = v THEN new ELSE post[e[1]][e[2]]
            BY <1>0, <2>2 DEF Versions
        <3>3. \A e, f \in Versions : e[1] = f[1] /\ e[2] = f[2] => e = f
            BY DEF Versions
        <3> QED BY <2>2, <3>1, <3>2, <3>3 DEF IsPosted
    <2> QED BY <1>3, <2>1, <2>2
<1>5. TimesApart'
    <2> DEFINE at(e) == post[e[1]][e[2]].at
    <2>1. \A e \in Versions : at(e) \in Nat /\ at(e)' \in Nat
        BY <1>0, <1>4 DEF Versions, PostStates
    <2>2. \A e \in Versions : IsPosted(e)' => at(e)' <= Cardinality(FeedPapers) + feedEvents + 1
        <3>1. \A e \in Versions : IsPosted(e) => at(e) <= Cardinality(FeedPapers) + feedEvents
            BY DEF FeedInv, TimesApart
        <3> QED BY <1>0, <1>4, <2>1, <3>1
    <2>3. ASSUME NEW e \in Versions, NEW f \in Versions, IsPosted(e)', IsPosted(f)', e # f
          PROVE  at(e)' > at(f)' \/ at(f)' > at(e)'
        <3>1. CASE IsPosted(e) /\ IsPosted(f)
            <4>1. at(e) > at(f) \/ at(f) > at(e)
                BY <2>3, <3>1 DEF FeedInv, TimesApart, Later
            <4> QED BY <1>4, <2>3, <3>1, <4>1
        <3>2. CASE ~IsPosted(e) /\ IsPosted(f)
            <4>1. at(f)' = at(f) /\ at(f) <= Cardinality(FeedPapers) + feedEvents
                BY <1>4, <2>3, <3>2 DEF FeedInv, TimesApart
            <4>2. at(e)' = Cardinality(FeedPapers) + feedEvents + 1
                BY <1>4, <2>3, <3>2
            <4> QED BY <1>0, <2>1, <4>1, <4>2
        <3>3. CASE IsPosted(e) /\ ~IsPosted(f)
            <4>1. at(e)' = at(e) /\ at(e) <= Cardinality(FeedPapers) + feedEvents
                BY <1>4, <2>3, <3>3 DEF FeedInv, TimesApart
            <4>2. at(f)' = Cardinality(FeedPapers) + feedEvents + 1
                BY <1>4, <2>3, <3>3
            <4> QED BY <1>0, <2>1, <4>1, <4>2
        <3>4. CASE ~IsPosted(e) /\ ~IsPosted(f)
            BY <1>4, <2>3, <3>4
        <3> QED BY <3>1, <3>2, <3>3, <3>4
    <2>4. feedEvents' = feedEvents + 1
        BY <1>1
    <2>5. \A e \in Versions : IsPosted(e)'
        => post'[e[1]][e[2]].at <= Cardinality(FeedPapers) + feedEvents'
        BY <1>0, <2>2, <2>4
    <2> QED BY <2>3, <2>5 DEF TimesApart, Later
<1>6. FeedTypes'
    BY <1>0, <1>1, <1>2, <1>4 DEF FeedInv, FeedTypes
<1>7. /\ Entries(feed) \in SUBSET Versions /\ Entries(feed)' \in SUBSET Versions
      /\ \A e \in Entries(feed) : IsPosted(e)
      /\ \A e \in Entries(feed)' : IsPosted(e)'
    BY EntriesFacts DEF Entries, Versions, IsPosted, PostedVersions
<1>8. \A e, f : e \in Entries(feed) /\ e \in Entries(feed)' /\ f \in Entries(feed)
    /\ f \in Entries(feed)'
                => (Later(e, f)' <=> Later(e, f))
    BY <1>4, <1>7 DEF Later
\* As long as nothing leaves, ranks do not fall; and they stay when nothing comes either.
<1>9. ASSUME Entries(feed) \subseteq Entries(feed)', NEW e \in Entries(feed)
      PROVE  RowsBefore(feed, e) <= RowsBefore(feed, e)'
    <2>1. PICK S, T : S = {f \in Entries(feed) : Later(f, e)}
        /\ T = {f \in Entries(feed)' : Later(f, e)'}
        OBVIOUS
    <2>2. S \in SUBSET T
        BY <1>8, <1>9, <2>1
    <2>3. IsFiniteSet(T)
        <3>1. T \in SUBSET Versions
            BY <1>7, <2>1
        <3>2. IsFiniteSet(Versions)
            <4>1. 1 \in Int /\ 2 \in Int OBVIOUS
            <4>2. IsFiniteSet(1..2) BY <4>1, FS_Interval
            <4> QED BY <4>2, FS_Product, FeedAssumption DEF Versions
        <3> QED BY <3>1, <3>2, FS_Subset
    <2>4. Cardinality(S) <= Cardinality(T)
        BY <2>2, <2>3, FS_Subset
    <2> QED BY <2>1, <2>4 DEF RowsBefore
<1>10. ASSUME Entries(feed) = Entries(feed)', NEW e \in Entries(feed)
       PROVE  RowsBefore(feed, e)' = RowsBefore(feed, e)
    <2>1. {f \in Entries(feed) : Later(f, e)} = {f \in Entries(feed)' : Later(f, e)'}
        BY <1>8, <1>10
    <2> QED BY <2>1 DEF RowsBefore
<1>11. scroll'.feed = feed
    BY <1>1
<1>12. CASE feed = "none"
    <2>1. pages = {} /\ seen = <<>> /\ settled = {} /\ scroll.end = "none"
        BY <1>12 DEF FeedInv, NoWalk
    <2>2. UNCHANGED <<settled, left, grown>>
        BY <1>1, <1>12 DEF Observe, feedHistory
    <2>3. Len(seen) = 0
        BY <2>1, EmptySeq
    <2>4. NoWalk' /\ NothingChanged' /\ SettledShown'
        BY <1>1, <2>1, <2>2, <2>3 DEF NoWalk, NothingChanged, SettledShown
    <2>5. \A e : InUse(e)' => e \in Entries(feed)'
        BY <1>1, <2>1, <2>3 DEF InUse, WasShown, OnHeldPage
    <2>6. \A e, f \in Entries(feed)' : e[1] = f[1] => e = f
        <3>1. \A e \in Entries(feed)' : e[2] \in {1, 2} /\ e[2] \in PostedVersions(e[1])'
                /\ \A w \in PostedVersions(e[1])' : w <= e[2]
            BY DEF Entries
        <3>2. \A e, f \in Versions : e[1] = f[1] /\ e[2] = f[2] => e = f
            BY DEF Versions
        <3>3. \A e, f \in Entries(feed)' : e[1] = f[1] => e[2] <= f[2] /\ f[2] <= e[2]
            BY <3>1
        <3>4. \A e, f \in Entries(feed)' : e[1] = f[1] => e[2] = f[2]
            BY <3>1, <3>3
        <3> QED BY <1>7, <3>2, <3>4
    <2>7. OneInUse'
        BY <2>5, <2>6 DEF OneInUse
    <2> QED BY <1>1, <1>5, <1>6, <2>1, <2>4, <2>7 DEF FeedInv
<1>13. CASE feed # "none"
    <2>1. settled' = settled \cap Entries(feed)'
        BY <1>1, <1>13 DEF Observe
    <2>2. left' = (left \/ ~(Entries(feed) \subseteq Entries(feed)'))
        BY <1>1, <1>13 DEF Observe
    <2>3. grown' = (grown \/ ~(Entries(feed)' \subseteq Entries(feed)))
        BY <1>1, <1>13 DEF Observe
    <2>4. /\ ~left' => ~left /\ Entries(feed) \subseteq Entries(feed)'
          /\ ~grown' => ~grown /\ Entries(feed)' \subseteq Entries(feed)
        BY <2>2, <2>3
    <2>5. NoWalk'
        BY <1>11, <1>13 DEF NoWalk
    <2>6. NothingChanged'
        <3> SUFFICES ASSUME ~grown', ~left' PROVE NothingChanged'
            BY DEF NothingChanged
        <3>1. Entries(feed)' = Entries(feed) /\ ~grown /\ ~left
            BY <2>4
        <3>2. \A e \in Entries(feed) : RowsBefore(feed, e)' = RowsBefore(feed, e)
            BY <1>10, <3>1
        <3>3. \A o, g : PageFits(feed, o, g) => PageFits(feed, o, g)'
            BY <3>1, <3>2 DEF PageFits
        <3> QED BY <1>1, <1>11, <3>1, <3>2, <3>3 DEF FeedInv, NothingChanged
    <2>7. SettledShown'
        <3>1. ASSUME ~left', NEW e \in settled, RowsBefore(feed, e)' < scroll.offset
              PROVE  RowsBefore(feed, e) < scroll.offset
            <4>1. RowsBefore(feed, e) <= RowsBefore(feed, e)' /\ RowsBefore(feed, e) \in Nat
                BY <1>0, <1>9, <2>4, <3>1, BeforeFacts DEF FeedInv
            <4>2. RowsBefore(feed, e)' \in Nat
                <5>1. e \in Entries(feed)'
                    BY <1>0, <2>4, <3>1
                <5>2. PICK T : T = {f \in Entries(feed)' : Later(f, e)'}
                    OBVIOUS
                <5>3. IsFiniteSet(Versions)
                    <6>1. 1 \in Int /\ 2 \in Int OBVIOUS
                    <6>2. IsFiniteSet(1..2) BY <6>1, FS_Interval
                    <6> QED BY <6>2, FS_Product, FeedAssumption DEF Versions
                <5>4. T \in SUBSET Versions
                    BY <1>7, <5>2
                <5>5. Cardinality(T) \in Nat
                    BY <5>3, <5>4, FS_Subset, FS_CardinalityType
                <5> QED BY <5>2, <5>5 DEF RowsBefore
            <4>3. scroll.offset \in Nat
                BY DEF FeedInv, FeedTypes, ScrollStates
            <4> QED BY <3>1, <4>1, <4>2, <4>3
        <3>2. \A e : WasShown(e)' <=> WasShown(e)
            BY <1>1 DEF WasShown
        <3> QED BY <1>1, <1>11, <2>1, <2>4, <3>1, <3>2 DEF FeedInv, SettledShown
    <2>8. OneInUse'
        <3>1. ~grown' => \A e : InUse(e)' => InUse(e)
            BY <1>1, <1>11, <2>4 DEF InUse, WasShown, OnHeldPage
        <3> QED BY <2>4, <3>1 DEF FeedInv, OneInUse
    <2>9. \A q \in pages' : PageApart(q.page)
        BY <1>1 DEF FeedInv
    <2> QED BY <1>5, <1>6, <2>5, <2>6, <2>7, <2>8, <2>9 DEF FeedInv, PageApart
<1> QED BY <1>12, <1>13

\* Every step of the App View, the bridge and the desk keeps FeedInv.
LEMMA FeedInductive == ASSUME FeedInv, [FeedsNext]_feedVars PROVE FeedInv'
<1>1. CASE UNCHANGED feedVars
    <2>1. UNCHANGED <<listed, post, feedEvents, pages, scroll, seen, settled, left, grown, mixed>>
        BY <1>1 DEF feedVars, feedRows, feedHistory, feedBounds
    <2>2. \A feed : Entries(feed)' = Entries(feed)
        BY <2>1 DEF Entries, PostedVersions, InFeed
    <2>3. \A e, f : Later(e, f)' <=> Later(e, f)
        BY <2>1 DEF Later
    <2>4. \A feed, e : RowsBefore(feed, e)' = RowsBefore(feed, e)
        <3> SUFFICES ASSUME NEW feed, NEW e PROVE RowsBefore(feed, e)' = RowsBefore(feed, e)
            OBVIOUS
        <3>1. {f \in Entries(feed)' : Later(f, e)'} = {f \in Entries(feed) : Later(f, e)}
            BY <2>2, <2>3
        <3> QED BY <3>1 DEF RowsBefore
    <2>5. \A feed, offset, pg : PageFits(feed, offset, pg)' <=> PageFits(feed, offset, pg)
        BY <2>2, <2>4 DEF PageFits
    <2>6. \A e : (WasShown(e)' <=> WasShown(e)) /\ (InUse(e)' <=> InUse(e))
        BY <2>1, <2>2 DEF WasShown, InUse, OnHeldPage
    <2>7. FeedTypes' /\ NoWalk'
        BY <2>1 DEF FeedInv, FeedTypes, NoWalk
    <2>8. TimesApart'
        BY <2>1, <2>3 DEF FeedInv, TimesApart, IsPosted
    <2>9. NothingChanged'
        BY <2>1, <2>2, <2>4, <2>5 DEF FeedInv, NothingChanged
    <2>10. SettledShown'
        BY <2>1, <2>2, <2>4, <2>6 DEF FeedInv, SettledShown
    <2>11. OneInUse'
        BY <2>1, <2>6 DEF FeedInv, OneInUse
    <2> QED BY <2>1, <2>7, <2>8, <2>9, <2>10, <2>11 DEF FeedInv, PageApart
<1>2. CASE FeedsNext
    BY <1>2, ScrollStep, EventStep DEF FeedsNext
<1> QED BY <1>1, <1>2

\* What the walk has shown and the pages that are held say what the two properties say.
LEMMA FeedInvMeans == FeedInv => WalksAreComplete /\ OneVersionEach
<1> SUFFICES ASSUME FeedInv PROVE WalksAreComplete /\ OneVersionEach
    OBVIOUS
<1>0. /\ seen \in Seq(Versions) /\ DOMAIN seen = 1..Len(seen) /\ Len(seen) \in Nat
      /\ \A i \in DOMAIN seen : seen[i] \in Versions
      /\ \A q \in pages : DOMAIN q.page.feed = 1..Len(q.page.feed)
    BY LenProperties, ElementOfSeq DEF FeedInv, FeedTypes, PageStates
<1>1. WalksAreComplete
    <2>1. scroll.end = "end" /\ ~left /\ ~mixed => settled \subseteq {seen[i] : i \in DOMAIN seen}
        BY <1>0 DEF FeedInv, SettledShown, WasShown
    <2>2. ASSUME ~grown, ~left, NEW i \in DOMAIN seen, NEW j \in DOMAIN seen, seen[i] = seen[j]
          PROVE  i = j
        <3>1. RowsBefore(scroll.feed, seen[i]) = i - 1 /\ RowsBefore(scroll.feed, seen[j]) = j - 1
            BY <1>0, <2>2 DEF FeedInv, NothingChanged
        <3> QED BY <1>0, <2>2, <3>1
    <2> QED BY <2>1, <2>2 DEF WalksAreComplete
<1>2. OneVersionEach
    <2>1. \A q \in pages : \A i, j \in DOMAIN q.page.feed :
              q.page.feed[i][1] = q.page.feed[j][1] => i = j
        BY <1>0 DEF FeedInv, PageApart
    <2>2. \A i, j \in DOMAIN seen : seen[i][1] = seen[j][1] /\ seen[i] # seen[j] => grown
        BY <1>0 DEF FeedInv, OneInUse, InUse, WasShown
    <2> QED BY <2>1, <2>2 DEF OneVersionEach
<1> QED BY <1>1, <1>2

\* A walk that comes to the end shows what was there throughout, for any page length and
\* any number of papers, and a paper stands in a page once (feed-skeleton.ts:11,
\* bsky-feeds.ts:13).
THEOREM FeedsWalk == FeedsSpec => [](WalksAreComplete /\ OneVersionEach)
BY FeedInitInv, FeedInductive, FeedInvMeans, PTL DEF FeedsSpec

-----------------------------------------------------------------------------
(* The pins of the seminar. *)

CommentRows == [paper : PaperAuthors, pinned : BOOLEAN, hidden : BOOLEAN,
                label : SeminarLabels \cup {Unlabelled}]
TabStates == [who : PaperAuthors \cup {"nobody"}, pc : {"idle", "begin", "unpin", "pin", "commit"},
              target : Nat, snapshot : SUBSET Nat, locked : SUBSET Nat]

SeminarTypes ==
    /\ comments \in Seq(CommentRows)
    /\ pinnedBy \in Seq(PaperAuthors \cup {"nobody"}) /\ Len(pinnedBy) = Len(comments)
    /\ windows \in [Windows -> TabStates]
    /\ \A w \in Windows : /\ windows[w].target \in Posts \cup {NoPost}
                          /\ windows[w].snapshot \subseteq Posts
                                    /\ windows[w].locked \subseteq Posts
    /\ pinsCrossed \in BOOLEAN /\ clicks \in 0..MaxClicks

Pinning(w) == windows[w].pc \in {"unpin", "pin", "commit"}

\* The rows a transaction has locked are of its paper, and a post it is about to pin is
\* among them.
LocksOwn ==
    \A w \in Windows :
        /\ windows[w].pc \in {"pin", "commit"} =>
               \A i \in windows[w].locked : comments[i].paper = windows[w].who
        /\ windows[w].pc = "commit" /\ windows[w].target # NoPost =>
               windows[w].target \in windows[w].locked

\* While no two transactions have overlapped, the one that runs has seen and locked every
\* pin of its paper.
SeesAllPins ==
    ~pinsCrossed =>
        /\ \A v, w \in Windows : Pinning(v) /\ Pinning(w) => v = w
        /\ \A w \in Windows, i \in Posts :
               comments[i].pinned /\ comments[i].paper = windows[w].who =>
                   /\ windows[w].pc = "unpin" => i \in windows[w].snapshot
                   /\ windows[w].pc \in {"pin", "commit"} => i \in windows[w].locked
        /\ \A i, j \in Posts :
               /\ comments[i].pinned /\ comments[j].pinned
               /\ comments[i].paper = comments[j].paper
               => i = j

SeminarInv == SeminarTypes /\ LocksOwn /\ SeesAllPins /\ OwnPins

\* The seminar begins with SeminarInv.
LEMMA SeminarInitInv == ASSUME SeminarInit PROVE SeminarInv
<1>1. comments \in Seq(CommentRows) /\ pinnedBy \in Seq(PaperAuthors \cup {"nobody"})
      /\ Len(pinnedBy) = Len(comments) /\ Posts = {}
    BY EmptySeq DEF SeminarInit, Posts
<1>3. Closed \in TabStates /\ Closed.target = NoPost /\ Closed.snapshot = {} /\ Closed.locked = {}
    BY DEF Closed, TabStates, NoPost
<1>4. windows \in [Windows -> TabStates] /\ \A w \in Windows : windows[w] = Closed
    BY <1>3 DEF SeminarInit
<1>5. pinsCrossed \in BOOLEAN /\ clicks \in 0..MaxClicks
    <2>1. pinsCrossed \in BOOLEAN BY DEF SeminarInit
    <2>2. clicks \in 0..MaxClicks BY SeminarAssumption DEF SeminarInit
    <2> QED BY <2>1, <2>2
<1>2. SeminarTypes
    BY <1>1, <1>3, <1>4, <1>5 DEF SeminarTypes
<1> QED BY <1>1, <1>2 DEF SeminarInit, SeminarInv, LocksOwn, SeesAllPins, OwnPins, Closed, Pinning

\* A new post, a label and a moderator's word leave the pins and the tabs alone.
LEMMA PinsRemain ==
    ASSUME SeminarInv, UNCHANGED <<windows, pinsCrossed>>,
           comments' \in Seq(CommentRows), pinnedBy' \in Seq(PaperAuthors \cup {"nobody"}),
           Len(pinnedBy') = Len(comments'), Len(comments) <= Len(comments'),
           clicks' \in 0..MaxClicks,
           \A i \in 1..Len(comments) :
               /\ comments'[i].paper = comments[i].paper
               /\ comments'[i].pinned = comments[i].pinned
               /\ pinnedBy'[i] = pinnedBy[i],
           \A i \in 1..Len(comments') : i > Len(comments) => ~comments'[i].pinned
    PROVE  SeminarInv'
<1>1. /\ Posts = 1..Len(comments) /\ Posts' = 1..Len(comments')
      /\ Len(comments) \in Nat /\ Len(comments') \in Nat
      /\ \A i \in Posts' : i \in Posts \/ i > Len(comments)
      /\ Posts \subseteq Posts'
    BY DEF Posts, SeminarInv, SeminarTypes
<1>2. SeminarTypes'
    BY <1>1 DEF SeminarInv, SeminarTypes
<1>3. LocksOwn'
    BY <1>1 DEF SeminarInv, SeminarTypes, LocksOwn
<1>4. \A i \in Posts' : comments'[i].pinned => i \in Posts /\ comments[i].pinned
                                               /\ comments'[i].paper = comments[i].paper
    BY <1>1
<1>5. SeesAllPins'
    BY <1>1, <1>4 DEF SeminarInv, SeesAllPins, Pinning
<1>6. OwnPins'
    BY <1>1, <1>4 DEF SeminarInv, OwnPins
<1> QED BY <1>2, <1>3, <1>5, <1>6 DEF SeminarInv

\* What a tab does on its own, with the posts as they are.
LEMMA TabsGood ==
    ASSUME SeminarInv, NEW w \in Windows, NEW tab \in TabStates,
           tab.target \in Posts \cup {NoPost}, tab.snapshot \subseteq Posts,
           tab.locked \subseteq Posts,
           windows' = [windows EXCEPT ![w] = tab], comments' = comments, pinnedBy' = pinnedBy,
           clicks' \in 0..MaxClicks, pinsCrossed' \in BOOLEAN
    PROVE  SeminarTypes'
BY DEF SeminarInv, SeminarTypes, Posts

\* A transaction that pins keeps SeminarInv, up to its commit.
LEMMA PinSteps ==
    ASSUME SeminarInv, NEW w \in Windows,
           BeginUnpin(w) \/ EndUnpin(w) \/ SetPin(w)
    PROVE  SeminarInv'
<1> DEFINE mine == windows[w]
<1>1. /\ mine \in TabStates /\ mine.target \in Posts \cup {NoPost} /\ mine.snapshot \subseteq Posts
      /\ mine.locked \subseteq Posts /\ Posts \subseteq Nat
    BY DEF SeminarInv, SeminarTypes, Posts
<1>2. UNCHANGED <<comments, pinnedBy, clicks>> /\ clicks \in 0..MaxClicks
    BY DEF BeginUnpin, EndUnpin, SetPin, SeminarInv, SeminarTypes
<1>3. windows \in [Windows -> TabStates]
    BY DEF SeminarInv, SeminarTypes
<1>4. CASE BeginUnpin(w)
    <2> DEFINE tab == [mine EXCEPT !.pc = "unpin", !.snapshot = Pinned(mine.who)]
    <2>1. windows' = [windows EXCEPT ![w] = tab] /\ Pinned(mine.who) \subseteq Posts
        BY <1>3, <1>4 DEF BeginUnpin, Pinned
    <2>2. /\ tab \in TabStates /\ tab.pc = "unpin" /\ tab.snapshot = Pinned(mine.who)
          /\ tab.who = mine.who /\ tab.target = mine.target /\ tab.locked = mine.locked
        BY <1>1, <2>1 DEF TabStates
    <2>3. pinsCrossed' \in BOOLEAN
        BY <1>4 DEF BeginUnpin, SeminarInv, SeminarTypes
    <2>4. SeminarTypes'
        BY <1>1, <1>2, <2>1, <2>2, <2>3, TabsGood
    <2>5. \A v \in Windows : windows'[v] = IF v = w THEN tab ELSE windows[v]
        BY <1>3, <2>1
    <2> HIDE DEF tab
    <2>6. LocksOwn'
        BY <1>2, <2>2, <2>5 DEF SeminarInv, LocksOwn
    <2>7. ~pinsCrossed' => ~pinsCrossed /\ \A v \in Windows \ {w} : ~Pinning(v)
        BY <1>4 DEF BeginUnpin, Pinning
    <2>8. SeesAllPins'
        BY <1>2, <2>2, <2>5, <2>7 DEF SeminarInv, SeesAllPins, Pinning, Pinned, Posts
    <2>9. OwnPins'
        BY <1>2, <2>2, <2>5 DEF SeminarInv, OwnPins, Posts
    <2> QED BY <2>4, <2>6, <2>8, <2>9 DEF SeminarInv
<1>5. CASE EndUnpin(w)
    <2> DEFINE tab == [mine EXCEPT !.pc = "pin", !.locked = mine.snapshot \cap Pinned(mine.who)]
    <2>1. windows' = [windows EXCEPT ![w] = tab] /\ Pinned(mine.who) \subseteq Posts
          /\ mine.pc = "unpin" /\ mine.snapshot \cap LockedByOther(w) = {}
          /\ pinsCrossed' = pinsCrossed
        BY <1>3, <1>5 DEF EndUnpin, Pinned
    <2>2. /\ tab \in TabStates /\ tab.pc = "pin" /\ tab.locked = mine.snapshot \cap Pinned(mine.who)
          /\ tab.who = mine.who /\ tab.target = mine.target /\ tab.snapshot = mine.snapshot
        BY <1>1, <2>1 DEF TabStates
    <2>4. SeminarTypes'
        BY <1>1, <1>2, <2>1, <2>2, TabsGood DEF SeminarInv, SeminarTypes
    <2>5. \A v \in Windows : windows'[v] = IF v = w THEN tab ELSE windows[v]
        BY <1>3, <2>1
    <2> HIDE DEF tab
    <2>6. LocksOwn'
        BY <1>2, <2>2, <2>5 DEF SeminarInv, LocksOwn, Pinned
    <2>8. SeesAllPins'
        BY <1>2, <2>1, <2>2, <2>5 DEF SeminarInv, SeesAllPins, Pinning, Pinned, Posts
    <2>9. \A v \in Windows : v # w => windows[v].locked \cap tab.locked = {}
        BY <2>1, <2>2 DEF LockedByOther
    <2>10. OwnPins'
        BY <1>2, <2>5, <2>9 DEF SeminarInv, OwnPins, Posts
    <2> QED BY <2>4, <2>6, <2>8, <2>10 DEF SeminarInv
<1>6. CASE SetPin(w)
    <2>0. mine.pc = "pin" /\ pinsCrossed' = pinsCrossed /\ pinsCrossed \in BOOLEAN
        BY <1>6 DEF SetPin, SeminarInv, SeminarTypes
    <2>1. PICK tab \in TabStates :
            /\ windows' = [windows EXCEPT ![w] = tab]
            /\ tab.pc = "commit" /\ tab.who = mine.who /\ tab.snapshot = mine.snapshot
            /\ \/ /\ tab.target = NoPost /\ tab.locked = mine.locked
               \/ /\ tab.target = mine.target /\ tab.target # NoPost
                  /\ comments[mine.target].paper = mine.who
                  /\ mine.target \notin LockedByOther(w)
                  /\ tab.locked = mine.locked \cup {mine.target}
        <3>1. CASE TargetFound(w)
            <4> DEFINE r == [mine EXCEPT !.pc = "commit", !.locked = mine.locked \cup {mine.target}]
            <4>1. /\ r \in TabStates /\ r.pc = "commit" /\ r.who = mine.who
                  /\ r.snapshot = mine.snapshot /\ r.target = mine.target
                  /\ r.locked = mine.locked \cup {mine.target}
                BY <1>1 DEF TabStates
            <4>2. windows' = [windows EXCEPT ![w] = r]
                BY <1>3, <1>6, <3>1 DEF SetPin
            <4> QED BY <1>6, <3>1, <4>1, <4>2 DEF SetPin, TargetFound
        <3>2. CASE ~TargetFound(w)
            <4> DEFINE r == [mine EXCEPT !.pc = "commit", !.target = NoPost]
            <4>1. /\ r \in TabStates /\ r.pc = "commit" /\ r.who = mine.who
                  /\ r.snapshot = mine.snapshot /\ r.target = NoPost /\ r.locked = mine.locked
                BY <1>1 DEF TabStates, NoPost
            <4>2. windows' = [windows EXCEPT ![w] = r]
                BY <1>3, <1>6, <3>2 DEF SetPin
            <4> QED BY <4>1, <4>2
        <3> QED BY <3>1, <3>2
    <2>2. tab.target \in Posts \cup {NoPost} /\ tab.snapshot \subseteq Posts
        /\ tab.locked \subseteq Posts
        BY <1>1, <2>1
    <2>4. SeminarTypes'
        BY <1>2, <2>0, <2>1, <2>2, TabsGood
    <2>5. \A v \in Windows : windows'[v] = IF v = w THEN tab ELSE windows[v]
        BY <1>3, <2>1
    <2>6. LocksOwn'
        BY <1>2, <2>0, <2>1, <2>5 DEF SeminarInv, LocksOwn
    <2>8. SeesAllPins'
        BY <1>2, <2>0, <2>1, <2>5 DEF SeminarInv, SeesAllPins, Pinning, Posts
    <2>9. \A v \in Windows : v # w => windows[v].locked \cap tab.locked = {}
        <3>1. \A v \in Windows : v # w => windows[v].locked \cap mine.locked = {}
            BY DEF SeminarInv, OwnPins
        <3>2. mine.target \notin LockedByOther(w) =>
                  \A v \in Windows : v # w => mine.target \notin windows[v].locked
            BY DEF LockedByOther
        <3> QED BY <2>1, <3>1, <3>2
    <2>10. OwnPins'
        BY <1>2, <2>5, <2>9 DEF SeminarInv, OwnPins, Posts
    <2> QED BY <2>4, <2>6, <2>8, <2>10 DEF SeminarInv
<1> QED BY <1>4, <1>5, <1>6

\* The commit leaves the post it pins as the only pin of its paper.
LEMMA CommitKeeps == ASSUME SeminarInv, NEW w \in Windows, CommitPin(w) PROVE SeminarInv'
<1> DEFINE mine == windows[w]
<1>1. /\ mine \in TabStates /\ mine.target \in Posts \cup {NoPost}
      /\ mine.locked \subseteq Posts /\ Posts = 1..Len(comments) /\ Len(comments) \in Nat
      /\ comments \in Seq(CommentRows) /\ windows \in [Windows -> TabStates]
      /\ pinnedBy \in Seq(PaperAuthors \cup {"nobody"}) /\ Len(pinnedBy) = Len(comments)
    BY DEF SeminarInv, SeminarTypes, Posts
<1>2. /\ mine.pc = "commit" /\ UNCHANGED <<pinsCrossed, clicks>>
      /\ windows' = [windows EXCEPT ![w] = Closed]
    BY DEF CommitPin
<1>3. \A i \in Posts : comments[i] \in CommentRows
    BY <1>1, ElementOfSeq
<1>4. comments' \in [Posts -> CommentRows]
    BY <1>3 DEF CommitPin, CommentRows
<1>5. comments' \in Seq(CommentRows) /\ Len(comments') = Len(comments) /\ Posts' = Posts
    BY <1>1, <1>4, SeqDef DEF Posts
<1>6. \A i \in Posts : /\ comments'[i].paper = comments[i].paper
                       /\ i \in mine.locked => (comments'[i].pinned <=> i = mine.target)
                       /\ i \notin mine.locked => comments'[i].pinned = comments[i].pinned
    BY <1>3 DEF CommitPin, CommentRows
<1>7. mine.target # NoPost => mine.target \in mine.locked /\ comments[mine.target].paper = mine.who
                              /\ mine.who \in PaperAuthors
    <2>1. mine.target # NoPost => mine.target \in mine.locked
                                  /\ comments[mine.target].paper = mine.who
        BY <1>2 DEF SeminarInv, LocksOwn
    <2> QED BY <1>1, <1>3, <2>1 DEF CommentRows
<1>8. /\ pinnedBy' \in Seq(PaperAuthors \cup {"nobody"}) /\ Len(pinnedBy') = Len(comments)
      /\ \A i \in Posts : i # mine.target => pinnedBy'[i] = pinnedBy[i]
      /\ mine.target # NoPost => pinnedBy'[mine.target] = mine.who
    <2>1. CASE mine.target = NoPost
        BY <1>1, <2>1 DEF CommitPin
    <2>2. CASE mine.target # NoPost
        <3>1. pinnedBy' = [pinnedBy EXCEPT ![mine.target] = mine.who]
            BY <2>2 DEF CommitPin
        <3>2. mine.target \in 1..Len(pinnedBy) /\ mine.who \in PaperAuthors \cup {"nobody"}
            BY <1>1, <1>7, <2>2
        <3> QED BY <1>1, <3>1, <3>2, <2>2, ExceptSeq
    <2> QED BY <2>1, <2>2
<1>9. Closed \in TabStates /\ Closed.locked = {} /\ Closed.snapshot = {} /\ Closed.target = NoPost
      /\ Closed.pc = "idle"
    BY DEF Closed, TabStates, NoPost
<1>10. \A v \in Windows : windows'[v] = IF v = w THEN Closed ELSE windows[v]
    BY <1>1, <1>2
<1>11. SeminarTypes'
    BY <1>1, <1>2, <1>5, <1>8, <1>9, <1>10 DEF SeminarInv, SeminarTypes
<1>12. LocksOwn'
    <2>1. \A v \in Windows : windows[v].locked \subseteq Posts
        BY DEF SeminarInv, SeminarTypes
    <2> QED BY <1>6, <1>9, <1>10, <2>1 DEF SeminarInv, LocksOwn
<1>13. \A i \in Posts : comments'[i].pinned =>
           \/ i = mine.target /\ i \in mine.locked
           \/ i \notin mine.locked /\ comments[i].pinned
    BY <1>6
<1>14. SeesAllPins'
    <2> SUFFICES ASSUME ~pinsCrossed PROVE SeesAllPins'
        BY <1>2 DEF SeesAllPins
    <2>1. \A v \in Windows : Pinning(v) => v = w
        BY <1>2 DEF SeminarInv, SeesAllPins, Pinning
    <2>2. \A v \in Windows : windows'[v].pc \notin {"unpin", "pin", "commit"}
        BY <1>9, <1>10, <2>1 DEF Pinning
    <2>3. \A i \in Posts : comments[i].pinned /\ comments[i].paper = mine.who => i \in mine.locked
        BY <1>2 DEF SeminarInv, SeesAllPins
    <2>4. \A i \in Posts : i \in mine.locked => comments[i].paper = mine.who
        BY <1>2 DEF SeminarInv, LocksOwn
    <2>5. \A i, j \in Posts' : comments'[i].pinned /\ comments'[j].pinned
              /\ comments'[i].paper = comments'[j].paper => i = j
        <3> SUFFICES ASSUME NEW i \in Posts, NEW j \in Posts, comments'[i].pinned,
                            comments'[j].pinned, comments[i].paper = comments[j].paper
                     PROVE  i = j
            BY <1>5, <1>6
        <3>1. CASE comments[i].paper = mine.who
            BY <1>13, <2>3, <3>1
        <3>2. CASE comments[i].paper # mine.who
            BY <1>13, <2>4, <3>2 DEF SeminarInv, SeesAllPins
        <3> QED BY <3>1, <3>2
    <2> QED BY <2>2, <2>5 DEF SeesAllPins, Pinning
<1>15. OwnPins'
    <2>1. \A v, u \in Windows : v # u => windows'[v].locked \cap windows'[u].locked = {}
        BY <1>9, <1>10 DEF SeminarInv, OwnPins
    <2>2. ASSUME NEW i \in Posts, comments'[i].pinned PROVE pinnedBy'[i] = comments[i].paper
        <3>1. CASE i = mine.target
            BY <1>1, <1>7, <1>8, <2>2, <3>1 DEF NoPost
        <3>2. CASE i # mine.target
            BY <1>8, <1>13, <2>2, <3>2 DEF SeminarInv, OwnPins
        <3> QED BY <3>1, <3>2
    <2> QED BY <1>5, <1>6, <2>1, <2>2 DEF OwnPins
<1> QED BY <1>11, <1>12, <1>14, <1>15 DEF SeminarInv

\* Every step of the seminar keeps SeminarInv.
LEMMA SeminarInductive == ASSUME SeminarInv, [SeminarNext]_seminarVars PROVE SeminarInv'
<1>1. CASE UNCHANGED seminarVars
    BY <1>1 DEF seminarVars, SeminarInv, SeminarTypes, LocksOwn, SeesAllPins, OwnPins, Pinning,
        Posts
<1>0. /\ comments \in Seq(CommentRows) /\ Posts = 1..Len(comments) /\ Len(comments) \in Nat
      /\ pinnedBy \in Seq(PaperAuthors \cup {"nobody"}) /\ Len(pinnedBy) = Len(comments)
      /\ clicks \in 0..MaxClicks /\ MaxClicks \in Nat /\ windows \in [Windows -> TabStates]
      /\ pinsCrossed \in BOOLEAN /\ \A i \in Posts : comments[i] \in CommentRows
    BY SeminarAssumption, ElementOfSeq DEF SeminarInv, SeminarTypes, Posts
<1>2. ASSUME NEW p \in PaperAuthors, AddComment(p) PROVE SeminarInv'
    <2>1. Comment(p) \in CommentRows /\ ~Comment(p).pinned
        BY DEF Comment, CommentRows
    <2>2. /\ comments' \in Seq(CommentRows) /\ Len(comments') = Len(comments) + 1
          /\ \A i \in 1..Len(comments) : comments'[i] = comments[i]
          /\ comments'[Len(comments) + 1] = Comment(p)
        BY <1>0, <1>2, <2>1, AppendProperties DEF AddComment
    <2>3. /\ pinnedBy' \in Seq(PaperAuthors \cup {"nobody"}) /\ Len(pinnedBy') = Len(pinnedBy) + 1
          /\ \A i \in 1..Len(pinnedBy) : pinnedBy'[i] = pinnedBy[i]
        BY <1>0, <1>2, AppendProperties DEF AddComment
    <2>4. \A i \in 1..Len(comments') : i > Len(comments) => ~comments'[i].pinned
        BY <1>0, <2>1, <2>2
    <2>5. UNCHANGED <<windows, pinsCrossed, clicks>>
        BY <1>2 DEF AddComment
    <2> QED BY <1>0, <2>2, <2>3, <2>4, <2>5, PinsRemain
<1>3. ASSUME NEW i \in Posts, NEW label \in SeminarLabels \cup {Unlabelled}, SetLabel(i, label)
      PROVE  SeminarInv'
    <2> DEFINE c == [comments[i] EXCEPT !.label = label]
    <2>1. c \in CommentRows /\ c.paper = comments[i].paper /\ c.pinned = comments[i].pinned
        BY <1>0 DEF CommentRows
    <2>2. comments' = [comments EXCEPT ![i] = c]
        BY <1>3 DEF SetLabel
    <2> HIDE DEF c
    <2>3. /\ comments' \in Seq(CommentRows) /\ Len(comments') = Len(comments)
          /\ \A j \in 1..Len(comments) : comments'[j] = IF j = i THEN c ELSE comments[j]
        BY <1>0, <2>1, <2>2, ExceptSeq
    <2>4. UNCHANGED <<windows, pinnedBy, pinsCrossed>> /\ clicks' \in 0..MaxClicks
        BY <1>0, <1>3 DEF SetLabel, Click
    <2>5. \A j \in 1..Len(comments) : /\ comments'[j].paper = comments[j].paper
                                      /\ comments'[j].pinned = comments[j].pinned
                                      /\ pinnedBy'[j] = pinnedBy[j]
        BY <2>1, <2>3, <2>4
    <2> QED BY <1>0, <2>3, <2>4, <2>5, PinsRemain
<1>4. ASSUME NEW i \in Posts, NEW hidden \in BOOLEAN, SetHidden(i, hidden)
      PROVE  SeminarInv'
    <2> DEFINE c == [comments[i] EXCEPT !.hidden = hidden]
    <2>1. c \in CommentRows /\ c.paper = comments[i].paper /\ c.pinned = comments[i].pinned
        BY <1>0 DEF CommentRows
    <2>2. comments' = [comments EXCEPT ![i] = c]
        BY <1>4 DEF SetHidden
    <2> HIDE DEF c
    <2>3. /\ comments' \in Seq(CommentRows) /\ Len(comments') = Len(comments)
          /\ \A j \in 1..Len(comments) : comments'[j] = IF j = i THEN c ELSE comments[j]
        BY <1>0, <2>1, <2>2, ExceptSeq
    <2>4. UNCHANGED <<windows, pinnedBy, pinsCrossed>> /\ clicks' \in 0..MaxClicks
        BY <1>0, <1>4 DEF SetHidden, Click
    <2>5. \A j \in 1..Len(comments) : /\ comments'[j].paper = comments[j].paper
                                      /\ comments'[j].pinned = comments[j].pinned
                                      /\ pinnedBy'[j] = pinnedBy[j]
        BY <2>1, <2>3, <2>4
    <2> QED BY <1>0, <2>3, <2>4, <2>5, PinsRemain
<1>5. ASSUME NEW w \in Windows, NEW p \in PaperAuthors, OpenThread(w, p) PROVE SeminarInv'
    <2> DEFINE tab == [Closed EXCEPT !.who = p]
    <2>1. windows' = [windows EXCEPT ![w] = tab] /\ UNCHANGED <<comments, pinnedBy, pinsCrossed,
        clicks>>
        BY <1>0, <1>5 DEF OpenThread
    <2>2. /\ tab \in TabStates /\ tab.pc = "idle" /\ tab.target = NoPost /\ tab.snapshot = {}
          /\ tab.locked = {}
        BY DEF Closed, TabStates, NoPost
    <2> HIDE DEF tab
    <2>3. \A v \in Windows : windows'[v] = IF v = w THEN tab ELSE windows[v]
        BY <1>0, <2>1
    <2>4. SeminarTypes'
        BY <1>0, <2>1, <2>2, TabsGood
    <2> QED BY <2>1, <2>2, <2>3, <2>4 DEF SeminarInv, LocksOwn, SeesAllPins, OwnPins, Pinning, Posts
<1>6. ASSUME NEW w \in Windows, NEW target \in Posts \cup {NoPost}, AskPin(w, target)
      PROVE  SeminarInv'
    <2> DEFINE tab == [windows[w] EXCEPT !.pc = "begin", !.target = target]
    <2>0. windows[w] \in TabStates /\ target \in Nat
        BY <1>0 DEF NoPost
    <2>1. /\ windows' = [windows EXCEPT ![w] = tab]
          /\ UNCHANGED <<comments, pinnedBy, pinsCrossed>> /\ clicks' \in 0..MaxClicks
        <3>1. windows' = [windows EXCEPT ![w] = tab]
            BY <1>0, <1>6 DEF AskPin
        <3>2. UNCHANGED <<comments, pinnedBy, pinsCrossed>> /\ clicks' \in 0..MaxClicks
            BY <1>0, <1>6 DEF AskPin, Click
        <3> QED BY <3>1, <3>2
    <2>2. /\ tab \in TabStates /\ tab.pc = "begin" /\ tab.target = target
              /\ tab.who = windows[w].who
          /\ tab.locked = windows[w].locked /\ tab.snapshot = windows[w].snapshot
        BY <2>0 DEF TabStates
    <2> HIDE DEF tab
    <2>3. \A v \in Windows : windows'[v] = IF v = w THEN tab ELSE windows[v]
        BY <1>0, <2>1
    <2>4. windows[w].snapshot \subseteq Posts /\ windows[w].locked \subseteq Posts
        BY DEF SeminarInv, SeminarTypes
    <2>5. SeminarTypes'
        BY <1>0, <2>1, <2>2, <2>4, TabsGood
    <2> QED BY <2>1, <2>2, <2>3, <2>5 DEF SeminarInv, LocksOwn, SeesAllPins, OwnPins, Pinning, Posts
<1>7. ASSUME NEW w \in Windows, BeginUnpin(w) \/ EndUnpin(w) \/ SetPin(w) \/ CommitPin(w)
      PROVE  SeminarInv'
    BY <1>7, PinSteps, CommitKeeps
<1> QED BY <1>1, <1>2, <1>3, <1>4, <1>5, <1>6, <1>7 DEF SeminarNext

\* A thread has one pin of its paper at most, pinned by its author (posts.ts:109), whatever
\* tabs are open and whatever they ask for, while no two transactions have overlapped.
THEOREM SeminarPins == SeminarSpec => [](OnePin /\ OwnPins)
<1>1. SeminarInv => OnePin /\ OwnPins
    <2> SUFFICES ASSUME SeminarInv, ~pinsCrossed, NEW p \in PaperAuthors
                 PROVE  Cardinality(Pinned(p)) <= 1
        BY DEF SeminarInv, OnePin
    <2>1. \A i, j \in Pinned(p) : i = j
        BY DEF SeminarInv, SeesAllPins, Pinned
    <2>2. CASE Pinned(p) = {}
        BY <2>2, FS_EmptySet
    <2>3. CASE Pinned(p) # {}
        <3>1. PICK i : Pinned(p) = {i} BY <2>1, <2>3
        <3> QED BY <3>1, FS_Singleton
    <2> QED BY <2>2, <2>3
<1>2. SeminarSpec => []SeminarInv
    BY SeminarInitInv, SeminarInductive, PTL DEF SeminarSpec
<1> QED BY <1>1, <1>2, PTL

-----------------------------------------------------------------------------
(* The circuits, and the worker that embeds. *)

CircuitStates == [state : {"closed", "open", "half"}, trial : BOOLEAN,
                  fires : 0..MaxFires, failures : Nat]
CallStates == [by : Embedders \cup {NoSlot}, waits : SUBSET Methods]
SlotStates == [pc : {"idle", "load", "wait", "write", "fail"},
               job : Reindexes \cup {NoSlot}, read : Nat]

OnTrial(m) == IF circuits[m].trial THEN 1 ELSE 0

\* A circuit lets a request through while it is half open, which a reset has paid for.
CircuitInv ==
    /\ circuits \in [Methods -> CircuitStates]
    /\ blamed \subseteq Methods /\ trials \in Nat /\ resets \in Nat
    /\ CircuitsKeepApart
    /\ \A m \in Methods : circuits[m].trial => circuits[m].state = "half"
    /\ trials + OnTrial("text") + OnTrial("embed") + OnTrial("fallback") <= resets

\* What becomes of a circuit: only a reset gives it a trial.
LEMMA CircuitFacts ==
    ASSUME NEW c \in CircuitStates, c.trial => c.state = "half"
    PROVE  /\ c.fires < MaxFires => Fired(c) \in CircuitStates
           /\ Fired(c).state = c.state /\ ~Fired(c).trial
           /\ Failing(c) \in CircuitStates /\ ~Failing(c).trial
           /\ Succeeded(c) \in CircuitStates /\ ~Succeeded(c).trial
           /\ c.state = "closed" => Succeeded(c).state = "closed"
           /\ c.fires < MaxFires => Failing(Fired(c)) \in CircuitStates
           /\ ~Failing(Fired(c)).trial
<1>0. /\ c.state \in {"closed", "open", "half"} /\ c.trial \in BOOLEAN
      /\ c.fires \in 0..MaxFires /\ c.failures \in Nat /\ MaxFires \in Nat
    BY BreakersAssumption DEF CircuitStates
<1>1. /\ c.fires < MaxFires => Fired(c) \in CircuitStates
      /\ Fired(c).state = c.state /\ ~Fired(c).trial
      /\ DOMAIN Fired(c) = {"state", "trial", "fires", "failures"}
    <2>1. PICK n : n = c.fires + 1
        OBVIOUS
    <2>2. Fired(c) = [c EXCEPT !.fires = n, !.trial = FALSE]
        BY <2>1 DEF Fired
    <2>3. c.fires < MaxFires => n \in 0..MaxFires
        BY <1>0, <2>1
    <2>4. Fired(c).state = c.state /\ ~Fired(c).trial
          /\ DOMAIN Fired(c) = {"state", "trial", "fires", "failures"}
        BY <2>2 DEF CircuitStates
    <2> QED BY <2>2, <2>3, <2>4 DEF CircuitStates
<1>2. ASSUME NEW d, DOMAIN d = {"state", "trial", "fires", "failures"},
             d.trial => d.state = "half", d.trial \in BOOLEAN
      PROVE  /\ ~Failing(d).trial
             /\ d \in CircuitStates => Failing(d) \in CircuitStates
    <2>1. PICK bad : bad = d.failures + 1
        OBVIOUS
    <2>2. PICK trips \in BOOLEAN :
            trips = (d.state = "half" \/ (d.fires >= Volume /\ 2 * bad > d.fires))
        OBVIOUS
    <2>3. Failing(d) = [d EXCEPT !.failures = bad,
                  !.trial = IF trips THEN FALSE ELSE d.trial,
                  !.state = IF trips THEN "open" ELSE d.state]
        BY <2>1, <2>2 DEF Failing
    <2>4. ~Failing(d).trial
        BY <1>2, <2>2, <2>3
    <2>5. d \in CircuitStates => bad \in Nat
        BY <2>1 DEF CircuitStates
    <2>6. d \in CircuitStates => Failing(d) \in CircuitStates
        BY <2>3, <2>5 DEF CircuitStates
    <2> QED BY <2>4, <2>6
<1>3. Failing(c) \in CircuitStates /\ ~Failing(c).trial
    BY <1>0, <1>2 DEF CircuitStates
<1>4. /\ Succeeded(c) \in CircuitStates /\ ~Succeeded(c).trial
      /\ c.state = "closed" => Succeeded(c).state = "closed"
    BY <1>0 DEF Succeeded, CircuitStates
<1>5. ~Failing(Fired(c)).trial /\ (c.fires < MaxFires => Failing(Fired(c)) \in CircuitStates)
    <2>1. (Fired(c).trial => Fired(c).state = "half") /\ Fired(c).trial \in BOOLEAN
        <3>1. Fired(c).trial = FALSE
            BY DEF Fired, CircuitStates
        <3> QED BY <3>1
    <2> QED BY <1>1, <1>2, <2>1
<1> QED BY <1>1, <1>3, <1>4, <1>5

\* A step after which no circuit has a trial that it had not.
LEMMA NoNewTrial ==
    ASSUME CircuitInv, circuits' \in [Methods -> CircuitStates],
           \A m \in Methods : circuits'[m].trial => circuits[m].trial /\ circuits'[m] = circuits[m],
           blamed \subseteq blamed', blamed' \subseteq Methods, trials' = trials, resets' = resets,
           \A m \in Methods :
               circuits'[m].state # "closed" => circuits[m].state # "closed" \/ m \in blamed'
    PROVE  CircuitInv'
<1>1. {"text", "embed", "fallback"} = Methods
    BY DEF Methods
<1>2. \A m \in Methods :
        OnTrial(m) \in {0, 1} /\ OnTrial(m)' \in {0, 1} /\ OnTrial(m)' <= OnTrial(m)
    BY DEF CircuitInv, CircuitStates, OnTrial
<1>3. CircuitsKeepApart'
    BY DEF CircuitInv, CircuitsKeepApart
<1>4. \A m \in Methods : circuits'[m].trial => circuits'[m].state = "half"
    BY DEF CircuitInv
<1>5. trials + OnTrial("text")' + OnTrial("embed")' + OnTrial("fallback")' <= resets
    <2>1. trials + OnTrial("text") + OnTrial("embed") + OnTrial("fallback") <= resets
          /\ trials \in Nat /\ resets \in Nat
        BY DEF CircuitInv
    <2>2. PICK a, b, d, e, f, g \in {0, 1} :
            /\ a = OnTrial("text") /\ b = OnTrial("embed") /\ d = OnTrial("fallback")
            /\ e = OnTrial("text")' /\ f = OnTrial("embed")' /\ g = OnTrial("fallback")'
            /\ e <= a /\ f <= b /\ g <= d
        BY <1>1, <1>2
    <2> QED BY <2>1, <2>2
<1> QED BY <1>3, <1>4, <1>5 DEF CircuitInv

\* Who asks: a call goes through, or is turned away.
LEMMA AskKeepsCircuits ==
    ASSUME CircuitInv, NEW by, NEW method \in {"text", "embed"}, resets' = resets,
           Ask(by, method) \/ AskInVain(by, method)
    PROVE  CircuitInv'
<1>0. /\ Route(method) \subseteq Methods /\ \A m \in Methods : Around(m) \subseteq Methods
      /\ circuits \in [Methods -> CircuitStates]
      /\ \A m \in Methods : circuits[m] \in CircuitStates
            /\ (circuits[m].trial => circuits[m].state = "half")
    BY DEF Route, Around, Methods, CircuitInv
<1>1. \A m \in Methods :
        /\ m \in Route(method) /\ HasRoom(method) => Fired(circuits[m]) \in CircuitStates
        /\ Fired(circuits[m]).state = circuits[m].state /\ ~Fired(circuits[m]).trial
        /\ m \in Route(method) /\ HasRoom(method) => Failing(Fired(circuits[m])) \in CircuitStates
        /\ ~Failing(Fired(circuits[m])).trial
    BY <1>0, CircuitFacts DEF HasRoom
<1>2. CASE AskInVain(by, method)
    <2>1. PICK m \in Methods :
            /\ m \in Route(method)
            /\ circuits' = [n \in Methods |->
                   IF n = m THEN Fired(circuits[n])
                   ELSE IF n \in Around(m) \cap Route(method) THEN Failing(Fired(circuits[n]))
                   ELSE circuits[n]]
            /\ blamed' = blamed \cup (Around(m) \cap Route(method))
            /\ HasRoom(method) /\ trials' = trials
        BY <1>2 DEF AskInVain, TurnsAway
    <2>2. circuits' \in [Methods -> CircuitStates]
        BY <1>0, <1>1, <2>1
    <2>3. \A n \in Methods : circuits'[n].trial => circuits[n].trial /\ circuits'[n] = circuits[n]
        BY <1>1, <2>1
    <2>4. \A n \in Methods :
            circuits'[n].state # "closed" => circuits[n].state # "closed" \/ n \in blamed'
        BY <1>1, <2>1
    <2>5. blamed \subseteq blamed' /\ blamed' \subseteq Methods
        BY <1>0, <2>1 DEF CircuitInv
    <2> QED BY <2>1, <2>2, <2>3, <2>4, <2>5, NoNewTrial
<1>3. CASE Ask(by, method)
    <2>1. /\ \A m \in Route(method) : Admits(circuits[m])
          /\ circuits' = [n \in Methods |->
                 IF n \in Route(method) THEN Fired(circuits[n]) ELSE circuits[n]]
          /\ trials' = IF \E m \in Route(method) : circuits[m].state # "closed"
                       THEN trials + 1 ELSE trials
          /\ blamed' = blamed /\ HasRoom(method)
        BY <1>3 DEF Ask, LetsThrough
    <2>2. circuits' \in [Methods -> CircuitStates]
        BY <1>0, <1>1, <2>1
    <2>3. \A n \in Methods :
            /\ circuits'[n].trial => circuits[n].trial /\ circuits'[n] = circuits[n]
            /\ circuits'[n].state = circuits[n].state
            /\ n \in Route(method) => ~circuits'[n].trial
        BY <1>1, <2>1
    <2>4. CircuitsKeepApart'
        BY <2>1, <2>3 DEF CircuitInv, CircuitsKeepApart
    <2>5. \A m \in Methods : circuits'[m].trial => circuits'[m].state = "half"
        BY <2>3 DEF CircuitInv
    <2>6. trials' + OnTrial("text")' + OnTrial("embed")' + OnTrial("fallback")' <= resets
          /\ trials' \in Nat
        <3>0. {"text", "embed", "fallback"} = Methods
            BY DEF Methods
        <3>1. trials + OnTrial("text") + OnTrial("embed") + OnTrial("fallback") <= resets
              /\ trials \in Nat /\ resets \in Nat
            BY DEF CircuitInv
        <3>2. \A m \in Methods : /\ OnTrial(m) \in {0, 1} /\ OnTrial(m)' \in {0, 1}
                                 /\ OnTrial(m)' <= OnTrial(m)
                                 /\ m \in Route(method) => OnTrial(m)' = 0
                                 /\ circuits[m].trial => OnTrial(m) = 1
            BY <2>2, <2>3 DEF CircuitInv, CircuitStates, OnTrial
        <3>3. PICK a, b, d, e, f, g \in {0, 1} :
                /\ a = OnTrial("text") /\ b = OnTrial("embed") /\ d = OnTrial("fallback")
                /\ e = OnTrial("text")' /\ f = OnTrial("embed")' /\ g = OnTrial("fallback")'
                /\ e <= a /\ f <= b /\ g <= d
            BY <3>0, <3>2
        <3>4. CASE \E m \in Route(method) : circuits[m].state # "closed"
            <4>1. PICK m \in Route(method) : circuits[m].trial
                BY <2>1, <3>4 DEF Admits
            <4>2. OnTrial(m) = 1 /\ OnTrial(m)' = 0 /\ m \in {"text", "embed", "fallback"}
                BY <1>0, <3>0, <3>2, <4>1
            <4>3. e + f + g + 1 <= a + b + d
                BY <3>3, <4>2
            <4>4. trials' = trials + 1
                BY <2>1, <3>4
            <4> QED BY <3>1, <3>3, <4>3, <4>4
        <3>5. CASE ~\E m \in Route(method) : circuits[m].state # "closed"
            <4>1. trials' = trials
                BY <2>1, <3>5
            <4> QED BY <3>1, <3>3, <4>1
        <3> QED BY <3>4, <3>5
    <2> QED BY <2>1, <2>2, <2>4, <2>5, <2>6 DEF CircuitInv
<1> QED BY <1>2, <1>3

\* What becomes of the calls: an answer, a failure, a timeout.
LEMMA OutcomeKeepsCircuits ==
    ASSUME CircuitInv, NEW S \in SUBSET Methods, resets' = resets, trials' = trials,
           \/ /\ circuits' = [m \in Methods |->
                     IF m \in S THEN Succeeded(circuits[m]) ELSE circuits[m]]
              /\ blamed' = blamed
           \/ /\ circuits' = [m \in Methods |->
                     IF m \in S THEN Failing(circuits[m]) ELSE circuits[m]]
              /\ blamed' = blamed \cup S
    PROVE  CircuitInv'
<1>0. /\ circuits \in [Methods -> CircuitStates]
      /\ \A m \in Methods : circuits[m] \in CircuitStates
            /\ (circuits[m].trial => circuits[m].state = "half")
    BY DEF CircuitInv
<1>1. \A m \in Methods :
        /\ Failing(circuits[m]) \in CircuitStates /\ ~Failing(circuits[m]).trial
        /\ Succeeded(circuits[m]) \in CircuitStates /\ ~Succeeded(circuits[m]).trial
        /\ circuits[m].state = "closed" => Succeeded(circuits[m]).state = "closed"
    BY <1>0, CircuitFacts
<1>2. circuits' \in [Methods -> CircuitStates]
    BY <1>0, <1>1
<1>3. \A n \in Methods : circuits'[n].trial => circuits[n].trial /\ circuits'[n] = circuits[n]
    BY <1>1
<1>4. \A n \in Methods :
        circuits'[n].state # "closed" => circuits[n].state # "closed" \/ n \in blamed'
    BY <1>1
<1>5. blamed \subseteq blamed' /\ blamed' \subseteq Methods
    BY DEF CircuitInv
<1> QED BY <1>2, <1>3, <1>4, <1>5, NoNewTrial

\* A reset, and a window that runs out.
LEMMA TimeKeepsCircuits ==
    ASSUME CircuitInv, NEW m \in Methods, Reset(m) \/ WindowPasses(m)
    PROVE  CircuitInv'
<1>0. circuits \in [Methods -> CircuitStates] /\ circuits[m] \in CircuitStates /\ MaxFires \in Nat
    BY BreakersAssumption DEF CircuitInv
<1>1. CASE WindowPasses(m)
    <2>1. circuits' = [circuits EXCEPT ![m] = [circuits[m] EXCEPT !.fires = 0, !.failures = 0]]
          /\ UNCHANGED <<blamed, trials, resets>>
        BY <1>0, <1>1 DEF WindowPasses, embedHistory, CircuitStates
    <2>2. [circuits[m] EXCEPT !.fires = 0, !.failures = 0] \in CircuitStates
        <3>1. 0 \in 0..MaxFires /\ 0 \in Nat
            BY <1>0
        <3> QED BY <1>0, <3>1 DEF CircuitStates
    <2>3. circuits' \in [Methods -> CircuitStates]
        BY <1>0, <2>1, <2>2
    <2>4. \A n \in Methods : circuits'[n].trial = circuits[n].trial
                          /\ circuits'[n].state = circuits[n].state
        BY <1>0, <2>1 DEF CircuitStates
    <2>5. \A n : OnTrial(n)' = OnTrial(n) \/ n \notin Methods
        BY <2>4 DEF OnTrial
    <2>6. CircuitsKeepApart'
        BY <2>1, <2>4 DEF CircuitInv, CircuitsKeepApart
    <2> QED BY <2>1, <2>3, <2>4, <2>5, <2>6 DEF CircuitInv, Methods
<1>2. CASE Reset(m)
    <2>1. /\ circuits[m].state = "open" /\ resets' = resets + 1
          /\ circuits' = [circuits EXCEPT
                 ![m] = [circuits[m] EXCEPT !.state = "half", !.trial = TRUE]]
          /\ UNCHANGED <<blamed, trials>>
        BY <1>0, <1>2 DEF Reset, CircuitStates
    <2>2. [circuits[m] EXCEPT !.state = "half", !.trial = TRUE] \in CircuitStates
        BY <1>0 DEF CircuitStates
    <2>3. circuits' \in [Methods -> CircuitStates]
        BY <1>0, <2>1, <2>2
    <2>4. /\ circuits'[m].trial /\ circuits'[m].state = "half" /\ ~circuits[m].trial
          /\ \A n \in Methods \ {m} : circuits'[n] = circuits[n]
        BY <1>0, <2>1 DEF CircuitInv, CircuitStates
    <2>5. CircuitsKeepApart'
        BY <2>1, <2>4 DEF CircuitInv, CircuitsKeepApart
    <2>6. \A n \in Methods : circuits'[n].trial => circuits'[n].state = "half"
        BY <2>4 DEF CircuitInv
    <2>7. trials + OnTrial("text")' + OnTrial("embed")' + OnTrial("fallback")' <= resets + 1
        <3>1. \A n \in Methods : /\ OnTrial(n) \in {0, 1} /\ OnTrial(n)' \in {0, 1}
                                 /\ n # m => OnTrial(n)' = OnTrial(n)
            BY <2>4 DEF OnTrial
        <3>2. trials + OnTrial("text") + OnTrial("embed") + OnTrial("fallback") <= resets
              /\ trials \in Nat /\ resets \in Nat
            BY DEF CircuitInv
        <3>3. PICK a, b, d, e, f, g \in {0, 1} :
                /\ a = OnTrial("text") /\ b = OnTrial("embed") /\ d = OnTrial("fallback")
                /\ e = OnTrial("text")' /\ f = OnTrial("embed")' /\ g = OnTrial("fallback")'
                /\ m # "text" => e = a
                /\ m # "embed" => f = b
                /\ m # "fallback" => g = d
            BY <3>1 DEF Methods
        <3>4. m = "text" \/ m = "embed" \/ m = "fallback"
            BY DEF Methods
        <3>5. e + f + g <= a + b + d + 1
            BY <3>3, <3>4
        <3> QED BY <3>2, <3>3, <3>5
    <2> QED BY <2>1, <2>3, <2>5, <2>6, <2>7 DEF CircuitInv
<1> QED BY <1>1, <1>2

\* A job that may still run has an attempt left, and a stall.
GoodReindex(job) ==
    /\ job \in JobSet(MaxEmbedAttempts, MaxEmbedStalls)
    /\ job.state \in {"none", "waiting", "active"} =>
           job.attempts < MaxEmbedAttempts /\ job.stalls <= MaxEmbedStalls

WorkTypes ==
    /\ calls \in [Calls -> CallStates] /\ embedders \in [Embedders -> SlotStates]
    /\ reindexes \in [Reindexes -> JobSet(MaxEmbedAttempts, MaxEmbedStalls)]
    /\ \A j \in Reindexes : GoodReindex(reindexes[j])
    /\ letters \in [Reindexes -> Nat] /\ edition \in Nat /\ embedded \in Nat
    /\ unposted \subseteq Reindexes /\ overwritten \in BOOLEAN

\* A slot waits for the one call that it has made.
CallsWait ==
    \A c \in Calls : calls[c].by \in Embedders =>
        /\ embedders[calls[c].by].pc = "wait"
        /\ \A d \in Calls : calls[d].by = calls[c].by => d = c

\* A slot at work has an active job of its own, and has read no text that is yet to be written.
SlotsWork ==
    \A s \in Embedders : embedders[s].pc # "idle" =>
        /\ embedders[s].job \in Reindexes /\ reindexes[embedders[s].job].state = "active"
        /\ embedders[s].read <= edition
        /\ \A t \in Embedders :
               embedders[t].pc # "idle" /\ embedders[t].job = embedders[s].job => t = s

LettersInv ==
    \A j \in Reindexes :
        /\ letters[j] <= 1
        /\ letters[j] = 1 => reindexes[j].state = "failed"
        /\ reindexes[j].state = "failed" /\ j \notin unposted => letters[j] = 1

\* A job will see the last edit, or has given up.
OnItsWay ==
    \/ \E j \in Reindexes : reindexes[j].state \in {"waiting", "failed"}
    \/ \E s \in Embedders :
        \/ embedders[s].pc \in {"load", "fail"}
        \/ embedders[s].pc \in {"wait", "write"} /\ embedders[s].read = edition

EditionInv == embedded <= edition /\ (overwritten \/ embedded = edition \/ OnItsWay)

WorkInv == WorkTypes /\ CallsWait /\ SlotsWork /\ LettersInv /\ EditionInv

\* What the queue does to a job of the worker.
LEMMA ReindexFacts ==
    ASSUME NEW job, GoodReindex(job)
    PROVE  /\ GoodReindex(Added(job)) /\ (job.state = "none" => Added(job).state = "waiting")
           /\ job.state = "waiting" => GoodReindex(Taken(job)) /\ Taken(job).state = "active"
           /\ GoodReindex(Completed(job)) /\ Completed(job).state = "done"
           /\ job.state = "active" =>
                /\ GoodReindex(Retried(job, FALSE, MaxEmbedAttempts))
                /\ Retried(job, FALSE, MaxEmbedAttempts).state \in {"waiting", "failed"}
                /\ IsLast(Retried(job, FALSE, MaxEmbedAttempts))
                    <=> Retried(job, FALSE, MaxEmbedAttempts).state = "failed"
           /\ job.state = "active" =>
                /\ GoodReindex(Stalled(job, MaxEmbedStalls))
                /\ Stalled(job, MaxEmbedStalls).state \in {"waiting", "failed"}
<1> USE DEF JobStates
<1>0. /\ job \in [state: JobStates, attempts: 0..MaxEmbedAttempts, stalls: 0..(MaxEmbedStalls + 1)]
      /\ job.attempts \in 0..MaxEmbedAttempts /\ job.stalls \in 0..(MaxEmbedStalls + 1)
      /\ MaxEmbedAttempts \in Nat \ {0} /\ MaxEmbedStalls \in Nat
      /\ job.state \in {"none", "waiting", "active"} =>
             job.attempts < MaxEmbedAttempts /\ job.stalls <= MaxEmbedStalls
    BY BreakersAssumption DEF GoodReindex, JobSet
<1>1. GoodReindex(Added(job)) /\ (job.state = "none" => Added(job).state = "waiting")
    BY <1>0 DEF GoodReindex, JobSet, Added
<1>2. job.state = "waiting" => GoodReindex(Taken(job)) /\ Taken(job).state = "active"
    BY <1>0 DEF GoodReindex, JobSet, Taken
<1>3. GoodReindex(Completed(job)) /\ Completed(job).state = "done"
    BY <1>0 DEF GoodReindex, JobSet, Completed
<1>4. ASSUME job.state = "active"
      PROVE  /\ GoodReindex(Retried(job, FALSE, MaxEmbedAttempts))
             /\ Retried(job, FALSE, MaxEmbedAttempts).state \in {"waiting", "failed"}
             /\ IsLast(Retried(job, FALSE, MaxEmbedAttempts))
                    <=> Retried(job, FALSE, MaxEmbedAttempts).state = "failed"
    <2>1. PICK n : n = job.attempts + 1
        OBVIOUS
    <2>2. PICK next : next = IF n = MaxEmbedAttempts THEN "failed" ELSE "waiting"
        OBVIOUS
    <2>3. n \in 0..MaxEmbedAttempts /\ (next = "waiting" => n < MaxEmbedAttempts)
          /\ (n >= MaxEmbedAttempts <=> next = "failed")
        BY <1>0, <1>4, <2>1, <2>2
    <2>4. Retried(job, FALSE, MaxEmbedAttempts) = [job EXCEPT !.attempts = n, !.state = next]
        BY <1>0, <2>1, <2>2 DEF Retried
    <2>5. next \in {"waiting", "failed"}
        BY <2>2
    <2> QED BY <1>0, <1>4, <2>3, <2>4, <2>5 DEF GoodReindex, JobSet, IsLast
<1>5. ASSUME job.state = "active"
      PROVE  /\ GoodReindex(Stalled(job, MaxEmbedStalls))
             /\ Stalled(job, MaxEmbedStalls).state \in {"waiting", "failed"}
    <2>1. PICK n : n = job.stalls + 1
        OBVIOUS
    <2>2. PICK next : next = IF job.stalls = MaxEmbedStalls THEN "failed" ELSE "waiting"
        OBVIOUS
    <2>3. n \in 0..(MaxEmbedStalls + 1) /\ (next = "waiting" => n <= MaxEmbedStalls)
        BY <1>0, <1>5, <2>1, <2>2
    <2>4. Stalled(job, MaxEmbedStalls) = [job EXCEPT !.stalls = n, !.state = next]
        BY <1>0, <2>1, <2>2 DEF Stalled
    <2>5. next \in {"waiting", "failed"}
        BY <2>2
    <2> QED BY <1>0, <1>5, <2>3, <2>4, <2>5 DEF GoodReindex, JobSet
<1> QED BY <1>1, <1>2, <1>3, <1>4, <1>5

\* A slot hears of its call.
LEMMA HearKeeps ==
    ASSUME WorkInv, NEW c \in Calls, NEW heard \in {"answer", "unavailable", "invalid"},
           Hear(calls[c].by, heard), calls' \in [Calls -> CallStates], calls'[c].by = NoSlot,
           \A d \in Calls \ {c} : calls'[d] = calls[d],
           UNCHANGED <<reindexes, letters, edition, embedded, unposted, overwritten>>
    PROVE  WorkInv'
<1> DEFINE by == calls[c].by
           to == IF heard = "answer" THEN "write" ELSE "fail"
<1>1. by \in Embedders \cup {NoSlot} /\ NoSlot \notin Embedders
    BY BreakersAssumption DEF WorkInv, WorkTypes, CallStates, NoSlot
<1>2. by \in Embedders => embedders[by].pc = "wait"
    BY DEF WorkInv, CallsWait
<1>3. \A s \in Embedders :
        /\ s # by => embedders'[s] = embedders[s]
        /\ s = by => embedders'[s] = [embedders[s] EXCEPT !.pc = to]
    BY DEF Hear
<1>4. embedders' \in [Embedders -> SlotStates]
    <2>1. \A s \in Embedders : [embedders[s] EXCEPT !.pc = to] \in SlotStates
        BY DEF WorkInv, WorkTypes, SlotStates
    <2> QED BY <2>1 DEF Hear, WorkInv, WorkTypes
<1>5. \A s \in Embedders : /\ embedders'[s].job = embedders[s].job
                           /\ embedders'[s].read = embedders[s].read
                           /\ embedders'[s].pc = "idle" <=> embedders[s].pc = "idle"
                           /\ s # by => embedders'[s].pc = embedders[s].pc
                           /\ s = by => embedders'[s].pc = to
    BY <1>2, <1>3 DEF WorkInv, WorkTypes, SlotStates
<1>6. WorkTypes' /\ LettersInv'
    BY <1>4 DEF WorkInv, WorkTypes, LettersInv
<1>7. CallsWait'
    <2> SUFFICES ASSUME NEW d \in Calls, calls'[d].by \in Embedders
                 PROVE  /\ embedders'[calls'[d].by].pc = "wait"
                        /\ \A e \in Calls : calls'[e].by = calls'[d].by => e = d
        BY DEF CallsWait
    <2>1. d # c /\ calls'[d] = calls[d]
        BY <1>1
    <2>2. calls[d].by # by
        BY <2>1 DEF WorkInv, CallsWait
    <2> QED BY <1>1, <1>5, <2>1, <2>2 DEF WorkInv, CallsWait
<1>8. SlotsWork'
    BY <1>5 DEF WorkInv, SlotsWork
<1>9. OnItsWay => OnItsWay'
    <2>1. ASSUME NEW s \in Embedders,
                 \/ embedders[s].pc \in {"load", "fail"}
                 \/ embedders[s].pc \in {"wait", "write"} /\ embedders[s].read = edition
          PROVE  \/ embedders'[s].pc \in {"load", "fail"}
                 \/ embedders'[s].pc \in {"wait", "write"} /\ embedders'[s].read = edition'
        BY <1>2, <1>5, <2>1
    <2>2. reindexes' = reindexes
        OBVIOUS
    <2>3. SUFFICES ASSUME OnItsWay,
                          ~\E j \in Reindexes : reindexes[j].state \in {"waiting", "failed"}
                   PROVE  OnItsWay'
        BY <2>2 DEF OnItsWay
    <2>4. PICK s \in Embedders :
                 \/ embedders[s].pc \in {"load", "fail"}
                 \/ embedders[s].pc \in {"wait", "write"} /\ embedders[s].read = edition
        BY <2>3 DEF OnItsWay
    <2> QED BY <2>1, <2>4 DEF OnItsWay
<1> QED BY <1>6, <1>7, <1>8, <1>9 DEF WorkInv, EditionInv

\* The calls, when s has made one (pc is "wait"), or has none.
CallsBut(s, pc) ==
    /\ calls' \in [Calls -> CallStates]
    /\ \A c \in Calls : calls'[c].by \in Embedders =>
        \/ calls'[c].by # s /\ calls'[c] = calls[c]
        \/ calls'[c].by = s /\ pc = "wait" /\ \A d \in Calls : calls'[d].by = s => d = c

\* The letters, when the job j becomes the given one.
LettersBut(j, job) ==
    /\ letters' \in [Reindexes -> Nat] /\ \A i \in Reindexes \ {j} : letters'[i] = letters[i]
    /\ unposted \subseteq unposted' /\ unposted' \subseteq Reindexes
    /\ letters'[j] <= 1
    /\ letters'[j] = 1 => job.state = "failed"
    /\ job.state = "failed" /\ j \notin unposted' => letters'[j] = 1

\* A slot takes a step, on its own or on its job.
SlotMoves(s, next, j, job) ==
    /\ embedders' = [embedders EXCEPT ![s] = next]
    /\ reindexes' = [reindexes EXCEPT ![j] = job]
    /\ embedders[s].pc # "idle" => j = embedders[s].job
    /\ embedders[s].pc = "idle" => reindexes[j].state # "active"
    /\ next.pc # "idle" => next.job = j /\ job.state = "active" /\ next.read <= edition
    /\ edition' = edition /\ embedded' \in Nat /\ embedded' <= edition /\ overwritten' \in BOOLEAN
    /\ OnItsWay' \/ overwritten' \/ embedded' = edition

\* When the calls and the letters are in order after such a step, all is.
LEMMA SlotKeeps ==
    ASSUME WorkInv, NEW s \in Embedders, NEW next \in SlotStates, NEW j \in Reindexes,
           NEW job, GoodReindex(job), SlotMoves(s, next, j, job), CallsBut(s, next.pc),
           LettersBut(j, job)
    PROVE  WorkInv'
<1> USE DEF SlotMoves, CallsBut, LettersBut
<1>0. /\ embedders \in [Embedders -> SlotStates]
      /\ reindexes \in [Reindexes -> JobSet(MaxEmbedAttempts, MaxEmbedStalls)]
      /\ job \in JobSet(MaxEmbedAttempts, MaxEmbedStalls)
    BY DEF WorkInv, WorkTypes, GoodReindex
<1>1. \A t \in Embedders : embedders'[t] = IF t = s THEN next ELSE embedders[t]
    BY <1>0
<1>2. \A i \in Reindexes : reindexes'[i] = IF i = j THEN job ELSE reindexes[i]
    BY <1>0
<1>3. WorkTypes'
    <2>1. embedders' \in [Embedders -> SlotStates]
        BY <1>0
    <2>2. reindexes' \in [Reindexes -> JobSet(MaxEmbedAttempts, MaxEmbedStalls)]
        BY <1>0
    <2>3. \A i \in Reindexes : GoodReindex(reindexes'[i])
        BY <1>2 DEF WorkInv, WorkTypes
    <2>4. \A i \in Reindexes : GoodReindex(reindexes[i])'
        BY <2>3 DEF GoodReindex
    <2> QED BY <2>1, <2>2, <2>4 DEF WorkInv, WorkTypes
<1>4. CallsWait'
    BY <1>1 DEF WorkInv, CallsWait
<1>5. \A t \in Embedders : t # s /\ embedders[t].pc # "idle" => embedders[t].job # j
    BY DEF WorkInv, SlotsWork
<1>6. SlotsWork'
    <2> SUFFICES ASSUME NEW t \in Embedders, embedders'[t].pc # "idle"
                 PROVE  /\ embedders'[t].job \in Reindexes
                        /\ reindexes'[embedders'[t].job].state = "active"
                        /\ embedders'[t].read <= edition
                        /\ \A u \in Embedders :
                              embedders'[u].pc # "idle" /\ embedders'[u].job = embedders'[t].job
                              => u = t
        BY DEF SlotsWork
    <2>1. CASE t = s
        <3>1. embedders'[t].job = j /\ job.state = "active" /\ embedders'[t].read <= edition
            BY <1>1, <2>1
        <3> QED BY <1>1, <1>2, <1>5, <2>1, <3>1
    <2>2. CASE t # s
        <3>1. embedders'[t] = embedders[t] /\ embedders[t].job # j
            BY <1>1, <1>5, <2>2
        <3>2. /\ embedders[t].job \in Reindexes /\ reindexes[embedders[t].job].state = "active"
              /\ embedders[t].read <= edition
              /\ \A u \in Embedders :
                     embedders[u].pc # "idle" /\ embedders[u].job = embedders[t].job => u = t
            BY <2>2, <3>1 DEF WorkInv, SlotsWork
        <3> QED BY <1>1, <1>2, <3>1, <3>2
    <2> QED BY <2>1, <2>2
<1>7. LettersInv'
    BY <1>2 DEF WorkInv, LettersInv
<1> QED BY <1>3, <1>4, <1>6, <1>7 DEF WorkInv, EditionInv

\* A call that no slot hears of, an edit, and what the worker does not see.
LEMMA AsideKeeps ==
    ASSUME WorkInv,
           \/ UNCHANGED <<calls, jobSide, unposted, overwritten>>
           \/ \E method \in {"text", "embed"} : AskOnce(method)
           \/ \E j \in Reindexes : EditText(j)
    PROVE  WorkInv'
<1>0. NoSlot \notin Embedders
    BY BreakersAssumption DEF NoSlot
<1>1. ASSUME UNCHANGED <<jobSide, unposted, overwritten>>, calls' \in [Calls -> CallStates],
             \A c \in Calls : calls'[c].by \in Embedders => calls'[c] = calls[c]
      PROVE  WorkInv'
    <2>1. UNCHANGED <<embedders, reindexes, letters, edition, embedded, unposted, overwritten>>
        BY <1>1 DEF jobSide
    <2>2. WorkTypes' /\ LettersInv' /\ SlotsWork'
        BY <1>1, <2>1 DEF WorkInv, WorkTypes, LettersInv, SlotsWork, GoodReindex
    <2>3. CallsWait'
        BY <1>1, <2>1 DEF WorkInv, CallsWait
    <2>4. OnItsWay' <=> OnItsWay
        BY <2>1 DEF OnItsWay
    <2>5. EditionInv'
        BY <2>1, <2>4 DEF WorkInv, EditionInv
    <2> QED BY <2>2, <2>3, <2>5 DEF WorkInv
<1>2. CASE UNCHANGED <<calls, jobSide, unposted, overwritten>>
    BY <1>1, <1>2 DEF WorkInv, WorkTypes
<1>3. ASSUME NEW method \in {"text", "embed"}, AskOnce(method) PROVE WorkInv'
    <2>1. UNCHANGED <<jobSide, unposted, overwritten>>
        BY <1>3 DEF AskOnce
    <2>2. calls' = calls
          \/ \E c \in Calls :
                  calls' = [calls EXCEPT ![c] = [by |-> NoSlot, waits |-> Route(method)]]
        BY <1>3 DEF AskOnce, Ask, AskInVain
    <2>3. Route(method) \subseteq Methods
        BY DEF Route, Methods
    <2>4. calls' \in [Calls -> CallStates]
        BY <2>2, <2>3 DEF WorkInv, WorkTypes, CallStates
    <2>5. \A c \in Calls : calls'[c].by \in Embedders => calls'[c] = calls[c]
        BY <1>0, <2>2 DEF WorkInv, WorkTypes
    <2> QED BY <1>1, <2>1, <2>4, <2>5
<1>4. ASSUME NEW j \in Reindexes, EditText(j) PROVE WorkInv'
    <2>0. reindexes \in [Reindexes -> JobSet(MaxEmbedAttempts, MaxEmbedStalls)] /\ edition \in Nat
        BY DEF WorkInv, WorkTypes
    <2>1. PICK job : job = Added(reindexes[j])
        OBVIOUS
    <2>2. /\ reindexes[j].state = "none" /\ edition' = edition + 1
          /\ reindexes' = [reindexes EXCEPT ![j] = job]
          /\ UNCHANGED <<calls, embedders, letters, embedded, unposted, overwritten>>
        BY <1>4, <2>1 DEF EditText, embedHistory
    <2>3. GoodReindex(job) /\ job.state = "waiting"
        BY <2>1, <2>2, ReindexFacts DEF WorkInv, WorkTypes
    <2>4. \A i \in Reindexes : reindexes'[i] = IF i = j THEN job ELSE reindexes[i]
        BY <2>0, <2>2
    <2>5. WorkTypes'
        <3>1. reindexes' \in [Reindexes -> JobSet(MaxEmbedAttempts, MaxEmbedStalls)]
            BY <2>0, <2>2, <2>3 DEF GoodReindex
        <3>2. \A i \in Reindexes : GoodReindex(reindexes'[i])
            BY <2>3, <2>4 DEF WorkInv, WorkTypes
        <3>3. \A i \in Reindexes : GoodReindex(reindexes[i])'
            BY <3>2 DEF GoodReindex
        <3>4. edition' \in Nat
            BY <2>0, <2>2
        <3> QED BY <2>2, <3>1, <3>3, <3>4 DEF WorkInv, WorkTypes
    <2>6. CallsWait'
        BY <2>2 DEF WorkInv, CallsWait
    <2>7. SlotsWork'
        <3>1. \A s \in Embedders : embedders[s].pc # "idle" =>
                embedders[s].job # j /\ embedders[s].read <= edition + 1
            <4> SUFFICES ASSUME NEW s \in Embedders, embedders[s].pc # "idle"
                         PROVE  embedders[s].job # j /\ embedders[s].read <= edition + 1
                OBVIOUS
            <4>1. reindexes[embedders[s].job].state = "active" /\ embedders[s].read <= edition
                  /\ embedders[s].read \in Nat
                BY DEF WorkInv, WorkTypes, SlotsWork, SlotStates
            <4>2. embedders[s].job # j
                BY <2>2, <4>1
            <4> QED BY <2>0, <4>1, <4>2
        <3> QED BY <2>2, <2>4, <3>1 DEF WorkInv, SlotsWork
    <2>8. LettersInv'
        BY <2>2, <2>3, <2>4 DEF WorkInv, LettersInv
    <2>9. OnItsWay'
        BY <2>3, <2>4 DEF OnItsWay
    <2>10. embedded' <= edition'
        <3>1. embedded \in Nat /\ embedded <= edition
            BY DEF WorkInv, WorkTypes, EditionInv
        <3> QED BY <2>0, <2>2, <3>1
    <2> QED BY <2>5, <2>6, <2>7, <2>8, <2>9, <2>10 DEF WorkInv, EditionInv
<1> QED BY <1>2, <1>3, <1>4

\* What each slot of the worker does.
LEMMA WorkerKeeps ==
    ASSUME WorkInv, NEW s \in Embedders,
           \/ \E j \in Reindexes : TakeReindex(s, j)
           \/ AskEmbedding(s) \/ StoreEmbedding(s) \/ EmbedQueryFails(s) \/ EmbedderDies(s)
           \/ \E heard \in BOOLEAN : EmbedThrows(s, heard)
    PROVE  WorkInv'
<1>0. /\ calls \in [Calls -> CallStates] /\ embedders \in [Embedders -> SlotStates]
      /\ reindexes \in [Reindexes -> JobSet(MaxEmbedAttempts, MaxEmbedStalls)]
      /\ \A i \in Reindexes : GoodReindex(reindexes[i])
      /\ letters \in [Reindexes -> Nat] /\ edition \in Nat /\ embedded \in Nat
      /\ embedded <= edition /\ unposted \subseteq Reindexes /\ overwritten \in BOOLEAN
      /\ embedders[s] \in SlotStates /\ NoSlot \notin Embedders
    BY BreakersAssumption DEF WorkInv, WorkTypes, EditionInv, NoSlot
<1>1. \A j \in Reindexes : /\ letters[j] <= 1 /\ (letters[j] = 1 => reindexes[j].state = "failed")
                           /\ reindexes[j].state = "failed" /\ j \notin unposted => letters[j] = 1
    BY DEF WorkInv, LettersInv
<1>2. ASSUME embedders[s].pc # "idle"
      PROVE  /\ embedders[s].job \in Reindexes /\ reindexes[embedders[s].job].state = "active"
             /\ embedders[s].read <= edition
    BY <1>2 DEF WorkInv, SlotsWork
<1>3. ASSUME embedders[s].pc # "wait", NEW c \in Calls PROVE calls[c].by # s
    BY <1>3 DEF WorkInv, CallsWait
<1>4. ASSUME NEW j \in Reindexes, TakeReindex(s, j) PROVE WorkInv'
    <2>1. PICK next, job :
            next = [pc |-> "load", job |-> j, read |-> 0] /\ job = Taken(reindexes[j])
        OBVIOUS
    <2>2. /\ embedders[s].pc = "idle" /\ reindexes[j].state = "waiting"
          /\ reindexes' = [reindexes EXCEPT ![j] = job]
          /\ embedders' = [embedders EXCEPT ![s] = next]
          /\ UNCHANGED <<calls, letters, edition, embedded, unposted, overwritten>>
        BY <1>4, <2>1 DEF TakeReindex, embedHistory
    <2>3. GoodReindex(job) /\ job.state = "active"
        BY <1>0, <2>1, <2>2, ReindexFacts
    <2>4. /\ next \in SlotStates /\ next.pc = "load" /\ next.job = j /\ next.read = 0
          /\ 0 <= edition
        BY <1>0, <2>1 DEF SlotStates
    <2>5. OnItsWay'
        BY <1>0, <2>2, <2>4 DEF OnItsWay
    <2>6. letters[j] # 1
        BY <1>1, <2>2
    <2>7. \A c \in Calls : calls[c].by # s
        BY <1>3, <2>2
    <2>8. SlotMoves(s, next, j, job)
        BY <1>0, <2>2, <2>3, <2>4, <2>5 DEF SlotMoves
    <2>9. CallsBut(s, next.pc)
        BY <1>0, <2>2, <2>7 DEF CallsBut
    <2>10. LettersBut(j, job)
        BY <1>0, <1>1, <2>2, <2>3, <2>6 DEF LettersBut
    <2> QED BY <2>3, <2>4, <2>8, <2>9, <2>10, SlotKeeps
\* A step of the slot that leaves its job as it is.
<1>5. ASSUME embedders[s].pc # "idle", NEW next \in SlotStates,
             embedders' = [embedders EXCEPT ![s] = next], next.job = embedders[s].job,
             next.read <= edition, next.pc = "fail" \/ (next.pc = "wait" /\ next.read = edition),
             CallsBut(s, next.pc),
             UNCHANGED <<reindexes, letters, edition, embedded, unposted, overwritten>>
      PROVE  WorkInv'
    <2>1. PICK j \in Reindexes : j = embedders[s].job /\ reindexes[j].state = "active"
        BY <1>2, <1>5
    <2>2. PICK job : job = reindexes[j]
        OBVIOUS
    <2>3. reindexes' = [reindexes EXCEPT ![j] = job]
        BY <1>0, <1>5, <2>2
    <2>4. OnItsWay'
        BY <1>0, <1>5 DEF OnItsWay
    <2>5. letters[j] # 1 /\ job.state = "active" /\ GoodReindex(job)
        BY <1>0, <1>1, <2>1, <2>2
    <2>6. SlotMoves(s, next, j, job)
        BY <1>0, <1>5, <2>1, <2>3, <2>4, <2>5 DEF SlotMoves
    <2>7. LettersBut(j, job)
        BY <1>0, <1>1, <1>5, <2>1, <2>5 DEF LettersBut
    <2> QED BY <1>5, <2>5, <2>6, <2>7, SlotKeeps
<1>6. CASE AskEmbedding(s)
    <2>0. embedders[s].pc = "load"
          /\ UNCHANGED <<reindexes, letters, edition, embedded, unposted, overwritten>>
        BY <1>6 DEF AskEmbedding
    <2>1. CASE AskInVain(s, "embed") /\ embedders' = [embedders EXCEPT ![s].pc = "fail"]
        <3>1. PICK next : next = [embedders[s] EXCEPT !.pc = "fail"]
            OBVIOUS
        <3>2. /\ next \in SlotStates /\ next.pc = "fail" /\ next.job = embedders[s].job
              /\ next.read = embedders[s].read /\ embedders' = [embedders EXCEPT ![s] = next]
            BY <1>0, <2>1, <3>1 DEF SlotStates
        <3>3. calls' = calls
            BY <2>1 DEF AskInVain
        <3>4. CallsBut(s, next.pc)
            BY <1>0, <1>3, <2>0, <3>3 DEF CallsBut
        <3> QED BY <1>2, <1>5, <2>0, <3>2, <3>4
    <2>2. CASE /\ Ask(s, "embed")
               /\ embedders' = [embedders EXCEPT ![s].pc = "wait", ![s].read = edition]
        <3>1. PICK next : next = [embedders[s] EXCEPT !.pc = "wait", !.read = edition]
            OBVIOUS
        <3>2. /\ next \in SlotStates /\ next.pc = "wait" /\ next.job = embedders[s].job
              /\ next.read = edition /\ embedders' = [embedders EXCEPT ![s] = next]
            BY <1>0, <2>2, <3>1 DEF SlotStates
        <3>3. PICK c \in Calls : calls' = [calls EXCEPT ![c] = [by |-> s, waits |-> Route("embed")]]
            BY <2>2 DEF Ask
        <3>4. calls' \in [Calls -> CallStates]
            BY <1>0, <3>3 DEF CallStates, Route, Methods
        <3>5. calls'[c].by = s /\ \A d \in Calls \ {c} : calls'[d] = calls[d] /\ calls'[d].by # s
            BY <1>0, <1>3, <2>0, <3>3
        <3>6. edition <= edition
            BY <1>0
        <3>7. CallsBut(s, next.pc)
            BY <3>2, <3>4, <3>5 DEF CallsBut
        <3> QED BY <1>5, <2>0, <3>2, <3>6, <3>7
    <2> QED BY <1>6, <2>1, <2>2 DEF AskEmbedding
<1>7. CASE EmbedQueryFails(s)
    <2>1. PICK next : next = [embedders[s] EXCEPT !.pc = "fail"]
        OBVIOUS
    <2>2. /\ embedders[s].pc \in {"load", "write"} /\ embedders' = [embedders EXCEPT ![s] = next]
          /\ UNCHANGED <<calls, reindexes, letters, edition, embedded, unposted, overwritten>>
        BY <1>0, <1>7, <2>1 DEF EmbedQueryFails, embedHistory
    <2>3. /\ next \in SlotStates /\ next.pc = "fail" /\ next.job = embedders[s].job
          /\ next.read = embedders[s].read
        BY <1>0, <2>1 DEF SlotStates
    <2>4. CallsBut(s, next.pc)
        BY <1>0, <1>3, <2>2 DEF CallsBut
    <2> QED BY <1>2, <1>5, <2>2, <2>3, <2>4
<1>8. IdleSlot \in SlotStates /\ IdleSlot.pc = "idle"
    BY DEF IdleSlot, SlotStates
<1>9. CASE StoreEmbedding(s)
    <2>0. embedders[s].pc = "write"
        BY <1>9 DEF StoreEmbedding
    <2>1. PICK j \in Reindexes : j = embedders[s].job /\ reindexes[j].state = "active"
        BY <1>2, <2>0
    <2>2. PICK job : job = Completed(reindexes[j])
        OBVIOUS
    <2>3. /\ embedded' = embedders[s].read
          /\ overwritten' = (overwritten \/ embedded > embedders[s].read)
          /\ reindexes' = [reindexes EXCEPT ![j] = job]
          /\ embedders' = [embedders EXCEPT ![s] = IdleSlot]
          /\ UNCHANGED <<calls, letters, edition, unposted>>
        BY <1>9, <2>1, <2>2 DEF StoreEmbedding
    <2>4. GoodReindex(job) /\ job.state = "done"
        BY <1>0, <2>2, ReindexFacts
    <2>5. embedders[s].read \in Nat /\ embedders[s].read <= edition
        BY <1>0, <1>2, <2>0 DEF SlotStates
    <2>6. letters[j] # 1 /\ overwritten' \in BOOLEAN
        BY <1>1, <2>1, <2>3
    <2>7. OnItsWay' \/ overwritten' \/ embedded' = edition
        <3> SUFFICES ASSUME ~overwritten', embedded' # edition PROVE OnItsWay'
            OBVIOUS
        <3>1. ~overwritten /\ ~(embedded > embedders[s].read) /\ embedders[s].read # edition
            BY <2>3
        <3>2. embedded # edition
            BY <1>0, <2>5, <3>1
        <3>3. OnItsWay
            BY <3>1, <3>2 DEF WorkInv, EditionInv
        <3>4. CASE \E i \in Reindexes : reindexes[i].state \in {"waiting", "failed"}
            <4>1. PICK i \in Reindexes : reindexes[i].state \in {"waiting", "failed"}
                BY <3>4
            <4>2. i # j
                BY <2>1, <4>1
            <4>3. reindexes'[i].state \in {"waiting", "failed"}
                BY <1>0, <2>3, <4>1, <4>2
            <4> QED BY <4>3 DEF OnItsWay
        <3>5. CASE ~\E i \in Reindexes : reindexes[i].state \in {"waiting", "failed"}
            <4>1. PICK t \in Embedders :
                    \/ embedders[t].pc \in {"load", "fail"}
                    \/ embedders[t].pc \in {"wait", "write"} /\ embedders[t].read = edition
                BY <3>3, <3>5 DEF OnItsWay
            <4>2. t # s
                BY <2>0, <3>1, <4>1
            <4>3. embedders'[t] = embedders[t] /\ edition' = edition
                BY <1>0, <2>3, <4>2
            <4> QED BY <4>1, <4>3 DEF OnItsWay
        <3> QED BY <3>4, <3>5
    <2>8. \A c \in Calls : calls[c].by # s
        BY <1>3, <2>0
    <2>9. SlotMoves(s, IdleSlot, j, job)
        BY <1>8, <2>0, <2>1, <2>3, <2>5, <2>6, <2>7 DEF SlotMoves
    <2>10. CallsBut(s, IdleSlot.pc)
        BY <1>0, <2>3, <2>8 DEF CallsBut
    <2>11. LettersBut(j, job)
        BY <1>0, <1>1, <2>3, <2>4, <2>6 DEF LettersBut
    <2> QED BY <1>8, <2>4, <2>9, <2>10, <2>11, SlotKeeps
<1>10. ASSUME NEW heard \in BOOLEAN, EmbedThrows(s, heard) PROVE WorkInv'
    <2>0. embedders[s].pc = "fail"
        BY <1>10 DEF EmbedThrows
    <2>1. PICK j \in Reindexes : j = embedders[s].job /\ reindexes[j].state = "active"
        BY <1>2, <2>0
    <2>2. PICK job : job = Retried(reindexes[j], FALSE, MaxEmbedAttempts)
        OBVIOUS
    <2>3. /\ reindexes' = [reindexes EXCEPT ![j] = job]
          /\ embedders' = [embedders EXCEPT ![s] = IdleSlot]
          /\ UNCHANGED <<calls, edition, embedded, overwritten>>
        BY <1>10, <2>1, <2>2 DEF EmbedThrows
    <2>4. \/ /\ letters' = [letters EXCEPT
                    ![j] = IF IsLast(job) THEN letters[j] + 1 ELSE letters[j]]
             /\ unposted' = unposted
          \/ letters' = letters /\ unposted' = unposted \cup {j}
        BY <1>10, <2>1, <2>2 DEF EmbedThrows
    <2>5. /\ GoodReindex(job) /\ job.state \in {"waiting", "failed"}
          /\ IsLast(job) <=> job.state = "failed"
        BY <1>0, <2>1, <2>2, ReindexFacts
    <2>6. letters[j] = 0
        BY <1>0, <1>1, <2>1
    <2>7. /\ letters' \in [Reindexes -> Nat] /\ letters'[j] <= 1
          /\ letters'[j] = 1 => job.state = "failed"
          /\ job.state = "failed" /\ j \notin unposted' => letters'[j] = 1
          /\ \A i \in Reindexes \ {j} : letters'[i] = letters[i]
        BY <1>0, <2>4, <2>5, <2>6
    <2>8. unposted \subseteq unposted' /\ unposted' \subseteq Reindexes
        BY <1>0, <2>4
    <2>9. OnItsWay'
        <3>1. reindexes'[j] = job
            BY <1>0, <2>3
        <3> QED BY <2>5, <3>1 DEF OnItsWay
    <2>10. \A c \in Calls : calls[c].by # s
        BY <1>3, <2>0
    <2>11. SlotMoves(s, IdleSlot, j, job)
        BY <1>0, <1>8, <2>0, <2>1, <2>3, <2>9 DEF SlotMoves
    <2>12. CallsBut(s, IdleSlot.pc)
        BY <1>0, <2>3, <2>10 DEF CallsBut
    <2>13. LettersBut(j, job)
        BY <2>7, <2>8 DEF LettersBut
    <2> QED BY <1>8, <2>5, <2>11, <2>12, <2>13, SlotKeeps
<1>11. CASE EmbedderDies(s)
    <2>0. embedders[s].pc # "idle"
        BY <1>11 DEF EmbedderDies
    <2>1. PICK j \in Reindexes : j = embedders[s].job /\ reindexes[j].state = "active"
        BY <1>2, <2>0
    <2>2. PICK job : job = Stalled(reindexes[j], MaxEmbedStalls)
        OBVIOUS
    <2>3. /\ reindexes' = [reindexes EXCEPT ![j] = job]
          /\ embedders' = [embedders EXCEPT ![s] = IdleSlot]
          /\ unposted' = unposted \cup {j}
          /\ calls' = [c \in Calls |-> IF calls[c].by = s THEN NoCall ELSE calls[c]]
          /\ UNCHANGED <<letters, edition, embedded, overwritten>>
        BY <1>11, <2>1, <2>2 DEF EmbedderDies
    <2>4. GoodReindex(job) /\ job.state \in {"waiting", "failed"}
        BY <1>0, <2>1, <2>2, ReindexFacts
    <2>5. letters[j] = 0
        BY <1>0, <1>1, <2>1
    <2>6. NoCall \in CallStates /\ NoCall.by \notin Embedders
        BY <1>0 DEF NoCall, CallStates
    <2>7. /\ calls' \in [Calls -> CallStates]
          /\ \A c \in Calls : calls'[c].by \in Embedders => calls'[c].by # s /\ calls'[c] = calls[c]
        BY <1>0, <2>3, <2>6
    <2>8. OnItsWay'
        <3>1. reindexes'[j] = job
            BY <1>0, <2>3
        <3> QED BY <2>4, <3>1 DEF OnItsWay
    <2>9. unposted \subseteq unposted' /\ unposted' \subseteq Reindexes /\ j \in unposted'
        BY <1>0, <2>3
    <2>10. SlotMoves(s, IdleSlot, j, job)
        BY <1>0, <1>8, <2>0, <2>1, <2>3, <2>8 DEF SlotMoves
    <2>11. CallsBut(s, IdleSlot.pc)
        BY <2>7 DEF CallsBut
    <2>12. LettersBut(j, job)
        BY <1>0, <1>1, <2>1, <2>3, <2>5, <2>9 DEF LettersBut
    <2> QED BY <1>8, <2>4, <2>10, <2>11, <2>12, SlotKeeps
<1> QED BY <1>4, <1>6, <1>7, <1>9, <1>10, <1>11

\* Every step of the callers and the circuits keeps both.
LEMMA BreakersInductive ==
    ASSUME CircuitInv, WorkInv, [BreakersNext]_breakerVars PROVE CircuitInv' /\ WorkInv'
<1>1. CASE UNCHANGED breakerVars
    <2>1. UNCHANGED <<circuits, blamed, trials, resets>>
          /\ UNCHANGED <<calls, jobSide, unposted, overwritten>>
        BY <1>1 DEF breakerVars, embedHistory
    <2>2. WorkInv'
        BY <2>1, AsideKeeps
    <2>3. CircuitInv'
        <3>1. \A m \in Methods : OnTrial(m)' = OnTrial(m)
            BY <2>1 DEF OnTrial
        <3>2. CircuitsKeepApart'
            BY <2>1 DEF CircuitInv, CircuitsKeepApart
        <3> QED BY <2>1, <3>1, <3>2 DEF CircuitInv, Methods
    <2> QED BY <2>2, <2>3
<1>2. ASSUME NEW method \in {"text", "embed"}, AskOnce(method) PROVE CircuitInv' /\ WorkInv'
    <2>1. (Ask(NoSlot, method) \/ AskInVain(NoSlot, method)) /\ resets' = resets
        BY <1>2 DEF AskOnce
    <2> QED BY <1>2, <2>1, AskKeepsCircuits, AsideKeeps
<1>3. ASSUME NEW m \in Methods, Reset(m) \/ WindowPasses(m) PROVE CircuitInv' /\ WorkInv'
    <2>1. UNCHANGED <<calls, jobSide, unposted, overwritten>>
        BY <1>3 DEF Reset, WindowPasses, embedHistory
    <2> QED BY <1>3, <2>1, TimeKeepsCircuits, AsideKeeps
<1>4. ASSUME NEW c \in Calls PROVE calls[c] \in CallStates
    BY DEF WorkInv, WorkTypes
<1>5. NoCall \in CallStates /\ NoCall.by = NoSlot
    BY DEF NoCall, CallStates
<1>6. ASSUME NEW c \in Calls, calls' = [calls EXCEPT ![c] = NoCall]
      PROVE  /\ calls' \in [Calls -> CallStates] /\ calls'[c].by = NoSlot
             /\ \A d \in Calls \ {c} : calls'[d] = calls[d]
    BY <1>5, <1>6 DEF WorkInv, WorkTypes
<1>7. ASSUME NEW c \in Calls, Answered(c) PROVE CircuitInv' /\ WorkInv'
    <2>1. PICK S \in SUBSET Methods : S = calls[c].waits
        BY <1>4 DEF CallStates
    <2>2. /\ circuits' = [m \in Methods |->
                     IF m \in S THEN Succeeded(circuits[m]) ELSE circuits[m]]
          /\ UNCHANGED <<blamed, trials, resets>> /\ calls' = [calls EXCEPT ![c] = NoCall]
          /\ Hear(calls[c].by, "answer")
          /\ UNCHANGED <<reindexes, letters, edition, embedded, unposted, overwritten>>
        BY <1>7, <2>1 DEF Answered, embedHistory
    <2>3. CircuitInv'
        BY <2>2, OutcomeKeepsCircuits
    <2> QED BY <1>6, <2>2, <2>3, HearKeeps
<1>8. ASSUME NEW c \in Calls, CallFails(c) PROVE CircuitInv' /\ WorkInv'
    <2>1. PICK S \in SUBSET Methods : S = calls[c].waits
        BY <1>4 DEF CallStates
    <2>2. /\ circuits' = [m \in Methods |->
                     IF m \in S THEN Failing(circuits[m]) ELSE circuits[m]]
          /\ blamed' = blamed \cup S
          /\ UNCHANGED <<trials, resets>> /\ calls' = [calls EXCEPT ![c] = NoCall]
          /\ Hear(calls[c].by, "invalid")
          /\ UNCHANGED <<reindexes, letters, edition, embedded, unposted, overwritten>>
        BY <1>8, <2>1 DEF CallFails
    <2>3. CircuitInv'
        BY <2>2, OutcomeKeepsCircuits
    <2> QED BY <1>6, <2>2, <2>3, HearKeeps
<1>9. ASSUME NEW c \in Calls, NEW m \in Methods, TimesOut(c, m) PROVE CircuitInv' /\ WorkInv'
    <2>1. PICK over : over = {m} \cup (Around(m) \cap calls[c].waits)
        OBVIOUS
    <2>2. over \in SUBSET Methods
        BY <1>4, <2>1 DEF CallStates
    <2>3. /\ circuits' = [n \in Methods |->
                 IF n \in over THEN Failing(circuits[n]) ELSE circuits[n]]
          /\ blamed' = blamed \cup over
          /\ calls' = [calls EXCEPT ![c] =
                 IF calls[c].waits = over THEN NoCall
                 ELSE [by |-> NoSlot, waits |-> calls[c].waits \ over]]
          /\ UNCHANGED <<trials, resets>> /\ Hear(calls[c].by, "unavailable")
          /\ UNCHANGED <<reindexes, letters, edition, embedded, unposted, overwritten>>
        BY <1>9, <2>1 DEF TimesOut
    <2>4. CircuitInv'
        BY <2>2, <2>3, OutcomeKeepsCircuits
    <2>5. PICK call \in CallStates : calls' = [calls EXCEPT ![c] = call] /\ call.by = NoSlot
        <3>1. [by |-> NoSlot, waits |-> calls[c].waits \ over] \in CallStates
            BY <1>4 DEF CallStates
        <3> QED BY <1>5, <2>3, <3>1
    <2>6. /\ calls' \in [Calls -> CallStates] /\ calls'[c].by = NoSlot
          /\ \A d \in Calls \ {c} : calls'[d] = calls[d]
        BY <2>5 DEF WorkInv, WorkTypes
    <2>7. WorkInv'
        BY <2>3, <2>6, HearKeeps
    <2> QED BY <2>4, <2>7
<1>10. ASSUME NEW j \in Reindexes, EditText(j) PROVE CircuitInv' /\ WorkInv'
    <2>1. UNCHANGED <<circuits, blamed, trials, resets>>
        BY <1>10 DEF EditText, embedHistory
    <2> QED BY <1>1, <1>10, <2>1, AsideKeeps, NoNewTrial DEF CircuitInv
<1>11. ASSUME NEW s \in Embedders,
              \/ \E j \in Reindexes : TakeReindex(s, j)
              \/ AskEmbedding(s) \/ StoreEmbedding(s) \/ EmbedQueryFails(s) \/ EmbedderDies(s)
              \/ \E heard \in BOOLEAN : EmbedThrows(s, heard)
       PROVE  CircuitInv' /\ WorkInv'
    <2>1. WorkInv'
        BY <1>11, WorkerKeeps
    <2>2. CASE AskEmbedding(s)
        <3>1. (Ask(s, "embed") \/ AskInVain(s, "embed")) /\ resets' = resets
            BY <2>2 DEF AskEmbedding
        <3>2. CircuitInv'
            BY <3>1, AskKeepsCircuits
        <3> QED BY <2>1, <3>2
    <2>3. CASE ~AskEmbedding(s)
        <3>1. UNCHANGED <<circuits, blamed, trials, resets>>
            BY <1>11, <2>3 DEF TakeReindex, StoreEmbedding, EmbedQueryFails, EmbedderDies,
                               EmbedThrows, embedHistory
        <3>2. CircuitInv'
            BY <3>1, NoNewTrial DEF CircuitInv
        <3> QED BY <2>1, <3>2
    <2> QED BY <2>2, <2>3
<1> QED BY <1>1, <1>2, <1>3, <1>7, <1>8, <1>9, <1>10, <1>11 DEF BreakersNext

\* The circuits are closed and the worker idle in the beginning.
LEMMA BreakersInitInv == ASSUME BreakersInit PROVE CircuitInv /\ WorkInv
<1>0. /\ {Volume, MaxEmbedAttempts} \subseteq Nat \ {0} /\ MaxFires \in Nat
      /\ MaxEmbedStalls \in Nat /\ NoSlot \notin Embedders
    BY BreakersAssumption DEF NoSlot
<1>1. CircuitInv
    <2>1. NewCircuit \in CircuitStates /\ NewCircuit.state = "closed" /\ ~NewCircuit.trial
        BY <1>0 DEF NewCircuit, CircuitStates
    <2>2. /\ circuits \in [Methods -> CircuitStates]
          /\ \A m \in Methods : circuits[m].state = "closed" /\ ~circuits[m].trial
          /\ blamed = {} /\ trials = 0 /\ resets = 0
        BY <2>1 DEF BreakersInit
    <2>3. \A m \in Methods : OnTrial(m) = 0
        BY <2>2 DEF OnTrial
    <2> QED BY <2>2, <2>3 DEF CircuitInv, CircuitsKeepApart, Methods
<1>2. WorkInv
    <2>1. GoodReindex(NewJob) /\ NewJob.state = "none"
        BY <1>0 DEF GoodReindex, NewJob, JobSet, JobStates
    <2>2. NoCall \in CallStates /\ NoCall.by = NoSlot /\ IdleSlot \in SlotStates
          /\ IdleSlot.pc = "idle"
        BY DEF NoCall, CallStates, IdleSlot, SlotStates
    <2>3. WorkTypes
        BY <2>1, <2>2 DEF BreakersInit, WorkTypes, GoodReindex
    <2>4. CallsWait /\ SlotsWork
        BY <1>0, <2>2 DEF BreakersInit, CallsWait, SlotsWork
    <2>5. LettersInv /\ EditionInv
        BY <2>1 DEF BreakersInit, LettersInv, EditionInv
    <2> QED BY <2>3, <2>4, <2>5 DEF WorkInv
<1> QED BY <1>1, <1>2

\* What the invariants say of the circuits, the letters and the embedding.
LEMMA BreakersInvMeans ==
    CircuitInv /\ WorkInv => CircuitsKeepApart /\ ProvidersSpared /\ LettersTell /\ EmbeddingFresh
<1> SUFFICES ASSUME CircuitInv, WorkInv
             PROVE  CircuitsKeepApart /\ ProvidersSpared /\ LettersTell /\ EmbeddingFresh
    OBVIOUS
<1>1. ProvidersSpared
    <2>1. trials + OnTrial("text") + OnTrial("embed") + OnTrial("fallback") <= resets
          /\ trials \in Nat /\ resets \in Nat
        BY DEF CircuitInv
    <2>2. OnTrial("text") \in {0, 1}
          /\ OnTrial("embed") \in {0, 1} /\ OnTrial("fallback") \in {0, 1}
        BY DEF OnTrial
    <2> QED BY <2>1, <2>2 DEF ProvidersSpared
<1>2. LettersTell
    <2>1. \A j \in Reindexes : letters[j] \in {0, 1}
        BY DEF WorkInv, WorkTypes, LettersInv
    <2> QED BY <2>1 DEF WorkInv, LettersInv, LettersTell
<1>3. EmbeddingFresh
    <2>1. ASSUME OnItsWay
          PROVE  \E j \in Reindexes : Live(reindexes[j]) \/ reindexes[j].state = "failed"
        BY <2>1 DEF OnItsWay, WorkInv, SlotsWork, Live
    <2> QED BY <2>1 DEF WorkInv, EditionInv, EmbeddingFresh
<1> QED BY <1>1, <1>2, <1>3 DEF CircuitInv

\* A circuit stands open for failures of its own method, a provider in an outage gets a call
\* for each reset and no more, a job that failed for good has one letter, and the embedding is
\* of the last edit unless it was overtaken, for any number of callers, jobs, attempts and
\* failures (llm/breaker.ts:18, circuit.ts:11, workers/index.ts:63, workers/index.ts:280).
THEOREM OutagesContained ==
    BreakersSpec => [](CircuitsKeepApart /\ ProvidersSpared /\ LettersTell /\ EmbeddingFresh)
BY BreakersInitInv, BreakersInductive, BreakersInvMeans, PTL DEF BreakersSpec

-----------------------------------------------------------------------------
(* A flag and the memories of it. *)

MemoryStates == [value : FlagValues, expires : Nat, by : {"none", "read", "set"}]
FlagCallStates == [pc : {"idle", "asks", "hears", "stored"}, at : Replicas \cup {"none"},
                   begun : Nat, value : FlagValues]

FlagKinds ==
    /\ override \in FlagValues /\ flag \in FlagValues /\ tick \in Nat
    /\ memory \in [Replicas -> MemoryStates] /\ flagCalls \in [FlagCalls -> FlagCallStates]
    /\ heldUntil \in [FlagValues -> Nat]

\* What Redis told a call it still had when the call began, and what a process remembers of
\* it ends thirty seconds after that.
FlagInv ==
    /\ FlagKinds /\ FlagsSettle
    /\ heldUntil[flag] = tick /\ \A v \in FlagValues : heldUntil[v] <= tick
    /\ \A c \in FlagCalls :
        /\ flagCalls[c].begun <= tick
        /\ flagCalls[c].pc = "hears" /\ flagCalls[c].value # "unset" =>
               flagCalls[c].begun <= heldUntil[flagCalls[c].value]
    /\ \A p \in Replicas : memory[p].by = "read" =>
           memory[p].expires <= heldUntil[memory[p].value] + FlagTtl

\* The memories begin empty.
LEMMA FlagsInitInv == ASSUME FlagsInit PROVE FlagInv
<1>1. NoFlagCall \in FlagCallStates /\ Forgotten \in MemoryStates
    BY DEF NoFlagCall, FlagCallStates, Forgotten, MemoryStates, FlagValues
<1>2. FlagKinds
    BY <1>1 DEF FlagsInit, FlagKinds
<1> QED BY <1>2 DEF FlagsInit, FlagInv, NoFlagCall, Forgotten, FlagsSettle

\* The field or the clock changes: what a value was held until only grows.
LEMMA HeldGrows ==
    ASSUME FlagInv, flag' \in FlagValues, tick' \in Nat, tick <= tick',
           heldUntil' \in [FlagValues -> Nat], heldUntil'[flag'] = tick',
           \A v \in FlagValues : heldUntil[v] <= heldUntil'[v] /\ heldUntil'[v] <= tick',
           UNCHANGED <<override, memory, shown>>, flagCalls' \in [FlagCalls -> FlagCallStates],
           \A c \in FlagCalls :
               ~(flagCalls'[c].pc = "stored" /\ flagCalls'[c].begun = tick) =>
                   flagCalls'[c] = flagCalls[c]
    PROVE  FlagInv'
<1>0. FlagTtl \in Nat /\ heldUntil \in [FlagValues -> Nat] /\ tick \in Nat
    BY FlagsAssumption DEF FlagInv, FlagKinds
<1>1. FlagKinds'
    BY DEF FlagInv, FlagKinds
<1>2. FlagsSettle'
    BY DEF FlagInv, FlagsSettle
<1>3. ASSUME NEW c \in FlagCalls
      PROVE  /\ flagCalls'[c].begun <= tick'
             /\ flagCalls'[c].pc = "hears" /\ flagCalls'[c].value # "unset" =>
                    flagCalls'[c].begun <= heldUntil'[flagCalls'[c].value]
    <2>1. CASE flagCalls'[c] = flagCalls[c]
        <3>1. PICK v \in FlagValues, b \in Nat : v = flagCalls[c].value /\ b = flagCalls[c].begun
            BY DEF FlagInv, FlagKinds, FlagCallStates
        <3>2. /\ b <= tick
              /\ flagCalls[c].pc = "hears" /\ v # "unset" => b <= heldUntil[v]
            BY <3>1 DEF FlagInv
        <3>3. heldUntil[v] \in Nat /\ heldUntil'[v] \in Nat
            BY <1>0
        <3> QED BY <1>0, <2>1, <3>1, <3>2, <3>3
    <2>2. CASE flagCalls'[c].pc = "stored" /\ flagCalls'[c].begun = tick
        BY <1>0, <2>2
    <2> QED BY <2>1, <2>2
<1>4. ASSUME NEW p \in Replicas, memory'[p].by = "read"
      PROVE  memory'[p].expires <= heldUntil'[memory'[p].value] + FlagTtl
    <2>1. PICK v \in FlagValues, x \in Nat : v = memory[p].value /\ x = memory[p].expires
        BY DEF FlagInv, FlagKinds, MemoryStates
    <2>2. x <= heldUntil[v] + FlagTtl /\ heldUntil[v] \in Nat /\ heldUntil'[v] \in Nat
        BY <1>0, <1>4, <2>1 DEF FlagInv
    <2> QED BY <1>0, <2>1, <2>2
<1> QED BY <1>1, <1>2, <1>3, <1>4 DEF FlagInv

\* A call reads, hears or notes, while the field and the clock stand.
LEMMA CallsRemember ==
    ASSUME FlagInv, NEW c \in FlagCalls, UNCHANGED <<override, flag, tick, heldUntil>>,
           NEW call \in FlagCallStates,
           flagCalls' = [flagCalls EXCEPT ![c] = call] \/ flagCalls' = flagCalls,
           call.begun <= tick,
           call.pc = "hears" /\ call.value # "unset" => call.begun <= heldUntil[call.value],
           NEW p, NEW m \in MemoryStates,
           memory' = [memory EXCEPT ![p] = m] \/ memory' = memory,
           m.by = "read" => m.expires <= heldUntil[m.value] + FlagTtl,
           FlagsSettle'
    PROVE  FlagInv'
<1>1. flagCalls' \in [FlagCalls -> FlagCallStates] /\ memory' \in [Replicas -> MemoryStates]
    BY DEF FlagInv, FlagKinds
<1>2. \A d \in FlagCalls : flagCalls'[d] = flagCalls[d] \/ flagCalls'[d] = call
    BY DEF FlagInv, FlagKinds
<1>3. \A q \in Replicas : memory'[q] = memory[q] \/ memory'[q] = m
    BY DEF FlagInv, FlagKinds
<1>4. FlagKinds'
    BY <1>1 DEF FlagInv, FlagKinds
<1>5. \A d \in FlagCalls :
        /\ flagCalls'[d].begun <= tick
        /\ flagCalls'[d].pc = "hears" /\ flagCalls'[d].value # "unset" =>
               flagCalls'[d].begun <= heldUntil[flagCalls'[d].value]
    BY <1>2 DEF FlagInv
<1>6. \A q \in Replicas : memory'[q].by = "read" =>
           memory'[q].expires <= heldUntil[memory'[q].value] + FlagTtl
    BY <1>3 DEF FlagInv
<1> QED BY <1>4, <1>5, <1>6 DEF FlagInv

\* Every step of the processes and the operator keeps FlagInv.
LEMMA FlagsInductive == ASSUME FlagInv, [FlagsNext]_flagVars PROVE FlagInv'
<1>0. /\ FlagTtl \in Nat \ {0} /\ heldUntil \in [FlagValues -> Nat] /\ tick \in Nat
      /\ flag \in FlagValues /\ heldUntil[flag] = tick
      /\ \A v \in FlagValues : heldUntil[v] \in Nat /\ heldUntil[v] <= tick
      /\ \A c \in FlagCalls : flagCalls[c] \in FlagCallStates
      /\ NoFlagCall \in FlagCallStates /\ Forgotten \in MemoryStates
      /\ NoFlagCall.begun = 0 /\ NoFlagCall.pc = "idle" /\ Forgotten.by = "none"
    BY FlagsAssumption DEF FlagInv, FlagKinds, NoFlagCall, FlagCallStates, Forgotten,
       MemoryStates, FlagValues
<1>1. CASE UNCHANGED flagVars
    BY <1>1 DEF flagVars, FlagInv, FlagKinds, FlagsSettle
<1>2. CASE Tick
    <2>1. /\ tick' = tick + 1 /\ heldUntil' = [heldUntil EXCEPT ![flag] = tick + 1]
          /\ UNCHANGED <<override, flag, memory, flagCalls, shown>>
        BY <1>2 DEF Tick
    <2>2. tick + 1 \in Nat /\ tick <= tick + 1
        BY <1>0
    <2>3. /\ heldUntil' \in [FlagValues -> Nat] /\ heldUntil'[flag] = tick + 1
          /\ \A v \in FlagValues : heldUntil[v] <= heldUntil'[v] /\ heldUntil'[v] <= tick + 1
        BY <1>0, <2>1, <2>2
    <2>4. flagCalls' \in [FlagCalls -> FlagCallStates]
        BY <2>1 DEF FlagInv, FlagKinds
    <2> QED BY <1>0, <2>1, <2>2, <2>3, <2>4, HeldGrows
<1>3. ASSUME NEW value \in FlagValues, StoreFlag(value), tick' = tick
      PROVE  /\ flag' \in FlagValues /\ heldUntil' \in [FlagValues -> Nat]
             /\ heldUntil'[flag'] = tick
             /\ \A v \in FlagValues : heldUntil[v] <= heldUntil'[v] /\ heldUntil'[v] <= tick
    BY <1>0, <1>3 DEF StoreFlag
<1>4. ASSUME NEW value \in FlagValues, OperatorSets(value) PROVE FlagInv'
    <2>1. StoreFlag(value) /\ UNCHANGED <<override, memory, flagCalls, tick, shown>>
        BY <1>4 DEF OperatorSets
    <2>2. flagCalls' \in [FlagCalls -> FlagCallStates] /\ tick <= tick
        BY <1>0, <2>1 DEF FlagInv, FlagKinds
    <2> QED BY <1>0, <1>3, <2>1, <2>2, HeldGrows
<1>5. ASSUME NEW c \in FlagCalls, NEW p \in Replicas, NEW value \in FlagValues, SetFlag(c, p, value)
      PROVE  FlagInv'
    <2>1. UNCHANGED <<override, memory, tick, shown>>
        BY <1>5 DEF SetFlag
    <2>2. CASE UNCHANGED <<flag, heldUntil, flagCalls>>
        BY <2>1, <2>2 DEF FlagInv, FlagKinds, FlagsSettle
    <2>3. ASSUME StoreFlag(value), flagCalls' = [flagCalls EXCEPT ![c] =
                 [pc |-> "stored", at |-> p, begun |-> tick, value |-> value]]
          PROVE  FlagInv'
        <3>1. PICK call \in FlagCallStates :
                call = [pc |-> "stored", at |-> p, begun |-> tick, value |-> value]
            BY <1>0 DEF FlagCallStates
        <3>2. /\ flagCalls' \in [FlagCalls -> FlagCallStates] /\ tick <= tick
              /\ \A d \in FlagCalls :
                     ~(flagCalls'[d].pc = "stored" /\ flagCalls'[d].begun = tick) =>
                         flagCalls'[d] = flagCalls[d]
            BY <1>0, <2>3, <3>1 DEF FlagInv, FlagKinds
        <3> QED BY <1>0, <1>3, <2>1, <2>3, <3>2, HeldGrows
    <2> QED BY <1>5, <2>2, <2>3 DEF SetFlag
<1>6. ASSUME NEW c \in FlagCalls, NEW p \in Replicas, ReadFlag(c, p) PROVE FlagInv'
    <2>0. UNCHANGED <<override, flag, memory, tick, heldUntil>>
        BY <1>6 DEF ReadFlag
    <2>1. CASE override # "unset" /\ Show(override, "env") /\ UNCHANGED flagCalls
        <3>1. FlagsSettle'
            BY <2>1 DEF Show, FlagsSettle
        <3> QED BY <2>0, <2>1, <3>1 DEF FlagInv, FlagKinds
    <2>2. CASE /\ memory[p].expires > tick
               /\ Show(memory[p].value, memory[p].by) /\ UNCHANGED flagCalls
        <3>1. PICK v \in FlagValues, x \in Nat : v = memory[p].value /\ x = memory[p].expires
            BY DEF FlagInv, FlagKinds, MemoryStates
        <3>2. memory[p].by = "read" => x <= heldUntil[v] + FlagTtl
            BY <3>1 DEF FlagInv
        <3>3. memory[p].by = "read" => tick < heldUntil[v] + FlagTtl
            BY <1>0, <2>2, <3>1, <3>2
        <3>4. FlagsSettle'
            BY <2>2, <3>1, <3>3 DEF Show, FlagsSettle
        <3> QED BY <2>0, <2>2, <3>4 DEF FlagInv, FlagKinds
    <2>3. CASE flagCalls' = [flagCalls EXCEPT ![c] =
                 [pc |-> "asks", at |-> p, begun |-> tick, value |-> "unset"]] /\ UNCHANGED shown
        <3>1. PICK call \in FlagCallStates :
                call = [pc |-> "asks", at |-> p, begun |-> tick, value |-> "unset"]
            BY <1>0 DEF FlagCallStates, FlagValues
        <3>2. call.begun <= tick /\ call.pc # "hears"
            BY <1>0, <3>1
        <3>3. FlagsSettle'
            BY <2>3 DEF FlagInv, FlagsSettle
        <3> QED BY <1>0, <2>0, <2>3, <3>1, <3>2, <3>3, CallsRemember
    <2> QED BY <1>6, <2>1, <2>2, <2>3 DEF ReadFlag
<1>7. ASSUME NEW c \in FlagCalls, RedisAnswers(c) PROVE FlagInv'
    <2>0. UNCHANGED <<override, flag, memory, tick, heldUntil, shown>>
        BY <1>7 DEF RedisAnswers
    <2>1. PICK v \in {flag, "unset"} :
            flagCalls' = [flagCalls EXCEPT ![c].pc = "hears", ![c].value = v]
        BY <1>7 DEF RedisAnswers
    <2>2. PICK call : call = [flagCalls[c] EXCEPT !.pc = "hears", !.value = v]
        OBVIOUS
    <2>3. v \in FlagValues
        BY <1>0, <2>1 DEF FlagValues
    <2>4. /\ call \in FlagCallStates /\ call.value = v /\ call.begun = flagCalls[c].begun
          /\ flagCalls' = [flagCalls EXCEPT ![c] = call]
        BY <1>0, <2>1, <2>2, <2>3 DEF FlagCallStates
    <2>5. call.begun <= tick /\ (v # "unset" => call.begun <= heldUntil[v])
        BY <1>0, <2>1, <2>4 DEF FlagInv
    <2>6. FlagsSettle'
        BY <2>0 DEF FlagInv, FlagsSettle
    <2> QED BY <1>0, <2>0, <2>4, <2>5, <2>6, CallsRemember
<1>8. ASSUME NEW c \in FlagCalls, HearsFlag(c) PROVE FlagInv'
    <2>0. /\ UNCHANGED <<override, flag, tick, heldUntil>> /\ flagCalls[c].pc = "hears"
          /\ flagCalls' = [flagCalls EXCEPT ![c] = NoFlagCall] /\ 0 <= tick
        BY <1>0, <1>8 DEF HearsFlag
    <2>1. FlagsSettle'
        <3>1. \E from \in {"redis", "default"} : \E v : Show(v, from)
            BY <1>8 DEF HearsFlag
        <3> QED BY <3>1 DEF Show, FlagsSettle
    <2>2. CASE memory' = memory
        BY <1>0, <2>0, <2>1, <2>2, CallsRemember
    <2>3. CASE flagCalls[c].value # "unset" /\ Remembers(c)
        <3>1. PICK v \in FlagValues, b \in Nat : v = flagCalls[c].value /\ b = flagCalls[c].begun
            BY <1>0 DEF FlagCallStates
        <3>2. b <= heldUntil[v]
            BY <2>0, <2>3, <3>1 DEF FlagInv
        <3>3. b + FlagTtl \in Nat /\ b + FlagTtl <= heldUntil[v] + FlagTtl
            BY <1>0, <3>1, <3>2
        <3>4. PICK m \in MemoryStates : m = [value |-> v, expires |-> b + FlagTtl, by |-> "read"]
            BY <3>3 DEF MemoryStates
        <3>5. memory' = [memory EXCEPT ![flagCalls[c].at] = m]
            BY <2>3, <3>1, <3>4 DEF Remembers
        <3>6. m.expires <= heldUntil[m.value] + FlagTtl
            BY <3>3, <3>4
        <3> QED BY <1>0, <2>0, <2>1, <3>5, <3>6, CallsRemember
    <2> QED BY <1>8, <2>2, <2>3 DEF HearsFlag
<1>9. ASSUME NEW c \in FlagCalls, NotesFlag(c) PROVE FlagInv'
    <2>0. /\ UNCHANGED <<override, flag, tick, heldUntil, shown>>
          /\ flagCalls' = [flagCalls EXCEPT ![c] = NoFlagCall] /\ 0 <= tick
        BY <1>0, <1>9 DEF NotesFlag
    <2>1. FlagsSettle'
        BY <2>0 DEF FlagInv, FlagsSettle
    <2>2. PICK m : m = IF flagCalls[c].value = "unset" THEN Forgotten
                       ELSE [value |-> flagCalls[c].value, expires |-> tick + FlagTtl, by |-> "set"]
        OBVIOUS
    <2>3. memory' = [memory EXCEPT ![flagCalls[c].at] = m]
        BY <1>9, <2>2 DEF NotesFlag
    <2>4. m \in MemoryStates /\ m.by # "read"
        <3>1. tick + FlagTtl \in Nat /\ flagCalls[c].value \in FlagValues
            BY <1>0 DEF FlagCallStates
        <3> QED BY <1>0, <2>2, <3>1 DEF MemoryStates
    <2> QED BY <1>0, <2>0, <2>1, <2>3, <2>4, CallsRemember
<1> QED BY <1>1, <1>2, <1>4, <1>5, <1>6, <1>7, <1>8, <1>9 DEF FlagsNext

\* No process answers from what it read a value that the flag has not had for thirty seconds,
\* for any number of processes, calls, changes and failures (docs/ops/feature-flags.md:34).
THEOREM FlagsSettleAlways == FlagsSpec => []FlagsSettle
<1>1. FlagInv => FlagsSettle
    BY DEF FlagInv
<1> QED BY <1>1, FlagsInitInv, FlagsInductive, PTL DEF FlagsSpec

-----------------------------------------------------------------------------
(* The HTML of a version and the jobs that make it. *)

PageMakerStates == [pc : {"idle", "convert", "put", "name"}, made : Nat, holds : BOOLEAN]
HtmlJobStates == [state : JobStates, attempts : Nat, stalls : Nat]

HtmlKinds ==
    /\ release \in Nat \ {0} /\ stored \in Nat /\ lastAsk \in Nat /\ landing \subseteq Nat \ {0}
    /\ htmlJob \in HtmlJobStates /\ pageMakers \in [HtmlMakers -> PageMakerStates]

\* What is put is a page, and what is named has been put.
PagesNamed ==
    /\ KeyNamesPage
    /\ \A m \in HtmlMakers :
          /\ MakerAt(m, "put") => pageMakers[m].made # 0
          /\ MakerAt(m, "name") => stored # 0

\* One maker at most holds the job, which is active then.
JobHeld ==
    /\ \A m \in HtmlMakers : pageMakers[m].holds => htmlJob.state = "active" /\ Making(m)
    /\ \A m, o \in HtmlMakers : pageMakers[m].holds /\ pageMakers[o].holds => m = o

\* As long as no page may be put after a newer one, one maker at most is at work.
LoneMaker ==
    ~pagesCross => /\ landing = {}
                   /\ \A m, o \in HtmlMakers : Making(m) /\ Making(o) => m = o

\* From then on what is made, what is put and what is done is of the release asked for, or later.
AskedIsMade ==
    /\ lastAsk <= release
    /\ htmlJob.state \in {"active", "done"} /\ ~dropped /\ ~pagesCross =>
           /\ \A m \in HtmlMakers :
                  /\ MakerAt(m, "put") => lastAsk <= pageMakers[m].made
                  /\ MakerAt(m, "name") /\ pageMakers[m].holds => lastAsk <= stored
           /\ htmlJob.state = "done" => lastAsk <= stored

HtmlInv == HtmlKinds /\ PagesNamed /\ JobHeld /\ LoneMaker /\ AskedIsMade

\* Nothing is made at first.
LEMMA HtmlInitInv == ASSUME HtmlInit PROVE HtmlInv
<1>1. NoMake \in PageMakerStates /\ NewJob \in HtmlJobStates
    BY DEF NoMake, PageMakerStates, NewJob, HtmlJobStates, JobStates
<1>2. \A m \in HtmlMakers :
        ~Making(m) /\ ~pageMakers[m].holds /\ ~MakerAt(m, "put") /\ ~MakerAt(m, "name")
    BY DEF HtmlInit, Making, MakerAt, NoMake
<1>3. HtmlKinds /\ PagesNamed /\ JobHeld
    BY <1>1, <1>2 DEF HtmlInit, HtmlKinds, PagesNamed, KeyNamesPage, JobHeld
<1>4. LoneMaker /\ AskedIsMade
    BY <1>2 DEF HtmlInit, LoneMaker, AskedIsMade, NewJob
<1> QED BY <1>3, <1>4 DEF HtmlInv

\* What the queue makes of the job in each of its operations.
LEMMA JobMoves ==
    ASSUME htmlJob \in HtmlJobStates
    PROVE  /\ Added(htmlJob) \in HtmlJobStates /\ Taken(htmlJob) \in HtmlJobStates
           /\ Completed(htmlJob) \in HtmlJobStates
           /\ Added(htmlJob).state = IF htmlJob.state = "none" THEN "waiting" ELSE htmlJob.state
           /\ Taken(htmlJob).state = "active" /\ Completed(htmlJob).state = "done"
           /\ Retried(htmlJob, FALSE, MaxHtmlAttempts) \in HtmlJobStates
           /\ Retried(htmlJob, FALSE, MaxHtmlAttempts).state \in {"waiting", "failed"}
           /\ Stalled(htmlJob, MaxHtmlStalls) \in HtmlJobStates
           /\ Stalled(htmlJob, MaxHtmlStalls).state \in {"waiting", "failed"}
<1>1. PICK again : again = IF FALSE \/ htmlJob.attempts + 1 = MaxHtmlAttempts
                           THEN "failed" ELSE "waiting"
    OBVIOUS
<1>2. PICK back : back = IF htmlJob.stalls = MaxHtmlStalls THEN "failed" ELSE "waiting"
    OBVIOUS
<1>3. again \in {"waiting", "failed"} /\ back \in {"waiting", "failed"}
    BY <1>1, <1>2
<1>4. Retried(htmlJob, FALSE, MaxHtmlAttempts) \in HtmlJobStates
       /\ Retried(htmlJob, FALSE, MaxHtmlAttempts).state = again
    <2>1. PICK n \in Nat : n = htmlJob.attempts + 1
        BY DEF HtmlJobStates
    <2>2. Retried(htmlJob, FALSE, MaxHtmlAttempts) =
            [htmlJob EXCEPT !.attempts = n, !.state = again]
        BY <1>1, <2>1 DEF Retried
    <2> QED BY <1>3, <2>2 DEF HtmlJobStates, JobStates
<1>5. Stalled(htmlJob, MaxHtmlStalls) \in HtmlJobStates
       /\ Stalled(htmlJob, MaxHtmlStalls).state = back
    <2>1. PICK n \in Nat : n = htmlJob.stalls + 1
        BY DEF HtmlJobStates
    <2>2. Stalled(htmlJob, MaxHtmlStalls) = [htmlJob EXCEPT !.stalls = n, !.state = back]
        BY <1>2, <2>1 DEF Stalled
    <2> QED BY <1>3, <2>2 DEF HtmlJobStates, JobStates
<1>6. /\ Added(htmlJob) \in HtmlJobStates
       /\ Added(htmlJob).state = IF htmlJob.state = "none" THEN "waiting" ELSE htmlJob.state
    BY DEF Added, HtmlJobStates, JobStates
<1>7. /\ Taken(htmlJob) \in HtmlJobStates /\ Completed(htmlJob) \in HtmlJobStates
       /\ Taken(htmlJob).state = "active" /\ Completed(htmlJob).state = "done"
    BY DEF Taken, Completed, HtmlJobStates, JobStates
<1> QED BY <1>3, <1>4, <1>5, <1>6, <1>7

\* The job goes back to the queue or fails, and the maker that held it is idle or frozen.
JobLost(m, next) ==
    /\ next \in PageMakerStates /\ ~next.holds /\ next.pc \in {"idle", pageMakers[m].pc}
    /\ next.made = pageMakers[m].made \/ next.pc = "idle"
    /\ pageMakers' = [pageMakers EXCEPT ![m] = next]
    /\ htmlJob' \in HtmlJobStates
    /\ \/ ~pageMakers[m].holds /\ htmlJob' = htmlJob
       \/ pageMakers[m].holds /\ htmlJob'.state \in {"waiting", "failed"}

\* A maker that fails, gives up or loses the job leaves the pages as they are.
LEMMA LostKeeps ==
    ASSUME HtmlInv, NEW m \in HtmlMakers, NEW next, JobLost(m, next),
           UNCHANGED <<release, version, stored, lastAsk, dropped>>,
           \/ UNCHANGED <<landing, pagesCross>>
           \/ landing' \subseteq Nat \ {0} /\ pagesCross'
    PROVE  HtmlInv'
<1>1. pageMakers \in [HtmlMakers -> PageMakerStates] /\ htmlJob \in HtmlJobStates
    BY DEF HtmlInv, HtmlKinds
<1>2. /\ pageMakers' \in [HtmlMakers -> PageMakerStates] /\ pageMakers'[m] = next
      /\ \A o \in HtmlMakers : o # m => pageMakers'[o] = pageMakers[o]
    BY <1>1 DEF JobLost
<1>3. HtmlKinds'
    BY <1>2 DEF HtmlInv, HtmlKinds, JobLost
<1>4. \A o \in HtmlMakers :
        /\ MakerAt(o, "put")' => MakerAt(o, "put") /\ pageMakers'[o].made = pageMakers[o].made
        /\ MakerAt(o, "name")' => MakerAt(o, "name")
        /\ Making(o)' => Making(o)
        /\ pageMakers'[o].holds => pageMakers[o].holds /\ o # m /\ (Making(o) => Making(o)')
    BY <1>2 DEF JobLost, MakerAt, Making
<1>5. PagesNamed'
    <2>1. KeyNamesPage'
        BY DEF HtmlInv, PagesNamed, KeyNamesPage
    <2>2. ASSUME NEW o \in HtmlMakers
          PROVE  /\ MakerAt(o, "put")' => pageMakers'[o].made # 0
                 /\ MakerAt(o, "name")' => stored' # 0
        BY <1>4 DEF HtmlInv, PagesNamed
    <2> QED BY <2>1, <2>2 DEF PagesNamed
<1>6. pageMakers[m].holds => \A o \in HtmlMakers : ~pageMakers'[o].holds
    BY <1>4 DEF HtmlInv, JobHeld
<1>7. JobHeld'
    BY <1>4, <1>6 DEF HtmlInv, JobHeld, JobLost
<1>8. LoneMaker'
    BY <1>4 DEF HtmlInv, LoneMaker
<1>9. AskedIsMade'
    <2>1. CASE htmlJob'.state \in {"waiting", "failed"} \/ pagesCross'
        BY <2>1 DEF HtmlInv, AskedIsMade
    <2>2. CASE htmlJob' = htmlJob /\ UNCHANGED pagesCross
        BY <1>4, <2>2 DEF HtmlInv, AskedIsMade
    <2> QED BY <2>1, <2>2 DEF JobLost
<1> QED BY <1>3, <1>5, <1>7, <1>8, <1>9 DEF HtmlInv

\* A maker begins while another may be at work, which counts as crossing.
LEMMA PageBegins ==
    ASSUME HtmlInv, NEW m \in HtmlMakers, MakerAt(m, "idle"), NEW holds \in BOOLEAN,
           BeginPage(m, holds), ~pagesCross' => ~OthersMake(m),
           UNCHANGED <<release, stored, landing, lastAsk, dropped>>,
           version' # "named" \/ version' = version,
           htmlJob' \in HtmlJobStates, holds => htmlJob'.state = "active",
           holds => \A o \in HtmlMakers : ~pageMakers[o].holds,
           ~holds => htmlJob' = htmlJob /\ (pagesCross => pagesCross')
    PROVE  HtmlInv'
<1>1. pageMakers \in [HtmlMakers -> PageMakerStates] /\ htmlJob \in HtmlJobStates
    BY DEF HtmlInv, HtmlKinds
<1>2. PICK next : next = [NoMake EXCEPT !.pc = "convert", !.holds = holds]
    OBVIOUS
<1>3. next \in PageMakerStates /\ next.pc = "convert" /\ next.holds = holds
    BY <1>2 DEF NoMake, PageMakerStates
<1>4. /\ pageMakers' \in [HtmlMakers -> PageMakerStates] /\ pageMakers'[m] = next
      /\ \A o \in HtmlMakers : o # m => pageMakers'[o] = pageMakers[o]
    BY <1>1, <1>2, <1>3 DEF BeginPage
<1>5. HtmlKinds'
    BY <1>4 DEF HtmlInv, HtmlKinds
<1>6. \A o \in HtmlMakers :
        /\ MakerAt(o, "put")' =>
               o # m /\ MakerAt(o, "put") /\ pageMakers'[o].made = pageMakers[o].made
        /\ MakerAt(o, "name")' => o # m /\ MakerAt(o, "name")
        /\ Making(o)' <=> o = m \/ Making(o)
        /\ o # m => pageMakers'[o].holds = pageMakers[o].holds
    BY <1>3, <1>4 DEF MakerAt, Making
<1>7. PagesNamed'
    <2>1. KeyNamesPage'
        BY DEF HtmlInv, PagesNamed, KeyNamesPage
    <2>2. ASSUME NEW o \in HtmlMakers
          PROVE  /\ MakerAt(o, "put")' => pageMakers'[o].made # 0
                 /\ MakerAt(o, "name")' => stored' # 0
        BY <1>6 DEF HtmlInv, PagesNamed
    <2> QED BY <2>1, <2>2 DEF PagesNamed
<1>8. pageMakers'[m].holds = holds
    BY <1>3, <1>4
<1>9. JobHeld'
    <2>1. CASE holds
        BY <1>6, <1>8, <2>1 DEF HtmlInv, JobHeld
    <2>2. CASE ~holds
        BY <1>6, <1>8, <2>2 DEF HtmlInv, JobHeld
    <2> QED BY <2>1, <2>2
<1>10. ~pagesCross' => landing = {} /\ \A o \in HtmlMakers : o # m => ~Making(o)
    BY DEF OthersMake
<1>11. LoneMaker'
    BY <1>6, <1>10 DEF LoneMaker
<1>12. AskedIsMade'
    <2>1. lastAsk' <= release'
        BY DEF HtmlInv, AskedIsMade
    <2>2. ASSUME ~pagesCross', NEW o \in HtmlMakers
          PROVE  ~MakerAt(o, "put")' /\ ~MakerAt(o, "name")'
        BY <1>6, <1>10, <2>2 DEF Making, MakerAt
    <2>3. ASSUME ~pagesCross', ~dropped', htmlJob'.state = "done" PROVE lastAsk' <= stored'
        <3>1. ~holds /\ htmlJob' = htmlJob /\ ~pagesCross
            BY <2>3
        <3> QED BY <2>3, <3>1 DEF HtmlInv, AskedIsMade
    <2> QED BY <2>1, <2>2, <2>3 DEF AskedIsMade
<1> QED BY <1>5, <1>7, <1>9, <1>11, <1>12 DEF HtmlInv

\* Every step of the requests, the stage and the workers keeps HtmlInv.
LEMMA HtmlInductive == ASSUME HtmlInv, [HtmlNext]_htmlVars PROVE HtmlInv'
<1>0. /\ htmlJob \in HtmlJobStates /\ pageMakers \in [HtmlMakers -> PageMakerStates]
      /\ release \in Nat \ {0} /\ stored \in Nat /\ lastAsk \in Nat /\ lastAsk <= release
      /\ NoMake \in PageMakerStates /\ NoMake.pc = "idle" /\ ~NoMake.holds
    BY DEF HtmlInv, HtmlKinds, AskedIsMade, NoMake, PageMakerStates
<1>1. CASE UNCHANGED htmlVars
    BY <1>1 DEF htmlVars, htmlPast, HtmlInv, HtmlKinds, PagesNamed, KeyNamesPage, JobHeld,
       LoneMaker, AskedIsMade, MakerAt, Making
<1>2. CASE NextRelease
    <2>1. release' \in Nat \ {0} /\ lastAsk <= release'
        BY <1>0, <1>2 DEF NextRelease
    <2> QED BY <1>2, <2>1 DEF NextRelease, htmlPast, HtmlInv, HtmlKinds, PagesNamed, KeyNamesPage,
            JobHeld, LoneMaker, AskedIsMade, MakerAt, Making
<1>3. CASE RecompileHtml
    <2>1. /\ htmlJob' = Added(htmlJob) /\ lastAsk' = release
          /\ UNCHANGED <<release, version, stored, pageMakers, landing, pagesCross>>
        BY <1>3 DEF RecompileHtml
    <2>2. htmlJob.state \in {"active", "done", "failed"} => dropped'
        BY <1>3 DEF RecompileHtml
    <2>3. htmlJob' \in HtmlJobStates
          /\ htmlJob'.state = IF htmlJob.state = "none" THEN "waiting" ELSE htmlJob.state
        BY <1>0, <2>1, JobMoves
    <2>4. HtmlKinds' /\ PagesNamed' /\ LoneMaker'
        BY <1>0, <2>1, <2>3 DEF HtmlInv, HtmlKinds, PagesNamed, KeyNamesPage, LoneMaker,
           MakerAt, Making
    <2>5. JobHeld'
        BY <2>1, <2>3 DEF HtmlInv, JobHeld, MakerAt, Making
    <2>6. AskedIsMade'
        BY <1>0, <2>1, <2>2, <2>3 DEF AskedIsMade
    <2> QED BY <2>4, <2>5, <2>6 DEF HtmlInv
<1>4. CASE ForgetHtmlJob
    <2>1. /\ htmlJob' = NewJob /\ htmlJob.state # "active"
          /\ UNCHANGED <<release, version, stored, pageMakers, landing, htmlPast>>
        BY <1>4 DEF ForgetHtmlJob
    <2>2. htmlJob' \in HtmlJobStates /\ htmlJob'.state = "none"
        BY <2>1 DEF NewJob, HtmlJobStates, JobStates
    <2> QED BY <2>1, <2>2 DEF htmlPast, HtmlInv, HtmlKinds, PagesNamed, KeyNamesPage, JobHeld,
            LoneMaker, AskedIsMade, MakerAt, Making
<1>5. CASE StartStage
    <2>1. /\ MakerAt(Saga, "idle") /\ version' = "pdf" /\ BeginPage(Saga, FALSE)
          /\ UNCHANGED <<release, stored, htmlJob, landing, lastAsk, dropped>>
        BY <1>5 DEF StartStage
    <2>2. (~pagesCross' => ~OthersMake(Saga)) /\ (pagesCross => pagesCross')
        BY <1>5 DEF StartStage
    <2> QED BY <1>0, <2>1, <2>2, HtmlAssumption, PageBegins
<1>6. ASSUME NEW m \in HtmlMakers, TakeHtml(m) PROVE HtmlInv'
    <2>1. /\ MakerAt(m, "idle") /\ BeginPage(m, TRUE) /\ htmlJob.state = "waiting"
          /\ htmlJob' = Taken(htmlJob)
          /\ UNCHANGED <<release, version, stored, landing, lastAsk, dropped>>
        BY <1>6 DEF TakeHtml
    <2>2. ~pagesCross' => ~OthersMake(m)
        BY <1>6 DEF TakeHtml
    <2>3. htmlJob' \in HtmlJobStates /\ htmlJob'.state = "active"
        BY <1>0, <2>1, JobMoves
    <2>4. \A o \in HtmlMakers : ~pageMakers[o].holds
        BY <2>1 DEF HtmlInv, JobHeld
    <2> QED BY <2>1, <2>2, <2>3, <2>4, PageBegins
<1>7. ASSUME NEW m \in HtmlMakers, Convert(m) \/ PutPage(m) PROVE HtmlInv'
    <2>1. PICK next : /\ \/ next = [pageMakers[m] EXCEPT !.pc = "put", !.made = release]
                            /\ stored' = stored /\ MakerAt(m, "convert")
                         \/ next = [pageMakers[m] EXCEPT !.pc = "name"]
                            /\ stored' = pageMakers[m].made /\ MakerAt(m, "put")
                      /\ pageMakers' = [pageMakers EXCEPT ![m] = next]
        BY <1>0, <1>7 DEF Convert, PutPage
    <2>2. UNCHANGED <<release, version, htmlJob, landing, htmlPast>>
        BY <1>7 DEF Convert, PutPage
    <2>3. /\ next \in PageMakerStates /\ next.holds = pageMakers[m].holds
          /\ next.pc \in {"put", "name"}
          /\ next.pc = "put" => next.made = release /\ stored' = stored
          /\ next.pc = "name" => MakerAt(m, "put") /\ stored' = pageMakers[m].made
        BY <1>0, <2>1 DEF PageMakerStates
    <2>4. /\ pageMakers' \in [HtmlMakers -> PageMakerStates] /\ pageMakers'[m] = next
          /\ \A o \in HtmlMakers : o # m => pageMakers'[o] = pageMakers[o]
        BY <1>0, <2>1, <2>3
    <2>5. stored' \in Nat /\ (stored # 0 => stored' # 0) /\ (next.pc = "name" => stored' # 0)
        BY <1>0, <2>3 DEF HtmlInv, PagesNamed, PageMakerStates
    <2>6. HtmlKinds'
        BY <2>2, <2>4, <2>5 DEF HtmlInv, HtmlKinds, htmlPast
    <2>7. \A o \in HtmlMakers :
            /\ o # m => /\ MakerAt(o, "put")' <=> MakerAt(o, "put")
                        /\ MakerAt(o, "name")' <=> MakerAt(o, "name")
            /\ Making(o)' <=> Making(o)
            /\ pageMakers'[o].holds = pageMakers[o].holds
        BY <2>1, <2>3, <2>4 DEF MakerAt, Making
    <2>8. MakerAt(m, "put")' = (next.pc = "put") /\ MakerAt(m, "name")' = (next.pc = "name")
        BY <2>4 DEF MakerAt
    <2>9. KeyNamesPage'
        BY <2>2, <2>5 DEF HtmlInv, PagesNamed, KeyNamesPage
    <2>10. ASSUME NEW o \in HtmlMakers
           PROVE  /\ MakerAt(o, "put")' => pageMakers'[o].made # 0
                  /\ MakerAt(o, "name")' => stored' # 0
        <3>1. CASE o = m
            BY <1>0, <2>3, <2>4, <2>5, <2>8, <3>1
        <3>2. CASE o # m
            BY <2>4, <2>5, <2>7, <3>2 DEF HtmlInv, PagesNamed
        <3> QED BY <3>1, <3>2
    <2>11. JobHeld' /\ LoneMaker'
        BY <2>2, <2>7 DEF HtmlInv, JobHeld, LoneMaker, htmlPast
    <2>12. ASSUME htmlJob.state \in {"active", "done"}, ~dropped, ~pagesCross
           PROVE  /\ \A o \in HtmlMakers :
                         /\ MakerAt(o, "put")' => lastAsk <= pageMakers'[o].made
                         /\ MakerAt(o, "name")' /\ pageMakers'[o].holds => lastAsk <= stored'
                  /\ htmlJob.state = "done" => lastAsk <= stored'
        <3>1. MakerAt(m, "put") => lastAsk <= pageMakers[m].made
            BY <2>12 DEF HtmlInv, AskedIsMade
        <3>2. next.pc = "name" => lastAsk <= stored'
            BY <2>3, <3>1
        <3>3. ASSUME NEW o \in HtmlMakers
              PROVE  /\ MakerAt(o, "put")' => lastAsk <= pageMakers'[o].made
                     /\ MakerAt(o, "name")' /\ pageMakers'[o].holds => lastAsk <= stored'
            <4>1. CASE o = m
                BY <1>0, <2>3, <2>4, <2>8, <3>2, <4>1
            <4>2. CASE o # m
                BY <2>3, <2>4, <2>7, <2>12, <3>2, <4>2 DEF HtmlInv, AskedIsMade
            <4> QED BY <4>1, <4>2
        <3>4. htmlJob.state = "done" => lastAsk <= stored'
            BY <2>3, <2>12, <3>2 DEF HtmlInv, AskedIsMade
        <3> QED BY <3>3, <3>4
    <2>13. AskedIsMade'
        BY <1>0, <2>2, <2>12 DEF AskedIsMade, htmlPast
    <2> QED BY <2>6, <2>9, <2>10, <2>11, <2>13 DEF HtmlInv, PagesNamed
<1>8. ASSUME NEW m \in HtmlMakers, NamePage(m) PROVE HtmlInv'
    <2>1. /\ MakerAt(m, "name") /\ version' = "named"
          /\ pageMakers' = [pageMakers EXCEPT ![m] = NoMake]
          /\ htmlJob' = IF pageMakers[m].holds THEN Completed(htmlJob) ELSE htmlJob
          /\ UNCHANGED <<release, stored, landing, htmlPast>>
        BY <1>8 DEF NamePage
    <2>2. /\ pageMakers' \in [HtmlMakers -> PageMakerStates] /\ pageMakers'[m] = NoMake
          /\ \A o \in HtmlMakers : o # m => pageMakers'[o] = pageMakers[o]
        BY <1>0, <2>1
    <2>3. /\ htmlJob' \in HtmlJobStates
          /\ pageMakers[m].holds => htmlJob'.state = "done"
          /\ ~pageMakers[m].holds => htmlJob' = htmlJob
        BY <1>0, <2>1, JobMoves
    <2>4. \A o \in HtmlMakers :
            /\ MakerAt(o, "put")' => MakerAt(o, "put") /\ pageMakers'[o].made = pageMakers[o].made
            /\ MakerAt(o, "name")' => MakerAt(o, "name")
            /\ Making(o)' => Making(o)
            /\ pageMakers'[o].holds => pageMakers[o].holds /\ o # m /\ (Making(o) => Making(o)')
        BY <1>0, <2>2 DEF MakerAt, Making
    <2>5. stored # 0
        BY <2>1 DEF HtmlInv, PagesNamed
    <2>6. HtmlKinds' /\ KeyNamesPage'
        BY <2>1, <2>2, <2>3, <2>5 DEF HtmlInv, HtmlKinds, KeyNamesPage, htmlPast
    <2>7. ASSUME NEW o \in HtmlMakers
          PROVE  /\ MakerAt(o, "put")' => pageMakers'[o].made # 0
                 /\ MakerAt(o, "name")' => stored' # 0
        BY <2>1, <2>4, <2>5 DEF HtmlInv, PagesNamed
    <2>8. pageMakers[m].holds => \A o \in HtmlMakers : ~pageMakers'[o].holds
        BY <2>4 DEF HtmlInv, JobHeld
    <2>9. JobHeld' /\ LoneMaker'
        BY <2>1, <2>3, <2>4, <2>8 DEF HtmlInv, JobHeld, LoneMaker, htmlPast
    <2>10. ASSUME htmlJob'.state \in {"active", "done"}, ~dropped, ~pagesCross
           PROVE  /\ \A o \in HtmlMakers :
                         /\ MakerAt(o, "put")' => lastAsk <= pageMakers'[o].made
                         /\ MakerAt(o, "name")' /\ pageMakers'[o].holds => lastAsk <= stored
                  /\ htmlJob'.state = "done" => lastAsk <= stored
        <3>1. htmlJob.state \in {"active", "done"}
            BY <2>3, <2>10 DEF HtmlInv, JobHeld
        <3>2. pageMakers[m].holds => lastAsk <= stored
            BY <2>1, <2>10, <3>1 DEF HtmlInv, AskedIsMade
        <3> QED BY <2>3, <2>4, <2>10, <3>1, <3>2 DEF HtmlInv, AskedIsMade
    <2>11. AskedIsMade'
        BY <1>0, <2>1, <2>10 DEF AskedIsMade, htmlPast
    <2> QED BY <2>6, <2>7, <2>9, <2>11 DEF HtmlInv, PagesNamed
<1>9. ASSUME NEW m \in HtmlMakers, MakeFails(m) \/ PutGivenUp(m) PROVE HtmlInv'
    <2>1. /\ pageMakers' = [pageMakers EXCEPT ![m] = NoMake]
          /\ htmlJob' = IF pageMakers[m].holds THEN Retried(htmlJob, FALSE, MaxHtmlAttempts)
                        ELSE htmlJob
          /\ UNCHANGED <<release, version, stored, lastAsk, dropped>>
        BY <1>9 DEF MakeFails, PutGivenUp, htmlPast
    <2>2. JobLost(m, NoMake)
        BY <1>0, <2>1, JobMoves DEF JobLost
    <2>3. \/ UNCHANGED <<landing, pagesCross>>
          \/ landing' \subseteq Nat \ {0} /\ pagesCross'
        <3>1. CASE MakeFails(m)
            BY <3>1 DEF MakeFails, htmlPast
        <3>2. CASE PutGivenUp(m)
            <4>1. pageMakers[m].made \in Nat \ {0}
                BY <1>0, <3>2 DEF PutGivenUp, HtmlInv, PagesNamed, PageMakerStates
            <4> QED BY <3>2, <4>1 DEF PutGivenUp, HtmlInv, HtmlKinds
        <3> QED BY <1>9, <3>1, <3>2
    <2> QED BY <2>1, <2>2, <2>3, LostKeeps
<1>10. ASSUME NEW r \in landing, PutLands(r) PROVE HtmlInv'
    <2>1. /\ stored' = r /\ landing' = landing \ {r}
          /\ UNCHANGED <<release, version, htmlJob, pageMakers, htmlPast>>
        BY <1>10 DEF PutLands
    <2>2. r \in Nat \ {0} /\ pagesCross
        BY DEF HtmlInv, HtmlKinds, LoneMaker
    <2> QED BY <2>1, <2>2 DEF htmlPast, HtmlInv, HtmlKinds, PagesNamed, KeyNamesPage, JobHeld,
            LoneMaker, AskedIsMade, MakerAt, Making
<1>11. ASSUME NEW m \in HtmlMakers, NEW frozen \in BOOLEAN, WorkerStalls(m, frozen) PROVE HtmlInv'
    <2>1. PICK next : next = IF frozen THEN [pageMakers[m] EXCEPT !.holds = FALSE] ELSE NoMake
        OBVIOUS
    <2>2. /\ pageMakers' = [pageMakers EXCEPT ![m] = next] /\ pageMakers[m].holds
          /\ htmlJob' = Stalled(htmlJob, MaxHtmlStalls)
          /\ UNCHANGED <<release, version, stored, landing, lastAsk, dropped, pagesCross>>
        BY <1>11, <2>1 DEF WorkerStalls, htmlPast
    <2>3. /\ next \in PageMakerStates /\ ~next.holds /\ next.pc \in {"idle", pageMakers[m].pc}
          /\ next.made = pageMakers[m].made \/ next.pc = "idle"
        <3>1. CASE frozen
            BY <1>0, <2>1, <3>1 DEF PageMakerStates
        <3>2. CASE ~frozen
            BY <1>0, <2>1, <3>2
        <3> QED BY <3>1, <3>2
    <2>4. JobLost(m, next)
        BY <1>0, <2>2, <2>3, JobMoves DEF JobLost
    <2> QED BY <2>2, <2>4, LostKeeps
<1> QED BY <1>1, <1>2, <1>3, <1>4, <1>5, <1>6, <1>7, <1>8, <1>9, <1>10, <1>11 DEF HtmlNext, Make

\* A version names a page that is there, whatever fails between the two; and a request the queue
\* took is answered, once the job is done, by a page of the release asked for or a later one, for
\* any number of workers, releases, attempts and stalls (submissions.ts:1073, routes/papers.ts:664).
THEOREM HtmlKeepsUp == HtmlSpec => [](KeyNamesPage /\ RequestsAnswered)
<1>1. HtmlInv => KeyNamesPage /\ RequestsAnswered
    BY DEF HtmlInv, HtmlKinds, PagesNamed, AskedIsMade, RequestsAnswered
<1> QED BY <1>1, HtmlInitInv, HtmlInductive, PTL DEF HtmlSpec

-----------------------------------------------------------------------------
(* The lanes of a passport. *)

\* Posts about a paper.
ThreadPosts ==
    [kind : {"dispute", "response", "attestation"}, lane : Lanes,
     label : {"open", "highlighted", "resolved"}, hidden : BOOLEAN, verified : BOOLEAN]

PassInv ==
    /\ paper \in Papers /\ progress \in SUBSET Stages
    /\ endorsed \in [Readers -> Verbs \cup {NoVerb}] /\ IsFiniteSet(Endorsements)
    /\ thread \in Seq(ThreadPosts)

\* What a lane is made of.
CheckStates ==
    [weight : {10, 15, 20, 25, 30, 35, 100}, severity : {"high", "medium", "low", "info"},
     status : {"pass", "fail", "pending", "not_applicable"}, value : Nat]

IsLane(checks) ==
    /\ DOMAIN checks \subseteq 1..5 /\ \A i \in DOMAIN checks : checks[i] \in CheckStates
    /\ \A i \in DOMAIN checks : checks[i].status = "pass" => checks[i].value = 24

ToDo(checks) == WithStatus(checks, {"fail", "pending"})

\* Something to do is serious: pending, or a failure of more than low severity.
IsSerious(checks) ==
    ToDo(checks) # {} => \E i \in DOMAIN checks :
        \/ checks[i].status = "pending"
        \/ checks[i].status = "fail" /\ checks[i].severity \in {"high", "medium"}

\* The first n numbers are n.
LEMMA FirstNumbers ==
    ASSUME NEW n \in Nat
    PROVE  IsFiniteSet(1..n) /\ Cardinality(1..n) = n
<1>1. \A a \in Int, b \in Int :
          IsFiniteSet(a..b) /\ Cardinality(a..b) = IF a > b THEN 0 ELSE b - a + 1
    BY FS_Interval
<1>2. IsFiniteSet(1..n)
    BY <1>1
<1>3. Cardinality(1..n) = IF 1 > n THEN 0 ELSE n - 1 + 1
    BY <1>1
<1> QED BY <1>2, <1>3

\* A lane with nothing to do has all of its credit.
LEMMA FullCredit ==
    ASSUME NEW checks, IsLane(checks), ToDo(checks) = {},
           NEW p \in {65, 70, 80, 100}, Total(Weights(checks), Applicable(checks)) = p
    PROVE  /\ ApplicableSeen(checks) = Applicable(checks)
           /\ Total(Credits(checks), ApplicableSeen(checks)) = 24 * p
<1>1. /\ ApplicableSeen(checks) = Applicable(checks)
      /\ \A i \in Applicable(checks) : i \in DOMAIN checks /\ checks[i].status = "pass"
    BY DEF ApplicableSeen, Applicable, ToDo, WithStatus, IsLane, CheckStates
<1>2. \A i \in Applicable(checks) : /\ Weights(checks)[i] \in Nat
                                    /\ Credits(checks)[i] = 24 * Weights(checks)[i]
    <2>1. ASSUME NEW i \in Applicable(checks)
          PROVE  Weights(checks)[i] \in Nat /\ Credits(checks)[i] = 24 * Weights(checks)[i]
        <3>1. i \in DOMAIN checks /\ checks[i].value = 24 /\ checks[i].weight \in Nat
            BY <1>1, <2>1 DEF IsLane, CheckStates
        <3> QED BY <3>1 DEF Weights, Credits
    <2> QED BY <2>1
<1> DEFINE S == Applicable(checks)
           W(i) == IF i \in S THEN Weights(checks)[i] ELSE 0
           C(i) == IF i \in S THEN Credits(checks)[i] ELSE 0
<1>3. \A i \in 1..5 : W(i) \in Nat /\ C(i) = 24 * W(i)
    BY <1>2
<1>4. W(1) + W(2) + W(3) + W(4) + W(5) = p
    BY DEF Total
<1>5. C(1) + C(2) + C(3) + C(4) + C(5) = 24 * p
    <2> HIDE DEF W, C
    <2> QED BY <1>3, <1>4
<1> QED BY <1>1, <1>5 DEF Total

\* The checks a lane is made of.
CheckWeights == {10, 15, 20, 25, 30, 35, 100}
Severities == {"high", "medium", "low", "info"}

\* A share, and that it passes when it is full.
LEMMA CoverageIs ==
    ASSUME NEW w \in CheckWeights, NEW sev \in Severities, NEW v \in Nat
    PROVE  /\ Coverage(w, sev, v) \in CheckStates /\ Coverage(w, sev, v).value = v
           /\ Coverage(w, sev, v).status = (IF v = 24 THEN "pass" ELSE "fail")
           /\ Coverage(w, sev, v).weight = w /\ Coverage(w, sev, v).severity = sev
BY DEF Coverage, CheckOf, CheckStates, CheckWeights, Severities

\* A yes or no.
LEMMA BoolIs ==
    ASSUME NEW w \in CheckWeights, NEW sev \in Severities, NEW b \in BOOLEAN
    PROVE  /\ Bool(w, sev, b) \in CheckStates /\ Bool(w, sev, b).value = (IF b THEN 24 ELSE 0)
           /\ Bool(w, sev, b).status = (IF b THEN "pass" ELSE "fail")
           /\ Bool(w, sev, b).weight = w /\ Bool(w, sev, b).severity = sev
BY DEF Bool, Coverage, CheckOf, CheckStates, CheckWeights, Severities

\* What is not known, or not asked.
LEMMA PendingIs ==
    ASSUME NEW w \in CheckWeights, NEW sev \in Severities
    PROVE  /\ Pending(w, sev) \in CheckStates /\ Pending(w, sev).status = "pending"
           /\ Pending(w, sev).weight = w /\ Pending(w, sev).severity = sev
           /\ Pending(w, sev).value = 0
           /\ NotApplicable(w) \in CheckStates /\ NotApplicable(w).status = "not_applicable"
           /\ NotApplicable(w).weight = w
BY DEF Pending, NotApplicable, CheckOf, CheckStates, CheckWeights, Severities

\* What a lane says that has something to do, or nothing.
LEMMA LaneIsExplained ==
    ASSUME NEW checks, IsLane(checks), IsSerious(checks), NEW empty \in BOOLEAN,
           ToDo(checks) = {} =>
               \/ Applicable(checks) = {}
               \/ Total(Weights(checks), Applicable(checks)) \in {65, 70, 80, 100}
    PROVE  /\ Evaluate(checks, empty).actions \in Nat /\ Evaluate(checks, empty).issue \in 0..3
           /\ Evaluate(checks, empty).state \in DOMAIN StatusFor
           /\ Evaluate(checks, empty).state # "strong" =>
                  Evaluate(checks, empty).issue > 0 /\ Evaluate(checks, empty).actions > 0
<1> DEFINE failed == WithStatus(checks, {"fail"})
           waiting == WithStatus(checks, {"pending"})
           fails == {checks[i].severity : i \in failed}
           possible == Total(Weights(checks), Applicable(checks))
           positive == Total(Credits(checks), ApplicableSeen(checks))
           score == Percent(positive, 24 * possible)
           confidence == Percent(Total(Weights(checks), ApplicableSeen(checks)), possible)
           lane == Evaluate(checks, empty)
<1>1. /\ lane.actions = Cardinality(failed \cup waiting)
      /\ lane.issue = IssueLevel("high" \in fails, "medium" \in fails, waiting)
      /\ lane.state = IF Applicable(checks) = {} THEN "strong"
                      ELSE State(ApplicableSeen(checks), empty /\ positive = 0, "high" \in fails,
                                 score, confidence)
    BY DEF Evaluate, Verdict, ApplicableSeen
<1>2. failed \cup waiting = ToDo(checks)
    BY DEF ToDo, WithStatus
<1>3. IsFiniteSet(ToDo(checks))
    <2>1. ToDo(checks) \in SUBSET (1..5)
        BY DEF ToDo, WithStatus, IsLane
    <2>2. IsFiniteSet(1..5)
        BY FirstNumbers
    <2> QED BY <2>1, <2>2, FS_Subset
<1>4. lane.actions \in Nat /\ (lane.actions = 0 => ToDo(checks) = {})
    <2>1. /\ Cardinality(ToDo(checks)) \in Nat
          /\ Cardinality(ToDo(checks)) = 0 => ToDo(checks) = {}
        BY <1>3, FS_CardinalityType, FS_EmptySet
    <2>2. lane.actions = Cardinality(ToDo(checks))
        BY <1>1, <1>2
    <2> QED BY <2>1, <2>2
<1>5. lane.issue \in 0..3 /\ lane.state \in DOMAIN StatusFor
    BY <1>1 DEF IssueLevel, State, StatusFor
<1>6. ToDo(checks) # {} => lane.issue > 0
    <2>1. ASSUME NEW i \in DOMAIN checks, checks[i].status = "pending" PROVE lane.issue > 0
        <3>1. i \in waiting
            BY <2>1 DEF WithStatus
        <3> QED BY <1>1, <3>1 DEF IssueLevel
    <2>2. ASSUME NEW i \in DOMAIN checks, checks[i].status = "fail",
                 checks[i].severity \in {"high", "medium"}
          PROVE  lane.issue > 0
        <3>1. checks[i].severity \in fails
            BY <2>2 DEF WithStatus
        <3> QED BY <1>1, <2>2, <3>1 DEF IssueLevel
    <2> QED BY <2>1, <2>2 DEF IsSerious
<1>7. ASSUME ToDo(checks) = {}, Applicable(checks) # {} PROVE lane.state = "strong"
    <2>1. PICK p \in {65, 70, 80, 100} : p = possible
        BY <1>7
    <2>2. ApplicableSeen(checks) = Applicable(checks) /\ positive = 24 * p
        BY <1>7, <2>1, FullCredit
    <2>3. Percent(24 * p, 24 * p) = 100 /\ Percent(p, p) = 100
        BY <2>1 DEF Percent
    <2>4. score = 100 /\ confidence = 100
        BY <2>1, <2>2, <2>3
    <2>5. "high" \notin fails
        BY <1>7 DEF ToDo, WithStatus
    <2> HIDE DEF score, confidence, fails, positive
    <2>6. positive # 0
        BY <2>1, <2>2
    <2> QED BY <1>1, <1>7, <2>2, <2>4, <2>5, <2>6 DEF State
<1>8. lane.state # "strong" => ToDo(checks) # {}
    BY <1>1, <1>7
<1> QED BY <1>4, <1>5, <1>6, <1>8

\* What the lanes are computed from.
LaneInputs == [
    filled : BOOLEAN, ai : BOOLEAN, models : BOOLEAN, human : BOOLEAN, orcids : Nat,
    identified : Nat, authors : Nat, version : BOOLEAN, html : BOOLEAN, timed : BOOLEAN,
    lifecycle : Nat, text : BOOLEAN, section : BOOLEAN, markers : Nat, entries : Nat,
    resolved : Nat, byCategory : BOOLEAN, formulas : Nat, cues : Nat, endorsements : Nat,
    verbs : Nat, disputes : Nat, settled : Nat]

\* A share of what is full.
LEMMA ShareType ==
    ASSUME NEW n \in Nat, NEW full \in Nat, full > 0
    PROVE  Share(n, full) \in Nat
<1>1. AtMost(n, full) \in Nat
    BY DEF AtMost
<1> QED BY <1>1 DEF Share

\* A lane whose checks are known, up to five of them.
LEMMA LaneOfChecks ==
    ASSUME NEW checks, DOMAIN checks \subseteq 1..5,
           \A i \in DOMAIN checks :
               \E w \in CheckWeights, sev \in Severities :
                   \/ \E v \in Nat : checks[i] = Coverage(w, sev, v)
                   \/ \E b \in BOOLEAN : checks[i] = Bool(w, sev, b)
                   \/ checks[i] = Pending(w, sev) \/ checks[i] = NotApplicable(w)
    PROVE  IsLane(checks)
<1>1. ASSUME NEW i \in DOMAIN checks
      PROVE  checks[i] \in CheckStates /\ (checks[i].status = "pass" => checks[i].value = 24)
    <2>1. PICK w \in CheckWeights, sev \in Severities :
              \/ \E v \in Nat : checks[i] = Coverage(w, sev, v)
              \/ \E b \in BOOLEAN : checks[i] = Bool(w, sev, b)
              \/ checks[i] = Pending(w, sev) \/ checks[i] = NotApplicable(w)
        BY <1>1
    <2>2. ASSUME NEW v \in Nat, checks[i] = Coverage(w, sev, v)
          PROVE  checks[i] \in CheckStates /\ (checks[i].status = "pass" => checks[i].value = 24)
        BY <2>2, CoverageIs
    <2>3. ASSUME NEW b \in BOOLEAN, checks[i] = Bool(w, sev, b)
          PROVE  checks[i] \in CheckStates /\ (checks[i].status = "pass" => checks[i].value = 24)
        BY <2>3, BoolIs
    <2>4. CASE checks[i] = Pending(w, sev) \/ checks[i] = NotApplicable(w)
        BY <2>4, PendingIs
    <2> QED BY <2>1, <2>2, <2>3, <2>4
<1> QED BY <1>1 DEF IsLane

\* A lane that LaneIsExplained speaks of.
Sound(checks) ==
    /\ IsLane(checks) /\ IsSerious(checks)
    /\ ToDo(checks) = {} =>
           \/ Applicable(checks) = {}
           \/ Total(Weights(checks), Applicable(checks)) \in {65, 70, 80, 100}

\* The checks on what the paper says of itself.
LEMMA TransparencySound ==
    ASSUME NEW in \in LaneInputs, NEW checks, checks = TransparencyChecks(in)
    PROVE  Sound(checks)
<1>1. /\ DOMAIN checks = 1..5
      /\ checks[1] = Bool(30, "high", in.filled) /\ checks[2] = Bool(20, "high", in.filled)
      /\ checks[3] = (IF in.ai THEN Bool(20, "high", in.models) ELSE NotApplicable(20))
      /\ checks[4] = Bool(15, "high", in.human) /\ checks[5] = Bool(15, "low", in.filled)
    BY DEF TransparencyChecks
<1>2. /\ {in.filled, in.ai, in.models, in.human} \subseteq BOOLEAN
    BY DEF LaneInputs
<1>3. IsLane(checks)
    BY <1>1, <1>2, LaneOfChecks DEF CheckWeights, Severities
<1>4. /\ checks[1].status = (IF in.filled THEN "pass" ELSE "fail") /\ checks[1].severity = "high"
      /\ checks[2].status = (IF in.filled THEN "pass" ELSE "fail") /\ checks[2].severity = "high"
      /\ checks[3].status = (IF in.ai THEN IF in.models THEN "pass" ELSE "fail"
                                      ELSE "not_applicable")
      /\ in.ai => checks[3].severity = "high"
      /\ checks[4].status = (IF in.human THEN "pass" ELSE "fail") /\ checks[4].severity = "high"
      /\ checks[5].status = (IF in.filled THEN "pass" ELSE "fail")
      /\ checks[1].weight = 30 /\ checks[2].weight = 20 /\ checks[3].weight = 20
      /\ checks[4].weight = 15 /\ checks[5].weight = 15
    BY <1>1, <1>2, BoolIs, PendingIs DEF CheckWeights, Severities
<1>5. IsSerious(checks)
    BY <1>1, <1>4 DEF IsSerious, ToDo, WithStatus
<1>6. ASSUME ToDo(checks) = {} PROVE Total(Weights(checks), Applicable(checks)) \in {80, 100}
    <2>1. \A i \in 1..5 : checks[i].status \notin {"fail", "pending"}
        BY <1>1, <1>6 DEF ToDo, WithStatus
    <2>2. Applicable(checks) = IF in.ai THEN 1..5 ELSE {1, 2, 4, 5}
        BY <1>1, <1>2, <1>4, <2>1 DEF Applicable, WithStatus
    <2>3. /\ Weights(checks)[1] = 30 /\ Weights(checks)[2] = 20 /\ Weights(checks)[3] = 20
          /\ Weights(checks)[4] = 15 /\ Weights(checks)[5] = 15
        BY <1>1, <1>4 DEF Weights
    <2> QED BY <2>2, <2>3 DEF Total
<1> QED BY <1>3, <1>5, <1>6 DEF Sound

\* The checks on the authors.
LEMMA IdentitySound ==
    ASSUME NEW in \in LaneInputs, NEW checks, checks = IdentityChecks(in)
    PROVE  Sound(checks)
<1>1. in.authors \in Nat /\ in.orcids \in Nat /\ in.identified \in Nat
    BY DEF LaneInputs
<1>2. in.authors > 0 => Share(in.identified, in.authors) \in Nat
    BY <1>1, ShareType
<1>3. PICK known \in BOOLEAN : known <=> in.authors > 0
    OBVIOUS
<1>4. PICK orcid \in BOOLEAN : orcid <=> in.orcids > 0
    OBVIOUS
<1>10. /\ DOMAIN checks = 1..4
       /\ checks[1] = Coverage(25, "high", 24) /\ checks[2] = Bool(30, "medium", orcid)
       /\ checks[3] = (IF known THEN Coverage(35, "medium", Share(in.identified, in.authors))
                                ELSE Pending(35, "medium"))
       /\ checks[4] = Bool(10, "high", known)
    BY <1>3, <1>4 DEF IdentityChecks, Bool
<1>5. IsLane(checks)
    BY <1>2, <1>3, <1>10, LaneOfChecks DEF CheckWeights, Severities
<1>11. /\ checks[1].status = "pass" /\ checks[1].weight = 25
    BY <1>10, CoverageIs DEF CheckWeights, Severities
<1>12. /\ checks[2].severity = "medium" /\ checks[2].weight = 30
       /\ checks[2].status \in {"pass", "fail"}
    BY <1>10, BoolIs DEF CheckWeights, Severities
<1>13. /\ checks[3].severity = "medium" /\ checks[3].weight = 35
       /\ checks[3].status \in {"pass", "fail", "pending"}
    <2>1. CASE known
        BY <1>2, <1>3, <1>10, <2>1, CoverageIs DEF CheckWeights, Severities
    <2>2. CASE ~known
        BY <1>10, <2>2, PendingIs DEF CheckWeights, Severities
    <2> QED BY <2>1, <2>2
<1>14. /\ checks[4].severity = "high" /\ checks[4].weight = 10
       /\ checks[4].status \in {"pass", "fail"}
    BY <1>10, BoolIs DEF CheckWeights, Severities
<1>6. /\ checks[1].status = "pass" /\ checks[1].weight = 25
      /\ checks[2].severity = "medium" /\ checks[2].weight = 30
      /\ checks[3].severity = "medium" /\ checks[3].weight = 35
      /\ checks[4].severity = "high" /\ checks[4].weight = 10
    BY <1>11, <1>12, <1>13, <1>14
<1>7. \A i \in 1..4 : checks[i].status \in {"pass", "fail", "pending"}
    BY <1>11, <1>12, <1>13, <1>14
<1>8. IsSerious(checks)
    BY <1>10, <1>6, <1>7 DEF IsSerious, ToDo, WithStatus
<1>9. Total(Weights(checks), Applicable(checks)) = 100
    <2>1. Applicable(checks) = 1..4
        BY <1>10, <1>7 DEF Applicable, WithStatus
    <2>2. /\ Weights(checks)[1] = 25 /\ Weights(checks)[2] = 30 /\ Weights(checks)[3] = 35
          /\ Weights(checks)[4] = 10
        BY <1>10, <1>6 DEF Weights
    <2> QED BY <2>1, <2>2 DEF Total
<1> QED BY <1>5, <1>8, <1>9 DEF Sound

\* The checks on where the files come from, without the timeline.
LEMMA ProvenanceSound ==
    ASSUME NEW in \in LaneInputs, ~in.timed, NEW checks, checks = ProvenanceChecks(in)
    PROVE  Sound(checks)
<1>1. in.version \in BOOLEAN /\ in.html \in BOOLEAN
    BY DEF LaneInputs
<1>2. /\ DOMAIN checks = 1..5
      /\ checks[1] = Bool(30, "high", in.version) /\ checks[2] = Bool(25, "high", in.version)
      /\ checks[3] = Bool(20, "medium", in.html) /\ checks[4] = Bool(15, "medium", in.version)
      /\ checks[5] = Pending(10, "low")
    BY DEF ProvenanceChecks, LifecycleCheck
<1>3. IsLane(checks)
    BY <1>1, <1>2, LaneOfChecks DEF CheckWeights, Severities
<1>4. checks[5].status = "pending"
    BY <1>2, PendingIs DEF CheckWeights, Severities
<1>5. IsSerious(checks) /\ ToDo(checks) # {}
    BY <1>2, <1>4 DEF IsSerious, ToDo, WithStatus
<1> QED BY <1>3, <1>5 DEF Sound

\* The checks on what the text cites.
LEMMA CitationsSound ==
    ASSUME NEW in \in LaneInputs, NEW checks, checks = CitationChecks(in)
    PROVE  Sound(checks)
<1>1. in.text \in BOOLEAN /\ in.section \in BOOLEAN
    BY DEF LaneInputs
<1>2. /\ Share(in.markers, 12) \in Nat /\ Share(in.entries, 8) \in Nat
      /\ Share(in.resolved, 6) \in Nat
    BY ShareType DEF LaneInputs
<1>3. PICK given \in BOOLEAN : given <=> in.text /\ in.section
    OBVIOUS
<1>4. /\ DOMAIN checks = 1..4 /\ checks[1] = Bool(30, "high", given)
      /\ checks[2] = (IF in.text THEN Coverage(25, "medium", Share(in.markers, 12))
                                 ELSE Pending(25, "medium"))
      /\ checks[3] = (IF in.text THEN Coverage(25, "high", Share(in.entries, 8))
                                 ELSE Pending(25, "high"))
      /\ checks[4] = (IF in.text THEN Coverage(20, "medium", Share(in.resolved, 6))
                                 ELSE Pending(20, "medium"))
    <2> HIDE DEF Share, Coverage
    <2>1. CASE in.text
        BY <1>1, <1>3, <2>1 DEF CitationChecks, Bool
    <2>2. CASE ~in.text
        BY <1>1, <1>3, <2>2 DEF CitationChecks, Bool
    <2> QED BY <2>1, <2>2
<1>5. IsLane(checks)
    BY <1>2, <1>4, <1>3, LaneOfChecks DEF CheckWeights, Severities
<1>10. /\ checks[1].severity = "high" /\ checks[1].weight = 30
       /\ checks[1].status \in {"pass", "fail"}
    BY <1>4, BoolIs DEF CheckWeights, Severities
<1>11. ASSUME NEW i \in 2..4
       PROVE  /\ checks[i].severity = (IF i = 3 THEN "high" ELSE "medium")
              /\ checks[i].weight = (IF i = 4 THEN 20 ELSE 25)
              /\ checks[i].status \in {"pass", "fail", "pending"}
    <2>1. PICK w \in CheckWeights, sev \in Severities, v \in Nat :
              /\ w = (IF i = 4 THEN 20 ELSE 25) /\ sev = (IF i = 3 THEN "high" ELSE "medium")
              /\ checks[i] = Coverage(w, sev, v) \/ checks[i] = Pending(w, sev)
        <3>1. CASE i = 2
            BY <1>2, <1>4, <3>1 DEF CheckWeights, Severities
        <3>2. CASE i = 3
            BY <1>2, <1>4, <3>2 DEF CheckWeights, Severities
        <3>3. CASE i = 4
            BY <1>2, <1>4, <3>3 DEF CheckWeights, Severities
        <3> QED BY <3>1, <3>2, <3>3
    <2> QED BY <2>1, PendingIs, CoverageIs
<1>6. /\ checks[1].severity = "high" /\ checks[1].weight = 30
      /\ checks[2].severity = "medium" /\ checks[2].weight = 25
      /\ checks[3].severity = "high" /\ checks[3].weight = 25
      /\ checks[4].severity = "medium" /\ checks[4].weight = 20
    BY <1>10, <1>11
<1>7. \A i \in 1..4 : checks[i].status \in {"pass", "fail", "pending"}
    BY <1>10, <1>11
<1>8. IsSerious(checks)
    BY <1>4, <1>6, <1>7 DEF IsSerious, ToDo, WithStatus
<1>9. Total(Weights(checks), Applicable(checks)) = 100
    <2>1. Applicable(checks) = 1..4
        BY <1>4, <1>7 DEF Applicable, WithStatus
    <2>2. /\ Weights(checks)[1] = 30 /\ Weights(checks)[2] = 25 /\ Weights(checks)[3] = 25
          /\ Weights(checks)[4] = 20
        BY <1>4, <1>6 DEF Weights
    <2> QED BY <2>1, <2>2 DEF Total
<1> QED BY <1>5, <1>8, <1>9 DEF Sound

\* The checks on mathematics: none, or nothing to check, or five.
LEMMA MathSound ==
    ASSUME NEW in \in LaneInputs, NEW checks, checks = MathChecks(in)
    PROVE  Sound(checks)
<1>1. in.text \in BOOLEAN /\ in.version \in BOOLEAN /\ in.human \in BOOLEAN
    BY DEF LaneInputs
<1>2. Share(in.formulas, 6) \in Nat /\ Share(in.cues, 4) \in Nat
    BY ShareType DEF LaneInputs
<1>6. PICK formulas \in Nat, cues \in Nat :
          formulas = Share(in.formulas, 6) /\ cues = Share(in.cues, 4)
    BY <1>2
<1>3. CASE checks = <<Pending(100, "medium")>>
    <2>1. DOMAIN checks = 1..1 /\ checks[1] = Pending(100, "medium")
        BY <1>3
    <2>2. IsLane(checks) /\ checks[1].status = "pending"
        BY <2>1, LaneOfChecks, PendingIs DEF CheckWeights, Severities
    <2>3. IsSerious(checks) /\ ToDo(checks) # {}
        BY <2>1, <2>2 DEF IsSerious, ToDo, WithStatus
    <2> QED BY <2>2, <2>3 DEF Sound
<1>4. CASE checks = <<NotApplicable(100)>>
    <2>1. DOMAIN checks = 1..1 /\ checks[1] = NotApplicable(100)
        BY <1>4
    <2>2. IsLane(checks) /\ checks[1].status = "not_applicable"
        <3>1. "low" \in Severities /\ 100 \in CheckWeights
            BY DEF CheckWeights, Severities
        <3> QED BY <2>1, <3>1, LaneOfChecks, PendingIs
    <2>3. IsSerious(checks) /\ Applicable(checks) = {}
        BY <2>1, <2>2 DEF IsSerious, ToDo, WithStatus, Applicable
    <2> QED BY <2>2, <2>3 DEF Sound
<1>5. CASE checks = <<Bool(20, "info", TRUE), Coverage(30, "medium", Share(in.formulas, 6)),
                      Coverage(20, "medium", Share(in.cues, 4)), Bool(15, "medium", in.version),
                      Bool(15, "high", in.human)>>
    <2>1. /\ DOMAIN checks = 1..5 /\ checks[1] = Coverage(20, "info", 24)
          /\ checks[2] = Coverage(30, "medium", formulas)
          /\ checks[3] = Coverage(20, "medium", cues)
          /\ checks[4] = Bool(15, "medium", in.version) /\ checks[5] = Bool(15, "high", in.human)
        BY <1>5, <1>6 DEF Bool
    <2>2. IsLane(checks)
        BY <1>1, <2>1, LaneOfChecks DEF CheckWeights, Severities
    <2>3. checks[1].status = "pass" /\ checks[1].weight = 20
        <3>1. checks[1] = Coverage(20, "info", 24)
            BY <2>1
        <3>2. 20 \in CheckWeights /\ "info" \in Severities /\ 24 \in Nat
            BY DEF CheckWeights, Severities
        <3> QED BY <3>1, <3>2, CoverageIs
    <2>4. /\ checks[2].status \in {"pass", "fail"} /\ checks[2].weight = 30
          /\ checks[2].severity = "medium"
        <3>1. checks[2] = Coverage(30, "medium", formulas)
            BY <2>1
        <3> QED BY <3>1, CoverageIs DEF CheckWeights, Severities
    <2>5. /\ checks[3].status \in {"pass", "fail"} /\ checks[3].weight = 20
          /\ checks[3].severity = "medium"
        <3>1. checks[3] = Coverage(20, "medium", cues)
            BY <2>1
        <3> QED BY <3>1, CoverageIs DEF CheckWeights, Severities
    <2>6. /\ checks[4].status \in {"pass", "fail"} /\ checks[4].weight = 15
          /\ checks[4].severity = "medium"
        BY <1>1, <2>1, BoolIs DEF CheckWeights, Severities
    <2>7. /\ checks[5].status \in {"pass", "fail"} /\ checks[5].weight = 15
          /\ checks[5].severity = "high"
        BY <1>1, <2>1, BoolIs DEF CheckWeights, Severities
    <2>8. IsSerious(checks)
        BY <2>1, <2>3, <2>4, <2>5, <2>6, <2>7 DEF IsSerious, ToDo, WithStatus
    <2>9. Applicable(checks) = 1..5
        BY <2>1, <2>3, <2>4, <2>5, <2>6, <2>7 DEF Applicable, WithStatus
    <2>10. /\ Weights(checks)[1] = 20 /\ Weights(checks)[2] = 30 /\ Weights(checks)[3] = 20
           /\ Weights(checks)[4] = 15 /\ Weights(checks)[5] = 15
        BY <2>1, <2>3, <2>4, <2>5, <2>6, <2>7 DEF Weights
    <2>11. Total(Weights(checks), Applicable(checks)) = 100
        BY <2>9, <2>10 DEF Total
    <2> QED BY <2>2, <2>8, <2>11 DEF Sound
<1> QED BY <1>3, <1>4, <1>5 DEF MathChecks

\* The checks on the integrity of the text; the detector is pending or not asked.
LEMMA IntegritySound ==
    ASSUME NEW in \in LaneInputs, NEW checks, checks = IntegrityChecks(in)
    PROVE  Sound(checks)
<1>1. in.ai \in BOOLEAN /\ in.version \in BOOLEAN /\ in.human \in BOOLEAN
    BY DEF LaneInputs
<1>2. /\ DOMAIN checks = 1..4
      /\ checks[1] = (IF in.ai THEN NotApplicable(35) ELSE Pending(35, "medium"))
      /\ checks[2] = Bool(30, "high", in.version) /\ checks[3] = Bool(20, "medium", in.version)
      /\ checks[4] = Bool(15, "high", in.human)
    BY DEF IntegrityChecks
<1>3. IsLane(checks)
    BY <1>1, <1>2, LaneOfChecks DEF CheckWeights, Severities
<1>4. checks[1].status = (IF in.ai THEN "not_applicable" ELSE "pending")
    BY <1>1, <1>2, PendingIs DEF CheckWeights, Severities
<1>5. /\ checks[2].status \in {"pass", "fail"} /\ checks[2].weight = 30
      /\ checks[2].severity = "high"
    BY <1>1, <1>2, BoolIs DEF CheckWeights, Severities
<1>6. /\ checks[3].status \in {"pass", "fail"} /\ checks[3].weight = 20
      /\ checks[3].severity = "medium"
    BY <1>1, <1>2, BoolIs DEF CheckWeights, Severities
<1>7. /\ checks[4].status \in {"pass", "fail"} /\ checks[4].weight = 15
      /\ checks[4].severity = "high"
    BY <1>1, <1>2, BoolIs DEF CheckWeights, Severities
<1>8. IsSerious(checks)
    BY <1>1, <1>2, <1>4, <1>5, <1>6, <1>7 DEF IsSerious, ToDo, WithStatus
<1>9. ASSUME ToDo(checks) = {} PROVE Total(Weights(checks), Applicable(checks)) = 65
    <2>1. checks[1].status = "not_applicable"
        BY <1>1, <1>2, <1>4, <1>9 DEF ToDo, WithStatus
    <2>2. Applicable(checks) = 2..4
        BY <1>2, <1>5, <1>6, <1>7, <2>1 DEF Applicable, WithStatus
    <2>3. /\ Weights(checks)[2] = 30 /\ Weights(checks)[3] = 20 /\ Weights(checks)[4] = 15
        BY <1>2, <1>5, <1>6, <1>7 DEF Weights
    <2> QED BY <2>2, <2>3 DEF Total
<1> QED BY <1>3, <1>8, <1>9 DEF Sound

\* The checks on what readers say; the verbs are no more than the endorsements.
LEMMA SocialSound ==
    ASSUME NEW in \in LaneInputs, in.verbs <= in.endorsements,
           NEW checks, checks = SocialChecks(in)
    PROVE  Sound(checks)
<1>1. /\ in.endorsements \in Nat /\ in.verbs \in Nat /\ in.disputes \in Nat
      /\ in.settled \in Nat
    BY DEF LaneInputs
<1>2. PICK some \in Nat, many \in Nat, over \in Nat :
          /\ some = Share(in.endorsements, 3) /\ many = Share(in.verbs, 3)
          /\ in.disputes # 0 => over = Share(in.settled, in.disputes)
          /\ many = 24 => some = 24
    <2>1. in.disputes # 0 => Share(in.settled, in.disputes) \in Nat
        BY <1>1, ShareType
    <2>2. Share(in.verbs, 3) = 24 => Share(in.endorsements, 3) = 24
        BY <1>1 DEF Share, AtMost
    <2>3. Share(in.endorsements, 3) \in Nat /\ Share(in.verbs, 3) \in Nat
        BY <1>1, ShareType
    <2> QED BY <2>1, <2>2, <2>3
<1>3. /\ DOMAIN checks = 1..3
      /\ checks[1] = Coverage(35, "low", some) /\ checks[2] = Coverage(35, "medium", many)
      /\ checks[3] = (IF in.disputes = 0 THEN NotApplicable(30) ELSE Coverage(30, "high", over))
    BY <1>2 DEF SocialChecks
<1>4. IsLane(checks)
    BY <1>1, <1>3, LaneOfChecks DEF CheckWeights, Severities
<1>5. /\ checks[1].status = (IF some = 24 THEN "pass" ELSE "fail")
      /\ checks[1].weight = 35
    BY <1>3, CoverageIs DEF CheckWeights, Severities
<1>6. /\ checks[2].status = (IF many = 24 THEN "pass" ELSE "fail")
      /\ checks[2].weight = 35 /\ checks[2].severity = "medium"
    BY <1>3, CoverageIs DEF CheckWeights, Severities
<1>7. /\ checks[3].weight = 30 /\ checks[3].status \in {"pass", "fail", "not_applicable"}
      /\ checks[3].status = "fail" => checks[3].severity = "high"
    <2>1. CASE in.disputes = 0
        BY <1>3, <2>1, PendingIs DEF CheckWeights, Severities
    <2>2. CASE in.disputes # 0
        BY <1>3, <2>2, CoverageIs DEF CheckWeights, Severities
    <2> QED BY <2>1, <2>2
<1>8. IsSerious(checks)
    BY <1>2, <1>3, <1>5, <1>6, <1>7 DEF IsSerious, ToDo, WithStatus
<1>9. Total(Weights(checks), Applicable(checks)) \in {70, 100}
    <2>1. Applicable(checks) = IF checks[3].status = "not_applicable" THEN {1, 2} ELSE 1..3
        BY <1>3, <1>5, <1>6, <1>7 DEF Applicable, WithStatus
    <2>2. /\ Weights(checks)[1] = 35 /\ Weights(checks)[2] = 35 /\ Weights(checks)[3] = 30
        BY <1>3, <1>5, <1>6, <1>7 DEF Weights
    <2>3. CASE checks[3].status = "not_applicable"
        BY <2>1, <2>2, <2>3 DEF Total
    <2>4. CASE checks[3].status # "not_applicable"
        BY <2>1, <2>2, <2>4 DEF Total
    <2> QED BY <2>3, <2>4
<1> QED BY <1>4, <1>8, <1>9 DEF Sound

\* The inputs of the page and of the signed passport.
LEMMA InputsFit ==
    ASSUME PassInv, NEW onPage \in BOOLEAN
    PROVE  /\ Inputs(onPage) \in LaneInputs /\ Inputs(onPage).timed = onPage
           /\ Inputs(onPage).verbs <= Inputs(onPage).endorsements
           /\ Inputs(onPage).lifecycle = 0
<1>1. /\ {paper.ai, paper.models, paper.human, paper.section, paper.byCategory} \subseteq BOOLEAN
      /\ {paper.authors, paper.identified, paper.orcids, paper.markers, paper.entries,
          paper.resolved, paper.formulas, paper.cues} \subseteq Nat
    <2>1. /\ {paper.ai, paper.models, paper.human, paper.section, paper.byCategory}
                 \subseteq BOOLEAN
          /\ {paper.markers, paper.entries, paper.resolved, paper.formulas, paper.cues}
                 \subseteq Nat
          /\ paper.authors \in 1..4 /\ paper.identified \in 0..paper.authors
          /\ paper.orcids \in 0..paper.identified
        BY PassportAssumption DEF PassInv
    <2> QED BY <2>1
<1>2. Lifecycle = 0
    <2> DEFINE later == Stages \ {"metadata"}
               place == [s \in later |->
                   CASE s = "compiled" -> 1 [] s = "html" -> 2 [] s = "id" -> 3
                     [] s = "pds" -> 4 [] s = "indexed" -> 5 [] s = "bridged" -> 6]
    <2>1. place \in Injection(later, 1..6)
        <3>1. later = {"compiled", "html", "id", "pds", "indexed", "bridged"}
            BY DEF Stages
        <3>2. /\ place["compiled"] = 1 /\ place["html"] = 2 /\ place["id"] = 3
              /\ place["pds"] = 4 /\ place["indexed"] = 5 /\ place["bridged"] = 6
            BY <3>1
        <3>3. place \in [later -> 1..6]
            BY <3>1, <3>2
        <3> HIDE DEF place
        <3> QED BY <3>1, <3>2, <3>3 DEF Injection, IsInjective
    <2>2. IsFiniteSet(later) /\ Cardinality(later) <= 6
        <3>1. IsFiniteSet(1..6) /\ Cardinality(1..6) = 6
            BY FirstNumbers
        <3> HIDE DEF place, later
        <3> QED BY <2>1, <3>1, FS_Injection
    <2>3. progress \ {"metadata"} \in SUBSET later
        BY DEF PassInv
    <2>4. /\ Cardinality(progress \ {"metadata"}) \in Nat
          /\ Cardinality(progress \ {"metadata"}) <= 6
        <3>1. IsFiniteSet(progress \ {"metadata"}) /\ Cardinality(later) \in Nat
            BY <2>2, <2>3, FS_Subset, FS_CardinalityType
        <3>2. Cardinality(progress \ {"metadata"}) <= Cardinality(later)
            BY <2>2, <2>3, FS_Subset
        <3>3. Cardinality(progress \ {"metadata"}) \in Nat
            BY <3>1, FS_CardinalityType
        <3> HIDE DEF later
        <3> QED BY <2>2, <3>1, <3>2, <3>3
    <2>5. Completion \in {0, 1}
        BY <2>4 DEF Completion
    <2> QED BY <2>5 DEF Lifecycle
<1>3. /\ Cardinality(Endorsements) \in Nat
      /\ Cardinality({endorsed[r] : r \in Endorsements}) \in Nat
      /\ Cardinality({endorsed[r] : r \in Endorsements}) <= Cardinality(Endorsements)
    <2> DEFINE said == {endorsed[r] : r \in Endorsements}
               says == [r \in Endorsements |-> endorsed[r]]
    <2>1. says \in Surjection(Endorsements, said)
        BY DEF Surjection
    <2>2. IsFiniteSet(Endorsements)
        BY DEF PassInv
    <2>3. IsFiniteSet(said) /\ Cardinality(said) <= Cardinality(Endorsements)
        <3> HIDE DEF says, said
        <3> QED BY <2>1, <2>2, FS_Surjection
    <2>4. Cardinality(said) \in Nat
        <3> HIDE DEF says, said
        <3> QED BY <2>3, FS_CardinalityType
    <2>5. Cardinality(Endorsements) \in Nat
        BY <2>2, FS_CardinalityType
    <2> QED BY <2>3, <2>4, <2>5
<1>4. /\ Cardinality(Disputes(Lanes)) \in Nat /\ Cardinality(Settled(Lanes)) \in Nat
    <2>1. Disputes(Lanes) \in SUBSET (1..Len(thread)) /\ Settled(Lanes) \in SUBSET (1..Len(thread))
        BY DEF Disputes, Settled, PostsOf, Shown, PassInv
    <2>2. IsFiniteSet(1..Len(thread))
        <3>1. Len(thread) \in Nat
            BY DEF PassInv
        <3> QED BY <3>1, FirstNumbers
    <2>3. IsFiniteSet(Disputes(Lanes)) /\ IsFiniteSet(Settled(Lanes))
        BY <2>1, <2>2, FS_Subset
    <2> QED BY <2>3, FS_CardinalityType
<1>5. Inputs(onPage) \in LaneInputs
    BY <1>1, <1>2, <1>3, <1>4 DEF Inputs, LaneInputs, Done, HasMetadata
<1> QED BY <1>2, <1>3, <1>5 DEF Inputs

\* What the timeline is to the provenance lane: its state is the same without it.
LEMMA ProvenanceState ==
    ASSUME NEW in \in LaneInputs, in.lifecycle = 0
    PROVE  Evaluate(ProvenanceChecks(in), FALSE).state =
               IF ~in.version THEN "absent" ELSE IF in.html THEN "strong" ELSE "partial"
<1> DEFINE checks == ProvenanceChecks(in)
           failed == WithStatus(checks, {"fail"})
           fails == {checks[i].severity : i \in failed}
           possible == Total(Weights(checks), Applicable(checks))
           scanned == ApplicableSeen(checks)
           positive == Total(Credits(checks), scanned)
           score == Percent(positive, 24 * possible)
           confidence == Percent(Total(Weights(checks), scanned), possible)
<1>1. in.version \in BOOLEAN /\ in.html \in BOOLEAN /\ in.timed \in BOOLEAN
    BY DEF LaneInputs
<1>2. Evaluate(checks, FALSE).state =
          IF Applicable(checks) = {} THEN "strong"
          ELSE State(scanned, FALSE, "high" \in fails, score, confidence)
    BY DEF Evaluate, Verdict, ApplicableSeen
<1>3. /\ DOMAIN checks = 1..5
      /\ checks[1] = Bool(30, "high", in.version) /\ checks[2] = Bool(25, "high", in.version)
      /\ checks[3] = Bool(20, "medium", in.html) /\ checks[4] = Bool(15, "medium", in.version)
      /\ checks[5] = IF in.timed THEN Coverage(10, "low", 0) ELSE Pending(10, "low")
    BY DEF ProvenanceChecks, LifecycleCheck
<1> HIDE DEF checks
<1>4. /\ checks[1].status = (IF in.version THEN "pass" ELSE "fail") /\ checks[1].severity = "high"
      /\ checks[1].weight = 30 /\ checks[1].value = (IF in.version THEN 24 ELSE 0)
    BY <1>1, <1>3, BoolIs DEF CheckWeights, Severities
<1>5. /\ checks[2].status = (IF in.version THEN "pass" ELSE "fail") /\ checks[2].severity = "high"
      /\ checks[2].weight = 25 /\ checks[2].value = (IF in.version THEN 24 ELSE 0)
    BY <1>1, <1>3, BoolIs DEF CheckWeights, Severities
<1>6. /\ checks[3].status = (IF in.html THEN "pass" ELSE "fail") /\ checks[3].severity = "medium"
      /\ checks[3].weight = 20 /\ checks[3].value = (IF in.html THEN 24 ELSE 0)
    BY <1>1, <1>3, BoolIs DEF CheckWeights, Severities
<1>7. /\ checks[4].status = (IF in.version THEN "pass" ELSE "fail")
      /\ checks[4].severity = "medium"
      /\ checks[4].weight = 15 /\ checks[4].value = (IF in.version THEN 24 ELSE 0)
    BY <1>1, <1>3, BoolIs DEF CheckWeights, Severities
<1>8. /\ checks[5].status = (IF in.timed THEN "fail" ELSE "pending")
      /\ checks[5].severity = "low" /\ checks[5].weight = 10 /\ checks[5].value = 0
    <2>1. CASE in.timed
        BY <1>3, <2>1, CoverageIs DEF CheckWeights, Severities
    <2>2. CASE ~in.timed
        BY <1>3, <2>2, PendingIs DEF CheckWeights, Severities
    <2> QED BY <2>1, <2>2
<1>9. Applicable(checks) = 1..5 /\ scanned = IF in.timed THEN 1..5 ELSE 1..4
    BY <1>1, <1>3, <1>4, <1>5, <1>6, <1>7, <1>8 DEF Applicable, ApplicableSeen, WithStatus
<1>10. "high" \in fails <=> ~in.version
    <2>1. in.version => \A i \in failed : i \in {3, 5}
        <3>1. SUFFICES ASSUME in.version, NEW i \in failed PROVE i \in {3, 5}
            OBVIOUS
        <3>2. i \in 1..5 /\ checks[i].status = "fail"
            BY <1>3, <3>1 DEF WithStatus
        <3> QED BY <1>4, <1>5, <1>7, <3>1, <3>2
    <2>2. in.version => "high" \notin fails
        BY <1>6, <1>8, <2>1
    <2>3. ~in.version => 1 \in failed
        BY <1>3, <1>4 DEF WithStatus
    <2> QED BY <1>4, <2>2, <2>3
<1>11. /\ Weights(checks)[1] = 30 /\ Weights(checks)[2] = 25 /\ Weights(checks)[3] = 20
       /\ Weights(checks)[4] = 15 /\ Weights(checks)[5] = 10
    BY <1>3, <1>4, <1>5, <1>6, <1>7, <1>8 DEF Weights
<1>12. /\ Credits(checks)[1] = (IF in.version THEN 720 ELSE 0)
       /\ Credits(checks)[2] = (IF in.version THEN 600 ELSE 0)
       /\ Credits(checks)[3] = (IF in.html THEN 480 ELSE 0)
       /\ Credits(checks)[4] = (IF in.version THEN 360 ELSE 0)
       /\ Credits(checks)[5] = 0
    BY <1>3, <1>4, <1>5, <1>6, <1>7, <1>8 DEF Credits
<1>13. possible = 100
    BY <1>9, <1>11 DEF Total
<1>14. confidence \in {90, 100}
    <2>1. Total(Weights(checks), scanned) = IF in.timed THEN 100 ELSE 90
        <3>1. CASE in.timed
            BY <1>9, <1>11, <3>1 DEF Total
        <3>2. CASE ~in.timed
            BY <1>9, <1>11, <3>2 DEF Total
        <3> QED BY <3>1, <3>2
    <2>2. Percent(100, 100) = 100 /\ Percent(90, 100) = 90
        BY DEF Percent
    <2> HIDE DEF possible, scanned
    <2> QED BY <1>13, <2>1, <2>2
<1>15. positive = (IF in.version THEN 1680 ELSE 0) + (IF in.html THEN 480 ELSE 0)
    <2>1. CASE in.timed
        BY <1>1, <1>9, <1>12, <2>1 DEF Total
    <2>2. CASE ~in.timed
        BY <1>1, <1>9, <1>12, <2>2 DEF Total
    <2> QED BY <2>1, <2>2
<1>16. score = (IF in.version THEN 70 ELSE 0) + (IF in.html THEN 20 ELSE 0)
    <2>1. /\ Percent(2160, 2400) = 90 /\ Percent(1680, 2400) = 70
          /\ Percent(480, 2400) = 20 /\ Percent(0, 2400) = 0
        BY DEF Percent
    <2>2. score = Percent(positive, 2400)
        BY <1>13
    <2> HIDE DEF positive, score
    <2> QED BY <1>1, <1>15, <2>1, <2>2
<1>17. scanned # {} /\ Applicable(checks) # {}
    BY <1>9
<1>18. PICK n \in {0, 20, 70, 90}, sure \in {90, 100} :
           /\ n = score /\ sure = confidence
           /\ in.version => n = IF in.html THEN 90 ELSE 70
           /\ ~in.version => n \in {0, 20}
    <2> HIDE DEF score, confidence
    <2> QED BY <1>1, <1>14, <1>16
<1> HIDE DEF score, confidence, fails, scanned
<1>19. CASE in.version
    <2>1. Evaluate(checks, FALSE).state = State(scanned, FALSE, FALSE, n, sure)
        <3>1. ("high" \in fails) = FALSE
            BY <1>10, <1>19
        <3>2. Evaluate(checks, FALSE).state = State(scanned, FALSE, "high" \in fails, n, sure)
            BY <1>2, <1>17, <1>18
        <3> QED BY <3>1, <3>2
    <2>2. State(scanned, FALSE, FALSE, n, sure) = IF in.html THEN "strong" ELSE "partial"
        BY <1>1, <1>17, <1>18, <1>19 DEF State
    <2> QED BY <1>19, <2>1, <2>2 DEF checks
<1>20. CASE ~in.version
    <2>1. Evaluate(checks, FALSE).state = State(scanned, FALSE, TRUE, n, sure)
        BY <1>2, <1>10, <1>17, <1>18, <1>20
    <2>2. State(scanned, FALSE, TRUE, n, sure) = "absent"
        BY <1>17, <1>18, <1>20 DEF State
    <2> QED BY <1>20, <2>1, <2>2 DEF checks
<1> QED BY <1>19, <1>20

\* What each lane checks.
LEMMA ChecksOfLanes ==
    ASSUME NEW in
    PROVE  /\ LaneChecks("transparency", in) = TransparencyChecks(in)
           /\ LaneChecks("identity", in) = IdentityChecks(in)
           /\ LaneChecks("provenance", in) = ProvenanceChecks(in)
           /\ LaneChecks("citations", in) = CitationChecks(in)
           /\ LaneChecks("math", in) = MathChecks(in)
           /\ LaneChecks("integrity", in) = IntegrityChecks(in)
           /\ LaneChecks("socialReview", in) = SocialChecks(in)
BY Zenon DEF LaneChecks

\* Lanes of either reading are explained, but for the timeline.
LEMMA TrustIsExplained ==
    ASSUME PassInv, NEW l \in Lanes
    PROVE  /\ Trust(l, Inputs(FALSE)).actions \in Nat /\ Trust(l, Inputs(FALSE)).issue \in 0..3
           /\ Trust(l, Inputs(FALSE)).state \in DOMAIN StatusFor
           /\ Trust(l, Inputs(FALSE)).state # "strong" =>
                  Trust(l, Inputs(FALSE)).issue > 0 /\ Trust(l, Inputs(FALSE)).actions > 0
<1>1. PICK in \in LaneInputs : in = Inputs(FALSE) /\ ~in.timed /\ in.verbs <= in.endorsements
    BY InputsFit
<1>2. PICK checks : checks = LaneChecks(l, in)
    OBVIOUS
<1>3. PICK empty \in BOOLEAN :
          empty <=> l = "socialReview" /\ in.endorsements = 0 /\ in.disputes = 0
    OBVIOUS
<1>4. Sound(checks)
    <2>1. CASE l = "transparency"
        BY <1>2, <2>1, ChecksOfLanes, TransparencySound
    <2>2. CASE l = "identity"
        <3>1. checks = IdentityChecks(in)
            BY <1>2, <2>2, ChecksOfLanes
        <3> QED BY <3>1, IdentitySound
    <2>3. CASE l = "provenance"
        <3>1. checks = ProvenanceChecks(in)
            BY <1>2, <2>3, ChecksOfLanes
        <3> QED BY <1>1, <3>1, ProvenanceSound
    <2>4. CASE l = "citations"
        <3>1. checks = CitationChecks(in)
            BY <1>2, <2>4, ChecksOfLanes
        <3> QED BY <3>1, CitationsSound
    <2>5. CASE l = "math"
        <3>1. checks = MathChecks(in)
            BY <1>2, <2>5, ChecksOfLanes
        <3> QED BY <3>1, MathSound
    <2>6. CASE l = "integrity"
        <3>1. checks = IntegrityChecks(in)
            BY <1>2, <2>6, ChecksOfLanes
        <3> QED BY <3>1, IntegritySound
    <2>7. CASE l = "socialReview"
        <3>1. checks = SocialChecks(in)
            BY <1>2, <2>7, ChecksOfLanes
        <3> QED BY <1>1, <3>1, SocialSound
    <2> QED BY <2>1, <2>2, <2>3, <2>4, <2>5, <2>6, <2>7 DEF Lanes
<1>5. Trust(l, in) = Evaluate(checks, empty)
    <2>1. (l = "socialReview" /\ in.endorsements = 0 /\ in.disputes = 0) = empty
        BY <1>3
    <2> QED BY <1>2, <2>1 DEF Trust
<1>6. /\ Evaluate(checks, empty).actions \in Nat /\ Evaluate(checks, empty).issue \in 0..3
      /\ Evaluate(checks, empty).state \in DOMAIN StatusFor
      /\ Evaluate(checks, empty).state # "strong" =>
             Evaluate(checks, empty).issue > 0 /\ Evaluate(checks, empty).actions > 0
    BY <1>4, LaneIsExplained DEF Sound
<1> QED BY <1>1, <1>5, <1>6

\* The posts a lane is read with.
LEMMA RaisedIsUnsettled ==
    ASSUME NEW l
    PROVE  Raised({l}) \subseteq Unsettled({l})
BY DEF Raised, Unsettled, Settled

\* Colours of the signed passport.
LEMMA ColourIs ==
    ASSUME NEW computed, computed.state \in DOMAIN StatusFor
    PROVE  /\ StatusFor[computed.state] \in {"green", "yellow", "red", "pending"}
           /\ StatusFor[computed.state] = "green" => computed.state = "strong"
           /\ StatusFor[computed.state] = "pending" => computed.state = "pending"
BY DEF StatusFor

\* No lane is another colour than green without a reason and something to do.
LEMMA SignedIsExplained ==
    ASSUME PassInv
    PROVE  NotGreenIsExplained
<1>1. SUFFICES ASSUME NEW l \in Lanes, SignedLane(l).status # "green"
               PROVE  SignedLane(l).issue > 0 /\ SignedLane(l).actions > 0
    BY DEF NotGreenIsExplained, SignedPassport
<1>2. PICK computed : computed = Trust(l, Inputs(FALSE))
    OBVIOUS
<1>3. /\ computed.actions \in Nat /\ computed.issue \in 0..3
      /\ computed.state \in DOMAIN StatusFor
      /\ computed.state # "strong" => computed.issue > 0 /\ computed.actions > 0
    BY <1>2, TrustIsExplained
<1>4. PICK colour \in {"green", "yellow", "red", "pending"} :
          /\ colour = StatusFor[computed.state]
          /\ colour # "green" => computed.issue > 0 /\ computed.actions > 0
    <2>1. StatusFor[computed.state] # "green" => computed.state # "strong"
        BY DEF StatusFor
    <2> QED BY <1>3, <2>1, ColourIs
<1>5. PICK raised \in BOOLEAN, unsettled \in BOOLEAN, vouched \in BOOLEAN :
          SignedLane(l) = Longitudinal(computed, colour, raised, unsettled, vouched)
    <2>1. SignedLane(l) = Signed(l, computed, colour)
        BY <1>2, <1>4 DEF SignedLane
    <2>2. SignedLane(l) = Longitudinal(computed, colour, Raised({l}) # {}, Unsettled({l}) # {},
                                       Vouched({l}) # {})
        BY <2>1 DEF Signed
    <2>3. /\ (Raised({l}) # {}) \in BOOLEAN /\ (Unsettled({l}) # {}) \in BOOLEAN
          /\ (Vouched({l}) # {}) \in BOOLEAN
        OBVIOUS
    <2> QED BY ONLY <2>2, <2>3
<1>6. CASE raised
    BY <1>3, <1>5, <1>6 DEF Longitudinal
<1>7. CASE ~raised /\ unsettled
    BY <1>3, <1>5, <1>7 DEF Longitudinal, Worst
<1>8. CASE ~raised /\ ~unsettled
    BY <1>1, <1>3, <1>4, <1>5, <1>8 DEF Longitudinal, Worst
<1> QED BY <1>6, <1>7, <1>8

\* Both readings of a lane agree in colour.
LEMMA SameColour ==
    ASSUME PassInv, NEW l \in Lanes
    PROVE  Trust(l, Inputs(TRUE)).state = Trust(l, Inputs(FALSE)).state
<1>1. PICK on \in LaneInputs, off \in LaneInputs :
          /\ on = Inputs(TRUE) /\ off = Inputs(FALSE)
          /\ on.lifecycle = 0 /\ off.lifecycle = 0
    BY InputsFit
<1>2. /\ on.filled = off.filled /\ on.ai = off.ai /\ on.models = off.models
      /\ on.human = off.human /\ on.orcids = off.orcids /\ on.identified = off.identified
      /\ on.authors = off.authors /\ on.version = off.version /\ on.html = off.html
      /\ on.lifecycle = off.lifecycle /\ on.text = off.text /\ on.section = off.section
      /\ on.markers = off.markers /\ on.entries = off.entries /\ on.resolved = off.resolved
      /\ on.byCategory = off.byCategory /\ on.formulas = off.formulas /\ on.cues = off.cues
      /\ on.endorsements = off.endorsements /\ on.verbs = off.verbs /\ on.disputes = off.disputes
      /\ on.settled = off.settled
    BY <1>1 DEF Inputs
<1>3. CASE l = "provenance"
    <2>1. LaneChecks(l, on) = ProvenanceChecks(on) /\ LaneChecks(l, off) = ProvenanceChecks(off)
        BY <1>3, ChecksOfLanes
    <2>2. (l = "socialReview") = FALSE
        BY <1>3
    <2>3. /\ Trust(l, on) = Evaluate(ProvenanceChecks(on), FALSE)
          /\ Trust(l, off) = Evaluate(ProvenanceChecks(off), FALSE)
        BY <2>1, <2>2 DEF Trust
    <2>4. on.version = off.version /\ on.html = off.html
        BY <1>2 DEF LaneInputs
    <2> QED BY <1>1, <2>3, <2>4, ProvenanceState
<1>4. CASE l # "provenance"
    <2>1. LaneChecks(l, on) = LaneChecks(l, off)
        <3>1. CASE l = "transparency"
            <4>1. TransparencyChecks(on) = TransparencyChecks(off)
                BY <1>2 DEF TransparencyChecks, LaneInputs
            <4> QED BY <3>1, <4>1, ChecksOfLanes
        <3>2. CASE l = "identity"
            <4>1. IdentityChecks(on) = IdentityChecks(off)
                BY <1>2 DEF IdentityChecks, LaneInputs
            <4> QED BY <3>2, <4>1, ChecksOfLanes
        <3>3. CASE l = "citations"
            <4>1. CitationChecks(on) = CitationChecks(off)
                BY <1>2 DEF CitationChecks, LaneInputs
            <4> QED BY <3>3, <4>1, ChecksOfLanes
        <3>4. CASE l = "math"
            <4>1. MathChecks(on) = MathChecks(off)
                BY <1>2 DEF MathChecks, LaneInputs
            <4> QED BY <3>4, <4>1, ChecksOfLanes
        <3>5. CASE l = "integrity"
            <4>1. IntegrityChecks(on) = IntegrityChecks(off)
                BY <1>2 DEF IntegrityChecks, LaneInputs
            <4> QED BY <3>5, <4>1, ChecksOfLanes
        <3>6. CASE l = "socialReview"
            <4>1. SocialChecks(on) = SocialChecks(off)
                BY <1>2 DEF SocialChecks, LaneInputs
            <4> QED BY <3>6, <4>1, ChecksOfLanes
        <3> QED BY <1>4, <3>1, <3>2, <3>3, <3>4, <3>5, <3>6 DEF Lanes
    <2>2. on.endorsements = off.endorsements /\ on.disputes = off.disputes
        BY <1>2 DEF LaneInputs
    <2>3. Trust(l, on) = Trust(l, off)
        BY <2>1, <2>2 DEF Trust
    <2> QED BY <1>1, <2>3
<1> QED BY <1>3, <1>4

\* The page and the passport agree where nobody disputes or vouches.
LEMMA PageAgrees ==
    ASSUME PassInv
    PROVE  PageMatchesPassport
<1>1. SUFFICES ASSUME NEW l \in Lanes, Unsettled({l}) \cup Vouched({l}) = {}
               PROVE  SignedLane(l).status = StatusFor[Trust(l, Inputs(TRUE)).state]
    BY DEF PageMatchesPassport
<1>2. PICK computed, colour : /\ computed = Trust(l, Inputs(FALSE))
                              /\ colour = StatusFor[computed.state]
    OBVIOUS
<1>3. SignedLane(l) = Longitudinal(computed, colour, Raised({l}) # {}, Unsettled({l}) # {},
                                   Vouched({l}) # {})
    BY <1>2 DEF SignedLane, Signed
<1>4. /\ (Raised({l}) # {}) = FALSE /\ (Unsettled({l}) # {}) = FALSE
      /\ (Vouched({l}) # {}) = FALSE
    BY <1>1, RaisedIsUnsettled
<1>5. SignedLane(l) = Longitudinal(computed, colour, FALSE, FALSE, FALSE)
    BY <1>3, <1>4
<1>6. SignedLane(l).status = colour
    BY <1>5 DEF Longitudinal
<1> QED BY <1>2, <1>6, SameColour

\* What happens to a paper keeps its posts and endorsements what they are.
LEMMA PassStep ==
    ASSUME PassInv, [PassportNext]_passVars
    PROVE  PassInv'
<1>1. /\ paper \in Papers /\ progress \in SUBSET Stages
      /\ endorsed \in [Readers -> Verbs \cup {NoVerb}] /\ IsFiniteSet(Endorsements)
      /\ thread \in Seq(ThreadPosts)
    BY DEF PassInv
<1>2. ASSUME NEW s \in Stages, Advance(s) PROVE PassInv'
    BY <1>1, <1>2 DEF Advance, PassInv, Endorsements
<1>3. ASSUME NEW r \in Readers, NEW v \in Verbs \cup {NoVerb},
             endorsed' = [endorsed EXCEPT ![r] = v], UNCHANGED <<paper, progress, thread>>
      PROVE  PassInv'
    <2>1. Endorsements' \in SUBSET (Endorsements \cup {r})
        BY <1>1, <1>3 DEF Endorsements
    <2>2. IsFiniteSet(Endorsements \cup {r})
        BY <1>1, FS_AddElement
    <2>3. IsFiniteSet(Endorsements')
        BY <2>1, <2>2, FS_Subset
    <2>4. endorsed' \in [Readers -> Verbs \cup {NoVerb}]
        BY <1>1, <1>3
    <2> QED BY <1>1, <1>3, <2>3, <2>4 DEF PassInv
<1>4. ASSUME NEW r \in Readers, NEW v \in Verbs, Endorse(r, v) PROVE PassInv'
    BY <1>3, <1>4 DEF Endorse
<1>5. ASSUME NEW r \in Readers, Withdraw(r) PROVE PassInv'
    BY <1>3, <1>5 DEF Withdraw
<1>6. ASSUME thread' \in Seq(ThreadPosts), UNCHANGED <<paper, progress, endorsed>> PROVE PassInv'
    BY <1>1, <1>6 DEF PassInv, Endorsements
<1>7. ASSUME NEW kind \in {"dispute", "response", "attestation"}, NEW lane \in Lanes,
             NEW b \in BOOLEAN, AddPost(kind, lane, b)
      PROVE  PassInv'
    <2>1. NewPost(kind, lane, b) \in ThreadPosts
        BY DEF NewPost, ThreadPosts
    <2>2. PICK p \in ThreadPosts : p = NewPost(kind, lane, b)
        BY <2>1
    <2>3. thread' = Append(thread, p) /\ UNCHANGED <<paper, progress, endorsed>>
        BY <1>7, <2>2 DEF AddPost
    <2>4. thread' \in Seq(ThreadPosts)
        BY <1>1, <2>3
    <2> QED BY <1>6, <2>3, <2>4
<1>8. ASSUME NEW lane \in Discussed, FileDispute(lane) PROVE PassInv'
    <2>1. lane \in Lanes
        BY PassportAssumption
    <2> QED BY <1>7, <1>8, <2>1 DEF FileDispute
<1>9. ASSUME NEW lane \in Discussed, NEW b \in BOOLEAN, Attest(lane, b) PROVE PassInv'
    <2>1. lane \in Lanes
        BY PassportAssumption
    <2> QED BY <1>7, <1>9, <2>1 DEF Attest
<1>10. ASSUME NEW i \in DOMAIN thread PROVE thread[i] \in ThreadPosts
    BY <1>1, <1>10
<1>11. ASSUME NEW i \in DOMAIN thread, Respond(i) PROVE PassInv'
    <2>1. thread[i].lane \in Lanes
        BY <1>10 DEF ThreadPosts
    <2> QED BY <1>7, <1>11, <2>1 DEF Respond
<1>12. ASSUME NEW i \in DOMAIN thread, HidePost(i) PROVE PassInv'
    <2>1. PICK p : p = [thread[i] EXCEPT !.hidden = ~thread[i].hidden]
        OBVIOUS
    <2>2. p \in ThreadPosts
        <3>1. thread[i] \in ThreadPosts /\ (~thread[i].hidden) \in BOOLEAN
            BY <1>10
        <3> QED BY <2>1, <3>1 DEF ThreadPosts
    <2>3. thread' = [thread EXCEPT ![i] = p] /\ UNCHANGED <<paper, progress, endorsed>>
        BY <1>12, <2>1 DEF HidePost
    <2>4. thread' \in Seq(ThreadPosts)
        BY <1>1, <2>2, <2>3
    <2> QED BY <1>6, <2>3, <2>4
<1>13. ASSUME NEW i \in DOMAIN thread, NEW l \in {"open", "highlighted", "resolved"},
              LabelDispute(i, l)
       PROVE  PassInv'
    <2>1. PICK p : p = [thread[i] EXCEPT !.label = l]
        OBVIOUS
    <2>2. p \in ThreadPosts
        BY <1>10, <2>1 DEF ThreadPosts
    <2>3. thread' = [thread EXCEPT ![i] = p] /\ UNCHANGED <<paper, progress, endorsed>>
        BY <1>13, <2>1 DEF LabelDispute
    <2>4. thread' \in Seq(ThreadPosts)
        BY <1>1, <2>2, <2>3
    <2> QED BY <1>6, <2>3, <2>4
<1>14. CASE UNCHANGED passVars
    BY <1>1, <1>14 DEF passVars, PassInv, Endorsements
<1> QED BY <1>2, <1>4, <1>5, <1>8, <1>9, <1>11, <1>12, <1>13, <1>14 DEF PassportNext

\* No lane of the signed passport is another colour than green without an issue and something
\* to do, and where nobody disputes or vouches the abstract page shows the same colour
\* (trust-passport.ts:255, trust-passport-bundle.ts:414).
THEOREM PassportsExplain == PassportSpec => [](NotGreenIsExplained /\ PageMatchesPassport)
<1>1. PassportInit => PassInv
    <2>1. SUFFICES ASSUME PassportInit PROVE PassInv
        OBVIOUS
    <2>2. Endorsements = {}
        BY <2>1 DEF PassportInit, Endorsements
    <2>3. IsFiniteSet(Endorsements)
        BY <2>2, FS_EmptySet
    <2> QED BY <2>1, <2>3 DEF PassportInit, PassInv
<1>2. PassInv /\ [PassportNext]_passVars => PassInv'
    BY PassStep
<1>3. PassInv => NotGreenIsExplained /\ PageMatchesPassport
    BY SignedIsExplained, PageAgrees
<1> QED BY <1>1, <1>2, <1>3, PTL DEF PassportSpec

-----------------------------------------------------------------------------
(* Passports and their re-runs. *)

\* Posts that a passport may tell.
RerunRows ==
    [id : Nat, kind : EventTypes, lane : AuditedLanes, at : Nat, to : Nat,
     label : {"open", "highlighted", "resolved"}, verified : BOOLEAN, hidden : BOOLEAN]

\* Posts are numbered as they come, and an answer is to an older dispute.
RowsInOrder(all) ==
    /\ all \in Seq(RerunRows)
    /\ \A i \in 1..Len(all) :
        /\ all[i].id = i
        /\ all[i].kind # "attestation" => all[i].at = i
        /\ all[i].kind = "response" => all[i].to \in 1..(i - 1) /\ all[all[i].to].kind = "dispute"
        /\ all[i].kind # "response" => all[i].to = 0

\* What is told of posts is what stays of them: all but the label and whether it is shown.
EventsFit(all, noted) ==
    /\ \A e \in noted :
        /\ e \in RerunRows /\ e.id \in 1..Len(all)
        /\ e.kind = all[e.id].kind /\ e.lane = all[e.id].lane
        /\ e.at = all[e.id].at /\ e.to = all[e.id].to
    /\ \A d, e \in noted : d.id = e.id => d = e

\* Kinds have an order.
LEMMA KindRankIs ==
    ASSUME NEW k \in EventTypes, NEW l \in EventTypes
    PROVE  KindRank[k] \in Nat /\ KindRank[l] \in Nat /\ (KindRank[k] = KindRank[l] => k = l)
BY DEF KindRank, EventTypes

\* Events are in a total order.
LEMMA EarlierOrders ==
    ASSUME NEW d \in RerunRows, NEW e \in RerunRows, NEW f \in RerunRows
    PROVE  /\ ~Earlier(d, d) /\ ~(Earlier(d, e) /\ Earlier(e, d))
           /\ Earlier(d, e) /\ Earlier(e, f) => Earlier(d, f)
           /\ d.id # e.id => Earlier(d, e) \/ Earlier(e, d)
<1>1. /\ d.at \in Nat /\ e.at \in Nat /\ f.at \in Nat
      /\ d.id \in Nat /\ e.id \in Nat /\ f.id \in Nat
      /\ d.kind \in EventTypes /\ e.kind \in EventTypes /\ f.kind \in EventTypes
    BY DEF RerunRows
<1>2. PICK k \in Nat, l \in Nat, m \in Nat :
          /\ k = KindRank[d.kind] /\ l = KindRank[e.kind] /\ m = KindRank[f.kind]
          /\ (k = l => d.kind = e.kind) /\ (l = m => e.kind = f.kind) /\ (k = m => d.kind = f.kind)
    BY <1>1, KindRankIs
<1> QED BY <1>1, <1>2 DEF Earlier

\* Events are as many as their posts at most.
LEMMA EventsFinite ==
    ASSUME NEW all, Len(all) \in Nat, NEW noted, EventsFit(all, noted)
    PROVE  IsFiniteSet(noted) /\ Cardinality(noted) \in Nat
<1> DEFINE number == [e \in noted |-> e.id]
<1>1. number \in Injection(noted, 1..Len(all))
    BY DEF EventsFit, Injection, IsInjective
<1>2. IsFiniteSet(1..Len(all))
    BY FirstNumbers
<1>3. IsFiniteSet(noted)
    <2> HIDE DEF number
    <2> QED BY <1>1, <1>2, FS_Injection
<1> QED BY <1>3, FS_CardinalityType

\* A history of events: each once, in order.
HistoryFits(h, noted) ==
    /\ h \in [1..Cardinality(noted) -> noted]
    /\ \A i, j \in 1..Cardinality(noted) : i < j => Earlier(h[i], h[j])

\* The place of an event: how many are not after it.
LEMMA PlacesDiffer ==
    ASSUME NEW noted, noted \in SUBSET RerunRows, IsFiniteSet(noted),
           \A d, e \in noted : d.id = e.id => d = e,
           NEW upTo, upTo = [e \in noted |-> {d \in noted : d = e \/ Earlier(d, e)}]
    PROVE  /\ \A e \in noted : Cardinality(upTo[e]) \in 1..Cardinality(noted)
           /\ \A d, e \in noted : Earlier(d, e) => Cardinality(upTo[d]) < Cardinality(upTo[e])
<1>1. ASSUME NEW e \in noted
      PROVE  /\ upTo[e] \in SUBSET noted /\ IsFiniteSet(upTo[e]) /\ e \in upTo[e]
             /\ Cardinality(upTo[e]) \in 1..Cardinality(noted)
    <2>1. upTo[e] \in SUBSET noted /\ e \in upTo[e]
        OBVIOUS
    <2>2. IsFiniteSet(upTo[e]) /\ Cardinality(upTo[e]) <= Cardinality(noted)
        BY <2>1, FS_Subset
    <2>3. Cardinality(upTo[e]) \in Nat /\ Cardinality(noted) \in Nat
        BY <2>2, FS_CardinalityType
    <2>4. Cardinality(upTo[e]) # 0
        BY <2>1, <2>2, FS_EmptySet
    <2> QED BY <2>1, <2>2, <2>3, <2>4
<1>2. ASSUME NEW d \in noted, NEW e \in noted, Earlier(d, e)
      PROVE  Cardinality(upTo[d]) < Cardinality(upTo[e])
    <2>1. upTo[d] \subseteq upTo[e]
        <3>1. SUFFICES ASSUME NEW f \in upTo[d] PROVE f \in upTo[e]
            OBVIOUS
        <3>2. f \in noted /\ (f = d \/ Earlier(f, d))
            BY <3>1
        <3>3. Earlier(f, e)
            BY <1>2, <3>2, EarlierOrders
        <3> QED BY <3>2, <3>3
    <2>2. e \notin upTo[d]
        <3>1. d \in RerunRows /\ e \in RerunRows
            OBVIOUS
        <3>2. e # d /\ ~Earlier(e, d)
            BY <1>2, <3>1, EarlierOrders
        <3> QED BY <3>2
    <2>3. upTo[d] \in SUBSET upTo[e] /\ upTo[d] # upTo[e]
        BY <1>1, <2>1, <2>2
    <2>4. /\ Cardinality(upTo[d]) <= Cardinality(upTo[e])
          /\ Cardinality(upTo[d]) = Cardinality(upTo[e]) => upTo[d] = upTo[e]
        BY <1>1, <2>3, FS_Subset
    <2>5. Cardinality(upTo[d]) \in Nat /\ Cardinality(upTo[e]) \in Nat
        BY <1>1, FS_CardinalityType
    <2> QED BY <2>3, <2>4, <2>5
<1> QED BY <1>1, <1>2

\* Events have a history.
LEMMA HistoryIs ==
    ASSUME NEW all, Len(all) \in Nat, NEW noted, EventsFit(all, noted)
    PROVE  HistoryFits(History(noted), noted)
<1>1. /\ IsFiniteSet(noted) /\ Cardinality(noted) \in Nat /\ noted \in SUBSET RerunRows
      /\ \A d, e \in noted : d.id = e.id => d = e
    BY EventsFinite DEF EventsFit
<1>2. PICK n \in Nat : n = Cardinality(noted)
    BY <1>1
<1>3. PICK upTo : upTo = [e \in noted |-> {d \in noted : d = e \/ Earlier(d, e)}]
    OBVIOUS
<1>4. /\ \A e \in noted : Cardinality(upTo[e]) \in 1..n
      /\ \A d, e \in noted : Earlier(d, e) => Cardinality(upTo[d]) < Cardinality(upTo[e])
    BY <1>1, <1>2, <1>3, PlacesDiffer
<1> DEFINE place == [e \in noted |-> Cardinality(upTo[e])]
<1>5. place \in [noted -> 1..n] /\ \A d, e \in noted : Earlier(d, e) => place[d] < place[e]
    BY <1>4
<1> HIDE DEF place
<1>6. place \in Injection(noted, 1..n)
    <2>1. ASSUME NEW d \in noted, NEW e \in noted, d # e PROVE place[d] # place[e]
        <3>1. Earlier(d, e) \/ Earlier(e, d)
            BY <1>1, <2>1, EarlierOrders
        <3>2. place[d] \in Nat /\ place[e] \in Nat
            BY <1>5
        <3> QED BY <1>5, <3>1, <3>2
    <2> QED BY <1>5, <2>1 DEF Injection, IsInjective
<1>7. IsFiniteSet(1..n) /\ Cardinality(1..n) = n
    BY <1>2, FirstNumbers
<1>8. place \in Surjection(noted, 1..n)
    BY <1>2, <1>6, <1>7, FS_Injection
<1>9. \A k \in 1..n : \E e \in noted : place[e] = k
    BY <1>8 DEF Surjection
<1> DEFINE told == [k \in 1..n |-> CHOOSE e \in noted : place[e] = k]
<1>10. \A k \in 1..n : told[k] \in noted /\ place[told[k]] = k
    BY <1>9
<1>11. told \in [1..n -> noted]
    BY <1>10
<1> HIDE DEF told
<1>12. ASSUME NEW i \in 1..n, NEW j \in 1..n, i < j PROVE Earlier(told[i], told[j])
    <2>1. PICK d \in noted, e \in noted :
              d = told[i] /\ e = told[j] /\ place[d] = i /\ place[e] = j
        BY <1>10
    <2>2. d # e
        BY <1>12, <2>1
    <2>3. Earlier(d, e) \/ Earlier(e, d)
        BY <1>1, <2>2, EarlierOrders
    <2>4. ~Earlier(e, d)
        BY <1>5, <1>12, <2>1
    <2> QED BY <2>1, <2>3, <2>4
<1>13. \E h \in [1..n -> noted] : \A i, j \in DOMAIN h : i < j => Earlier(h[i], h[j])
    <2>1. DOMAIN told = 1..n
        BY <1>11
    <2> QED BY <1>11, <1>12, <2>1
<1>14. PICK h : /\ h = History(noted) /\ h \in [1..n -> noted]
                /\ \A i, j \in DOMAIN h : i < j => Earlier(h[i], h[j])
    BY <1>2, <1>13 DEF History
<1>15. DOMAIN h = 1..n
    BY <1>14
<1> QED BY <1>2, <1>14, <1>15 DEF HistoryFits

\* A history tells every event.
LEMMA HistoryTells ==
    ASSUME NEW all, Len(all) \in Nat, NEW noted, EventsFit(all, noted),
           NEW h, HistoryFits(h, noted), NEW e \in noted
    PROVE  \E i \in 1..Cardinality(noted) : h[i] = e
<1>1. IsFiniteSet(noted) /\ Cardinality(noted) \in Nat /\ noted \in SUBSET RerunRows
    BY EventsFinite DEF EventsFit
<1>2. PICK n \in Nat : n = Cardinality(noted)
    BY <1>1
<1>3. h \in [1..n -> noted] /\ \A i, j \in 1..n : i < j => Earlier(h[i], h[j])
    BY <1>2 DEF HistoryFits
<1>4. h \in Injection(1..n, noted)
    <2>1. ASSUME NEW i \in 1..n, NEW j \in 1..n, i # j PROVE h[i] # h[j]
        <3>1. h[i] \in RerunRows /\ h[j] \in RerunRows
            BY <1>1, <1>3
        <3>2. ~Earlier(h[i], h[i]) /\ ~Earlier(h[j], h[j])
            BY <3>1, EarlierOrders
        <3>3. i < j \/ j < i
            BY <2>1
        <3> QED BY <1>3, <3>2, <3>3
    <2> QED BY <1>3, <2>1 DEF Injection, IsInjective
<1>5. IsFiniteSet(1..n) /\ Cardinality(1..n) = n
    BY <1>2, FirstNumbers
<1>6. h \in Surjection(1..n, noted)
    BY <1>1, <1>2, <1>4, <1>5, FS_Injection
<1> QED BY <1>2, <1>6 DEF Surjection

\* Some of the events.
LEMMA SomeFit ==
    ASSUME NEW all, NEW noted, EventsFit(all, noted), NEW some \in SUBSET noted
    PROVE  EventsFit(all, some)
BY DEF EventsFit

\* The last time of events is of the last of them.
LEMMA LatestIs ==
    ASSUME NEW all, Len(all) \in Nat, NEW noted, EventsFit(all, noted), noted # {}
    PROVE  \A e \in noted : e.at <= LatestAt(noted)
<1>1. PICK h : HistoryFits(h, noted)
    BY HistoryIs
<1>2. Cardinality(noted) \in Nat /\ IsFiniteSet(noted) /\ noted \in SUBSET RerunRows
    BY EventsFinite DEF EventsFit
<1>3. PICK n \in Nat : n = Cardinality(noted) /\ n # 0
    BY <1>2, FS_EmptySet
<1>4. PICK last \in noted : last = h[n]
    <2>1. n \in 1..n /\ h \in [1..n -> noted]
        BY <1>1, <1>3 DEF HistoryFits
    <2> QED BY <2>1
<1>5. ASSUME NEW e \in noted PROVE e.at <= last.at
    <2>1. PICK i \in 1..n : h[i] = e
        BY <1>1, <1>3, HistoryTells
    <2>2. i = n \/ Earlier(e, last)
        BY <1>1, <1>3, <1>4, <2>1 DEF HistoryFits
    <2>3. e.at \in Nat /\ last.at \in Nat
        BY <1>2, <1>4 DEF RerunRows
    <2>4. Earlier(e, last) => e.at <= last.at
        BY <2>3 DEF Earlier
    <2> QED BY <1>4, <2>1, <2>2, <2>3, <2>4
<1>6. \E t \in {e.at : e \in noted} : \A e \in noted : e.at <= t
    BY <1>4, <1>5
<1> QED BY <1>6 DEF LatestAt

\* A verdict on checks, whatever they are.
LEMMA EvaluateType ==
    ASSUME NEW checks, NEW empty \in BOOLEAN
    PROVE  /\ Evaluate(checks, empty).issue \in 0..3
           /\ Evaluate(checks, empty).state \in DOMAIN StatusFor
<1> DEFINE failed == WithStatus(checks, {"fail"})
           fails == {checks[i].severity : i \in failed}
           possible == Total(Weights(checks), Applicable(checks))
           positive == Total(Credits(checks), ApplicableSeen(checks))
           score == Percent(positive, 24 * possible)
           confidence == Percent(Total(Weights(checks), ApplicableSeen(checks)), possible)
<1>1. /\ Evaluate(checks, empty).issue = IssueLevel("high" \in fails, "medium" \in fails,
                                                    WithStatus(checks, {"pending"}))
      /\ Evaluate(checks, empty).state =
             IF Applicable(checks) = {} THEN "strong"
             ELSE State(ApplicableSeen(checks), empty /\ positive = 0, "high" \in fails,
                        score, confidence)
    BY DEF Evaluate, Verdict, ApplicableSeen
<1> QED BY <1>1 DEF IssueLevel, State, StatusFor

\* What the lanes of a passport say of its events.
LanesTell(lanes, noted) ==
    \A l \in AuditedLanes :
        /\ lanes[l].summary.last = LatestAt({e \in noted : e.lane = l})
        /\ OpenOf(noted, l) # {} =>
            /\ lanes[l].signed.status \in {"yellow", "red"} /\ lanes[l].signed.issue >= 2
            /\ lanes[l].summary.topAction
            /\ lanes[l].summary.unresolved = Cardinality(OpenOf(noted, l))

\* Lanes tell of the disputes that are open.
LEMMA LanesFromTell ==
    ASSUME NEW sections, NEW best, NEW found
    PROVE  LanesTell(LanesFrom(sections, best, found), found.events)
<1>1. SUFFICES ASSUME NEW l \in AuditedLanes, NEW lane, lane = LanesFrom(sections, best, found)[l]
               PROVE  /\ lane.summary.last = LatestAt({e \in found.events : e.lane = l})
                      /\ OpenOf(found.events, l) # {} =>
                          /\ lane.signed.status \in {"yellow", "red"} /\ lane.signed.issue >= 2
                          /\ lane.summary.topAction
                          /\ lane.summary.unresolved = Cardinality(OpenOf(found.events, l))
    BY DEF LanesTell
<1>2. PICK checks, computed, noted :
          /\ checks = TextChecks(l, sections, best) /\ computed = Evaluate(checks, FALSE)
          /\ noted = found.events /\ lane = LaneOf(l, checks, computed, found)
    BY <1>1 DEF LanesFrom
<1>3. computed.issue \in 0..3 /\ computed.state \in DOMAIN StatusFor
    BY <1>2, EvaluateType
<1>4. PICK items : lane.summary = Summary(l, items, computed.actions, noted)
    BY <1>2 DEF LaneOf
<1>5. /\ lane.summary.last = LatestAt({e \in noted : e.lane = l})
      /\ lane.summary.unresolved = Cardinality(OpenOf(noted, l))
    BY <1>4 DEF Summary
<1>6. lane.summary.topAction =
          (OpenOf(noted, l) # {} \/ items.fail + items.pending > 0 \/ computed.actions > 0)
    BY <1>4 DEF Summary
<1>7. ASSUME OpenOf(noted, l) # {}
      PROVE  /\ lane.signed.status \in {"yellow", "red"} /\ lane.signed.issue >= 2
             /\ lane.summary.topAction
    <2>1. PICK colour : colour = StatusFor[computed.state]
        OBVIOUS
    <2>2. PICK raised \in BOOLEAN, vouched \in BOOLEAN :
              lane.signed = Longitudinal(computed, colour, raised, TRUE, vouched)
        <3>1. (OpenOf(noted, l) # {}) = TRUE
            BY <1>7
        <3>2. lane.signed = Longitudinal(computed, StatusFor[computed.state],
                  HighlightedOf(noted, l) # {}, OpenOf(noted, l) # {}, VouchedOf(noted, l) # {})
            BY <1>2 DEF LaneOf
        <3>3. lane.signed = Longitudinal(computed, StatusFor[computed.state],
                  HighlightedOf(noted, l) # {}, TRUE, VouchedOf(noted, l) # {})
            BY <3>1, <3>2
        <3>4. /\ (HighlightedOf(noted, l) # {}) \in BOOLEAN
              /\ (VouchedOf(noted, l) # {}) \in BOOLEAN
            OBVIOUS
        <3> QED BY ONLY <2>1, <3>3, <3>4
    <2>3. colour \in {"green", "yellow", "red", "pending"}
        BY <1>3, <2>1, ColourIs
    <2>4. lane.summary.topAction
        BY ONLY <1>6, <1>7
    <2>5. CASE raised
        <3>1. /\ lane.signed.issue = 3 /\ lane.signed.status = "red"
            BY <2>2, <2>5 DEF Longitudinal
        <3> QED BY <2>4, <3>1
    <2>6. CASE ~raised
        <3>1. /\ lane.signed.issue = Worst(computed.issue, 2)
              /\ lane.signed.status = IF colour \in {"green", "pending"} THEN "yellow" ELSE colour
            BY <2>2, <2>6 DEF Longitudinal
        <3>2. Worst(computed.issue, 2) >= 2
            BY <1>3 DEF Worst
        <3> QED BY <2>3, <2>4, <3>1, <3>2
    <2> QED BY <2>5, <2>6
<1> QED BY <1>2, <1>5, <1>7

\* Posts that are shown, of some kinds.
AllInView(all, kinds) ==
    {all[i] : i \in {j \in DOMAIN all : ~all[j].hidden /\ all[j].kind \in kinds}}

\* A dispute that is told is open.
ToldOf(open, noted) ==
    \A d \in open : \E e \in noted : e.id = d /\ e.kind = "dispute" /\ e.label # "resolved"

\* What a passport says of a paper at rest.
FreshLanes(text, noted) ==
    LanesFrom(text, Best(text, SourceContent),
              [events |-> noted, cited |-> Best(text, SourceContent), body |-> text])

PassportFields ==
    {"on", "lanes", "events", "history", "digest", "key", "sealed", "quiet", "contested", "told"}

\* A passport that was signed, and may be damaged.
PassportFits(p, all, text) ==
    /\ DOMAIN p = PassportFields /\ p.on = TRUE /\ p.sealed \in BOOLEAN /\ p.quiet \in BOOLEAN
    /\ EventsFit(all, p.events)
    /\ p.sealed => /\ p.history = History(p.events) /\ p.digest = Digest(p.lanes, p.events)
                   /\ LanesTell(p.lanes, p.events)
                   /\ p.told => ToldOf(p.contested, p.events)
    /\ ~p.sealed => p.events = {} /\ p.history = <<>>
    /\ p.quiet => /\ p.sealed /\ p.events = AllInView(all, EventTypes)
                  /\ p.lanes = FreshLanes(text, p.events)

KeptFits(p, all, text) ==
    /\ {"on", "quiet"} \subseteq DOMAIN p /\ p.on \in BOOLEAN
    /\ p.on => PassportFits(p, all, text)

\* A passport that is being built.
Builds == [on : BOOLEAN, read : SUBSET (EventTypes \cup {"items"}), events : SUBSET RerunRows,
           cited : Contents \cup {SourceContent}, body : Contents, quiet : BOOLEAN,
           contested : SUBSET Nat, told : BOOLEAN]
BuildFits(b, all, text) ==
    /\ b \in Builds /\ EventsFit(all, b.events)
    /\ \A e \in b.events : e.kind \in b.read
    /\ b.contested \subseteq {e.id : e \in Contested(all)}
    /\ b.told /\ "dispute" \in b.read => ToldOf(b.contested, b.events)
    /\ b.quiet => /\ b.events = AllInView(all, b.read)
                  /\ "items" \in b.read => b.body = text /\ b.cited = Best(text, SourceContent)

RerunInv ==
    /\ RowsInOrder(postRows) /\ indexed \in Contents
    /\ BuildFits(building, postRows, indexed) /\ KeptFits(kept, postRows, indexed)
    /\ UntouchedMatches /\ UnchangedIsSame

\* What is in view are posts.
LEMMA InViewFits ==
    ASSUME NEW all, RowsInOrder(all), NEW kinds, kinds \subseteq EventTypes
    PROVE  /\ AllInView(all, kinds) \in SUBSET RerunRows /\ EventsFit(all, AllInView(all, kinds))
           /\ \A e \in AllInView(all, kinds) : e.kind \in kinds
<1>1. DOMAIN all = 1..Len(all) /\ Len(all) \in Nat
    BY DEF RowsInOrder
<1>2. ASSUME NEW i \in DOMAIN all PROVE all[i] \in RerunRows /\ all[i].id = i /\ i \in 1..Len(all)
    BY <1>1, <1>2 DEF RowsInOrder
<1> QED BY <1>1, <1>2 DEF AllInView, EventsFit

\* What is in view of one kind.
LEMMA InViewIs ==
    ASSUME NEW all, NEW kind
    PROVE  InView(all, kind) = AllInView(all, {kind})
BY DEF InView, AllInView

\* Posts stay what they are, but for labels and whether they are shown.
RowsStay(all, more) ==
    /\ Len(all) <= Len(more)
    /\ \A i \in 1..Len(all) :
        /\ more[i].kind = all[i].kind /\ more[i].lane = all[i].lane
        /\ more[i].at = all[i].at /\ more[i].to = all[i].to

\* Events stay true of them.
LEMMA EventsStay ==
    ASSUME NEW all, NEW more, RowsInOrder(all), RowsInOrder(more), RowsStay(all, more),
           NEW noted, EventsFit(all, noted)
    PROVE  EventsFit(more, noted)
<1>1. Len(all) \in Nat /\ Len(more) \in Nat
    BY DEF RowsInOrder
<1>2. ASSUME NEW e \in noted
      PROVE  /\ e \in RerunRows /\ e.id \in 1..Len(more)
             /\ e.kind = more[e.id].kind /\ e.lane = more[e.id].lane
             /\ e.at = more[e.id].at /\ e.to = more[e.id].to
    BY <1>1 DEF EventsFit, RowsStay
<1> QED BY <1>2 DEF EventsFit

\* Text is in the index, and the evidence is of it or of the source.
LEMMA EvidenceFits ==
    ASSUME indexed \in Contents, NEW ok \in BOOLEAN
    PROVE  /\ SectionsRead(ok) \in Contents /\ Evidence(ok) \in Contents \cup {SourceContent}
           /\ ok => SectionsRead(ok) = indexed /\ Evidence(ok) = Best(indexed, SourceContent)
<1>1. SectionsRead(ok) \in Contents /\ (ok => SectionsRead(ok) = indexed)
    BY RerunAssumption DEF SectionsRead
<1>2. Evidence(ok) = Best(SectionsRead(ok), SourceContent)
    BY DEF Evidence
<1>3. Best(SectionsRead(ok), SourceContent) \in {SectionsRead(ok), SourceContent}
    BY DEF Best
<1> QED BY <1>1, <1>2, <1>3

\* Nothing is being built.
LEMMA NoBuildFits ==
    ASSUME NEW all, NEW text
    PROVE  BuildFits(NoBuild, all, text)
<1>1. NoBuild \in Builds
    BY RerunAssumption DEF NoBuild, Builds
<1>2. EventsFit(all, NoBuild.events)
    BY DEF NoBuild, EventsFit
<1> QED BY <1>1, <1>2 DEF BuildFits, NoBuild

\* A passport is begun.
LEMMA StartBuildFits ==
    ASSUME RerunInv, StartBuild
    PROVE  RerunInv'
<1>1. PICK open : open = {e.id : e \in Contested(postRows)}
    OBVIOUS
<1>2. building' = [NoBuild EXCEPT !.on = TRUE, !.quiet = TRUE, !.told = TRUE, !.contested = open]
    BY <1>1 DEF StartBuild
<1>3. open \in SUBSET Nat
    <2>1. InView(postRows, "dispute") \subseteq RerunRows
        BY InViewIs, InViewFits DEF RerunInv, EventTypes
    <2> QED BY <1>1, <2>1 DEF Contested, RerunRows
<1>4. /\ building'.on = TRUE /\ building'.read = {} /\ building'.events = {}
      /\ building'.contested = open
    BY <1>2 DEF NoBuild
<1>5. building' \in Builds
    BY <1>2, <1>3, RerunAssumption DEF NoBuild, Builds
<1>6. EventsFit(postRows, building'.events) /\ AllInView(postRows, building'.read) = {}
    BY <1>4 DEF EventsFit, AllInView
<1>7. BuildFits(building', postRows, indexed)
    BY <1>1, <1>4, <1>5, <1>6 DEF BuildFits
<1> QED BY <1>7 DEF StartBuild, RerunInv, UntouchedMatches, UnchangedIsSame

\* Posts of a kind are read.
LEMMA ReadPostsFits ==
    ASSUME RerunInv, NEW kind \in EventTypes, NEW ok \in BOOLEAN, ReadPosts(kind, ok)
    PROVE  RerunInv'
<1>1. PICK scanned : scanned = IF ok THEN InView(postRows, kind) ELSE {}
    OBVIOUS
<1>2. PICK read, noted : read = building.read \cup {kind} /\ noted = building.events \cup scanned
    OBVIOUS
<1>3. /\ building \in Builds /\ EventsFit(postRows, building.events)
      /\ \A e \in building.events : e.kind \in building.read
      /\ RowsInOrder(postRows)
    BY DEF RerunInv, BuildFits
<1>4. /\ building'.read = read /\ building'.events = noted
      /\ building'.quiet = (building.quiet /\ ok) /\ building'.body = building.body
      /\ building'.told = (building.told /\ (ok \/ kind # "dispute"))
      /\ building'.cited = building.cited /\ building'.contested = building.contested
      /\ building'.on = building.on
    BY <1>1, <1>2, <1>3 DEF ReadPosts, Builds
<1>5. /\ scanned \in SUBSET RerunRows /\ EventsFit(postRows, scanned)
      /\ \A e \in scanned : e.kind = kind
    <2>1. CASE ok
        <3>1. scanned = AllInView(postRows, {kind})
            BY <1>1, <2>1, InViewIs
        <3> QED BY <1>3, <3>1, InViewFits
    <2>2. CASE ~ok
        BY <1>1, <2>2 DEF EventsFit
    <2> QED BY <2>1, <2>2
<1>6. EventsFit(postRows, noted)
    <2>1. ASSUME NEW d \in building.events, NEW e \in scanned PROVE d.id # e.id
        <3>1. d.kind # kind /\ e.kind = kind
            BY <1>3, <1>5 DEF ReadPosts
        <3>2. d.kind = postRows[d.id].kind /\ e.kind = postRows[e.id].kind
            BY <1>3, <1>5 DEF EventsFit
        <3> QED BY <3>1, <3>2
    <2>2. \A d, e \in noted : d.id = e.id => d = e
        BY <1>2, <1>3, <1>5, <2>1 DEF EventsFit
    <2> QED BY <1>2, <1>3, <1>5, <2>2 DEF EventsFit
<1>7. building' \in Builds
    <2>1. /\ read \in SUBSET (EventTypes \cup {"items"}) /\ noted \in SUBSET RerunRows
          /\ (building.quiet /\ ok) \in BOOLEAN
          /\ (building.told /\ (ok \/ kind # "dispute")) \in BOOLEAN
        BY <1>2, <1>3, <1>5 DEF Builds
    <2>2. building' = [building EXCEPT !.read = read, !.events = noted,
                           !.quiet = building.quiet /\ ok,
                           !.told = building.told /\ (ok \/ kind # "dispute")]
        BY <1>1, <1>2 DEF ReadPosts
    <2> QED BY <1>3, <2>1, <2>2 DEF Builds
<1>8. \A e \in noted : e.kind \in read
    BY <1>2, <1>3, <1>5
<1>9. ASSUME building'.told, "dispute" \in read PROVE ToldOf(building.contested, noted)
    <2>1. building.told /\ (ok \/ kind # "dispute")
        BY <1>4, <1>9
    <2>2. CASE "dispute" \in building.read
        BY <1>2, <2>1, <2>2 DEF RerunInv, BuildFits, ToldOf
    <2>3. CASE "dispute" \notin building.read
        <3>1. ok /\ scanned = InView(postRows, "dispute")
            BY <1>1, <1>2, <1>9, <2>1, <2>3
        <3>2. building.contested \subseteq {e.id : e \in Contested(postRows)}
            BY DEF RerunInv, BuildFits
        <3>3. \A e \in Contested(postRows) :
                  e \in noted /\ e.kind = "dispute" /\ e.label # "resolved"
            BY <1>2, <3>1 DEF Contested, InView
        <3> QED BY <3>2, <3>3 DEF ToldOf
    <2> QED BY <2>2, <2>3
<1>10. ASSUME building'.quiet
       PROVE  /\ noted = AllInView(postRows, read)
              /\ "items" \in read => /\ building.body = indexed
                                     /\ building.cited = Best(indexed, SourceContent)
    <2>1. building.quiet /\ ok
        BY <1>4, <1>10
    <2>2. building.events = AllInView(postRows, building.read)
        BY <2>1 DEF RerunInv, BuildFits
    <2>3. noted = AllInView(postRows, read)
        BY <1>1, <1>2, <2>1, <2>2, InViewIs DEF AllInView
    <2>4. "items" \in read => "items" \in building.read
        BY <1>2 DEF EventTypes
    <2> QED BY <2>1, <2>3, <2>4 DEF RerunInv, BuildFits
<1>11. BuildFits(building', postRows, indexed)
    <2>1. building.contested \subseteq {e.id : e \in Contested(postRows)}
        BY DEF RerunInv, BuildFits
    <2> QED BY <1>4, <1>6, <1>7, <1>8, <1>9, <1>10, <2>1 DEF BuildFits
<1> QED BY <1>11 DEF ReadPosts, RerunInv, UntouchedMatches, UnchangedIsSame

\* The text is read for the items.
LEMMA ReadItemsFits ==
    ASSUME RerunInv, NEW ok \in BOOLEAN, ReadItems(ok)
    PROVE  RerunInv'
<1>1. PICK read, body, cited :
          /\ read = building.read \cup {"items"} /\ body = SectionsRead(ok)
          /\ cited = Evidence(ok)
    OBVIOUS
<1>2. /\ building \in Builds /\ EventsFit(postRows, building.events)
      /\ \A e \in building.events : e.kind \in building.read
      /\ building.contested \subseteq {e.id : e \in Contested(postRows)}
    BY DEF RerunInv, BuildFits
<1>3. building' = [building EXCEPT !.read = read, !.quiet = building.quiet /\ ok,
                                   !.body = body, !.cited = cited]
    BY <1>1 DEF ReadItems
<1>4. /\ building'.read = read /\ building'.events = building.events
      /\ building'.quiet = (building.quiet /\ ok) /\ building'.body = body
      /\ building'.told = building.told /\ building'.cited = cited
      /\ building'.contested = building.contested
    BY <1>2, <1>3 DEF Builds
<1>5. /\ body \in Contents /\ cited \in Contents \cup {SourceContent}
      /\ ok => body = indexed /\ cited = Best(indexed, SourceContent)
    BY <1>1, EvidenceFits DEF RerunInv
<1>6. building' \in Builds
    <2>1. (building.quiet /\ ok) \in BOOLEAN /\ read \in SUBSET (EventTypes \cup {"items"})
        BY <1>1, <1>2 DEF Builds
    <2> QED BY <1>2, <1>3, <1>5, <2>1 DEF Builds
<1>7. \A e \in building.events : e.kind \in read
    BY <1>1, <1>2
<1>8. building.told /\ "dispute" \in read => ToldOf(building.contested, building.events)
    BY <1>1 DEF RerunInv, BuildFits
<1>9. building'.quiet =>
          building.events = AllInView(postRows, read) /\ body = indexed
              /\ cited = Best(indexed, SourceContent)
    <2>1. SUFFICES ASSUME building'.quiet
                   PROVE  building.events = AllInView(postRows, read)
        BY <1>4, <1>5
    <2>2. building.events = AllInView(postRows, building.read)
        BY <1>4, <2>1 DEF RerunInv, BuildFits
    <2>3. \A i \in DOMAIN postRows : postRows[i].kind # "items"
        <3>1. ASSUME NEW i \in DOMAIN postRows PROVE postRows[i].kind # "items"
            <4>1. postRows[i] \in RerunRows
                BY <3>1 DEF RerunInv, RowsInOrder
            <4> QED BY <4>1 DEF RerunRows, EventTypes
        <3> QED BY <3>1
    <2> QED BY <1>1, <2>2, <2>3 DEF AllInView
<1>10. BuildFits(building', postRows, indexed)
    BY <1>2, <1>4, <1>6, <1>7, <1>8, <1>9 DEF BuildFits
<1> QED BY <1>10 DEF ReadItems, RerunInv, UntouchedMatches, UnchangedIsSame

\* A history is as long as there are events.
LEMMA HistoryLength ==
    ASSUME NEW all, Len(all) \in Nat, NEW noted, EventsFit(all, noted)
    PROVE  /\ Len(History(noted)) = Cardinality(noted)
           /\ DOMAIN History(noted) = 1..Cardinality(noted)
<1>1. PICK n \in Nat : n = Cardinality(noted)
    BY EventsFinite
<1>2. PICK h \in [1..n -> noted] : h = History(noted)
    BY <1>1, HistoryIs DEF HistoryFits
<1>3. h \in Seq(noted)
    BY <1>2, SeqDef
<1>4. DOMAIN h = 1..Len(h) /\ DOMAIN h = 1..n /\ Len(h) \in Nat
    BY <1>2, <1>3, LenProperties
<1>5. Len(h) = n
    BY <1>4
<1> QED BY <1>1, <1>2, <1>4, <1>5

\* What a re-run answers.
AnswerSame(a) ==
    ~a.changed /\ a.lanes = {} /\ {a.historyDelta, a.disputeDelta, a.attestationDelta} = {0}

\* Two passports that say the same compare as the same.
LEMMA SameCompares ==
    ASSUME NEW all, Len(all) \in Nat, NEW base, NEW current, EventsFit(all, current.events),
           base.lanes = current.lanes, base.events = current.events,
           base.history = current.history, current.history = History(current.events)
    PROVE  /\ CompareBundle(base, current).lanes = {}
           /\ CompareBundle(base, current).historyDelta = 0
           /\ CompareBundle(base, current).disputeDelta = 0
           /\ CompareBundle(base, current).attestationDelta = 0
<1>1. PICK n \in Nat, d \in Nat, a \in Nat :
          /\ n = Len(current.history)
          /\ d = Cardinality({e \in current.events : e.kind = "dispute"})
          /\ a = Cardinality({e \in current.events : e.kind = "attestation"})
    <2>1. Len(current.history) \in Nat
        BY HistoryLength, EventsFinite
    <2>2. /\ {e \in current.events : e.kind = "dispute"} \in SUBSET current.events
          /\ {e \in current.events : e.kind = "attestation"} \in SUBSET current.events
        OBVIOUS
    <2>3. /\ Cardinality({e \in current.events : e.kind = "dispute"}) \in Nat
          /\ Cardinality({e \in current.events : e.kind = "attestation"}) \in Nat
        BY <2>2, SomeFit, EventsFinite
    <2> QED BY <2>1, <2>3
<1>2. /\ CompareBundle(base, current).historyDelta = n - n
      /\ CompareBundle(base, current).disputeDelta = d - d
      /\ CompareBundle(base, current).attestationDelta = a - a
    BY <1>1 DEF CompareBundle
<1>3. CompareBundle(base, current).lanes = {}
    BY DEF CompareBundle
<1> QED BY <1>2, <1>3

\* A re-run of a paper at rest, and one that reports no change.
LEMMA CompareFits ==
    ASSUME NEW all, Len(all) \in Nat, NEW text, NEW base, NEW current,
           PassportFits(base, all, text), PassportFits(current, all, text), current.sealed,
           NEW a \in {CompareBundle(base, current), CompareDigest(base, current)}
    PROVE  /\ a.quiet => AnswerSame(a)
           /\ a.valid /\ ~a.changed => AnswerSame(a)
<1> DEFINE same == base.lanes = current.lanes /\ base.events = current.events
<1>1. PICK bundle : bundle = CompareBundle(base, current)
    OBVIOUS
<1>2. /\ bundle.valid => base.sealed /\ bundle.quiet = (base.quiet /\ current.quiet)
      /\ bundle.changed = (base.digest # current.digest)
    BY <1>1 DEF CompareBundle, SignatureHolds
<1>3. bundle.quiet = (base.quiet /\ current.quiet)
    BY <1>1 DEF CompareBundle
<1>4. /\ a.quiet = bundle.quiet /\ a.valid = bundle.valid /\ a.changed = bundle.changed
      /\ \/ a = bundle
         \/ /\ a.lanes = {} /\ a.historyDelta = 0 /\ a.disputeDelta = 0
            /\ a.attestationDelta = 0
    <2>1. CASE a = bundle
        BY <2>1
    <2>2. CASE a = CompareDigest(base, current)
        <3>1. a = [bundle EXCEPT !.mode = "digest", !.lanes = {}, !.historyDelta = 0,
                                 !.disputeDelta = 0, !.attestationDelta = 0]
            BY <1>1, <2>2 DEF CompareDigest
        <3>2. DOMAIN bundle = {"on", "mode", "valid", "changed", "lanes", "historyDelta",
                               "disputeDelta", "attestationDelta", "quiet"}
            BY <1>1 DEF CompareBundle
        <3> QED BY <3>1, <3>2
    <2> QED BY <1>1, <2>1, <2>2
<1>5. base.sealed /\ same => base.history = current.history /\ base.digest = current.digest
    BY DEF PassportFits
<1>6. ASSUME base.sealed, same PROVE AnswerSame(a)
    <2>1. /\ bundle.lanes = {} /\ bundle.historyDelta = 0 /\ bundle.disputeDelta = 0
          /\ bundle.attestationDelta = 0
        BY <1>1, <1>5, <1>6, SameCompares DEF PassportFits
    <2>2. /\ a.lanes = {} /\ a.historyDelta = 0 /\ a.disputeDelta = 0
          /\ a.attestationDelta = 0
        BY <1>4, <2>1
    <2>3. ~a.changed
        BY <1>2, <1>4, <1>5, <1>6
    <2> QED BY <2>2, <2>3 DEF AnswerSame
<1>7. a.quiet => base.sealed /\ same
    <2>1. a.quiet => base.quiet /\ current.quiet
        BY <1>3, <1>4
    <2> QED BY <2>1 DEF PassportFits
<1>8. a.valid /\ ~a.changed => base.sealed /\ same
    <2>1. a.valid /\ ~a.changed => base.sealed /\ base.digest = current.digest
        BY <1>2, <1>4
    <2> QED BY <2>1 DEF PassportFits, Digest
<1> QED BY <1>6, <1>7, <1>8

\* A passport is signed, and fetched or compared with the one that was kept.
LEMMA SignFits ==
    ASSUME RerunInv, NEW ok \in BOOLEAN, Sign(ok)
    PROVE  RerunInv'
<1>1. /\ building \in Builds /\ EventsFit(postRows, building.events)
      /\ building.told /\ "dispute" \in building.read =>
             ToldOf(building.contested, building.events)
      /\ building.read = EventTypes \cup {"items"}
      /\ KeptFits(kept, postRows, indexed) /\ Len(postRows) \in Nat
    BY DEF RerunInv, BuildFits, Sign, RowsInOrder
<1>2. BuildFits(building', postRows, indexed)
    BY NoBuildFits DEF Sign
<1>3. ASSUME UNCHANGED <<kept, answer>> PROVE RerunInv'
    BY <1>2, <1>3 DEF Sign, RerunInv, UntouchedMatches, UnchangedIsSame
<1>4. ASSUME ServiceKey(keyring) # NoServiceKey PROVE RerunInv'
    <2>1. PICK lanes : lanes = LanesFrom(SectionsRead(ok), Evidence(ok), building)
        OBVIOUS
    <2>2. PICK unsaid : unsaid = Passport(lanes, building.events)
        OBVIOUS
    <2>3. PICK passport : /\ passport = [unsaid EXCEPT !.quiet = unsaid.quiet /\ ok]
                          /\ Fetched(passport) \/ Verified(passport)
        BY <1>4, <2>1, <2>2 DEF Sign
    <2>4. /\ DOMAIN unsaid = PassportFields /\ unsaid.on = TRUE /\ unsaid.lanes = lanes
          /\ unsaid.events = building.events /\ unsaid.history = History(building.events)
          /\ unsaid.digest = Digest(lanes, building.events) /\ unsaid.sealed = TRUE
          /\ unsaid.quiet = building.quiet /\ unsaid.contested = building.contested
          /\ unsaid.told = building.told
        BY <2>2 DEF Passport, PassportFields
    <2>5. /\ DOMAIN passport = PassportFields /\ passport.on = TRUE /\ passport.lanes = lanes
          /\ passport.events = building.events /\ passport.history = History(building.events)
          /\ passport.digest = Digest(lanes, building.events) /\ passport.sealed = TRUE
          /\ passport.quiet = (building.quiet /\ ok) /\ passport.contested = building.contested
          /\ passport.told = building.told
        BY <2>3, <2>4 DEF PassportFields
    <2>6. LanesTell(lanes, building.events)
        BY <2>1, LanesFromTell
    <2>7. ASSUME building.quiet, ok
          PROVE  /\ building.events = AllInView(postRows, EventTypes)
                 /\ lanes = FreshLanes(indexed, building.events)
        <3>1. building.events = AllInView(postRows, building.read)
            BY <2>7 DEF RerunInv, BuildFits
        <3>2. AllInView(postRows, building.read) = AllInView(postRows, EventTypes)
            <4>1. ASSUME NEW i \in DOMAIN postRows PROVE postRows[i].kind # "items"
                <5>1. postRows[i] \in RerunRows
                    BY <4>1 DEF RerunInv, RowsInOrder
                <5> QED BY <5>1 DEF RerunRows, EventTypes
            <4> QED BY <1>1, <4>1 DEF AllInView
        <3>3. building.body = indexed /\ building.cited = Best(indexed, SourceContent)
            BY <1>1, <2>7 DEF RerunInv, BuildFits
        <3>4. SectionsRead(ok) = indexed /\ Evidence(ok) = Best(indexed, SourceContent)
            BY <2>7, EvidenceFits DEF RerunInv
        <3>5. lanes = LanesFrom(indexed, Best(indexed, SourceContent), building)
            BY <2>1, <3>4
        <3>6. lanes = FreshLanes(indexed, building.events)
            BY <3>3, <3>5 DEF FreshLanes, LanesFrom, LaneOf, ItemTally, TextItems
        <3> QED BY <3>1, <3>2, <3>6
    <2>8. PassportFits(passport, postRows, indexed)
        <3>1. (building.quiet /\ ok) \in BOOLEAN
            BY <1>1 DEF Builds
        <3>2. passport.told => ToldOf(passport.contested, passport.events)
            BY <1>1, <2>5 DEF EventTypes
        <3> QED BY <1>1, <2>5, <2>6, <2>7, <3>1, <3>2 DEF PassportFits
    <2>9. CASE Fetched(passport)
        <3>1. kept' = passport /\ answer' = answer
            BY <2>9 DEF Fetched
        <3>2. KeptFits(passport, postRows, indexed)
            BY <2>8 DEF KeptFits, PassportFits, PassportFields
        <3> QED BY <1>2, <3>1, <3>2 DEF Sign, RerunInv, UntouchedMatches, UnchangedIsSame
    <2>10. CASE Verified(passport)
        <3>1. /\ kept.on /\ kept' = kept
              /\ answer' \in {CompareBundle(kept, passport), CompareDigest(kept, passport)}
            BY <2>10 DEF Verified
        <3>2. PICK a \in {CompareBundle(kept, passport), CompareDigest(kept, passport)} :
                  answer' = a
            BY <3>1
        <3>3. PassportFits(kept, postRows, indexed)
            BY <1>1, <3>1 DEF KeptFits
        <3>4. (a.quiet => AnswerSame(a)) /\ (a.valid /\ ~a.changed => AnswerSame(a))
            BY <1>1, <2>5, <2>8, <3>3, CompareFits
        <3>5. UntouchedMatches' /\ UnchangedIsSame'
            BY <3>2, <3>4 DEF UntouchedMatches, UnchangedIsSame, AnswerSame
        <3> QED BY <1>2, <3>1, <3>5 DEF Sign, RerunInv
    <2> QED BY <2>3, <2>9, <2>10
<1> QED BY <1>3, <1>4 DEF Sign

\* Something happens to the paper meanwhile.
LEMMA TouchFits ==
    ASSUME RerunInv, NEW all, Touch(all), postRows' = all, RowsInOrder(all),
           RowsStay(postRows, all), indexed' \in Contents
    PROVE  RerunInv'
<1>1. PICK open : open = building.contested \cap {e.id : e \in Contested(all)}
    OBVIOUS
<1>2. /\ building' = [building EXCEPT !.quiet = FALSE, !.contested = open]
      /\ kept' = [kept EXCEPT !.quiet = FALSE] /\ answer' = answer
    BY <1>1 DEF Touch
<1>3. /\ building \in Builds /\ EventsFit(postRows, building.events)
      /\ \A e \in building.events : e.kind \in building.read
      /\ building.told /\ "dispute" \in building.read =>
             ToldOf(building.contested, building.events)
      /\ RowsInOrder(postRows) /\ KeptFits(kept, postRows, indexed)
    BY DEF RerunInv, BuildFits
<1>4. /\ building'.quiet = FALSE /\ building'.contested = open
      /\ building'.events = building.events /\ building'.read = building.read
      /\ building'.told = building.told
    BY <1>2, <1>3 DEF Builds
<1>5. building' \in Builds
    <2>1. open \in SUBSET Nat
        BY <1>1, <1>3 DEF Builds
    <2> QED BY <1>2, <1>3, <2>1 DEF Builds
<1>6. EventsFit(all, building.events)
    BY <1>3, EventsStay
<1>7. building.told /\ "dispute" \in building.read => ToldOf(open, building.events)
    BY <1>1, <1>3 DEF ToldOf
<1>8. BuildFits(building', all, indexed')
    BY <1>1, <1>3, <1>4, <1>5, <1>6, <1>7 DEF BuildFits
<1>9. KeptFits(kept', all, indexed')
    <2>1. DOMAIN kept' = DOMAIN kept /\ kept'.on = kept.on
        BY <1>2, <1>3 DEF KeptFits
    <2>2. ASSUME kept.on PROVE PassportFits(kept', all, indexed')
        <3>1. PassportFits(kept, postRows, indexed)
            BY <1>3, <2>2 DEF KeptFits
        <3>2. /\ DOMAIN kept' = PassportFields /\ kept'.quiet = FALSE /\ kept'.on = TRUE
              /\ kept'.lanes = kept.lanes /\ kept'.events = kept.events
              /\ kept'.history = kept.history /\ kept'.digest = kept.digest
              /\ kept'.sealed = kept.sealed /\ kept'.told = kept.told
              /\ kept'.contested = kept.contested
            BY <1>2, <3>1 DEF PassportFits, PassportFields
        <3>3. EventsFit(all, kept.events)
            BY <1>3, <3>1, EventsStay DEF PassportFits
        <3> QED BY <3>1, <3>2, <3>3 DEF PassportFits
    <2> QED BY <1>3, <2>1, <2>2 DEF KeptFits
<1> QED BY <1>2, <1>8, <1>9 DEF RerunInv, UntouchedMatches, UnchangedIsSame

\* A post is added.
LEMMA AddedFits ==
    ASSUME RerunInv, NEW p \in RerunRows, p.id = Len(postRows) + 1,
           p.kind # "attestation" => p.at = p.id,
           p.kind = "response" => p.to \in DOMAIN postRows /\ postRows[p.to].kind = "dispute",
           p.kind # "response" => p.to = 0, ChangePosts(Append(postRows, p))
    PROVE  RerunInv'
<1>1. PICK all : all = Append(postRows, p)
    OBVIOUS
<1>2. postRows \in Seq(RerunRows) /\ RowsInOrder(postRows) /\ indexed \in Contents
    BY DEF RerunInv, RowsInOrder
<1>3. /\ all \in Seq(RerunRows) /\ Len(all) = Len(postRows) + 1 /\ all[Len(postRows) + 1] = p
      /\ Len(postRows) \in Nat
    BY <1>1, <1>2
<1>4. \A i \in 1..Len(postRows) : all[i] = postRows[i]
    BY <1>1, <1>2
<1>5. RowsStay(postRows, all)
    BY <1>3, <1>4 DEF RowsStay
<1>6. RowsInOrder(all)
    <2>1. SUFFICES ASSUME NEW i \in 1..Len(all)
                   PROVE  /\ all[i].id = i /\ (all[i].kind # "attestation" => all[i].at = i)
                          /\ all[i].kind = "response" =>
                                 all[i].to \in 1..(i - 1) /\ all[all[i].to].kind = "dispute"
                          /\ all[i].kind # "response" => all[i].to = 0
        BY <1>3 DEF RowsInOrder
    <2>2. CASE i \in 1..Len(postRows)
        <3>1. /\ postRows[i].id = i /\ (postRows[i].kind # "attestation" => postRows[i].at = i)
              /\ postRows[i].kind = "response" =>
                     /\ postRows[i].to \in 1..(i - 1)
                     /\ postRows[postRows[i].to].kind = "dispute"
              /\ postRows[i].kind # "response" => postRows[i].to = 0
            BY <1>2, <2>2 DEF RowsInOrder
        <3>2. ASSUME postRows[i].kind = "response" PROVE postRows[i].to \in 1..Len(postRows)
            BY <1>3, <2>2, <3>1, <3>2
        <3> QED BY <1>4, <2>2, <3>1, <3>2
    <2>3. CASE i = Len(postRows) + 1
        <3>1. DOMAIN postRows = 1..Len(postRows)
            BY <1>2
        <3>2. all[i] = p
            BY <1>3, <2>3
        <3>3. p.kind = "response" => p.to \in 1..(i - 1) /\ all[p.to].kind = "dispute"
            BY <1>3, <1>4, <2>3, <3>1
        <3> QED BY <2>3, <3>2, <3>3
    <2> QED BY <1>3, <2>1, <2>2, <2>3
<1>7. Touch(all) /\ postRows' = all /\ indexed' = indexed
    BY <1>1 DEF ChangePosts
<1> QED BY <1>2, <1>5, <1>6, <1>7, TouchFits

\* A post is relabelled, hidden or shown.
LEMMA ChangedFits ==
    ASSUME RerunInv, NEW i \in DOMAIN postRows, NEW p \in RerunRows,
           p.id = postRows[i].id, p.kind = postRows[i].kind, p.lane = postRows[i].lane,
           p.at = postRows[i].at, p.to = postRows[i].to,
           ChangePosts([postRows EXCEPT ![i] = p])
    PROVE  RerunInv'
<1>1. PICK all : all = [postRows EXCEPT ![i] = p]
    OBVIOUS
<1>2. postRows \in Seq(RerunRows) /\ RowsInOrder(postRows) /\ indexed \in Contents
    BY DEF RerunInv, RowsInOrder
<1>3. /\ all \in Seq(RerunRows) /\ Len(all) = Len(postRows) /\ Len(postRows) \in Nat
    BY <1>1, <1>2
<1>4. \A j \in 1..Len(postRows) :
          /\ all[j].id = postRows[j].id /\ all[j].kind = postRows[j].kind
          /\ all[j].lane = postRows[j].lane /\ all[j].at = postRows[j].at
          /\ all[j].to = postRows[j].to
    BY <1>1, <1>2
<1>5. RowsStay(postRows, all)
    BY <1>3, <1>4 DEF RowsStay
<1>6. RowsInOrder(all)
    <2>1. SUFFICES ASSUME NEW j \in 1..Len(all)
                   PROVE  /\ all[j].id = j /\ (all[j].kind # "attestation" => all[j].at = j)
                          /\ all[j].kind = "response" =>
                                 all[j].to \in 1..(j - 1) /\ all[all[j].to].kind = "dispute"
                          /\ all[j].kind # "response" => all[j].to = 0
        BY <1>3 DEF RowsInOrder
    <2>2. /\ postRows[j].id = j /\ (postRows[j].kind # "attestation" => postRows[j].at = j)
          /\ postRows[j].kind = "response" =>
                 /\ postRows[j].to \in 1..(j - 1)
                 /\ postRows[postRows[j].to].kind = "dispute"
          /\ postRows[j].kind # "response" => postRows[j].to = 0
        BY <1>2, <1>3 DEF RowsInOrder
    <2>3. ASSUME postRows[j].kind = "response" PROVE postRows[j].to \in 1..Len(postRows)
        BY <1>3, <2>2, <2>3
    <2> QED BY <1>3, <1>4, <2>2, <2>3
<1>7. Touch(all) /\ postRows' = all /\ indexed' = indexed
    BY <1>1 DEF ChangePosts
<1> QED BY <1>2, <1>5, <1>6, <1>7, TouchFits

\* The text changes in the index.
LEMMA ReindexFits ==
    ASSUME RerunInv, NEW c \in Contents, Reindex(c)
    PROVE  RerunInv'
<1>1. RowsInOrder(postRows) /\ Touch(postRows) /\ postRows' = postRows /\ indexed' \in Contents
    BY DEF RerunInv, Reindex
<1>2. Len(postRows) \in Nat
    BY <1>1 DEF RowsInOrder
<1>3. RowsStay(postRows, postRows)
    BY <1>2 DEF RowsStay
<1>4. PICK all : all = postRows
    OBVIOUS
<1>5. /\ Touch(all) /\ postRows' = all /\ RowsInOrder(all) /\ RowsStay(postRows, all)
    BY <1>1, <1>3, <1>4
<1> QED BY <1>1, <1>5, TouchFits

\* The service starts again with another key.
LEMMA RekeyFits ==
    ASSUME RerunInv, NEW k, Rekey(k)
    PROVE  RerunInv'
<1>1. BuildFits(building', postRows, indexed)
    BY NoBuildFits DEF Rekey
<1> QED BY <1>1 DEF Rekey, RerunInv, UntouchedMatches, UnchangedIsSame

\* The reader's copy is damaged.
LEMMA SpoilCopyFits ==
    ASSUME RerunInv, SpoilCopy
    PROVE  RerunInv'
<1>1. /\ kept' = [kept EXCEPT !.sealed = FALSE, !.quiet = FALSE, !.events = {}, !.history = <<>>]
      /\ kept.on /\ UNCHANGED <<postRows, indexed, building, answer>>
    BY DEF SpoilCopy
<1>2. PassportFits(kept, postRows, indexed)
    BY <1>1 DEF RerunInv, KeptFits
<1>3. /\ DOMAIN kept' = PassportFields /\ kept'.on = TRUE /\ kept'.sealed = FALSE
      /\ kept'.quiet = FALSE /\ kept'.events = {} /\ kept'.history = <<>>
    BY <1>1, <1>2 DEF PassportFits, PassportFields
<1>4. PassportFits(kept', postRows, indexed)
    BY <1>3 DEF PassportFits, EventsFit
<1>5. KeptFits(kept', postRows, indexed)
    BY <1>3, <1>4 DEF KeptFits, PassportFields
<1> QED BY <1>1, <1>5 DEF RerunInv, UntouchedMatches, UnchangedIsSame

\* What may happen keeps passports what they are.
LEMMA RerunStep ==
    ASSUME RerunInv, [RerunNext]_rerunVars
    PROVE  RerunInv'
<1>1. /\ postRows \in Seq(RerunRows) /\ DOMAIN postRows = 1..Len(postRows)
      /\ Len(postRows) \in Nat
    BY DEF RerunInv, RowsInOrder
<1>2. ASSUME NEW kind \in {"dispute", "attestation"}, NEW lane \in DisputedLanes,
             NEW at \in {1, Len(postRows) + 1}, NEW b \in BOOLEAN,
             kind = "dispute" => at = Len(postRows) + 1, AddEvent(kind, lane, at, b)
      PROVE  RerunInv'
    <2>1. PICK p : p = [id |-> Len(postRows) + 1, kind |-> kind, lane |-> lane, at |-> at, to |-> 0,
                        label |-> "open", verified |-> b, hidden |-> FALSE]
        OBVIOUS
    <2>2. lane \in AuditedLanes /\ at \in Nat
        BY <1>1, RerunAssumption
    <2>3. p \in RerunRows
        BY <1>1, <2>1, <2>2 DEF RerunRows, EventTypes
    <2>4. ChangePosts(Append(postRows, p))
        BY <1>2, <2>1 DEF AddEvent
    <2> QED BY <1>2, <2>1, <2>3, <2>4, AddedFits
<1>3. ASSUME NEW lane \in DisputedLanes, RaiseDispute(lane) PROVE RerunInv'
    BY <1>2, <1>3 DEF RaiseDispute
<1>4. ASSUME NEW lane \in DisputedLanes, NEW at \in {1, Len(postRows) + 1}, NEW b \in BOOLEAN,
             Attested(lane, at, b)
      PROVE  RerunInv'
    BY <1>2, <1>4 DEF Attested
<1>5. ASSUME NEW i \in DOMAIN postRows PROVE postRows[i] \in RerunRows
    BY <1>1, <1>5
<1>6. ASSUME NEW i \in DOMAIN postRows, AnswerDispute(i) PROVE RerunInv'
    <2>1. PICK p : p = [postRows[i] EXCEPT !.id = Len(postRows) + 1, !.kind = "response", !.to = i,
                               !.at = Len(postRows) + 1, !.label = "open", !.hidden = FALSE]
        OBVIOUS
    <2>2. /\ p \in RerunRows /\ p.id = Len(postRows) + 1 /\ p.at = p.id /\ p.kind = "response"
          /\ p.to = i
        <3>1. postRows[i] \in RerunRows /\ i \in Nat
            BY <1>1, <1>5
        <3>2. PICK q \in RerunRows : q = postRows[i]
            BY <3>1
        <3>3. p = [id |-> Len(postRows) + 1, kind |-> "response", lane |-> q.lane,
                   at |-> Len(postRows) + 1, to |-> i, label |-> "open",
                   verified |-> q.verified, hidden |-> FALSE]
            BY <2>1, <3>2 DEF RerunRows
        <3> QED BY <1>1, <3>1, <3>2, <3>3 DEF RerunRows, EventTypes
    <2>3. ChangePosts(Append(postRows, p)) /\ postRows[i].kind = "dispute"
        BY <1>6, <2>1 DEF AnswerDispute
    <2> QED BY <2>2, <2>3, AddedFits
<1>7. ASSUME NEW i \in DOMAIN postRows, TogglePost(i) PROVE RerunInv'
    <2>1. PICK p : p = [postRows[i] EXCEPT !.hidden = ~postRows[i].hidden]
        OBVIOUS
    <2>2. /\ p \in RerunRows /\ p.id = postRows[i].id /\ p.kind = postRows[i].kind
          /\ p.lane = postRows[i].lane /\ p.at = postRows[i].at /\ p.to = postRows[i].to
        <3>1. postRows[i] \in RerunRows /\ (~postRows[i].hidden) \in BOOLEAN
            BY <1>5
        <3> QED BY <2>1, <3>1 DEF RerunRows
    <2>3. ChangePosts([postRows EXCEPT ![i] = p])
        BY <1>7, <2>1 DEF TogglePost
    <2> QED BY <2>2, <2>3, ChangedFits
<1>8. ASSUME NEW i \in DOMAIN postRows, NEW l \in {"open", "highlighted", "resolved"},
             RelabelDispute(i, l)
      PROVE  RerunInv'
    <2>1. PICK p : p = [postRows[i] EXCEPT !.label = l]
        OBVIOUS
    <2>2. /\ p \in RerunRows /\ p.id = postRows[i].id /\ p.kind = postRows[i].kind
          /\ p.lane = postRows[i].lane /\ p.at = postRows[i].at /\ p.to = postRows[i].to
        BY <1>5, <2>1 DEF RerunRows
    <2>3. ChangePosts([postRows EXCEPT ![i] = p])
        BY <1>8, <2>1 DEF RelabelDispute
    <2> QED BY <2>2, <2>3, ChangedFits
<1>9. CASE UNCHANGED rerunVars
    BY <1>9 DEF rerunVars, RerunInv, UntouchedMatches, UnchangedIsSame
<1> QED BY <1>3, <1>4, <1>6, <1>7, <1>8, <1>9, StartBuildFits, ReadItemsFits, SignFits,
           ReadPostsFits, ReindexFits, RekeyFits, SpoilCopyFits DEF RerunNext

\* An answer is not told before its dispute.
LEMMA AnswersFollow ==
    ASSUME NEW all, RowsInOrder(all), NEW noted, EventsFit(all, noted),
           NEW d \in noted, NEW e \in noted, d.to = e.id
    PROVE  ~Earlier(d, e)
<1>1. /\ d \in RerunRows /\ e \in RerunRows /\ d.id \in 1..Len(all) /\ e.id \in 1..Len(all)
      /\ d.kind = all[d.id].kind /\ d.at = all[d.id].at /\ d.to = all[d.id].to
      /\ e.kind = all[e.id].kind /\ e.at = all[e.id].at /\ Len(all) \in Nat
    BY DEF EventsFit, RowsInOrder
<1>2. d.kind = "response"
    BY <1>1 DEF RowsInOrder
<1>3. d.at = d.id /\ d.to \in 1..(d.id - 1) /\ all[d.to].kind = "dispute"
    BY <1>1, <1>2 DEF RowsInOrder
<1>4. e.at = e.id
    <2>1. all[e.id].kind = "dispute"
        BY <1>3
    <2>2. all[e.id].at = e.id
        BY <1>1, <2>1 DEF RowsInOrder
    <2> QED BY <1>1, <2>2
<1>5. PICK m \in Nat, n \in Nat : m = d.id /\ n = e.id
    BY <1>1 DEF RerunRows
<1>6. n \in 1..(m - 1)
    BY <1>3, <1>5
<1>7. d.at \in Nat /\ e.at \in Nat /\ e.at < d.at
    BY ONLY <1>3, <1>4, <1>5, <1>6
<1> QED BY ONLY <1>7 DEF Earlier

\* The history of a passport that is kept.
LEMMA HistoryHolds ==
    ASSUME RerunInv
    PROVE  HistoryInOrder
<1>1. SUFFICES ASSUME kept.on, NEW h, h = kept.history, NEW noted, noted = kept.events
               PROVE  /\ {h[i] : i \in DOMAIN h} = noted /\ Len(h) = Cardinality(noted)
                      /\ \A i, j \in DOMAIN h : i < j => h[i].at <= h[j].at /\ h[i].to # h[j].id
                      /\ \A i \in DOMAIN h : h[i].at <= kept.lanes[h[i].lane].summary.last
    BY DEF HistoryInOrder
<1>2. PassportFits(kept, postRows, indexed) /\ RowsInOrder(postRows) /\ Len(postRows) \in Nat
    BY <1>1 DEF RerunInv, KeptFits, RowsInOrder
<1>3. CASE ~kept.sealed
    <2>1. noted = {} /\ h = <<>>
        BY <1>1, <1>2, <1>3 DEF PassportFits
    <2>2. DOMAIN h = {} /\ Len(h) = 0 /\ Cardinality(noted) = 0
        BY <2>1, FS_EmptySet
    <2> QED BY <2>1, <2>2
<1>4. CASE kept.sealed
    <2>1. EventsFit(postRows, noted) /\ h = History(noted) /\ LanesTell(kept.lanes, noted)
        BY <1>1, <1>2, <1>4 DEF PassportFits
    <2>2. PICK n \in Nat : n = Cardinality(noted)
        BY <1>2, <2>1, EventsFinite
    <2>3. HistoryFits(h, noted) /\ Len(h) = n /\ DOMAIN h = 1..n
        BY <1>2, <2>1, <2>2, HistoryIs, HistoryLength
    <2>4. /\ \A i \in 1..n : h[i] \in noted
          /\ \A i, j \in 1..n : i < j => Earlier(h[i], h[j])
        BY <2>2, <2>3 DEF HistoryFits
    <2>5. \A e \in noted : \E i \in 1..n : h[i] = e
        BY <1>2, <2>1, <2>2, <2>3, HistoryTells
    <2>6. {h[i] : i \in DOMAIN h} = noted
        BY <2>3, <2>4, <2>5
    <2>7. ASSUME NEW i \in 1..n, NEW j \in 1..n, i < j
          PROVE  h[i].at <= h[j].at /\ h[i].to # h[j].id
        <3>1. PICK d \in noted, e \in noted : d = h[i] /\ e = h[j] /\ Earlier(d, e)
            BY <2>4, <2>7
        <3>2. d.at \in Nat /\ e.at \in Nat
            BY <2>1 DEF EventsFit, RerunRows
        <3>3. d.at <= e.at
            BY <3>1, <3>2 DEF Earlier
        <3>4. d.to # e.id
            BY <1>2, <2>1, <3>1, AnswersFollow
        <3> QED BY <3>1, <3>3, <3>4
    <2>8. ASSUME NEW i \in 1..n PROVE h[i].at <= kept.lanes[h[i].lane].summary.last
        <3>1. PICK e \in noted : e = h[i]
            BY <2>4
        <3>2. e.lane \in AuditedLanes
            BY <2>1 DEF EventsFit, RerunRows
        <3>3. PICK mine : mine = {f \in noted : f.lane = e.lane}
            OBVIOUS
        <3>4. kept.lanes[e.lane].summary.last = LatestAt(mine)
            BY <2>1, <3>2, <3>3 DEF LanesTell
        <3>5. EventsFit(postRows, mine) /\ e \in mine
            BY <2>1, <3>3, SomeFit
        <3>6. e.at <= LatestAt(mine)
            BY <1>2, <3>5, LatestIs
        <3> QED BY <3>1, <3>4, <3>6
    <2> QED BY <2>2, <2>3, <2>6, <2>7, <2>8
<1>5. kept.sealed \in BOOLEAN
    BY <1>2 DEF PassportFits
<1> QED BY <1>3, <1>4, <1>5

\* The disputes of a passport that is kept.
LEMMA ToldHolds ==
    ASSUME RerunInv
    PROVE  DisputesAreTold
<1>1. SUFFICES ASSUME kept.on, kept.told, kept.sealed, NEW d \in kept.contested
               PROVE  \E e \in kept.events :
                          /\ e.id = d
                          /\ e.lane \in AuditedLanes =>
                                 LET lane == kept.lanes[e.lane] IN
                                 /\ lane.signed.status \in {"yellow", "red"}
                                 /\ lane.signed.issue >= 2
                                 /\ lane.summary.topAction /\ lane.summary.unresolved > 0
    BY DEF DisputesAreTold
<1>2. PassportFits(kept, postRows, indexed) /\ Len(postRows) \in Nat
    BY <1>1 DEF RerunInv, KeptFits, RowsInOrder
<1>3. PICK e \in kept.events : e.id = d /\ e.kind = "dispute" /\ e.label # "resolved"
    BY <1>1, <1>2 DEF PassportFits, ToldOf
<1>4. e \in OpenOf(kept.events, e.lane)
    BY <1>3 DEF OpenOf, EventsOf
<1>5. /\ EventsFit(postRows, kept.events)
      /\ OpenOf(kept.events, e.lane) \in SUBSET kept.events
    BY <1>2 DEF PassportFits, OpenOf, EventsOf
<1>6. /\ IsFiniteSet(OpenOf(kept.events, e.lane))
      /\ Cardinality(OpenOf(kept.events, e.lane)) \in Nat
    BY <1>2, <1>5, SomeFit, EventsFinite
<1>7. Cardinality(OpenOf(kept.events, e.lane)) > 0
    BY <1>4, <1>6, FS_EmptySet
<1>8. ASSUME e.lane \in AuditedLanes
      PROVE  /\ kept.lanes[e.lane].signed.status \in {"yellow", "red"}
             /\ kept.lanes[e.lane].signed.issue >= 2
             /\ kept.lanes[e.lane].summary.topAction
             /\ kept.lanes[e.lane].summary.unresolved > 0
    <2>1. LanesTell(kept.lanes, kept.events)
        BY <1>1, <1>2 DEF PassportFits
    <2> QED BY <1>4, <1>7, <1>8, <2>1 DEF LanesTell
<1> QED BY <1>3, <1>8

\* A re-run of a paper at rest matches the passport that was kept, a re-run that reports no
\* change has none to report, disputes are told, and a history is in order, whatever others do
\* to the paper while a passport is built (trust-passport-bundle.ts:447, papers.ts:160).
THEOREM RerunsAgree == RerunSpec => []RerunHolds
<1>1. RerunInit => RerunInv
    <2>1. SUFFICES ASSUME RerunInit PROVE RerunInv
        OBVIOUS
    <2>2. postRows = <<>> /\ RowsInOrder(postRows)
        BY <2>1 DEF RerunInit, RowsInOrder
    <2>3. KeptFits(kept, postRows, indexed)
        BY <2>1 DEF RerunInit, KeptFits, NoPassport
    <2>4. UntouchedMatches /\ UnchangedIsSame
        BY <2>1 DEF RerunInit, UntouchedMatches, UnchangedIsSame, NoAnswer
    <2> QED BY <2>1, <2>2, <2>3, <2>4, NoBuildFits, RerunAssumption DEF RerunInit, RerunInv
<1>2. RerunInv /\ [RerunNext]_rerunVars => RerunInv'
    BY RerunStep
<1>3. RerunInv => RerunHolds
    BY HistoryHolds, ToldHolds DEF RerunInv, RerunHolds
<1> QED BY <1>1, <1>2, <1>3, PTL DEF RerunSpec
==============================================================================
