------------------------- MODULE IdAllocatorProofs --------------------------
(***************************************************************************)
(* allocateAndClaim implements the registry of ids.  The row locks are what  *)
(* makes it true: a transaction between its SELECT ... FOR UPDATE and its    *)
(* commit is the only one on its paper, one that bumped a counter the only   *)
(* one on that counter, so what it read is still so when it commits.         *)
(***************************************************************************)
EXTENDS IdAllocator, TLAPS

-----------------------------------------------------------------------------
(* The registry of ids: unique and gapless for any papers and counters. *)

\* The registry is typed, and its ids are unique and gapless.
RegInv == RegTypeOK /\ IdsUnique /\ IdsGapless

\* The registry begins with RegInv.
LEMMA RegInitInv == RegInit => RegInv
<1> SUFFICES ASSUME RegInit PROVE RegInv
    OBVIOUS
<1> USE RegistryAssumption DEF RegInit
<1>1. RegTypeOK
    BY DEF RegTypeOK
<1>2. IdsUnique
    BY DEF IdsUnique
<1>3. IdsGapless
    BY DEF IdsGapless
<1> QED BY <1>1, <1>2, <1>3 DEF RegInv

\* A paper that gets the next number of its counter keeps RegInv.
LEMMA AssignInv ==
    ASSUME RegInv, NEW p \in Papers, Assign(p)
    PROVE  RegInv'
<1> DEFINE c == CounterOf[p]
<1> USE RegistryAssumption DEF RegInv, RegTypeOK, Assign
<1>1. /\ c \in Counters
      /\ id' = [id EXCEPT ![p] = counter[c] + 1]
      /\ counter' = [counter EXCEPT ![c] = counter[c] + 1]
      /\ id[p] = 0
    OBVIOUS
<1>2. RegTypeOK'
    BY <1>1
<1>3. \A q \in Papers : q # p /\ CounterOf[q] = c => id[q] < id'[p]
    BY <1>1 DEF IdsGapless
<1>4. IdsUnique'
    BY <1>1, <1>2, <1>3 DEF IdsUnique
<1>5. ASSUME NEW q \in Papers PROVE id'[q] <= counter'[CounterOf[q]]
    BY <1>1, <1>5 DEF IdsGapless
<1>6. ASSUME NEW d \in Counters, NEW n \in 1..counter'[d]
      PROVE  \E q \in Papers : CounterOf[q] = d /\ id'[q] = n
    <2>1. CASE d = c /\ n = counter[c] + 1
        BY <2>1, <1>1
    <2>2. CASE n \in 1..counter[d]
        <3>1. PICK q \in Papers : CounterOf[q] = d /\ id[q] = n
            BY <2>2 DEF IdsGapless
        <3>2. q # p
            BY <3>1, <2>2, <1>1
        <3> QED BY <3>1, <3>2, <1>1
    <2> QED BY <2>1, <2>2, <1>1
<1>7. IdsGapless'
    BY <1>5, <1>6 DEF IdsGapless
<1> QED BY <1>2, <1>4, <1>7

\* The registry never gives a number twice and never skips one, whatever the
\* order in which papers ask (identifiers.ts:12-20).
THEOREM RegistrySound == RegSpec => [](IdsUnique /\ IdsGapless)
<1>1. RegInit => RegInv
    BY RegInitInv
<1>2. RegInv /\ [RegNext]_regVars => RegInv'
    <2> SUFFICES ASSUME RegInv, [RegNext]_regVars PROVE RegInv'
        OBVIOUS
    <2>1. CASE RegNext
        BY <2>1, AssignInv DEF RegNext
    <2>2. CASE UNCHANGED regVars
        BY <2>2 DEF regVars, RegInv, RegTypeOK, IdsUnique, IdsGapless
    <2> QED BY <2>1, <2>2
<1>3. RegInv => IdsUnique /\ IdsGapless
    BY DEF RegInv
<1> QED BY <1>1, <1>2, <1>3, PTL DEF RegSpec

-----------------------------------------------------------------------------
(* The transactions. *)

\* What a transaction has read still holds, as long as it has the locks.
ReadsHold(w) ==
    LET p == tx[w].paper
        c == CounterOf[tx[w].paper]
    IN  /\ tx[w].pc \in {"allocating", "claiming"} => id[p] = 0
        /\ tx[w].pc = "claiming" => tx[w].bump = counter[c] + 1
        /\ tx[w].pc \in {"locking", "allocating"} => tx[w].bump = 0 /\ ~tx[w].claim
        /\ tx[w].pc = "committing" =>
            \/ /\ tx[w].bump = 0 /\ ~tx[w].claim
               /\ tx[w].result = id[p] /\ id[p] # 0
            \/ /\ tx[w].bump = counter[c] + 1 /\ tx[w].claim
               /\ tx[w].result = tx[w].bump /\ id[p] = 0

Holds(w) ==
    LET p == tx[w].paper
        c == CounterOf[tx[w].paper]
    IN  /\ tx[w].pc \in {"allocating", "claiming", "committing"} => paperLock[p] = w
        /\ tx[w].pc = "claiming" => counterLock[c] = w
        /\ tx[w].pc = "committing" /\ tx[w].bump # 0 => counterLock[c] = w

\* No call returns without a number, and the number is the id of the paper.
Returns(w) ==
    tx[w].pc = "returned" => tx[w].result = id[tx[w].paper] /\ tx[w].result # 0

TxInv(w) == Holds(w) /\ ReadsHold(w) /\ Returns(w)

Inv == TypeOK /\ \A w \in Workers : TxInv(w)

LEMMA TxType ==
    ASSUME TypeOK, NEW w \in Workers
    PROVE  /\ tx[w].pc \in Pcs \cup {"idle"}
           /\ tx[w].pc # "idle" => /\ tx[w] \in Transactions
                                   /\ tx[w].paper \in Papers
                                   /\ CounterOf[tx[w].paper] \in Counters
BY RegistryAssumption DEF TypeOK, Idle, Transactions, Pcs

LEMMA InvImplies == Inv => TypeOK /\ LocksAreHeld /\ ResultIsTheId
BY DEF Inv, TxInv, Holds, Returns, LocksAreHeld, ResultIsTheId, At, Counter

LEMMA InitInv == Init => Inv
<1> SUFFICES ASSUME Init PROVE Inv
    OBVIOUS
<1>1. TypeOK
    BY DEF Init, RegInit, TypeOK, RegTypeOK, LockTables
<1>2. ASSUME NEW w \in Workers PROVE TxInv(w)
    BY DEF Init, Idle, TxInv, Holds, ReadsHold, Returns
<1> QED BY <1>1, <1>2 DEF Inv

\* A transaction is not disturbed by a step of another one that keeps its
\* locks and the rows it has locked or returned.
LEMMA Undisturbed ==
    ASSUME NEW v \in Workers, TxInv(v), tx'[v] = tx[v],
           NEW p, p = tx[v].paper, NEW c, c = CounterOf[p],
           tx[v].pc # "idle" =>
              /\ counter[c] \in Nat
              /\ paperLock[p] = v => paperLock'[p] = v /\ id'[p] = id[p]
              /\ counterLock[c] = v => counterLock'[c] = v /\ counter'[c] = counter[c]
              /\ id[p] # 0 => id'[p] = id[p]
    PROVE  TxInv(v)'
<1>1. Holds(v)'
    BY DEF TxInv, Holds
<1>2. ReadsHold(v)'
    BY DEF TxInv, Holds, ReadsHold
<1>3. Returns(v)'
    BY DEF TxInv, Returns
<1> QED BY <1>1, <1>2, <1>3 DEF TxInv

\* A step of w that leaves the rows and the other locks alone.
LEMMA LocalStep ==
    ASSUME Inv, NEW w \in Workers, TypeOK', TxInv(w)',
           \A v \in Workers \ {w} : tx'[v] = tx[v],
           id' = id, counter' = counter,
           \A p \in Papers, v \in Workers \ {w} : paperLock[p] = v => paperLock'[p] = v,
           \A c \in Counters, v \in Workers \ {w} :
                counterLock[c] = v => counterLock'[c] = v
    PROVE  Inv'
<1>1. ASSUME NEW v \in Workers, v # w PROVE TxInv(v)'
    <2>1. TxInv(v) /\ tx'[v] = tx[v]
        BY <1>1 DEF Inv
    <2> QED BY <1>1, <2>1, TxType, Undisturbed DEF Inv, TypeOK, RegTypeOK
<1> QED BY <1>1 DEF Inv

LEMMA BeginInv == ASSUME Inv, NEW w \in Workers, NEW p \in Papers, Begin(w, p) PROVE Inv'
<1>1. TypeOK'
    BY DEF Inv, Begin, TypeOK, RegTypeOK, LockTables, Transactions, Pcs
<1>2. /\ tx'[w].pc = "locking" /\ tx'[w].bump = 0 /\ tx'[w].claim = FALSE
      /\ \A v \in Workers \ {w} : tx'[v] = tx[v]
    BY DEF Inv, Begin, TypeOK
<1>3. TxInv(w)'
    BY <1>2 DEF TxInv, Holds, ReadsHold, Returns
<1> QED BY <1>1, <1>2, <1>3, LocalStep DEF Begin

LEMMA LockPaperInv == ASSUME Inv, NEW w \in Workers, LockPaper(w) PROVE Inv'
<1> DEFINE p == tx[w].paper
<1>1. /\ tx[w] \in Transactions /\ p \in Papers /\ id[p] \in Nat
      /\ tx[w].bump = 0 /\ ~tx[w].claim
    BY TxType DEF Inv, LockPaper, At, TypeOK, RegTypeOK, TxInv, ReadsHold
<1>2. /\ tx'[w] \in Transactions
      /\ tx'[w].paper = p /\ tx'[w].bump = tx[w].bump /\ tx'[w].claim = tx[w].claim
      /\ \/ tx'[w].pc = "allocating" /\ id[p] = 0
         \/ tx'[w].pc = "committing" /\ tx'[w].result = id[p] /\ id[p] # 0
    <2>1. CASE id[p] # 0
        <3>1. tx' = [tx EXCEPT ![w].pc = "committing", ![w].result = id[p]]
            BY <2>1 DEF LockPaper
        <3>2. tx'[w] = [tx[w] EXCEPT !.pc = "committing", !.result = id[p]]
            BY <3>1 DEF Inv, TypeOK
        <3> QED BY <1>1, <2>1, <3>2 DEF Transactions, Pcs
    <2>2. CASE id[p] = 0
        <3>1. tx' = [tx EXCEPT ![w].pc = "allocating"]
            BY <2>2 DEF LockPaper
        <3>2. tx'[w] = [tx[w] EXCEPT !.pc = "allocating"]
            BY <3>1 DEF Inv, TypeOK
        <3> QED BY <1>1, <2>2, <3>2 DEF Transactions, Pcs
    <2> QED BY <2>1, <2>2
<1>3. /\ \A v \in Workers \ {w} : tx'[v] = tx[v]
      /\ tx' \in [Workers -> {Idle} \cup Transactions]
      /\ paperLock[p] = Nobody /\ paperLock' = [paperLock EXCEPT ![p] = w]
      /\ id' = id /\ counter' = counter /\ counterLock' = counterLock
    BY <1>2 DEF LockPaper, Inv, TypeOK
<1>4. TypeOK'
    BY <1>1, <1>3 DEF Inv, TypeOK, RegTypeOK, LockTables
<1>5. TxInv(w)'
    BY <1>1, <1>2, <1>3 DEF TxInv, Holds, ReadsHold, Returns, Inv, TypeOK, LockTables
<1>6. \A q \in Papers, v \in Workers \ {w} : paperLock[q] = v => paperLock'[q] = v
    BY <1>3, AllocatorAssumption DEF Inv, TypeOK, LockTables
<1> QED BY <1>3, <1>4, <1>5, <1>6, LocalStep

LEMMA BumpCounterInv == ASSUME Inv, NEW w \in Workers, BumpCounter(w) PROVE Inv'
<1> DEFINE p == tx[w].paper
           c == CounterOf[tx[w].paper]
<1>1. /\ tx[w] \in Transactions /\ p \in Papers /\ c \in Counters /\ counter[c] \in Nat
      /\ id[p] = 0 /\ ~tx[w].claim /\ paperLock[p] = w
    BY TxType DEF Inv, BumpCounter, At, TypeOK, RegTypeOK, TxInv, ReadsHold, Holds
<1>2. tx'[w] = [tx[w] EXCEPT !.pc = "claiming", !.bump = counter[c] + 1]
    BY DEF BumpCounter, Counter, Inv, TypeOK
<1>3. /\ tx'[w] \in Transactions /\ tx'[w].pc = "claiming" /\ tx'[w].paper = p
      /\ tx'[w].bump = counter[c] + 1
    <2>1. counter[c] + 1 \in Nat
        BY <1>1
    <2> HIDE DEF c
    <2> QED BY <1>1, <1>2, <2>1 DEF Transactions, Pcs
<1>4. /\ \A v \in Workers \ {w} : tx'[v] = tx[v]
      /\ tx' \in [Workers -> {Idle} \cup Transactions]
      /\ counterLock[c] = Nobody /\ counterLock' = [counterLock EXCEPT ![c] = w]
      /\ id' = id /\ counter' = counter /\ paperLock' = paperLock
    BY <1>3 DEF BumpCounter, Counter, Inv, TypeOK
<1>5. TypeOK'
    BY <1>1, <1>4 DEF Inv, TypeOK, RegTypeOK, LockTables
<1>6. TxInv(w)'
    BY <1>1, <1>3, <1>4 DEF TxInv, Holds, ReadsHold, Returns, Inv, TypeOK, LockTables
<1>7. \A d \in Counters, v \in Workers \ {w} : counterLock[d] = v => counterLock'[d] = v
    BY <1>4, AllocatorAssumption DEF Inv, TypeOK, LockTables
<1> QED BY <1>4, <1>5, <1>6, <1>7, LocalStep

LEMMA ClaimInv == ASSUME Inv, NEW w \in Workers, Claim(w) PROVE Inv'
<1> DEFINE p == tx[w].paper
<1>1. /\ tx[w] \in Transactions /\ id[p] = 0 /\ tx[w].bump \in Nat
      /\ Holds(w) /\ ReadsHold(w) /\ tx[w].pc = "claiming"
    BY TxType DEF Inv, Claim, At, TxInv, ReadsHold, Transactions
<1>2. tx'[w] = [tx[w] EXCEPT !.pc = "committing", !.claim = TRUE, !.result = tx[w].bump]
    <2>1. tx' = [tx EXCEPT ![w].pc = "committing", ![w].claim = TRUE,
                           ![w].result = tx[w].bump]
        BY <1>1 DEF Claim
    <2> QED BY <2>1 DEF Inv, TypeOK
<1>3. /\ tx'[w] \in Transactions /\ tx'[w].pc = "committing" /\ tx'[w].paper = p
      /\ tx'[w].bump = tx[w].bump /\ tx'[w].claim /\ tx'[w].result = tx[w].bump
    BY <1>1, <1>2 DEF Transactions, Pcs
<1>4. /\ \A v \in Workers \ {w} : tx'[v] = tx[v]
      /\ tx' \in [Workers -> {Idle} \cup Transactions]
      /\ id' = id /\ counter' = counter
      /\ paperLock' = paperLock /\ counterLock' = counterLock
    BY <1>3 DEF Claim, Inv, TypeOK
<1>5. TypeOK'
    BY <1>4 DEF Inv, TypeOK, RegTypeOK, LockTables
<1>6. TxInv(w)'
    BY <1>1, <1>3, <1>4 DEF TxInv, Holds, ReadsHold, Returns
<1> QED BY <1>4, <1>5, <1>6, LocalStep

LEMMA ReturnInv == ASSUME Inv, NEW w \in Workers, Return(w) PROVE Inv'
<1>1. /\ tx'[w].pc = "idle"
      /\ \A v \in Workers \ {w} : tx'[v] = tx[v]
      /\ UNCHANGED <<id, counter, paperLock, counterLock>>
      /\ TypeOK'
    BY DEF Return, Inv, TypeOK, RegTypeOK, LockTables, Idle
<1>2. TxInv(w)'
    BY <1>1 DEF TxInv, Holds, ReadsHold, Returns
<1> QED BY <1>1, <1>2, LocalStep

\* The locks of the other transactions outlive a commit or a rollback.
LEMMA ReleaseLocks ==
    ASSUME LockTables, NEW w \in Workers, Release(w)
    PROVE  /\ LockTables'
           /\ \A p \in Papers, v \in Workers \ {w} : paperLock[p] = v => paperLock'[p] = v
           /\ \A c \in Counters, v \in Workers \ {w} :
                    counterLock[c] = v => counterLock'[c] = v
BY AllocatorAssumption DEF LockTables, Release, Released

LEMMA RollbackInv == ASSUME Inv, NEW w \in Workers, Rollback(w) PROVE Inv'
<1>1. /\ tx'[w].pc = "idle"
      /\ \A v \in Workers \ {w} : tx'[v] = tx[v]
      /\ id' = id /\ counter' = counter
    BY DEF Rollback, Inv, TypeOK, Idle
<1>2. TypeOK'
    BY ReleaseLocks DEF Rollback, Inv, TypeOK, RegTypeOK
<1>3. TxInv(w)'
    BY <1>1 DEF TxInv, Holds, ReadsHold, Returns
<1>4. LockTables /\ Release(w)
    BY DEF Inv, TypeOK, Rollback
<1> QED BY <1>1, <1>2, <1>3, <1>4, ReleaseLocks, LocalStep

\* A commit writes nothing, or the next number of the counter to the paper.
LEMMA CommitRows ==
    ASSUME Inv, NEW w \in Workers, Commit(w)
    PROVE  \/ ~tx[w].claim /\ UNCHANGED regVars
           \/ tx[w].claim /\ Assign(tx[w].paper)
<1> DEFINE p == tx[w].paper
           c == CounterOf[tx[w].paper]
<1>1. /\ c \in Counters /\ counter[c] \in Nat /\ ReadsHold(w) /\ tx[w].pc = "committing"
    BY TxType DEF Inv, Commit, At, TypeOK, RegTypeOK, TxInv
<1>2. CASE ~tx[w].claim
    BY <1>1, <1>2 DEF Commit, ReadsHold, regVars
<1>3. CASE tx[w].claim
    <2>1. tx[w].bump = counter[c] + 1 /\ id[p] = 0 /\ tx[w].bump # 0
        BY <1>1, <1>3 DEF ReadsHold
    <2>2. /\ id' = [id EXCEPT ![p] = counter[c] + 1]
          /\ counter' = [counter EXCEPT ![c] = counter[c] + 1]
        BY <1>3, <2>1 DEF Commit, Counter
    <2> QED BY <1>3, <2>1, <2>2 DEF Assign
<1> QED BY <1>2, <1>3

LEMMA CommitInv == ASSUME Inv, NEW w \in Workers, Commit(w) PROVE Inv'
<1> DEFINE p == tx[w].paper
           c == CounterOf[tx[w].paper]
<1>1. /\ tx[w] \in Transactions /\ p \in Papers /\ c \in Counters /\ counter[c] \in Nat
      /\ Holds(w) /\ ReadsHold(w) /\ tx[w].pc = "committing"
      /\ paperLock[p] = w /\ (tx[w].claim => counterLock[c] = w)
      /\ LockTables /\ Release(w)
    BY TxType DEF Inv, Commit, At, TypeOK, RegTypeOK, TxInv, Holds, ReadsHold
<1>2. tx'[w] = [tx[w] EXCEPT !.pc = "returned"]
    BY DEF Commit, Inv, TypeOK
<1>3. /\ tx'[w] \in Transactions /\ tx'[w].pc = "returned" /\ tx'[w].paper = p
      /\ tx'[w].result = tx[w].result
    BY <1>1, <1>2 DEF Transactions, Pcs
<1>4. /\ \A v \in Workers \ {w} : tx'[v] = tx[v]
      /\ tx' \in [Workers -> {Idle} \cup Transactions]
    BY <1>3 DEF Commit, Inv, TypeOK
<1>5. TypeOK'
    <2>1. RegTypeOK'
        BY <1>1, CommitRows DEF Assign, Inv, TypeOK, RegTypeOK, regVars
    <2> QED BY <1>1, <1>4, <2>1, ReleaseLocks DEF TypeOK
<1>6. TxInv(w)'
    <2>1. tx[w].result = id'[p] /\ tx[w].result # 0
        BY <1>1, CommitRows DEF ReadsHold, Assign, regVars, Inv, TypeOK, RegTypeOK
    <2> QED BY <1>3, <2>1 DEF TxInv, Holds, ReadsHold, Returns
<1>7. ASSUME NEW v \in Workers, v # w PROVE TxInv(v)'
    <2> DEFINE q == tx[v].paper
               d == CounterOf[tx[v].paper]
    <2>1. TxInv(v) /\ tx'[v] = tx[v]
        BY <1>4, <1>7 DEF Inv
    <2> SUFFICES ASSUME tx[v].pc # "idle"
                 PROVE  /\ counter[d] \in Nat
                        /\ paperLock[q] = v => paperLock'[q] = v /\ id'[q] = id[q]
                        /\ counterLock[d] = v
                              => counterLock'[d] = v /\ counter'[d] = counter[d]
                        /\ id[q] # 0 => id'[q] = id[q]
        BY <2>1, Undisturbed
    <2>2. q \in Papers /\ d \in Counters /\ counter[d] \in Nat
        BY TxType DEF Inv, TypeOK, RegTypeOK
    <2>3. /\ paperLock[q] = v => paperLock'[q] = v /\ q # p
          /\ counterLock[d] = v => counterLock'[d] = v
          /\ tx[w].claim /\ counterLock[d] = v => d # c
        BY <1>1, <1>7, <2>2, ReleaseLocks
    <2> QED BY <2>2, <2>3, CommitRows DEF Assign, regVars, Inv, TypeOK, RegTypeOK
<1> QED BY <1>5, <1>6, <1>7 DEF Inv

LEMMA InductiveInv == Inv /\ [Next]_vars => Inv'
<1> SUFFICES ASSUME Inv, [Next]_vars PROVE Inv'
    OBVIOUS
<1>1. ASSUME NEW w \in Workers, Statement(w) PROVE Inv'
    BY <1>1, LockPaperInv, BumpCounterInv, ClaimInv, CommitInv, ReturnInv DEF Statement
<1>2. ASSUME NEW w \in Workers, Rollback(w) PROVE Inv'
    BY <1>2, RollbackInv
<1>3. ASSUME NEW w \in Workers, NEW p \in Papers, Begin(w, p) PROVE Inv'
    BY <1>3, BeginInv
<1>4. CASE UNCHANGED vars
    BY <1>4 DEF vars, regVars, Inv, TypeOK, RegTypeOK, LockTables, TxInv, Holds,
                ReadsHold, Returns
<1> QED BY <1>1, <1>2, <1>3, <1>4 DEF Next

\* The locks, the snapshots and the types hold together in every reachable
\* state of the transactions.
THEOREM AllocatorInv == Spec => []Inv
BY InitInv, InductiveInv, PTL DEF Spec

\* The row locks are held across the transaction, and a call returns the id
\* of its paper, whatever the interleaving of calls and rollbacks.
THEOREM AllocatorSafe == Spec => [](TypeOK /\ LocksAreHeld /\ ResultIsTheId)
BY AllocatorInv, InvImplies, PTL

\* Ids, counters, locks and transactions keep their types.
THEOREM AllocatorTypes == Spec => []TypeOK
BY AllocatorSafe, PTL

\* allocateAndClaim implements the registry: its commits are the steps of the
\* registry, every other step changes neither an id nor a counter.
THEOREM AllocatorImplements == Spec => ImplementsRegistry
<1>1. Init => RegInit
    BY DEF Init
<1>2. Inv /\ [Next]_vars => [RegNext]_regVars
    <2> SUFFICES ASSUME Inv, Next PROVE [RegNext]_regVars
        BY DEF vars
    <2>1. ASSUME NEW w \in Workers, Commit(w) PROVE [RegNext]_regVars
        <3>1. tx[w].paper \in Papers
            BY <2>1, TxType DEF Inv, Commit, At
        <3> QED BY <2>1, <3>1, CommitRows DEF RegNext
    <2>2. ASSUME NEW w \in Workers,
                 LockPaper(w) \/ BumpCounter(w) \/ Claim(w) \/ Return(w) \/ Rollback(w)
          PROVE  UNCHANGED regVars
        BY <2>2 DEF LockPaper, BumpCounter, Claim, Return, Rollback, regVars
    <2>3. ASSUME NEW w \in Workers, NEW p \in Papers, Begin(w, p) PROVE UNCHANGED regVars
        BY <2>3 DEF Begin, regVars
    <2> QED BY <2>1, <2>2, <2>3 DEF Next, Statement
<1> QED BY <1>1, <1>2, AllocatorInv, PTL DEF Spec, RegSpec, ImplementsRegistry

\* Hence no two papers of a subject and year get the same id, and no id is
\* skipped (identifiers.ts:18-20).
THEOREM AllocatorIds == Spec => [](IdsUnique /\ IdsGapless)
BY AllocatorImplements, RegistrySound, PTL DEF ImplementsRegistry
=============================================================================
