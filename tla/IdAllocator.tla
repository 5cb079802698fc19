----------------------------- MODULE IdAllocator ----------------------------
(***************************************************************************)
(* allocateAndClaim of packages/db/src/repositories/identifiers.ts, one      *)
(* action per statement of its transaction, under the row locks PostgreSQL   *)
(* takes at READ COMMITTED.  A write becomes visible at the commit; a lock   *)
(* is held until the commit or the rollback.  The committed rows are the     *)
(* registry of IdRegistry, whose specification this one implements.          *)
(***************************************************************************)
EXTENDS IdRegistry

CONSTANTS
    Workers,   \* connections that may run the transaction
    Nobody     \* the holder of a free lock

ASSUME AllocatorAssumption == Nobody \notin Workers

VARIABLES
    paperLock,    \* who holds the row lock of a paper
    counterLock,  \* who holds the row lock of a counter
    tx            \* the transaction of a connection

vars == <<regVars, paperLock, counterLock, tx>>

Idle == [pc |-> "idle"]

Pcs == {"locking", "allocating", "claiming", "committing", "returned"}

\* bump: the number this transaction took from the counter, 0 for none;
\* claim: it has written the number to the paper; result: what it returns.
Transactions == [pc: Pcs, paper: Papers, bump: Nat, claim: BOOLEAN, result: Nat]

At(w, l)   == tx[w].pc = l
Counter(w) == CounterOf[tx[w].paper]

Init ==
    /\ RegInit
    /\ paperLock = [p \in Papers |-> Nobody]
    /\ counterLock = [c \in Counters |-> Nobody]
    /\ tx = [w \in Workers |-> Idle]

\* A saga stage, or its retry, asks for the id of a paper.
Begin(w, p) ==
    /\ At(w, "idle")
    /\ tx' = [tx EXCEPT ![w] = [pc |-> "locking", paper |-> p, bump |-> 0,
                                claim |-> FALSE, result |-> 0]]
    /\ UNCHANGED <<id, counter, paperLock, counterLock>>

\* Mutant: SELECT without FOR UPDATE.
LockPaperUnlocked(w) ==
    /\ At(w, "locking")
    /\ LET p == tx[w].paper IN
       IF id[p] # 0
       THEN tx' = [tx EXCEPT ![w].pc = "committing", ![w].result = id[p]]
       ELSE tx' = [tx EXCEPT ![w].pc = "allocating"]
    /\ UNCHANGED <<id, counter, paperLock, counterLock>>

\* SELECT ... FOR UPDATE; an id that is there is returned.
LockPaper(w) ==
    /\ At(w, "locking")
    /\ LET p == tx[w].paper IN
       /\ paperLock[p] = Nobody
       /\ paperLock' = [paperLock EXCEPT ![p] = w]
       /\ IF id[p] # 0
          THEN tx' = [tx EXCEPT ![w].pc = "committing", ![w].result = id[p]]
          ELSE tx' = [tx EXCEPT ![w].pc = "allocating"]
    /\ UNCHANGED <<id, counter, counterLock>>

\* Mutant: the counter is read and written back without its row lock.
BumpCounterUnlocked(w) ==
    /\ At(w, "allocating")
    /\ tx' = [tx EXCEPT ![w].pc = "claiming", ![w].bump = counter[Counter(w)] + 1]
    /\ UNCHANGED <<id, counter, paperLock, counterLock>>

\* INSERT ... ON CONFLICT DO UPDATE SET next_value = c.next_value + 1: it
\* waits for another transaction that has the counter row, then adds one to
\* what that one committed.
BumpCounter(w) ==
    /\ At(w, "allocating")
    /\ counterLock[Counter(w)] = Nobody
    /\ counterLock' = [counterLock EXCEPT ![Counter(w)] = w]
    /\ tx' = [tx EXCEPT ![w].pc = "claiming", ![w].bump = counter[Counter(w)] + 1]
    /\ UNCHANGED <<id, counter, paperLock>>

\* UPDATE papers ... WHERE openxiv_id IS NULL; with no row updated, the id
\* that is there is returned and the counter stays bumped.
Claim(w) ==
    /\ At(w, "claiming")
    /\ LET p == tx[w].paper IN
       tx' = [tx EXCEPT ![w].pc = "committing",
                        ![w].claim = (id[p] = 0),
                        ![w].result = IF id[p] = 0 THEN tx[w].bump ELSE id[p]]
    /\ UNCHANGED <<id, counter, paperLock, counterLock>>

\* Mutant: a released row leaves the lock table.
ReleasedForGood(locks, w) == [x \in {y \in DOMAIN locks : locks[y] # w} |-> locks[x]]

Released(locks, w) ==
    [x \in DOMAIN locks |-> IF locks[x] = w THEN Nobody ELSE locks[x]]

Release(w) ==
    /\ paperLock' = Released(paperLock, w)
    /\ counterLock' = Released(counterLock, w)

Commit(w) ==
    /\ At(w, "committing")
    /\ tx' = [tx EXCEPT ![w].pc = "returned"]
    /\ id' = IF tx[w].claim THEN [id EXCEPT ![tx[w].paper] = tx[w].bump] ELSE id
    /\ counter' = IF tx[w].bump # 0
                  THEN [counter EXCEPT ![Counter(w)] = tx[w].bump] ELSE counter
    /\ Release(w)

Return(w) ==
    /\ At(w, "returned")
    /\ tx' = [tx EXCEPT ![w] = Idle]
    /\ UNCHANGED <<id, counter, paperLock, counterLock>>

\* Mutant: the locks outlive a failed transaction.
RollbackKeepsLocks(w) ==
    /\ tx[w].pc \in Pcs \ {"returned"}
    /\ tx' = [tx EXCEPT ![w] = Idle]
    /\ UNCHANGED <<id, counter, paperLock, counterLock>>

\* A statement fails, or the connection or the worker dies.
Rollback(w) ==
    /\ tx[w].pc \in Pcs \ {"returned"}
    /\ tx' = [tx EXCEPT ![w] = Idle]
    /\ Release(w)
    /\ UNCHANGED <<id, counter>>

Statement(w) == LockPaper(w) \/ BumpCounter(w) \/ Claim(w) \/ Commit(w) \/ Return(w)

Next ==
    \E w \in Workers : Statement(w) \/ Rollback(w) \/ \E p \in Papers : Begin(w, p)

Spec == Init /\ [][Next]_vars

\* PostgreSQL serves the waiters of a row lock in their order: no waiter is
\* passed over for ever.
FairSpec == Spec /\ \A w \in Workers : SF_vars(Statement(w))

-----------------------------------------------------------------------------
LockTables ==
    /\ paperLock \in [Papers -> Workers \cup {Nobody}]
    /\ counterLock \in [Counters -> Workers \cup {Nobody}]

\* Every variable has its type.
TypeOK ==
    /\ RegTypeOK
    /\ LockTables
    /\ tx \in [Workers -> {Idle} \cup Transactions]

\* The transactions, however they interleave, wait or roll back, hand out ids
\* one after the other, each once (identifiers.ts:17-19).
ImplementsRegistry == RegSpec

\* What a committed call returns is the id of the paper: two jobs of one
\* paper that race are told the same id (identifiers.ts:17).
ResultIsTheId ==
    \A w \in Workers : At(w, "returned") => tx[w].result = id[tx[w].paper]

\* A transaction that has looked at the paper holds its lock, one that has
\* bumped the counter holds both, and it is the only one to.
LocksAreHeld ==
    \A w \in Workers :
        /\ tx[w].pc \in {"allocating", "claiming", "committing"}
              => paperLock[tx[w].paper] = w
        /\ tx[w].pc = "claiming" => counterLock[Counter(w)] = w
        /\ At(w, "committing") /\ tx[w].bump # 0 => counterLock[Counter(w)] = w

\* No deadlock and no starvation on the two row locks: every call ends.
CallsEnd == \A w \in Workers : tx[w].pc # "idle" ~> At(w, "idle")
=============================================================================
