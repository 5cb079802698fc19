-------------------------------- MODULE Flags --------------------------------
(***************************************************************************)
(* A feature flag as the processes of the API see it (services/flags.ts): an *)
(* override of the environment, what the process remembers for thirty        *)
(* seconds, the Redis hash, the default of the caller.  Calls wait for Redis, *)
(* so a read and a change overlap within one process too; a clock counts.    *)
(***************************************************************************)
EXTENDS Naturals

CONSTANTS
    Replicas,         \* processes, each with its own memory
    FlagCalls,        \* calls that may be under way
    FlagDefaults,     \* the defaults callers of this flag pass
    FlagTtl,          \* CACHE_TTL_MS, in ticks of the clock
    MaxFlips,         \* bound: changes of the flag
    MaxFlagReads,     \* bound: reads
    LastTick,         \* bound: the last tick of the clock
    MaxFlagFaults     \* bound: failed calls of Redis

ASSUME FlagsAssumption ==
    /\ FlagDefaults \subseteq {"on", "off"}
    /\ FlagTtl \in Nat \ {0}
    /\ {MaxFlips, MaxFlagReads, LastTick, MaxFlagFaults} \subseteq Nat

VARIABLES
    override,    \* of the environment: "on", "off" or "unset"
    flag,        \* the field of the hash: "on", "off" or "unset"
    memory,      \* what each process remembers, and until when
    flagCalls,   \* the calls under way
    tick,        \* Date.now()
    heldUntil,   \* the last tick at which the field had a value (history)
    shown,       \* the last answer: where it came from, whether it may still be given (history)
    flips, flagReads, flagFaults  \* counters of the bounds

flagBounds == <<flips, flagReads, flagFaults>>
flagVars   == <<override, flag, memory, flagCalls, tick, heldUntil, shown, flagBounds>>

FlagValues == {"on", "off", "unset"}
NoFlagCall == [pc |-> "idle", at |-> "none", begun |-> 0, value |-> "unset"]
Forgotten  == [value |-> "unset", expires |-> 0, by |-> "none"]

\* The operator's field takes the value at this tick.
StoreFlag(value) ==
    /\ flag' = value
    /\ heldUntil' = [heldUntil EXCEPT ![flag] = tick, ![value] = tick]

FlagsInit ==
    /\ override \in FlagValues
    /\ flag \in FlagValues
    /\ memory = [p \in Replicas |-> Forgotten]
    /\ flagCalls = [c \in FlagCalls |-> NoFlagCall]
    /\ tick = 0
    /\ heldUntil = [v \in FlagValues |-> 0]
    /\ shown = [from |-> "none", fresh |-> TRUE]
    /\ flips = 0 /\ flagReads = 0 /\ flagFaults = 0

FlagFault ==
    /\ flagFaults < MaxFlagFaults
    /\ flagFaults' = flagFaults + 1

Flip ==
    /\ flips < MaxFlips
    /\ flips' = flips + 1

\* What is shown, and whether the field had that value within the last thirty seconds.
Show(value, from) ==
    shown' = [from |-> from, fresh |-> flag = value \/ tick < heldUntil[value] + FlagTtl]

Tick ==
    /\ tick < LastTick
    /\ tick' = tick + 1
    /\ heldUntil' = [heldUntil EXCEPT ![flag] = tick + 1]
    /\ UNCHANGED <<override, flag, memory, flagCalls, shown, flagBounds>>

-----------------------------------------------------------------------------
(* isEnabled *)

\* The environment, then the memory, answer at once; else Redis is asked.
ReadFlag(c, p) ==
    /\ flagCalls[c] = NoFlagCall
    /\ flagReads < MaxFlagReads
    /\ flagReads' = flagReads + 1
    /\ \/ override # "unset" /\ Show(override, "env") /\ UNCHANGED flagCalls
       \/ /\ override = "unset" /\ memory[p].expires > tick
          /\ Show(memory[p].value, memory[p].by) /\ UNCHANGED flagCalls
       \/ /\ override = "unset" /\ memory[p].expires <= tick
          /\ flagCalls' = [flagCalls EXCEPT ![c] =
                 [pc |-> "asks", at |-> p, begun |-> tick, value |-> "unset"]]
          /\ UNCHANGED shown
    /\ UNCHANGED <<override, flag, memory, tick, heldUntil, flips, flagFaults>>

\* Redis answers the call, which hears of it later; or it fails.
RedisAnswers(c) ==
    /\ flagCalls[c].pc = "asks"
    /\ \/ /\ flagCalls' = [flagCalls EXCEPT ![c].pc = "hears", ![c].value = flag]
          /\ UNCHANGED flagFaults
       \/ FlagFault /\ flagCalls' = [flagCalls EXCEPT ![c].pc = "hears", ![c].value = "unset"]
    /\ UNCHANGED <<override, flag, memory, tick, heldUntil, shown, flips, flagReads>>

\* Mutant: the thirty seconds begin when Redis has answered.
RemembersLate(c) ==
    /\ flagCalls[c].value # "unset"
    /\ memory' = [memory EXCEPT ![flagCalls[c].at] =
           [value |-> flagCalls[c].value, expires |-> tick + FlagTtl, by |-> "read"]]

\* The thirty seconds begin when the call does.
Remembers(c) ==
    /\ flagCalls[c].value # "unset"
    /\ memory' = [memory EXCEPT ![flagCalls[c].at] =
           [value |-> flagCalls[c].value, expires |-> flagCalls[c].begun + FlagTtl, by |-> "read"]]

\* A stored value is remembered.  Without one, and after any error, the caller's default
\* is the answer, which is not remembered: defaults differ.
HearsFlag(c) ==
    /\ flagCalls[c].pc = "hears"
    /\ \/ /\ flagCalls[c].value # "unset"
          /\ Remembers(c)
          /\ Show(flagCalls[c].value, "redis")
       \/ /\ flagCalls[c].value = "unset"
          /\ \E default \in FlagDefaults : Show(default, "default")
          /\ UNCHANGED memory
    /\ flagCalls' = [flagCalls EXCEPT ![c] = NoFlagCall]
    /\ UNCHANGED <<override, flag, tick, heldUntil, flagBounds>>

-----------------------------------------------------------------------------
(* Changes: an operator's redis-cli, or set and clear in a process. *)

OperatorSets(value) ==
    /\ Flip
    /\ value # flag
    /\ StoreFlag(value)
    /\ UNCHANGED <<override, memory, flagCalls, tick, shown, flagReads, flagFaults>>

\* Redis first; an error is swallowed, and the caller told what was asked for.
SetFlag(c, p, value) ==
    /\ flagCalls[c] = NoFlagCall
    /\ Flip
    /\ \/ /\ StoreFlag(value)
          /\ flagCalls' = [flagCalls EXCEPT ![c] =
                 [pc |-> "stored", at |-> p, begun |-> tick, value |-> value]]
          /\ UNCHANGED flagFaults
       \/ FlagFault /\ UNCHANGED <<flag, heldUntil, flagCalls>>
    /\ UNCHANGED <<override, memory, tick, shown, flagReads>>

\* Then the memory of this process: a value from now on, or nothing.
NotesFlag(c) ==
    /\ flagCalls[c].pc = "stored"
    /\ memory' = [memory EXCEPT ![flagCalls[c].at] =
           IF flagCalls[c].value = "unset" THEN Forgotten
           ELSE [value |-> flagCalls[c].value, expires |-> tick + FlagTtl, by |-> "set"]]
    /\ flagCalls' = [flagCalls EXCEPT ![c] = NoFlagCall]
    /\ UNCHANGED <<override, flag, tick, heldUntil, shown, flagBounds>>

FlagsNext ==
    \/ Tick
    \/ \E c \in FlagCalls :
        \/ RedisAnswers(c) \/ HearsFlag(c) \/ NotesFlag(c)
        \/ \E p \in Replicas : ReadFlag(c, p) \/ \E v \in FlagValues : SetFlag(c, p, v)
    \/ \E v \in FlagValues : OperatorSets(v)

FlagsSpec == FlagsInit /\ [][FlagsNext]_flagVars

-----------------------------------------------------------------------------
(* Properties *)

\* Every variable has its type.
FlagsTypeOK ==
    /\ {override, flag} \subseteq FlagValues
    /\ memory \in [Replicas -> [value: FlagValues, expires: 0..LastTick + FlagTtl,
                                by: {"none", "read", "set"}]]
    /\ flagCalls \in [FlagCalls -> [pc: {"idle", "asks", "hears", "stored"},
                                    at: Replicas \cup {"none"}, begun: 0..LastTick,
                                    value: FlagValues]]
    /\ tick \in 0..LastTick /\ heldUntil \in [FlagValues -> 0..LastTick]
    /\ shown \in [from: {"none", "env", "read", "set", "redis", "default"}, fresh: BOOLEAN]
    /\ flips \in 0..MaxFlips /\ flagReads \in 0..MaxFlagReads /\ flagFaults \in 0..MaxFlagFaults

\* Thirty seconds after a flag is changed no process answers the old value from its memory
\* (docs/ops/feature-flags.md:34), even when the change came while it waited for Redis;
\* only what set() in the process itself noted late may be older.
FlagsSettle == shown.from = "read" => shown.fresh
=============================================================================
