------------------------------- MODULE Quota -------------------------------
(***************************************************************************)
(* check_and_increment (quota/limiter.py): the Redis counters that limit   *)
(* the requests and tokens of a user, guest session or IP address.         *)
(*                                                                         *)
(* A handler is one of the requests in flight at a time.  It reads all its *)
(* counters, one GET each, compares them with their limits, and only then  *)
(* charges them, one INCR or INCRBY each, followed by EXPIRE when the      *)
(* value READ was 0.  Handlers that share counters interleave between any  *)
(* two commands, and a counter may expire at any time.                     *)
(***************************************************************************)
EXTENDS Naturals, Sequences, FiniteSets, FiniteSetsExt

CONSTANTS
    Handlers,       \* requests in flight at a time
    RequestKeys,    \* counters quota:...:requests
    TokenKeys,      \* counters quota:...:tokens
    KeysOf,         \* KeysOf[h]: the counters of h's caller, in checking order
    Limit,          \* Limit[k]
    TokenCount,     \* the estimate charged to token counters; post_chat passes 0
    MaxRequests,    \* bound: requests started
    MaxResets,      \* bound: expiries
    MaxFaults       \* bound: Redis errors

Keys == RequestKeys \cup TokenKeys

ASSUME KeysAssumption ==
    /\ RequestKeys \cap TokenKeys = {}
    /\ KeysOf \in [Handlers -> Seq(Keys)]
    /\ \A h \in Handlers : /\ KeysOf[h] # <<>>
                           /\ \A i, j \in DOMAIN KeysOf[h] : KeysOf[h][i] = KeysOf[h][j] => i = j
(* The event loop has finitely many requests in flight. *)
ASSUME HandlersAssumption == IsFiniteSet(Handlers)
ASSUME LimitAssumption == Limit \in [Keys -> Nat \ {0}] /\ TokenCount \in Nat
ASSUME QuotaBounds == MaxRequests \in Nat /\ MaxResets \in Nat /\ MaxFaults \in Nat

VARIABLES
    value,      \* value[k]: 0 when the key is absent
    present,    \* present[k]: the key exists
    timed,      \* timed[k]: the key has a time to live
    pc,         \* pc[h]: where h is in check_and_increment
    at,         \* at[h]: position in KeysOf[h]
    seen,       \* seen[h][k]: raw_values, 0 again once k is charged
    allowed,    \* allowed[h]: requests the limits let through
    started,    \* requests so far
    resets,     \* expiries so far
    faults,     \* Redis errors so far
    lapsed      \* lapsed[k]: k expired between a GET that found it and the INCR

redis == <<value, present, timed>>
local == <<pc, at, seen>>
vars == <<redis, local, allowed, started, resets, faults, lapsed>>

Places == {"idle", "reading", "checking", "charging", "expiring"}

Init ==
    /\ value = [k \in Keys |-> 0]
    /\ present = [k \in Keys |-> FALSE]
    /\ timed = [k \in Keys |-> FALSE]
    /\ pc = [h \in Handlers |-> "idle"]
    /\ at = [h \in Handlers |-> 1]
    /\ seen = [h \in Handlers |-> [k \in Keys |-> 0]]
    /\ allowed = [h \in Handlers |-> 0]
    /\ started = 0 /\ resets = 0 /\ faults = 0
    /\ lapsed = [k \in Keys |-> FALSE]

Key(h) == KeysOf[h][at[h]]
Cost(k) == IF k \in RequestKeys THEN 1 ELSE TokenCount
Goto(h, place) == pc' = [pc EXCEPT ![h] = place]

(* Faulty: one past the end of the list. *)
NextKeyTooFar(h, again, after) ==
    /\ at' = [at EXCEPT ![h] = IF @ > Len(KeysOf[h]) THEN 1 ELSE @ + 1]
    /\ Goto(h, IF at[h] > Len(KeysOf[h]) THEN after ELSE again)

(* To the next counter of the loop, or to after when there is none. *)
NextKey(h, again, after) ==
    /\ at' = [at EXCEPT ![h] = IF @ = Len(KeysOf[h]) THEN 1 ELSE @ + 1]
    /\ Goto(h, IF at[h] = Len(KeysOf[h]) THEN after ELSE again)

-----------------------------------------------------------------------------

Begin(h) ==
    /\ pc[h] = "idle"
    /\ started < MaxRequests
    /\ started' = started + 1
    /\ Goto(h, "reading")
    /\ UNCHANGED <<redis, at, seen, allowed, resets, faults, lapsed>>

Get(h) ==
    /\ pc[h] = "reading"
    /\ seen' = [seen EXCEPT ![h][Key(h)] = value[Key(h)]]
    /\ NextKey(h, "reading", "checking")
    /\ UNCHANGED <<redis, allowed, started, resets, faults, lapsed>>

(* raw_values is gone at the end of a request. *)
Forget(h) == seen' = [seen EXCEPT ![h] = [k \in Keys |-> 0]]

Exceeded(h) == \E i \in DOMAIN KeysOf[h] : seen[h][KeysOf[h][i]] >= Limit[KeysOf[h][i]]

Deny(h) ==
    /\ pc[h] = "checking"
    /\ Exceeded(h)
    /\ Goto(h, "idle")
    /\ Forget(h)
    /\ UNCHANGED <<redis, at, allowed, started, resets, faults, lapsed>>

(* Faulty: > instead of >= in the comparison. *)
AdmitAtLimit(h) ==
    /\ pc[h] = "checking"
    /\ \A i \in DOMAIN KeysOf[h] : seen[h][KeysOf[h][i]] <= Limit[KeysOf[h][i]]
    /\ Goto(h, "charging")
    /\ allowed' = [allowed EXCEPT ![h] = @ + 1]
    /\ UNCHANGED <<redis, at, seen, started, resets, faults, lapsed>>

Admit(h) ==
    /\ pc[h] = "checking"
    /\ ~Exceeded(h)
    /\ Goto(h, "charging")
    /\ allowed' = [allowed EXCEPT ![h] = @ + 1]
    /\ UNCHANGED <<redis, at, seen, started, resets, faults, lapsed>>

(* Faulty: limits are checked in the charging loop, counter by counter. *)
ChargeChecking(h) ==
    /\ pc[h] = "charging"
    /\ IF value[Key(h)] >= Limit[Key(h)]
       THEN /\ Goto(h, "idle")
            /\ at' = [at EXCEPT ![h] = 1]
            /\ UNCHANGED <<value, present>>
       ELSE /\ value' = [value EXCEPT ![Key(h)] = @ + Cost(Key(h))]
            /\ present' = [present EXCEPT ![Key(h)] = TRUE]
            /\ Goto(h, "expiring")
            /\ UNCHANGED at
    /\ UNCHANGED <<timed, seen, allowed, started, resets, faults, lapsed>>

(* Faulty: the value read is compared with the result of a first INCR, 1. *)
ChargeTimingSecond(h) ==
    /\ pc[h] = "charging"
    /\ value' = [value EXCEPT ![Key(h)] = @ + Cost(Key(h))]
    /\ present' = [present EXCEPT ![Key(h)] = TRUE]
    /\ seen' = [seen EXCEPT ![h][Key(h)] = 0]
    /\ IF seen[h][Key(h)] = 1
       THEN Goto(h, "expiring") /\ UNCHANGED at
       ELSE NextKey(h, "charging", "idle")
    /\ UNCHANGED <<timed, allowed, started, resets, faults, lapsed>>

(* INCR or INCRBY, followed by EXPIRE when the value read was 0. *)
Charge(h) ==
    /\ pc[h] = "charging"
    /\ value' = [value EXCEPT ![Key(h)] = @ + Cost(Key(h))]
    /\ present' = [present EXCEPT ![Key(h)] = TRUE]
    /\ seen' = [seen EXCEPT ![h][Key(h)] = 0]
    /\ IF seen[h][Key(h)] = 0
       THEN Goto(h, "expiring") /\ UNCHANGED at
       ELSE NextKey(h, "charging", "idle")
    /\ UNCHANGED <<timed, allowed, started, resets, faults, lapsed>>

(* EXPIRE does nothing when the key is gone. *)
SetTtl(h) ==
    /\ pc[h] = "expiring"
    /\ timed' = [timed EXCEPT ![Key(h)] = present[Key(h)]]
    /\ NextKey(h, "charging", "idle")
    /\ UNCHANGED <<value, present, seen, allowed, started, resets, faults, lapsed>>

(* A Redis command raises, or the request is cancelled. *)
Fault(h) ==
    /\ pc[h] \in Places \ {"idle", "checking"}
    /\ faults < MaxFaults
    /\ faults' = faults + 1
    /\ Goto(h, "idle")
    /\ at' = [at EXCEPT ![h] = 1]
    /\ Forget(h)
    /\ UNCHANGED <<redis, allowed, started, resets, lapsed>>

-----------------------------------------------------------------------------

Expires(k) ==
    /\ timed[k]
    /\ resets < MaxResets
    /\ resets' = resets + 1
    /\ value' = [value EXCEPT ![k] = 0]
    /\ present' = [present EXCEPT ![k] = FALSE]
    /\ timed' = [timed EXCEPT ![k] = FALSE]
    /\ lapsed' = [lapsed EXCEPT ![k] = @ \/ \E h \in Handlers : seen[h][k] > 0]
    /\ UNCHANGED <<local, allowed, started, faults>>

Next ==
    \/ \E h \in Handlers :
          \/ Begin(h) \/ Get(h) \/ Deny(h) \/ Admit(h)
          \/ Charge(h) \/ SetTtl(h) \/ Fault(h)
    \/ \E k \in Keys : Expires(k)

Spec == Init /\ [][Next]_vars

-----------------------------------------------------------------------------

TypeOK ==
    /\ value \in [Keys -> Nat]
    /\ present \in [Keys -> BOOLEAN]
    /\ timed \in [Keys -> BOOLEAN]
    /\ pc \in [Handlers -> Places]
    /\ at \in [Handlers -> Nat \ {0}]
    /\ \A h \in Handlers : at[h] \in DOMAIN KeysOf[h]
    /\ seen \in [Handlers -> [Keys -> Nat]]
    /\ allowed \in [Handlers -> Nat]
    /\ started \in 0..MaxRequests
    /\ resets \in 0..MaxResets
    /\ faults \in 0..MaxFaults
    /\ lapsed \in [Keys -> BOOLEAN]

Sharing(k) == {h \in Handlers : \E i \in DOMAIN KeysOf[h] : KeysOf[h][i] = k}

(* Checking all limits before charging any lets concurrent requests        *)
(* through together, but never more than there are in flight: a counter    *)
(* overshoots its limit by less than the sum of their charges (FR-26).     *)
OvershootBounded ==
    \A k \in Keys : value[k] <= Limit[k] - 1 + Cost(k) * Cardinality(Sharing(k))

(* "Check all limits before any mutation" (limiter.py): a request that is  *)
(* allowed charges all of its counters and one that is denied charges      *)
(* none.  At rest no counter is above the sum of what its callers were     *)
(* allowed, and it is below it only if it expired, or by the one charge    *)
(* that each Redis error in the middle of charging may have cost it.       *)
AllOrNothing ==
    (\A h \in Handlers : pc[h] = "idle") =>
        \A k \in Keys :
            LET owed == MapThenSumSet(LAMBDA h : Cost(k) * allowed[h], Sharing(k))
            IN /\ value[k] <= owed
               /\ resets = 0 => owed <= value[k] + Cost(k) * faults

(* A counter without a time to live is about to get one, or was recreated  *)
(* by an INCR after it had expired under a request that had read it, or an *)
(* error came between INCR and EXPIRE: nothing else loses the EXPIRE.      *)
UntimedOnlyByRace ==
    \A k \in Keys :
        (present[k] /\ ~timed[k]) =>
            \/ \E h \in Handlers : pc[h] = "expiring" /\ Key(h) = k
            \/ lapsed[k]
            \/ faults > 0

(* NFR-8: "No Redis key may be written without a TTL", at rest and without *)
(* Redis errors.                                                           *)
CountersExpire ==
    (faults = 0 /\ \A h \in Handlers : pc[h] = "idle") => \A k \in Keys : present[k] => timed[k]

=============================================================================
