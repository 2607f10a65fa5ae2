----------------------------- MODULE AuthProofs -----------------------------
(***************************************************************************)
(* Proofs about Auth for every set of handlers and spellings, all limits,  *)
(* lifetimes and bounds.                                                   *)
(*                                                                         *)
(* The inductive invariant is AuthInv, in three parts.  TokenInv says what *)
(* a request holds at each of its places, BlackLongEnough and              *)
(* UntimedOnlyByFault concern single keys.  LoginInv counts: a failure is  *)
(* bounded before it is counted, by the requests that are past a check and *)
(* by those that have still to set the lockout, since neither check is     *)
(* repeated when the counter grows.                                        *)
(***************************************************************************)
EXTENDS Auth, FiniteSetTheorems, TLAPS

(* What a request is at each of its places. *)
Fits(r) ==
    /\ r.at \in LoginSteps => r.job = "login"
    /\ r.at \in {"insert", "inserted"} => r.job = "register"
    /\ r.at \in {"read", "revoking"} => r.job = "refresh"
    /\ r.at = "blacklisting" => r.job = "logout"
    /\ r.at \in {"storing", "committing"} => r.job \in {"login", "register", "refresh"}

(* The tokens a request holds: a refresh or a logout one that was sent and, *)
(* once it has read it, committed; before its commit a new one that is not. *)
RequestOK(h) ==
    /\ Fits(req[h])
    /\ IF req[h].job \in {"refresh", "logout"} THEN req[h].old \in replied ELSE req[h].old = NoPair
    /\ req[h].job = "refresh" /\ req[h].at # "read" => status[req[h].old] # "none"
    /\ req[h].at = "committing" =>
          /\ req[h].new \in 1..issued
          /\ status[req[h].new] = "none" /\ parent[req[h].new] = req[h].old

NewTokensDiffer ==
    /\ \A n \in Pairs : n > issued => status[n] = "none"
    /\ \A g, h \in Handlers :
          At(g, "committing") /\ At(h, "committing") /\ req[g].new = req[h].new => g = h

(* Without an overlap one refresh at most holds a token, a valid one. *)
RotatedAlone ==
    \A n \in Pairs \ overlap :
        /\ Rotating(n) # {} => status[n] = "valid"
        /\ \A g, h \in Rotating(n) : g = h

ReqInv == TypeOK /\ \A h \in Handlers : RequestOK(h)
TokenInv == ReqInv /\ NewTokensDiffer /\ RotatedAlone

(* The blacklist entry of a logged out token outlives the token. *)
BlackLongEnough == \A n \in loggedOut : AccessExp(n) <= black[n]

(* A failure that will be counted is past both checks, or past the lockout *)
(* only; one that was counted and reached the limit sets the lockout next. *)
Past(k) == {h \in Handlers : req[h].at \in {"verify", "failing"} /\ KeyOf(h) = k}
Through(k) == {h \in Handlers : req[h].at \in {"ratecheck", "verify", "failing"} /\ KeyOf(h) = k}
Lockers(k) == {h \in Handlers : /\ req[h].at \in {"expiring", "locking"} /\ KeyOf(h) = k
                                /\ req[h].got >= SoftLimit}

RateBound(k) == count[k] + Cardinality(Past(k)) <= RateLimit - 1 + Cardinality(Handlers)

SoftBound(k) == k \notin gap => count[k] + Cardinality(Through(k)) <= SoftLimit - 1 + Cardinality(Handlers)

(* Without a lockout the counter is below the limit, or those who took it  *)
(* there are still to set it.                                              *)
LockBound(k) ==
    k \notin gap \cup locked => count[k] <= SoftLimit - 1 + Cardinality(Lockers(k))

Bounded(k) == RateBound(k) /\ SoftBound(k) /\ LockBound(k)

-----------------------------------------------------------------------------
(* Steps of a request. *)

LEMMA IdleFacts ==
  /\ Idle.at = "idle" /\ Idle.job = "none" /\ Idle \notin Requests
  /\ \A x \in Requests : x.at \in Steps /\ x.at # "idle"
  BY DEF Idle, Requests, Steps, LoginSteps

LEMMA Busy ==
  ASSUME TypeOK, NEW h \in Handlers, req[h].at # "idle"
  PROVE  req[h] \in Requests
  BY IdleFacts DEF TypeOK

(* The request goes on at another place. *)
LEMMA GotoFacts ==
  ASSUME TypeOK, NEW h \in Handlers, ~At(h, "idle"), NEW place \in Steps, Goto(h, place)
  PROVE  /\ req' \in [Handlers -> Requests \cup {Idle}]
         /\ \A g \in Handlers \ {h} : req'[g] = req[g]
         /\ req'[h] = [req[h] EXCEPT !.at = place]
         /\ req'[h].at = place /\ req'[h].job = req[h].job /\ req'[h].typed = req[h].typed
         /\ req'[h].old = req[h].old /\ req'[h].new = req[h].new /\ req'[h].got = req[h].got
  <1>1. req[h] \in Requests
    BY Busy DEF At
  <1>2. [req[h] EXCEPT !.at = place] \in Requests
    BY <1>1 DEF Requests
  <1>3. /\ \A g \in Handlers \ {h} : req'[g] = req[g]
        /\ req'[h] = [req[h] EXCEPT !.at = place]
        /\ req' \in [Handlers -> Requests \cup {Idle}]
    BY <1>2 DEF Goto, TypeOK
  <1>4. QED
    BY <1>1, <1>3 DEF Requests

(* It ends. *)
LEMMA FinishFacts ==
  ASSUME TypeOK, NEW h \in Handlers, Finish(h)
  PROVE  /\ req' \in [Handlers -> Requests \cup {Idle}]
         /\ \A g \in Handlers \ {h} : req'[g] = req[g]
         /\ req'[h] = Idle /\ req'[h].at = "idle" /\ req'[h].job = "none"
  BY IdleFacts DEF Finish, TypeOK

(* It begins. *)
LEMMA BeginFacts ==
  ASSUME TypeOK, NEW h \in Handlers, NEW request \in Requests, Begin(h, request)
  PROVE  /\ req' \in [Handlers -> Requests \cup {Idle}]
         /\ \A g \in Handlers \ {h} : req'[g] = req[g]
         /\ req'[h] = request
  BY DEF Begin, TypeOK

(* What record_failed_attempt does after the counter. *)
LEMMA CounterFacts ==
  ASSUME TypeOK, NEW h \in Handlers, ~At(h, "idle"), NEW n \in Nat,
         \/ AfterCounter(h, n)
         \/ req' = [req EXCEPT ![h].at = "expiring", ![h].got = n]
  PROVE  /\ req' \in [Handlers -> Requests \cup {Idle}]
         /\ \A g \in Handlers \ {h} : req'[g] = req[g]
         /\ \/ req'[h] = Idle /\ req'[h].at = "idle" /\ req'[h].job = "none"
            \/ /\ req'[h].at \in {"locking", "expiring"} /\ req'[h].job = req[h].job
               /\ req'[h].typed = req[h].typed /\ req'[h].got = n
               /\ req'[h].old = req[h].old /\ req'[h].new = req[h].new
         /\ n >= SoftLimit => req'[h].at # "idle"
  <1>1. req[h] \in Requests
    BY Busy DEF At
  <1>2. CASE ~(n >= SoftLimit) /\ Finish(h)
    BY <1>2, FinishFacts
  <1>3. ASSUME NEW place \in {"locking", "expiring"},
               req' = [req EXCEPT ![h].at = place, ![h].got = n]
        PROVE  /\ req' \in [Handlers -> Requests \cup {Idle}]
               /\ \A g \in Handlers \ {h} : req'[g] = req[g]
               /\ req'[h].at = place /\ req'[h].job = req[h].job
               /\ req'[h].typed = req[h].typed /\ req'[h].got = n
               /\ req'[h].old = req[h].old /\ req'[h].new = req[h].new
    <2> DEFINE next == [req[h] EXCEPT !.at = place, !.got = n]
    <2>1. place \in Steps
      BY DEF Steps, LoginSteps
    <2>2. next \in Requests
      BY <1>1, <2>1 DEF Requests
    <2>3. /\ req'[h] = next
          /\ \A g \in Handlers \ {h} : req'[g] = req[g]
          /\ req' \in [Handlers -> Requests \cup {Idle}]
      BY <1>3, <2>2 DEF TypeOK
    <2>4. QED
      BY <1>1, <2>3 DEF Requests
  <1>4. QED
    BY <1>2, <1>3 DEF AfterCounter

-----------------------------------------------------------------------------
(* Types. *)

LEMMA ConstantFacts ==
  /\ AccessLife \in Nat /\ RefreshLife \in Nat /\ SoftLimit \in Nat /\ RateLimit \in Nat
  /\ MaxRequests \in Nat /\ MaxPairs \in Nat /\ MaxTime \in Nat /\ MaxFaults \in Nat
  /\ \A s \in Spellings : Key[s] \in Keys /\ Stored[s] \in Accounts
  BY LimitsAssumption, BoundsAssumption DEF Keys, Accounts

LEMMA KeyFacts ==
  ASSUME TypeOK, NEW h \in Handlers, ~At(h, "idle")
  PROVE  KeyOf(h) \in Keys /\ Stored[req[h].typed] \in Accounts
  <1>1. req[h].typed \in Spellings
    BY Busy DEF At, Requests
  <1>2. QED
    BY <1>1, ConstantFacts DEF KeyOf

LEMMA RepliedArePairs == TypeOK => replied \subseteq Pairs /\ \A n \in Pairs : AccessExp(n) \in Nat
  <1>1. ASSUME TypeOK, NEW n \in replied PROVE n \in Pairs
    <2>1. n \in 1..issued /\ issued \in 0..MaxPairs /\ MaxPairs \in Nat
      BY <1>1, ConstantFacts DEF TypeOK
    <2>2. QED
      BY <2>1 DEF Pairs
  <1>2. ASSUME TypeOK, NEW n \in Pairs PROVE AccessExp(n) \in Nat
    BY <1>2, ConstantFacts DEF TypeOK, AccessExp
  <1>3. QED
    BY <1>1, <1>2

LEMMA InitType == Init => TypeOK
  BY ConstantFacts DEF Init, TypeOK, Pairs

LEMMA BeginType ==
  ASSUME TypeOK, NEW h \in Handlers,
         \/ \E s \in Spellings : Register(h, s) \/ \E correct \in BOOLEAN : Login(h, s, correct)
         \/ \E n \in Pairs : Refresh(h, n) \/ Logout(h, n)
  PROVE  TypeOK'
  <1>1. ASSUME NEW request \in Requests, Begin(h, request) PROVE TypeOK'
    <2>1. req' \in [Handlers -> Requests \cup {Idle}]
      BY <1>1, BeginFacts
    <2>2. QED
      BY <1>1, <2>1 DEF Begin, TypeOK, redis, tables, history, ledger
  <1>2. Idle.typed \in Spellings
    BY SpellingsAssumption DEF Idle
  <1>3. ASSUME NEW s \in Spellings, NEW correct \in BOOLEAN
        PROVE  /\ [Idle EXCEPT !.job = "register", !.at = "insert", !.typed = s] \in Requests
               /\ [Idle EXCEPT !.job = "login", !.at = "lockcheck", !.typed = s, !.right = correct]
                     \in Requests
    BY DEF Idle, Requests, Steps, LoginSteps
  <1>4. ASSUME NEW n \in Pairs
        PROVE  /\ [Idle EXCEPT !.job = "refresh", !.at = "read", !.old = n] \in Requests
               /\ [Idle EXCEPT !.job = "logout", !.at = "blacklisting", !.old = n] \in Requests
    BY <1>2 DEF Idle, Requests, Steps, LoginSteps
  <1>5. QED
    BY <1>1, <1>3, <1>4 DEF Register, Login, Refresh, Logout

(* The steps of a request leave the types; a fault does, too. *)
LEMMA HandleType ==
  ASSUME ReqInv, NEW h \in Handlers, Handle(h) \/ Fault(h)
  PROVE  TypeOK'
  <1>0. TypeOK /\ RequestOK(h)
    BY DEF ReqInv
  <1> USE <1>0, ConstantFacts DEF redis, tables, bounds, history, ledger, TypeOK, Pairs
  <1> DEFINE ReqType == req' \in [Handlers -> Requests \cup {Idle}]
  <1>1. ASSUME NEW place \in Steps, ~At(h, "idle"), Goto(h, place) PROVE ReqType
    BY <1>1, GotoFacts
  <1>2. ASSUME Finish(h) PROVE ReqType
    BY <1>2, FinishFacts
  <1>3. \A place \in LoginSteps \cup {"storing", "committing"} :
          place \in Steps /\ (At(h, place) => ~At(h, "idle"))
    BY DEF Steps, LoginSteps, At
  <1>4. \A place \in {"insert", "inserted", "read", "revoking", "blacklisting"} :
          place \in Steps /\ (At(h, place) => ~At(h, "idle"))
    BY DEF Steps, At
  <1>5. ~At(h, "idle") => KeyOf(h) \in Keys /\ Stored[req[h].typed] \in Accounts /\ req[h] \in Requests
    BY KeyFacts, Busy DEF At
  <1>6. CASE CheckLock(h)
    <2>1. ReqType
      BY <1>6, <1>1, <1>2, <1>3 DEF CheckLock, LoginSteps
    <2>2. QED
      BY <1>6, <2>1 DEF CheckLock
  <1>7. CASE CheckRate(h)
    <2>1. ReqType
      BY <1>7, <1>1, <1>2, <1>3 DEF CheckRate, LoginSteps
    <2>2. QED
      BY <1>7, <2>1 DEF CheckRate
  <1>8. CASE Verify(h)
    <2>1. ReqType
      BY <1>8, <1>1, <1>3 DEF Verify, LoginSteps
    <2>2. QED
      BY <1>8, <2>1 DEF Verify
  <1>9. CASE CountFailure(h)
    <2>1. ~At(h, "idle") /\ count[KeyOf(h)] + 1 \in Nat
      BY <1>9, <1>3, <1>5 DEF CountFailure, LoginSteps
    <2>2. ReqType
      BY <1>9, <2>1, CounterFacts DEF CountFailure
    <2>3. QED
      BY <1>9, <2>1, <2>2 DEF CountFailure
  <1>10. CASE ExpireCounter(h)
    <2>1. ~At(h, "idle") /\ req[h].got \in Nat /\ KeyOf(h) \in Keys
      BY <1>10, <1>3, <1>5 DEF ExpireCounter, LoginSteps, Requests
    <2>2. ReqType
      BY <1>10, <2>1, CounterFacts DEF ExpireCounter
    <2>3. QED
      BY <1>10, <2>1, <2>2 DEF ExpireCounter
  <1>11. CASE SetLock(h)
    <2>1. ~At(h, "idle") /\ KeyOf(h) \in Keys
      BY <1>11, <1>3, <1>5 DEF SetLock, LoginSteps
    <2>2. QED
      BY <1>11, <1>2, <2>1 DEF SetLock
  <1>12. CASE ResetCounters(h)
    <2>1. ~At(h, "idle") /\ KeyOf(h) \in Keys
      BY <1>12, <1>3, <1>5 DEF ResetCounters, LoginSteps
    <2>2. ReqType
      BY <1>12, <1>1, <1>3, <2>1 DEF ResetCounters, LoginSteps
    <2>3. QED
      BY <1>12, <2>1, <2>2 DEF ResetCounters
  <1>13. CASE UpdateUser(h)
    <2>1. ReqType
      BY <1>13, <1>1, <1>3 DEF UpdateUser, LoginSteps
    <2>2. QED
      BY <1>13, <2>1 DEF UpdateUser
  <1>14. CASE InsertUser(h)
    <2>1. ReqType
      BY <1>14, <1>1, <1>2, <1>4 DEF InsertUser
    <2>2. QED
      BY <1>14, <2>1 DEF InsertUser
  <1>15. CASE CommitUser(h)
    <2>1. ReqType
      BY <1>15, <1>1, <1>3, <1>4 DEF CommitUser
    <2>2. QED
      BY <1>15, <1>4, <1>5, <2>1 DEF CommitUser
  <1>16. CASE ReadToken(h)
    <2>1. ReqType
      BY <1>16, <1>1, <1>2, <1>4 DEF ReadToken
    <2>2. overlap' \subseteq Pairs
      <3>1. CASE overlap' = overlap
        BY <3>1
      <3>2. CASE overlap' = overlap \cup {req[h].old}
        <4>1. req[h].old \in replied
          BY <1>16 DEF ReadToken, At, RequestOK, Fits
        <4>2. QED
          BY <3>2, <4>1, RepliedArePairs
      <3>3. QED
        BY <1>16, <3>1, <3>2 DEF ReadToken
    <2>3. QED
      BY <1>16, <2>1, <2>2 DEF ReadToken
  <1>17. CASE Revoke(h)
    <2>1. ReqType
      BY <1>17, <1>1, <1>3, <1>4 DEF Revoke
    <2>2. QED
      BY <1>17, <2>1 DEF Revoke
  <1>18. CASE StoreToken(h)
    <2> DEFINE next == [req[h] EXCEPT !.at = "committing", !.new = issued + 1]
    <2>1. /\ ~At(h, "idle") /\ issued + 1 \in 1..MaxPairs
          /\ req[h] \in Requests /\ "committing" \in Steps
      BY <1>18, <1>3, <1>5 DEF StoreToken
    <2>2. next \in Requests
      BY <2>1 DEF Requests
    <2>3. ReqType
      BY <1>18, <2>2 DEF StoreToken
    <2>4. req[h].old \in Pairs \cup {NoPair}
      BY <2>1 DEF Requests
    <2>a. issued' = issued + 1 /\ issued' \in Pairs
      BY <1>18, <2>1 DEF StoreToken
    <2>b. born' \in [Pairs -> Nat] /\ parent' \in [Pairs -> Pairs \cup {NoPair}]
      BY <1>18, <2>4, <2>a DEF StoreToken
    <2>c. /\ replied' \in {replied, replied \cup {issued + 1}}
          /\ durable' = durable /\ loggedOut' = loggedOut
      BY <1>18, <2>a DEF StoreToken
    <2>5. /\ issued' \in 0..MaxPairs /\ replied' \subseteq 1..issued'
          /\ durable' \subseteq replied' /\ loggedOut' \subseteq replied'
      BY <2>1, <2>a, <2>c
    <2>6. QED
      BY <1>18, <2>3, <2>b, <2>5, <2>c DEF StoreToken
  <1>19. CASE Commit(h)
    <2>1. req[h].new \in 1..issued
      BY <1>19 DEF Commit, At, RequestOK
    <2>2. ReqType
      BY <1>19, <1>2 DEF Commit
    <2>3. status' \in [Pairs -> {"none", "valid", "revoked"}]
      BY <1>19 DEF Commit
    <2>4. replied' \subseteq 1..issued /\ durable' \subseteq replied' /\ loggedOut \subseteq replied'
      BY <1>19, <2>1 DEF Commit
    <2>5. QED
      BY <1>19, <2>2, <2>3, <2>4 DEF Commit
  <1>20. CASE Blacklist(h)
    <2>1. req[h].old \in replied
      BY <1>20 DEF Blacklist, At, RequestOK, Fits
    <2>2. req[h].old \in Pairs /\ AccessExp(req[h].old) \in Nat
      BY <2>1, RepliedArePairs
    <2> DEFINE until == IF now < AccessExp(req[h].old) THEN AccessExp(req[h].old) ELSE now + 1
    <2>a. until \in Nat /\ black' = [black EXCEPT ![req[h].old] = until]
      BY <1>20, <2>2 DEF Blacklist
    <2> HIDE DEF until
    <2>3. black' \in [Pairs -> Nat] /\ loggedOut' \subseteq replied
      BY <1>20, <2>1, <2>2, <2>a DEF Blacklist
    <2>4. ReqType
      BY <1>20, <1>2 DEF Blacklist
    <2>5. QED
      BY <1>20, <2>3, <2>4 DEF Blacklist
  <1>21. CASE Fault(h)
    <2>1. ReqType
      BY <1>21, <1>2 DEF Fault
    <2>2. KeyOf(h) \in Keys
      BY <1>21, <1>5 DEF Fault
    <2>3. broken' \subseteq Keys /\ gap' \subseteq Keys
      BY <1>21, <2>2 DEF Fault
    <2>4. QED
      BY <1>21, <2>1, <2>3 DEF Fault
  <1>22. QED
    BY <1>6, <1>7, <1>8, <1>9, <1>10, <1>11, <1>12, <1>13, <1>14, <1>15, <1>16, <1>17,
       <1>18, <1>19, <1>20, <1>21 DEF Handle

LEMMA TimeType ==
  ASSUME TypeOK, Tick \/ \E k \in Keys : CounterExpires(k) \/ LockExpires(k)
  PROVE  TypeOK'
  <1> USE DEF redis, tables, bounds, history, ledger, TypeOK
  <1>1. CASE Tick
    BY <1>1 DEF Tick
  <1>2. ASSUME NEW k \in Keys, CounterExpires(k) PROVE TypeOK'
    BY <1>2 DEF CounterExpires
  <1>3. ASSUME NEW k \in Keys, LockExpires(k) PROVE TypeOK'
    BY <1>3 DEF LockExpires
  <1>4. QED
    BY <1>1, <1>2, <1>3

-----------------------------------------------------------------------------
(* Which steps touch tokens. *)

(* Steps that leave the tokens alone: the request ends or moves on. *)
Quiet(h) ==
    /\ UNCHANGED <<status, parent, issued, replied, durable, overlap>>
    /\ \A g \in Handlers \ {h} : req'[g] = req[g]
    /\ \/ req'[h] = Idle
       \/ /\ req'[h].job = req[h].job /\ req'[h].old = req[h].old
          /\ Fits(req'[h]) /\ req'[h].at # "committing"
          /\ req[h].job = "refresh" => req[h].at = "revoking" /\ req'[h].at = "storing"

LEMMA QuietSteps ==
  ASSUME ReqInv, NEW h \in Handlers, Handle(h) \/ Fault(h),
         ~ReadToken(h), ~StoreToken(h), ~Commit(h)
  PROVE  Quiet(h)
  <1>0. TypeOK /\ Fits(req[h])
    BY DEF ReqInv, RequestOK
  <1> USE DEF redis, tables, bounds, history, ledger
  <1>1. ASSUME Finish(h), UNCHANGED <<status, parent, issued, replied, durable, overlap>>
        PROVE  Quiet(h)
    BY <1>0, <1>1, FinishFacts DEF Quiet
  <1>2. ASSUME NEW place \in Steps, Goto(h, place), ~At(h, "idle"),
               place \in LoginSteps \cup {"storing"}, req[h].at \in LoginSteps,
               UNCHANGED <<status, parent, issued, replied, durable, overlap>>
        PROVE  Quiet(h)
    <2>1. /\ req'[h].at = place /\ req'[h].job = req[h].job /\ req'[h].old = req[h].old
          /\ \A g \in Handlers \ {h} : req'[g] = req[g]
      BY <1>0, <1>2, GotoFacts
    <2>2. req[h].job = "login"
      BY <1>0, <1>2 DEF Fits
    <2>3. QED
      BY <1>2, <2>1, <2>2 DEF Quiet, Fits, LoginSteps
  <1>3. ASSUME NEW n \in Nat, req[h].at \in LoginSteps,
               \/ AfterCounter(h, n)
               \/ req' = [req EXCEPT ![h].at = "expiring", ![h].got = n],
               UNCHANGED <<status, parent, issued, replied, durable, overlap>>
        PROVE  Quiet(h)
    <2>1. ~At(h, "idle") /\ req[h].job = "login"
      BY <1>0, <1>3 DEF Fits, At, LoginSteps
    <2>2. /\ \A g \in Handlers \ {h} : req'[g] = req[g]
          /\ \/ req'[h] = Idle
             \/ /\ req'[h].at \in {"locking", "expiring"} /\ req'[h].job = req[h].job
                /\ req'[h].old = req[h].old
      BY <1>0, <1>3, <2>1, CounterFacts
    <2>3. QED
      BY <1>3, <2>1, <2>2 DEF Quiet, Fits, LoginSteps
  <1>4. CASE CheckLock(h)
    BY <1>4, <1>1, <1>2 DEF CheckLock, LoginSteps, Steps, At
  <1>5. CASE CheckRate(h)
    BY <1>5, <1>1, <1>2 DEF CheckRate, LoginSteps, Steps, At
  <1>6. CASE Verify(h)
    BY <1>6, <1>2 DEF Verify, LoginSteps, Steps, At
  <1>7. CASE CountFailure(h)
    <2>1. ~At(h, "idle") /\ req[h].at \in LoginSteps
      BY <1>7 DEF CountFailure, LoginSteps, At
    <2>2. count[KeyOf(h)] + 1 \in Nat
      BY <1>0, <2>1, KeyFacts DEF TypeOK
    <2>3. QED
      BY <1>7, <2>1, <2>2, <1>3 DEF CountFailure
  <1>8. CASE ExpireCounter(h)
    <2>1. ~At(h, "idle") /\ req[h].at \in LoginSteps
      BY <1>8 DEF ExpireCounter, LoginSteps, At
    <2>2. req[h].got \in Nat
      BY <1>0, <2>1, Busy DEF At, Requests
    <2>3. QED
      BY <1>8, <2>1, <2>2, <1>3 DEF ExpireCounter
  <1>9. CASE SetLock(h)
    BY <1>9, <1>1 DEF SetLock
  <1>10. CASE ResetCounters(h)
    BY <1>10, <1>2 DEF ResetCounters, LoginSteps, Steps, At
  <1>11. CASE UpdateUser(h)
    BY <1>11, <1>2 DEF UpdateUser, LoginSteps, Steps, At
  <1>12. CASE InsertUser(h)
    <2>1. CASE Finish(h)
      BY <1>12, <2>1, <1>1 DEF InsertUser
    <2>2. CASE Goto(h, "inserted")
      <3>1. ~At(h, "idle") /\ req[h].job = "register" /\ "inserted" \in Steps
        BY <1>0, <1>12 DEF InsertUser, At, Fits, Steps
      <3>2. /\ req'[h].at = "inserted" /\ req'[h].job = "register" /\ req'[h].old = req[h].old
            /\ \A g \in Handlers \ {h} : req'[g] = req[g]
        BY <1>0, <2>2, <3>1, GotoFacts
      <3>3. QED
        BY <1>12, <3>1, <3>2 DEF InsertUser, Quiet, Fits, LoginSteps
    <2>3. QED
      BY <1>12, <2>1, <2>2 DEF InsertUser
  <1>13. CASE CommitUser(h)
    <2>1. ~At(h, "idle") /\ req[h].job = "register" /\ "storing" \in Steps
      BY <1>0, <1>13 DEF CommitUser, At, Fits, Steps
    <2>2. /\ req'[h].at = "storing" /\ req'[h].job = "register" /\ req'[h].old = req[h].old
          /\ \A g \in Handlers \ {h} : req'[g] = req[g]
      BY <1>0, <1>13, <2>1, GotoFacts DEF CommitUser
    <2>3. QED
      BY <1>13, <2>1, <2>2 DEF CommitUser, Quiet, Fits, LoginSteps
  <1>14. CASE Revoke(h)
    <2>1. ~At(h, "idle") /\ req[h].at = "revoking" /\ req[h].job = "refresh" /\ "storing" \in Steps
      BY <1>0, <1>14 DEF Revoke, At, Fits, Steps
    <2>2. /\ req'[h].at = "storing" /\ req'[h].job = "refresh" /\ req'[h].old = req[h].old
          /\ \A g \in Handlers \ {h} : req'[g] = req[g]
      BY <1>0, <1>14, <2>1, GotoFacts DEF Revoke
    <2>3. QED
      BY <1>14, <2>1, <2>2 DEF Revoke, Quiet, Fits, LoginSteps
  <1>15. CASE Blacklist(h)
    BY <1>15, <1>1 DEF Blacklist
  <1>16. CASE Fault(h)
    BY <1>16, <1>1 DEF Fault
  <1>17. QED
    BY <1>4, <1>5, <1>6, <1>7, <1>8, <1>9, <1>10, <1>11, <1>12, <1>13, <1>14, <1>15, <1>16
       DEF Handle

(* A refresh reads its token as valid, alone or with an overlap. *)
Reads(h) ==
    /\ UNCHANGED <<status, parent, issued, replied, durable>>
    /\ \A g \in Handlers \ {h} : req'[g] = req[g]
    /\ req[h].at = "read" /\ req[h].job = "refresh" /\ status[req[h].old] = "valid"
    /\ req'[h].at = "revoking" /\ req'[h].job = "refresh" /\ req'[h].old = req[h].old
    /\ overlap' = IF Rotating(req[h].old) = {} THEN overlap ELSE overlap \cup {req[h].old}

LEMMA ReadSteps ==
  ASSUME ReqInv, NEW h \in Handlers, ReadToken(h)
  PROVE  Quiet(h) \/ Reads(h)
  <1>1. TypeOK /\ ~At(h, "idle") /\ req[h].at = "read" /\ req[h].job = "refresh"
    BY DEF ReadToken, At, ReqInv, RequestOK, Fits
  <1>2. CASE Finish(h) /\ UNCHANGED overlap
    BY <1>1, <1>2, FinishFacts DEF ReadToken, Quiet, tables
  <1>3. CASE Goto(h, "revoking") /\ status[req[h].old] = "valid"
    <2>1. /\ req'[h].at = "revoking" /\ req'[h].job = req[h].job /\ req'[h].old = req[h].old
          /\ \A g \in Handlers \ {h} : req'[g] = req[g]
      BY <1>1, <1>3, GotoFacts DEF Steps
    <2>2. CASE overlap' = IF Rotating(req[h].old) = {} THEN overlap ELSE overlap \cup {req[h].old}
      BY <1>1, <1>3, <2>1, <2>2 DEF ReadToken, Reads, tables
    <2>3. CASE Finish(h)
      BY <1>1, <2>1, <2>3, FinishFacts
    <2>4. QED
      BY <2>2, <2>3 DEF ReadToken
  <1>4. QED
    BY <1>2, <1>3 DEF ReadToken

(* A new token is made, uncommitted. *)
Stores(h) ==
    /\ UNCHANGED <<status, durable, overlap>>
    /\ \A g \in Handlers \ {h} : req'[g] = req[g]
    /\ req[h].at = "storing" /\ req'[h].at = "committing"
    /\ req'[h].job = req[h].job /\ req'[h].old = req[h].old /\ req'[h].new = issued + 1
    /\ issued' = issued + 1 /\ issued + 1 \in Pairs
    /\ \A n \in Pairs : n # issued + 1 => parent'[n] = parent[n]
    /\ parent'[issued + 1] = req[h].old
    /\ replied' \in {replied, replied \cup {issued + 1}}

LEMMA StoreSteps ==
  ASSUME ReqInv, NEW h \in Handlers, StoreToken(h)
  PROVE  Stores(h)
  <1>1. TypeOK /\ ~At(h, "idle") /\ req[h].at = "storing"
    BY DEF StoreToken, At, ReqInv
  <1>2. req[h] \in Requests
    BY <1>1, Busy DEF At
  <1>3. issued + 1 \in Pairs /\ issued' = issued + 1
    BY <1>1, ConstantFacts DEF StoreToken, TypeOK, Pairs
  <1> DEFINE next == [req[h] EXCEPT !.at = "committing", !.new = issued + 1]
  <1>4. /\ next.at = "committing" /\ next.job = req[h].job /\ next.old = req[h].old
        /\ next.new = issued + 1
    BY <1>2 DEF Requests
  <1>5. req' = [req EXCEPT ![h] = next]
    BY <1>1, <1>3 DEF StoreToken, TypeOK
  <1> HIDE DEF next
  <1>6. req'[h] = next /\ \A g \in Handlers \ {h} : req'[g] = req[g]
    BY <1>1, <1>5 DEF TypeOK
  <1>7. parent' = [parent EXCEPT ![issued + 1] = req[h].old]
    BY <1>3 DEF StoreToken
  <1>8. /\ \A n \in Pairs : n # issued + 1 => parent'[n] = parent[n]
        /\ parent'[issued + 1] = req[h].old
    BY <1>1, <1>3, <1>7 DEF TypeOK
  <1>9. QED
    BY <1>1, <1>3, <1>4, <1>6, <1>8 DEF StoreToken, Stores

(* The new token is committed and the old one revoked. *)
Commits(h) ==
    /\ UNCHANGED <<parent, issued, overlap>>
    /\ \A g \in Handlers \ {h} : req'[g] = req[g]
    /\ req[h].at = "committing" /\ req'[h] = Idle
    /\ \A n \in Pairs : status'[n] = IF n = req[h].new THEN "valid"
                                     ELSE IF n = req[h].old THEN "revoked" ELSE status[n]
    /\ \/ UNCHANGED <<replied, durable>>
       \/ replied' = replied \cup {req[h].new} /\ durable' = durable \cup {req[h].new}

LEMMA CommitSteps ==
  ASSUME ReqInv, NEW h \in Handlers, Commit(h)
  PROVE  Commits(h)
  BY FinishFacts DEF ReqInv, Commit, Commits, At

(* A request begins. *)
Begins(h) ==
    /\ UNCHANGED <<status, parent, issued, replied, durable, overlap>>
    /\ \A g \in Handlers \ {h} : req'[g] = req[g]
    /\ req[h].at = "idle"
    /\ \/ /\ req'[h].job \in {"login", "register"} /\ req'[h].old = NoPair
          /\ req'[h].at \in {"lockcheck", "insert"}
       \/ req'[h].job = "refresh" /\ req'[h].at = "read" /\ req'[h].old \in replied
       \/ req'[h].job = "logout" /\ req'[h].at = "blacklisting" /\ req'[h].old \in replied
    /\ Fits(req'[h])

LEMMA BeginSteps ==
  ASSUME ReqInv, NEW h \in Handlers,
         \/ \E s \in Spellings : Register(h, s) \/ \E correct \in BOOLEAN : Login(h, s, correct)
         \/ \E n \in Pairs : Refresh(h, n) \/ Logout(h, n)
  PROVE  Begins(h)
  <1>1. ASSUME NEW request, Begin(h, request)
        PROVE  /\ UNCHANGED <<status, parent, issued, replied, durable, overlap>>
               /\ \A g \in Handlers \ {h} : req'[g] = req[g]
               /\ req[h].at = "idle" /\ req'[h] = request
    BY <1>1 DEF Begin, ReqInv, TypeOK, tables, history, ledger, At
  <1> DEFINE Fresh(r) ==
        /\ \/ r.job \in {"login", "register"} /\ r.old = NoPair /\ r.at \in {"lockcheck", "insert"}
           \/ r.job = "refresh" /\ r.at = "read" /\ r.old \in replied
           \/ r.job = "logout" /\ r.at = "blacklisting" /\ r.old \in replied
        /\ Fits(r)
  <1>2. ASSUME NEW request, Begin(h, request), Fresh(request) PROVE Begins(h)
    <2>1. Fresh(req'[h])
      BY <1>1, <1>2
    <2>2. QED
      BY <1>1, <1>2, <2>1 DEF Begins
  <1>3. ASSUME NEW s, NEW correct
        PROVE  /\ Fresh([Idle EXCEPT !.job = "register", !.at = "insert", !.typed = s])
               /\ Fresh([Idle EXCEPT !.job = "login", !.at = "lockcheck", !.typed = s, !.right = correct])
    BY DEF Idle, Fits, LoginSteps
  <1>4. ASSUME NEW n \in replied
        PROVE  /\ Fresh([Idle EXCEPT !.job = "refresh", !.at = "read", !.old = n])
               /\ Fresh([Idle EXCEPT !.job = "logout", !.at = "blacklisting", !.old = n])
    BY DEF Idle, Fits, LoginSteps
  <1> HIDE DEF Fresh
  <1>5. QED
    BY <1>2, <1>3, <1>4 DEF Register, Login, Refresh, Logout

(* Every step is one of these, or leaves requests and tokens alone. *)
Rests == UNCHANGED <<req, status, parent, issued, replied, durable, overlap>>

LEMMA StepKinds ==
  ASSUME ReqInv, [Next]_vars
  PROVE  \/ Rests
         \/ \E h \in Handlers : Quiet(h) \/ Reads(h) \/ Stores(h) \/ Commits(h) \/ Begins(h)
  <1>1. ASSUME NEW h \in Handlers, Handle(h) \/ Fault(h)
        PROVE  Quiet(h) \/ Reads(h) \/ Stores(h) \/ Commits(h)
    BY <1>1, QuietSteps, ReadSteps, StoreSteps, CommitSteps
  <1>2. CASE UNCHANGED vars
    BY <1>2 DEF vars, tables, history, ledger, Rests
  <1>3. CASE Tick \/ \E k \in Keys : CounterExpires(k) \/ LockExpires(k)
    BY <1>3 DEF Tick, CounterExpires, LockExpires, tables, history, ledger, Rests
  <1>4. QED
    BY <1>1, <1>2, <1>3, BeginSteps DEF Next

LEMMA TypeStep ==
  ASSUME ReqInv, [Next]_vars
  PROVE  TypeOK'
  <1>1. TypeOK
    BY DEF ReqInv
  <1>2. CASE UNCHANGED vars
    BY <1>1, <1>2 DEF TypeOK, vars, redis, tables, bounds, history, ledger
  <1>3. QED
    BY <1>1, <1>2, BeginType, HandleType, TimeType DEF Next

-----------------------------------------------------------------------------
(* The invariant of the requests. *)

LEMMA NewTokenFacts ==
  ASSUME ReqInv, NEW h \in Handlers, req[h].at = "committing"
  PROVE  /\ req[h].new \in Pairs /\ req[h].new # req[h].old /\ req[h].new # issued + 1
         /\ req[h].job = "refresh" => req[h].old \in Pairs
  <1>1. RequestOK(h) /\ TypeOK
    BY DEF ReqInv
  <1>2. req[h].new \in 1..issued /\ issued \in Nat /\ replied \subseteq Pairs
    BY <1>1, ConstantFacts, RepliedArePairs DEF RequestOK, TypeOK
  <1>3. req[h].new \in Pairs /\ req[h].new # issued + 1
    BY <1>1, <1>2, ConstantFacts DEF TypeOK, Pairs
  <1>4. req[h].job = "refresh" => req[h].old \in Pairs /\ req[h].new # req[h].old
    BY <1>1, <1>2 DEF RequestOK
  <1>5. req[h].job # "refresh" => req[h].new # req[h].old
    BY <1>1, <1>3 DEF RequestOK, Fits, Pairs, NoPair
  <1>6. QED
    BY <1>3, <1>4, <1>5

LEMMA ReqStep ==
  ASSUME TokenInv, [Next]_vars
  PROVE  ReqInv'
  <1>1. ReqInv /\ TypeOK /\ TypeOK'
    BY TypeStep DEF TokenInv, ReqInv
  <1>2. ASSUME NEW g \in Handlers, RequestOK(g), req'[g] = req[g], replied \subseteq replied',
               UNCHANGED <<status, parent, issued>>
        PROVE  RequestOK(g)'
    BY <1>2 DEF RequestOK
  <1>3. Fits(Idle) /\ Idle.job = "none" /\ Idle.at = "idle" /\ Idle.old = NoPair
    BY DEF Fits, Idle, LoginSteps
  <1>4. \A g \in Handlers : RequestOK(g)
    BY <1>1 DEF ReqInv
  <1>5. ASSUME NEW g \in Handlers, req'[g] = Idle PROVE RequestOK(g)'
    BY <1>3, <1>5 DEF RequestOK
  <1>6. CASE Rests
    BY <1>1, <1>4, <1>6 DEF ReqInv, Rests, RequestOK
  <1>7. ASSUME NEW h \in Handlers, Quiet(h), NEW g \in Handlers PROVE RequestOK(g)'
    <2>1. CASE g # h
      BY <1>2, <1>4, <1>7, <2>1 DEF Quiet
    <2>2. CASE g = h /\ req'[h] # Idle
      BY <1>4, <1>7, <2>2 DEF Quiet, RequestOK
    <2>3. QED
      BY <1>5, <2>1, <2>2
  <1>8. ASSUME NEW h \in Handlers, Reads(h), NEW g \in Handlers PROVE RequestOK(g)'
    <2>1. CASE g # h
      BY <1>2, <1>4, <1>8, <2>1 DEF Reads
    <2>2. CASE g = h
      <3>1. Fits(req'[h])
        BY <1>8 DEF Reads, Fits, LoginSteps
      <3>2. QED
        BY <1>4, <1>8, <2>2, <3>1 DEF Reads, RequestOK
    <2>3. QED
      BY <2>1, <2>2
  <1>9. ASSUME NEW h \in Handlers, Begins(h), NEW g \in Handlers PROVE RequestOK(g)'
    <2>1. CASE g # h
      BY <1>2, <1>4, <1>9, <2>1 DEF Begins
    <2>2. CASE g = h
      BY <1>4, <1>9, <2>2 DEF Begins, RequestOK
    <2>3. QED
      BY <2>1, <2>2
  <1>10. ASSUME NEW h \in Handlers, Stores(h), NEW g \in Handlers PROVE RequestOK(g)'
    <2>1. CASE g # h
      <3>1. req'[g] = req[g] /\ replied \subseteq replied' /\ status' = status
        BY <1>10, <2>1 DEF Stores
      <3>2. req[g].at = "committing" => /\ req[g].new \in 1..issued' /\ req[g].new \in Pairs
                                        /\ req[g].new # issued + 1
        BY <1>1, <1>4, <1>10, NewTokenFacts DEF RequestOK, Stores, TypeOK
      <3>3. req[g].at = "committing" => parent'[req[g].new] = parent[req[g].new]
        BY <1>10, <3>2 DEF Stores
      <3>4. QED
        BY <1>4, <3>1, <3>2, <3>3 DEF RequestOK
    <2>2. CASE g = h
      <3>1. Fits(req'[h])
        BY <1>4, <1>10 DEF RequestOK, Stores, Fits, LoginSteps
      <3>2. issued + 1 \in 1..issued' /\ status[issued + 1] = "none" /\ status' = status
        BY <1>1, <1>10 DEF Stores, TokenInv, NewTokensDiffer, TypeOK
      <3>3. QED
        BY <1>4, <1>10, <2>2, <3>1, <3>2 DEF Stores, RequestOK
    <2>3. QED
      BY <2>1, <2>2
  <1>11. ASSUME NEW h \in Handlers, Commits(h), NEW g \in Handlers PROVE RequestOK(g)'
    <2>1. CASE g # h
      <3>1. /\ req'[g] = req[g] /\ replied \subseteq replied' /\ UNCHANGED <<parent, issued>>
            /\ req[h].at = "committing"
        BY <1>11, <2>1 DEF Commits
      <3>2. req[g].job = "refresh" /\ req[g].at # "read" => status'[req[g].old] # "none"
        BY <1>1, <1>4, <1>11, RepliedArePairs DEF Commits, RequestOK
      <3>3. ASSUME req[g].at = "committing" PROVE status'[req[g].new] = "none"
        <4>1. req[g].new # req[h].new
          BY <2>1, <3>1, <3>3 DEF TokenInv, NewTokensDiffer, At
        <4>2. req[g].new \in Pairs /\ req[g].new # NoPair
          BY <1>1, <3>3, NewTokenFacts DEF Pairs, NoPair
        <4>3. req[g].new # req[h].old
          BY <1>4, <3>1, <3>3, <4>2 DEF RequestOK, Fits
        <4>4. QED
          BY <1>4, <1>11, <3>3, <4>1, <4>2, <4>3 DEF Commits, RequestOK
      <3>4. QED
        BY <1>4, <3>1, <3>2, <3>3 DEF RequestOK
    <2>2. QED
      BY <1>5, <1>11, <2>1 DEF Commits
  <1>12. QED
    BY <1>1, <1>6, <1>7, <1>8, <1>9, <1>10, <1>11, StepKinds DEF ReqInv

-----------------------------------------------------------------------------
(* The invariant of the tokens. *)

LEMMA RotatingShrinks ==
  ASSUME NEW h \in Handlers, Quiet(h) \/ Stores(h) \/ Begins(h) \/ Commits(h), NEW n \in Pairs
  PROVE  /\ Rotating(n)' \subseteq Rotating(n)
         /\ Commits(h) => h \notin Rotating(n)'
  <1>1. Idle.job = "none"
    BY DEF Idle
  <1>2. \A g \in Handlers \ {h} : req'[g] = req[g]
    BY DEF Quiet, Stores, Begins, Commits
  <1>3. Quiet(h) => Rotating(n)' \subseteq Rotating(n)
    BY <1>1, <1>2 DEF Quiet, Rotating
  <1>4. Stores(h) => Rotating(n)' \subseteq Rotating(n)
    BY <1>2 DEF Stores, Rotating
  <1>5. Begins(h) => Rotating(n)' \subseteq Rotating(n)
    BY <1>2 DEF Begins, Rotating
  <1>6. Commits(h) => Rotating(n)' \subseteq Rotating(n) /\ h \notin Rotating(n)'
    BY <1>1, <1>2 DEF Commits, Rotating
  <1>7. Quiet(h) \/ Stores(h) \/ Begins(h) => Rotating(n)' \subseteq Rotating(n)
    BY <1>3, <1>4, <1>5
  <1>8. QED
    BY <1>6, <1>7

LEMMA NewTokensStep ==
  ASSUME TokenInv, [Next]_vars
  PROVE  NewTokensDiffer'
  <1>1. ReqInv /\ TypeOK /\ NewTokensDiffer
    BY DEF TokenInv, ReqInv
  <1>2. Idle.at # "committing"
    BY DEF Idle
  <1>3. CASE Rests
    BY <1>1, <1>3 DEF Rests, NewTokensDiffer, At
  <1>4. ASSUME NEW h \in Handlers, Quiet(h) \/ Reads(h) \/ Begins(h) PROVE NewTokensDiffer'
    <2>1. /\ req'[h].at # "committing" /\ UNCHANGED <<status, issued>>
          /\ \A g \in Handlers \ {h} : req'[g] = req[g]
      BY <1>2, <1>4 DEF Quiet, Reads, Begins
    <2>2. QED
      BY <1>1, <2>1 DEF NewTokensDiffer, At
  <1>5. ASSUME NEW h \in Handlers, Stores(h) PROVE NewTokensDiffer'
    <2>1. \A n \in Pairs : n > issued' => status'[n] = "none"
      BY <1>1, <1>5 DEF Stores, NewTokensDiffer, Pairs, TypeOK
    <2>2. \A g \in Handlers \ {h} : req'[g] = req[g] /\ (req[g].at = "committing" => req[g].new # req'[h].new)
      BY <1>1, <1>5, NewTokenFacts DEF Stores
    <2>3. QED
      BY <1>1, <2>1, <2>2 DEF NewTokensDiffer, At
  <1>6. ASSUME NEW h \in Handlers, Commits(h) PROVE NewTokensDiffer'
    <2>1. RequestOK(h)
      BY <1>1 DEF ReqInv
    <2>2. req[h].new \in 1..issued
      BY <1>6, <2>1 DEF Commits, RequestOK
    <2>3. req[h].old \in 1..issued \/ req[h].old = NoPair
      BY <1>1, <2>1 DEF RequestOK, TypeOK
    <2>4. \A n \in Pairs : n > issued => status'[n] = "none"
      BY <1>1, <1>6, <2>2, <2>3 DEF Commits, NewTokensDiffer, Pairs, TypeOK, NoPair
    <2>5. req'[h].at # "committing" /\ issued' = issued /\ \A g \in Handlers \ {h} : req'[g] = req[g]
      BY <1>2, <1>6 DEF Commits
    <2>6. QED
      BY <1>1, <2>4, <2>5 DEF NewTokensDiffer, At
  <1>7. QED
    BY <1>1, <1>3, <1>4, <1>5, <1>6, StepKinds

LEMMA RotatedAloneStep ==
  ASSUME TokenInv, [Next]_vars
  PROVE  RotatedAlone'
  <1>1. ReqInv /\ TypeOK /\ RotatedAlone
    BY DEF TokenInv, ReqInv
  <1>2. CASE Rests
    BY <1>1, <1>2 DEF Rests, RotatedAlone, Rotating
  <1>3. ASSUME NEW h \in Handlers, Quiet(h) \/ Stores(h) \/ Begins(h) PROVE RotatedAlone'
    <2>1. status' = status /\ overlap' = overlap
      BY <1>3 DEF Quiet, Stores, Begins
    <2>2. \A n \in Pairs : Rotating(n)' \subseteq Rotating(n)
      BY <1>3, RotatingShrinks
    <2>3. QED
      BY <1>1, <2>1, <2>2 DEF RotatedAlone
  <1>4. ASSUME NEW h \in Handlers, Reads(h) PROVE RotatedAlone'
    <2>1. ASSUME NEW n \in Pairs, n # req[h].old PROVE Rotating(n)' \subseteq Rotating(n)
      BY <1>4, <2>1 DEF Reads, Rotating
    <2>2. \A n \in Pairs : Rotating(n)' \subseteq Rotating(n) \cup {h}
      BY <1>4 DEF Reads, Rotating
    <2>3. ASSUME NEW n \in Pairs, n \notin overlap'
          PROVE  /\ Rotating(n)' # {} => status'[n] = "valid"
                 /\ \A g, f \in Rotating(n)' : g = f
      <3>1. CASE n = req[h].old
        <4>1. Rotating(n) = {}
          BY <1>4, <2>3, <3>1 DEF Reads
        <4>2. Rotating(n)' \subseteq {h}
          BY <2>2, <4>1
        <4>3. status'[n] = "valid"
          BY <1>4, <3>1 DEF Reads
        <4>4. QED
          BY <4>2, <4>3
      <3>2. CASE n # req[h].old
        <4>1. Rotating(n)' \subseteq Rotating(n) /\ n \notin overlap /\ status' = status
          BY <1>4, <2>1, <2>3, <3>2 DEF Reads
        <4>2. QED
          BY <1>1, <4>1 DEF RotatedAlone
      <3>3. QED
        BY <3>1, <3>2
    <2>4. QED
      BY <2>3 DEF RotatedAlone
  <1>5. ASSUME NEW h \in Handlers, Commits(h) PROVE RotatedAlone'
    <2>1. RequestOK(h) /\ req[h].at = "committing"
      BY <1>1, <1>5 DEF ReqInv, Commits
    <2>2. ASSUME NEW n \in Pairs, n \notin overlap'
          PROVE  /\ Rotating(n)' # {} => status'[n] = "valid"
                 /\ \A g, f \in Rotating(n)' : g = f
      <3>1. Rotating(n)' \subseteq Rotating(n) /\ h \notin Rotating(n)' /\ n \notin overlap
        BY <1>5, <2>2, RotatingShrinks DEF Commits
      <3>2. /\ Rotating(n) # {} => status[n] = "valid"
            /\ \A g, f \in Rotating(n) : g = f
        BY <1>1, <3>1 DEF RotatedAlone
      <3>3. CASE n = req[h].old
        <4>1. h \in Rotating(n)
          BY <2>1, <3>3 DEF RequestOK, Fits, Rotating, Pairs, NoPair
        <4>2. Rotating(n)' = {}
          BY <3>1, <3>2, <4>1
        <4>3. QED
          BY <4>2
      <3>4. CASE n # req[h].old
        <4>1. Rotating(n)' # {} => status'[n] = "valid"
          BY <1>5, <3>1, <3>2, <3>4 DEF Commits
        <4>2. QED
          BY <3>1, <3>2, <4>1
      <3>5. QED
        BY <3>3, <3>4
    <2>3. QED
      BY <2>2 DEF RotatedAlone
  <1>6. QED
    BY <1>1, <1>2, <1>3, <1>4, <1>5, StepKinds

LEMMA RotationStep ==
  ASSUME TokenInv, RotationIsAtomic, RotatedTwiceOnlyByOverlap, [Next]_vars
  PROVE  RotationIsAtomic' /\ RotatedTwiceOnlyByOverlap'
  <1>1. ReqInv /\ TypeOK /\ RotatedAlone /\ NewTokensDiffer
    BY DEF TokenInv, ReqInv
  <1>2. ASSUME \A n \in Pairs : Children(n)' = Children(n), overlap \subseteq overlap',
               status' = status
        PROVE  RotationIsAtomic' /\ RotatedTwiceOnlyByOverlap'
    BY <1>2 DEF RotationIsAtomic, RotatedTwiceOnlyByOverlap
  <1>3. CASE Rests
    BY <1>2, <1>3 DEF Rests, Children
  <1>4. ASSUME NEW h \in Handlers, Quiet(h) \/ Reads(h) \/ Begins(h)
        PROVE  RotationIsAtomic' /\ RotatedTwiceOnlyByOverlap'
    <2>1. UNCHANGED <<status, parent>> /\ overlap \subseteq overlap'
      BY <1>4 DEF Quiet, Reads, Begins
    <2>2. QED
      BY <1>2, <2>1 DEF Children
  <1>5. ASSUME NEW h \in Handlers, Stores(h)
        PROVE  RotationIsAtomic' /\ RotatedTwiceOnlyByOverlap'
    <2>1. status' = status /\ overlap' = overlap /\ status[issued + 1] = "none"
      BY <1>1, <1>5 DEF Stores, NewTokensDiffer, TypeOK
    <2>2. \A n \in Pairs : Children(n)' = Children(n)
      BY <1>5, <2>1 DEF Stores, Children
    <2>3. QED
      BY <1>2, <2>1, <2>2
  <1>6. ASSUME NEW h \in Handlers, Commits(h)
        PROVE  RotationIsAtomic' /\ RotatedTwiceOnlyByOverlap'
    <2> DEFINE new == req[h].new
               old == req[h].old
    <2>1. RequestOK(h) /\ req[h].at = "committing"
      BY <1>1, <1>6 DEF ReqInv, Commits
    <2>2. new \in Pairs /\ new # old /\ status[new] = "none" /\ parent[new] = old
      BY <1>1, <2>1, NewTokenFacts DEF RequestOK
    <2>3. parent' = parent /\ overlap' = overlap
      BY <1>6 DEF Commits
    <2>4. \A n \in Pairs : status'[n] = IF n = new THEN "valid" ELSE IF n = old THEN "revoked" ELSE status[n]
      BY <1>6 DEF Commits
    <2>5. old \in Pairs => status[old] # "none"
      BY <1>1, <2>1 DEF RequestOK, Fits, Pairs, NoPair
    <2> HIDE DEF new, old
    <2>6. \A n \in Pairs : Children(n)' = IF n = old THEN Children(n) \cup {new} ELSE Children(n)
      BY <2>2, <2>3, <2>4, <2>5 DEF Children
    <2>7. Children(new) = {}
      BY <2>2 DEF RotationIsAtomic
    <2>8. RotationIsAtomic'
      BY <2>2, <2>4, <2>6, <2>7 DEF RotationIsAtomic
    <2>9. ASSUME NEW n \in Pairs \ overlap, NEW c \in Children(n)', NEW d \in Children(n)'
          PROVE  c = d
      <3>1. CASE n = old
        <4>1. h \in Rotating(n)
          BY <2>1, <3>1 DEF RequestOK, Fits, Rotating, Pairs, NoPair, old
        <4>2. status[n] = "valid"
          BY <1>1, <4>1 DEF RotatedAlone
        <4>3. Children(n) = {}
          BY <4>2 DEF RotationIsAtomic
        <4>4. QED
          BY <2>6, <2>9, <3>1, <4>3
      <3>2. CASE n # old
        BY <2>6, <2>9, <3>2 DEF RotatedTwiceOnlyByOverlap
      <3>3. QED
        BY <3>1, <3>2
    <2>10. QED
      BY <2>3, <2>8, <2>9 DEF RotatedTwiceOnlyByOverlap
  <1>7. QED
    BY <1>1, <1>3, <1>4, <1>5, <1>6, StepKinds

-----------------------------------------------------------------------------
(* Tokens that were sent. *)

LEMMA OthersStay ==
  ASSUME ReqInv, NEW h \in Handlers, Handle(h) \/ Fault(h)
  PROVE  \A g \in Handlers \ {h} : req'[g] = req[g]
  <1>1. Quiet(h) \/ Reads(h) \/ Stores(h) \/ Commits(h)
    BY QuietSteps, ReadSteps, StoreSteps, CommitSteps
  <1>2. QED
    BY <1>1 DEF Quiet, Reads, Stores, Commits

LEMMA BegunOthersStay ==
  ASSUME ReqInv, NEW h \in Handlers,
         \/ \E s \in Spellings : Register(h, s) \/ \E correct \in BOOLEAN : Login(h, s, correct)
         \/ \E n \in Pairs : Refresh(h, n) \/ Logout(h, n)
  PROVE  /\ \A g \in Handlers \ {h} : req'[g] = req[g]
         /\ req[h].at = "idle" /\ UNCHANGED <<redis, tables, now, faults, history>>
  <1>1. Begins(h)
    BY BeginSteps
  <1>2. QED
    BY <1>1 DEF Begins, Register, Login, Refresh, Logout, Begin

(* A commit that is due stays due or is made, but for the one that a fault *)
(* hits.                                                                   *)
OthersCommit(G) ==
    \A h \in Handlers \ G : req[h].at = "committing" => req'[h] = req[h] \/ Commits(h)

LEMMA CommitsOrFaults ==
  ASSUME ReqInv, [Next]_vars
  PROVE  \/ faults' = faults /\ OthersCommit({})
         \/ \E g \in Handlers : faults' = faults + 1 /\ OthersCommit({g})
  <1>1. ASSUME NEW g \in Handlers, Handle(g)
        PROVE  faults' = faults /\ OthersCommit({})
    <2>1. \A h \in Handlers \ {g} : req'[h] = req[h]
      BY <1>1, OthersStay
    <2>2. req[g].at = "committing" => Commit(g)
      BY <1>1 DEF Handle, CheckLock, CheckRate, Verify, CountFailure, ExpireCounter, SetLock,
                  ResetCounters, UpdateUser, InsertUser, CommitUser, ReadToken, Revoke,
                  StoreToken, Blacklist, At
    <2>3. faults' = faults
      BY <1>1 DEF Handle, CheckLock, CheckRate, Verify, CountFailure, ExpireCounter, SetLock,
                  ResetCounters, UpdateUser, InsertUser, CommitUser, ReadToken, Revoke,
                  StoreToken, Commit, Blacklist, bounds
    <2>4. QED
      BY <2>1, <2>2, <2>3, CommitSteps DEF OthersCommit
  <1>2. ASSUME NEW g \in Handlers, Fault(g)
        PROVE  faults' = faults + 1 /\ OthersCommit({g})
    <2>1. faults' = faults + 1
      BY <1>2 DEF Fault
    <2>2. \A h \in Handlers \ {g} : req'[h] = req[h]
      BY <1>2, OthersStay
    <2>3. QED
      BY <2>1, <2>2 DEF OthersCommit
  <1>3. ASSUME NEW g \in Handlers,
               \/ \E s \in Spellings : Register(g, s) \/ \E correct \in BOOLEAN : Login(g, s, correct)
               \/ \E n \in Pairs : Refresh(g, n) \/ Logout(g, n)
        PROVE  faults' = faults /\ OthersCommit({})
    <2>1. /\ \A h \in Handlers \ {g} : req'[h] = req[h]
          /\ req[g].at = "idle" /\ faults' = faults
      BY <1>3, BegunOthersStay
    <2>2. QED
      BY <2>1 DEF OthersCommit
  <1>4. CASE UNCHANGED vars
    BY <1>4 DEF vars, bounds, OthersCommit
  <1>5. CASE Tick \/ \E k \in Keys : CounterExpires(k) \/ LockExpires(k)
    BY <1>5 DEF Tick, CounterExpires, LockExpires, bounds, OthersCommit
  <1>6. QED
    BY <1>1, <1>2, <1>3, <1>4, <1>5 DEF Next

(* A token that is lost after a step was lost before it, or its commit was *)
(* due and is due no longer.                                               *)
LEMMA LostBefore ==
  ASSUME TokenInv, [Next]_vars, NEW G \in SUBSET Handlers, OthersCommit(G), NEW n \in Lost'
  PROVE  n \in Lost \/ \E g \in G : req[g].new = n
  <1>1. ReqInv /\ TypeOK /\ replied \subseteq Pairs
    BY RepliedArePairs DEF TokenInv, ReqInv
  <1>2. \/ UNCHANGED <<status, replied>>
        \/ \E h \in Handlers : Stores(h) \/ Commits(h)
    BY <1>1, StepKinds DEF Rests, Quiet, Reads, Begins
  <1>3. /\ n \in replied' /\ status'[n] = "none"
        /\ ~\E h \in Handlers : req'[h].at = "committing" /\ req'[h].new = n
    BY DEF Lost, At
  <1>4. ASSUME NEW h \in Handlers, Commits(h)
        PROVE  n \in replied /\ status[n] = "none"
    <2>1. req[h].new \in Pairs /\ status'[req[h].new] = "valid"
      BY <1>1, <1>4, NewTokenFacts DEF Commits
    <2>2. n \in replied
      BY <1>3, <1>4, <2>1 DEF Commits
    <2>3. QED
      BY <1>1, <1>3, <1>4, <2>2 DEF Commits
  <1>5. ASSUME NEW h \in Handlers, Stores(h)
        PROVE  n \in replied /\ status[n] = "none"
    <2>1. n \in replied
      BY <1>1, <1>3, <1>5 DEF Stores, TypeOK
    <2>2. QED
      BY <1>3, <1>5, <2>1 DEF Stores
  <1>6. n \in replied /\ status[n] = "none"
    BY <1>2, <1>3, <1>4, <1>5
  <1>7. ASSUME NEW h \in Handlers, req[h].at = "committing", req[h].new = n
        PROVE  h \in G
    <2>1. ~Commits(h)
      BY <1>1, <1>3, <1>7, NewTokenFacts DEF Commits
    <2>2. QED
      BY <1>3, <1>7, <2>1 DEF OthersCommit
  <1>8. QED
    BY <1>6, <1>7 DEF Lost, At

LEMMA LostFinite ==
  ASSUME ReqInv
  PROVE  Lost \subseteq Pairs /\ IsFiniteSet(Lost) /\ Cardinality(Lost) \in Nat
  <1>1. Lost \subseteq Pairs
    BY RepliedArePairs DEF Lost, ReqInv
  <1>2. IsFiniteSet(Pairs)
    BY BoundsAssumption, FS_Interval DEF Pairs
  <1>3. QED
    BY <1>1, <1>2, FS_Subset, FS_CardinalityType

LEMMA LostStep ==
  ASSUME TokenInv, Cardinality(Lost) <= faults, [Next]_vars
  PROVE  Cardinality(Lost') <= faults'
  <1>1. ReqInv /\ faults \in Nat
    BY DEF TokenInv, ReqInv, TypeOK
  <1>2. IsFiniteSet(Lost) /\ Cardinality(Lost) \in Nat
    BY <1>1, LostFinite
  <1>3. CASE faults' = faults /\ OthersCommit({})
    <2>1. Lost' \subseteq Lost
      BY <1>3, LostBefore
    <2>2. Cardinality(Lost') \in Nat /\ Cardinality(Lost') <= Cardinality(Lost)
      BY <1>2, <2>1, FS_Subset, FS_CardinalityType
    <2>3. QED
      BY <1>1, <1>2, <1>3, <2>2
  <1>4. ASSUME NEW g \in Handlers, faults' = faults + 1, OthersCommit({g})
        PROVE  Cardinality(Lost') <= faults'
    <2> DEFINE hit == req[g].new
    <2>1. Lost' \subseteq Lost \cup {hit}
      BY <1>4, LostBefore
    <2>2. /\ IsFiniteSet(Lost \cup {hit})
          /\ Cardinality(Lost \cup {hit}) \in Nat
          /\ Cardinality(Lost \cup {hit}) <= Cardinality(Lost) + 1
      <3>1. /\ IsFiniteSet(Lost \cup {hit})
            /\ \/ Cardinality(Lost \cup {hit}) = Cardinality(Lost)
               \/ Cardinality(Lost \cup {hit}) = Cardinality(Lost) + 1
        BY <1>2, FS_AddElement
      <3>2. QED
        BY <1>2, <3>1
    <2>3. Cardinality(Lost') \in Nat /\ Cardinality(Lost') <= Cardinality(Lost \cup {hit})
      BY <2>1, <2>2, FS_Subset, FS_CardinalityType
    <2>4. QED
      BY <1>1, <1>2, <1>4, <2>2, <2>3
  <1>5. QED
    BY <1>1, <1>3, <1>4, CommitsOrFaults

LEMMA StoredStep ==
  ASSUME TokenInv, RepliedTokensAreStored, [Next]_vars
  PROVE  RepliedTokensAreStored'
  <1>1. ReqInv /\ TypeOK /\ durable \subseteq Pairs
    BY RepliedArePairs DEF TokenInv, ReqInv, TypeOK
  <1>2. \/ UNCHANGED <<status, durable>>
        \/ \E h \in Handlers : Stores(h) \/ Commits(h)
    BY <1>1, StepKinds DEF Rests, Quiet, Reads, Begins
  <1>3. ASSUME NEW n \in durable' PROVE status'[n] # "none"
    <2>1. ASSUME NEW h \in Handlers, Commits(h) PROVE status'[n] # "none"
      <3>1. req[h].new \in Pairs /\ status'[req[h].new] = "valid"
        BY <1>1, <2>1, NewTokenFacts DEF Commits
      <3>2. n \in durable \/ n = req[h].new
        BY <1>3, <2>1 DEF Commits
      <3>3. QED
        BY <1>1, <2>1, <3>1, <3>2 DEF Commits, RepliedTokensAreStored
    <2>2. ASSUME NEW h \in Handlers, Stores(h) PROVE status'[n] # "none"
      BY <1>3, <2>2 DEF Stores, RepliedTokensAreStored
    <2>3. QED
      BY <1>2, <1>3, <2>1, <2>2 DEF RepliedTokensAreStored
  <1>4. QED
    BY <1>3, LostStep DEF RepliedTokensAreStored

-----------------------------------------------------------------------------
(* Logged out tokens and the counters. *)

LEMMA BlackStep ==
  ASSUME ReqInv, BlackLongEnough, [Next]_vars
  PROVE  BlackLongEnough'
  <1>1. TypeOK /\ replied \subseteq Pairs /\ \A n \in Pairs : AccessExp(n) \in Nat
    BY RepliedArePairs DEF ReqInv
  <1>2. CASE UNCHANGED <<black, born, loggedOut>>
    BY <1>2 DEF BlackLongEnough, AccessExp
  <1>3. ASSUME NEW h \in Handlers, StoreToken(h) PROVE BlackLongEnough'
    <2>1. UNCHANGED <<black, loggedOut>> /\ born' = [born EXCEPT ![issued + 1] = now]
      BY <1>3 DEF StoreToken, redis
    <2>2. \A n \in loggedOut : n \in Pairs /\ n # issued + 1
      BY <1>1 DEF TypeOK
    <2>3. \A n \in loggedOut : born'[n] = born[n]
      BY <1>1, <2>1, <2>2 DEF TypeOK
    <2>4. QED
      BY <2>1, <2>3 DEF BlackLongEnough, AccessExp
  <1>4. ASSUME NEW h \in Handlers, Blacklist(h) PROVE BlackLongEnough'
    <2> DEFINE old == req[h].old
               until == IF now < AccessExp(old) THEN AccessExp(old) ELSE now + 1
    <2>1. old \in Pairs
      BY <1>1, <1>4 DEF Blacklist, ReqInv, RequestOK, Fits, At
    <2>a. AccessExp(old) \in Nat /\ now \in Nat
      BY <1>1, <2>1 DEF TypeOK
    <2>2. AccessExp(old) <= until
      BY <2>a
    <2>3. black' = [black EXCEPT ![old] = until] /\ loggedOut' = loggedOut \cup {old} /\ born' = born
      BY <1>4 DEF Blacklist, tables
    <2> HIDE DEF old, until
    <2>4. \A n \in Pairs : black'[n] = IF n = old THEN until ELSE black[n]
      BY <1>1, <2>3 DEF TypeOK
    <2>5. \A n \in loggedOut' : n \in Pairs
      BY <1>1, <2>1, <2>3 DEF TypeOK
    <2>6. QED
      BY <2>2, <2>3, <2>4, <2>5 DEF BlackLongEnough, AccessExp
  <1>5. ASSUME NEW h \in Handlers, Handle(h) \/ Fault(h), ~StoreToken(h), ~Blacklist(h)
        PROVE  UNCHANGED <<black, born, loggedOut>>
    BY <1>5 DEF Handle, CheckLock, CheckRate, Verify, CountFailure, ExpireCounter, SetLock,
                ResetCounters, UpdateUser, InsertUser, CommitUser, ReadToken, Revoke, Commit,
                Fault, redis, tables, history, ledger
  <1>6. ASSUME NEW h \in Handlers,
               \/ \E s \in Spellings : Register(h, s) \/ \E correct \in BOOLEAN : Login(h, s, correct)
               \/ \E n \in Pairs : Refresh(h, n) \/ Logout(h, n)
        PROVE  UNCHANGED <<black, born, loggedOut>>
    BY <1>6, BegunOthersStay DEF redis, tables, history, ledger
  <1>7. UNCHANGED vars \/ Tick \/ (\E k \in Keys : CounterExpires(k) \/ LockExpires(k))
        => UNCHANGED <<black, born, loggedOut>>
    BY DEF vars, Tick, CounterExpires, LockExpires, redis, tables, history, ledger
  <1>8. QED
    BY <1>2, <1>3, <1>4, <1>5, <1>6, <1>7 DEF Next

LEMMA UntimedStep ==
  ASSUME ReqInv, UntimedOnlyByFault, [Next]_vars
  PROVE  UntimedOnlyByFault'
  <1>1. TypeOK
    BY DEF ReqInv
  <1> DEFINE Due(k) == \E h \in Handlers : At(h, "expiring") /\ KeyOf(h) = k
  <1>2. ASSUME UNCHANGED <<count, timed, broken>>, NEW h \in Handlers, req[h].at # "expiring",
               \A g \in Handlers \ {h} : req'[g] = req[g]
        PROVE  UntimedOnlyByFault'
    BY <1>2 DEF UntimedOnlyByFault, At, KeyOf
  <1>3. ASSUME NEW h \in Handlers, CountFailure(h) PROVE UntimedOnlyByFault'
    <2> DEFINE k == KeyOf(h)
    <2>1. /\ ~At(h, "idle") /\ req[h].at = "failing" /\ req[h] \in Requests
          /\ \A g \in Handlers \ {h} : req'[g] = req[g]
      BY <1>1, <1>3, OthersStay, Busy DEF CountFailure, At, Handle
    <2>2. k \in Keys
      BY <1>1, <2>1, KeyFacts
    <2>3. timed' = timed /\ broken' = broken /\ count' = [count EXCEPT ![k] = count[k] + 1]
      BY <1>3 DEF CountFailure, history
    <2>4. count'[k] = 1 => req'[h].at = "expiring" /\ req'[h].typed = req[h].typed
      <3>1. SUFFICES ASSUME count'[k] = 1 PROVE req'[h].at = "expiring" /\ req'[h].typed = req[h].typed
        OBVIOUS
      <3>2. req' = [req EXCEPT ![h].at = "expiring", ![h].got = 1]
        BY <1>1, <1>3, <2>2, <2>3, <3>1 DEF CountFailure, TypeOK
      <3>3. QED
        BY <1>1, <2>1, <3>2 DEF TypeOK, Requests
    <2>5. \A j \in Keys : count'[j] > 0 /\ ~timed'[j] =>
            \/ count[j] > 0 /\ ~timed[j]
            \/ j = k /\ count'[k] = 1
      BY <1>1, <2>2, <2>3 DEF TypeOK
    <2>6. \A j \in Keys : Due(j) => Due(j)'
      BY <2>1 DEF At, KeyOf
    <2>7. \A j \in Keys : j = k /\ count'[k] = 1 => Due(j)'
      BY <2>4 DEF At, KeyOf
    <2> HIDE DEF k, Due
    <2>8. \A j \in Keys : count[j] > 0 /\ ~timed[j] => j \in broken \/ Due(j)
      BY DEF UntimedOnlyByFault, Due
    <2>9. \A j \in Keys : count'[j] > 0 /\ ~timed'[j] => j \in broken' \/ Due(j)'
      BY <2>3, <2>5, <2>6, <2>7, <2>8
    <2>10. QED
      BY <2>9 DEF UntimedOnlyByFault, Due
  <1>4. ASSUME NEW h \in Handlers, ExpireCounter(h) PROVE UntimedOnlyByFault'
    <2> DEFINE k == KeyOf(h)
    <2>1. ~At(h, "idle") /\ \A g \in Handlers \ {h} : req'[g] = req[g]
      BY <1>4, OthersStay DEF ExpireCounter, At, Handle
    <2>2. k \in Keys
      BY <1>1, <2>1, KeyFacts
    <2>3. count' = count /\ timed' = [timed EXCEPT ![k] = count[k] > 0] /\ broken \ {k} \subseteq broken'
      BY <1>4 DEF ExpireCounter
    <2>4. \A j \in Keys : count'[j] > 0 /\ ~timed'[j] => j # k /\ count[j] > 0 /\ ~timed[j]
      BY <1>1, <2>2, <2>3 DEF TypeOK
    <2>5. \A j \in Keys : j # k /\ Due(j) => Due(j)'
      BY <2>1 DEF At, KeyOf
    <2> HIDE DEF k, Due
    <2>6. \A j \in Keys : count[j] > 0 /\ ~timed[j] => j \in broken \/ Due(j)
      BY DEF UntimedOnlyByFault, Due
    <2>7. \A j \in Keys : count'[j] > 0 /\ ~timed'[j] => j \in broken' \/ Due(j)'
      BY <2>3, <2>4, <2>5, <2>6
    <2>8. QED
      BY <2>7 DEF UntimedOnlyByFault, Due
  <1>5. ASSUME NEW h \in Handlers, ResetCounters(h) PROVE UntimedOnlyByFault'
    <2> DEFINE k == KeyOf(h)
    <2>1. /\ ~At(h, "idle") /\ req[h].at # "expiring"
          /\ \A g \in Handlers \ {h} : req'[g] = req[g]
      BY <1>5, OthersStay DEF ResetCounters, At, Handle
    <2>2. k \in Keys
      BY <1>1, <2>1, KeyFacts
    <2>3. count' = [count EXCEPT ![k] = 0] /\ timed' = [timed EXCEPT ![k] = FALSE] /\ broken' = broken \ {k}
      BY <1>5 DEF ResetCounters
    <2>4. \A j \in Keys : count'[j] > 0 /\ ~timed'[j] => j # k /\ count[j] > 0 /\ ~timed[j]
      BY <1>1, <2>2, <2>3 DEF TypeOK
    <2>5. \A j \in Keys : Due(j) => Due(j)'
      BY <2>1 DEF At, KeyOf
    <2> HIDE DEF k, Due
    <2>6. \A j \in Keys : count[j] > 0 /\ ~timed[j] => j \in broken \/ Due(j)
      BY DEF UntimedOnlyByFault, Due
    <2>7. \A j \in Keys : count'[j] > 0 /\ ~timed'[j] => j \in broken' \/ Due(j)'
      BY <2>3, <2>4, <2>5, <2>6
    <2>8. QED
      BY <2>7 DEF UntimedOnlyByFault, Due
  <1>6. ASSUME NEW h \in Handlers, Fault(h) PROVE UntimedOnlyByFault'
    <2>1. \A g \in Handlers \ {h} : req'[g] = req[g]
      BY <1>6, OthersStay
    <2>2. UNCHANGED <<count, timed>> /\ broken \subseteq broken'
      BY <1>6 DEF Fault, redis
    <2>3. \A j \in Keys : At(h, "expiring") /\ KeyOf(h) = j /\ count[j] > 0 /\ ~timed[j] => j \in broken'
      BY <1>6 DEF Fault
    <2>4. QED
      BY <2>1, <2>2, <2>3 DEF UntimedOnlyByFault, At, KeyOf
  <1>7. ASSUME NEW h \in Handlers, Handle(h), ~CountFailure(h), ~ExpireCounter(h), ~ResetCounters(h)
        PROVE  UntimedOnlyByFault'
    <2>1. \A g \in Handlers \ {h} : req'[g] = req[g]
      BY <1>7, OthersStay
    <2>2. UNCHANGED <<count, timed, broken>> /\ req[h].at # "expiring"
      BY <1>7 DEF Handle, CheckLock, CheckRate, Verify, SetLock, UpdateUser, InsertUser, CommitUser,
                  ReadToken, Revoke, StoreToken, Commit, Blacklist, At, redis, history
    <2>3. QED
      BY <1>2, <2>1, <2>2
  <1>8. ASSUME NEW h \in Handlers,
               \/ \E s \in Spellings : Register(h, s) \/ \E correct \in BOOLEAN : Login(h, s, correct)
               \/ \E n \in Pairs : Refresh(h, n) \/ Logout(h, n)
        PROVE  UntimedOnlyByFault'
    <2>1. /\ UNCHANGED <<count, timed, broken>> /\ req[h].at # "expiring"
          /\ \A g \in Handlers \ {h} : req'[g] = req[g]
      BY <1>8, BegunOthersStay DEF redis, history
    <2>2. QED
      BY <1>2, <2>1
  <1>9. ASSUME NEW k \in Keys, CounterExpires(k) PROVE UntimedOnlyByFault'
    <2>1. /\ req' = req /\ broken' = broken /\ count' = [count EXCEPT ![k] = 0]
          /\ timed' = [timed EXCEPT ![k] = FALSE]
      BY <1>9 DEF CounterExpires
    <2>2. \A j \in Keys : count'[j] > 0 /\ ~timed'[j] => count[j] > 0 /\ ~timed[j]
      BY <1>1, <2>1 DEF TypeOK
    <2>3. QED
      BY <2>1, <2>2 DEF UntimedOnlyByFault, At, KeyOf
  <1>10. UNCHANGED vars \/ Tick \/ (\E k \in Keys : LockExpires(k)) => UntimedOnlyByFault'
    BY DEF UntimedOnlyByFault, At, KeyOf, vars, Tick, LockExpires, redis, history
  <1>11. QED
    BY <1>3, <1>4, <1>5, <1>6, <1>7, <1>8, <1>9, <1>10 DEF Next

-----------------------------------------------------------------------------
(* How many wrong passwords are counted. *)

LEMMA HandlerSets ==
  /\ Cardinality(Handlers) \in Nat
  /\ \A S \in SUBSET Handlers : Cardinality(S) \in 0..Cardinality(Handlers)
  /\ \A S, T \in SUBSET Handlers : S \subseteq T => Cardinality(S) <= Cardinality(T)
  /\ \A S \in SUBSET Handlers : \A h \in S : Cardinality(S \ {h}) = Cardinality(S) - 1
  /\ \A S, T \in SUBSET Handlers :
        S \cap T = {} => Cardinality(S) + Cardinality(T) <= Cardinality(Handlers)
  <1>1. \A S \in SUBSET Handlers : IsFiniteSet(S) /\ Cardinality(S) <= Cardinality(Handlers)
    BY HandlersAssumption, FS_Subset
  <1>2. /\ Cardinality(Handlers) \in Nat
        /\ \A S \in SUBSET Handlers : Cardinality(S) \in Nat
    BY <1>1, HandlersAssumption, FS_CardinalityType
  <1>3. \A S, T \in SUBSET Handlers : S \subseteq T => Cardinality(S) <= Cardinality(T)
    BY <1>1, FS_Subset
  <1>4. \A S \in SUBSET Handlers : \A h \in S : Cardinality(S \ {h}) = Cardinality(S) - 1
    BY <1>1, FS_RemoveElement
  <1>5. ASSUME NEW S \in SUBSET Handlers, NEW T \in SUBSET Handlers, S \cap T = {}
        PROVE  Cardinality(S) + Cardinality(T) <= Cardinality(Handlers)
    <2>1. Cardinality(S \cup T) = Cardinality(S) + Cardinality(T) - Cardinality(S \cap T)
      BY <1>1, FS_Union
    <2>2. Cardinality(S \cap T) = 0
      BY <1>5, FS_EmptySet
    <2>3. S \cup T \in SUBSET Handlers
      OBVIOUS
    <2>4. Cardinality(S \cup T) <= Cardinality(Handlers)
      BY <1>1, <2>3
    <2>5. QED
      BY <1>2, <2>1, <2>2, <2>4
  <1>6. QED
    BY <1>1, <1>2, <1>3, <1>4, <1>5

LEMMA LoginSets ==
  ASSUME NEW k
  PROVE  /\ Past(k) \in SUBSET Handlers /\ Through(k) \in SUBSET Handlers /\ Lockers(k) \in SUBSET Handlers
         /\ Past(k)' \in SUBSET Handlers /\ Through(k)' \in SUBSET Handlers
         /\ Lockers(k)' \in SUBSET Handlers
         /\ Through(k)' \cap Lockers(k)' = {} /\ Through(k)' \cap Lockers(k) \in SUBSET Handlers
  BY DEF Past, Through, Lockers

(* Nobody came through, and those who are to lock are, or the counter is   *)
(* locked or no longer expected to be.                                     *)
LEMMA BoundedShrink ==
  ASSUME TypeOK, TypeOK', NEW k \in Keys, Bounded(k), count'[k] = count[k],
         Past(k)' \subseteq Past(k), Through(k)' \subseteq Through(k),
         k \notin gap' => k \notin gap,
         k \notin gap' \cup locked' => k \notin gap \cup locked /\ Lockers(k) \subseteq Lockers(k)'
  PROVE  Bounded(k)'
  <1>1. /\ count[k] \in Nat /\ SoftLimit \in Nat /\ RateLimit \in Nat /\ Cardinality(Handlers) \in Nat
        /\ Cardinality(Past(k)) \in Nat /\ Cardinality(Past(k)') \in Nat
        /\ Cardinality(Through(k)) \in Nat /\ Cardinality(Through(k)') \in Nat
        /\ Cardinality(Lockers(k)) \in Nat /\ Cardinality(Lockers(k)') \in Nat
    BY ConstantFacts, HandlerSets, LoginSets DEF TypeOK
  <1>2. RateBound(k)'
    <2>1. Cardinality(Past(k)') <= Cardinality(Past(k))
      BY HandlerSets, LoginSets
    <2>2. QED
      BY <1>1, <2>1 DEF Bounded, RateBound
  <1>3. SoftBound(k)'
    <2>1. Cardinality(Through(k)') <= Cardinality(Through(k))
      BY HandlerSets, LoginSets
    <2>2. QED
      BY <1>1, <2>1 DEF Bounded, SoftBound
  <1>4. ASSUME k \notin gap' \cup locked' PROVE count'[k] <= SoftLimit - 1 + Cardinality(Lockers(k)')
    <2>1. Cardinality(Lockers(k)) <= Cardinality(Lockers(k)')
      BY <1>4, HandlerSets, LoginSets
    <2>2. QED
      BY <1>1, <1>4, <2>1 DEF Bounded, LockBound
  <1>5. QED
    BY <1>2, <1>3, <1>4 DEF Bounded, LockBound

(* The counter is gone. *)
LEMMA BoundedAtZero ==
  ASSUME NEW k \in Keys, count'[k] = 0
  PROVE  Bounded(k)'
  <1>1. /\ SoftLimit \in Nat \ {0} /\ RateLimit \in Nat /\ SoftLimit <= RateLimit
        /\ Cardinality(Handlers) \in Nat /\ Cardinality(Past(k)') \in 0..Cardinality(Handlers)
        /\ Cardinality(Through(k)') \in 0..Cardinality(Handlers)
        /\ Cardinality(Lockers(k)') \in 0..Cardinality(Handlers)
    BY LimitsAssumption, HandlerSets, LoginSets
  <1>2. QED
    BY <1>1 DEF Bounded, RateBound, SoftBound, LockBound

(* The request is another one's, or elsewhere. *)
LEMMA BoundedOthers ==
  ASSUME NEW k, NEW h \in Handlers, \A g \in Handlers \ {h} : req'[g] = req[g]
  PROVE  /\ Past(k)' \ {h} = Past(k) \ {h} /\ Through(k)' \ {h} = Through(k) \ {h}
         /\ Lockers(k)' \ {h} = Lockers(k) \ {h}
         /\ h \in Past(k)' <=> req'[h].at \in {"verify", "failing"} /\ Key[req'[h].typed] = k
         /\ h \in Through(k)' <=> /\ req'[h].at \in {"ratecheck", "verify", "failing"}
                                  /\ Key[req'[h].typed] = k
         /\ h \in Lockers(k)' <=> /\ req'[h].at \in {"expiring", "locking"} /\ Key[req'[h].typed] = k
                                  /\ req'[h].got >= SoftLimit
  BY DEF Past, Through, Lockers, KeyOf

LoginInv == \A k \in Keys : Bounded(k)

(* Steps outside of the checks and counters of a login. *)
LEMMA BoundedElsewhere ==
  ASSUME TypeOK, TypeOK', LoginInv, NEW h \in Handlers, \A g \in Handlers \ {h} : req'[g] = req[g],
         UNCHANGED <<count, locked, gap>>,
         req[h].at \notin {"expiring", "locking"}, req'[h].at \notin {"ratecheck", "verify", "failing"}
  PROVE  LoginInv'
  <1> SUFFICES ASSUME NEW k \in Keys PROVE Bounded(k)'
    BY DEF LoginInv
  <1>1. h \notin Past(k)' /\ h \notin Through(k)' /\ h \notin Lockers(k)
    BY DEF Past, Through, Lockers
  <1>2. /\ Past(k)' \subseteq Past(k) /\ Through(k)' \subseteq Through(k)
        /\ Lockers(k) \subseteq Lockers(k)'
    BY <1>1, BoundedOthers
  <1>3. Bounded(k)
    BY DEF LoginInv
  <1>4. QED
    BY <1>2, <1>3, BoundedShrink

LEMMA ElsewhereSteps ==
  ASSUME ReqInv, NEW h \in Handlers,
         \/ UpdateUser(h) \/ InsertUser(h) \/ CommitUser(h) \/ ReadToken(h) \/ Revoke(h)
         \/ StoreToken(h) \/ Commit(h) \/ Blacklist(h)
  PROVE  /\ UNCHANGED <<count, locked, gap>>
         /\ req[h].at \notin {"expiring", "locking"} /\ req'[h].at \notin {"ratecheck", "verify", "failing"}
  <1>1. TypeOK /\ UNCHANGED <<count, locked, gap>>
    BY DEF ReqInv, UpdateUser, InsertUser, CommitUser, ReadToken, Revoke, StoreToken, Commit,
           Blacklist, redis, history
  <1>2. req[h].at \in {"row", "insert", "inserted", "read", "revoking", "storing", "committing", "blacklisting"}
    BY DEF UpdateUser, InsertUser, CommitUser, ReadToken, Revoke, StoreToken, Commit, Blacklist, At
  <1>3. ~At(h, "idle") /\ {"storing", "inserted", "revoking"} \subseteq Steps
    BY <1>2 DEF At, Steps
  <1>4. ASSUME Finish(h) PROVE req'[h].at = "idle"
    BY <1>1, <1>4, FinishFacts
  <1>5. ASSUME NEW place \in {"storing", "inserted", "revoking"}, Goto(h, place) PROVE req'[h].at = place
    BY <1>1, <1>3, <1>5, GotoFacts
  <1>6. CASE StoreToken(h)
    BY <1>1, <1>2, <1>6, StoreSteps DEF Stores
  <1>7. CASE UpdateUser(h) \/ CommitUser(h) \/ Revoke(h)
    BY <1>1, <1>2, <1>5, <1>7 DEF UpdateUser, CommitUser, Revoke
  <1>8. CASE InsertUser(h) \/ ReadToken(h)
    BY <1>1, <1>2, <1>4, <1>5, <1>8 DEF InsertUser, ReadToken
  <1>9. CASE Commit(h) \/ Blacklist(h)
    BY <1>1, <1>2, <1>4, <1>9 DEF Commit, Blacklist
  <1>10. QED
    BY <1>6, <1>7, <1>8, <1>9

LEMMA CheckLockBounded ==
  ASSUME TypeOK, TypeOK', LoginInv, NEW h \in Handlers, CheckLock(h)
  PROVE  LoginInv'
  <1>1. /\ At(h, "lockcheck") /\ ~At(h, "idle") /\ "ratecheck" \in Steps
        /\ UNCHANGED <<count, locked, gap>>
    BY DEF CheckLock, At, Steps, LoginSteps, redis, history
  <1>2. CASE Finish(h)
    BY <1>1, <1>2, FinishFacts, BoundedElsewhere DEF At
  <1>3. CASE KeyOf(h) \notin locked /\ Goto(h, "ratecheck")
    <2>1. /\ \A g \in Handlers \ {h} : req'[g] = req[g]
          /\ req[h].at = "lockcheck" /\ req'[h].at = "ratecheck" /\ req'[h].typed = req[h].typed
      BY <1>1, <1>3, GotoFacts DEF At
    <2> SUFFICES ASSUME NEW k \in Keys PROVE Bounded(k)'
      BY DEF LoginInv
    <2>2. Past(k)' = Past(k) /\ Lockers(k)' = Lockers(k)
      BY <2>1 DEF Past, Lockers, KeyOf
    <2>3. Bounded(k)
      BY DEF LoginInv
    <2>4. CASE KeyOf(h) # k
      <3>1. Through(k)' \subseteq Through(k)
        BY <2>1, <2>4 DEF Through, KeyOf
      <3>2. QED
        BY <1>1, <2>2, <2>3, <3>1, BoundedShrink
    <2>5. CASE KeyOf(h) = k
      <3>1. RateBound(k)' /\ LockBound(k)'
        BY <1>1, <2>2, <2>3 DEF Bounded, RateBound, LockBound
      <3>2. ASSUME k \notin gap'
            PROVE  count'[k] + Cardinality(Through(k)') <= SoftLimit - 1 + Cardinality(Handlers)
        <4>1. count[k] <= SoftLimit - 1 + Cardinality(Lockers(k))
          BY <1>1, <1>3, <2>3, <2>5, <3>2 DEF Bounded, LockBound
        <4>2. Cardinality(Through(k)') + Cardinality(Lockers(k)') <= Cardinality(Handlers)
          BY HandlerSets, LoginSets
        <4>3. /\ count[k] \in Nat /\ SoftLimit \in Nat /\ Cardinality(Handlers) \in Nat
              /\ Cardinality(Through(k)') \in Nat /\ Cardinality(Lockers(k)) \in Nat
          BY ConstantFacts, HandlerSets, LoginSets DEF TypeOK
        <4>4. QED
          BY <1>1, <2>2, <4>1, <4>2, <4>3
      <3>3. QED
        BY <3>1, <3>2 DEF Bounded, SoftBound
    <2>6. QED
      BY <2>4, <2>5
  <1>4. QED
    BY <1>2, <1>3 DEF CheckLock

LEMMA CheckRateBounded ==
  ASSUME TypeOK, TypeOK', LoginInv, NEW h \in Handlers, CheckRate(h)
  PROVE  LoginInv'
  <1>1. /\ At(h, "ratecheck") /\ ~At(h, "idle") /\ "verify" \in Steps
        /\ UNCHANGED <<count, locked, gap>>
    BY DEF CheckRate, At, Steps, LoginSteps, redis, history
  <1>2. CASE Finish(h)
    BY <1>1, <1>2, FinishFacts, BoundedElsewhere DEF At
  <1>3. CASE ~(count[KeyOf(h)] >= RateLimit) /\ Goto(h, "verify")
    <2>1. /\ \A g \in Handlers \ {h} : req'[g] = req[g]
          /\ req[h].at = "ratecheck" /\ req'[h].at = "verify" /\ req'[h].typed = req[h].typed
      BY <1>1, <1>3, GotoFacts DEF At
    <2> SUFFICES ASSUME NEW k \in Keys PROVE Bounded(k)'
      BY DEF LoginInv
    <2>2. Through(k)' = Through(k) /\ Lockers(k)' = Lockers(k)
      BY <2>1 DEF Through, Lockers, KeyOf
    <2>3. Bounded(k)
      BY DEF LoginInv
    <2>4. CASE KeyOf(h) # k
      <3>1. Past(k)' \subseteq Past(k)
        BY <2>1, <2>4 DEF Past, KeyOf
      <3>2. QED
        BY <1>1, <2>2, <2>3, <3>1, BoundedShrink
    <2>5. CASE KeyOf(h) = k
      <3>1. SoftBound(k)' /\ LockBound(k)'
        BY <1>1, <2>2, <2>3 DEF Bounded, SoftBound, LockBound
      <3>2. /\ count[k] \in Nat /\ RateLimit \in Nat /\ Cardinality(Handlers) \in Nat
            /\ Cardinality(Past(k)') \in 0..Cardinality(Handlers)
        BY ConstantFacts, HandlerSets, LoginSets DEF TypeOK
      <3>3. RateBound(k)'
        BY <1>1, <1>3, <2>5, <3>2 DEF RateBound
      <3>4. QED
        BY <3>1, <3>3 DEF Bounded
    <2>6. QED
      BY <2>4, <2>5
  <1>4. QED
    BY <1>2, <1>3 DEF CheckRate

(* The steps from verify to the answer change the sets of one counter: for *)
(* another one they are as before.                                         *)
LEMMA OtherCounters ==
  ASSUME TypeOK, TypeOK', LoginInv, NEW h \in Handlers, \A g \in Handlers \ {h} : req'[g] = req[g],
         req'[h].at = "idle" \/ req'[h].typed = req[h].typed,
         NEW k \in Keys, k # KeyOf(h), count'[k] = count[k],
         k \in gap' <=> k \in gap, k \in locked' <=> k \in locked
  PROVE  Bounded(k)'
  <1>1. h \notin Past(k)' /\ h \notin Through(k)' /\ h \notin Lockers(k)
    BY DEF Past, Through, Lockers, KeyOf
  <1>2. /\ Past(k)' \subseteq Past(k) /\ Through(k)' \subseteq Through(k)
        /\ Lockers(k) \subseteq Lockers(k)'
    BY <1>1, BoundedOthers
  <1>3. Bounded(k)
    BY DEF LoginInv
  <1>4. QED
    BY <1>2, <1>3, BoundedShrink

LEMMA VerifyBounded ==
  ASSUME TypeOK, TypeOK', LoginInv, NEW h \in Handlers, Verify(h)
  PROVE  LoginInv'
  <1>1. /\ At(h, "verify") /\ ~At(h, "idle") /\ {"reset", "failing"} \subseteq Steps
        /\ UNCHANGED <<count, locked, gap>>
    BY DEF Verify, At, Steps, LoginSteps, redis, history
  <1>2. PICK place \in {"reset", "failing"} : Goto(h, place)
    BY DEF Verify
  <1>3. /\ \A g \in Handlers \ {h} : req'[g] = req[g]
        /\ req[h].at = "verify" /\ req'[h].at = place /\ req'[h].typed = req[h].typed
    BY <1>1, <1>2, GotoFacts DEF At
  <1> SUFFICES ASSUME NEW k \in Keys PROVE Bounded(k)'
    BY DEF LoginInv
  <1>4. /\ Past(k)' \subseteq Past(k) /\ Through(k)' \subseteq Through(k)
        /\ Lockers(k) \subseteq Lockers(k)'
    BY <1>3 DEF Past, Through, Lockers, KeyOf
  <1>5. Bounded(k)
    BY DEF LoginInv
  <1>6. QED
    BY <1>1, <1>4, <1>5, BoundedShrink

(* A counted failure leaves the ones to be counted, and joins those who    *)
(* lock if it reached the limit.                                           *)
LEMMA CountFailureBounded ==
  ASSUME TypeOK, TypeOK', LoginInv, NEW h \in Handlers, CountFailure(h)
  PROVE  LoginInv'
  <1> DEFINE c == KeyOf(h)
  <1>1. /\ At(h, "failing") /\ ~At(h, "idle") /\ c \in Keys /\ UNCHANGED <<locked, gap>>
    BY KeyFacts DEF CountFailure, At, history
  <1>2. count[c] + 1 \in Nat /\ count' = [count EXCEPT ![c] = count[c] + 1]
    BY <1>1 DEF CountFailure, TypeOK
  <1>3. \/ AfterCounter(h, count[c] + 1)
        \/ req' = [req EXCEPT ![h].at = "expiring", ![h].got = count[c] + 1]
    BY DEF CountFailure
  <1>4. /\ \A g \in Handlers \ {h} : req'[g] = req[g]
        /\ \/ req'[h].at = "idle"
           \/ /\ req'[h].at \in {"locking", "expiring"} /\ req'[h].typed = req[h].typed
              /\ req'[h].got = count[c] + 1
        /\ count[c] + 1 >= SoftLimit => req'[h].at # "idle"
    BY <1>1, <1>2, <1>3, CounterFacts
  <1>5. req[h].at = "failing" /\ req'[h].at \notin {"ratecheck", "verify", "failing"}
    BY <1>1, <1>4 DEF At
  <1>6. ASSUME NEW k \in Keys, k # c PROVE Bounded(k)'
    <2>1. count'[k] = count[k]
      BY <1>1, <1>2, <1>6 DEF TypeOK
    <2>2. QED
      BY <1>1, <1>4, <1>6, <2>1, OtherCounters
  <1>7. ASSUME NEW k \in Keys, k = c PROVE Bounded(k)'
    <2>0. k = KeyOf(h) /\ count'[k] = count[k] + 1 /\ Bounded(k)
      BY <1>1, <1>2, <1>7 DEF LoginInv, TypeOK
    <2>1. /\ h \in Past(k) /\ h \notin Past(k)' /\ h \in Through(k) /\ h \notin Through(k)'
          /\ h \notin Lockers(k)
      BY <1>5, <2>0 DEF Past, Through, Lockers
    <2>2. /\ Past(k)' = Past(k) \ {h} /\ Through(k)' = Through(k) \ {h}
          /\ Lockers(k)' \ {h} = Lockers(k)
      BY <1>4, <2>1, BoundedOthers
    <2>3. /\ count[k] \in Nat /\ SoftLimit \in Nat /\ RateLimit \in Nat /\ Cardinality(Handlers) \in Nat
          /\ Cardinality(Past(k)) \in Nat /\ Cardinality(Past(k)') = Cardinality(Past(k)) - 1
          /\ Cardinality(Through(k)) \in Nat
          /\ Cardinality(Through(k)') = Cardinality(Through(k)) - 1
          /\ Cardinality(Lockers(k)) \in Nat
      BY <1>1, <2>1, <2>2, ConstantFacts, HandlerSets, LoginSets DEF TypeOK
    <2>4. RateBound(k)'
      BY <2>0, <2>3 DEF Bounded, RateBound
    <2>5. SoftBound(k)'
      BY <1>1, <2>0, <2>3 DEF Bounded, SoftBound
    <2>6. CASE count[k] + 1 >= SoftLimit
      <3>1. h \in Lockers(k)'
        BY <1>4, <2>0, <2>6 DEF Lockers, KeyOf
      <3>2. Cardinality(Lockers(k)' \ {h}) = Cardinality(Lockers(k)') - 1
        BY <3>1, HandlerSets, LoginSets
      <3>3. Cardinality(Lockers(k)') = Cardinality(Lockers(k)) + 1
        <4>1. Cardinality(Lockers(k)') \in Nat
          BY HandlerSets, LoginSets
        <4>2. Cardinality(Lockers(k)' \ {h}) = Cardinality(Lockers(k))
          BY <2>2, Zenon
        <4>3. QED
          BY <2>3, <3>2, <4>1, <4>2
      <3>4. QED
        BY <1>1, <2>0, <2>3, <2>4, <2>5, <3>3 DEF Bounded, LockBound
    <2>7. CASE ~(count[k] + 1 >= SoftLimit)
      <3>1. Cardinality(Lockers(k)') \in Nat
        BY HandlerSets, LoginSets
      <3>2. QED
        BY <2>0, <2>3, <2>4, <2>5, <2>7, <3>1 DEF Bounded, LockBound
    <2>8. QED
      BY <2>6, <2>7
  <1>8. QED
    BY <1>6, <1>7 DEF LoginInv

LEMMA ExpireCounterBounded ==
  ASSUME TypeOK, TypeOK', LoginInv, NEW h \in Handlers, ExpireCounter(h)
  PROVE  LoginInv'
  <1>1. /\ At(h, "expiring") /\ ~At(h, "idle") /\ req[h].got \in Nat
        /\ UNCHANGED <<count, locked, gap>> /\ AfterCounter(h, req[h].got)
    BY Busy DEF ExpireCounter, At, Requests
  <1>2. /\ \A g \in Handlers \ {h} : req'[g] = req[g]
        /\ \/ req'[h].at = "idle"
           \/ /\ req'[h].at \in {"locking", "expiring"} /\ req'[h].typed = req[h].typed
              /\ req'[h].got = req[h].got
        /\ req[h].got >= SoftLimit => req'[h].at # "idle"
    BY <1>1, CounterFacts
  <1> SUFFICES ASSUME NEW k \in Keys PROVE Bounded(k)'
    BY DEF LoginInv
  <1>3. h \notin Past(k)' /\ h \notin Through(k)' /\ (h \in Lockers(k) => h \in Lockers(k)')
    BY <1>1, <1>2 DEF Past, Through, Lockers, KeyOf, At
  <1>4. /\ Past(k)' \subseteq Past(k) /\ Through(k)' \subseteq Through(k)
        /\ Lockers(k) \subseteq Lockers(k)'
    BY <1>2, <1>3, BoundedOthers
  <1>5. Bounded(k)
    BY DEF LoginInv
  <1>6. QED
    BY <1>1, <1>4, <1>5, BoundedShrink

(* The end of a request that locked, or failed on the way to it. *)
LEMMA EndBounded ==
  ASSUME TypeOK, TypeOK', LoginInv, NEW h \in Handlers, SetLock(h) \/ Fault(h)
  PROVE  LoginInv'
  <1>1. /\ \A g \in Handlers \ {h} : req'[g] = req[g]
        /\ req'[h].at = "idle" /\ count' = count
    BY FinishFacts DEF SetLock, Fault, redis
  <1>2. \A k \in Keys : k # KeyOf(h) => (k \in gap' <=> k \in gap) /\ (k \in locked' <=> k \in locked)
    BY DEF SetLock, Fault, redis, history
  <1>3. gap \subseteq gap' /\ locked \subseteq locked'
    BY DEF SetLock, Fault, redis, history
  <1>4. ASSUME NEW k \in Keys, k # KeyOf(h) PROVE Bounded(k)'
    BY <1>1, <1>2, <1>4, OtherCounters
  <1>5. ASSUME NEW k \in Keys, k = KeyOf(h) PROVE Bounded(k)'
    <2>1. h \notin Past(k)' /\ h \notin Through(k)'
      BY <1>1 DEF Past, Through
    <2>2. h \in Lockers(k) => k \in gap' \cup locked'
      BY <1>5 DEF SetLock, Fault, Lockers
    <2>3. /\ Past(k)' \subseteq Past(k) /\ Through(k)' \subseteq Through(k)
          /\ (k \notin gap' \cup locked' => Lockers(k) \subseteq Lockers(k)')
      BY <1>1, <2>1, <2>2, BoundedOthers
    <2>4. Bounded(k)
      BY DEF LoginInv
    <2>5. QED
      BY <1>1, <1>3, <2>3, <2>4, BoundedShrink
  <1>6. QED
    BY <1>4, <1>5 DEF LoginInv

LEMMA ResetBounded ==
  ASSUME TypeOK, TypeOK', LoginInv, NEW h \in Handlers, ResetCounters(h)
  PROVE  LoginInv'
  <1>1. /\ At(h, "reset") /\ ~At(h, "idle") /\ "row" \in Steps /\ KeyOf(h) \in Keys
    BY KeyFacts DEF ResetCounters, At, Steps, LoginSteps
  <1>2. /\ \A g \in Handlers \ {h} : req'[g] = req[g]
        /\ req'[h].typed = req[h].typed
    BY <1>1, GotoFacts DEF ResetCounters
  <1>3. /\ count' = [count EXCEPT ![KeyOf(h)] = 0]
        /\ locked' = locked \ {KeyOf(h)} /\ gap' = gap \ {KeyOf(h)}
    BY DEF ResetCounters
  <1>4. ASSUME NEW k \in Keys, k # KeyOf(h) PROVE Bounded(k)'
    <2>1. count'[k] = count[k]
      BY <1>1, <1>3, <1>4 DEF TypeOK
    <2>2. QED
      BY <1>2, <1>3, <1>4, <2>1, OtherCounters
  <1>5. ASSUME NEW k \in Keys, k = KeyOf(h) PROVE Bounded(k)'
    <2>1. count'[k] = 0
      BY <1>1, <1>3, <1>5 DEF TypeOK
    <2>2. QED
      BY <2>1, BoundedAtZero
  <1>6. QED
    BY <1>4, <1>5 DEF LoginInv

LEMMA LoginStep ==
  ASSUME ReqInv, TypeOK', LoginInv, [Next]_vars
  PROVE  LoginInv'
  <1>0. TypeOK
    BY DEF ReqInv
  <1>1. ASSUME NEW h \in Handlers, Handle(h) \/ Fault(h) PROVE LoginInv'
    <2>1. CASE \/ UpdateUser(h) \/ InsertUser(h) \/ CommitUser(h) \/ ReadToken(h) \/ Revoke(h)
               \/ StoreToken(h) \/ Commit(h) \/ Blacklist(h)
      <3>1. /\ UNCHANGED <<count, locked, gap>>
            /\ req[h].at \notin {"expiring", "locking"}
            /\ req'[h].at \notin {"ratecheck", "verify", "failing"}
        BY <2>1, ElsewhereSteps
      <3>2. \A g \in Handlers \ {h} : req'[g] = req[g]
        BY <1>1, OthersStay
      <3>3. QED
        BY <1>0, <3>1, <3>2, BoundedElsewhere
    <2>2. CASE CheckLock(h)
      BY <1>0, <2>2, CheckLockBounded
    <2>3. CASE CheckRate(h)
      BY <1>0, <2>3, CheckRateBounded
    <2>4. CASE Verify(h)
      BY <1>0, <2>4, VerifyBounded
    <2>5. CASE CountFailure(h)
      BY <1>0, <2>5, CountFailureBounded
    <2>6. CASE ExpireCounter(h)
      BY <1>0, <2>6, ExpireCounterBounded
    <2>7. CASE SetLock(h) \/ Fault(h)
      BY <1>0, <2>7, EndBounded
    <2>8. CASE ResetCounters(h)
      BY <1>0, <2>8, ResetBounded
    <2>9. QED
      BY <1>1, <2>1, <2>2, <2>3, <2>4, <2>5, <2>6, <2>7, <2>8 DEF Handle
  <1>2. ASSUME NEW h \in Handlers,
               \/ \E s \in Spellings : Register(h, s) \/ \E correct \in BOOLEAN : Login(h, s, correct)
               \/ \E n \in Pairs : Refresh(h, n) \/ Logout(h, n)
        PROVE  LoginInv'
    <2>1. /\ \A g \in Handlers \ {h} : req'[g] = req[g]
          /\ req[h].at = "idle" /\ UNCHANGED <<count, locked, gap>>
      BY <1>2, BegunOthersStay DEF redis, history
    <2>2. req'[h].at \notin {"ratecheck", "verify", "failing"}
      BY <1>2, BeginSteps DEF Begins
    <2>3. QED
      BY <1>0, <2>1, <2>2, BoundedElsewhere
  <1>3. ASSUME NEW c \in Keys, CounterExpires(c) \/ LockExpires(c), NEW k \in Keys PROVE Bounded(k)'
    <2>1. Past(k)' = Past(k) /\ Through(k)' = Through(k) /\ Lockers(k)' = Lockers(k)
      BY <1>3 DEF CounterExpires, LockExpires, Past, Through, Lockers, KeyOf
    <2>2. CASE k = c /\ CounterExpires(c)
      <3>1. count'[k] = 0
        BY <1>0, <2>2 DEF CounterExpires, TypeOK
      <3>2. QED
        BY <3>1, BoundedAtZero
    <2>3. CASE k = c /\ LockExpires(c) /\ ~(count[c] > 0)
      <3>1. count'[k] = 0
        BY <1>0, <2>3 DEF LockExpires, TypeOK
      <3>2. QED
        BY <3>1, BoundedAtZero
    <2>4. CASE (k = c => LockExpires(c) /\ count[c] > 0)
      <3>1. count'[k] = count[k] /\ (k \notin gap' => k \notin gap)
        BY <1>0, <1>3, <2>4 DEF CounterExpires, LockExpires, TypeOK
      <3>2. k \notin gap' \cup locked' => k \notin gap \cup locked
        BY <1>0, <1>3, <2>4 DEF CounterExpires, LockExpires
      <3>3. Bounded(k)
        BY DEF LoginInv
      <3>4. QED
        BY <1>0, <2>1, <3>1, <3>2, <3>3, BoundedShrink
    <2>5. QED
      BY <1>3, <2>2, <2>3, <2>4
  <1>4. ASSUME UNCHANGED vars \/ Tick, NEW k \in Keys PROVE Bounded(k)'
    <2>1. /\ Past(k)' = Past(k) /\ Through(k)' = Through(k) /\ Lockers(k)' = Lockers(k)
          /\ UNCHANGED <<count, locked, gap>>
      BY <1>4 DEF vars, Tick, Past, Through, Lockers, KeyOf, redis, history
    <2>2. Bounded(k)
      BY DEF LoginInv
    <2>3. QED
      BY <1>0, <2>1, <2>2, BoundedShrink
  <1>5. QED
    BY <1>1, <1>2, <1>3, <1>4 DEF Next, LoginInv

-----------------------------------------------------------------------------
(* The inductive invariant, and what follows. *)

AuthInv ==
    /\ TokenInv
    /\ RotationIsAtomic /\ RotatedTwiceOnlyByOverlap
    /\ RepliedTokensAreStored
    /\ BlackLongEnough /\ UntimedOnlyByFault
    /\ LoginInv

LEMMA InitAuthInv == Init => AuthInv
  <1> SUFFICES ASSUME Init PROVE AuthInv
    OBVIOUS
  <1>1. /\ TypeOK /\ \A h \in Handlers : req[h] = Idle
        /\ \A n \in Pairs : status[n] = "none"
        /\ replied = {} /\ loggedOut = {} /\ \A k \in Keys : count[k] = 0
    BY InitType DEF Init
  <1>2. Fits(Idle) /\ Idle.job = "none" /\ Idle.at = "idle" /\ Idle.old = NoPair
    BY DEF Fits, Idle, LoginSteps
  <1>3. ReqInv
    BY <1>1, <1>2 DEF ReqInv, RequestOK
  <1>4. NewTokensDiffer /\ RotatedAlone
    BY <1>1, <1>2 DEF NewTokensDiffer, RotatedAlone, Rotating, At
  <1>5. RotationIsAtomic /\ RotatedTwiceOnlyByOverlap
    BY <1>1 DEF RotationIsAtomic, RotatedTwiceOnlyByOverlap, Children
  <1>6. RepliedTokensAreStored /\ BlackLongEnough /\ UntimedOnlyByFault
    <2>1. Lost = {} /\ durable = {} /\ faults = 0
      BY <1>1 DEF Lost, Init
    <2>2. RepliedTokensAreStored
      BY <2>1, FS_EmptySet DEF RepliedTokensAreStored
    <2>3. QED
      BY <1>1, <2>2 DEF BlackLongEnough, UntimedOnlyByFault
  <1>7. LoginInv
    <2> SUFFICES ASSUME NEW k \in Keys PROVE Bounded(k)
      BY DEF LoginInv
    <2>1. count[k] = 0
      BY <1>1
    <2>2. /\ SoftLimit \in Nat \ {0} /\ RateLimit \in Nat /\ SoftLimit <= RateLimit
          /\ Cardinality(Handlers) \in Nat /\ Cardinality(Past(k)) \in 0..Cardinality(Handlers)
          /\ Cardinality(Through(k)) \in 0..Cardinality(Handlers)
          /\ Cardinality(Lockers(k)) \in 0..Cardinality(Handlers)
      BY LimitsAssumption, HandlerSets, LoginSets
    <2>3. QED
      BY <2>1, <2>2 DEF Bounded, RateBound, SoftBound, LockBound
  <1>8. QED
    BY <1>3, <1>4, <1>5, <1>6, <1>7 DEF AuthInv, TokenInv

LEMMA AuthInvStep == AuthInv /\ [Next]_vars => AuthInv'
  <1> SUFFICES ASSUME AuthInv, [Next]_vars PROVE AuthInv'
    OBVIOUS
  <1>1. TokenInv /\ ReqInv
    BY DEF AuthInv, TokenInv
  <1>2. TokenInv'
    BY <1>1, ReqStep, NewTokensStep, RotatedAloneStep DEF TokenInv
  <1>3. RotationIsAtomic' /\ RotatedTwiceOnlyByOverlap'
    BY <1>1, RotationStep DEF AuthInv
  <1>4. RepliedTokensAreStored' /\ BlackLongEnough' /\ UntimedOnlyByFault'
    BY <1>1, StoredStep, BlackStep, UntimedStep DEF AuthInv
  <1>5. LoginInv'
    BY <1>1, <1>2, LoginStep DEF AuthInv, TokenInv, ReqInv
  <1>6. QED
    BY <1>2, <1>3, <1>4, <1>5 DEF AuthInv

(* AuthInv holds in every reachable state. *)
THEOREM AuthInvariant == Spec => []AuthInv
  <1>1. QED
    BY InitAuthInv, AuthInvStep, PTL DEF Spec

(* Every variable keeps its type; so every token that was sent was made,    *)
(* and every one that was logged out was sent.                              *)
THEOREM AuthTypes == Spec => []TypeOK
  <1>1. AuthInv => TypeOK
    BY DEF AuthInv, TokenInv, ReqInv
  <1>2. QED
    BY <1>1, AuthInvariant, PTL

(* The old refresh token is revoked exactly when its successor is stored    *)
(* (refresh_tokens, get_db).                                                *)
THEOREM Rotation == Spec => []RotationIsAtomic
  <1>1. AuthInv => RotationIsAtomic
    BY DEF AuthInv
  <1>2. QED
    BY <1>1, AuthInvariant, PTL

(* Only refreshes that had read a token as valid together make it into two  *)
(* (refresh_tokens).                                                        *)
THEOREM RotatedOnce == Spec => []RotatedTwiceOnlyByOverlap
  <1>1. AuthInv => RotatedTwiceOnlyByOverlap
    BY DEF AuthInv
  <1>2. QED
    BY <1>1, AuthInvariant, PTL

(* A refresh token that register sent is stored; of those that login and    *)
(* refresh sent, each fault loses at most one (login, refresh_tokens,       *)
(* register, get_db).                                                       *)
THEOREM SentTokens == Spec => []RepliedTokensAreStored
  <1>1. AuthInv => RepliedTokensAreStored
    BY DEF AuthInv
  <1>2. QED
    BY <1>1, AuthInvariant, PTL

(* A logged out access token is never accepted again (logout,               *)
(* get_current_user), whatever the lifetimes.                               *)
THEOREM LoggedOut == Spec => []LoggedOutIsRejected
  <1>1. ASSUME AuthInv PROVE LoggedOutIsRejected
    <2>1. TypeOK /\ BlackLongEnough /\ replied \subseteq Pairs /\ \A n \in Pairs : AccessExp(n) \in Nat
      BY <1>1, RepliedArePairs DEF AuthInv, TokenInv, ReqInv
    <2>2. \A n \in loggedOut : AccessExp(n) \in Nat /\ black[n] \in Nat /\ now \in Nat
      BY <2>1 DEF TypeOK
    <2>3. QED
      BY <2>1, <2>2 DEF LoggedOutIsRejected, BlackLongEnough, Accepted
  <1>2. QED
    BY <1>1, AuthInvariant, PTL

(* A failure counter without a time to live is about to get one, or its     *)
(* EXPIRE failed (record_failed_attempt).                                   *)
THEOREM UntimedCounters == Spec => []UntimedOnlyByFault
  <1>1. AuthInv => UntimedOnlyByFault
    BY DEF AuthInv
  <1>2. QED
    BY <1>1, AuthInvariant, PTL

(* Wrong passwords counted together overshoot the limits by the requests    *)
(* in flight at most (login, record_failed_attempt): the rate limit always, *)
(* the soft limit as long as no lockout went before its counter.            *)
THEOREM Guesses == Spec => []GuessesBounded
  <1>1. ASSUME AuthInv, NEW k \in Keys
        PROVE  count[k] <= (IF k \in gap THEN RateLimit ELSE SoftLimit) - 1 + Cardinality(Handlers)
    <2>1. RateBound(k) /\ SoftBound(k)
      BY <1>1 DEF AuthInv, LoginInv, Bounded
    <2>2. /\ count[k] \in Nat /\ RateLimit \in Nat /\ SoftLimit \in Nat /\ Cardinality(Handlers) \in Nat
          /\ Cardinality(Past(k)) \in Nat /\ Cardinality(Through(k)) \in Nat
      BY <1>1, ConstantFacts, HandlerSets, LoginSets DEF AuthInv, TokenInv, ReqInv, TypeOK
    <2>3. CASE k \in gap
      BY <2>1, <2>2, <2>3 DEF RateBound
    <2>4. CASE k \notin gap
      BY <2>1, <2>2, <2>4 DEF SoftBound
    <2>5. QED
      BY <2>3, <2>4
  <1>2. AuthInv => GuessesBounded
    BY <1>1 DEF GuessesBounded
  <1>3. QED
    BY <1>2, AuthInvariant, PTL

=============================================================================
