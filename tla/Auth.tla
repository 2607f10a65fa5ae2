-------------------------------- MODULE Auth --------------------------------
(***************************************************************************)
(* Accounts and tokens (api/routers/auth.py, auth/, user_repo.py): failure *)
(* counters and lockouts in Redis, users and refresh tokens in PostgreSQL, *)
(* the blacklist of access tokens.                                         *)
(*                                                                         *)
(* A handler is one of the requests in flight.  Every Redis command and    *)
(* every statement or commit is a step of its own.  Login and refresh      *)
(* answer BEFORE the get_db dependency commits; register commits itself    *)
(* and answers afterwards.  A token pair is a number: the access token and *)
(* the refresh token that are issued together.                             *)
(***************************************************************************)
EXTENDS Naturals, FiniteSets

CONSTANTS
    Handlers,       \* requests in flight at a time
    Spellings,      \* addresses as they are typed
    Stored,         \* Stored[s]: s.lower().strip(), what register stores
    Key,            \* Key[s]: s.lower(), whose hash names the counters
    SoftLimit,      \* _SOFT_LOCK_THRESHOLD
    RateLimit,      \* _RATE_LIMIT_THRESHOLD
    AccessLife,     \* lifetime of an access token
    RefreshLife,    \* lifetime of a refresh token
    MaxRequests,    \* bound: requests started
    MaxPairs,       \* bound: token pairs made
    MaxTime,        \* bound: clock
    MaxFaults       \* bound: failing commands, statements and commits

Keys == {Key[s] : s \in Spellings}
Accounts == {Stored[s] : s \in Spellings}
Pairs == 1..MaxPairs
NoPair == 0

(* The event loop has finitely many requests in flight. *)
ASSUME HandlersAssumption == IsFiniteSet(Handlers)
ASSUME SpellingsAssumption ==
    Spellings # {} /\ DOMAIN Stored = Spellings /\ DOMAIN Key = Spellings
ASSUME LimitsAssumption ==
    /\ SoftLimit \in Nat \ {0} /\ RateLimit \in Nat /\ SoftLimit <= RateLimit
    /\ AccessLife \in Nat \ {0} /\ RefreshLife \in Nat
ASSUME BoundsAssumption ==
    MaxRequests \in Nat /\ MaxPairs \in Nat /\ MaxTime \in Nat /\ MaxFaults \in Nat

VARIABLES
    count,      \* count[k]: auth:ratelimit:email, 0 when absent
    timed,      \* timed[k]: that counter has a time to live
    locked,     \* keys with an auth:lockout entry
    black,      \* black[n]: when the blacklist entry of n goes, 0 when absent
    users,      \* committed accounts
    status,     \* status[n]: refresh token n as committed
    parent,     \* parent[n]: the token n was rotated from
    born,       \* born[n]: when n was issued
    issued,     \* token pairs made so far
    req,        \* req[h]: the request handler h is serving
    now,        \* clock
    requests,   \* requests so far
    faults,     \* faults so far
    replied,    \* pairs some client was sent
    durable,    \* pairs sent by register
    loggedOut,  \* pairs whose logout was answered
    overlap,    \* tokens that two refreshes had read as valid at a time
    broken,     \* keys whose EXPIRE failed
    gap         \* keys whose counter outlived its lockout, or missed it

redis == <<count, timed, locked, black>>
tables == <<users, status, parent, born, issued>>
bounds == <<now, requests, faults>>
ledger == <<replied, durable, loggedOut, overlap>>
history == <<ledger, broken, gap>>
vars == <<redis, tables, req, bounds, history>>

LoginSteps == {"lockcheck", "ratecheck", "verify", "failing", "expiring", "locking", "reset", "row"}
Steps == LoginSteps \cup {"insert", "inserted", "read", "revoking", "storing", "committing", "blacklisting"}

(* No request: what a handler holds between two of them. *)
Idle == [job |-> "none", at |-> "idle", typed |-> CHOOSE s \in Spellings : TRUE,
         right |-> FALSE, got |-> 0, old |-> NoPair, new |-> NoPair]

Requests ==
    [job : {"login", "register", "refresh", "logout"}, at : Steps, typed : Spellings,
     right : BOOLEAN, got : Nat, old : Pairs \cup {NoPair}, new : Pairs \cup {NoPair}]

Init ==
    /\ count = [k \in Keys |-> 0] /\ timed = [k \in Keys |-> FALSE] /\ locked = {}
    /\ black = [n \in Pairs |-> 0]
    /\ users = {}
    /\ status = [n \in Pairs |-> "none"] /\ parent = [n \in Pairs |-> NoPair]
    /\ born = [n \in Pairs |-> 0] /\ issued = 0
    /\ req = [h \in Handlers |-> Idle]
    /\ now = 0 /\ requests = 0 /\ faults = 0
    /\ replied = {} /\ durable = {} /\ loggedOut = {} /\ overlap = {}
    /\ broken = {} /\ gap = {}

At(h, place) == req[h].at = place
Goto(h, place) == req' = [req EXCEPT ![h].at = place]
Finish(h) == req' = [req EXCEPT ![h] = Idle]
KeyOf(h) == Key[req[h].typed]
AccessExp(n) == born[n] + AccessLife
RefreshExp(n) == born[n] + RefreshLife

(* A request arrives at an idle handler. *)
Begin(h, request) ==
    /\ At(h, "idle")
    /\ requests < MaxRequests
    /\ requests' = requests + 1
    /\ req' = [req EXCEPT ![h] = request]
    /\ UNCHANGED <<redis, tables, now, faults, history>>

-----------------------------------------------------------------------------
(* POST /auth/login.  check_ip_rate_limit reads a counter that nothing     *)
(* increments: it lets everyone pass and has no step.                      *)

Login(h, s, correct) ==
    Begin(h, [Idle EXCEPT !.job = "login", !.at = "lockcheck", !.typed = s, !.right = correct])

(* is_email_locked: 429 or on. *)
CheckLock(h) ==
    /\ At(h, "lockcheck")
    /\ IF KeyOf(h) \in locked THEN Finish(h) ELSE Goto(h, "ratecheck")
    /\ UNCHANGED <<redis, tables, bounds, history>>

(* check_email_rate_limit: 429 or on. *)
CheckRate(h) ==
    /\ At(h, "ratecheck")
    /\ IF count[KeyOf(h)] >= RateLimit THEN Finish(h) ELSE Goto(h, "verify")
    /\ UNCHANGED <<redis, tables, bounds, history>>

(* The account is looked up as typed, not as register stores it. *)
Verify(h) ==
    /\ At(h, "verify")
    /\ Goto(h, IF req[h].right /\ req[h].typed \in users THEN "reset" ELSE "failing")
    /\ UNCHANGED <<redis, tables, bounds, history>>

(* What follows the counter in record_failed_attempt: lock, or 401. *)
AfterCounter(h, n) ==
    IF n >= SoftLimit
    THEN req' = [req EXCEPT ![h].at = "locking", ![h].got = n]
    ELSE Finish(h)

(* Faulty: EXPIRE is sent with the failure that locks. *)
CountFailureTimingLock(h) ==
    /\ At(h, "failing")
    /\ LET k == KeyOf(h)
           n == count[k] + 1
       IN /\ count' = [count EXCEPT ![k] = n]
          /\ IF n = SoftLimit
             THEN req' = [req EXCEPT ![h].at = "expiring", ![h].got = n]
             ELSE AfterCounter(h, n)
    /\ UNCHANGED <<timed, locked, black, tables, bounds, history>>

(* INCR of record_failed_attempt. *)
CountFailure(h) ==
    /\ At(h, "failing")
    /\ LET k == KeyOf(h)
           n == count[k] + 1
       IN /\ count' = [count EXCEPT ![k] = n]
          /\ IF n = 1
             THEN req' = [req EXCEPT ![h].at = "expiring", ![h].got = n]
             ELSE AfterCounter(h, n)
    /\ UNCHANGED <<timed, locked, black, tables, bounds, history>>

(* Faulty: EXPIRE names the lockout, which has its own. *)
ExpireLockout(h) ==
    /\ At(h, "expiring")
    /\ AfterCounter(h, req[h].got)
    /\ UNCHANGED <<redis, tables, bounds, history>>

(* EXPIRE, without effect on a counter that is gone. *)
ExpireCounter(h) ==
    /\ At(h, "expiring")
    /\ timed' = [timed EXCEPT ![KeyOf(h)] = count[KeyOf(h)] > 0]
    /\ broken' = IF count[KeyOf(h)] > 0 THEN broken \ {KeyOf(h)} ELSE broken
    /\ AfterCounter(h, req[h].got)
    /\ UNCHANGED <<count, locked, black, tables, bounds, ledger, gap>>

(* Faulty: the lockout is set on reaching the limit only. *)
SetLockOnce(h) ==
    /\ At(h, "locking")
    /\ locked' = IF req[h].got = RateLimit THEN locked \cup {KeyOf(h)} ELSE locked
    /\ Finish(h)
    /\ UNCHANGED <<count, timed, black, tables, bounds, history>>

(* SET of the lockout with its time to live, then 401. *)
SetLock(h) ==
    /\ At(h, "locking")
    /\ locked' = locked \cup {KeyOf(h)}
    /\ Finish(h)
    /\ UNCHANGED <<count, timed, black, tables, bounds, history>>

(* reset_attempt_counters: one DEL of both keys. *)
ResetCounters(h) ==
    /\ At(h, "reset")
    /\ count' = [count EXCEPT ![KeyOf(h)] = 0]
    /\ timed' = [timed EXCEPT ![KeyOf(h)] = FALSE]
    /\ locked' = locked \ {KeyOf(h)}
    /\ broken' = broken \ {KeyOf(h)}
    /\ gap' = gap \ {KeyOf(h)}
    /\ Goto(h, "row")
    /\ UNCHANGED <<black, tables, bounds, ledger>>

(* reset_failed_logins updates the user's row and holds its lock until the *)
(* commit; the columns it writes are read by nobody.                       *)
HoldsUser(h) == req[h].job = "login" /\ req[h].at \in {"storing", "committing"}

UpdateUser(h) ==
    /\ At(h, "row")
    /\ \A g \in Handlers : HoldsUser(g) => req[g].typed # req[h].typed
    /\ Goto(h, "storing")
    /\ UNCHANGED <<redis, tables, bounds, history>>

-----------------------------------------------------------------------------
(* Tokens, for login, register and refresh.                                *)

(* Faulty: the new token is answered by every route before its commit. *)
StoreTokenAnswering(h) ==
    /\ At(h, "storing")
    /\ issued < MaxPairs
    /\ issued' = issued + 1
    /\ born' = [born EXCEPT ![issued'] = now]
    /\ parent' = [parent EXCEPT ![issued'] = req[h].old]
    /\ req' = [req EXCEPT ![h].at = "committing", ![h].new = issued']
    /\ replied' = replied \cup {issued'}
    /\ durable' = IF req[h].job = "register" THEN durable \cup {issued'} ELSE durable
    /\ UNCHANGED <<redis, users, status, bounds, loggedOut, overlap, broken, gap>>

(* store_refresh_token flushes the INSERT.  Login and refresh return, so   *)
(* the answer is sent before get_db commits.                               *)
StoreToken(h) ==
    /\ At(h, "storing")
    /\ issued < MaxPairs
    /\ issued' = issued + 1
    /\ born' = [born EXCEPT ![issued'] = now]
    /\ parent' = [parent EXCEPT ![issued'] = req[h].old]
    /\ req' = [req EXCEPT ![h].at = "committing", ![h].new = issued']
    /\ replied' = IF req[h].job = "register" THEN replied ELSE replied \cup {issued'}
    /\ UNCHANGED <<redis, users, status, bounds, durable, loggedOut, overlap, broken, gap>>

(* Faulty: the revocation is lost. *)
CommitNewOnly(h) ==
    /\ At(h, "committing")
    /\ status' = [status EXCEPT ![req[h].new] = "valid"]
    /\ IF req[h].job = "register"
       THEN replied' = replied \cup {req[h].new} /\ durable' = durable \cup {req[h].new}
       ELSE UNCHANGED <<replied, durable>>
    /\ Finish(h)
    /\ UNCHANGED <<redis, users, parent, born, issued, bounds, loggedOut, overlap, broken, gap>>

(* COMMIT; register answers now. *)
Commit(h) ==
    /\ At(h, "committing")
    /\ status' = [n \in Pairs |-> IF n = req[h].new THEN "valid"
                                  ELSE IF n = req[h].old THEN "revoked" ELSE status[n]]
    /\ IF req[h].job = "register"
       THEN replied' = replied \cup {req[h].new} /\ durable' = durable \cup {req[h].new}
       ELSE UNCHANGED <<replied, durable>>
    /\ Finish(h)
    /\ UNCHANGED <<redis, users, parent, born, issued, bounds, loggedOut, overlap, broken, gap>>

-----------------------------------------------------------------------------
(* POST /auth/register, with a password that is long enough.               *)

Register(h, s) == Begin(h, [Idle EXCEPT !.job = "register", !.at = "insert", !.typed = s])

(* create_user.  The unique index makes the INSERT wait for one that is    *)
(* not committed; IntegrityError is answered 409.                          *)
InsertUser(h) ==
    /\ At(h, "insert")
    /\ \A g \in Handlers : At(g, "inserted") => Stored[req[g].typed] # Stored[req[h].typed]
    /\ IF Stored[req[h].typed] \in users THEN Finish(h) ELSE Goto(h, "inserted")
    /\ UNCHANGED <<redis, tables, bounds, history>>

(* Faulty: the account is stored as typed. *)
CommitUserAsTyped(h) ==
    /\ At(h, "inserted")
    /\ users' = users \cup {req[h].typed}
    /\ Goto(h, "storing")
    /\ UNCHANGED <<redis, status, parent, born, issued, bounds, history>>

CommitUser(h) ==
    /\ At(h, "inserted")
    /\ users' = users \cup {Stored[req[h].typed]}
    /\ Goto(h, "storing")
    /\ UNCHANGED <<redis, status, parent, born, issued, bounds, history>>

-----------------------------------------------------------------------------
(* POST /auth/refresh.                                                     *)

(* decode_token accepts what was issued and has not expired. *)
Refresh(h, n) ==
    /\ n \in replied
    /\ now < RefreshExp(n)
    /\ Begin(h, [Idle EXCEPT !.job = "refresh", !.at = "read", !.old = n])

(* Refreshes that have read n as valid and have not committed. *)
Rotating(n) == {h \in Handlers : /\ req[h].job = "refresh" /\ req[h].old = n
                                 /\ req[h].at \in {"revoking", "storing", "committing"}}

(* Faulty: a revoked token is found. *)
ReadTokenAny(h) ==
    /\ At(h, "read")
    /\ LET n == req[h].old
       IN IF status[n] # "none" /\ now < RefreshExp(n)
          THEN /\ Goto(h, "revoking")
               /\ overlap' = IF Rotating(n) = {} THEN overlap ELSE overlap \cup {n}
          ELSE Finish(h) /\ UNCHANGED overlap
    /\ UNCHANGED <<redis, tables, bounds, replied, durable, loggedOut, broken, gap>>

(* get_valid_refresh_token: committed, not revoked, not expired; or 401. *)
ReadToken(h) ==
    /\ At(h, "read")
    /\ LET n == req[h].old
       IN IF status[n] = "valid" /\ now < RefreshExp(n)
          THEN /\ Goto(h, "revoking")
               /\ overlap' = IF Rotating(n) = {} THEN overlap ELSE overlap \cup {n}
          ELSE Finish(h) /\ UNCHANGED overlap
    /\ UNCHANGED <<redis, tables, bounds, replied, durable, loggedOut, broken, gap>>

(* revoke_refresh_token waits for the row and revokes it whatever it is:   *)
(* its WHERE names the jti only.                                           *)
Revoke(h) ==
    /\ At(h, "revoking")
    /\ \A g \in Rotating(req[h].old) : At(g, "revoking")
    /\ Goto(h, "storing")
    /\ UNCHANGED <<redis, tables, bounds, history>>

-----------------------------------------------------------------------------
(* POST /auth/logout and every other route behind get_current_user.        *)

(* decode_token and is_blacklisted. *)
Accepted(n) == now < AccessExp(n) /\ ~(now < black[n])

Logout(h, n) ==
    /\ n \in replied
    /\ Accepted(n)
    /\ Begin(h, [Idle EXCEPT !.job = "logout", !.at = "blacklisting", !.old = n])

(* Faulty: the entry lives as long as a token lives at least. *)
BlacklistBriefly(h) ==
    /\ At(h, "blacklisting")
    /\ black' = [black EXCEPT ![req[h].old] = now + 1]
    /\ loggedOut' = loggedOut \cup {req[h].old}
    /\ Finish(h)
    /\ UNCHANGED <<count, timed, locked, tables, bounds, replied, durable, overlap, broken, gap>>

(* blacklist_token for the rest of the token's life, at least a second. *)
Blacklist(h) ==
    /\ At(h, "blacklisting")
    /\ black' = [black EXCEPT ![req[h].old] =
                    IF now < AccessExp(req[h].old) THEN AccessExp(req[h].old) ELSE now + 1]
    /\ loggedOut' = loggedOut \cup {req[h].old}
    /\ Finish(h)
    /\ UNCHANGED <<count, timed, locked, tables, bounds, replied, durable, overlap, broken, gap>>

-----------------------------------------------------------------------------

(* A command, statement or commit fails, or the process dies: the request  *)
(* ends (500 or 503, unless it was answered already) and its transaction   *)
(* is rolled back.  What it did in Redis and what register committed stay. *)
Fault(h) ==
    /\ ~At(h, "idle")
    /\ faults < MaxFaults
    /\ faults' = faults + 1
    /\ broken' = IF At(h, "expiring") /\ count[KeyOf(h)] > 0 /\ ~timed[KeyOf(h)]
                 THEN broken \cup {KeyOf(h)} ELSE broken
    /\ gap' = IF req[h].got >= SoftLimit THEN gap \cup {KeyOf(h)} ELSE gap
    /\ Finish(h)
    /\ UNCHANGED <<redis, tables, now, requests, ledger>>

CounterExpires(k) ==
    /\ timed[k]
    /\ count' = [count EXCEPT ![k] = 0]
    /\ timed' = [timed EXCEPT ![k] = FALSE]
    /\ gap' = gap \ {k}
    /\ UNCHANGED <<locked, black, tables, req, bounds, ledger, broken>>

LockExpires(k) ==
    /\ k \in locked
    /\ locked' = locked \ {k}
    /\ gap' = IF count[k] > 0 THEN gap \cup {k} ELSE gap
    /\ UNCHANGED <<count, timed, black, tables, req, bounds, ledger, broken>>

Tick ==
    /\ now < MaxTime
    /\ now' = now + 1
    /\ UNCHANGED <<redis, tables, req, requests, faults, history>>

Handle(h) ==
    \/ CheckLock(h) \/ CheckRate(h) \/ Verify(h)
    \/ CountFailure(h) \/ ExpireCounter(h) \/ SetLock(h)
    \/ ResetCounters(h) \/ UpdateUser(h)
    \/ InsertUser(h) \/ CommitUser(h)
    \/ ReadToken(h) \/ Revoke(h)
    \/ StoreToken(h) \/ Commit(h)
    \/ Blacklist(h)

Next ==
    \/ \E h \in Handlers :
        \/ \E s \in Spellings : Register(h, s) \/ \E correct \in BOOLEAN : Login(h, s, correct)
        \/ \E n \in Pairs : Refresh(h, n) \/ Logout(h, n)
        \/ Handle(h)
        \/ Fault(h)
    \/ \E k \in Keys : CounterExpires(k) \/ LockExpires(k)
    \/ Tick

(* Handlers are tasks of the event loop; Redis deletes what has expired. *)
Spec ==
    /\ Init /\ [][Next]_vars
    /\ \A h \in Handlers : WF_vars(Handle(h))
    /\ \A k \in Keys : WF_vars(CounterExpires(k)) /\ WF_vars(LockExpires(k))

-----------------------------------------------------------------------------
(* Types. *)
TypeOK ==
    /\ count \in [Keys -> Nat] /\ timed \in [Keys -> BOOLEAN] /\ locked \subseteq Keys
    /\ black \in [Pairs -> Nat]
    /\ users \subseteq Accounts
    /\ status \in [Pairs -> {"none", "valid", "revoked"}]
    /\ parent \in [Pairs -> Pairs \cup {NoPair}] /\ born \in [Pairs -> Nat]
    /\ issued \in 0..MaxPairs
    /\ req \in [Handlers -> Requests \cup {Idle}]
    /\ now \in Nat /\ requests \in Nat /\ faults \in Nat
    /\ replied \subseteq 1..issued /\ durable \subseteq replied /\ loggedOut \subseteq replied
    /\ overlap \subseteq Pairs /\ broken \subseteq Keys /\ gap \subseteq Keys

(* Failed logins that are checked against the limits together overshoot    *)
(* them by the requests in flight at most: the soft limit while each       *)
(* lockout lasts as long as the counter, and the rate limit always         *)
(* (login, record_failed_attempt).                                         *)
GuessesBounded ==
    \A k \in Keys :
        count[k] <= (IF k \in gap THEN RateLimit ELSE SoftLimit) - 1 + Cardinality(Handlers)

(* A failure counter without a time to live is about to get one, or its    *)
(* EXPIRE failed (record_failed_attempt: INCR and EXPIRE are two commands).*)
UntimedOnlyByFault ==
    \A k \in Keys : count[k] > 0 /\ ~timed[k] =>
        k \in broken \/ \E h \in Handlers : At(h, "expiring") /\ KeyOf(h) = k

(* A refresh token is rotated into two only when two refreshes had both    *)
(* read it as valid before either committed (refresh_tokens).              *)
Children(n) == {c \in Pairs : parent[c] = n /\ status[c] # "none"}

RotatedTwiceOnlyByOverlap ==
    \A n \in Pairs \ overlap : \A c, d \in Children(n) : c = d

(* A refresh token is revoked exactly when a successor of it is stored:    *)
(* a refresh that fails half way leaves the old token usable               *)
(* (refresh_tokens, get_db).                                               *)
RotationIsAtomic ==
    \A n \in Pairs : status[n] = "revoked" <=> Children(n) # {}

(* A refresh token that a registration sent is stored.  One that a login   *)
(* or a refresh sent is stored, or its commit is still to come: a failure  *)
(* loses at most the one token whose commit it hits, never a token that    *)
(* another request was sent (login, refresh_tokens, register, get_db).     *)
Lost == {n \in replied : /\ status[n] = "none"
                         /\ ~\E h \in Handlers : At(h, "committing") /\ req[h].new = n}

RepliedTokensAreStored ==
    /\ \A n \in durable : status[n] # "none"
    /\ Cardinality(Lost) <= faults

(* An access token whose logout was answered is never accepted again:      *)
(* its blacklist entry does not go before the token has expired (logout,   *)
(* get_current_user).                                                      *)
LoggedOutIsRejected == \A n \in loggedOut : ~Accepted(n)

(* Whoever is turned away by lockout or counter gets another chance,       *)
(* unless the counter lost its EXPIRE (login, record_failed_attempt).      *)
TurnedAway(k) == k \in locked \/ count[k] >= RateLimit

BlockEnds == \A k \in Keys : TurnedAway(k) ~> ~TurnedAway(k) \/ k \in broken

=============================================================================
