# Stateful Personal Assistant: TLA+ specifications

The program is a FastAPI backend around a LangGraph agent, with PostgreSQL (users, conversations, approvals, graph
checkpoints), Redis (counters, stream buffers, short-lived keys) and a Streamlit client. This directory holds its
specifications: what is modelled, what TLC checks on small instances, what TLAPS proves for every instance, and what
is left out. Paths below are relative to `src/` of the backend (`src/src/` from the root) unless they begin with
`docs/`, `tests/` or `frontend/`.

## 1. Inventory

| Part | State | Operations | Hard about it |
|---|---|---|---|
| HITL approvals (`persistence/repositories/hitl_repo.py`, `graph/nodes/hitl_gate.py`, `api/routers/sessions.py` approve) | rows of `hitl_approvals`, `hitl_audit_log` | gate inserts, request consumes and audits, resume task | two requests and the sweeper race for a row; the commit comes after reply and resume task; restarts |
| HITL sweeper (`api/main.py`) | none of its own | expires overdue rows every 60 s, audits `timeout` | bulk UPDATE against uncommitted consumes; must survive errors |
| Event streams (`streaming/`, `api/routers/chat.py`) | Redis list of events, owner and context keys, an `asyncio.Queue` per response | post, open, emit, replay, cancel | several Redis commands per emit, two emitters on one list, keys that expire at different times, dropped connections |
| Web client (`frontend/app.py`) | session state: pending approval, last event id | send and read a turn, decide, reconnect | reconnect races with the resumed graph and with expiry |
| OpenAI quota (`quota/limiter.py`) | Redis counters per user, session and address | check and charge | check and charge are not atomic; EXPIRE depends on a stale read |
| Agent graph (`agents/`, `graph/edges.py`, `graph/nodes/`) | `AgentState`, checkpoints by thread | router, tool executor, gate, LLM, error handler | routing by several flags, suspension and resumption, error paths |
| Tool executor and LLM node (`graph/nodes/tool_executor.py`, `llm.py`) | results of a turn | 4 attempts per tool in parallel; 3 primary attempts and fallbacks | partial failure, time-outs whose error has no text, retries |
| Authentication (`api/routers/auth.py`, `auth/`) | failure counters, lockouts, refresh tokens, blacklist | login, refresh, logout, register, guest | rotation races, counters in Redis against a transaction in PostgreSQL |
| Conversations and retention (`persistence/repositories/conversation_repo.py`, `message_repo.py`, `api/main.py`) | conversations, messages | create with a title, save a message, list by pages, soft delete, daily purge | purge against open approvals, locks and foreign keys; title races; a cursor that is a timestamp |
| Lifespan (`api/main.py`, `persistence/checkpointer.py`) | engine, checkpointer, background tasks | startup, degraded mode, shutdown | order of steps, failures in the middle |
| Session list and model switch, registry, settings, middleware, logging, sanitising, hashing | little or none | reads, configuration, formatting | not modelled: no state that outlives a call, or none that anything reads |

How they interact: `POST /chat` charges the quota and writes the stream's keys; `GET /chat/stream` runs the graph as a
task whose emitter writes Redis and the response; `hitl_gate` commits an approval and suspends the graph;
`POST /sessions/{id}/approve` consumes it and creates a task that resumes the graph with a second emitter on the same
list; the client reads the first response, and polls the list after the decision. The sweeper and the retention job run
beside all of them.

What makes each part correct: an approval gets one verdict, for ever, and log, row and graph agree on it; a live
client is sent the events of the buffer in order, and a reconnect misses none; counters overshoot by no more than the
requests in flight, charge all or nothing but for one charge an error, and expire; every run of the graph comes to an
end or to the gate, runs a sensitive tool only for an approval of it, and answers once; a refresh token is rotated
once and never lost, a lockout limits the guesses and ends, a logged-out token stays out; a purge takes only stale
conversations that nothing uses, and pages, titles and counters are what they seem but for named races; nothing works
on a database the process does not have.

## 2. Plan

Done in this order, the most important behaviour first:

1. `ApprovalLifecycle` (abstract) and `HitlApproval` (detailed), with `HitlApprovalProofs`.
2. `EventStream` (server side of one stream) and `ChatClient`, which extends it by the client and the clock, with
   `ChatClientProofs`.
3. `Quota`, with `QuotaProofs`.
4. `AgentGraph`: the graph, the runs of one thread over its checkpoint, decisions, failing tools and models, with
   `AgentGraphProofs`.
5. `Auth`: login counters and lockout, registration, rotation, blacklist, with `AuthProofs`.
6. `Lifespan` (the process) and `Conversations`, which extends it by the tables, their transactions and the purge, with
   `ConversationsProofs`.
7. Every invariant of the passing runs proved for every value of the constants (section 5).

Still to come:

8. Events of two live emitters of one stream (a repeated GET): `AgentGraph` has the two runs, `EventStream` only a live
   and a resumed one.

## 3. Modules

### HitlApproval, ApprovalLifecycle, MCHitlApproval, HitlApprovalProofs

One module for everything that writes `hitl_approvals` and `hitl_audit_log`, because its actors meet in the rows.
`stored`, `used`, `expired` and `audit` are the committed rows (PostgreSQL at READ COMMITTED); what a transaction has
done but not committed is in its program counter: a request in `consumed` or `replied` holds the row lock of its target
(`Locks`), the sweeper holds the rows in `swept`. An UPDATE waits for the lock and evaluates WHERE again: the guards
`Unlocked` and `IsOpen` of `Consume` and `Conflict`.

| Code | Actions |
|---|---|
| `hitl_gate_node` and the event `run_turn` emits | `GateInsert`, `GateCommit`, `GateFail`, `Announce` |
| `approve_hitl`, pre-check | `PreCheckGone` (410), `PreCheckOpen` |
| `consume_approval` | `Consume`, `Conflict` (409) |
| `insert_audit_log`, `create_task`, the reply | `AuditAndReply`, `AuditFails` (500; always when the CHECK rejects the decision) |
| commit of the `get_db` dependency, after the reply | `Commit`, `CommitFails` |
| `_resume_graph` | `ResumeGraph`, `ResumeFails` |
| `expires_at` passing | `Deadline` |
| `_hitl_timeout_sweeper` | `SweepBegin`, `SweepRow` (one row of the bulk UPDATE), `SweepCommit`, `SweepFails` |
| the process dies and restarts | `Crash` |

That the commit follows the response is how FastAPI (the locked version) ends dependencies with `yield`. The
conversation an approval refers to is taken to exist, although no code of the repository creates its row when a chat
begins: without it the insert fails, which is `GateFail`. Malformed ids (422) and callers without a token change
nothing and are left out; the route does not compare the approval's owner with the caller, so any request may name any
approval. `ApproveRequest.decision` is an unvalidated string, and the only check of it is the one of `hitl_audit_log`,
which accepts `timeout` beside `approve` and `deny`, against the comment `# "approve" | "deny"` in `sessions.py:28`. A
request that posts it is answered 200, uses the row up, logs `timeout` and resumes the graph: `Bodies` has it, and
`other` stands for every string the check rejects. `used` and `expired`, not the log's text, tell such a row from one
the sweeper timed out. The model is of a process that started with its database (`STARTUP_DB_REQUIRED`, the default):
in degraded mode no sweeper runs (`Lifespan`). A request that loses to the sweeper between pre-check and consume is
answered 409 although `sessions.py:180` lists an expired approval under 410, and one that comes after `expires_at` and
before the next sweep is accepted, because only the flag is looked at: the model has the code's answers.

`ApprovalLifecycle` is what a user may rely on: none, open, one of three verdicts, and nothing stays open.
`HitlApproval` implements it under `verdictOf`, which reads the verdict off the committed rows; `Decide` takes a
posted `timeout` too.

### EventStream, ChatClient, ChatClientProofs

`EventStream` is one stream on the server. An emitter is `live` (`_LiveEmitter`, run by `GET /chat/stream`) or
`resume` (`SSEEmitter`, run by `_resume_graph`); `phase` says which Redis command of `emit` comes next (LLEN `Count`,
RPUSH `Push`, EXPIRE `Expire`, LINDEX and the queue `ReadBack`), `graph` and `todo` what `run_turn` still has to emit.
An event is its id, its kind (`thinking`, `token` and `tool_result` are one kind) and, for the properties only, who
pushed it and its serial number. `Raise` is an exception in graph or Redis: `_run_graph` reports the first as `error`
and `done` and dies of the second, `_resume_graph` swallows it. The content of events and how the graph routes are
left out; how often it steps is bounded.

`ChatClient` is one turn of the client over it: `Open`, `Read`, `ReadEnd`, `Drop` (a broken connection; a
`ConnectionError` or `Timeout` keeps an announced approval, any other exception or a rerun of the script forgets it),
`CancelRun` (the server notices later and cancels the task; a cancellation is no `Exception`, so nothing is emitted),
`Decide`, `DecideTooLate`, and the polls of `_reconnect_after_hitl`: `PollGone` (410), `PollFinal`, `PollMore`. `Tick`
is five minutes: `NormalTtl` 1, `HitlTtl` 3, `ContextTtl` 1; an approval is accepted at ages 0 to 2 (`ApprovalTtl`:
ten minutes and the wait for the next sweep). Graph runs, reads and polls are short against a tick.

### Quota, MCQuota, QuotaProofs

`check_and_increment`, one Redis command per action: `Get` over all counters, `Deny` or `Admit`, then `Charge` and,
when the value read was 0, `SetTtl` for each. `Handlers` are the requests in flight at a time, each free to begin
again. `Expires` takes any counter that has a time to live, at any moment: windows have no length in the model. `seen`
is `raw_values`; `allowed` and `lapsed` are history for the properties. `TokenCount` is 0 because `post_chat` passes 0
and nothing else charges tokens (`docs/SPEC.md` FR-26 limits them, so the token limits never deny anything).

### AgentGraph, MCAgentGraph, AgentGraphProofs

One thread. `saved` is its checkpoint, `runs[r]` a run of the graph with its own copy of the state and the node it is
at, `approvals` the committed rows with the turn and the calls they were stored for (history), `disturbed` the approvals
that were open while something else ran on the thread or failed (history).

| Code | Actions |
|---|---|
| `GET /chat/stream`, `_run_graph` | `StartTurn`, for a new message or again for the last one; `Disconnect` |
| `approve_hitl` (task before commit), `_resume_graph`, `resume_turn` | `Decide`, `ReadStream`, `Load` |
| `router_node`, `route_after_router` | `Route`, `RouterFails` (no retry: the run ends with an error event) |
| `hitl_gate_node`, `interrupt_after` | `StoreApproval`, `StoreFails`, `Suspend` |
| `tool_executor_node`, `route_after_tools` | `Execute` (an attempt of one of the calls), `ToolsDone` |
| `llm_node`, `route_after_llm` | `AskModel` (an attempt with one model) |
| `error_handler_node` | `Handle` |
| the process dies | `Crash` |

A node's end overwrites the checkpoint (`Save`), whoever else runs. `Execute` has three outcomes: a result, an
exception with a text, and, where it matters, at the last attempt, a time-out, whose text is empty:
`route_after_tools` and `llm_node` take an empty `error` for none. What LangGraph does with the input of `resume_turn`
is outside this repository: `continues` says whether it goes on behind the gate of a suspended checkpoint, which
`agents/runner.py` and `graph/edges.py` assume, or begins at the entry, as for any dict given as input. Each behaviour
has one of the two, and only `DecisionIsCarriedOut` and `DenialIsConfirmed` speak about the first alone. A batch names
a tool once; what tools and models compute is left out; the verdict of the sweeper is in `HitlApproval`; an approval
whose `Decide` is not committed stays open, as in `Commit`/`CommitFails` there. A decision is any that `approve_hitl`
accepts: a posted `timeout` takes the last branch of `route_after_hitl` and ends in the error handler like a denial.
The gate's insert may always fail (`StoreFails`), and it does in production: no route calls `create_conversation`,
`save_message` or `update_last_accessed`, and a guest's approval names conversation `UUID(0)`, so the foreign key
finds no row. `docs/DESIGN.md:1838` says that a checkpointed `stream_id` is ignored once it is stale; `_resume_graph`
writes to it, which is `ReadStream`.

### Auth, MCAuth, AuthProofs

`count`, `timed`, `locked`, `black` are Redis; `users`, `status`, `parent`, `born` the committed rows; `req[h]` the
request of handler `h` and the place it has come to. Every Redis command, statement and commit is an action, named
after what it does: `CheckLock`, `CheckRate`, `Verify`, `CountFailure` (INCR), `ExpireCounter`, `SetLock`,
`ResetCounters`, `UpdateUser` for a login; `InsertUser`, `CommitUser` for a registration; `ReadToken`, `Revoke` for a
refresh; `StoreToken` and `Commit` for all three; `Blacklist` for a logout. Login and refresh answer in `StoreToken`,
before the dependency commits; registration, which commits itself, answers in `Commit`. `UpdateUser` and `Revoke` wait
for the row, `InsertUser` for the unique index. A `Fault` ends a request anywhere and rolls its transaction back; what
it did in Redis stays. Tokens are numbers in the order of their making; `Tick` is the clock they are dated by, while
counters and lockouts expire at any moment. The address is looked up as typed (`Verify`) but stored in lower case
(`CommitUser`), so a capital letter makes the right password fail and count. `check_ip_rate_limit` reads a counter
nothing increments and is left out; a guest token writes nothing; the columns `failed_login_attempts` and
`locked_until` are never read.

### Lifespan, Conversations, MCConversations, ConversationsProofs

`Lifespan` is `lifespan` in `api/main.py` step by step: `Boot`, `Migrate`, `EnterSaver` (the saver is assigned),
`SetupSaver`, `StartServing`, and back, with `MigrateFails` and `SaverFails`: the process exits, or, unless
`STARTUP_DB_REQUIRED`, serves degraded. Degraded lasts until the next start: neither sweeper nor retention job is ever
started, even when the database comes back (and `GET /health/ready`, which only reads, then answers 200).

`Conversations` extends it by the tables of one user and what works on them. A transaction is `begun`, has `found` its
row or is `holding` its lock; what it writes counts from its commit. `UpdateLocks` are row locks, `ShareLocks` what
the insert of a message or an approval takes on its conversation; `chosen` are the rows the purge has locked. `now()`
is the start of the transaction (`stamp`), and two transactions may have the same.

| Code | Actions |
|---|---|
| `create_conversation`, `_unique_title` | `StartCreate`, `ProbeTitle` (one SELECT), `CommitCreate` |
| `update_last_accessed` | `StartRequest`, `UpdateRow`, `CommitTouch` |
| `save_message` | `StartRequest`, `InsertMessage`, `CommitMessage` |
| `delete_session`, `soft_delete_conversation` | `StartRequest`, `FindToDelete`, `UpdateRow`, `CommitDelete` |
| the gate's approval and its verdict (`HitlApproval`) | `StartGate`, `InsertApproval`, `CommitGate`, `CloseApproval` |
| `list_conversations` | `BeginWalk`, `ReadPage` |
| `_conversation_retention_job`, `delete_stale_conversations` | `JobSelect`, `JobTake` (FOR UPDATE SKIP LOCKED, one row), `JobDelete`, `JobCommit`, `JobFails` |
| `lifespan` | `Live`, `Shutdown`, `StopJob`, `EndProcess` |
| 90 days pass | `Age` |

The server answers its requests before it shuts down, but tasks of resumed graphs are neither awaited nor cancelled: a
`StartGate` may come as long as the process lives. The client never asks for a second page; the paged reading is of the
repository's interface, and so are the three functions no route calls.

## 4. Runs

| Run | Instance | What it shows |
|---|---|---|
| `hitl` | 2 approvals, 2 requests, 1 failure; fairness | `RowLockInv` one uncommitted update per row; `AuditMatchesRow` a used row logs the decision of a request answered 200, an expired one the sweeper's; `ExtraResumeNeedsFailure`; `ResumeAgreesWithAudit`; `DecisionIsFinal`; `RequestsFinish` no waiting on locks for ever; `AcceptedIsResumed` a 200 reaches the graph unless its own task is lost; `ImplementsLifecycle` |
| `hitl_resumed_twice` | violation | a commit that fails after the reply: the graph is resumed twice (FR-10 "executed exactly once") |
| `chat_turn` | 1 turn, 1 intermediate event, 1 exception, 2 polls; fairness | `IdsAreIndexes` (exactly, without overlap; never ahead of the index and increasing for each emitter, with it); `ReplayNeverSkips`; `BufferOutlivesApproval`; `LiveInOrder`; `StreamEnds` |
| `chat_answer_lost` | no exceptions; violation | the replay after an approval begins with the `done` of the suspended run, where the client stops |
| `chat_owner_expired` | no exceptions; violation | the owner key expires at minute 5, so a reconnect at minute 8 gets 410 while the buffer is alive (FR-14) |
| `quota` | 3 handlers, 4 counters, limit 2, 4 requests, 1 expiry, 1 error | `OvershootBounded`; `AllOrNothing` counters never exceed what was let through, and each error costs one at most one charge; `UntimedOnlyByRace` |
| `quota_untimed_counter` | no errors; violation | an expiry between GET and INCR leaves a counter without a time to live (NFR-8) |
| `auth` | 2 handlers, 4 requests, 2 spellings of 1 address, limits 2 and 3, 1 fault, clock to 3; fairness | `GuessesBounded` limits are overshot by the requests in flight at most; `UntimedOnlyByFault`; `RotatedTwiceOnlyByOverlap`; `RotationIsAtomic` old token revoked exactly when a successor is stored; `RepliedTokensAreStored` a failure loses at most the one token whose commit it hits; `LoggedOutIsRejected`; `BlockEnds` |
| `conversations` | 2 conversations, 2 clients, 3 transactions or listings, 1 fault, 1 start; fairness | `WorkNeedsDatabase`; `PurgeIsSafe`; `SameTitleOnlyByRace`; `MessageCountAgrees`; `PagesMissOnlyTies`; `StaleIsPurged` |
| `agent` | 2 messages, 2 approvals, 3 runs, 2 at a time, 2 tools, 1 fault; fairness | `SensitiveNeedsApproval`; `DecisionIsCarriedOut`; `SuspendedIsResumable`; `AnsweredOnce`; `RunsEnd` |
| `agent_denial_unconfirmed` | violation | a denied request ends in the generic failure message: no code sets `HITL_DENIED` (FR-10) |
| `agent_timeouts_hidden` | violation | every call of a batch timed out, and the model is asked to answer from empty results |

Why the bounds are enough. Two requests are a winner and a loser that waits, or one that comes after a rollback; a
second approval is what a sweep of several rows and independence need; one failure already separates commit, reply and
resumption. For more requests and failures there are the theorems of section 5. In `chat_turn` one intermediate event
puts an event before or after the approval, or into the resumed run; two polls make one that sees part of the events;
three ticks outlive every key. With one exception `StreamEnds` shows that the handler of `_run_graph` ends the stream;
the disjunct for a second one is there for larger bounds. Three handlers and four requests reach the bound of
`OvershootBounded` on the shared counter: one request before, three together. In `auth` two handlers race for a row or
a counter, and four requests are what it takes to register, fail, fail and be locked out, or to register, rotate twice
and try the old token. In `conversations` two transactions race for a row or a title while the job, a third party,
selects; four transactions were run too, in ten times the states, with the same result. In `agent` a run, a decision
on its approval and one more of either kind overlap in all orders; two attempts (for four) and two models (for five
attempts) keep a failure that is not the last. `SensitiveNeedsApproval` and `DecisionIsCarriedOut` exempt disturbed
approvals from what they say of the checkpoint; that a sensitive tool needs an `approve` they say of all. Bounds are
constants whose comments say "bound"; deadlock is not checked where the bounds stop the model, which is everywhere but
in `HitlApproval`. Its sweeper never stops.

Fairness. The event loop runs every ready task and the database grants a free lock: weak fairness of each handler
step, of the tasks, of the sweeper loop (`while True`, errors caught, every 60 s) and of time passing (`Deadline`). In
`Auth` Redis deletes what has a time to live (weak fairness of `CounterExpires` and `LockExpires`); in `Conversations`
the job comes every day (`JobStep`) and transactions end (`Work`), but nothing starts the process again; in
`AgentGraph` each node makes its steps (`Work`), and nobody has to send, decide or leave. Failures are never fair:
nothing has to fail. No client is obliged to post, drop or decide; in `ChatClient` the client is only supposed to keep
reading a stream it holds open. Whether a behaviour fails is limited by `MaxFailures`, so that a sweep eventually
succeeds.

The definitions introduced as "Faulty" in the modules are plausible mistakes. None is part of a specification; each is
put in the place of the definition below it, to see that the property named for it in `PROJECT.json` notices.

## 5. Proofs

Every invariant of the passing runs, and the action property `DecisionIsFinal`, is a theorem of its specification, for
every value of the constants that satisfies the assumptions below. Each proof module has its inductive invariant, named
here, of which the theorems are consequences. Each was first checked by TLC as an invariant of its run's instance.

**`HitlApprovalProofs`**, for every set of approvals and requests and every failure bound. Assumptions: `NoApproval`
is no approval id, `MaxFailures` is a natural number. The inductive invariant `HInv` is `TypeOK`, `RowLockInv`,
`AuditMatchesRow` and `RequestInv`. The agreement of row and log alone is not inductive: `Commit` appends to the log
of its target, and that this log is still empty follows from the row lock, which holds only of open rows; that the
appended decision is the one of a request answered 200, and one the log accepts, follows from what a request past the
audit step holds (`RequestInv`); that it stays so, from `AcceptedStays`: an answered request keeps target, decision
and response. Types, locks, request knowledge and log each have a lemma with one step per action. From `Invariance`
follow `TypeCorrectness`, `RowLocksExclusive`, `AuditAgreement`, `FinalDecisions` (the action property) and
`ImplementsLifecycleSafety`: the initial state maps to the initial state of `ApprovalLifecycle`, and each step to
`Open`, `Decide`, `TimeOut` or a stutter. `ResumesPaidFor` needs `CountInv`, because a task is scheduled before its
commit is known: tasks still scheduled count with the resumes that ran, a decided row pays for one of them and each
failure for one more. `ResumesAsLogged` needs `AgreeInv`: until something fails, each task and each resume is backed
by the logged decision or by the reply about to be logged.

**`ChatClientProofs`**, for every length of a run, every number of failures and polls and every time to live.
Assumptions: bounds and times are natural, and an approval is open for less time than its buffer lives
(`ApprovalWindowAssumption`: 600 s and a sweep against 900 s in the code). The properties compare events the client
saw with events that may have left the buffer, so none is inductive. `ChatInv` says that the buffer holds the last
pushes without a hole: the event at index `i` has the serial number `Base + i` and an id of at most `i` (`BufferOK`);
`Covered` says the same of an event the client holds, in its queue (`QueueOK`) or as its last event id (`SavedOK`),
even when the buffer is gone, and `NothingSkipped` (`ReplayNeverSkips`) follows although ids repeat when two emitters
overlap. `IdsAreIndexes` needs `AloneOK`, one active emitter until the first overlap, and `OrderOK`: the id an emitter
has drawn is larger than those of its buffered events. `HitlOK` adds the age of a pending approval to what its buffer
has left (`BufferOutlivesApproval`).

**`QuotaProofs`**, for every finite set of handlers, every set of counters, every limit and bound. Assumptions: the
list of counters of a handler is not empty and repeats none; limits are positive. `UntimedOnlyByRace` is not
inductive: when INCR recreates an absent counter and no EXPIRE follows, the handler had read a positive value, and
that the counter lapsed in between is remembered by `SeenInv`. `OvershootBounded` needs `ChargeInv`: a handler that
has read a counter below its limit holds a ticket for one charge of it, until it is denied or has charged, and value
and tickets together stay below the limit plus one charge for each handler that shares the counter. `AllOrNothing`
needs `PaidInv`: what a counter holds and what is still due to it (`Expected`) is at most what its callers were
allowed, and, until an expiry, short of it by at most one charge for each error (`FaultPays`). The sum in it is a
recursion over a set: `SetInduction` puts a set of numbers where the library's induction theorems have an operator,
and the lemmas on `Total` prove by it that the sum exists, is a number and grows by its terms.

**`AuthProofs`**, for every finite set of handlers, every set of spellings, all limits, lifetimes and bounds.
Assumptions: there is a spelling, each has its stored form and its key; limits, lifetimes and bounds are natural, the
soft limit and the access token's lifetime positive, the soft limit at most the rate limit. The argument first sorts
the steps by what they do to tokens: a step reads a token (`Reads`), makes one (`Stores`), commits (`Commits`), begins
a request (`Begins`) or leaves tokens alone (`Quiet`, `Rests`); `StepKinds` says that there is no other. `ReqInv` says
which tokens a request holds at which place: a refresh holds a committed one, a request before its commit one that is
not. `NewTokensDiffer` and `RotatedAlone` are what `RotationIsAtomic` and `RotatedTwiceOnlyByOverlap` need to be
inductive: two requests never commit the same token, so a commit adds exactly one successor, and a token outside
`overlap` that a refresh holds is valid and held by no other refresh, so it has no successor yet.
`LoggedOutIsRejected` follows from `BlackLongEnough`, which compares the entry with the token's own expiry;
`UntimedOnlyByFault` is inductive over `ReqInv`, and so is `RepliedTokensAreStored`: the set of lost tokens grows in a
fault only, by the token of the request it hits (`CommitsOrFaults`, `LostBefore`). `GuessesBounded` needs `LoginInv`,
which counts handlers: those past the rate check with the failures of their counter (`RateBound`), those past the
lockout check with the failures before a lockout (`SoftBound`), and those that have still to set a lockout with the
failures at the limit without one (`LockBound`).

**`AgentGraphProofs`**, for every set of tools, of which any are sensitive, every number of attempts and fallbacks,
all bounds, and whether or not a resumed run goes on behind the gate. Assumptions: there is an attempt and a primary
model; bounds are natural. `GraphInv` is `TypeOK`, `RunsOK` and `Undisturbed`. `RunsOK` describes each run by the
place it is at: what it can have executed and asked by then, that an undisturbed one brings no error there, which
decision it carries out, and that sensitive calls need an approval that names them. `Undisturbed` relates runs,
checkpoint and approvals: an open approval nothing disturbed belongs to the one run about to suspend, then to the
checkpoint, then to the one run that loads it. Without the second part nothing is known of the checkpoint a resumed
run loads; without the first, of what it does with it. A step changes one run, so most lemmas are about records of
runs.

**`ConversationsProofs`**, for every finite set of conversations, any clients, page size and bounds. Assumptions: the
set of ids is finite, the page size and the clock's bound are positive. `ConvInv` has a part for each of: process and
job (`LifeOK`), transactions (`TxsOK`), title races (`RacesOK`), the job's selection (`JobOK`), counters (`CountsOK`),
pages (`WalkOK`). `MessageCountAgrees` is not inductive: `save_message` writes a count it has computed, and that
nobody changed the row since follows from its lock. `PurgeIsSafe` needs that a transaction never holds what the job
has chosen. `_unique_title` ends, so that the title's suffix keeps its type, because each probe that found a title
taken names another conversation (`Pigeons`). `PagesMissOnlyTies` needs the smallest time on a page (`SmallestOf`) and
`WalkOK`: what the pages so far do not show is older than the cursor, ties with the last row of one, or changed.

Only model-checked: liveness (`RequestsFinish`, `AcceptedIsResumed`, the liveness half of `ImplementsLifecycle`,
`StreamEnds`, `BlockEnds`, `StaleIsPurged`, `RunsEnd`), because fairness and ENABLED are out of the prover's reach,
and the violations, which are behaviours.

## 6. Not modelled

What tools and models compute, SSE text, JWT cryptography and password hashing, validation of request bodies (there is
none of a decision), HTML and layout, logging and tracing, the registry and the settings (configuration that is loaded
once), the middleware (stateless), the text of migrations. `POST /sessions/{id}/model` writes a Redis key that no code
reads. Redis and PostgreSQL are modelled by the guarantees the code relies on (a command or statement is atomic, row
locks, rollback); a restart of Redis itself is not. Two processes of the backend at a time are not modelled either:
the deployment runs one. The components are modelled apart from each other where the interface between them is one
value: the quota's verdict, the identity a token gives, the verdict on an approval.
