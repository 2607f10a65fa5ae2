---------------------------- MODULE HitlApproval ----------------------------
(***************************************************************************)
(* Human-in-the-loop approvals: the rows of hitl_approvals and             *)
(* hitl_audit_log, and everything that writes them.                        *)
(*                                                                         *)
(*   gate     graph/nodes/hitl_gate.py inserts an approval in a            *)
(*            transaction of its own; runner.run_turn then announces it    *)
(*   request  POST /sessions/{id}/approve: pre-check, atomic consume,      *)
(*            audit row, background resume task, reply, and only then the  *)
(*            commit made by the get_db dependency                         *)
(*   sweeper  api/main.py: expires overdue approvals and audits "timeout"  *)
(*                                                                         *)
(* PostgreSQL runs at READ COMMITTED: an UPDATE waits for the row locks of *)
(* other transactions and evaluates its WHERE clause again once it has the *)
(* lock.  The variables stored, used, expired and audit hold what is       *)
(* committed; what a transaction has done but not committed is visible in  *)
(* its own program counter only.                                           *)
(***************************************************************************)
EXTENDS Naturals, Sequences, FiniteSets

CONSTANTS
    Approvals,      \* approval ids (uuid4, never reused)
    Requests,       \* approve requests that clients may post
    NoApproval,     \* the target of a request that has not been posted yet
    MaxFailures     \* bound: failures and restarts in a behaviour

ASSUME NoApprovalAssumption == NoApproval \notin Approvals
ASSUME BoundAssumption == MaxFailures \in Nat

VARIABLES
    gate,       \* gate[a]: progress of the hitl_gate run that creates a
    stored,     \* rows of hitl_approvals
    used,       \* rows with used = TRUE
    expired,    \* rows with expired = TRUE
    late,       \* rows whose expires_at has passed
    audit,      \* audit[a]: decisions in hitl_audit_log, oldest first
    pc,         \* pc[r]: progress of the approve handler
    target,     \* target[r]: approval_id of the request body
    decision,   \* decision[r]: decision in its body, once past the pre-check
    response,   \* response[r]: HTTP status the client has seen, 0 if none
    task,       \* task[r]: the _resume_graph task the handler created
    resumed,    \* resumed[a]: decisions the suspended graph was resumed with
    sweeper,    \* "asleep" between two sweeps, else "updating"
    due,        \* rows the sweeper's UPDATE selected and has not reached yet
    swept,      \* rows the sweeper has updated, uncommitted
    failures    \* database and resume failures and restarts so far

rows    == <<stored, used, expired, audit>>
handler == <<pc, target, decision, response>>
resume  == <<task, resumed>>
sweep   == <<sweeper, due, swept>>
vars    == <<gate, rows, late, handler, resume, sweep, failures>>

-----------------------------------------------------------------------------
(* The values of the variables. *)

(* What the CHECK constraint of hitl_audit_log accepts.                    *)
Decisions == {"approve", "deny", "timeout"}

(* body.decision is an unconstrained string, so a client may post "timeout"*)
(* as well; "other" stands for the strings that the CHECK rejects.         *)
Bodies == Decisions \cup {"other"}

GateStates == {"idle", "inserting", "committed", "announced", "failed", "orphaned"}
RequestStates == {"idle", "prechecked", "consumed", "replied", "done"}
TaskStates == {"none", "scheduled", "finished", "lost"}

(* r is in a transaction that has updated the row of a. *)
Locks(r, a) == pc[r] \in {"consumed", "replied"} /\ target[r] = a

(* Faulty: the WHERE clause forgets used = false. *)
IsOpenIfUnexpired(a) == a \in stored /\ a \notin expired

(* used = false AND expired = false, on the committed row. *)
IsOpen(a) == a \in stored /\ a \notin used /\ a \notin expired

Decided == used \cup expired

MayFail == failures < MaxFailures

Init ==
    /\ gate = [a \in Approvals |-> "idle"]
    /\ stored = {}
    /\ used = {}
    /\ expired = {}
    /\ late = {}
    /\ audit = [a \in Approvals |-> <<>>]
    /\ pc = [r \in Requests |-> "idle"]
    /\ target = [r \in Requests |-> NoApproval]
    /\ decision = [r \in Requests |-> "other"]
    /\ response = [r \in Requests |-> 0]
    /\ task = [r \in Requests |-> "none"]
    /\ resumed = [a \in Approvals |-> <<>>]
    /\ sweeper = "asleep"
    /\ due = {}
    /\ swept = {}
    /\ failures = 0

-----------------------------------------------------------------------------
(* hitl_gate: INSERT, commit, approval_required. *)

GateInsert(a) ==
    /\ gate[a] = "idle"
    /\ gate' = [gate EXCEPT ![a] = "inserting"]
    /\ UNCHANGED <<rows, late, handler, resume, sweep, failures>>

GateCommit(a) ==
    /\ gate[a] = "inserting"
    /\ gate' = [gate EXCEPT ![a] = "committed"]
    /\ stored' = stored \cup {a}
    /\ UNCHANGED <<used, expired, late, audit, handler, resume, sweep, failures>>

(* The INSERT or its commit fails: the node returns HITL_DB_ERROR and      *)
(* run_turn emits an error event instead of approval_required.             *)
GateFail(a) ==
    /\ gate[a] = "inserting"
    /\ MayFail
    /\ gate' = [gate EXCEPT ![a] = "failed"]
    /\ failures' = failures + 1
    /\ UNCHANGED <<rows, late, handler, resume, sweep>>

Announce(a) ==
    /\ gate[a] = "committed"
    /\ gate' = [gate EXCEPT ![a] = "announced"]
    /\ UNCHANGED <<rows, late, handler, resume, sweep, failures>>

(* Ten minutes have passed since the row was created. *)
Deadline(a) ==
    /\ a \in stored \ late
    /\ late' = late \cup {a}
    /\ UNCHANGED <<gate, rows, handler, resume, sweep, failures>>

-----------------------------------------------------------------------------
(* POST /sessions/{id}/approve. *)

(* A client can name a stored approval only after it was announced: the id *)
(* is a random uuid.  An id that is not stored stands for a wrong one.     *)
Nameable(a) == a \in stored => gate[a] = "announced"

Post(r, a) ==
    /\ pc[r] = "idle"
    /\ Nameable(a)
    /\ target' = [target EXCEPT ![r] = a]

Answer(r, status) ==
    /\ pc' = [pc EXCEPT ![r] = "done"]
    /\ response' = [response EXCEPT ![r] = status]

(* get_approval finds no row, or a used or expired one: 410, whatever the  *)
(* decision, which nothing has read yet.                                   *)
PreCheckGone(r, a) ==
    /\ Post(r, a)
    /\ ~IsOpen(a)
    /\ Answer(r, 410)
    /\ UNCHANGED <<gate, rows, late, decision, resume, sweep, failures>>

PreCheckOpen(r, a, d) ==
    /\ Post(r, a)
    /\ IsOpen(a)
    /\ decision' = [decision EXCEPT ![r] = d]
    /\ pc' = [pc EXCEPT ![r] = "prechecked"]
    /\ UNCHANGED <<gate, rows, late, response, resume, sweep, failures>>

(* Faulty: a plain SELECT and UPDATE by primary key, no row lock between requests. *)
UnlockedBySweeper(a) == a \notin swept

(* No other transaction holds the row: the UPDATE can go ahead. *)
Unlocked(a) == a \notin swept /\ \A r \in Requests : ~Locks(r, a)

(* Faulty: the UPDATE relies on the pre-check. *)
ConsumeUnconditionally(r) ==
    /\ pc[r] = "prechecked"
    /\ Unlocked(target[r])
    /\ pc' = [pc EXCEPT ![r] = "consumed"]
    /\ UNCHANGED <<gate, rows, late, target, decision, response, resume, sweep, failures>>

(* consume_approval matches a row. *)
Consume(r) ==
    /\ pc[r] = "prechecked"
    /\ Unlocked(target[r])
    /\ IsOpen(target[r])
    /\ pc' = [pc EXCEPT ![r] = "consumed"]
    /\ UNCHANGED <<gate, rows, late, target, decision, response, resume, sweep, failures>>

(* Faulty: FOR UPDATE NOWAIT, a locked row counts as a lost race. *)
ConflictNoWait(r) ==
    /\ pc[r] = "prechecked"
    /\ ~Unlocked(target[r])
    /\ Answer(r, 409)
    /\ UNCHANGED <<gate, rows, late, target, decision, resume, sweep, failures>>

(* consume_approval matches no row any more: 409. *)
Conflict(r) ==
    /\ pc[r] = "prechecked"
    /\ Unlocked(target[r])
    /\ ~IsOpen(target[r])
    /\ Answer(r, 409)
    /\ UNCHANGED <<gate, rows, late, target, decision, resume, sweep, failures>>

(* Faulty: the reply is sent and nobody resumes the graph. *)
AuditAndReplyOnly(r) ==
    /\ pc[r] = "consumed"
    /\ decision[r] \in Decisions
    /\ pc' = [pc EXCEPT ![r] = "replied"]
    /\ response' = [response EXCEPT ![r] = 200]
    /\ UNCHANGED <<gate, rows, late, target, decision, resume, sweep, failures>>

(* The audit row is flushed, the resume task created, and the reply sent,  *)
(* whichever of the accepted decisions the body carries: the dependency    *)
(* that owns the session commits after the response.                       *)
AuditAndReply(r) ==
    /\ pc[r] = "consumed"
    /\ decision[r] \in Decisions
    /\ pc' = [pc EXCEPT ![r] = "replied"]
    /\ task' = [task EXCEPT ![r] = "scheduled"]
    /\ response' = [response EXCEPT ![r] = 200]
    /\ UNCHANGED <<gate, rows, late, target, decision, resumed, sweep, failures>>

(* Faulty: the task is created before the audit row is inserted. *)
AuditFailsAfterSpawn(r) ==
    /\ pc[r] = "consumed"
    /\ decision[r] \notin Decisions
    /\ Answer(r, 500)
    /\ task' = [task EXCEPT ![r] = "scheduled"]
    /\ UNCHANGED <<gate, rows, late, target, decision, resumed, sweep, failures>>

(* The INSERT raises, always when the CHECK rejects the decision ("other"):*)
(* the transaction rolls back and the client gets a 500.                   *)
AuditFails(r) ==
    /\ pc[r] = "consumed"
    /\ \/ decision[r] \notin Decisions /\ failures' = failures
       \/ decision[r] \in Decisions /\ MayFail /\ failures' = failures + 1
    /\ Answer(r, 500)
    /\ UNCHANGED <<gate, rows, late, target, decision, resume, sweep>>

Commit(r) ==
    /\ pc[r] = "replied"
    /\ pc' = [pc EXCEPT ![r] = "done"]
    /\ used' = used \cup {target[r]}
    /\ audit' = [audit EXCEPT ![target[r]] = Append(@, decision[r])]
    /\ UNCHANGED <<gate, stored, expired, late, target, decision, response, resume, sweep,
                   failures>>

(* The client keeps its 200 and the task keeps running. *)
CommitFails(r) ==
    /\ pc[r] = "replied"
    /\ MayFail
    /\ pc' = [pc EXCEPT ![r] = "done"]
    /\ failures' = failures + 1
    /\ UNCHANGED <<gate, rows, late, target, decision, response, resume, sweep>>

(* _resume_graph: from the moment the task exists it may run, before the   *)
(* commit as well as after it.                                             *)
ResumeGraph(r) ==
    /\ task[r] = "scheduled"
    /\ task' = [task EXCEPT ![r] = "finished"]
    /\ resumed' = [resumed EXCEPT ![target[r]] = Append(@, decision[r])]
    /\ UNCHANGED <<gate, rows, late, handler, sweep, failures>>

(* except Exception: pass. *)
ResumeFails(r) ==
    /\ task[r] = "scheduled"
    /\ MayFail
    /\ task' = [task EXCEPT ![r] = "lost"]
    /\ failures' = failures + 1
    /\ UNCHANGED <<gate, rows, late, handler, resumed, sweep>>

-----------------------------------------------------------------------------
(* _hitl_timeout_sweeper: one bulk UPDATE, one audit row per expired row,  *)
(* one commit; any exception rolls the whole sweep back.                   *)

(* Faulty: expires_at < now is not tested. *)
SweepBeginAnyAge ==
    /\ sweeper = "asleep"
    /\ sweeper' = "updating"
    /\ due' = {a \in stored : IsOpen(a)}
    /\ UNCHANGED <<gate, rows, late, handler, resume, swept, failures>>

SweepBegin ==
    /\ sweeper = "asleep"
    /\ sweeper' = "updating"
    /\ due' = {a \in late : IsOpen(a)}
    /\ UNCHANGED <<gate, rows, late, handler, resume, swept, failures>>

(* Faulty: SELECT first, then UPDATE by primary key. *)
SweepRowUnchecked(a) ==
    /\ sweeper = "updating"
    /\ a \in due
    /\ \A r \in Requests : ~Locks(r, a)
    /\ due' = due \ {a}
    /\ swept' = swept \cup {a}
    /\ UNCHANGED <<gate, rows, late, handler, resume, sweeper, failures>>

(* The UPDATE reaches row a, waiting for its lock if need be. *)
SweepRow(a) ==
    /\ sweeper = "updating"
    /\ a \in due
    /\ \A r \in Requests : ~Locks(r, a)
    /\ due' = due \ {a}
    /\ swept' = IF IsOpen(a) THEN swept \cup {a} ELSE swept
    /\ UNCHANGED <<gate, rows, late, handler, resume, sweeper, failures>>

SweepEnd ==
    /\ sweeper' = "asleep"
    /\ due' = {}
    /\ swept' = {}

SweepCommit ==
    /\ sweeper = "updating"
    /\ due = {}
    /\ expired' = expired \cup swept
    /\ audit' = [a \in Approvals |-> IF a \in swept THEN Append(audit[a], "timeout") ELSE audit[a]]
    /\ SweepEnd
    /\ UNCHANGED <<gate, stored, used, late, handler, resume, failures>>

(* Faulty: the try is outside the loop, one error ends the sweeper task. *)
SweepFailsForGood ==
    /\ sweeper = "updating"
    /\ MayFail
    /\ failures' = failures + 1
    /\ sweeper' = "dead"
    /\ due' = {}
    /\ swept' = {}
    /\ UNCHANGED <<gate, rows, late, handler, resume>>

SweepFails ==
    /\ sweeper = "updating"
    /\ MayFail
    /\ failures' = failures + 1
    /\ SweepEnd
    /\ UNCHANGED <<gate, rows, late, handler, resume>>

-----------------------------------------------------------------------------
(* The process dies and restarts: open transactions roll back, tasks and   *)
(* in-flight requests are gone, the lifespan starts a fresh sweeper.       *)
Crash ==
    /\ MayFail
    /\ failures' = failures + 1
    /\ gate' = [a \in Approvals |-> CASE gate[a] = "inserting" -> "failed"
                                      [] gate[a] = "committed" -> "orphaned"
                                      [] OTHER -> gate[a]]
    /\ pc' = [r \in Requests |-> IF pc[r] = "idle" THEN "idle" ELSE "done"]
    /\ task' = [r \in Requests |-> IF task[r] = "scheduled" THEN "lost" ELSE task[r]]
    /\ SweepEnd
    /\ UNCHANGED <<rows, late, target, decision, response, resumed>>

GateNext(a) == GateInsert(a) \/ GateCommit(a) \/ GateFail(a) \/ Announce(a)

RequestNext(r) ==
    \/ \E a \in Approvals : PreCheckGone(r, a) \/ \E d \in Bodies : PreCheckOpen(r, a, d)
    \/ Consume(r) \/ Conflict(r)
    \/ AuditAndReply(r) \/ AuditFails(r)
    \/ Commit(r) \/ CommitFails(r)
    \/ ResumeGraph(r) \/ ResumeFails(r)

SweeperNext == SweepBegin \/ (\E a \in Approvals : SweepRow(a)) \/ SweepCommit \/ SweepFails

Next ==
    \/ \E a \in Approvals : GateNext(a) \/ Deadline(a)
    \/ \E r \in Requests : RequestNext(r)
    \/ SweeperNext
    \/ Crash

Spec == Init /\ [][Next]_vars

(* The event loop and the database make progress: the gate finishes, time  *)
(* passes, a handler that has begun runs to its end, a created task runs,  *)
(* and the sweeper loop goes on.  No client is obliged to post a request.  *)
Fairness ==
    /\ \A a \in Approvals : /\ WF_vars(GateCommit(a))
                            /\ WF_vars(Announce(a))
                            /\ WF_vars(Deadline(a))
                            /\ WF_vars(SweepRow(a))
    /\ \A r \in Requests : /\ WF_vars(Consume(r) \/ Conflict(r))
                           /\ WF_vars(AuditAndReply(r) \/ AuditFails(r))
                           /\ WF_vars(Commit(r) \/ CommitFails(r))
                           /\ WF_vars(ResumeGraph(r) \/ ResumeFails(r))
    /\ WF_vars(SweepBegin)
    /\ WF_vars(SweepCommit)

FairSpec == Spec /\ Fairness

-----------------------------------------------------------------------------
(* Invariants.                                                             *)

TypeOK ==
    /\ gate \in [Approvals -> GateStates]
    /\ stored \subseteq Approvals
    /\ used \subseteq stored
    /\ expired \subseteq stored
    /\ late \subseteq stored
    /\ audit \in [Approvals -> Seq(Decisions)]
    /\ pc \in [Requests -> RequestStates]
    /\ target \in [Requests -> Approvals \cup {NoApproval}]
    /\ decision \in [Requests -> Bodies]
    /\ response \in [Requests -> {0, 200, 409, 410, 500}]
    /\ task \in [Requests -> TaskStates]
    /\ resumed \in [Approvals -> Seq(Decisions)]
    /\ sweeper \in {"asleep", "updating"}
    /\ due \subseteq late
    /\ swept \subseteq late
    /\ failures \in Nat

(* A row under an uncommitted update is still open for everyone else, and  *)
(* only one transaction has updated it: two approve requests, or a request *)
(* and the sweeper, never both hold it (the single UPDATE of               *)
(* consume_approval and expire_stale_approvals).                           *)
RowLockInv ==
    /\ \A r \in Requests, a \in Approvals :
          Locks(r, a) => /\ IsOpen(a)
                         /\ a \notin swept
                         /\ \A s \in Requests : Locks(s, a) => s = r
    /\ \A a \in swept : IsOpen(a)

(* The flags of a row and the append-only log tell the same story: an open *)
(* approval has no log row; a used one exactly one, the decision of a      *)
(* request for it that was answered 200; an expired one exactly the        *)
(* sweeper's timeout; and no approval is both, whatever races, failed      *)
(* commits and restarts happened (FR-10, FR-32).                           *)
AuditMatchesRow ==
    \A a \in Approvals :
        /\ a \notin Decided => audit[a] = <<>>
        /\ a \in used => /\ a \notin expired
                         /\ \E r \in Requests : /\ target[r] = a
                                               /\ response[r] = 200
                                               /\ audit[a] = <<decision[r]>>
        /\ a \in expired => audit[a] = <<"timeout">>

(* A suspended graph is resumed a second time only at the price of a lost  *)
(* commit: each extra resumption needs a failure or a restart between the  *)
(* reply and the commit.  Without any, it is resumed at most once.         *)
ExtraResumeNeedsFailure ==
    \A a \in Approvals : Len(resumed[a]) <= 1 + failures

(* Without failures, what the graph was told is what the log says: every   *)
(* resumption of a used approval carries the logged decision, and an       *)
(* approval that the sweeper timed out was never resumed.                  *)
ResumeAgreesWithAudit ==
    failures = 0 =>
        /\ \A a \in used : \A i \in DOMAIN resumed[a] : resumed[a][i] = audit[a][1]
        /\ \A a \in expired : resumed[a] = <<>>

-----------------------------------------------------------------------------
(* Action and liveness properties.                                         *)

(* Once an approval is decided nothing rewrites its row or its log: no     *)
(* later request, sweep, failure or restart (FR-32, append-only).          *)
DecisionIsFinal ==
    [][\A a \in Decided :
          /\ a \in used' <=> a \in used
          /\ a \in expired' <=> a \in expired
          /\ audit'[a] = audit[a]]_vars

(* A handler that passed the pre-check always answers, even when it waits  *)
(* for the row lock of another request or of the sweeper.                  *)
RequestsFinish ==
    \A r \in Requests : (pc[r] = "prechecked") ~> (pc[r] = "done")

(* A 200 is followed by a resumption of the graph with the decision that   *)
(* was posted, unless the very task of this request is lost: no race, sweep*)
(* or failed commit stands in its way, a restart or an exception in the    *)
(* task does.                                                              *)
AcceptedIsResumed ==
    \A r \in Requests :
        (response[r] = 200) ~>
            \/ task[r] = "lost"
            \/ \E a \in Approvals : /\ target[r] = a
                                    /\ \E i \in DOMAIN resumed[a] : resumed[a][i] = decision[r]

(* The abstract life of an approval: decided iff its row is, and then the  *)
(* way the log says.                                                       *)
verdictOf == [a \in Approvals |-> IF a \notin stored THEN "none"
                                  ELSE IF a \notin Decided THEN "open"
                                  ELSE audit[a][1]]

Lifecycle == INSTANCE ApprovalLifecycle WITH verdict <- verdictOf

(* Every approval opens once, gets one verdict, and does get one: the      *)
(* sweeper times out what no user decides, in spite of lock waits, failed  *)
(* sweeps and restarts.                                                    *)
ImplementsLifecycle == Lifecycle!LifecycleSpec

-----------------------------------------------------------------------------
(* What the documentation says and the code does not do.                   *)

(* SPEC.md FR-10: "The tool is executed exactly once."                     *)
ResumedAtMostOnce == \A a \in Approvals : Len(resumed[a]) <= 1

=============================================================================
