------------------------- MODULE HitlApprovalProofs -------------------------
(***************************************************************************)
(* Proofs about HitlApproval for every set of approvals and requests and   *)
(* every bound on failures.                                                *)
(*                                                                         *)
(* The inductive invariant is HInv: the types, the row locks (RowLockInv), *)
(* what a handler knows of its own request at each step (RequestInv), and  *)
(* the agreement of flags and log (AuditMatchesRow).  The agreement alone  *)
(* is not inductive: a commit appends to the log of its target, and only   *)
(* the row lock says that this log is still empty.                         *)
(*                                                                         *)
(* The number of resumes needs a count of its own, CountInv: the tasks     *)
(* still scheduled for an approval are counted with the resumes that ran,  *)
(* so a reply pays for one resume and a failure for one more.  What they   *)
(* carry needs AgreeInv: until a failure every task and every resume is    *)
(* backed by the logged decision, or by the reply still to be logged.      *)
(***************************************************************************)
EXTENDS HitlApproval, FiniteSetTheorems, TLAPS

(* A request that was posted has a target.  One that was answered 200 has  *)
(* replied, with a decision that the CHECK constraint accepts, and a resume*)
(* task exists only for such a request.                                    *)
RequestInv ==
    \A r \in Requests :
        /\ pc[r] # "idle" => target[r] \in Approvals
        /\ pc[r] = "replied" => response[r] = 200
        /\ response[r] = 200 => pc[r] \in {"replied", "done"} /\ decision[r] \in Decisions
        /\ task[r] # "none" => response[r] = 200

HInv == TypeOK /\ RequestInv /\ RowLockInv /\ AuditMatchesRow

-----------------------------------------------------------------------------

LEMMA InitHInv == Init => HInv
  <1> SUFFICES ASSUME Init PROVE HInv
    OBVIOUS
  <1> USE DEF Init
  <1>1. TypeOK
    BY DEF TypeOK, GateStates, RequestStates, TaskStates, Bodies
  <1>2. RequestInv /\ RowLockInv
    BY DEF RequestInv, RowLockInv, Locks
  <1>3. AuditMatchesRow
    BY DEF AuditMatchesRow, Decided
  <1>4. QED
    BY <1>1, <1>2, <1>3 DEF HInv

(* No step leaves the types. *)
LEMMA TypeStep == HInv /\ [Next]_vars => TypeOK'
  <1> SUFFICES ASSUME HInv, [Next]_vars PROVE TypeOK'
    OBVIOUS
  <1> USE NoApprovalAssumption, BoundAssumption
      DEF HInv, TypeOK, GateStates, RequestStates, TaskStates, Bodies, Decisions, IsOpen,
          rows, handler, resume, sweep
  <1>1. ASSUME NEW a \in Approvals, GateNext(a) \/ Deadline(a)
        PROVE  TypeOK'
    <2>1. CASE GateInsert(a)
      BY <2>1 DEF GateInsert
    <2>2. CASE GateCommit(a)
      BY <2>2 DEF GateCommit
    <2>3. CASE GateFail(a)
      BY <2>3 DEF GateFail
    <2>4. CASE Announce(a)
      BY <2>4 DEF Announce
    <2>5. CASE Deadline(a)
      BY <2>5 DEF Deadline
    <2>6. QED
      BY <1>1, <2>1, <2>2, <2>3, <2>4, <2>5 DEF GateNext
  <1>2. ASSUME NEW r \in Requests, RequestNext(r)
        PROVE  TypeOK'
    <2>1. ASSUME NEW a \in Approvals, NEW d \in Bodies,
                 PreCheckGone(r, a) \/ PreCheckOpen(r, a, d)
          PROVE  TypeOK'
      <3>1. CASE PreCheckGone(r, a)
        BY <3>1 DEF PreCheckGone, Post, Answer
      <3>2. CASE PreCheckOpen(r, a, d)
        BY <3>2 DEF PreCheckOpen, Post
      <3>3. QED
        BY <2>1, <3>1, <3>2
    <2>2. CASE Consume(r)
      BY <2>2 DEF Consume
    <2>3. CASE Conflict(r)
      BY <2>3 DEF Conflict, Answer
    <2>4. CASE AuditAndReply(r)
      BY <2>4 DEF AuditAndReply
    <2>5. CASE AuditFails(r)
      BY <2>5 DEF AuditFails, Answer
    <2>6. CASE Commit(r)
      <3>1. target[r] \in Approvals /\ target[r] \in stored /\ decision[r] \in Decisions
        BY <2>6 DEF Commit, RequestInv, RowLockInv, Locks
      <3>2. Append(audit[target[r]], decision[r]) \in Seq(Decisions)
        BY <3>1
      <3>3. audit' \in [Approvals -> Seq(Decisions)]
        BY <3>1, <3>2, <2>6 DEF Commit
      <3>4. QED
        BY <2>6, <3>1, <3>3 DEF Commit
    <2>7. CASE CommitFails(r)
      BY <2>7 DEF CommitFails, MayFail
    <2>8. CASE ResumeGraph(r)
      <3>1. target[r] \in Approvals /\ decision[r] \in Decisions
        BY <2>8 DEF ResumeGraph, RequestInv
      <3>2. Append(resumed[target[r]], decision[r]) \in Seq(Decisions)
        BY <3>1
      <3>3. resumed' \in [Approvals -> Seq(Decisions)]
        BY <3>1, <3>2, <2>8 DEF ResumeGraph
      <3>4. QED
        BY <2>8, <3>3 DEF ResumeGraph
    <2>9. CASE ResumeFails(r)
      BY <2>9 DEF ResumeFails
    <2>10. QED
      BY <1>2, <2>1, <2>2, <2>3, <2>4, <2>5, <2>6, <2>7, <2>8, <2>9 DEF RequestNext
  <1>3. CASE SweeperNext
    <2>1. CASE SweepBegin
      BY <2>1 DEF SweepBegin
    <2>2. ASSUME NEW a \in Approvals, SweepRow(a) PROVE TypeOK'
      BY <2>2 DEF SweepRow
    <2>3. CASE SweepCommit
      <3>1. \A a \in Approvals : Append(audit[a], "timeout") \in Seq(Decisions)
        OBVIOUS
      <3>2. audit' \in [Approvals -> Seq(Decisions)]
        BY <2>3, <3>1 DEF SweepCommit
      <3>3. QED
        BY <2>3, <3>2 DEF SweepCommit, SweepEnd
    <2>4. CASE SweepFails
      BY <2>4 DEF SweepFails, SweepEnd
    <2>5. QED
      BY <1>3, <2>1, <2>2, <2>3, <2>4 DEF SweeperNext
  <1>4. CASE Crash
    BY <1>4 DEF Crash, SweepEnd
  <1>5. CASE UNCHANGED vars
    BY <1>5 DEF vars
  <1>6. QED
    BY <1>1, <1>2, <1>3, <1>4, <1>5 DEF Next

(* What a handler knows of its own request survives every step. *)
LEMMA RequestStep == HInv /\ [Next]_vars => RequestInv'
  <1> SUFFICES ASSUME HInv, [Next]_vars PROVE RequestInv'
    OBVIOUS
  <1> USE DEF HInv, TypeOK, RequestInv, GateStates, RequestStates, TaskStates, Bodies, Decisions,
          rows, handler, resume, sweep
  <1>1. ASSUME NEW a \in Approvals, GateNext(a) \/ Deadline(a)
        PROVE  UNCHANGED <<handler, task>>
    BY <1>1 DEF GateNext, GateInsert, GateCommit, GateFail, Announce, Deadline
  <1>2. ASSUME NEW r \in Requests, RequestNext(r)
        PROVE  RequestInv'
    <2>1. ASSUME NEW a \in Approvals, NEW d \in Bodies,
                 PreCheckGone(r, a) \/ PreCheckOpen(r, a, d)
          PROVE  RequestInv'
      <3>1. CASE PreCheckGone(r, a)
        BY <3>1 DEF PreCheckGone, Post, Answer
      <3>2. CASE PreCheckOpen(r, a, d)
        BY <3>2 DEF PreCheckOpen, Post
      <3>3. QED
        BY <2>1, <3>1, <3>2
    <2>2. CASE Consume(r)
      BY <2>2 DEF Consume
    <2>3. CASE Conflict(r)
      BY <2>3 DEF Conflict, Answer
    <2>4. CASE AuditAndReply(r)
      BY <2>4 DEF AuditAndReply
    <2>5. CASE AuditFails(r)
      BY <2>5 DEF AuditFails, Answer
    <2>6. CASE Commit(r)
      BY <2>6 DEF Commit
    <2>7. CASE CommitFails(r)
      BY <2>7 DEF CommitFails
    <2>8. CASE ResumeGraph(r) \/ ResumeFails(r)
      BY <2>8 DEF ResumeGraph, ResumeFails
    <2>9. QED
      BY <1>2, <2>1, <2>2, <2>3, <2>4, <2>5, <2>6, <2>7, <2>8 DEF RequestNext
  <1>3. CASE SweeperNext
    BY <1>3 DEF SweeperNext, SweepBegin, SweepRow, SweepCommit, SweepFails
  <1>4. CASE Crash
    BY <1>4 DEF Crash
  <1>5. CASE UNCHANGED vars
    BY <1>5 DEF vars
  <1>6. QED
    BY <1>1, <1>2, <1>3, <1>4, <1>5 DEF Next

(* The row locks stay exclusive, and a locked row stays open. *)
LEMMA RowLockStep == HInv /\ [Next]_vars => RowLockInv'
  <1> SUFFICES ASSUME HInv, [Next]_vars PROVE RowLockInv'
    OBVIOUS
  <1> USE DEF HInv, TypeOK, RequestInv, RowLockInv, Locks, IsOpen, RequestStates,
          rows, handler, resume, sweep
  <1>1. ASSUME NEW a \in Approvals, GateNext(a) \/ Deadline(a)
        PROVE  RowLockInv'
    BY <1>1 DEF GateNext, GateInsert, GateCommit, GateFail, Announce, Deadline
  <1>2. ASSUME NEW r \in Requests, RequestNext(r)
        PROVE  RowLockInv'
    <2>1. ASSUME NEW a \in Approvals, NEW d \in Bodies,
                 PreCheckGone(r, a) \/ PreCheckOpen(r, a, d)
          PROVE  RowLockInv'
      <3>1. CASE PreCheckGone(r, a)
        BY <3>1 DEF PreCheckGone, Post, Answer
      <3>2. CASE PreCheckOpen(r, a, d)
        BY <3>2 DEF PreCheckOpen, Post
      <3>3. QED
        BY <2>1, <3>1, <3>2
    <2>2. CASE Consume(r)
      BY <2>2 DEF Consume, Unlocked
    <2>3. CASE Conflict(r)
      BY <2>3 DEF Conflict, Answer
    <2>4. CASE AuditAndReply(r)
      BY <2>4 DEF AuditAndReply
    <2>5. CASE AuditFails(r)
      BY <2>5 DEF AuditFails, Answer
    <2>6. CASE Commit(r)
      BY <2>6 DEF Commit
    <2>7. CASE CommitFails(r) \/ ResumeGraph(r) \/ ResumeFails(r)
      BY <2>7 DEF CommitFails, ResumeGraph, ResumeFails
    <2>8. QED
      BY <1>2, <2>1, <2>2, <2>3, <2>4, <2>5, <2>6, <2>7 DEF RequestNext
  <1>3. CASE SweeperNext
    <2>1. CASE SweepBegin
      BY <2>1 DEF SweepBegin
    <2>2. ASSUME NEW a \in Approvals, SweepRow(a) PROVE RowLockInv'
      BY <2>2 DEF SweepRow
    <2>3. CASE SweepCommit
      BY <2>3 DEF SweepCommit, SweepEnd
    <2>4. CASE SweepFails
      BY <2>4 DEF SweepFails, SweepEnd
    <2>5. QED
      BY <1>3, <2>1, <2>2, <2>3, <2>4 DEF SweeperNext
  <1>4. CASE Crash
    BY <1>4 DEF Crash, SweepEnd
  <1>5. CASE UNCHANGED vars
    BY <1>5 DEF vars
  <1>6. QED
    BY <1>1, <1>2, <1>3, <1>4, <1>5 DEF Next

(* Only Commit and SweepCommit touch the flags and the log. *)
LEMMA OthersKeepRows ==
    ASSUME [Next]_vars,
           \A r \in Requests : ~Commit(r),
           ~SweepCommit
    PROVE  UNCHANGED <<used, expired, audit>>
  <1> USE DEF rows, handler, resume, sweep
  <1>1. ASSUME NEW a \in Approvals, GateNext(a) \/ Deadline(a)
        PROVE  UNCHANGED <<used, expired, audit>>
    BY <1>1 DEF GateNext, GateInsert, GateCommit, GateFail, Announce, Deadline
  <1>2. ASSUME NEW r \in Requests, RequestNext(r)
        PROVE  UNCHANGED <<used, expired, audit>>
    BY <1>2 DEF RequestNext, PreCheckGone, PreCheckOpen, Consume, Conflict, AuditAndReply,
        AuditFails, CommitFails, ResumeGraph, ResumeFails
  <1>3. CASE SweeperNext
    BY <1>3 DEF SweeperNext, SweepBegin, SweepRow, SweepFails
  <1>4. CASE Crash
    BY <1>4 DEF Crash
  <1>5. CASE UNCHANGED vars
    BY <1>5 DEF vars
  <1>6. QED
    BY <1>1, <1>2, <1>3, <1>4, <1>5 DEF Next

(* A commit records the only decision of its target, which was open. *)
LEMMA CommitRecords ==
    ASSUME HInv, NEW r \in Requests, Commit(r)
    PROVE  /\ IsOpen(target[r])
           /\ target[r] \in Approvals
           /\ decision[r] \in Decisions
           /\ used' = used \cup {target[r]}
           /\ UNCHANGED <<stored, expired>>
           /\ audit' = [audit EXCEPT ![target[r]] = <<decision[r]>>]
  <1>1. target[r] \in Approvals /\ decision[r] \in Decisions /\ IsOpen(target[r])
    BY DEF HInv, Commit, RequestInv, RowLockInv, Locks
  <1>2. audit[target[r]] = <<>>
    BY <1>1 DEF HInv, AuditMatchesRow, IsOpen, Decided
  <1>3. QED
    BY <1>1, <1>2 DEF Commit

(* A sweep records the only decision of the rows it locked, all open. *)
LEMMA SweepRecords ==
    ASSUME HInv, SweepCommit
    PROVE  /\ \A a \in swept : a \in Approvals /\ IsOpen(a)
           /\ expired' = expired \cup swept
           /\ UNCHANGED <<stored, used>>
           /\ audit' = [a \in Approvals |-> IF a \in swept THEN <<"timeout">> ELSE audit[a]]
  <1>1. \A a \in swept : a \in Approvals /\ IsOpen(a) /\ audit[a] = <<>>
    BY DEF HInv, TypeOK, RowLockInv, AuditMatchesRow, IsOpen, Decided
  <1>2. Append(<<>>, "timeout") = <<"timeout">>
    OBVIOUS
  <1>3. QED
    BY <1>1, <1>2 DEF SweepCommit

(* Who was answered 200 keeps the answer, the target and the decision.     *)
LEMMA AcceptedStays ==
    ASSUME HInv, [Next]_vars, NEW s \in Requests, response[s] = 200
    PROVE  response'[s] = 200 /\ target'[s] = target[s] /\ decision'[s] = decision[s]
  <1>0. /\ pc[s] \in {"replied", "done"}
        /\ pc \in [Requests -> RequestStates] /\ response \in [Requests -> {0, 200, 409, 410, 500}]
        /\ target \in [Requests -> Approvals \cup {NoApproval}] /\ decision \in [Requests -> Bodies]
    BY DEF HInv, RequestInv, TypeOK
  <1> USE DEF rows, handler, resume, sweep
  <1>1. ASSUME NEW a \in Approvals, GateNext(a) \/ Deadline(a)
        PROVE  UNCHANGED <<response, target, decision>>
    BY <1>1 DEF GateNext, GateInsert, GateCommit, GateFail, Announce, Deadline
  <1>2. ASSUME NEW r \in Requests, RequestNext(r), r # s
        PROVE  response'[s] = 200 /\ target'[s] = target[s] /\ decision'[s] = decision[s]
    <2>1. ASSUME NEW a \in Approvals, NEW d \in Bodies, PreCheckGone(r, a) \/ PreCheckOpen(r, a, d)
          PROVE  response'[s] = 200 /\ target'[s] = target[s] /\ decision'[s] = decision[s]
      BY <1>0, <1>2, <2>1 DEF PreCheckGone, PreCheckOpen, Post, Answer
    <2>2. CASE Consume(r) \/ Conflict(r) \/ AuditAndReply(r) \/ AuditFails(r)
      BY <1>0, <1>2, <2>2 DEF Consume, Conflict, AuditAndReply, AuditFails, Answer
    <2>3. CASE Commit(r) \/ CommitFails(r) \/ ResumeGraph(r) \/ ResumeFails(r)
      BY <2>3 DEF Commit, CommitFails, ResumeGraph, ResumeFails
    <2>4. QED
      BY <1>2, <2>1, <2>2, <2>3 DEF RequestNext, Bodies
  <1>3. ASSUME RequestNext(s)
        PROVE  UNCHANGED <<response, target, decision>>
    <2>1. Commit(s) \/ CommitFails(s) \/ ResumeGraph(s) \/ ResumeFails(s)
      BY <1>0, <1>3 DEF RequestNext, PreCheckGone, PreCheckOpen, Post, Consume, Conflict, AuditAndReply,
          AuditFails
    <2>2. QED
      BY <2>1 DEF Commit, CommitFails, ResumeGraph, ResumeFails
  <1>4. CASE SweeperNext
    BY <1>4 DEF SweeperNext, SweepBegin, SweepRow, SweepCommit, SweepFails
  <1>5. CASE Crash
    BY <1>5 DEF Crash
  <1>6. CASE UNCHANGED vars
    BY <1>6 DEF vars
  <1>7. QED
    BY <1>1, <1>2, <1>3, <1>4, <1>5, <1>6 DEF Next

(* A used approval has the log row of a request that was answered 200.     *)
LoggedFor(a) ==
    \E r \in Requests : target[r] = a /\ response[r] = 200 /\ audit[a] = <<decision[r]>>

LEMMA AuditStep == HInv /\ [Next]_vars => AuditMatchesRow'
  <1> SUFFICES ASSUME HInv, [Next]_vars, NEW a \in Approvals
               PROVE  /\ (a \notin Decided => audit[a] = <<>>)'
                      /\ (a \in used => a \notin expired /\ LoggedFor(a))'
                      /\ (a \in expired => audit[a] = <<"timeout">>)'
    BY DEF AuditMatchesRow, LoggedFor
  <1>0. /\ a \notin Decided => audit[a] = <<>>
        /\ a \in used => a \notin expired /\ LoggedFor(a)
        /\ a \in expired => audit[a] = <<"timeout">>
        /\ audit \in [Approvals -> Seq(Decisions)]
    BY DEF HInv, AuditMatchesRow, LoggedFor, TypeOK
  <1>1. LoggedFor(a) /\ audit'[a] = audit[a] => LoggedFor(a)'
    BY AcceptedStays DEF LoggedFor
  <1>2. CASE (a \in used' <=> a \in used) /\ (a \in expired' <=> a \in expired) /\ audit'[a] = audit[a]
    BY <1>0, <1>1, <1>2 DEF Decided
  <1>3. ASSUME NEW r \in Requests, Commit(r), target[r] = a
        PROVE  a \in used' /\ a \notin expired' /\ LoggedFor(a)'
    <2>1. a \in used' /\ a \notin expired' /\ audit'[a] = <<decision[r]>>
      BY <1>0, <1>3, CommitRecords DEF IsOpen
    <2>2. response[r] = 200
      BY <1>3 DEF Commit, HInv, RequestInv
    <2>3. response'[r] = 200 /\ target'[r] = a /\ decision'[r] = decision[r]
      BY <1>3, <2>2, AcceptedStays
    <2>4. QED
      BY <2>1, <2>3 DEF LoggedFor
  <1>4. ASSUME NEW r \in Requests, Commit(r), target[r] # a
        PROVE  (a \in used' <=> a \in used) /\ (a \in expired' <=> a \in expired) /\ audit'[a] = audit[a]
    BY <1>0, <1>4, CommitRecords
  <1>5. ASSUME SweepCommit, a \in swept
        PROVE  a \notin used' /\ a \in expired' /\ audit'[a] = <<"timeout">>
    BY <1>5, SweepRecords DEF IsOpen
  <1>6. ASSUME SweepCommit, a \notin swept
        PROVE  (a \in used' <=> a \in used) /\ (a \in expired' <=> a \in expired) /\ audit'[a] = audit[a]
    BY <1>6, SweepRecords
  <1>7. CASE UNCHANGED <<used, expired, audit>>
    BY <1>2, <1>7
  <1>8. QED
    BY <1>2, <1>3, <1>4, <1>5, <1>6, <1>7, OthersKeepRows DEF Decided

(* HInv is inductive. *)
THEOREM Invariance == Spec => []HInv
  <1>1. HInv /\ [Next]_vars => HInv'
    BY TypeStep, RequestStep, RowLockStep, AuditStep DEF HInv
  <1>2. QED
    BY InitHInv, <1>1, PTL DEF Spec

(* Every variable keeps its type. *)
THEOREM TypeCorrectness == Spec => []TypeOK
  <1>1. HInv => TypeOK
    BY DEF HInv
  <1>2. QED
    BY Invariance, <1>1, PTL

(* At most one transaction holds an approval, and it holds an open one:    *)
(* two requests, or a request and the sweeper, never consume it together.  *)
THEOREM RowLocksExclusive == Spec => []RowLockInv
  <1>1. HInv => RowLockInv
    BY DEF HInv
  <1>2. QED
    BY Invariance, <1>1, PTL

(* A used approval has one log row, the decision of a request for it that  *)
(* was answered 200; an expired one has the sweeper's; an open one none,   *)
(* and none is both (consume_approval, insert_audit_log,                   *)
(* expire_stale_approvals).                                                *)
THEOREM AuditAgreement == Spec => []AuditMatchesRow
  <1>1. HInv => AuditMatchesRow
    BY DEF HInv
  <1>2. QED
    BY Invariance, <1>1, PTL

-----------------------------------------------------------------------------

(* A decided approval is never decided again: its row and its log are      *)
(* frozen (FR-32).                                                         *)
THEOREM FinalDecisions == Spec => DecisionIsFinal
  <1> DEFINE Frozen ==
               \A a \in Decided :
                  /\ a \in used' <=> a \in used
                  /\ a \in expired' <=> a \in expired
                  /\ audit'[a] = audit[a]
  <1>1. HInv /\ [Next]_vars => [Frozen]_vars
    <2> SUFFICES ASSUME HInv, [Next]_vars PROVE Frozen
      OBVIOUS
    <2>1. ASSUME NEW r \in Requests, Commit(r) PROVE Frozen
      BY <2>1, CommitRecords DEF IsOpen, Decided, HInv, TypeOK
    <2>2. CASE SweepCommit
      <3>1. \A a \in Decided : a \in Approvals /\ a \notin swept
        BY <2>2, SweepRecords DEF IsOpen, Decided, HInv, TypeOK
      <3>2. QED
        BY <2>2, <3>1, SweepRecords
    <2>3. CASE UNCHANGED <<used, expired, audit>>
      BY <2>3
    <2>4. QED
      BY <2>1, <2>2, <2>3, OthersKeepRows
  <1>2. QED
    BY Invariance, <1>1, PTL DEF Spec, DecisionIsFinal

-----------------------------------------------------------------------------
(* How often the suspended graph is resumed, and with which decision.      *)

Scheduled(a) == {r \in Requests : task[r] = "scheduled" /\ target[r] = a}
Replying(a) == \E r \in Requests : pc[r] = "replied" /\ target[r] = a

(* Every resume of a, done or to come, is paid for: by its commit, by the  *)
(* commit that may still come, or by a failure.                            *)
PaidFor(a) ==
    /\ IsFiniteSet(Scheduled(a))
    /\ Len(resumed[a]) + Cardinality(Scheduled(a))
          <= failures + (IF a \in used \/ Replying(a) THEN 1 ELSE 0)

CountInv == \A a \in Approvals : PaidFor(a)

(* The decision d of a is logged, or still in an uncommitted transaction.  *)
Backed(a, d) ==
    \/ a \in used /\ audit[a][1] = d
    \/ \E r \in Requests : pc[r] = "replied" /\ target[r] = a /\ decision[r] = d

AgreeInv ==
    failures = 0 =>
        /\ \A r \in Requests : task[r] = "scheduled" => Backed(target[r], decision[r])
        /\ \A a \in Approvals : \A i \in DOMAIN resumed[a] : Backed(a, resumed[a][i])

(* The steps that do not concern the resume tasks. *)
Aside ==
    /\ UNCHANGED <<task, resumed, used>>
    /\ \A a \in used : audit'[a] = audit[a]
    /\ failures' \in {failures, failures + 1}
    /\ \A r \in Requests : pc'[r] = "replied" <=> pc[r] = "replied"
    /\ \A r \in Requests : pc[r] # "idle" => target'[r] = target[r] /\ decision'[r] = decision[r]

LEMMA ResumeSteps ==
  ASSUME HInv, [Next]_vars
  PROVE  \/ Aside \/ Crash
         \/ \E r \in Requests : \/ AuditAndReply(r) \/ Commit(r) \/ CommitFails(r)
                                \/ ResumeGraph(r) \/ ResumeFails(r)
  <1>0. /\ TypeOK /\ failures \in Nat
        /\ pc \in [Requests -> RequestStates] /\ target \in [Requests -> Approvals \cup {NoApproval}]
        /\ decision \in [Requests -> Bodies]
    BY DEF HInv, TypeOK
  <1> USE DEF rows, handler, resume, sweep
  <1>1. ASSUME NEW a \in Approvals, GateNext(a) \/ Deadline(a) PROVE Aside
    BY <1>0, <1>1 DEF Aside, GateNext, GateInsert, GateCommit, GateFail, Announce, Deadline
  <1>2. ASSUME NEW r \in Requests, NEW a \in Approvals, NEW d \in Bodies,
               PreCheckGone(r, a) \/ PreCheckOpen(r, a, d)
        PROVE  Aside
    <2>1. /\ pc[r] = "idle" /\ pc'[r] \in {"done", "prechecked"} /\ \A s \in Requests \ {r} : pc'[s] = pc[s]
          /\ UNCHANGED <<task, resumed, used, audit, failures>>
          /\ \A s \in Requests \ {r} : target'[s] = target[s] /\ decision'[s] = decision[s]
      BY <1>0, <1>2 DEF PreCheckGone, PreCheckOpen, Post, Answer
    <2>2. QED
      BY <2>1 DEF Aside
  <1>3. ASSUME NEW r \in Requests, Consume(r) \/ Conflict(r) \/ AuditFails(r) PROVE Aside
    <2>1. /\ pc[r] # "replied" /\ pc'[r] # "replied" /\ \A s \in Requests \ {r} : pc'[s] = pc[s]
          /\ UNCHANGED <<task, resumed, used, audit, target, decision>>
      BY <1>0, <1>3 DEF Consume, Conflict, AuditFails, Answer
    <2>2. failures' \in {failures, failures + 1}
      BY <1>3 DEF Consume, Conflict, AuditFails
    <2>3. QED
      BY <2>1, <2>2 DEF Aside
  <1>4. CASE SweeperNext
    <2>1. CASE SweepBegin \/ SweepFails \/ \E a \in Approvals : SweepRow(a)
      BY <2>1 DEF Aside, SweepBegin, SweepFails, SweepRow
    <2>2. CASE SweepCommit
      <3>1. \A a \in used : a \in Approvals /\ a \notin swept
        BY <2>2, SweepRecords DEF IsOpen, HInv, TypeOK
      <3>2. \A a \in used : audit'[a] = audit[a]
        BY <2>2, <3>1, SweepRecords
      <3>3. QED
        BY <2>2, <3>2 DEF Aside, SweepCommit
    <2>3. QED
      BY <1>4, <2>1, <2>2 DEF SweeperNext
  <1>5. CASE UNCHANGED vars
    BY <1>5 DEF Aside, vars
  <1>6. QED
    BY <1>1, <1>2, <1>3, <1>4, <1>5 DEF Next, RequestNext, Bodies

(* A reply is the only one on its approval, which is open. *)
LEMMA OnlyReply ==
  ASSUME HInv, NEW r \in Requests, pc[r] \in {"consumed", "replied"}
  PROVE  /\ target[r] \in Approvals /\ target[r] \notin Decided
         /\ \A s \in Requests : pc[s] = "replied" /\ target[s] = target[r] => s = r
  BY DEF HInv, RequestInv, RowLockInv, Locks, IsOpen, Decided

LEMMA CountStep == HInv /\ CountInv /\ [Next]_vars => CountInv'
  <1> SUFFICES ASSUME HInv, CountInv, [Next]_vars, NEW a \in Approvals PROVE PaidFor(a)'
    BY DEF CountInv
  <1>0. /\ TypeOK /\ failures \in Nat /\ resumed[a] \in Seq(Decisions) /\ Len(resumed[a]) \in Nat
        /\ IsFiniteSet(Scheduled(a)) /\ Cardinality(Scheduled(a)) \in Nat
        /\ Len(resumed[a]) + Cardinality(Scheduled(a))
              <= failures + (IF a \in used \/ Replying(a) THEN 1 ELSE 0)
    <2>1. IsFiniteSet(Scheduled(a)) /\ TypeOK
      BY DEF CountInv, PaidFor, HInv
    <2>2. Cardinality(Scheduled(a)) \in Nat
      BY <2>1, FS_CardinalityType
    <2>3. QED
      BY <2>1, <2>2 DEF CountInv, PaidFor, TypeOK
  <1>1. CASE Aside
    <2>1. Scheduled(a)' = Scheduled(a)
      <3>1. \A r \in Requests : task[r] = "scheduled" => target'[r] = target[r]
        BY <1>1 DEF Aside, HInv, RequestInv
      <3>2. \A r \in Requests : task'[r] = "scheduled" <=> task[r] = "scheduled"
        BY <1>1 DEF Aside
      <3>3. QED
        BY <3>1, <3>2 DEF Scheduled
    <2>2. Replying(a)' <=> Replying(a)
      BY <1>1 DEF Aside, Replying
    <2>3. QED
      BY <1>0, <1>1, <2>1, <2>2 DEF Aside, PaidFor
  <1>2. ASSUME NEW r \in Requests, AuditAndReply(r) PROVE PaidFor(a)'
    <2>1. /\ pc[r] = "consumed" /\ pc'[r] = "replied" /\ \A s \in Requests \ {r} : pc'[s] = pc[s]
          /\ task'[r] = "scheduled" /\ \A s \in Requests \ {r} : task'[s] = task[s]
          /\ UNCHANGED <<used, resumed, target, failures>>
      BY <1>0, <1>2 DEF AuditAndReply, rows, TypeOK
    <2>2. CASE target[r] = a
      <3>1. a \notin used /\ ~Replying(a)
        <4>1. /\ a \notin Decided
              /\ \A s \in Requests : pc[s] = "replied" /\ target[s] = a => s = r
          BY <2>1, <2>2, OnlyReply
        <4>2. QED
          BY <2>1, <4>1 DEF Decided, Replying
      <3>2. Replying(a)'
        BY <2>1, <2>2 DEF Replying
      <3>3. r \notin Scheduled(a) /\ Scheduled(a)' = Scheduled(a) \cup {r}
        <4>1. task[r] = "none"
          BY <2>1 DEF HInv, RequestInv
        <4>2. QED
          BY <2>1, <2>2, <4>1 DEF Scheduled
      <3>4. IsFiniteSet(Scheduled(a)') /\ Cardinality(Scheduled(a)') = Cardinality(Scheduled(a)) + 1
        BY <1>0, <3>3, FS_AddElement
      <3>5. QED
        BY <1>0, <2>1, <3>1, <3>2, <3>4 DEF PaidFor
    <2>3. CASE target[r] # a
      <3>1. Scheduled(a)' = Scheduled(a) /\ (Replying(a)' <=> Replying(a))
        BY <2>1, <2>3 DEF Scheduled, Replying
      <3>2. QED
        BY <1>0, <2>1, <3>1 DEF PaidFor
    <2>4. QED
      BY <2>2, <2>3
  <1>3. ASSUME NEW r \in Requests, Commit(r) PROVE PaidFor(a)'
    <2>1. /\ pc[r] = "replied" /\ \A s \in Requests \ {r} : pc'[s] = pc[s]
          /\ used' = used \cup {target[r]}
          /\ UNCHANGED <<task, resumed, target, failures>>
      BY <1>0, <1>3 DEF Commit, resume, TypeOK
    <2>2. Scheduled(a)' = Scheduled(a)
      BY <2>1 DEF Scheduled
    <2>3. a \in used \/ Replying(a) => a \in used' \/ Replying(a)'
      BY <2>1 DEF Replying
    <2>4. QED
      BY <1>0, <2>1, <2>2, <2>3 DEF PaidFor
  <1>4. ASSUME NEW r \in Requests, CommitFails(r) PROVE PaidFor(a)'
    <2>1. UNCHANGED <<task, resumed, target>> /\ failures' = failures + 1
      BY <1>4 DEF CommitFails, resume
    <2>2. Scheduled(a)' = Scheduled(a)
      BY <2>1 DEF Scheduled
    <2>3. QED
      BY <1>0, <2>1, <2>2 DEF PaidFor
  <1>5. ASSUME NEW r \in Requests, ResumeGraph(r) \/ ResumeFails(r) PROVE PaidFor(a)'
    <2>1. /\ task[r] = "scheduled" /\ task'[r] # "scheduled" /\ \A s \in Requests \ {r} : task'[s] = task[s]
          /\ UNCHANGED <<used, pc, target>> /\ failures' \in {failures, failures + 1}
      BY <1>0, <1>5 DEF ResumeGraph, ResumeFails, rows, handler, TypeOK, TaskStates
    <2>2. Replying(a)' <=> Replying(a)
      BY <2>1 DEF Replying
    <2>3. CASE target[r] = a
      <3>1. r \in Scheduled(a) /\ Scheduled(a)' = Scheduled(a) \ {r}
        BY <2>1, <2>3 DEF Scheduled
      <3>2. IsFiniteSet(Scheduled(a)') /\ Cardinality(Scheduled(a)') = Cardinality(Scheduled(a)) - 1
        BY <1>0, <3>1, FS_RemoveElement
      <3>3. Len(resumed'[a]) \in {Len(resumed[a]), Len(resumed[a]) + 1}
        BY <1>0, <1>5, <2>3 DEF ResumeGraph, ResumeFails, TypeOK
      <3>4. /\ IsFiniteSet(Scheduled(a)) /\ Len(resumed[a]) \in Nat /\ Cardinality(Scheduled(a)) \in Nat
            /\ failures \in Nat /\ (a \in used' \/ Replying(a)' <=> a \in used \/ Replying(a))
        BY <1>0, <2>1, <2>2, FS_CardinalityType DEF PaidFor
      <3>5. /\ Len(resumed'[a]) + Cardinality(Scheduled(a)') <= Len(resumed[a]) + Cardinality(Scheduled(a))
            /\ failures' \in Nat /\ failures <= failures'
            /\ Len(resumed'[a]) \in Nat /\ Cardinality(Scheduled(a)') \in Nat
        BY <2>1, <3>2, <3>3, <3>4, FS_CardinalityType
      <3>6. CASE a \in used \/ Replying(a)
        BY <1>0, <3>2, <3>4, <3>5, <3>6 DEF PaidFor
      <3>7. CASE ~(a \in used \/ Replying(a))
        BY <1>0, <3>2, <3>4, <3>5, <3>7 DEF PaidFor
      <3>8. QED
        BY <3>6, <3>7
    <2>4. CASE target[r] # a
      <3>1. Scheduled(a)' = Scheduled(a)
        BY <2>1, <2>4 DEF Scheduled
      <3>2. resumed'[a] = resumed[a]
        BY <1>0, <1>5, <2>4 DEF ResumeGraph, ResumeFails, TypeOK
      <3>3. QED
        BY <1>0, <2>1, <2>2, <3>1, <3>2 DEF PaidFor
    <2>5. QED
      BY <2>3, <2>4
  <1>6. CASE Crash
    <2>1. Scheduled(a)' = {} /\ UNCHANGED <<resumed, used>> /\ failures' = failures + 1
      BY <1>0, <1>6 DEF Crash, Scheduled, rows, TypeOK, TaskStates
    <2>2. IsFiniteSet({}) /\ Cardinality({}) = 0
      BY FS_EmptySet
    <2>3. QED
      BY <1>0, <2>1, <2>2 DEF PaidFor
  <1>7. QED
    BY <1>1, <1>2, <1>3, <1>4, <1>5, <1>6, ResumeSteps

LEMMA AgreeStep == HInv /\ AgreeInv /\ [Next]_vars => AgreeInv'
  <1> SUFFICES ASSUME HInv, AgreeInv, [Next]_vars, failures' = 0
               PROVE  /\ \A r \in Requests : task'[r] = "scheduled" => Backed(target[r], decision[r])'
                      /\ \A a \in Approvals : \A i \in DOMAIN resumed'[a] : Backed(a, resumed[a][i])'
    BY DEF AgreeInv
  <1>0. TypeOK /\ RequestInv /\ failures \in Nat
    BY DEF HInv, TypeOK
  <1>1. CASE Aside
    <2>1. failures = 0
      BY <1>0, <1>1 DEF Aside
    <2>2. ASSUME NEW a, NEW d, Backed(a, d)
          PROVE  \/ a \in used' /\ audit'[a][1] = d
                 \/ \E r \in Requests : pc'[r] = "replied" /\ target'[r] = a /\ decision'[r] = d
      BY <1>1, <2>2 DEF Aside, Backed
    <2>3. \A r \in Requests : task[r] = "scheduled" => target'[r] = target[r] /\ decision'[r] = decision[r]
      BY <1>0, <1>1 DEF Aside, RequestInv
    <2>4. QED
      BY <1>1, <2>1, <2>2, <2>3 DEF Aside, AgreeInv, Backed
  <1>2. ASSUME NEW r \in Requests, AuditAndReply(r)
        PROVE  /\ \A s \in Requests : task'[s] = "scheduled" => Backed(target[s], decision[s])'
               /\ \A a \in Approvals : \A i \in DOMAIN resumed'[a] : Backed(a, resumed[a][i])'
    <2>1. /\ pc[r] = "consumed" /\ pc'[r] = "replied" /\ \A s \in Requests \ {r} : pc'[s] = pc[s]
          /\ \A s \in Requests \ {r} : task'[s] = task[s]
          /\ UNCHANGED <<used, audit, resumed, target, decision, failures>>
      BY <1>0, <1>2 DEF AuditAndReply, rows, TypeOK
    <2>2. QED
      BY <2>1 DEF AgreeInv, Backed
  <1>3. ASSUME NEW r \in Requests, Commit(r)
        PROVE  /\ \A s \in Requests : task'[s] = "scheduled" => Backed(target[s], decision[s])'
               /\ \A a \in Approvals : \A i \in DOMAIN resumed'[a] : Backed(a, resumed[a][i])'
    <2>1. /\ pc[r] = "replied" /\ pc'[r] = "done" /\ \A s \in Requests \ {r} : pc'[s] = pc[s]
          /\ UNCHANGED <<task, resumed, target, decision, failures>>
      BY <1>0, <1>3 DEF Commit, resume, TypeOK
    <2>2. /\ target[r] \in Approvals /\ target[r] \notin used /\ used' = used \cup {target[r]}
          /\ audit'[target[r]][1] = decision[r]
          /\ \A a \in used : audit'[a] = audit[a]
      <3>1. /\ target[r] \in Approvals /\ IsOpen(target[r]) /\ used' = used \cup {target[r]}
            /\ audit' = [audit EXCEPT ![target[r]] = <<decision[r]>>]
        BY <1>3, CommitRecords
      <3>2. audit'[target[r]] = <<decision[r]>> /\ \A a \in used : audit'[a] = audit[a]
        BY <1>0, <3>1 DEF IsOpen, TypeOK
      <3>3. QED
        BY <3>1, <3>2 DEF IsOpen
    <2>3. ASSUME NEW a, NEW d, Backed(a, d)
          PROVE  \/ a \in used' /\ audit'[a][1] = d
                 \/ \E s \in Requests : pc'[s] = "replied" /\ target'[s] = a /\ decision'[s] = d
      BY <2>1, <2>2, <2>3 DEF Backed
    <2>4. failures = 0
      BY <2>1
    <2>5. \A s \in Requests : task'[s] = "scheduled" => Backed(target[s], decision[s])'
      <3>1. \A s \in Requests : task[s] = "scheduled" => Backed(target[s], decision[s])
        BY <2>4 DEF AgreeInv
      <3> SUFFICES ASSUME NEW s \in Requests, task[s] = "scheduled" PROVE Backed(target[s], decision[s])'
        BY <2>1
      <3>2. \/ target[s] \in used' /\ audit'[target[s]][1] = decision[s]
            \/ \E q \in Requests : pc'[q] = "replied" /\ target'[q] = target[s] /\ decision'[q] = decision[s]
        BY <2>3, <3>1
      <3>3. QED
        BY <2>1, <3>2 DEF Backed
    <2>6. \A a \in Approvals : \A i \in DOMAIN resumed'[a] : Backed(a, resumed[a][i])'
      <3>1. \A a \in Approvals : \A i \in DOMAIN resumed[a] : Backed(a, resumed[a][i])
        BY <2>4 DEF AgreeInv
      <3>2. QED
        BY <2>1, <2>3, <3>1 DEF Backed
    <2>7. QED
      BY <2>5, <2>6
  <1>4. ASSUME NEW r \in Requests, ResumeGraph(r)
        PROVE  /\ \A s \in Requests : task'[s] = "scheduled" => Backed(target[s], decision[s])'
               /\ \A a \in Approvals : \A i \in DOMAIN resumed'[a] : Backed(a, resumed[a][i])'
    <2>1. /\ task[r] = "scheduled" /\ \A s \in Requests : task'[s] = "scheduled" => task[s] = "scheduled"
          /\ UNCHANGED <<used, audit, pc, target, decision, failures>>
      BY <1>0, <1>4 DEF ResumeGraph, rows, handler, TypeOK
    <2>2. Backed(target[r], decision[r])
      BY <2>1 DEF AgreeInv
    <2>3. \A a \in Approvals : \A i \in DOMAIN resumed'[a] :
             \/ i \in DOMAIN resumed[a] /\ resumed'[a][i] = resumed[a][i]
             \/ a = target[r] /\ resumed'[a][i] = decision[r]
      <3> SUFFICES ASSUME NEW a \in Approvals, NEW i \in DOMAIN resumed'[a]
                   PROVE  \/ i \in DOMAIN resumed[a] /\ resumed'[a][i] = resumed[a][i]
                          \/ a = target[r] /\ resumed'[a][i] = decision[r]
        OBVIOUS
      <3>1. resumed[a] \in Seq(Decisions) /\ resumed \in [Approvals -> Seq(Decisions)]
        BY <1>0 DEF TypeOK
      <3>2. CASE a = target[r]
        <4>1. resumed'[a] = Append(resumed[a], decision[r])
          BY <1>4, <3>1, <3>2 DEF ResumeGraph
        <4>2. QED
          BY <3>1, <3>2, <4>1
      <3>3. CASE a # target[r]
        BY <1>4, <3>1, <3>3 DEF ResumeGraph
      <3>4. QED
        BY <3>2, <3>3
    <2>4. QED
      BY <2>1, <2>2, <2>3 DEF AgreeInv, Backed
  <1>5. ASSUME NEW r \in Requests, CommitFails(r) \/ ResumeFails(r) PROVE FALSE
    BY <1>0, <1>5 DEF CommitFails, ResumeFails
  <1>6. CASE Crash
    BY <1>0, <1>6 DEF Crash
  <1>7. QED
    BY <1>1, <1>2, <1>3, <1>4, <1>5, <1>6, ResumeSteps

(* A graph is resumed once, and once more for each failure at most.        *)
THEOREM ResumesPaidFor == Spec => []ExtraResumeNeedsFailure
  <1>1. Init => CountInv
    <2> SUFFICES ASSUME Init, NEW a \in Approvals PROVE PaidFor(a)
      BY DEF CountInv
    <2>1. Scheduled(a) = {} /\ resumed[a] = <<>> /\ failures = 0
      BY DEF Init, Scheduled
    <2>2. IsFiniteSet({}) /\ Cardinality({}) = 0 /\ Len(<<>>) = 0
      BY FS_EmptySet
    <2>3. QED
      BY <2>1, <2>2 DEF PaidFor
  <1>2. HInv /\ CountInv => ExtraResumeNeedsFailure
    <2> SUFFICES ASSUME HInv, CountInv, NEW a \in Approvals PROVE Len(resumed[a]) <= 1 + failures
      BY DEF ExtraResumeNeedsFailure
    <2>1. /\ Len(resumed[a]) + Cardinality(Scheduled(a))
                <= failures + (IF a \in used \/ Replying(a) THEN 1 ELSE 0)
          /\ IsFiniteSet(Scheduled(a))
      BY DEF CountInv, PaidFor
    <2>2. Cardinality(Scheduled(a)) \in Nat
      BY <2>1, FS_CardinalityType
    <2>3. failures \in Nat /\ Len(resumed[a]) \in Nat
      BY DEF HInv, TypeOK
    <2>4. QED
      BY <2>1, <2>2, <2>3
  <1>3. QED
    BY <1>1, <1>2, CountStep, Invariance, PTL DEF Spec

(* As long as nothing failed, the graph was told what the log says, and    *)
(* never for an approval that the sweeper timed out (approve_hitl,         *)
(* _resume_graph).                                                         *)
THEOREM ResumesAsLogged == Spec => []ResumeAgreesWithAudit
  <1>1. Init => AgreeInv
    BY DEF Init, AgreeInv
  <1>2. HInv /\ AgreeInv => ResumeAgreesWithAudit
    <2> SUFFICES ASSUME HInv, AgreeInv, failures = 0 PROVE ResumeAgreesWithAudit
      BY DEF ResumeAgreesWithAudit
    <2>1. ASSUME NEW a \in Decided, NEW i \in DOMAIN resumed[a]
          PROVE  a \in used /\ resumed[a][i] = audit[a][1]
      <3>1. a \in Approvals
        BY DEF HInv, TypeOK, Decided
      <3>2. Backed(a, resumed[a][i])
        BY <3>1 DEF AgreeInv
      <3>3. \A r \in Requests : pc[r] = "replied" => target[r] # a
        BY OnlyReply
      <3>4. QED
        BY <3>2, <3>3 DEF Backed
    <2>2. ASSUME NEW a \in expired PROVE resumed[a] = <<>>
      <3>1. a \in Approvals /\ a \notin used /\ resumed[a] \in Seq(Decisions)
        BY DEF HInv, TypeOK, AuditMatchesRow
      <3>2. DOMAIN resumed[a] = {}
        BY <2>1, <3>1 DEF Decided
      <3>3. QED
        BY <3>1, <3>2
    <2>3. QED
      BY <2>1, <2>2 DEF ResumeAgreesWithAudit, Decided
  <1>3. QED
    BY <1>1, <1>2, AgreeStep, Invariance, PTL DEF Spec

-----------------------------------------------------------------------------

(* Only GateCommit adds rows. *)
LEMMA OthersKeepStored ==
    ASSUME [Next]_vars, \A a \in Approvals : ~GateCommit(a)
    PROVE  UNCHANGED stored
  <1> USE DEF rows, handler, resume, sweep
  <1>1. ASSUME NEW a \in Approvals, GateNext(a) \/ Deadline(a)
        PROVE  UNCHANGED stored
    BY <1>1 DEF GateNext, GateInsert, GateFail, Announce, Deadline
  <1>2. ASSUME NEW r \in Requests, RequestNext(r)
        PROVE  UNCHANGED stored
    BY <1>2 DEF RequestNext, PreCheckGone, PreCheckOpen, Consume, Conflict, AuditAndReply,
        AuditFails, Commit, CommitFails, ResumeGraph, ResumeFails
  <1>3. CASE SweeperNext
    BY <1>3 DEF SweeperNext, SweepBegin, SweepRow, SweepCommit, SweepFails
  <1>4. CASE Crash
    BY <1>4 DEF Crash
  <1>5. CASE UNCHANGED vars
    BY <1>5 DEF vars
  <1>6. QED
    BY <1>1, <1>2, <1>3, <1>4, <1>5 DEF Next

(* Every step maps to a step of the abstract life cycle or to a stutter.   *)
LEMMA LifecycleStep == HInv /\ [Next]_vars => [Lifecycle!LifecycleNext]_verdictOf
  <1> SUFFICES ASSUME HInv, [Next]_vars
               PROVE  Lifecycle!LifecycleNext \/ UNCHANGED verdictOf
    OBVIOUS
  <1>0. used \subseteq Approvals /\ expired \subseteq Approvals /\ stored \subseteq Approvals
    BY DEF HInv, TypeOK
  <1>1. ASSUME NEW a \in Approvals, GateCommit(a)
        PROVE  Lifecycle!LifecycleNext \/ UNCHANGED verdictOf
    <2>1. UNCHANGED <<used, expired, audit>> /\ stored' = stored \cup {a}
      BY <1>1 DEF GateCommit
    <2>2. CASE a \in stored
      BY <2>1, <2>2 DEF verdictOf, Decided
    <2>3. CASE a \notin stored
      <3>1. a \notin Decided
        BY <2>3 DEF HInv, TypeOK, Decided
      <3>2. Lifecycle!Open(a)
        BY <2>1, <2>3, <3>1 DEF Lifecycle!Open, verdictOf, Decided
      <3>3. QED
        BY <3>2 DEF Lifecycle!LifecycleNext
    <2>4. QED
      BY <2>2, <2>3
  <1>2. ASSUME NEW r \in Requests, Commit(r)
        PROVE  Lifecycle!LifecycleNext
    <2> DEFINE a == target[r]
    <2>1. /\ a \in Approvals /\ a \in stored /\ a \notin Decided
          /\ decision[r] \in Decisions
          /\ Decided' = Decided \cup {a}
          /\ stored' = stored
          /\ audit' = [audit EXCEPT ![a] = <<decision[r]>>]
      BY <1>2, CommitRecords DEF IsOpen, Decided
    <2>2. audit \in [Approvals -> Seq(Decisions)]
      BY DEF HInv, TypeOK
    <2> HIDE DEF a
    <2>3. verdictOf[a] = "open"
      BY <2>1 DEF verdictOf
    <2>4. verdictOf' = [verdictOf EXCEPT ![a] = decision[r]]
      BY <2>1, <2>2 DEF verdictOf
    <2>5. Lifecycle!Decide(a)
      BY <2>1, <2>3, <2>4 DEF Lifecycle!Decide, Lifecycle!Verdicts, Decisions
    <2>6. QED
      BY <2>1, <2>5 DEF Lifecycle!LifecycleNext
  <1>3. CASE SweepCommit
    <2>1. /\ \A a \in swept : a \in Approvals /\ a \in stored /\ a \notin Decided
          /\ Decided' = Decided \cup swept
          /\ stored' = stored
          /\ audit' = [a \in Approvals |-> IF a \in swept THEN <<"timeout">> ELSE audit[a]]
      BY <1>3, SweepRecords DEF IsOpen, Decided
    <2>2. CASE swept = {}
      <3>1. \A a \in Approvals : audit'[a] = audit[a]
        BY <2>1, <2>2
      <3>2. QED
        BY <2>1, <2>2, <3>1 DEF verdictOf
    <2>3. CASE swept # {}
      <3>1. \A a \in swept : verdictOf[a] = "open"
        BY <2>1 DEF verdictOf
      <3>2. verdictOf' = [a \in Approvals |-> IF a \in swept THEN "timeout" ELSE verdictOf[a]]
        BY <2>1 DEF verdictOf
      <3>3. Lifecycle!TimeOut(swept)
        BY <2>3, <3>1, <3>2 DEF Lifecycle!TimeOut
      <3>4. swept \in SUBSET Approvals
        BY <2>1
      <3>5. QED
        BY <3>3, <3>4 DEF Lifecycle!LifecycleNext
    <2>4. QED
      BY <2>2, <2>3
  <1>4. CASE UNCHANGED <<used, expired, audit, stored>>
    BY <1>4 DEF verdictOf, Decided
  <1>5. QED
    BY <1>1, <1>2, <1>3, <1>4, OthersKeepRows, OthersKeepStored

(* The gate, the requests, the sweeper and crashes together implement the  *)
(* safety part of ApprovalLifecycle.                                       *)
THEOREM ImplementsLifecycleSafety == Spec => Lifecycle!LifecycleSafety
  <1>1. Init => Lifecycle!LifecycleInit
    BY DEF Init, Lifecycle!LifecycleInit, verdictOf
  <1>2. QED
    BY Invariance, LifecycleStep, <1>1, PTL DEF Spec, Lifecycle!LifecycleSafety

=============================================================================
