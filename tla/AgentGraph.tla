----------------------------- MODULE AgentGraph -----------------------------
(***************************************************************************)
(* The graph of one conversation (agents/graph.py, graph/edges.py, the     *)
(* nodes) and who runs it: GET /chat/stream for a message, _resume_graph   *)
(* for a decision.  Nothing keeps two runs of a thread apart: each carries *)
(* its own copy of the state, and every node's end overwrites the one      *)
(* checkpoint of the thread.                                               *)
(*                                                                         *)
(* Whether LangGraph, given the decision as input, goes on behind the gate *)
(* (what agents/runner.py and graph/edges.py assume) or starts at the      *)
(* entry is outside this repository: both are modelled.                    *)
(***************************************************************************)
EXTENDS Naturals, FiniteSets

CONSTANTS
    Tools,          \* registered tools
    Sensitive,      \* those with is_sensitive
    Attempts,       \* executions of a tool call until one succeeds: 4
    Primary,        \* attempts with the active model: 3
    Fallbacks,      \* models of the fallback list, 0 if it is disabled
    MaxTurns,       \* bound: messages sent
    MaxApprovals,   \* bound: approvals stored
    MaxRuns,        \* bound: runs of the graph
    MaxActive,      \* bound: runs at a time
    MaxFaults       \* bound: disconnects, crashes, failed commits

ASSUME GraphBounds ==
    /\ Sensitive \subseteq Tools
    /\ Attempts \in Nat \ {0} /\ Primary \in Nat \ {0} /\ Fallbacks \in Nat
    /\ MaxTurns \in Nat /\ MaxApprovals \in Nat /\ MaxRuns \in Nat /\ MaxActive \in Nat
    /\ MaxFaults \in Nat

VARIABLES
    continues,  \* a resumed run goes on behind the gate
    saved,      \* the checkpoint of the thread
    turns,      \* messages sent; the stream of a message has its number
    approvals,  \* approvals[a]: turn and calls it was stored for, verdict
    runs,       \* runs[r]: one run, with its copy of the state
    disturbed,  \* approvals that were open while something else ran or failed
    faults      \* faults so far

vars == <<continues, saved, turns, approvals, runs, disturbed, faults>>

Approvals == 1..MaxApprovals
Runs == 1..MaxRuns
Errors == {"none", "HITL_DB_ERROR", "ALL_MODELS_FAILED"}
Answers == {"none", "model", "cancelled", "tools failed", "models failed", "timed out", "generic"}
Places == {"reading", "loading", "router", "gate", "suspending", "tools", "llm", "handler"}
Over == {"unused", "ended", "off"}

(* What approve_hitl commits: the body is an unconstrained string, and the *)
(* CHECK of hitl_audit_log accepts "timeout" as well.                      *)
Decisions == {"approve", "deny", "timeout"}

NoApproval == [turn |-> 0, calls |-> {}, verdict |-> "none"]
NoRun == [at |-> "unused", approval |-> 0, decision |-> "none", turn |-> 0, stream |-> 0,
          calls |-> {}, error |-> "none", stored |-> 0, tries |-> [t \in Tools |-> 0],
          done |-> {}, silent |-> {}, asked |-> 0, ran |-> {}, answers |-> 0, answer |-> "none"]

Init ==
    /\ continues \in BOOLEAN
    /\ saved = [suspended |-> FALSE, turn |-> 0, calls |-> {}, error |-> "none"]
    /\ turns = 0
    /\ approvals = [a \in Approvals |-> NoApproval]
    /\ runs = [r \in Runs |-> NoRun]
    /\ disturbed = {}
    /\ faults = 0

Active(r) == runs[r].at \notin Over
Fresh == {r \in Runs : /\ runs[r].at = "unused"
                       /\ \A q \in Runs : q < r => runs[q].at # "unused"
                       /\ Cardinality({q \in Runs : Active(q)}) < MaxActive}
Stored == {a \in Approvals : approvals[a].turn # 0}
Open == {a \in Stored : approvals[a].verdict = "none"}

(* Approvals whose checkpoint is still to be resumed. *)
Waiting == Open \cup {runs[r].approval : r \in {q \in Runs : runs[q].at \in {"reading", "loading"}}}

-----------------------------------------------------------------------------
(* The edges, and what the nodes decide.                                   *)

(* Faulty: all calls must be sensitive. *)
AfterRouterAll(run) ==
    IF run.calls = {} THEN "llm"
    ELSE IF run.calls \subseteq Sensitive THEN "gate"
    ELSE IF run.error # "none" THEN "handler" ELSE "tools"

AfterRouter(run) ==
    IF run.calls = {} THEN "llm"
    ELSE IF run.calls \cap Sensitive # {} THEN "gate"
    ELSE IF run.error # "none" THEN "handler" ELSE "tools"

(* Faulty: only what timed out is held back. *)
AfterHitlUnlessTimedOut(decision) == IF decision = "timeout" THEN "handler" ELSE "tools"

(* "approved" leads to the tools; "denied", and "error" for anything else, *)
(* lead to the error handler.                                              *)
AfterHitl(decision) == IF decision = "approve" THEN "tools" ELSE "handler"

(* A result whose error is an empty text counts as a success. *)
AfterTools(run) ==
    IF run.error # "none" \/ run.done \cup run.silent = {} THEN "handler" ELSE "llm"

(* Faulty: the error is not looked at. *)
AfterLlmBlind(run) == "ended"

AfterLlm(run) == IF run.error # "none" THEN "handler" ELSE "ended"

Message(code) ==
    CASE code = "HITL_DENIED" -> "cancelled"
      [] code \in {"TOOL_ERROR", "TOOL_TIMEOUT"} -> "tools failed"
      [] code \in {"ALL_MODELS_FAILED", "NO_FALLBACK_CONFIGURED"} -> "models failed"
      [] code = "HITL_TIMEOUT" -> "timed out"
      [] OTHER -> "generic"

(* What is kept of a run that is over. *)
Rest(run) ==
    IF run.at \in Places THEN run
    ELSE IF run.at = "off" THEN [NoRun EXCEPT !.at = "off"]
    ELSE IF run.approval = 0
    THEN [NoRun EXCEPT !.at = "ended", !.error = run.error, !.answers = run.answers]
    ELSE [run EXCEPT !.turn = 0, !.calls = {}, !.tries = NoRun.tries, !.done = {}, !.silent = {},
                     !.asked = 0]

(* The run takes a step; the node that ended is in the checkpoint. *)
Step(r, run) == runs' = [runs EXCEPT ![r] = Rest(run)]
Save(run, suspended) ==
    saved' = [suspended |-> suspended, turn |-> run.turn, calls |-> run.calls, error |-> run.error]

-----------------------------------------------------------------------------
(* Runs begin.                                                             *)

(* GET /chat/stream for a new message, or once more for the last one while *)
(* its context key lives: the input overwrites the whole state.            *)
StartTurn(r, turn) ==
    /\ r \in Fresh
    /\ turn \in {turns, turns + 1} /\ turn \in 1..MaxTurns
    /\ turns' = turn
    /\ LET run == [NoRun EXCEPT !.at = "router", !.turn = turn, !.stream = turn]
       IN Step(r, run) /\ Save(run, FALSE)
    /\ disturbed' = disturbed \cup Waiting
    /\ UNCHANGED <<continues, approvals, faults>>

(* approve_hitl creates the task of _resume_graph, then commits. *)
Decide(r, a, decision) ==
    /\ r \in Fresh
    /\ a \in Open
    /\ Step(r, [NoRun EXCEPT !.at = "reading", !.approval = a, !.decision = decision])
    /\ \/ approvals' = [approvals EXCEPT ![a].verdict = decision] /\ UNCHANGED faults
       \/ faults < MaxFaults /\ faults' = faults + 1 /\ UNCHANGED approvals
    /\ disturbed' = disturbed \cup (Waiting \ {a})
           \cup IF approvals' = approvals \/ \E q \in Runs : Active(q) THEN {a} ELSE {}
    /\ UNCHANGED <<continues, saved, turns>>

(* _resume_graph asks the checkpoint for the stream to write to. *)
ReadStream(r) ==
    /\ runs[r].at = "reading"
    /\ Step(r, [runs[r] EXCEPT !.at = "loading", !.stream = saved.turn])
    /\ UNCHANGED <<continues, saved, turns, approvals, disturbed, faults>>

(* resume_turn: the decision as input. *)
Load(r) ==
    /\ runs[r].at = "loading"
    /\ LET run == [runs[r] EXCEPT !.turn = saved.turn, !.calls = saved.calls, !.error = saved.error,
                                  !.at = IF continues /\ saved.suspended
                                         THEN AfterHitl(runs[r].decision) ELSE "router"]
       IN Step(r, run) /\ Save(run, FALSE)
    /\ UNCHANGED <<continues, turns, approvals, disturbed, faults>>

-----------------------------------------------------------------------------
(* Nodes.                                                                  *)

(* The model selects registered tools. *)
Route(r, calls) ==
    /\ runs[r].at = "router"
    /\ LET run == [runs[r] EXCEPT !.calls = calls]
       IN Step(r, [run EXCEPT !.at = AfterRouter(run)]) /\ Save(run, FALSE)
    /\ UNCHANGED <<continues, turns, approvals, disturbed, faults>>

(* The router's model call has no retry: the exception ends the run. *)
RouterFails(r) ==
    /\ runs[r].at = "router"
    /\ Step(r, [runs[r] EXCEPT !.at = "off"])
    /\ UNCHANGED <<continues, saved, turns, approvals, disturbed, faults>>

(* hitl_gate commits the approval. *)
StoreApproval(r, a) ==
    /\ runs[r].at = "gate"
    /\ a \notin Stored /\ \A b \in Approvals : b < a => b \in Stored
    /\ approvals' = [approvals EXCEPT ![a] = [turn |-> runs[r].stream, calls |-> runs[r].calls,
                                              verdict |-> "none"]]
    /\ Step(r, [runs[r] EXCEPT !.at = "suspending", !.stored = a])
    /\ disturbed' = IF runs[r].approval \in disturbed \/ \E q \in Runs \ {r} : Active(q)
                    THEN disturbed \cup {a} ELSE disturbed
    /\ UNCHANGED <<continues, saved, turns, faults>>

(* hitl_gate could not: an error in the state, and no approval. *)
StoreFails(r) ==
    /\ runs[r].at = "gate"
    /\ Step(r, [runs[r] EXCEPT !.at = "suspending", !.error = "HITL_DB_ERROR"])
    /\ UNCHANGED <<continues, saved, turns, approvals, disturbed, faults>>

(* Faulty: without interrupt_after. *)
SuspendNever(r) ==
    /\ runs[r].at = "suspending"
    /\ Step(r, [runs[r] EXCEPT !.at = AfterHitl(runs[r].decision)])
    /\ Save(runs[r], FALSE)
    /\ UNCHANGED <<continues, turns, approvals, disturbed, faults>>

(* interrupt_after: the checkpoint is written and the run is over. *)
Suspend(r) ==
    /\ runs[r].at = "suspending"
    /\ Step(r, [runs[r] EXCEPT !.at = "off"])
    /\ Save(runs[r], TRUE)
    /\ UNCHANGED <<continues, turns, approvals, disturbed, faults>>

Pending(r) == {t \in runs[r].calls \ runs[r].done : runs[r].tries[t] < Attempts}

(* Faulty: the attempts are not counted. *)
ExecuteForever(r, t) ==
    /\ runs[r].at = "tools"
    /\ t \in Pending(r)
    /\ \/ Step(r, [runs[r] EXCEPT !.ran = @ \cup {t}, !.done = @ \cup {t}])
       \/ Step(r, [runs[r] EXCEPT !.ran = @ \cup {t}, !.tries[t] = (@ + 1) % Attempts])
    /\ UNCHANGED <<continues, saved, turns, approvals, disturbed, faults>>

(* run_one, one of the concurrent calls: it returns or fails.  When the    *)
(* last attempt times out, the text of its exception, which is all that is *)
(* kept of it, is empty.                                                   *)
Execute(r, t) ==
    /\ runs[r].at = "tools"
    /\ t \in Pending(r)
    /\ LET started == [runs[r] EXCEPT !.ran = @ \cup {t}]
           failed == [started EXCEPT !.tries[t] = @ + 1]
       IN \/ Step(r, [started EXCEPT !.done = @ \cup {t}])
          \/ Step(r, failed)
          \/ failed.tries[t] = Attempts /\ Step(r, [failed EXCEPT !.silent = @ \cup {t}])
    /\ UNCHANGED <<continues, saved, turns, approvals, disturbed, faults>>

(* gather has all results. *)
ToolsDone(r) ==
    /\ runs[r].at = "tools"
    /\ Pending(r) = {}
    /\ Step(r, [runs[r] EXCEPT !.at = AfterTools(runs[r])])
    /\ Save(runs[r], FALSE)
    /\ UNCHANGED <<continues, turns, approvals, disturbed, faults>>

(* Faulty: nothing ends the chain. *)
AskModelOn(r) ==
    /\ runs[r].at = "llm"
    /\ LET run == [runs[r] EXCEPT !.asked = @ + 1]
           answered == [run EXCEPT !.answers = @ + 1, !.answer = "model"]
       IN \/ Step(r, [answered EXCEPT !.at = AfterLlm(answered)]) /\ Save(answered, FALSE)
          \/ Step(r, run) /\ UNCHANGED saved
    /\ UNCHANGED <<continues, turns, approvals, disturbed, faults>>

(* llm asks the active model, then the fallbacks in order: an answer, or   *)
(* nothing (an exception, a time-out, an empty text).                      *)
AskModel(r) ==
    /\ runs[r].at = "llm"
    /\ LET run == [runs[r] EXCEPT !.asked = @ + 1]
           answered == [run EXCEPT !.answers = @ + 1, !.answer = "model"]
           failed == [run EXCEPT !.error = "ALL_MODELS_FAILED"]
       IN \/ Step(r, [answered EXCEPT !.at = AfterLlm(answered)]) /\ Save(answered, FALSE)
          \/ /\ run.asked < Primary + Fallbacks
             /\ Step(r, run) /\ UNCHANGED saved
          \/ /\ run.asked = Primary + Fallbacks
             /\ Step(r, [failed EXCEPT !.at = AfterLlm(failed)]) /\ Save(failed, FALSE)
    /\ UNCHANGED <<continues, turns, approvals, disturbed, faults>>

Handle(r) ==
    /\ runs[r].at = "handler"
    /\ LET run == [runs[r] EXCEPT !.at = "ended", !.answers = @ + 1, !.error = "none",
                                  !.answer = Message(runs[r].error)]
       IN Step(r, run) /\ Save(run, FALSE)
    /\ UNCHANGED <<continues, turns, approvals, disturbed, faults>>

-----------------------------------------------------------------------------
(* Runs break off.                                                         *)

Break(lost) ==
    /\ faults < MaxFaults
    /\ faults' = faults + 1
    /\ runs' = [r \in Runs |-> IF r \in lost THEN Rest([runs[r] EXCEPT !.at = "off"]) ELSE runs[r]]
    /\ disturbed' = disturbed \cup ({runs[r].stored : r \in lost} \ {0})
    /\ UNCHANGED <<continues, saved, turns, approvals>>

(* The client closes its stream: the task of the run is cancelled. *)
Disconnect(r) == Active(r) /\ runs[r].approval = 0 /\ Break({r})

Crash == (\E r \in Runs : Active(r)) /\ Break({r \in Runs : Active(r)})

-----------------------------------------------------------------------------

Work(r) ==
    \/ ReadStream(r) \/ Load(r)
    \/ (\E calls \in SUBSET Tools : Route(r, calls)) \/ RouterFails(r)
    \/ (\E a \in Approvals : StoreApproval(r, a)) \/ StoreFails(r) \/ Suspend(r)
    \/ (\E t \in Tools : Execute(r, t)) \/ ToolsDone(r)
    \/ AskModel(r) \/ Handle(r)

Next ==
    \/ \E r \in Runs, turn \in 1..MaxTurns : StartTurn(r, turn)
    \/ \E r \in Runs, a \in Approvals, decision \in Decisions : Decide(r, a, decision)
    \/ \E r \in Runs : Work(r) \/ Disconnect(r)
    \/ Crash

Spec == Init /\ [][Next]_vars /\ \A r \in Runs : WF_vars(Work(r))

-----------------------------------------------------------------------------
TypeOK ==
    /\ continues \in BOOLEAN
    /\ saved \in [suspended : BOOLEAN, turn : 0..MaxTurns, calls : SUBSET Tools, error : Errors]
    /\ turns \in 0..MaxTurns
    /\ approvals \in [Approvals -> [turn : 0..MaxTurns, calls : SUBSET Tools,
                                    verdict : Decisions \cup {"none"}]]
    /\ runs \in [Runs -> [at : Places \cup Over, approval : 0..MaxApprovals,
                          decision : Decisions \cup {"none"}, turn : 0..MaxTurns,
                          stream : 0..MaxTurns, calls : SUBSET Tools, error : Errors,
                          stored : 0..MaxApprovals, tries : [Tools -> 0..Attempts],
                          done : SUBSET Tools, silent : SUBSET Tools, asked : 0..(Primary + Fallbacks),
                          ran : SUBSET Tools, answers : 0..2, answer : Answers]]
    /\ disturbed \subseteq Approvals
    /\ faults \in 0..MaxFaults

(* A sensitive tool runs only for a decision to approve, and, if nothing   *)
(* else ran on the thread meanwhile, only if the approval was stored for   *)
(* it (route_after_router, route_after_hitl).                              *)
SensitiveNeedsApproval ==
    \A r \in Runs :
        runs[r].ran \cap Sensitive # {} =>
            /\ runs[r].decision = "approve"
            /\ runs[r].approval \in disturbed \/ runs[r].ran \subseteq approvals[runs[r].approval].calls

(* A graph that goes on behind the gate does what was decided: approved,   *)
(* it runs every call the approval was stored for; denied, or timed out in *)
(* the user's own words, none; and it writes to the stream the user is     *)
(* reading (_resume_graph).                                                *)
DecisionIsCarriedOut ==
    \A r \in Runs :
        LET a == runs[r].approval
        IN (continues /\ runs[r].at = "ended" /\ a # 0 /\ a \notin disturbed) =>
               /\ runs[r].ran = IF runs[r].decision = "approve" THEN approvals[a].calls ELSE {}
               /\ runs[r].stream = approvals[a].turn

(* While an approval waits and nothing else touches the thread, the        *)
(* checkpoint is the one to resume it from (interrupt_after).              *)
SuspendedIsResumable ==
    \A a \in Open \ disturbed :
        (\A r \in Runs : ~Active(r)) =>
            /\ saved.suspended
            /\ saved.calls = approvals[a].calls /\ saved.turn = approvals[a].turn

(* A run that comes to its end has added exactly one message, the model's  *)
(* or an apology, and left no error behind; two only if it took over the   *)
(* error of another run (route_after_llm, error_handler_node).             *)
AnsweredOnce ==
    \A r \in Runs :
        runs[r].at = "ended" =>
            /\ runs[r].error = "none"
            /\ runs[r].answers = 1 \/ (runs[r].approval \in disturbed /\ runs[r].answers = 2)

(* However tools, models and the database fail, every run comes to an end, *)
(* so that again and again none is left (the bounded retries of            *)
(* tool_executor_node and llm_node).                                       *)
RunsEnd == []<>(\A r \in Runs : ~Active(r))

(* When every tool of a batch failed, the error handler says so, and no    *)
(* model makes up an answer (route_after_tools).  It is not so: a time-out *)
(* leaves an empty error, which the edge takes for none.                   *)
FailedToolsAreHandled ==
    \A r \in Runs : runs[r].at = "llm" /\ runs[r].calls # {} => runs[r].done # {}

(* A user who denies is told that the request was cancelled (FR-10).  It   *)
(* is not so: HITL_DENIED is an error nobody sets.                         *)
DenialIsConfirmed ==
    \A r \in Runs :
        (/\ continues /\ runs[r].at = "ended" /\ runs[r].decision = "deny"
         /\ runs[r].approval \notin disturbed) => runs[r].answer = "cancelled"

=============================================================================
