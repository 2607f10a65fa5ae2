-------------------------- MODULE AgentGraphProofs --------------------------
(***************************************************************************)
(* Proofs about AgentGraph for every set of tools, every number of         *)
(* attempts and fallbacks, and all bounds.                                 *)
(*                                                                         *)
(* Two things make the properties inductive.  RecordOK describes one run   *)
(* by the place it is at: what it has executed and asked by then, which    *)
(* decision it carries out, that it brings no error with it.  Undisturbed  *)
(* relates the checkpoint to the runs: an approval nothing disturbed       *)
(* belongs to the one run about to suspend, then to the checkpoint, then   *)
(* to the one run that loads it.  A step of another run disturbs it.       *)
(***************************************************************************)
EXTENDS AgentGraph, TLAPS

RunType ==
    [at : Places \cup Over, approval : 0..MaxApprovals,
     decision : Decisions \cup {"none"}, turn : 0..MaxTurns,
     stream : 0..MaxTurns, calls : SUBSET Tools, error : Errors,
     stored : 0..MaxApprovals, tries : [Tools -> 0..Attempts],
     done : SUBSET Tools, silent : SUBSET Tools, asked : 0..(Primary + Fallbacks),
     ran : SUBSET Tools, answers : 0..2, answer : Answers]

(* The places before the first tool or model call. *)
Early == {"reading", "loading", "router", "gate", "suspending"}

(* What a run has done by the time it is at its place: nothing at first,   *)
(* calls it was given while it executes tools, models that are left.       *)
Progress(run) ==
    /\ run.at \in Early => run.ran = {}
    /\ run.at \in Early \cup {"tools"} =>
          /\ run.answers = 0 /\ run.asked = 0
          /\ run.ran \subseteq run.calls /\ run.done \subseteq run.ran
          /\ \A t \in Tools : run.tries[t] > 0 => t \in run.ran
    /\ run.at = "llm" => run.answers = 0 /\ run.asked < Primary + Fallbacks
    /\ run.at = "handler" => run.answers <= 1
    /\ run.stored # 0 => run.at = "suspending"

(* Runs for a message have no approval; a decision is about one that is    *)
(* stored.  The approvals, those of them that are disturbed, and whether   *)
(* runs go on behind the gate are parameters here and below: apps, dist    *)
(* and go.                                                                 *)
Origin(run, apps) ==
    /\ run.approval = 0 <=> run.decision = "none"
    /\ run.approval # 0 => apps[run.approval].turn # 0
    /\ run.at \in {"reading", "loading"} => run.approval # 0

(* A run whose approval nothing disturbed, or that has none, brings no     *)
(* error with it and answers once.                                         *)
CleanRun(run) ==
    /\ run.at \in {"router", "gate", "tools", "llm"} => run.error = "none"
    /\ run.at = "suspending" /\ run.stored # 0 => run.error = "none"
    /\ run.at = "handler" => run.answers = 0
    /\ run.at \in {"router", "gate", "suspending"} => run.turn = run.stream

(* Behind the gate it carries out the decision.                            *)
CarriesOut(run, apps) ==
    LET a == run.approval
    IN /\ run.at \notin {"router", "gate", "suspending"}
       /\ run.at \in {"tools", "llm", "handler", "ended"} => run.stream = apps[a].turn
       /\ run.at = "tools" => run.decision = "approve" /\ run.calls = apps[a].calls
       /\ run.at \in {"llm", "handler", "ended"} =>
             run.ran = IF run.decision = "approve" THEN apps[a].calls ELSE {}

(* What is executed contains a sensitive tool only for an approval.        *)
Licensed(run, tools, apps, dist) ==
    tools \cap Sensitive # {} =>
        /\ run.decision = "approve"
        /\ run.approval \in dist \/ tools \subseteq apps[run.approval].calls

(* A run that is over has answered once, or twice after a disturbance.     *)
Answered(run, dist) ==
    run.at = "ended" =>
        /\ run.error = "none"
        /\ run.answers = 1 \/ (run.approval \in dist /\ run.answers = 2)

RecordOK(run, go, apps, dist) ==
    /\ Progress(run) /\ Origin(run, apps)
    /\ run.approval \notin dist => CleanRun(run)
    /\ go /\ run.approval # 0 /\ run.approval \notin dist => CarriesOut(run, apps)
    /\ Licensed(run, run.ran, apps, dist)
    /\ run.at = "tools" => Licensed(run, run.calls, apps, dist)
    /\ Answered(run, dist)

RunsOK == \A r \in Runs : RecordOK(runs[r], continues, approvals, disturbed)

Alone(r) == \A q \in Runs \ {r} : ~Active(q)

(* The checkpoint is the one to resume a from. *)
Resumable(a) ==
    /\ saved.suspended /\ saved.error = "none"
    /\ saved.calls = approvals[a].calls /\ saved.turn = approvals[a].turn

(* Before its suspension is written, an undisturbed approval belongs to    *)
(* the one run there is; then to the checkpoint, until the one run of its  *)
(* decision has loaded it.                                                 *)
Suspending(r, a) ==
    /\ runs[r].at = "suspending" /\ runs[r].stored = a /\ Alone(r)
    /\ runs[r].error = "none"
    /\ runs[r].calls = approvals[a].calls /\ runs[r].turn = approvals[a].turn

Undisturbed ==
    /\ \A a \in Open \ disturbed :
          \/ \E r \in Runs : Suspending(r, a)
          \/ Resumable(a) /\ \A r \in Runs : ~Active(r)
    /\ \A r \in Runs :
          LET a == runs[r].approval
          IN runs[r].at \in {"reading", "loading"} /\ a \notin disturbed =>
                /\ Alone(r) /\ Resumable(a)
                /\ runs[r].at = "loading" => runs[r].stream = saved.turn

GraphInv == TypeOK /\ RunsOK /\ Undisturbed

-----------------------------------------------------------------------------
(* Records of runs. *)

LEMMA BoundsFacts ==
  /\ Sensitive \subseteq Tools
  /\ Attempts \in Nat /\ Attempts > 0 /\ Primary \in Nat /\ Primary > 0 /\ Fallbacks \in Nat
  /\ MaxTurns \in Nat /\ MaxApprovals \in Nat /\ MaxRuns \in Nat /\ MaxActive \in Nat
  /\ MaxFaults \in Nat
  BY GraphBounds

LEMMA NoRunType ==
  /\ NoRun \in RunType
  /\ [NoRun EXCEPT !.at = "off"] \in RunType /\ [NoRun EXCEPT !.at = "off"].at = "off"
  <1>1. /\ 0 \in 0..MaxApprovals /\ 0 \in 0..MaxTurns /\ 0 \in 0..(Primary + Fallbacks) /\ 0 \in 0..2
        /\ [t \in Tools |-> 0] \in [Tools -> 0..Attempts]
    BY BoundsFacts
  <1>2. {"unused", "off"} \subseteq Places \cup Over /\ "none" \in Errors /\ "none" \in Answers
    BY DEF Places, Over, Errors, Answers
  <1> DEFINE tries == [t \in Tools |-> 0]
             asked == 0..(Primary + Fallbacks)
  <1> HIDE DEF tries, asked
  <1>3. NoRun \in RunType
    BY <1>1, <1>2, Zenon DEF NoRun, RunType
  <1>4. QED
    BY <1>2, <1>3 DEF RunType

(* A run that is off has done nothing. *)
LEMMA NoRunOK ==
  ASSUME NEW go, NEW apps, NEW dist
  PROVE  /\ RecordOK(NoRun, go, apps, dist)
         /\ RecordOK([NoRun EXCEPT !.at = "off"], go, apps, dist)
  BY DEF RecordOK, NoRun, Progress, Origin, CleanRun, CarriesOut, Licensed, Answered, Early

LEMMA FieldTypes ==
  /\ "ended" \in Places \cup Over /\ {} \in SUBSET Tools
  /\ 0 \in 0..MaxTurns /\ 0 \in 0..(Primary + Fallbacks) /\ NoRun.tries \in [Tools -> 0..Attempts]
  BY BoundsFacts, NoRunType DEF Places, Over, RunType

LEMMA RestOfPlace ==
  ASSUME NEW run, run.at \in Places
  PROVE  Rest(run) = run
  BY DEF Rest

LEMMA RestOfOff ==
  ASSUME NEW run, run.at = "off"
  PROVE  Rest(run) = [NoRun EXCEPT !.at = "off"]
  BY DEF Rest, Places

LEMMA EndedType ==
  ASSUME NEW base \in RunType, NEW error \in Errors, NEW answers \in 0..2
  PROVE  [base EXCEPT !.at = "ended", !.error = error, !.answers = answers] \in RunType
  BY FieldTypes DEF RunType

LEMMA RestOfTurn ==
  ASSUME NEW run \in RunType, run.at = "ended", run.approval = 0
  PROVE  /\ Rest(run) \in RunType
         /\ Rest(run).at = "ended" /\ Rest(run).error = run.error /\ Rest(run).answers = run.answers
         /\ Rest(run).stored = 0 /\ Rest(run).approval = 0
         /\ Rest(run).ran = {} /\ Rest(run).decision = "none"
  <1> DEFINE over == [NoRun EXCEPT !.at = "ended", !.error = run.error, !.answers = run.answers]
  <1>1. Rest(run) = over
    BY DEF Rest, Places
  <1>2. over \in RunType
    <2>1. NoRun \in RunType
      BY NoRunType
    <2>2. "ended" \in Places \cup Over
      BY DEF Places, Over
    <2>3. run.error \in Errors /\ run.answers \in 0..2
      BY DEF RunType
    <2>4. QED
      BY <2>1, <2>2, <2>3, EndedType
  <1>3. /\ over.at = "ended" /\ over.error = run.error /\ over.answers = run.answers
        /\ over.stored = 0 /\ over.approval = 0 /\ over.ran = {} /\ over.decision = "none"
    BY DEF NoRun
  <1> HIDE DEF over
  <1>4. QED
    BY <1>1, <1>2, <1>3

LEMMA RestOfDecision ==
  ASSUME NEW run \in RunType, run.at = "ended", run.approval # 0
  PROVE  /\ Rest(run) \in RunType
         /\ Rest(run).at = "ended" /\ Rest(run).error = run.error /\ Rest(run).answers = run.answers
         /\ Rest(run).stored = run.stored /\ Rest(run).approval = run.approval
         /\ Rest(run).ran = run.ran /\ Rest(run).decision = run.decision
         /\ Rest(run).stream = run.stream
  <1> DEFINE over == [run EXCEPT !.turn = 0, !.calls = {}, !.tries = NoRun.tries, !.done = {},
                                 !.silent = {}, !.asked = 0]
  <1>1. Rest(run) = over
    BY DEF Rest, Places
  <1>2. over \in RunType
    BY FieldTypes DEF RunType
  <1>3. /\ over.at = "ended" /\ over.error = run.error /\ over.answers = run.answers
        /\ over.stored = run.stored /\ over.approval = run.approval
        /\ over.ran = run.ran /\ over.decision = run.decision /\ over.stream = run.stream
    BY DEF RunType
  <1> HIDE DEF over
  <1>4. QED
    BY <1>1, <1>2, <1>3

LEMMA RestType ==
  ASSUME NEW run \in RunType, run.at # "unused"
  PROVE  Rest(run) \in RunType /\ Rest(run).at = run.at
  <1>1. run.at \in Places \/ run.at = "off" \/ run.at = "ended"
    BY DEF RunType, Over
  <1>2. QED
    BY <1>1, RestOfPlace, RestOfOff, RestOfTurn, RestOfDecision, NoRunType

(* What holds of a run as it ends holds of what is kept of it. *)
LEMMA RestOK ==
  ASSUME NEW run \in RunType, run.at # "unused", NEW go, NEW apps, NEW dist,
         run.at # "off" => RecordOK(run, go, apps, dist)
  PROVE  RecordOK(Rest(run), go, apps, dist)
  <1>1. CASE run.at \in Places
    <2>1. Rest(run) = run /\ run.at # "off"
      BY <1>1, RestOfPlace DEF Places
    <2>2. QED
      BY <2>1
  <1>2. CASE run.at = "off"
    BY <1>2, RestOfOff, NoRunOK
  <1>3. CASE run.at = "ended"
    <2>1. RecordOK(run, go, apps, dist)
      BY <1>3
    <2>2. CASE run.approval = 0
      BY <1>3, <2>1, <2>2, RestOfTurn
         DEF RecordOK, Progress, Origin, CleanRun, CarriesOut, Licensed, Answered, Early
    <2>3. CASE run.approval # 0
      BY <1>3, <2>1, <2>3, RestOfDecision
         DEF RecordOK, Progress, Origin, CleanRun, CarriesOut, Licensed, Answered, Early
    <2>4. QED
      BY <2>2, <2>3
  <1>4. run.at \in Places \/ run.at = "off" \/ run.at = "ended"
    BY DEF RunType, Over
  <1>5. QED
    BY <1>1, <1>2, <1>3, <1>4

(* It keeps holding when approvals are added or disturbed. *)
LEMMA OKStays ==
  ASSUME NEW run \in RunType, NEW go, NEW apps, NEW dist, NEW apps2, NEW dist2,
         RecordOK(run, go, apps, dist), dist \subseteq dist2,
         \A a \in Approvals : apps[a].turn # 0 => /\ apps2[a].turn = apps[a].turn
                                                 /\ apps2[a].calls = apps[a].calls
  PROVE  RecordOK(run, go, apps2, dist2)
  <1>1. run.approval # 0 => run.approval \in Approvals
    BY BoundsFacts DEF RunType, Approvals
  <1>2. run.approval # 0 => /\ apps2[run.approval].turn = apps[run.approval].turn
                            /\ apps2[run.approval].calls = apps[run.approval].calls
    BY <1>1 DEF RecordOK, Origin
  <1>3. Origin(run, apps2)
    BY <1>2 DEF RecordOK, Origin
  <1>4. go /\ run.approval # 0 /\ run.approval \notin dist2 => CarriesOut(run, apps2)
    BY <1>2 DEF RecordOK, CarriesOut
  <1>5. ASSUME NEW tools, Licensed(run, tools, apps, dist) PROVE Licensed(run, tools, apps2, dist2)
    <2>1. run.decision = "approve" => run.approval # 0
      BY DEF RecordOK, Origin
    <2>2. QED
      BY <1>2, <1>5, <2>1 DEF Licensed
  <1>6. Answered(run, dist2)
    BY DEF RecordOK, Answered
  <1>7. QED
    BY <1>3, <1>4, <1>5, <1>6 DEF RecordOK

-----------------------------------------------------------------------------
(* Types and records after a step. *)

SavedType == [suspended : BOOLEAN, turn : 0..MaxTurns, calls : SUBSET Tools, error : Errors]
ApprovalType == [turn : 0..MaxTurns, calls : SUBSET Tools, verdict : Decisions \cup {"none"}]

LEMMA TypeParts ==
  TypeOK <=> /\ continues \in BOOLEAN /\ saved \in SavedType /\ turns \in 0..MaxTurns
             /\ approvals \in [Approvals -> ApprovalType] /\ runs \in [Runs -> RunType]
             /\ disturbed \subseteq Approvals /\ faults \in 0..MaxFaults
  BY DEF TypeOK, SavedType, ApprovalType, RunType

LEMMA NextType ==
  ASSUME continues' \in BOOLEAN, saved' \in SavedType, turns' \in 0..MaxTurns,
         approvals' \in [Approvals -> ApprovalType], runs' \in [Runs -> RunType],
         disturbed' \subseteq Approvals, faults' \in 0..MaxFaults
  PROVE  TypeOK'
  BY DEF TypeOK, SavedType, ApprovalType, RunType

LEMMA StepRun ==
  ASSUME TypeOK, NEW r \in Runs, NEW run \in RunType, run.at # "unused", Step(r, run)
  PROVE  /\ runs' \in [Runs -> RunType] /\ runs'[r] = Rest(run) /\ runs'[r].at = run.at
         /\ \A q \in Runs \ {r} : runs'[q] = runs[q]
  <1>1. Rest(run) \in RunType /\ Rest(run).at = run.at
    BY RestType
  <1>2. QED
    BY <1>1, TypeParts DEF Step

(* Approvals are added and decided, not changed, and disturbed for good. *)
ApprovalsGrow ==
    /\ continues' = continues /\ disturbed \subseteq disturbed'
    /\ \A a \in Approvals : approvals[a].turn # 0 => /\ approvals'[a].turn = approvals[a].turn
                                                     /\ approvals'[a].calls = approvals[a].calls

LEMMA StepOK ==
  ASSUME GraphInv, NEW r \in Runs, NEW run \in RunType, run.at # "unused", Step(r, run),
         ApprovalsGrow, run.at # "off" => RecordOK(run, continues, approvals', disturbed')
  PROVE  RunsOK'
  <1>1. /\ runs'[r] = Rest(run) /\ \A q \in Runs \ {r} : runs'[q] = runs[q] /\ runs[q] \in RunType
    BY StepRun, TypeParts DEF GraphInv
  <1>2. RecordOK(runs'[r], continues, approvals', disturbed')
    BY <1>1, RestOK
  <1>3. ASSUME NEW q \in Runs \ {r} PROVE RecordOK(runs'[q], continues, approvals', disturbed')
    <2>1. RecordOK(runs[q], continues, approvals, disturbed) /\ runs[q] \in RunType /\ runs'[q] = runs[q]
      BY <1>1 DEF GraphInv, RunsOK
    <2>2. QED
      BY <2>1, OKStays DEF ApprovalsGrow
  <1>4. continues' = continues
    BY DEF ApprovalsGrow
  <1>5. QED
    BY <1>2, <1>3, <1>4 DEF RunsOK

LEMMA SaveType ==
  ASSUME NEW run \in RunType, NEW suspended \in BOOLEAN, Save(run, suspended)
  PROVE  saved' \in SavedType
  BY DEF Save, SavedType, RunType

-----------------------------------------------------------------------------
(* The steps of a run, one after the other. *)

LEMMA StartTurnOK ==
  ASSUME GraphInv, NEW r \in Runs, NEW turn \in 1..MaxTurns, StartTurn(r, turn)
  PROVE  TypeOK' /\ RunsOK'
  <1> DEFINE run == [NoRun EXCEPT !.at = "router", !.turn = turn, !.stream = turn]
  <1>1. turn \in 0..MaxTurns /\ "router" \in Places \cup Over
    BY BoundsFacts DEF Places
  <1>2. run \in RunType
    BY <1>1, NoRunType DEF RunType
  <1>3. /\ run.at = "router" /\ run.turn = turn /\ run.stream = turn /\ run.approval = 0
        /\ run.decision = "none" /\ run.ran = {} /\ run.done = {} /\ run.answers = 0 /\ run.asked = 0
        /\ run.stored = 0 /\ run.error = "none" /\ \A t \in Tools : run.tries[t] = 0
    BY DEF NoRun
  <1>4. Step(r, run) /\ Save(run, FALSE) /\ turns' = turn
    BY DEF StartTurn
  <1> HIDE DEF run
  <1>5. \A apps, dist : RecordOK(run, continues, apps, dist)
    BY <1>3 DEF RecordOK, Progress, Origin, CleanRun, CarriesOut, Licensed, Answered, Early
  <1>6. ApprovalsGrow
    BY DEF StartTurn, ApprovalsGrow
  <1>7. RunsOK'
    BY <1>2, <1>3, <1>4, <1>5, <1>6, StepOK
  <1>8. runs' \in [Runs -> RunType] /\ saved' \in SavedType
    BY <1>2, <1>3, <1>4, StepRun, SaveType DEF GraphInv
  <1>9. disturbed' \subseteq Approvals
    <2>1. ASSUME NEW q \in Runs, runs[q].at \in {"reading", "loading"}
          PROVE  runs[q].approval \in Approvals
      <3>1. runs[q] \in RunType /\ RecordOK(runs[q], continues, approvals, disturbed)
        BY TypeParts DEF GraphInv, RunsOK
      <3>2. QED
        BY <2>1, <3>1, BoundsFacts DEF RunType, RecordOK, Origin, Approvals
    <2>2. QED
      BY <2>1, TypeParts DEF StartTurn, Waiting, Open, Stored, GraphInv
  <1>10. UNCHANGED <<continues, approvals, faults>>
    BY DEF StartTurn
  <1>11. QED
    BY <1>1, <1>4, <1>7, <1>8, <1>9, <1>10, TypeParts, NextType DEF GraphInv

(* Most steps change one run and perhaps the checkpoint. *)
Checkpointed == saved' = saved \/ \E run \in RunType, suspended \in BOOLEAN : Save(run, suspended)

LEMMA RunStepOK ==
  ASSUME GraphInv, NEW r \in Runs, NEW run \in RunType, run.at # "unused", Step(r, run),
         run.at # "off" => RecordOK(run, continues, approvals, disturbed),
         Checkpointed, UNCHANGED <<continues, turns, approvals, disturbed, faults>>
  PROVE  TypeOK' /\ RunsOK'
  <1>1. ApprovalsGrow
    BY DEF ApprovalsGrow
  <1>2. RunsOK'
    BY <1>1, StepOK
  <1>3. runs' \in [Runs -> RunType]
    BY StepRun DEF GraphInv
  <1>4. saved' \in SavedType
    BY SaveType, TypeParts DEF Checkpointed, GraphInv
  <1>5. QED
    BY <1>2, <1>3, <1>4, TypeParts, NextType DEF GraphInv

(* While a run is between its checkpoint and its end, no approval is both  *)
(* open and undisturbed, and no other run resumes an undisturbed one.      *)
LEMMA RunningDisturbs ==
  ASSUME GraphInv, NEW r \in Runs, Active(r), runs[r].at # "suspending"
  PROVE  /\ Open \subseteq disturbed
         /\ \A q \in Runs \ {r} : runs[q].at \in {"reading", "loading"} => runs[q].approval \in disturbed
  BY DEF GraphInv, Undisturbed, Suspending, Alone

LEMMA RunStepUndisturbed ==
  ASSUME GraphInv, NEW r \in Runs, Active(r), runs[r].at # "suspending",
         \A q \in Runs \ {r} : runs'[q] = runs[q], runs'[r].at \notin {"reading", "loading"},
         approvals' = approvals, disturbed' = disturbed
  PROVE  Undisturbed'
  <1>1. Open' = Open
    BY DEF Open, Stored
  <1>2. QED
    BY <1>1, RunningDisturbs DEF Undisturbed

(* Both together, for a run that works on. *)
LEMMA WorkStep ==
  ASSUME GraphInv, NEW r \in Runs, Active(r), runs[r].at # "suspending",
         NEW run \in RunType, run.at \notin {"unused", "reading", "loading"}, Step(r, run),
         run.at # "off" => RecordOK(run, continues, approvals, disturbed),
         Checkpointed, UNCHANGED <<continues, turns, approvals, disturbed, faults>>
  PROVE  GraphInv'
  <1>1. TypeOK' /\ RunsOK'
    BY RunStepOK
  <1>2. /\ \A q \in Runs \ {r} : runs'[q] = runs[q]
        /\ runs'[r].at \notin {"reading", "loading"}
    BY StepRun DEF GraphInv
  <1>3. Undisturbed'
    BY <1>2, RunStepUndisturbed
  <1>4. QED
    BY <1>1, <1>3 DEF GraphInv

LEMMA RouterFailsOK ==
  ASSUME GraphInv, NEW r \in Runs, RouterFails(r)
  PROVE  GraphInv'
  <1> DEFINE run == [runs[r] EXCEPT !.at = "off"]
  <1>1. runs[r] \in RunType /\ runs[r].at = "router"
    BY TypeParts DEF GraphInv, RouterFails
  <1>2. run \in RunType /\ run.at = "off"
    BY <1>1 DEF RunType, Over
  <1>3. Step(r, run) /\ Checkpointed /\ UNCHANGED <<continues, turns, approvals, disturbed, faults>>
    BY DEF RouterFails, Checkpointed
  <1> HIDE DEF run
  <1>4. QED
    BY <1>1, <1>2, <1>3, WorkStep DEF Active, Over

LEMMA HandleOK ==
  ASSUME GraphInv, NEW r \in Runs, Handle(r)
  PROVE  GraphInv'
  <1> DEFINE old == runs[r]
             run == [old EXCEPT !.at = "ended", !.answers = @ + 1, !.error = "none",
                                !.answer = Message(old.error)]
  <1>1. old \in RunType /\ old.at = "handler" /\ RecordOK(old, continues, approvals, disturbed)
    BY TypeParts DEF GraphInv, RunsOK, Handle
  <1>2. /\ old.answers \in 0..1 /\ old.answers + 1 \in 0..2
        /\ "none" \in Errors /\ "ended" \in Places \cup Over
    BY <1>1 DEF RunType, RecordOK, Progress, Errors, Over
  <1>3. Message(old.error) \in Answers
    BY <1>1 DEF RunType, Errors, Message, Answers
  <1>4. Step(r, run) /\ Save(run, FALSE) /\ UNCHANGED <<continues, turns, approvals, disturbed, faults>>
    BY DEF Handle
  <1> HIDE DEF old
  <1>5. run \in RunType
    BY <1>1, <1>2, <1>3 DEF RunType
  <1>6. /\ run.at = "ended" /\ run.error = "none" /\ run.answers = old.answers + 1
        /\ run.approval = old.approval /\ run.decision = old.decision /\ run.ran = old.ran
        /\ run.stream = old.stream /\ run.stored = old.stored
    BY <1>1 DEF RunType
  <1> HIDE DEF run
  <1>7. RecordOK(run, continues, approvals, disturbed)
    BY <1>1, <1>2, <1>6
       DEF RecordOK, Progress, Origin, CleanRun, CarriesOut, Licensed, Answered, Early
  <1>8. QED
    BY <1>1, <1>4, <1>5, <1>6, <1>7, WorkStep DEF Active, Over, Checkpointed, old

LEMMA RouteOK ==
  ASSUME GraphInv, NEW r \in Runs, NEW calls \in SUBSET Tools, Route(r, calls)
  PROVE  GraphInv'
  <1> DEFINE old == runs[r]
             given == [old EXCEPT !.calls = calls]
             run == [given EXCEPT !.at = AfterRouter(given)]
  <1>1. old \in RunType /\ old.at = "router" /\ RecordOK(old, continues, approvals, disturbed)
    BY TypeParts DEF GraphInv, RunsOK, Route
  <1>2. Step(r, run) /\ Save(given, FALSE) /\ UNCHANGED <<continues, turns, approvals, disturbed, faults>>
    BY DEF Route
  <1> HIDE DEF old
  <1>3. given \in RunType /\ given.calls = calls /\ given.error = old.error
    BY <1>1 DEF RunType
  <1>4. /\ AfterRouter(given) \in {"llm", "gate", "tools", "handler"}
        /\ AfterRouter(given) = "tools" => calls \cap Sensitive = {}
        /\ AfterRouter(given) = "handler" => old.error # "none"
        /\ AfterRouter(given) \in {"tools"} => old.error = "none"
    BY <1>3 DEF AfterRouter
  <1>5. AfterRouter(given) \in Places \cup Over
    BY <1>4 DEF Places
  <1>6. run \in RunType
    BY <1>3, <1>5 DEF RunType
  <1>7. /\ run.at = AfterRouter(given) /\ run.calls = calls /\ run.error = old.error
        /\ run.answers = old.answers /\ run.asked = old.asked /\ run.tries = old.tries
        /\ run.approval = old.approval /\ run.decision = old.decision /\ run.ran = old.ran
        /\ run.stream = old.stream /\ run.turn = old.turn /\ run.stored = old.stored
        /\ run.done = old.done
    BY <1>1 DEF RunType
  <1>8. Checkpointed
    BY <1>2, <1>3 DEF Checkpointed
  <1> HIDE DEF run, given
  <1>9. RecordOK(run, continues, approvals, disturbed)
    <2>1. Progress(run)
      BY <1>1, <1>4, <1>7, BoundsFacts DEF RecordOK, Progress, Early
    <2>2. Origin(run, approvals)
      BY <1>1, <1>4, <1>7 DEF RecordOK, Origin
    <2>3. run.approval \notin disturbed => CleanRun(run)
      BY <1>1, <1>4, <1>7 DEF RecordOK, CleanRun
    <2>4. ~(continues /\ run.approval # 0 /\ run.approval \notin disturbed)
      BY <1>1, <1>7 DEF RecordOK, CarriesOut
    <2>5. Licensed(run, run.ran, approvals, disturbed)
      BY <1>1, <1>7 DEF RecordOK, Licensed
    <2>6. run.at = "tools" => Licensed(run, run.calls, approvals, disturbed)
      BY <1>4, <1>7 DEF Licensed
    <2>7. Answered(run, disturbed)
      BY <1>4, <1>7 DEF Answered
    <2>8. QED
      BY <2>1, <2>2, <2>3, <2>4, <2>5, <2>6, <2>7 DEF RecordOK
  <1>10. QED
    BY <1>1, <1>2, <1>4, <1>6, <1>7, <1>8, <1>9, WorkStep DEF Active, Over, old

LEMMA StoreFailsOK ==
  ASSUME GraphInv, NEW r \in Runs, StoreFails(r)
  PROVE  GraphInv'
  <1> DEFINE old == runs[r]
             run == [old EXCEPT !.at = "suspending", !.error = "HITL_DB_ERROR"]
  <1>1. old \in RunType /\ old.at = "gate" /\ RecordOK(old, continues, approvals, disturbed)
    BY TypeParts DEF GraphInv, RunsOK, StoreFails
  <1>2. Step(r, run) /\ Checkpointed /\ UNCHANGED <<continues, turns, approvals, disturbed, faults>>
    BY DEF StoreFails, Checkpointed
  <1> HIDE DEF old
  <1>3. "suspending" \in Places \cup Over /\ "HITL_DB_ERROR" \in Errors
    BY DEF Places, Errors
  <1>4. run \in RunType
    BY <1>1, <1>3 DEF RunType
  <1>5. /\ run.at = "suspending" /\ run.calls = old.calls
        /\ run.answers = old.answers /\ run.asked = old.asked /\ run.tries = old.tries
        /\ run.approval = old.approval /\ run.decision = old.decision /\ run.ran = old.ran
        /\ run.stream = old.stream /\ run.turn = old.turn /\ run.stored = old.stored
        /\ run.done = old.done
    BY <1>1 DEF RunType
  <1> HIDE DEF run
  <1>6. RecordOK(run, continues, approvals, disturbed)
    BY <1>1, <1>5
       DEF RecordOK, Progress, Origin, CleanRun, CarriesOut, Licensed, Answered, Early
  <1>7. QED
    BY <1>1, <1>2, <1>4, <1>5, <1>6, WorkStep DEF Active, Over, old

LEMMA ExecuteOK ==
  ASSUME GraphInv, NEW r \in Runs, NEW t \in Tools, Execute(r, t)
  PROVE  GraphInv'
  <1> DEFINE old == runs[r]
             started == [old EXCEPT !.ran = @ \cup {t}]
             failed == [started EXCEPT !.tries[t] = @ + 1]
  <1>1. /\ old \in RunType /\ old.at = "tools" /\ RecordOK(old, continues, approvals, disturbed)
        /\ t \in old.calls /\ old.tries[t] < Attempts
    BY TypeParts DEF GraphInv, RunsOK, Execute, Pending
  <1>2. /\ \/ Step(r, [started EXCEPT !.done = @ \cup {t}])
           \/ Step(r, failed)
           \/ Step(r, [failed EXCEPT !.silent = @ \cup {t}])
        /\ Checkpointed /\ UNCHANGED <<continues, turns, approvals, disturbed, faults>>
    BY DEF Execute, Checkpointed
  <1> HIDE DEF old
  <1>3. old.tries \in [Tools -> 0..Attempts] /\ old.tries[t] + 1 \in 0..Attempts
    BY <1>1, BoundsFacts DEF RunType
  <1>4. started \in RunType
    BY <1>1 DEF RunType
  <1>5. [old.tries EXCEPT ![t] = @ + 1] \in [Tools -> 0..Attempts]
    BY <1>3
  <1>6. /\ started.at = "tools" /\ started.ran = old.ran \cup {t}
        /\ started.done = old.done /\ started.silent = old.silent /\ started.tries = old.tries
        /\ started.calls = old.calls /\ started.error = old.error
        /\ started.answers = old.answers /\ started.asked = old.asked
        /\ started.approval = old.approval /\ started.decision = old.decision
        /\ started.stream = old.stream /\ started.turn = old.turn /\ started.stored = old.stored
    BY <1>1 DEF RunType
  <1>7. failed = [started EXCEPT !.tries = [old.tries EXCEPT ![t] = @ + 1]]
    BY <1>6
  <1> HIDE DEF started
  <1>8. failed \in RunType /\ failed.tries = [old.tries EXCEPT ![t] = @ + 1] /\ failed.silent = old.silent
    BY <1>4, <1>5, <1>6, <1>7 DEF RunType
  <1>9. PICK run \in RunType :
          /\ Step(r, run)
          /\ run.at = "tools" /\ run.ran = old.ran \cup {t}
          /\ run.done \subseteq old.done \cup {t}
          /\ run.tries \in {old.tries, [old.tries EXCEPT ![t] = @ + 1]}
          /\ run.calls = old.calls /\ run.error = old.error
          /\ run.answers = old.answers /\ run.asked = old.asked
          /\ run.approval = old.approval /\ run.decision = old.decision
          /\ run.stream = old.stream /\ run.turn = old.turn /\ run.stored = old.stored
    <2>1. CASE Step(r, [started EXCEPT !.done = @ \cup {t}])
      <3> DEFINE run == [started EXCEPT !.done = @ \cup {t}]
      <3>1. run \in RunType
        BY <1>4 DEF RunType
      <3>2. /\ run.at = started.at /\ run.ran = started.ran
            /\ run.done = started.done \cup {t} /\ run.tries = started.tries
            /\ run.calls = started.calls /\ run.error = started.error
            /\ run.answers = started.answers /\ run.asked = started.asked
            /\ run.approval = started.approval /\ run.decision = started.decision
            /\ run.stream = started.stream /\ run.turn = started.turn
            /\ run.stored = started.stored
        BY <1>4 DEF RunType
      <3> HIDE DEF run
      <3>3. Step(r, run)
        BY <2>1 DEF run
      <3>4. QED
        BY <3>1, <3>2, <3>3, <1>6
    <2>2. CASE Step(r, failed)
      <3>1. /\ failed.at = started.at /\ failed.ran = started.ran /\ failed.done = started.done
            /\ failed.calls = started.calls /\ failed.error = started.error
            /\ failed.answers = started.answers /\ failed.asked = started.asked
            /\ failed.approval = started.approval /\ failed.decision = started.decision
            /\ failed.stream = started.stream /\ failed.turn = started.turn
            /\ failed.stored = started.stored
        BY <1>4, <1>7 DEF RunType
      <3> HIDE DEF failed
      <3>2. QED
        BY <2>2, <3>1, <1>6, <1>8
    <2>3. CASE Step(r, [failed EXCEPT !.silent = @ \cup {t}])
      <3>1. /\ failed.at = started.at /\ failed.ran = started.ran /\ failed.done = started.done
            /\ failed.calls = started.calls /\ failed.error = started.error
            /\ failed.answers = started.answers /\ failed.asked = started.asked
            /\ failed.approval = started.approval /\ failed.decision = started.decision
            /\ failed.stream = started.stream /\ failed.turn = started.turn
            /\ failed.stored = started.stored
        BY <1>4, <1>7 DEF RunType
      <3> DEFINE run == [failed EXCEPT !.silent = @ \cup {t}]
      <3> HIDE DEF failed
      <3>2. run \in RunType
        BY <1>8 DEF RunType
      <3>3. /\ run.at = failed.at /\ run.ran = failed.ran /\ run.done = failed.done
            /\ run.tries = failed.tries /\ run.calls = failed.calls /\ run.error = failed.error
            /\ run.answers = failed.answers /\ run.asked = failed.asked
            /\ run.approval = failed.approval /\ run.decision = failed.decision
            /\ run.stream = failed.stream /\ run.turn = failed.turn /\ run.stored = failed.stored
        BY <1>8 DEF RunType
      <3> HIDE DEF run
      <3>4. Step(r, run)
        BY <2>3 DEF run
      <3>5. QED
        BY <3>1, <3>2, <3>3, <3>4, <1>6, <1>8
    <2>4. QED
      BY <1>2, <2>1, <2>2, <2>3
  <1> HIDE DEF failed
  <1>10. \A u \in Tools : run.tries[u] > 0 => u = t \/ old.tries[u] > 0
    BY <1>3, <1>9
  <1>11. RecordOK(run, continues, approvals, disturbed)
    <2>1. Progress(run)
      <3>1. run.done \subseteq run.ran /\ run.ran \subseteq run.calls
        BY <1>1, <1>9 DEF RecordOK, Progress
      <3>2. \A u \in Tools : run.tries[u] > 0 => u \in run.ran
        BY <1>1, <1>9, <1>10 DEF RecordOK, Progress
      <3>3. QED
        BY <1>1, <1>9, <3>1, <3>2 DEF RecordOK, Progress, Early
    <2>2. Origin(run, approvals)
      BY <1>1, <1>9 DEF RecordOK, Origin
    <2>3. run.approval \notin disturbed => CleanRun(run)
      BY <1>1, <1>9 DEF RecordOK, CleanRun
    <2>4. continues /\ run.approval # 0 /\ run.approval \notin disturbed => CarriesOut(run, approvals)
      BY <1>1, <1>9 DEF RecordOK, CarriesOut
    <2>5. Licensed(run, run.calls, approvals, disturbed)
      BY <1>1, <1>9 DEF RecordOK, Licensed
    <2>6. Licensed(run, run.ran, approvals, disturbed)
      BY <2>1, <2>5, <1>9 DEF Licensed, Progress
    <2>7. Answered(run, disturbed)
      BY <1>9 DEF Answered
    <2>8. QED
      BY <2>1, <2>2, <2>3, <2>4, <2>5, <2>6, <2>7 DEF RecordOK
  <1>12. QED
    BY <1>1, <1>2, <1>9, <1>11, WorkStep DEF Active, Over, old

LEMMA ToolsDoneOK ==
  ASSUME GraphInv, NEW r \in Runs, ToolsDone(r)
  PROVE  GraphInv'
  <1> DEFINE old == runs[r]
             run == [old EXCEPT !.at = AfterTools(old)]
  <1>1. /\ old \in RunType /\ old.at = "tools" /\ RecordOK(old, continues, approvals, disturbed)
        /\ \A t \in old.calls \ old.done : ~(old.tries[t] < Attempts)
    BY TypeParts DEF GraphInv, RunsOK, ToolsDone, Pending
  <1>2. Step(r, run) /\ Save(old, FALSE) /\ UNCHANGED <<continues, turns, approvals, disturbed, faults>>
    BY DEF ToolsDone
  <1> HIDE DEF old
  <1>3. Checkpointed
    BY <1>1, <1>2 DEF Checkpointed
  <1>4. /\ AfterTools(old) \in {"llm", "handler"} /\ AfterTools(old) \in Places \cup Over
        /\ AfterTools(old) = "llm" => old.error = "none"
    BY DEF AfterTools, Places
  <1>5. run \in RunType
    BY <1>1, <1>4 DEF RunType
  <1>6. /\ run.at = AfterTools(old) /\ run.error = old.error
        /\ run.answers = old.answers /\ run.asked = old.asked /\ run.tries = old.tries
        /\ run.approval = old.approval /\ run.decision = old.decision /\ run.ran = old.ran
        /\ run.stream = old.stream /\ run.stored = old.stored
    BY <1>1 DEF RunType
  <1>7. old.ran = old.calls
    <2>1. old.ran \subseteq old.calls /\ old.done \subseteq old.ran
          /\ \A t \in Tools : old.tries[t] > 0 => t \in old.ran
      BY <1>1 DEF RecordOK, Progress
    <2>2. \A t \in old.calls : t \in Tools /\ old.tries[t] \in Nat
      BY <1>1, BoundsFacts DEF RunType
    <2>3. \A t \in old.calls \ old.done : old.tries[t] > 0
      BY <1>1, <2>2, BoundsFacts
    <2>4. QED
      BY <2>1, <2>2, <2>3
  <1> HIDE DEF run
  <1>8. RecordOK(run, continues, approvals, disturbed)
    <2>1. Progress(run)
      BY <1>1, <1>4, <1>6, BoundsFacts DEF RecordOK, Progress, Early
    <2>2. Origin(run, approvals)
      BY <1>1, <1>4, <1>6 DEF RecordOK, Origin
    <2>3. run.approval \notin disturbed => CleanRun(run)
      BY <1>1, <1>4, <1>6 DEF RecordOK, CleanRun, Progress
    <2>4. continues /\ run.approval # 0 /\ run.approval \notin disturbed => CarriesOut(run, approvals)
      BY <1>1, <1>4, <1>6, <1>7 DEF RecordOK, CarriesOut
    <2>5. Licensed(run, run.ran, approvals, disturbed)
      BY <1>1, <1>6 DEF RecordOK, Licensed
    <2>6. Answered(run, disturbed) /\ run.at # "tools"
      BY <1>4, <1>6 DEF Answered
    <2>7. QED
      BY <2>1, <2>2, <2>3, <2>4, <2>5, <2>6 DEF RecordOK
  <1>9. QED
    BY <1>1, <1>2, <1>3, <1>4, <1>5, <1>6, <1>8, WorkStep DEF Active, Over, old

(* The three outcomes of asking a model as one: where the run goes, and    *)
(* what it has answered.                                                   *)
LEMMA AskModelOutcome ==
  ASSUME GraphInv, NEW r \in Runs, AskModel(r)
  PROVE  /\ Checkpointed
         /\ \E run \in RunType :
               /\ Step(r, run)
               /\ run.ran = runs[r].ran /\ run.approval = runs[r].approval
               /\ run.decision = runs[r].decision /\ run.stream = runs[r].stream
               /\ run.stored = runs[r].stored
               /\ \/ /\ run.at = AfterLlm(run) /\ run.error = runs[r].error
                     /\ run.answers = runs[r].answers + 1
                  \/ /\ run.at = "llm" /\ run.error = runs[r].error
                     /\ run.answers = runs[r].answers /\ run.asked < Primary + Fallbacks
                  \/ run.at = "handler" /\ run.answers = runs[r].answers
  <1> DEFINE old == runs[r]
             asked == [old EXCEPT !.asked = @ + 1]
             answered == [asked EXCEPT !.answers = @ + 1, !.answer = "model"]
             failed == [asked EXCEPT !.error = "ALL_MODELS_FAILED"]
  <1>1. old \in RunType /\ old.at = "llm" /\ RecordOK(old, continues, approvals, disturbed)
    BY TypeParts DEF GraphInv, RunsOK, AskModel
  <1>2. \/ Step(r, [answered EXCEPT !.at = AfterLlm(answered)]) /\ Save(answered, FALSE)
        \/ asked.asked < Primary + Fallbacks /\ Step(r, asked) /\ UNCHANGED saved
        \/ Step(r, [failed EXCEPT !.at = AfterLlm(failed)]) /\ Save(failed, FALSE)
    BY DEF AskModel
  <1> HIDE DEF old
  <1>3. old.asked + 1 \in 0..(Primary + Fallbacks) /\ old.answers = 0 /\ old.answers + 1 \in 0..2
    BY <1>1, BoundsFacts DEF RecordOK, Progress, RunType
  <1>4. /\ asked \in RunType /\ asked.at = "llm" /\ asked.asked = old.asked + 1
        /\ asked.error = old.error /\ asked.answers = old.answers
        /\ asked.ran = old.ran /\ asked.approval = old.approval /\ asked.decision = old.decision
        /\ asked.stream = old.stream /\ asked.stored = old.stored
    <2>1. asked \in RunType
      BY <1>1, <1>3 DEF RunType
    <2>2. QED
      BY <1>1, <2>1 DEF RunType
  <1> HIDE DEF asked
  <1>5. /\ "model" \in Answers /\ "ALL_MODELS_FAILED" \in Errors
        /\ \A run : AfterLlm(run) \in {"handler", "ended"} /\ AfterLlm(run) \in Places \cup Over
    BY DEF Answers, Errors, AfterLlm, Places, Over
  <1>6. /\ answered \in RunType /\ answered.error = old.error /\ answered.answers = old.answers + 1
        /\ answered.ran = old.ran /\ answered.approval = old.approval
        /\ answered.decision = old.decision /\ answered.stream = old.stream
        /\ answered.stored = old.stored
    <2>1. asked \in RunType /\ asked.answers + 1 \in 0..2 /\ "model" \in Answers
      BY <1>3, <1>4, <1>5
    <2>2. answered \in RunType
      BY <2>1 DEF RunType
    <2>3. QED
      BY <1>4, <2>2 DEF RunType
  <1>7. /\ failed \in RunType /\ failed.error = "ALL_MODELS_FAILED" /\ failed.answers = old.answers
        /\ failed.ran = old.ran /\ failed.approval = old.approval
        /\ failed.decision = old.decision /\ failed.stream = old.stream
        /\ failed.stored = old.stored
    <2>1. failed \in RunType
      BY <1>4, <1>5 DEF RunType
    <2>2. QED
      BY <1>4, <2>1 DEF RunType
  <1>8. Checkpointed
    BY <1>2, <1>6, <1>7 DEF Checkpointed
  <1>9. ASSUME NEW from \in RunType
        PROVE  LET run == [from EXCEPT !.at = AfterLlm(from)]
               IN /\ run \in RunType /\ run.at = AfterLlm(from) /\ AfterLlm(run) = AfterLlm(from)
                  /\ run.error = from.error /\ run.answers = from.answers /\ run.ran = from.ran
                  /\ run.approval = from.approval /\ run.decision = from.decision
                  /\ run.stream = from.stream /\ run.stored = from.stored
    <2> DEFINE to == AfterLlm(from)
               run == [from EXCEPT !.at = to]
    <2>1. to \in Places \cup Over
      BY <1>5
    <2>2. to = AfterLlm(from)
      OBVIOUS
    <2> HIDE DEF to
    <2>3. run \in RunType /\ run.at = to /\ run.error = from.error
      BY <2>1 DEF RunType
    <2>4. AfterLlm(run) = AfterLlm(from)
      BY <2>3 DEF AfterLlm
    <2>5. /\ run.answers = from.answers /\ run.ran = from.ran
          /\ run.approval = from.approval /\ run.decision = from.decision
          /\ run.stream = from.stream /\ run.stored = from.stored
      BY DEF RunType
    <2>6. QED
      BY <2>2, <2>3, <2>4, <2>5
  <1> DEFINE Outcome(run) ==
        /\ Step(r, run)
        /\ run.ran = old.ran /\ run.approval = old.approval
        /\ run.decision = old.decision /\ run.stream = old.stream
        /\ run.stored = old.stored
        /\ \/ /\ run.at = AfterLlm(run) /\ run.error = old.error
              /\ run.answers = old.answers + 1
           \/ /\ run.at = "llm" /\ run.error = old.error
              /\ run.answers = old.answers /\ run.asked < Primary + Fallbacks
           \/ run.at = "handler" /\ run.answers = old.answers
  <1>10. ASSUME Step(r, [answered EXCEPT !.at = AfterLlm(answered)])
         PROVE  \E run \in RunType : Outcome(run)
    <2> DEFINE run == [answered EXCEPT !.at = AfterLlm(answered)]
    <2>1. /\ run \in RunType /\ run.at = AfterLlm(answered) /\ AfterLlm(run) = AfterLlm(answered)
          /\ run.error = answered.error /\ run.answers = answered.answers /\ run.ran = answered.ran
          /\ run.approval = answered.approval /\ run.decision = answered.decision
          /\ run.stream = answered.stream /\ run.stored = answered.stored
      BY <1>6, <1>9
    <2>2. Step(r, run)
      BY <1>10
    <2> HIDE DEF run, answered
    <2>3. Outcome(run)
      BY <1>6, <2>1, <2>2
    <2>4. QED
      BY <2>1, <2>3
  <1>11. ASSUME asked.asked < Primary + Fallbacks, Step(r, asked)
         PROVE  \E run \in RunType : Outcome(run)
    BY <1>4, <1>11
  <1>12. ASSUME Step(r, [failed EXCEPT !.at = AfterLlm(failed)])
         PROVE  \E run \in RunType : Outcome(run)
    <2> DEFINE run == [failed EXCEPT !.at = AfterLlm(failed)]
    <2>1. /\ run \in RunType /\ run.at = AfterLlm(failed)
          /\ run.error = failed.error /\ run.answers = failed.answers /\ run.ran = failed.ran
          /\ run.approval = failed.approval /\ run.decision = failed.decision
          /\ run.stream = failed.stream /\ run.stored = failed.stored
      BY <1>7, <1>9
    <2>2. Step(r, run)
      BY <1>12
    <2> HIDE DEF run, failed
    <2>3. AfterLlm(failed) = "handler"
      BY <1>7 DEF AfterLlm
    <2>4. Outcome(run)
      BY <1>7, <2>1, <2>2, <2>3
    <2>5. QED
      BY <2>1, <2>4
  <1>13. \E run \in RunType : Outcome(run)
    BY <1>2, <1>10, <1>11, <1>12
  <1>14. QED
    BY <1>8, <1>13 DEF old

LEMMA AskModelOK ==
  ASSUME GraphInv, NEW r \in Runs, AskModel(r)
  PROVE  GraphInv'
  <1> DEFINE old == runs[r]
  <1>1. old \in RunType /\ old.at = "llm" /\ RecordOK(old, continues, approvals, disturbed)
    BY TypeParts DEF GraphInv, RunsOK, AskModel
  <1>2. Checkpointed /\ UNCHANGED <<continues, turns, approvals, disturbed, faults>>
    BY AskModelOutcome DEF AskModel
  <1>3. PICK run \in RunType :
          /\ Step(r, run)
          /\ run.ran = old.ran /\ run.approval = old.approval
          /\ run.decision = old.decision /\ run.stream = old.stream
          /\ run.stored = old.stored
          /\ \/ /\ run.at = AfterLlm(run) /\ run.error = old.error
                /\ run.answers = old.answers + 1
             \/ /\ run.at = "llm" /\ run.error = old.error
                /\ run.answers = old.answers /\ run.asked < Primary + Fallbacks
             \/ run.at = "handler" /\ run.answers = old.answers
    BY AskModelOutcome
  <1> HIDE DEF old
  <1>4. run.at \in {"llm", "handler", "ended"}
    BY <1>3 DEF AfterLlm
  <1>5. RecordOK(run, continues, approvals, disturbed)
    <2>0. old.answers = 0 /\ old.stored = 0
      BY <1>1 DEF RecordOK, Progress
    <2>1. Progress(run)
      BY <1>3, <1>4, <2>0 DEF Progress, Early, AfterLlm
    <2>2. Origin(run, approvals)
      BY <1>1, <1>3, <1>4 DEF RecordOK, Origin
    <2>3. run.approval \notin disturbed => CleanRun(run)
      BY <1>1, <1>3, <1>4 DEF RecordOK, CleanRun, AfterLlm, Progress
    <2>4. continues /\ run.approval # 0 /\ run.approval \notin disturbed => CarriesOut(run, approvals)
      BY <1>1, <1>3, <1>4 DEF RecordOK, CarriesOut
    <2>5. Licensed(run, run.ran, approvals, disturbed)
      BY <1>1, <1>3 DEF RecordOK, Licensed
    <2>6. Answered(run, disturbed)
      BY <1>1, <1>3 DEF RecordOK, Answered, AfterLlm, Progress
    <2>7. QED
      BY <1>4, <2>1, <2>2, <2>3, <2>4, <2>5, <2>6 DEF RecordOK
  <1>6. QED
    BY <1>1, <1>2, <1>3, <1>4, <1>5, WorkStep DEF Active, Over, old

LEMMA LoadOK ==
  ASSUME GraphInv, NEW r \in Runs, Load(r)
  PROVE  GraphInv'
  <1> DEFINE old == runs[r]
             to == IF continues /\ saved.suspended THEN AfterHitl(old.decision) ELSE "router"
             run == [old EXCEPT !.turn = saved.turn, !.calls = saved.calls, !.error = saved.error,
                                !.at = to]
  <1>1. /\ old \in RunType /\ old.at = "loading" /\ RecordOK(old, continues, approvals, disturbed)
        /\ saved \in SavedType
    BY TypeParts DEF GraphInv, RunsOK, Load
  <1>2. Step(r, run) /\ Save(run, FALSE) /\ UNCHANGED <<continues, turns, approvals, disturbed, faults>>
    BY DEF Load
  <1>3. old.approval \notin disturbed => Resumable(old.approval) /\ old.stream = saved.turn
    BY <1>1 DEF GraphInv, Undisturbed
  <1> HIDE DEF old
  <1>4. /\ to \in {"router", "tools", "handler"} /\ to \in Places \cup Over
        /\ to = "tools" => old.decision = "approve"
        /\ to = "handler" => old.decision # "approve"
        /\ continues /\ saved.suspended => to # "router"
    BY DEF AfterHitl, Places
  <1> HIDE DEF to
  <1>5. run \in RunType
    BY <1>1, <1>4 DEF RunType, SavedType
  <1>6. /\ run.at = to /\ run.turn = saved.turn /\ run.calls = saved.calls /\ run.error = saved.error
        /\ run.answers = old.answers /\ run.asked = old.asked /\ run.tries = old.tries
        /\ run.approval = old.approval /\ run.decision = old.decision /\ run.ran = old.ran
        /\ run.stream = old.stream /\ run.stored = old.stored /\ run.done = old.done
    BY <1>1 DEF RunType
  <1>7. Checkpointed
    BY <1>2, <1>5 DEF Checkpointed
  <1> HIDE DEF run
  <1>8. old.ran = {} /\ old.stored = 0 /\ old.answers = 0 /\ old.asked = 0 /\ old.done = {}
    BY <1>1 DEF RecordOK, Progress, Early
  <1>9. RecordOK(run, continues, approvals, disturbed)
    <2>1. Progress(run)
      BY <1>1, <1>4, <1>6, <1>8 DEF RecordOK, Progress, Early
    <2>2. Origin(run, approvals)
      BY <1>1, <1>4, <1>6 DEF RecordOK, Origin
    <2>3. run.approval \notin disturbed => CleanRun(run)
      BY <1>3, <1>4, <1>6, <1>8 DEF CleanRun, Resumable
    <2>4. continues /\ run.approval # 0 /\ run.approval \notin disturbed => CarriesOut(run, approvals)
      BY <1>3, <1>4, <1>6, <1>8 DEF CarriesOut, Resumable
    <2>5. Licensed(run, run.ran, approvals, disturbed)
      BY <1>6, <1>8 DEF Licensed
    <2>6. run.at = "tools" => Licensed(run, run.calls, approvals, disturbed)
      BY <1>3, <1>4, <1>6 DEF Licensed, Resumable
    <2>7. Answered(run, disturbed)
      BY <1>4, <1>6 DEF Answered
    <2>8. QED
      BY <2>1, <2>2, <2>3, <2>4, <2>5, <2>6, <2>7 DEF RecordOK
  <1>10. QED
    BY <1>1, <1>2, <1>4, <1>5, <1>6, <1>7, <1>9, WorkStep DEF Active, Over, old

LEMMA ReadStreamOK ==
  ASSUME GraphInv, NEW r \in Runs, ReadStream(r)
  PROVE  GraphInv'
  <1> DEFINE old == runs[r]
             run == [old EXCEPT !.at = "loading", !.stream = saved.turn]
  <1>1. /\ old \in RunType /\ old.at = "reading" /\ RecordOK(old, continues, approvals, disturbed)
        /\ saved.turn \in 0..MaxTurns
    BY TypeParts DEF GraphInv, RunsOK, ReadStream, SavedType
  <1>2. Step(r, run) /\ UNCHANGED <<continues, saved, turns, approvals, disturbed, faults>>
    BY DEF ReadStream
  <1> HIDE DEF old
  <1>3. "loading" \in Places \cup Over
    BY DEF Places
  <1>4. run \in RunType
    BY <1>1, <1>3 DEF RunType
  <1>5. /\ run.at = "loading" /\ run.stream = saved.turn /\ run.calls = old.calls
        /\ run.answers = old.answers /\ run.asked = old.asked /\ run.tries = old.tries
        /\ run.approval = old.approval /\ run.decision = old.decision /\ run.ran = old.ran
        /\ run.stored = old.stored /\ run.done = old.done
    BY <1>1 DEF RunType
  <1> HIDE DEF run
  <1>6. RecordOK(run, continues, approvals, disturbed)
    BY <1>1, <1>5
       DEF RecordOK, Progress, Origin, CleanRun, CarriesOut, Licensed, Answered, Early
  <1>7. TypeOK' /\ RunsOK'
    BY <1>2, <1>4, <1>5, <1>6, RunStepOK DEF Checkpointed
  <1>8. /\ runs'[r] = run /\ \A q \in Runs \ {r} : runs'[q] = runs[q]
    BY <1>2, <1>4, <1>5, StepRun, RestOfPlace DEF GraphInv, Places
  <1>9. Undisturbed'
    <2>1. Open \subseteq disturbed
          /\ \A q \in Runs \ {r} : runs[q].at \in {"reading", "loading"} => runs[q].approval \in disturbed
      BY <1>1, RunningDisturbs DEF Active, Over, old
    <2>2. Open' = Open
      BY <1>2 DEF Open, Stored
    <2>3. old.approval \notin disturbed => Alone(r) /\ Resumable(old.approval)
      BY <1>1 DEF GraphInv, Undisturbed, old
    <2>4. Alone(r) => Alone(r)'
      BY <1>8 DEF Alone, Active
    <2>5. ASSUME NEW q \in Runs, NEW a, a = runs'[q].approval,
                 runs'[q].at \in {"reading", "loading"}, a \notin disturbed'
          PROVE  Alone(q)' /\ Resumable(a)' /\ runs'[q].stream = saved'.turn
      <3>1. q = r
        BY <1>2, <1>8, <2>1, <2>5
      <3>2. a = old.approval /\ a \notin disturbed /\ runs'[q].stream = saved'.turn
        BY <1>2, <1>5, <1>8, <2>5, <3>1
      <3>3. Resumable(a)'
        BY <1>2, <2>3, <3>2 DEF Resumable
      <3>4. QED
        BY <2>3, <2>4, <3>1, <3>2, <3>3
    <2>6. QED
      BY <1>2, <2>1, <2>2, <2>5 DEF Undisturbed
  <1>10. QED
    BY <1>7, <1>9 DEF GraphInv

LEMMA SuspendOK ==
  ASSUME GraphInv, NEW r \in Runs, Suspend(r)
  PROVE  GraphInv'
  <1> DEFINE old == runs[r]
             run == [old EXCEPT !.at = "off"]
  <1>1. old \in RunType /\ old.at = "suspending" /\ RecordOK(old, continues, approvals, disturbed)
    BY TypeParts DEF GraphInv, RunsOK, Suspend
  <1>2. Step(r, run) /\ Save(old, TRUE) /\ UNCHANGED <<continues, turns, approvals, disturbed, faults>>
    BY DEF Suspend
  <1> HIDE DEF old
  <1>3. run \in RunType /\ run.at = "off"
    BY <1>1 DEF RunType, Over
  <1>4. Checkpointed
    BY <1>1, <1>2 DEF Checkpointed
  <1> HIDE DEF run
  <1>5. TypeOK' /\ RunsOK'
    BY <1>2, <1>3, <1>4, RunStepOK
  <1>6. runs'[r].at = "off" /\ \A q \in Runs \ {r} : runs'[q] = runs[q]
    BY <1>2, <1>3, StepRun DEF GraphInv
  <1>7. Undisturbed'
    <2>1. ASSUME NEW a \in Open \ disturbed
          PROVE  Resumable(a)' /\ \A q \in Runs : ~Active(q)'
      <3>1. \E q \in Runs : Suspending(q, a)
        BY <1>1, <2>1 DEF GraphInv, Undisturbed, Active, Over, old
      <3>2. Suspending(r, a)
        BY <1>1, <3>1 DEF Suspending, Alone, Active, Over, old
      <3>3. Resumable(a)'
        BY <1>2, <3>2 DEF Resumable, Suspending, Save, old
      <3>4. \A q \in Runs : ~Active(q)'
        BY <1>6, <3>2 DEF Suspending, Alone, Active, Over
      <3>5. QED
        BY <3>3, <3>4
    <2>2. Open' = Open /\ disturbed' = disturbed
      BY <1>2 DEF Open, Stored
    <2>3. ASSUME NEW q \in Runs, runs'[q].at \in {"reading", "loading"}
          PROVE  runs'[q].approval \in disturbed'
      <3>1. q # r /\ runs'[q] = runs[q]
        BY <1>6, <2>3
      <3>2. Active(r)
        BY <1>1 DEF Active, Over, old
      <3>3. QED
        BY <2>2, <2>3, <3>1, <3>2 DEF GraphInv, Undisturbed, Alone
    <2>4. QED
      BY <2>1, <2>2, <2>3 DEF Undisturbed
  <1>8. QED
    BY <1>5, <1>7 DEF GraphInv

LEMMA StoreApprovalOK ==
  ASSUME GraphInv, NEW r \in Runs, NEW a \in Approvals, StoreApproval(r, a)
  PROVE  GraphInv'
  <1> DEFINE old == runs[r]
             run == [old EXCEPT !.at = "suspending", !.stored = a]
             new == [turn |-> old.stream, calls |-> old.calls, verdict |-> "none"]
  <1>1. /\ old \in RunType /\ old.at = "gate" /\ RecordOK(old, continues, approvals, disturbed)
        /\ approvals[a].turn = 0
        /\ approvals \in [Approvals -> ApprovalType] /\ disturbed \subseteq Approvals
    BY TypeParts DEF GraphInv, RunsOK, StoreApproval, Stored
  <1>2. /\ Step(r, run) /\ UNCHANGED <<continues, saved, turns, faults>>
        /\ approvals' = [approvals EXCEPT ![a] = new]
        /\ disturbed' = IF old.approval \in disturbed \/ \E q \in Runs \ {r} : Active(q)
                        THEN disturbed \cup {a} ELSE disturbed
    BY DEF StoreApproval
  <1>3. Active(r) /\ runs[r].at # "suspending"
    BY <1>1 DEF Active, Over
  <1> HIDE DEF old
  <1>4. "suspending" \in Places \cup Over /\ a \in 0..MaxApprovals /\ a # 0
    BY BoundsFacts DEF Places, Approvals
  <1>5. run \in RunType
    BY <1>1, <1>4 DEF RunType
  <1>6. /\ run.at = "suspending" /\ run.calls = old.calls /\ run.error = old.error
        /\ run.answers = old.answers /\ run.asked = old.asked /\ run.tries = old.tries
        /\ run.approval = old.approval /\ run.decision = old.decision /\ run.ran = old.ran
        /\ run.stream = old.stream /\ run.turn = old.turn /\ run.stored = a
        /\ run.done = old.done
    BY <1>1 DEF RunType
  <1>7. new \in ApprovalType /\ new.turn = old.stream /\ new.calls = old.calls /\ new.verdict = "none"
    BY <1>1 DEF RunType, ApprovalType
  <1> HIDE DEF run, new
  <1>8. /\ approvals' \in [Approvals -> ApprovalType] /\ approvals'[a] = new
        /\ \A b \in Approvals \ {a} : approvals'[b] = approvals[b]
    BY <1>1, <1>2, <1>7
  <1>9. ApprovalsGrow
    BY <1>1, <1>2, <1>8 DEF ApprovalsGrow
  <1>10. RecordOK(run, continues, approvals', disturbed')
    <2>1. Progress(run)
      BY <1>1, <1>6 DEF RecordOK, Progress, Early
    <2>2. old.approval # 0 => old.approval \in Approvals \ {a}
      BY <1>1, BoundsFacts DEF RecordOK, Origin, RunType, Approvals
    <2>3. Origin(run, approvals')
      BY <1>1, <1>6, <1>8, <2>2 DEF RecordOK, Origin
    <2>4. run.approval \notin disturbed' => run.approval \notin disturbed
      BY <1>2
    <2>5. run.approval \notin disturbed' => CleanRun(run)
      BY <1>1, <1>6, <2>4 DEF RecordOK, CleanRun
    <2>6. ~(continues /\ run.approval # 0 /\ run.approval \notin disturbed')
      BY <1>1, <1>6, <2>4 DEF RecordOK, CarriesOut
    <2>7. Licensed(run, run.ran, approvals', disturbed')
      BY <1>1, <1>6 DEF RecordOK, Progress, Early, Licensed
    <2>8. Answered(run, disturbed')
      BY <1>6 DEF Answered
    <2>9. QED
      BY <1>6, <2>1, <2>3, <2>5, <2>6, <2>7, <2>8 DEF RecordOK
  <1>11. RunsOK'
    BY <1>2, <1>5, <1>6, <1>9, <1>10, StepOK
  <1>12. runs' \in [Runs -> RunType] /\ disturbed' \subseteq Approvals
    BY <1>1, <1>2, <1>5, <1>6, StepRun DEF GraphInv
  <1>13. TypeOK'
    BY <1>2, <1>8, <1>12, TypeParts, NextType DEF GraphInv
  <1>14. /\ runs'[r] = run /\ \A q \in Runs \ {r} : runs'[q] = runs[q]
    BY <1>2, <1>5, <1>6, StepRun, RestOfPlace DEF GraphInv, Places
  <1>15. /\ Open \subseteq disturbed
         /\ \A q \in Runs \ {r} : runs[q].at \in {"reading", "loading"} => runs[q].approval \in disturbed
    BY <1>3, RunningDisturbs
  <1>16. Undisturbed'
    <2>1. ASSUME NEW b \in Open' \ disturbed' PROVE Suspending(r, b)'
      <3>1. b = a
        BY <1>2, <1>8, <1>15 DEF Open, Stored
      <3>2. old.approval \notin disturbed /\ Alone(r)
        BY <1>2, <3>1 DEF Alone
      <3>3. old.error = "none" /\ old.turn = old.stream
        BY <1>1, <3>2 DEF RecordOK, CleanRun
      <3>4. Alone(r)'
        BY <1>14, <3>2 DEF Alone, Active
      <3>5. QED
        BY <1>6, <1>7, <1>8, <1>14, <3>1, <3>3, <3>4 DEF Suspending
    <2>2. ASSUME NEW q \in Runs, runs'[q].at \in {"reading", "loading"}
          PROVE  runs'[q].approval \in disturbed'
      BY <1>2, <1>6, <1>14, <1>15, <2>2
    <2>3. QED
      BY <2>1, <2>2 DEF Undisturbed
  <1>17. QED
    BY <1>11, <1>13, <1>16 DEF GraphInv

LEMMA StartTurnUndisturbed ==
  ASSUME GraphInv, NEW r \in Runs, NEW turn \in 1..MaxTurns, StartTurn(r, turn)
  PROVE  Undisturbed'
  <1>1. Open' = Open /\ Waiting \subseteq disturbed' /\ Open \subseteq Waiting
    BY DEF StartTurn, Open, Stored, Waiting
  <1>2. runs'[r].at = "router" /\ \A q \in Runs \ {r} : runs'[q] = runs[q]
    <2> DEFINE run == [NoRun EXCEPT !.at = "router", !.turn = turn, !.stream = turn]
    <2>1. runs' = [runs EXCEPT ![r] = Rest(run)]
      BY DEF StartTurn, Step
    <2>2. run.at = "router"
      BY DEF NoRun
    <2> HIDE DEF run
    <2>3. Rest(run) = run
      BY <2>2, RestOfPlace DEF Places
    <2>4. QED
      BY <2>1, <2>3, <2>2, TypeParts DEF GraphInv
  <1>3. \A q \in Runs : runs'[q].at \in {"reading", "loading"} => runs'[q].approval \in disturbed'
    BY <1>1, <1>2 DEF Waiting
  <1>4. QED
    BY <1>1, <1>3 DEF Undisturbed

LEMMA DecideOK ==
  ASSUME GraphInv, NEW r \in Runs, NEW a \in Approvals, NEW decision \in Decisions,
         Decide(r, a, decision)
  PROVE  GraphInv'
  <1> DEFINE run == [NoRun EXCEPT !.at = "reading", !.approval = a, !.decision = decision]
             late == IF approvals' = approvals \/ \E q \in Runs : Active(q) THEN {a} ELSE {}
  <1>1. /\ approvals \in [Approvals -> ApprovalType] /\ disturbed \subseteq Approvals
        /\ approvals[a].turn # 0 /\ approvals[a].verdict = "none" /\ a \in Open
        /\ runs[r].at = "unused"
    BY TypeParts DEF GraphInv, Decide, Open, Stored, Fresh
  <1>2. /\ Step(r, run) /\ UNCHANGED <<continues, saved, turns>> /\ faults' \in 0..MaxFaults
        /\ \/ approvals' = [approvals EXCEPT ![a].verdict = decision]
           \/ approvals' = approvals
        /\ disturbed' = disturbed \cup (Waiting \ {a}) \cup late
    BY TypeParts, BoundsFacts DEF Decide, GraphInv
  <1>3. "reading" \in Places \cup Over /\ a \in 0..MaxApprovals /\ a # 0
    BY BoundsFacts DEF Places, Approvals
  <1>4. run \in RunType
    BY <1>3, NoRunType DEF RunType
  <1>5. /\ run.at = "reading" /\ run.approval = a /\ run.decision = decision
        /\ run.ran = {} /\ run.done = {} /\ run.answers = 0 /\ run.asked = 0
        /\ run.stored = 0 /\ run.error = "none" /\ \A t \in Tools : run.tries[t] = 0
    BY DEF NoRun
  <1> HIDE DEF run
  <1>6. /\ approvals' \in [Approvals -> ApprovalType]
        /\ \A b \in Approvals : /\ approvals'[b].turn = approvals[b].turn
                                /\ approvals'[b].calls = approvals[b].calls
                                /\ b # a => approvals'[b] = approvals[b]
    BY <1>1, <1>2 DEF ApprovalType
  <1>7. ApprovalsGrow
    BY <1>2, <1>6 DEF ApprovalsGrow
  <1>8. RecordOK(run, continues, approvals', disturbed')
    <2>1. Origin(run, approvals')
      BY <1>1, <1>3, <1>5, <1>6 DEF Origin, Decisions
    <2>2. Progress(run) /\ CleanRun(run) /\ CarriesOut(run, approvals')
      BY <1>5 DEF Progress, Early, CleanRun, CarriesOut
    <2>3. Licensed(run, run.ran, approvals', disturbed') /\ Answered(run, disturbed') /\ run.at # "tools"
      BY <1>5 DEF Licensed, Answered
    <2>4. QED
      BY <2>1, <2>2, <2>3 DEF RecordOK
  <1>9. RunsOK'
    BY <1>2, <1>4, <1>5, <1>7, <1>8, StepOK
  <1>10. Waiting \subseteq Approvals
    <2>1. ASSUME NEW q \in Runs, runs[q].at \in {"reading", "loading"}
          PROVE  runs[q].approval \in Approvals
      <3>1. runs[q] \in RunType /\ RecordOK(runs[q], continues, approvals, disturbed)
        BY TypeParts DEF GraphInv, RunsOK
      <3>2. QED
        BY <2>1, <3>1, BoundsFacts DEF RunType, RecordOK, Origin, Approvals
    <2>2. QED
      BY <2>1 DEF Waiting, Open, Stored
  <1>11. runs' \in [Runs -> RunType] /\ disturbed' \subseteq Approvals
    BY <1>1, <1>2, <1>4, <1>5, <1>10, StepRun DEF GraphInv
  <1>12. TypeOK'
    BY <1>2, <1>6, <1>11, TypeParts, NextType DEF GraphInv
  <1>13. /\ runs'[r] = run /\ \A q \in Runs \ {r} : runs'[q] = runs[q]
    BY <1>2, <1>4, <1>5, StepRun, RestOfPlace DEF GraphInv, Places
  <1>14. Undisturbed'
    <2>1. Open' \subseteq disturbed'
      <3>1. ASSUME NEW b \in Open', b # a PROVE b \in disturbed'
        BY <1>2, <1>6, <3>1 DEF Open, Stored, Waiting
      <3>2. a \in Open' => approvals' = approvals
        BY <1>1, <1>2 DEF Open, Stored, ApprovalType
      <3>3. QED
        BY <1>2, <3>1, <3>2
    <2>2. ASSUME NEW q \in Runs \ {r}, runs[q].at \in {"reading", "loading"}
          PROVE  runs[q].approval \in disturbed'
      <3>1. Active(q)
        BY <2>2 DEF Active, Over
      <3>2. QED
        BY <1>2, <2>2, <3>1 DEF Waiting
    <2>3. ASSUME a \notin disturbed' PROVE Alone(r)' /\ Resumable(a)'
      <3>1. \A q \in Runs : ~Active(q)
        BY <1>2, <2>3
      <3>2. Resumable(a)
        BY <1>1, <1>2, <2>3, <3>1 DEF GraphInv, Undisturbed, Suspending, Active, Over
      <3>3. Alone(r)'
        BY <1>13, <3>1 DEF Alone, Active
      <3>4. QED
        BY <1>2, <1>6, <3>2, <3>3 DEF Resumable
    <2>4. ASSUME NEW q \in Runs, NEW b, b = runs'[q].approval,
                 runs'[q].at \in {"reading", "loading"}, b \notin disturbed'
          PROVE  Alone(q)' /\ Resumable(b)' /\ runs'[q].at # "loading"
      <3>1. q = r /\ b = a
        BY <1>5, <1>13, <2>2, <2>4
      <3>2. QED
        BY <1>5, <1>13, <2>3, <2>4, <3>1
    <2>5. QED
      BY <2>1, <2>4 DEF Undisturbed
  <1>15. QED
    BY <1>9, <1>12, <1>14 DEF GraphInv

LEMMA BreakOK ==
  ASSUME GraphInv, NEW lost \in SUBSET Runs, Break(lost)
  PROVE  GraphInv'
  <1> DEFINE off == [NoRun EXCEPT !.at = "off"]
  <1>1. /\ runs \in [Runs -> RunType] /\ disturbed \subseteq Approvals
        /\ disturbed' = disturbed \cup ({runs[r].stored : r \in lost} \ {0})
        /\ faults' \in 0..MaxFaults /\ UNCHANGED <<continues, saved, turns, approvals>>
        /\ runs' = [r \in Runs |-> IF r \in lost THEN Rest([runs[r] EXCEPT !.at = "off"]) ELSE runs[r]]
    BY TypeParts, BoundsFacts DEF GraphInv, Break
  <1>2. \A r \in Runs : Rest([runs[r] EXCEPT !.at = "off"]) = off
    <2>1. ASSUME NEW r \in Runs PROVE Rest([runs[r] EXCEPT !.at = "off"]) = off
      <3> DEFINE run == [runs[r] EXCEPT !.at = "off"]
      <3>1. run.at = "off"
        BY <1>1 DEF RunType
      <3> HIDE DEF run
      <3>2. Rest(run) = off
        BY <3>1, RestOfOff
      <3>3. QED
        BY <3>2 DEF run
    <2>2. QED
      BY <2>1
  <1>3. off \in RunType /\ off.at = "off" /\ \A go, apps, dist : RecordOK(off, go, apps, dist)
    BY NoRunType, NoRunOK
  <1> HIDE DEF off
  <1>4. \A r \in Runs : runs'[r] = IF r \in lost THEN off ELSE runs[r]
    BY <1>1, <1>2
  <1>5. runs' \in [Runs -> RunType]
    BY <1>1, <1>2, <1>3
  <1>6. disturbed' \subseteq Approvals
    <2>1. \A r \in lost : runs[r].stored \in 0..MaxApprovals
      BY <1>1 DEF RunType
    <2>2. QED
      BY <1>1, <2>1, BoundsFacts DEF Approvals
  <1>7. TypeOK'
    BY <1>1, <1>5, <1>6, TypeParts, NextType DEF GraphInv
  <1>8. RunsOK'
    <2>1. ASSUME NEW r \in Runs PROVE RecordOK(runs'[r], continues, approvals', disturbed')
      <3>1. runs[r] \in RunType /\ RecordOK(runs[r], continues, approvals, disturbed)
        BY <1>1 DEF GraphInv, RunsOK
      <3>2. RecordOK(runs[r], continues, approvals', disturbed')
        BY <1>1, <3>1, OKStays
      <3>3. QED
        BY <1>3, <1>4, <3>2
    <2>2. QED
      BY <1>1, <2>1 DEF RunsOK
  <1>9. \A q \in Runs : ~Active(q) => ~Active(q)'
    BY <1>3, <1>4 DEF Active, Over
  <1>10. \A q \in Runs : Alone(q) => Alone(q)'
    BY <1>9 DEF Alone
  <1>11. \A a : Resumable(a) => Resumable(a)'
    BY <1>1 DEF Resumable
  <1>12. Undisturbed'
    <2>1. ASSUME NEW a \in Open' \ disturbed'
          PROVE  \/ \E r \in Runs : Suspending(r, a)'
                 \/ Resumable(a)' /\ \A r \in Runs : ~Active(r)'
      <3>1. a \in Open \ disturbed /\ a # 0
        BY <1>1, BoundsFacts DEF Open, Stored, Approvals
      <3>2. ASSUME NEW r \in Runs, Suspending(r, a) PROVE Suspending(r, a)'
        <4>1. r \notin lost
          BY <1>1, <3>1, <3>2 DEF Suspending
        <4>2. QED
          BY <1>1, <1>4, <1>10, <3>2, <4>1 DEF Suspending
      <3>3. QED
        BY <1>9, <1>11, <3>1, <3>2 DEF GraphInv, Undisturbed
    <2>2. ASSUME NEW r \in Runs, NEW a, a = runs'[r].approval,
                 runs'[r].at \in {"reading", "loading"}, a \notin disturbed'
          PROVE  /\ Alone(r)' /\ Resumable(a)'
                 /\ runs'[r].at = "loading" => runs'[r].stream = saved'.turn
      <3>1. runs'[r] = runs[r]
        BY <1>3, <1>4, <2>2
      <3>2. /\ Alone(r) /\ Resumable(a)
            /\ runs[r].at = "loading" => runs[r].stream = saved.turn
        BY <1>1, <2>2, <3>1 DEF GraphInv, Undisturbed
      <3>3. QED
        BY <1>1, <1>10, <1>11, <3>1, <3>2
    <2>3. QED
      BY <2>1, <2>2 DEF Undisturbed
  <1>13. QED
    BY <1>7, <1>8, <1>12 DEF GraphInv

-----------------------------------------------------------------------------
(* The invariant. *)

LEMMA InitInv == Init => GraphInv
  <1> SUFFICES ASSUME Init PROVE GraphInv
    OBVIOUS
  <1>1. NoRun \in RunType /\ \A go, apps, dist : RecordOK(NoRun, go, apps, dist)
    BY NoRunType, NoRunOK
  <1>2. NoApproval \in ApprovalType /\ NoApproval.turn = 0
    BY BoundsFacts DEF NoApproval, ApprovalType
  <1>3. TypeOK
    <2>1. saved \in SavedType
      BY BoundsFacts DEF Init, SavedType, Errors
    <2>2. /\ turns \in 0..MaxTurns /\ faults \in 0..MaxFaults /\ continues \in BOOLEAN
          /\ disturbed \subseteq Approvals
      BY BoundsFacts DEF Init
    <2>3. approvals \in [Approvals -> ApprovalType] /\ runs \in [Runs -> RunType]
      BY <1>1, <1>2 DEF Init
    <2>4. QED
      BY <2>1, <2>2, <2>3, TypeParts
  <1>4. RunsOK
    BY <1>1 DEF Init, RunsOK
  <1>5. Undisturbed
    <2>1. Open = {}
      BY <1>2 DEF Init, Open, Stored
    <2>2. \A r \in Runs : runs[r].at = "unused"
      BY DEF Init, NoRun
    <2>3. QED
      BY <2>1, <2>2 DEF Undisturbed
  <1>6. QED
    BY <1>3, <1>4, <1>5 DEF GraphInv

LEMMA NextInv == GraphInv /\ [Next]_vars => GraphInv'
  <1> SUFFICES ASSUME GraphInv, [Next]_vars PROVE GraphInv'
    OBVIOUS
  <1>1. ASSUME NEW r \in Runs, NEW turn \in 1..MaxTurns, StartTurn(r, turn) PROVE GraphInv'
    BY <1>1, StartTurnOK, StartTurnUndisturbed DEF GraphInv
  <1>2. ASSUME NEW r \in Runs, NEW a \in Approvals, NEW decision \in Decisions,
               Decide(r, a, decision)
        PROVE  GraphInv'
    BY <1>2, DecideOK
  <1>3. ASSUME NEW r \in Runs, Work(r) PROVE GraphInv'
    BY <1>3, ReadStreamOK, LoadOK, RouteOK, RouterFailsOK, StoreApprovalOK, StoreFailsOK, SuspendOK,
       ExecuteOK, ToolsDoneOK, AskModelOK, HandleOK DEF Work
  <1>4. ASSUME NEW r \in Runs, Disconnect(r) PROVE GraphInv'
    BY <1>4, BreakOK DEF Disconnect
  <1>5. CASE Crash
    BY <1>5, BreakOK DEF Crash
  <1>6. CASE UNCHANGED vars
    BY <1>6 DEF vars, GraphInv, TypeOK, RunsOK, Undisturbed, Suspending, Alone, Resumable, Active, Open,
                Stored
  <1>7. QED
    BY <1>1, <1>2, <1>3, <1>4, <1>5, <1>6 DEF Next

(* The invariant, in every state of every run. *)
THEOREM GraphInvariant == Spec => []GraphInv
  <1>1. QED
    BY InitInv, NextInv, PTL DEF Spec

(* Every state of a thread, its checkpoint, approvals and runs, is well    *)
(* formed; retries and answers stay within their bounds.                   *)
THEOREM TypeCorrect == Spec => []TypeOK
  <1>1. GraphInv => TypeOK
    BY DEF GraphInv
  <1>2. QED
    BY <1>1, GraphInvariant, PTL

(* A sensitive tool runs only for an approval, and undisturbed only if it  *)
(* is among the calls that approval was stored for.                        *)
THEOREM SensitiveGated == Spec => []SensitiveNeedsApproval
  <1>1. GraphInv => SensitiveNeedsApproval
    BY DEF GraphInv, RunsOK, RecordOK, Licensed, SensitiveNeedsApproval
  <1>2. QED
    BY <1>1, GraphInvariant, PTL

(* A run that goes on behind the gate carries out the decision, on the     *)
(* stream of the message the approval belongs to.                          *)
THEOREM DecisionCarriedOut == Spec => []DecisionIsCarriedOut
  <1>1. GraphInv => DecisionIsCarriedOut
    BY DEF GraphInv, RunsOK, RecordOK, CarriesOut, DecisionIsCarriedOut
  <1>2. QED
    BY <1>1, GraphInvariant, PTL

(* An undisturbed approval finds the checkpoint it was stored with.        *)
THEOREM Resumes == Spec => []SuspendedIsResumable
  <1>1. GraphInv => SuspendedIsResumable
    <2>1. ASSUME GraphInv, NEW a \in Open \ disturbed, \A r \in Runs : ~Active(r)
          PROVE  Resumable(a)
      BY <2>1 DEF GraphInv, Undisturbed, Suspending, Active, Over
    <2>2. QED
      BY <2>1 DEF SuspendedIsResumable, Resumable
  <1>2. QED
    BY <1>1, GraphInvariant, PTL

(* A run that ends has answered once and left no error.                    *)
THEOREM AnswersOnce == Spec => []AnsweredOnce
  <1>1. GraphInv => AnsweredOnce
    BY DEF GraphInv, RunsOK, RecordOK, Answered, AnsweredOnce
  <1>2. QED
    BY <1>1, GraphInvariant, PTL

=============================================================================
