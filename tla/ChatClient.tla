----------------------------- MODULE ChatClient -----------------------------
(***************************************************************************)
(* One turn of the web client (frontend/app.py) over an EventStream:       *)
(* _send_and_stream opens the stream and reads it to its end, the user     *)
(* decides a pending approval, _submit_hitl_decision posts the decision,   *)
(* and _reconnect_after_hitl polls the replay buffer for the events of the *)
(* resumed graph.  The connection may drop at any time; the server notices *)
(* later and cancels the live run.                                         *)
(***************************************************************************)
EXTENDS EventStream

CONSTANTS
    ApprovalTtl,    \* ticks during which the approve route accepts (10 min)
    MaxPolls        \* HITL_RECONNECT_RETRIES

ASSUME ClientAssumption == ApprovalTtl \in Nat /\ MaxPolls \in Nat

(* An approval is open for 600 s, its buffer is kept for 900 s. *)
ASSUME ApprovalWindowAssumption == ApprovalTtl < HitlTtl

VARIABLES
    client,     \* where the client is in the turn
    pending,    \* pending_hitl is set: an approval banner is shown
    saved,      \* its last_event_id
    savedUpTo,  \* serial number of the event saved was taken from
    readUpTo,   \* serial number of the last event read from the live stream
    age,        \* ticks since the approval was requested
    polls,      \* reconnect attempts
    shown,      \* emitters whose events the client has displayed
    dropped     \* the connection broke

clientVars == <<client, pending, saved, savedUpTo, readUpTo, age, polls, shown, dropped>>
vars == <<serverVars, clientVars>>

ClientStates == {"posted", "streaming", "closed", "waiting", "polling",
                 "answered", "failed", "expired", "gaveup"}

Init ==
    /\ ServerInit
    /\ client = "posted"
    /\ pending = FALSE
    /\ saved = 0
    /\ savedUpTo = 0
    /\ readUpTo = 0
    /\ age = 0
    /\ polls = 0
    /\ shown = {}
    /\ dropped = FALSE

-----------------------------------------------------------------------------
(* _send_and_stream. *)

Open ==
    /\ client = "posted"
    /\ handshake > 0
    /\ StartRun("live")
    /\ client' = "streaming"
    /\ UNCHANGED <<pending, saved, savedUpTo, readUpTo, age, polls, shown, dropped>>

(* The owner and context keys are gone: 410. *)
OpenGone ==
    /\ client = "posted"
    /\ handshake = 0
    /\ client' = "closed"
    /\ UNCHANGED <<serverVars, pending, saved, savedUpTo, readUpTo, age, polls, shown, dropped>>

(* The for loop over the events is over. *)
LeaveStream == client' = IF pending THEN "waiting" ELSE "closed"

Read ==
    /\ client = "streaming"
    /\ queue # <<>> /\ Head(queue).kind # "end"
    /\ queue' = Tail(queue)
    /\ LET ev == Head(queue)
       IN  /\ readUpTo' = ev.serial
           /\ shown' = shown \cup {ev.from}
           /\ IF ev.kind = "approval"
              THEN pending' = TRUE /\ saved' = ev.id /\ savedUpTo' = ev.serial
              ELSE UNCHANGED <<pending, saved, savedUpTo>>
    /\ UNCHANGED <<handshake, redis, emitting, overlapped, failures, client, age, polls, dropped>>

ReadEnd ==
    /\ client = "streaming"
    /\ queue # <<>> /\ Head(queue).kind = "end"
    /\ queue' = Tail(queue)
    /\ LeaveStream
    /\ UNCHANGED <<handshake, redis, emitting, overlapped, failures, pending, saved, savedUpTo,
                   readUpTo, age, polls, shown, dropped>>

(* The connection breaks.  A ConnectionError or a Timeout ends the loop    *)
(* like the end of the stream; any other exception, or a rerun of the      *)
(* script, ends the turn and forgets an approval that was announced.       *)
Drop ==
    /\ client = "streaming"
    /\ dropped' = TRUE
    /\ \/ LeaveStream /\ UNCHANGED pending
       \/ client' = "closed" /\ pending' = FALSE
    /\ UNCHANGED <<serverVars, saved, savedUpTo, readUpTo, age, polls, shown>>

(* The server closes the generator, which cancels the run: CancelledError  *)
(* is no Exception, so neither error nor done is emitted.                  *)
CancelRun ==
    /\ dropped
    /\ Active("live")
    /\ EndRun("live")
    /\ queue' = <<>>
    /\ UNCHANGED <<handshake, redis, steps, overlapped, failures, clientVars>>

-----------------------------------------------------------------------------
(* The approval banner. *)

(* 200: _resume_graph has been scheduled. *)
Decide ==
    /\ client = "waiting"
    /\ age <= ApprovalTtl
    /\ StartRun("resume")
    /\ client' = "polling"
    /\ UNCHANGED <<pending, saved, savedUpTo, readUpTo, age, polls, shown, dropped>>

(* 410: the banner stays, the turn is over. *)
DecideTooLate ==
    /\ client = "waiting"
    /\ age > ApprovalTtl
    /\ client' = "expired"
    /\ UNCHANGED <<serverVars, pending, saved, savedUpTo, readUpTo, age, polls, shown, dropped>>

-----------------------------------------------------------------------------
(* _reconnect_after_hitl: GET with Last-Event-ID = saved. *)

(* Either key is gone: 410, shown as an error. *)
PollGone ==
    /\ client = "polling" /\ polls < MaxPolls
    /\ handshake = 0 \/ buffer = <<>>
    /\ client' = "expired"
    /\ pending' = FALSE
    /\ UNCHANGED <<serverVars, saved, savedUpTo, readUpTo, age, polls, shown, dropped>>

Final(ev) == ev.kind \in {"done", "error"}

(* The first done or error of the replayed events ends the turn. *)
PollFinal ==
    /\ client = "polling" /\ polls < MaxPolls
    /\ handshake > 0 /\ buffer # <<>>
    /\ LET evs == EventsAfter(saved)
       IN \E i \in DOMAIN evs :
            /\ Final(evs[i])
            /\ \A j \in 1..(i - 1) : ~Final(evs[j])
            /\ client' = IF evs[i].kind = "done" THEN "answered" ELSE "failed"
            /\ shown' = shown \cup {evs[j].from : j \in 1..i}
    /\ pending' = FALSE
    /\ UNCHANGED <<serverVars, saved, savedUpTo, readUpTo, age, polls, dropped>>

Largest(S) == CHOOSE x \in S : \A y \in S : y <= x

(* Faulty: the number of events is added instead of taking the largest id. *)
PollMoreByCount ==
    /\ client = "polling" /\ polls < MaxPolls
    /\ handshake > 0 /\ buffer # <<>>
    /\ LET evs == EventsAfter(saved)
       IN  /\ \A i \in DOMAIN evs : ~Final(evs[i])
           /\ saved' = saved + Len(evs) + 1
           /\ savedUpTo' = Largest({savedUpTo} \cup {evs[i].serial : i \in DOMAIN evs})
           /\ shown' = shown \cup {evs[i].from : i \in DOMAIN evs}
    /\ polls' = polls + 1
    /\ pending' = (polls' < MaxPolls)
    /\ client' = IF pending' THEN "polling" ELSE "gaveup"
    /\ UNCHANGED <<serverVars, readUpTo, age, dropped>>

(* Faulty: the attempts are not limited. *)
PollMoreForever ==
    /\ client = "polling"
    /\ handshake > 0 /\ buffer # <<>>
    /\ \A i \in DOMAIN EventsAfter(saved) : ~Final(EventsAfter(saved)[i])
    /\ polls' = polls + 1
    /\ UNCHANGED <<serverVars, client, pending, saved, savedUpTo, readUpTo, age, shown, dropped>>

(* No end in sight: remember the largest id and try again. *)
PollMore ==
    /\ client = "polling" /\ polls < MaxPolls
    /\ handshake > 0 /\ buffer # <<>>
    /\ LET evs == EventsAfter(saved)
       IN  /\ \A i \in DOMAIN evs : ~Final(evs[i])
           /\ saved' = Largest({saved} \cup {evs[i].id : i \in DOMAIN evs})
           /\ savedUpTo' = Largest({savedUpTo} \cup {evs[i].serial : i \in DOMAIN evs})
           /\ shown' = shown \cup {evs[i].from : i \in DOMAIN evs}
    /\ polls' = polls + 1
    /\ pending' = (polls' < MaxPolls)
    /\ client' = IF pending' THEN "polling" ELSE "gaveup"
    /\ UNCHANGED <<serverVars, readUpTo, age, dropped>>

-----------------------------------------------------------------------------

(* A read and a reconnect are short against a tick, too, and after the end *)
(* of the turn nobody looks at the keys.                                   *)
Tick ==
    /\ client \in {"posted", "streaming", "waiting"}
    /\ client = "streaming" => queue = <<>>
    /\ handshake > 0 \/ ttl \in 1..HitlTtl \/ (pending /\ age <= ApprovalTtl)
    /\ Age
    /\ age' = IF pending /\ age <= ApprovalTtl THEN age + 1 ELSE age
    /\ UNCHANGED <<client, pending, saved, savedUpTo, readUpTo, polls, shown, dropped>>

ClientNext ==
    \/ Open \/ OpenGone \/ Read \/ ReadEnd \/ Drop
    \/ Decide \/ DecideTooLate
    \/ PollGone \/ PollFinal \/ PollMore

Next ==
    \/ ClientNext
    \/ CancelRun
    \/ Tick
    \/ \E e \in Emitters : EmitterNext(e) /\ UNCHANGED clientVars

Spec == Init /\ [][Next]_vars

(* The graph and Redis make progress and the client keeps reading. *)
Fairness ==
    /\ \A e \in Emitters : WF_vars(EmitterProgress(e) /\ UNCHANGED clientVars)
    /\ WF_vars(Read \/ ReadEnd)

FairSpec == Spec /\ Fairness

-----------------------------------------------------------------------------

TypeOK ==
    /\ ServerTypeOK
    /\ client \in ClientStates
    /\ pending \in BOOLEAN
    /\ saved \in Nat /\ savedUpTo \in Nat /\ readUpTo \in Nat
    /\ age \in 0..(ApprovalTtl + 1)
    /\ polls \in 0..MaxPolls
    /\ shown \subseteq Emitters
    /\ dropped \in BOOLEAN

(* As long as the buffer still holds the event the client remembers, a     *)
(* reconnect is sent everything that was pushed after it: repeated ids may *)
(* make it see an event twice, never miss one (FR-14).                     *)
ReplayNeverSkips ==
    (saved > 0 /\ buffer # <<>> /\ buffer[1].serial <= savedUpTo) =>
        \A i \in DOMAIN buffer : buffer[i].serial > savedUpTo => i > saved

(* While the user may still decide, the replay buffer is alive (FR-14,     *)
(* NFR-8): the HITL time to live is kept by the emits that follow          *)
(* approval_required.                                                      *)
BufferOutlivesApproval ==
    (pending /\ client \in {"streaming", "waiting"} /\ age <= ApprovalTtl) => buffer # <<>>

(* Reading back the tail of the list after RPUSH hands the live connection *)
(* the events in the order of the buffer: no event twice, none out of      *)
(* order, and none missing unless an emit failed half way.                 *)
LiveInOrder ==
    client = "streaming" =>
        \A i \in DOMAIN queue : queue[i].kind # "end" =>
            LET before == IF i = 1 THEN readUpTo ELSE queue[i - 1].serial
            IN  IF failures = 0 THEN queue[i].serial = before + 1 ELSE queue[i].serial > before

(* A live stream ends, with its sentinel or because the client left, even  *)
(* when the graph or Redis raises once (_run_graph's handler emits done);  *)
(* a second exception, in the handler, leaves the client with keep-alives. *)
StreamEnds ==
    (client = "streaming") ~> (client # "streaming" \/ failures >= 2)

-----------------------------------------------------------------------------
(* What the documentation says and the code does not do.                   *)

(* app.py: "Reconnect to the SSE stream after HITL approval and display    *)
(* resumed events.", here for a turn whose connection never broke.         *)
ResumedEventsDisplayed ==
    (client = "answered" /\ ~dropped) => "resume" \in shown

(* chat.py answers 410 "Stream has expired"; FR-14 keeps the buffer        *)
(* replayable for 15 minutes when an approval is pending.                  *)
ExpiredMeansNoBuffer ==
    (client = "expired" /\ age <= ApprovalTtl) => buffer = <<>>

=============================================================================
