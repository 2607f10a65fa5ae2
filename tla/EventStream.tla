----------------------------- MODULE EventStream -----------------------------
(***************************************************************************)
(* One SSE stream: the replay buffer in Redis, the emitters that write it, *)
(* and the queue between a live emitter and its HTTP response.             *)
(*                                                                         *)
(*   post_chat writes the owner and context keys of the stream             *)
(*   "live"    the graph run started by GET /chat/stream (_LiveEmitter)    *)
(*   "resume"  the graph run started by _resume_graph (SSEEmitter)         *)
(*                                                                         *)
(* Every emit is a series of Redis round trips, LLEN, RPUSH, EXPIRE and,   *)
(* for a live emitter, LINDEX; other tasks run between two of them.  The   *)
(* time to live of a key is counted in ticks of five minutes.  A run is    *)
(* short against a tick (tools and models are called with timeouts of      *)
(* seconds), so no tick falls into a run.                                  *)
(***************************************************************************)
EXTENDS Naturals, Sequences

CONSTANTS
    NormalTtl,      \* life of the buffer after an emit (300 s)
    HitlTtl,        \* the same once approval_required was emitted (900 s)
    ContextTtl,     \* life of the owner and context keys (300 s)
    MaxSteps,       \* bound: thinking, token and tool_result events
    MaxFailures     \* bound: exceptions in a graph or in Redis

ASSUME TtlAssumption == /\ NormalTtl \in Nat \ {0}
                        /\ HitlTtl \in Nat \ {0}
                        /\ ContextTtl \in Nat \ {0}
ASSUME StreamBounds == MaxSteps \in Nat /\ MaxFailures \in Nat

VARIABLES
    handshake,  \* remaining life of the owner and context keys
    buffer,     \* the list stream:{id}:events; <<>> when the key is absent
    ttl,        \* remaining life of the list
    pushes,     \* events ever pushed, numbers them
    phase,      \* phase[e]: where e is within emit
    graph,      \* graph[e]: "running", "gated", "handling" an exception, or "over"
    todo,       \* todo[e]: event types e has still to emit, the first in progress
    eventId,    \* eventId[e]: id computed by LLEN for the event in progress
    isHitl,     \* isHitl[e]: the emitter has seen approval_required
    steps,      \* intermediate events so far
    queue,      \* the asyncio queue of the live emitter
    overlapped, \* an emitter has started while the other was not finished
    failures    \* exceptions so far

emitting == <<phase, graph, todo, eventId, isHitl, steps>>
redis    == <<buffer, ttl, pushes>>
serverVars == <<handshake, redis, emitting, queue, overlapped, failures>>

-----------------------------------------------------------------------------

Emitters == {"live", "resume"}
Kinds == {"step", "approval", "error", "done"}
Events == [id : Nat, kind : Kinds, from : Emitters, serial : Nat]

(* RPUSH creates the list without a time to live. *)
NoTtl == HitlTtl + NormalTtl + 1

Active(e) == phase[e] \notin {"idle", "ended"}

Sentinel == [id |-> 0, kind |-> "end", from |-> "live", serial |-> 0]

ServerInit ==
    /\ handshake = ContextTtl
    /\ buffer = <<>>
    /\ ttl = 0
    /\ pushes = 0
    /\ phase = [e \in Emitters |-> "idle"]
    /\ graph = [e \in Emitters |-> "over"]
    /\ todo = [e \in Emitters |-> <<>>]
    /\ eventId = [e \in Emitters |-> 0]
    /\ isHitl = [e \in Emitters |-> FALSE]
    /\ steps = 0
    /\ queue = <<>>
    /\ overlapped = FALSE
    /\ failures = 0

-----------------------------------------------------------------------------
(* The graph run behind an emitter, as run_turn sees it.                   *)

StartRun(e) ==
    /\ phase[e] = "idle"
    /\ phase' = [phase EXCEPT ![e] = "between"]
    /\ graph' = [graph EXCEPT ![e] = "running"]
    /\ overlapped' = (overlapped \/ \E f \in Emitters : Active(f))
    /\ UNCHANGED <<handshake, redis, todo, eventId, isHitl, steps, queue, failures>>

Pause(e) == phase[e] = "between" /\ graph[e] \in {"running", "gated"} /\ todo[e] = <<>>

Plan(e, kinds) == todo' = [todo EXCEPT ![e] = kinds]

(* The run is over; its locals are gone. *)
EndRun(e) ==
    /\ phase' = [phase EXCEPT ![e] = "ended"]
    /\ graph' = [graph EXCEPT ![e] = "over"]
    /\ Plan(e, <<>>)
    /\ eventId' = [eventId EXCEPT ![e] = 0]
    /\ isHitl' = [isHitl EXCEPT ![e] = FALSE]

(* thinking, token, tool_result. *)
GraphSteps(e) ==
    /\ Pause(e)
    /\ steps < MaxSteps
    /\ steps' = steps + 1
    /\ Plan(e, <<"step">>)
    /\ UNCHANGED <<handshake, redis, phase, graph, eventId, isHitl, queue, overlapped, failures>>

(* hitl_gate ends with a pending approval, which suspends the graph, or    *)
(* with an error, which leads to its end: once in a run.                   *)
HitlGateEnds(e) ==
    /\ Pause(e)
    /\ graph[e] = "running"
    /\ graph' = [graph EXCEPT ![e] = "gated"]
    /\ \E kind \in {"approval", "error"} : Plan(e, <<kind>>)
    /\ UNCHANGED <<handshake, redis, phase, eventId, isHitl, steps, queue, overlapped, failures>>

(* The loop over the events is over, the graph ended or suspended.         *)
GraphStops(e) ==
    /\ Pause(e)
    /\ graph' = [graph EXCEPT ![e] = "over"]
    /\ Plan(e, <<"done">>)
    /\ UNCHANGED <<handshake, redis, phase, eventId, isHitl, steps, queue, overlapped, failures>>

(* _run_graph reports an exception of run_turn by error and done, and dies *)
(* of a second one; _resume_graph ends without a word.                     *)
Raise(e) ==
    /\ failures < MaxFailures
    /\ failures' = failures + 1
    /\ IF e = "live" /\ graph[e] # "handling"
       THEN /\ graph' = [graph EXCEPT ![e] = "handling"]
            /\ phase' = [phase EXCEPT ![e] = "between"]
            /\ Plan(e, <<"error", "done">>)
            /\ UNCHANGED <<eventId, isHitl>>
       ELSE EndRun(e)
    /\ UNCHANGED <<handshake, redis, steps, queue, overlapped>>

GraphRaises(e) == Pause(e) /\ Raise(e)

-----------------------------------------------------------------------------
(* SSEEmitter.emit and _LiveEmitter.emit, one Redis command per step.      *)

(* Faulty: HITL mode covers the approval event alone. *)
CountForgetting(e) ==
    /\ phase[e] = "between" /\ todo[e] # <<>>
    /\ phase' = [phase EXCEPT ![e] = "counted"]
    /\ eventId' = [eventId EXCEPT ![e] = Len(buffer) + 1]
    /\ isHitl' = [isHitl EXCEPT ![e] = Head(todo[e]) = "approval"]
    /\ UNCHANGED <<handshake, redis, graph, todo, steps, queue, overlapped, failures>>

(* Faulty: ids come from a counter of this emitter. *)
CountPrivately(e) ==
    /\ phase[e] = "between" /\ todo[e] # <<>>
    /\ phase' = [phase EXCEPT ![e] = "counted"]
    /\ eventId' = [eventId EXCEPT ![e] = @ + 1]
    /\ isHitl' = [isHitl EXCEPT ![e] = @ \/ Head(todo[e]) = "approval"]
    /\ UNCHANGED <<handshake, redis, graph, todo, steps, queue, overlapped, failures>>

(* The id of the event is one more than LLEN. *)
Count(e) ==
    /\ phase[e] = "between" /\ todo[e] # <<>>
    /\ phase' = [phase EXCEPT ![e] = "counted"]
    /\ eventId' = [eventId EXCEPT ![e] = Len(buffer) + 1]
    /\ isHitl' = [isHitl EXCEPT ![e] = @ \/ Head(todo[e]) = "approval"]
    /\ UNCHANGED <<handshake, redis, graph, todo, steps, queue, overlapped, failures>>

(* RPUSH. *)
Push(e) ==
    /\ phase[e] = "counted"
    /\ phase' = [phase EXCEPT ![e] = "pushed"]
    /\ pushes' = pushes + 1
    /\ buffer' = Append(buffer, [id |-> eventId[e], kind |-> Head(todo[e]),
                                 from |-> e, serial |-> pushes'])
    /\ ttl' = IF buffer = <<>> THEN NoTtl ELSE ttl
    /\ UNCHANGED <<handshake, graph, todo, eventId, isHitl, steps, queue, overlapped, failures>>

(* The emit in progress is complete. *)
Advance(e) ==
    IF Head(todo[e]) = "done"
    THEN EndRun(e)
    ELSE /\ phase' = [phase EXCEPT ![e] = "between"]
         /\ Plan(e, Tail(todo[e]))
         /\ UNCHANGED <<graph, eventId, isHitl>>

SetTtl(e) == ttl' = IF isHitl[e] THEN HitlTtl ELSE NormalTtl

Expire(e) ==
    /\ phase[e] = "pushed"
    /\ SetTtl(e)
    /\ IF e = "live"
       THEN phase' = [phase EXCEPT ![e] = "stored"] /\ UNCHANGED <<graph, todo, eventId, isHitl>>
       ELSE Advance(e)
    /\ UNCHANGED <<handshake, buffer, pushes, steps, queue, overlapped, failures>>

(* Faulty: the first element of the list is read back. *)
ReadBackFirst(e) ==
    /\ phase[e] = "stored"
    /\ queue' = queue \o <<Head(buffer)>> \o (IF Head(todo[e]) = "done" THEN <<Sentinel>> ELSE <<>>)
    /\ Advance(e)
    /\ UNCHANGED <<handshake, redis, steps, overlapped, failures>>

(* Faulty: no sentinel behind done. *)
ReadBackEndless(e) ==
    /\ phase[e] = "stored"
    /\ queue' = Append(queue, buffer[Len(buffer)])
    /\ Advance(e)
    /\ UNCHANGED <<handshake, redis, steps, overlapped, failures>>

(* The text just appended is read back, and done is followed by a sentinel. *)
ReadBack(e) ==
    /\ phase[e] = "stored"
    /\ queue' = queue \o <<buffer[Len(buffer)]>>
                      \o (IF Head(todo[e]) = "done" THEN <<Sentinel>> ELSE <<>>)
    /\ Advance(e)
    /\ UNCHANGED <<handshake, redis, steps, overlapped, failures>>

(* Any of the Redis commands raises. *)
EmitFails(e) ==
    /\ Active(e) /\ todo[e] # <<>>
    /\ Raise(e)

EmitterNext(e) ==
    \/ GraphSteps(e) \/ HitlGateEnds(e) \/ GraphStops(e) \/ GraphRaises(e)
    \/ Count(e) \/ Push(e) \/ Expire(e) \/ ReadBack(e) \/ EmitFails(e)

(* What an emitter does when nothing goes wrong. *)
EmitterProgress(e) ==
    \/ GraphSteps(e) \/ HitlGateEnds(e) \/ GraphStops(e)
    \/ Count(e) \/ Push(e) \/ Expire(e) \/ ReadBack(e)

-----------------------------------------------------------------------------

(* Five minutes pass. *)
Older(t) == IF t = 0 THEN 0 ELSE t - 1

Age ==
    /\ \A e \in Emitters : ~Active(e)
    /\ handshake' = Older(handshake)
    /\ ttl' = IF ttl = NoTtl THEN ttl ELSE Older(ttl)
    /\ buffer' = IF ttl' = 0 THEN <<>> ELSE buffer
    /\ UNCHANGED <<pushes, emitting, queue, overlapped, failures>>

(* get_events_after: what a reconnect with Last-Event-ID n is sent. *)
EventsAfter(n) == SubSeq(buffer, n + 1, Len(buffer))

-----------------------------------------------------------------------------

ServerTypeOK ==
    /\ handshake \in 0..ContextTtl
    /\ buffer \in Seq(Events)
    /\ ttl \in 0..NoTtl
    /\ pushes \in Nat
    /\ phase \in [Emitters -> {"idle", "between", "counted", "pushed", "stored", "ended"}]
    /\ graph \in [Emitters -> {"running", "gated", "handling", "over"}]
    /\ todo \in [Emitters -> Seq(Kinds)]
    /\ eventId \in [Emitters -> Nat]
    /\ isHitl \in [Emitters -> BOOLEAN]
    /\ steps \in 0..MaxSteps
    /\ queue \in Seq(Events \cup {Sentinel})
    /\ overlapped \in BOOLEAN
    /\ failures \in 0..MaxFailures

(* "Event with id n is at list index n-1" (replay.py), which makes the ids *)
(* of a turn increase by one (FR-13), as long as the emitters of the       *)
(* stream never overlap; exceptions in the middle of an emit do not break  *)
(* it.  Two emitters that overlap draw one id for two events, but an id    *)
(* never runs ahead of its index, which would make a reconnect skip what   *)
(* follows, and those of one emitter still increase.                       *)
IdsAreIndexes ==
    /\ ~overlapped => \A i \in DOMAIN buffer : buffer[i].id = i
    /\ \A i \in DOMAIN buffer : buffer[i].id <= i
    /\ \A i, j \in DOMAIN buffer :
          i < j /\ buffer[i].from = buffer[j].from => buffer[i].id < buffer[j].id

=============================================================================
