-------------------------- MODULE ChatClientProofs --------------------------
(***************************************************************************)
(* Proofs about the event buffer and the chat client that reads it, for    *)
(* every length of a run, every number of failures and of polls.           *)
(*                                                                         *)
(* The properties compare events the client saw with events that may have  *)
(* left the buffer since, so none is inductive.  What carries them is that *)
(* the buffer holds the last pushes without a hole: the event at index i   *)
(* has the serial number Base + i, and its id is no larger than i.         *)
(* BufferOK says so; Covered says it of an event the client holds, whether *)
(* or not the buffer still does.  QueueOK counts what was pushed against   *)
(* what was read back, HitlOK relates the age of an approval to the time   *)
(* its buffer has left.                                                    *)
(***************************************************************************)
EXTENDS ChatClient, WellFoundedInduction, TLAPS

(* The pushes that are in the buffer no more. *)
Base == pushes - Len(buffer)

(* Between the push of an event and the end of its emit. *)
Writing(e) == phase[e] \in {"pushed", "stored"}

(* Within an emit there is an event in hand; approval_required sets the    *)
(* mode first.                                                             *)
InEmit(e) == phase[e] \in {"counted", "pushed", "stored"}

EmitOK ==
    /\ \A e \in Emitters : InEmit(e) => todo[e] # <<>> /\ (Head(todo[e]) = "approval" => isHitl[e])
    /\ \A e \in Emitters : Writing(e) => buffer # <<>>
    /\ phase["resume"] # "stored"
    /\ ttl # 0 => buffer # <<>>

(* Serial numbers follow the list, and an id counted before the buffer     *)
(* expired or grew is at most the next index.                              *)
BufferOK ==
    /\ Len(buffer) <= pushes
    /\ \A i \in DOMAIN buffer : buffer[i].serial = Base + i /\ buffer[i].id <= i
    /\ \A e \in Emitters : phase[e] = "counted" => eventId[e] <= Len(buffer) + 1

(* As long as the two runs never overlapped, only one emitter is active    *)
(* and the id it drew is the next index.                                   *)
AloneOK ==
    ~overlapped =>
        /\ \A i \in DOMAIN buffer : buffer[i].id = i
        /\ \A e \in Emitters : phase[e] = "counted" => eventId[e] = Len(buffer) + 1
        /\ ~(Active("live") /\ Active("resume"))

(* The ids of an emitter increase, and the one it drew is its largest.     *)
OrderOK ==
    /\ \A i, j \in DOMAIN buffer :
          i < j /\ buffer[i].from = buffer[j].from => buffer[i].id < buffer[j].id
    /\ \A e \in Emitters : phase[e] = "counted" =>
          \A i \in DOMAIN buffer : buffer[i].from = e => buffer[i].id < eventId[e]

IdsOK == AloneOK /\ OrderOK

(* An event with this serial number and id, if it still is in the buffer,  *)
(* is there at index serial - Base, which is no less than its id.          *)
Covered(serial, id) ==
    /\ serial <= pushes
    /\ serial > Base => id + Base <= serial

(* Where the client is in its turn, and what that says of the emitters. *)
TurnOK ==
    /\ client \in {"posted", "streaming", "closed", "waiting"} => phase["resume"] = "idle"
    /\ client = "posted" => phase["live"] = "idle" /\ queue = <<>> /\ readUpTo = 0 /\ pushes = 0 /\ ~pending /\ ~dropped
    /\ client = "streaming" => ~dropped /\ phase["live"] # "idle"
    /\ client \in {"waiting", "polling"} => pending

(* The serial number last read back, and the one before the event at i. *)
LastRead == IF queue = <<>> THEN readUpTo ELSE queue[Len(queue)].serial
Prev(i) == IF i = 1 THEN readUpTo ELSE queue[i - 1].serial

(* A live client's queue has everything pushed, in order, the end last;    *)
(* without a failure no serial number is missing.                          *)
QueueOK ==
    client \in {"posted", "streaming"} =>
        /\ \A i \in DOMAIN queue : queue[i].kind # "end" =>
              queue[i].serial > Prev(i) /\ (failures = 0 => queue[i].serial = Prev(i) + 1)
        /\ \A i \in DOMAIN queue : queue[i].kind = "end" => i = Len(queue) /\ phase["live"] = "ended"
        /\ phase["live"] # "ended" =>
              /\ LastRead + (IF Writing("live") THEN 1 ELSE 0) <= pushes
              /\ failures = 0 => LastRead + (IF Writing("live") THEN 1 ELSE 0) = pushes
        /\ Writing("live") => buffer[Len(buffer)].kind = Head(todo["live"])
        /\ \A i \in DOMAIN queue : Covered(queue[i].serial, queue[i].id)

(* The event id the client resumes from belongs to an event of this kind. *)
SavedOK == Covered(savedUpTo, saved)

(* While an approval is pending, the live emitter gives the buffer the     *)
(* longer lifetime, and what is left of it and the age of the approval     *)
(* add up to it.                                                           *)
HitlOK ==
    /\ client \in {"streaming", "waiting"} =>
         /\ pending /\ Active("live") => isHitl["live"]
         /\ phase["live"] = "stored" /\ isHitl["live"] => ttl >= HitlTtl
         /\ pending /\ age <= ApprovalTtl => ttl + age >= HitlTtl
    /\ client = "streaming" =>
         \A i \in DOMAIN queue : queue[i].kind = "approval" =>
            (Active("live") => isHitl["live"]) /\ ttl >= HitlTtl

ChatInv == TypeOK /\ EmitOK /\ BufferOK /\ IdsOK /\ TurnOK /\ QueueOK /\ SavedOK /\ HitlOK

-----------------------------------------------------------------------------

LEMMA InitChatInv == Init => ChatInv
  <1> SUFFICES ASSUME Init PROVE ChatInv
    OBVIOUS
  <1> USE TtlAssumption, StreamBounds, ClientAssumption DEF Init, ServerInit
  <1>1. TypeOK
    <2>1. ContextTtl \in Nat /\ NoTtl \in Nat /\ MaxSteps \in Nat /\ MaxFailures \in Nat
      BY DEF NoTtl
    <2>2. handshake \in 0..ContextTtl /\ ttl \in 0..NoTtl /\ pushes \in Nat
      BY <2>1
    <2>3. buffer \in Seq(Events) /\ queue \in Seq(Events \cup {Sentinel})
      OBVIOUS
    <2>4. todo \in [Emitters -> Seq(Kinds)]
      OBVIOUS
    <2>5. /\ phase \in [Emitters -> {"idle", "between", "counted", "pushed", "stored", "ended"}]
          /\ graph \in [Emitters -> {"running", "gated", "handling", "over"}]
          /\ eventId \in [Emitters -> Nat]
          /\ isHitl \in [Emitters -> BOOLEAN]
      OBVIOUS
    <2>6. steps \in 0..MaxSteps /\ failures \in 0..MaxFailures
      BY <2>1
    <2>7. ServerTypeOK
      BY <2>2, <2>3, <2>4, <2>5, <2>6 DEF ServerTypeOK
    <2>8. age \in 0..(ApprovalTtl + 1) /\ polls \in 0..MaxPolls
      OBVIOUS
    <2>9. QED
      BY <2>7, <2>8 DEF TypeOK, ClientStates
  <1>2. EmitOK /\ TurnOK /\ HitlOK
    BY DEF EmitOK, TurnOK, HitlOK, Emitters, Writing, InEmit, Active
  <1>3. BufferOK /\ IdsOK /\ SavedOK
    BY DEF BufferOK, IdsOK, AloneOK, OrderOK, SavedOK, Covered, Emitters, Active, Base
  <1>4. QueueOK
    BY DEF QueueOK, LastRead, Base, Writing, Emitters
  <1>5. QED
    BY <1>1, <1>2, <1>3, <1>4 DEF ChatInv

-----------------------------------------------------------------------------
(* Types. *)

LEMMA AppendFacts ==
  ASSUME NEW S, NEW s \in Seq(S), NEW x \in S
  PROVE  /\ Append(s, x) \in Seq(S)
         /\ Len(Append(s, x)) = Len(s) + 1
         /\ \A i \in 1..Len(s) : Append(s, x)[i] = s[i]
         /\ Append(s, x)[Len(s) + 1] = x
  OBVIOUS

(* What ReadBack does to the queue: t is the sentinel or nothing. *)
LEMMA QueueFacts ==
  ASSUME NEW S, NEW q \in Seq(S), NEW x \in S, NEW t \in Seq(S)
  PROVE  /\ q \o <<x>> \o t \in Seq(S)
         /\ Len(q \o <<x>> \o t) = Len(q) + 1 + Len(t)
         /\ \A i \in 1..Len(q) : (q \o <<x>> \o t)[i] = q[i]
         /\ (q \o <<x>> \o t)[Len(q) + 1] = x
         /\ \A i \in 1..Len(t) : (q \o <<x>> \o t)[Len(q) + 1 + i] = t[i]
  OBVIOUS

LEMMA TailFacts ==
  ASSUME NEW S, NEW s \in Seq(S), s # <<>>
  PROVE  /\ Head(s) \in S /\ Head(s) = s[1]
         /\ Tail(s) \in Seq(S)
         /\ Len(s) \in Nat \ {0} /\ Len(Tail(s)) = Len(s) - 1
         /\ \A i \in 1..Len(Tail(s)) : Tail(s)[i] = s[i + 1]
  OBVIOUS

LEMMA KindSeqs ==
  /\ <<>> \in Seq(Kinds)
  /\ \A k \in Kinds : <<k>> \in Seq(Kinds)
  /\ <<"error", "done">> \in Seq(Kinds)
  /\ {"step", "approval", "error", "done"} \subseteq Kinds
  BY DEF Kinds

(* The emitters' own variables. *)
EmittingTypes ==
    /\ phase \in [Emitters -> {"idle", "between", "counted", "pushed", "stored", "ended"}]
    /\ graph \in [Emitters -> {"running", "gated", "handling", "over"}]
    /\ todo \in [Emitters -> Seq(Kinds)]
    /\ eventId \in [Emitters -> Nat]
    /\ isHitl \in [Emitters -> BOOLEAN]
    /\ steps \in 0..MaxSteps
    /\ failures \in 0..MaxFailures

LEMMA EndRunTypes ==
  ASSUME EmittingTypes, NEW e \in Emitters, EndRun(e)
  PROVE  /\ phase' \in [Emitters -> {"idle", "between", "counted", "pushed", "stored", "ended"}]
         /\ graph' \in [Emitters -> {"running", "gated", "handling", "over"}]
         /\ todo' \in [Emitters -> Seq(Kinds)]
         /\ eventId' \in [Emitters -> Nat]
         /\ isHitl' \in [Emitters -> BOOLEAN]
  BY KindSeqs DEF EmittingTypes, EndRun, Plan

LEMMA RaiseTypes ==
  ASSUME EmittingTypes, NEW e \in Emitters, Raise(e)
  PROVE  EmittingTypes'
  <1>1. failures' \in 0..MaxFailures /\ steps' \in 0..MaxSteps
    BY StreamBounds DEF EmittingTypes, Raise
  <1>2. CASE e = "live" /\ graph[e] # "handling"
    BY <1>1, <1>2, KindSeqs DEF EmittingTypes, Raise, Plan
  <1>3. CASE ~(e = "live" /\ graph[e] # "handling")
    <2>1. EndRun(e)
      BY <1>3 DEF Raise
    <2>2. QED
      BY <1>1, <2>1, EndRunTypes DEF EmittingTypes
  <1>4. QED
    BY <1>2, <1>3

LEMMA AdvanceTypes ==
  ASSUME EmittingTypes, NEW e \in Emitters, todo[e] # <<>>, Advance(e), UNCHANGED <<steps, failures>>
  PROVE  EmittingTypes'
  <1>1. CASE Head(todo[e]) = "done"
    <2>1. EndRun(e)
      BY <1>1 DEF Advance
    <2>2. QED
      BY <2>1, EndRunTypes DEF EmittingTypes
  <1>2. CASE Head(todo[e]) # "done"
    <2>1. todo[e] \in Seq(Kinds)
      BY DEF EmittingTypes
    <2>2. Tail(todo[e]) \in Seq(Kinds)
      BY <2>1, TailFacts
    <2>3. QED
      BY <1>2, <2>2 DEF EmittingTypes, Advance, Plan
  <1>3. QED
    BY <1>1, <1>2

LEMMA EmitterTypes ==
  ASSUME ServerTypeOK, EmitOK, NEW e \in Emitters, EmitterNext(e)
  PROVE  ServerTypeOK'
  <1>0. EmittingTypes /\ MaxSteps \in Nat /\ MaxFailures \in Nat
    BY StreamBounds DEF ServerTypeOK, EmittingTypes
  <1>1. CASE GraphSteps(e) \/ HitlGateEnds(e) \/ GraphStops(e)
    <2>1. EmittingTypes'
      <3>1. CASE GraphSteps(e)
        <4>1. steps' \in 0..MaxSteps
          BY <1>0, <3>1 DEF GraphSteps, EmittingTypes
        <4>2. QED
          BY <1>0, <3>1, <4>1, KindSeqs DEF GraphSteps, Plan, EmittingTypes
      <3>2. CASE HitlGateEnds(e)
        BY <1>0, <3>2, KindSeqs DEF HitlGateEnds, Plan, EmittingTypes
      <3>3. CASE GraphStops(e)
        BY <1>0, <3>3, KindSeqs DEF GraphStops, Plan, EmittingTypes
      <3>4. QED
        BY <1>1, <3>1, <3>2, <3>3
    <2>2. UNCHANGED <<handshake, buffer, ttl, pushes, queue, overlapped>>
      BY <1>1 DEF GraphSteps, HitlGateEnds, GraphStops, redis
    <2>3. QED
      BY <2>1, <2>2 DEF ServerTypeOK, EmittingTypes
  <1>2. CASE GraphRaises(e) \/ EmitFails(e)
    <2>1. Raise(e)
      BY <1>2 DEF GraphRaises, EmitFails
    <2>2. UNCHANGED <<handshake, buffer, ttl, pushes, queue, overlapped>>
      BY <2>1 DEF Raise, redis
    <2>3. EmittingTypes'
      BY <1>0, <2>1, RaiseTypes
    <2>4. QED
      BY <2>2, <2>3 DEF ServerTypeOK, EmittingTypes
  <1>3. CASE Count(e)
    <2>1. Len(buffer) + 1 \in Nat
      BY DEF ServerTypeOK
    <2>2. (isHitl[e] \/ Head(todo[e]) = "approval") \in BOOLEAN
      OBVIOUS
    <2>3. QED
      BY <1>3, <2>1, <2>2 DEF ServerTypeOK, Count, redis
  <1>4. CASE Push(e)
    <2>1. todo[e] \in Seq(Kinds) /\ todo[e] # <<>>
      BY <1>4 DEF Push, EmitOK, InEmit, ServerTypeOK
    <2>2. Head(todo[e]) \in Kinds
      BY <2>1, TailFacts
    <2> DEFINE ev == [id |-> eventId[e], kind |-> Head(todo[e]), from |-> e, serial |-> pushes']
    <2>3. ev \in Events /\ pushes' \in Nat
      BY <1>4, <2>2 DEF Push, ServerTypeOK, Events
    <2>4. buffer' = Append(buffer, ev)
      BY <1>4 DEF Push
    <2> HIDE DEF ev
    <2>5. buffer' \in Seq(Events)
      BY <2>3, <2>4 DEF ServerTypeOK
    <2>6. ttl' \in 0..NoTtl
      BY <1>4, TtlAssumption DEF Push, NoTtl, ServerTypeOK
    <2>7. QED
      BY <1>4, <2>3, <2>5, <2>6 DEF ServerTypeOK, Push
  <1>5. CASE Expire(e)
    <2>1. ttl' \in 0..NoTtl
      BY <1>5, TtlAssumption DEF Expire, SetTtl, NoTtl
    <2>2. EmittingTypes'
      <3>1. CASE e = "live"
        BY <1>0, <1>5, <3>1 DEF Expire, EmittingTypes
      <3>2. CASE e # "live"
        <4>1. Advance(e) /\ todo[e] # <<>> /\ UNCHANGED <<steps, failures>>
          BY <1>5, <3>2 DEF Expire, EmitOK, InEmit
        <4>2. QED
          BY <1>0, <4>1, AdvanceTypes
      <3>3. QED
        BY <3>1, <3>2
    <2>3. UNCHANGED <<handshake, buffer, pushes, queue, overlapped>>
      BY <1>5 DEF Expire
    <2>4. QED
      BY <2>1, <2>2, <2>3 DEF ServerTypeOK, EmittingTypes
  <1>6. CASE ReadBack(e)
    <2>1. EmittingTypes'
      <3>1. Advance(e) /\ todo[e] # <<>> /\ UNCHANGED <<steps, failures>>
        BY <1>6 DEF ReadBack, EmitOK, InEmit
      <3>2. QED
        BY <1>0, <3>1, AdvanceTypes
    <2>2. UNCHANGED <<handshake, buffer, ttl, pushes, overlapped>>
      BY <1>6 DEF ReadBack, redis
    <2>3. queue' \in Seq(Events \cup {Sentinel})
      <3>1. buffer[Len(buffer)] \in Events
        <4>1. buffer \in Seq(Events) /\ buffer # <<>>
          BY <1>6 DEF ReadBack, EmitOK, Writing, ServerTypeOK
        <4>2. QED
          BY <4>1
      <3> DEFINE x == buffer[Len(buffer)]
                 t == IF Head(todo[e]) = "done" THEN <<Sentinel>> ELSE <<>>
      <3>2. queue' = queue \o <<x>> \o t
        BY <1>6 DEF ReadBack
      <3>3. x \in Events \cup {Sentinel} /\ t \in Seq(Events \cup {Sentinel})
        <4>1. <<>> \in Seq(Events \cup {Sentinel}) /\ <<Sentinel>> \in Seq(Events \cup {Sentinel})
          OBVIOUS
        <4>2. QED
          BY <3>1, <4>1
      <3>4. queue \in Seq(Events \cup {Sentinel})
        BY DEF ServerTypeOK
      <3> HIDE DEF x, t
      <3>5. QED
        BY <3>2, <3>3, <3>4, QueueFacts
    <2>4. QED
      BY <2>1, <2>2, <2>3 DEF ServerTypeOK, EmittingTypes
  <1>7. QED
    BY <1>1, <1>2, <1>3, <1>4, <1>5, <1>6 DEF EmitterNext

LEMMA EventsAfterFacts ==
  ASSUME NEW n \in Nat, buffer \in Seq(Events)
  PROVE  /\ \A i \in DOMAIN EventsAfter(n) : n + i \in 1..Len(buffer) /\ EventsAfter(n)[i] = buffer[n + i]
         /\ n < Len(buffer) => Len(buffer) - n \in DOMAIN EventsAfter(n)
         /\ ~(n < Len(buffer)) => DOMAIN EventsAfter(n) = {}
  BY DEF EventsAfter

LEMMA SmallestOf ==
  ASSUME NEW T \in SUBSET Nat, T # {}
  PROVE  \E x \in T : \A y \in T : x <= y
  <1>1. \E R : IsWellFoundedOn(R, Nat) /\ \A x, y \in Nat : <<y, x>> \in R <=> y < x
    <2> DEFINE R == OpToRel(<, Nat)
    <2>1. IsWellFoundedOn(R, Nat)
      BY NatLessThanWellFounded
    <2>2. \A x, y \in Nat : <<y, x>> \in R <=> y < x
      BY DEF OpToRel
    <2> HIDE DEF R
    <2>3. QED
      BY <2>1, <2>2
  <1>2. PICK R : IsWellFoundedOn(R, Nat) /\ \A x, y \in Nat : <<y, x>> \in R <=> y < x
    BY <1>1
  <1>3. PICK x \in T : \A y \in T : ~ (<<y, x>> \in R)
    BY <1>2, WFMin
  <1>4. \A y \in T : ~(y < x)
    BY <1>2, <1>3
  <1>5. QED
    BY <1>4

LEMMA BufferedEvents ==
  ASSUME buffer \in Seq(Events), NEW i \in 1..Len(buffer)
  PROVE  /\ buffer[i] \in Events
         /\ buffer[i].id \in Nat /\ buffer[i].serial \in Nat
         /\ buffer[i].kind \in Kinds /\ buffer[i].from \in Emitters
  <1>1. buffer[i] \in Events
    OBVIOUS
  <1>2. QED
    BY <1>1 DEF Events

LEMMA LargestOf ==
  ASSUME NEW T \in SUBSET Nat, T # {}, NEW b \in Nat, \A x \in T : x <= b
  PROVE  Largest(T) \in T /\ \A y \in T : y <= Largest(T)
  <1> DEFINE D == {d \in Nat : \E x \in T : d = b - x}
  <1>1. D \in SUBSET Nat /\ D # {}
    <2>1. PICK x \in T : x \in Nat
      OBVIOUS
    <2>2. x <= b
      OBVIOUS
    <2>3. b - x \in Nat
      BY <2>1, <2>2
    <2>4. b - x \in D
      BY <2>1, <2>3
    <2>5. QED
      BY <2>4
  <1>2. PICK d \in D : \A c \in D : d <= c
    <2> HIDE DEF D
    <2>1. QED
      BY <1>1, SmallestOf
  <1>3. PICK x \in T : d = b - x
    OBVIOUS
  <1>4. \A y \in T : y <= x
    <2> SUFFICES ASSUME NEW y \in T PROVE y <= x
      OBVIOUS
    <2>1. y \in Nat /\ x \in Nat /\ y <= b /\ x <= b
      OBVIOUS
    <2>2. b - y \in D
      BY <2>1
    <2>3. b - x <= b - y
      BY <1>2, <1>3, <2>2
    <2>4. QED
      BY <2>1, <2>3
  <1>5. QED
    BY <1>4 DEF Largest

(* What a reconnect that finds no end remembers: nothing new, or the last  *)
(* event of the buffer.                                                    *)
LEMMA PollFacts ==
  ASSUME TypeOK, BufferOK, SavedOK, PollMore
  PROVE  /\ saved' \in Nat /\ savedUpTo' \in Nat
         /\ \/ saved' = saved /\ savedUpTo' = savedUpTo
            \/ saved' <= Len(buffer) /\ savedUpTo' = pushes
  <1> DEFINE evs == EventsAfter(saved)
             Ids == {saved} \cup {evs[i].id : i \in DOMAIN evs}
             Serials == {savedUpTo} \cup {evs[i].serial : i \in DOMAIN evs}
  <1>1. saved' = Largest(Ids) /\ savedUpTo' = Largest(Serials)
    BY DEF PollMore
  <1>2. /\ saved \in Nat /\ savedUpTo \in Nat /\ savedUpTo <= pushes /\ pushes \in Nat
        /\ buffer \in Seq(Events) /\ Len(buffer) \in Nat /\ Len(buffer) <= pushes
    BY DEF TypeOK, ServerTypeOK, SavedOK, Covered, BufferOK
  <1>3. /\ \A i \in DOMAIN evs : saved + i \in 1..Len(buffer) /\ evs[i] = buffer[saved + i]
        /\ saved < Len(buffer) => Len(buffer) - saved \in DOMAIN evs
        /\ ~(saved < Len(buffer)) => DOMAIN evs = {}
    BY <1>2, EventsAfterFacts
  <1> HIDE DEF evs
  <1>4. \A i \in 1..Len(buffer) : /\ buffer[i].serial \in Nat /\ buffer[i].id \in Nat
                                  /\ buffer[i].serial = pushes - Len(buffer) + i
                                  /\ buffer[i].id <= Len(buffer)
    <2> SUFFICES ASSUME NEW i \in 1..Len(buffer)
                 PROVE  /\ buffer[i].serial \in Nat /\ buffer[i].id \in Nat
                        /\ buffer[i].serial = pushes - Len(buffer) + i
                        /\ buffer[i].id <= Len(buffer)
      OBVIOUS
    <2>1. buffer[i] \in Events /\ i \in DOMAIN buffer
      BY <1>2
    <2>2. buffer[i].serial \in Nat /\ buffer[i].id \in Nat
      BY <2>1 DEF Events
    <2>3. buffer[i].serial = pushes - Len(buffer) + i /\ buffer[i].id <= i
      BY <2>1 DEF BufferOK, Base
    <2>4. QED
      BY <1>2, <2>2, <2>3
  <1>5. \A i \in DOMAIN evs : /\ evs[i].serial \in Nat /\ evs[i].id \in Nat
                              /\ evs[i].serial <= pushes /\ evs[i].id <= Len(buffer)
    BY <1>2, <1>3, <1>4
  <1>6. Largest(Ids) \in Ids /\ \A y \in Ids : y <= Largest(Ids)
    <2>1. Ids \in SUBSET Nat /\ Ids # {} /\ saved + Len(buffer) \in Nat
      BY <1>2, <1>5
    <2>2. \A x \in Ids : x <= saved + Len(buffer)
      BY <1>2, <1>5
    <2> HIDE DEF Ids
    <2>3. QED
      BY <2>1, <2>2, LargestOf
  <1>7. Largest(Serials) \in Serials /\ \A y \in Serials : y <= Largest(Serials)
    <2>1. Serials \in SUBSET Nat /\ Serials # {}
      BY <1>2, <1>5
    <2>2. \A x \in Serials : x <= pushes
      BY <1>2, <1>5
    <2> HIDE DEF Serials
    <2>3. QED
      BY <1>2, <2>1, <2>2, LargestOf
  <1>8. CASE saved < Len(buffer)
    <2>1. Len(buffer) - saved \in DOMAIN evs /\ evs[Len(buffer) - saved] = buffer[Len(buffer)]
      BY <1>2, <1>3, <1>8
    <2>2. buffer[Len(buffer)].serial = pushes
      BY <1>2, <1>4, <1>8
    <2>3. pushes \in Serials
      BY <2>1, <2>2
    <2>4. Largest(Serials) = pushes
      BY <1>2, <1>5, <1>7, <2>3
    <2>5. Largest(Ids) <= Len(buffer) /\ Largest(Ids) \in Nat
      BY <1>2, <1>5, <1>6, <1>8
    <2>6. QED
      BY <1>1, <1>2, <2>4, <2>5
  <1>9. CASE ~(saved < Len(buffer))
    <2>1. Ids = {saved} /\ Serials = {savedUpTo}
      BY <1>3, <1>9
    <2>2. Largest(Ids) = saved /\ Largest(Serials) = savedUpTo
      BY <1>6, <1>7, <2>1
    <2>3. QED
      BY <1>1, <1>2, <2>2
  <1>10. QED
    BY <1>8, <1>9

LEMMA TypeStep == ChatInv /\ [Next]_vars => TypeOK'
  <1> SUFFICES ASSUME ChatInv, [Next]_vars PROVE TypeOK'
    OBVIOUS
  <1>0. TypeOK /\ ServerTypeOK /\ EmitOK /\ BufferOK /\ SavedOK
    BY DEF ChatInv, TypeOK
  <1>1. ASSUME NEW e \in Emitters, EmitterNext(e), UNCHANGED clientVars
        PROVE  TypeOK'
    <2>1. ServerTypeOK'
      BY <1>0, <1>1, EmitterTypes
    <2>2. QED
      BY <1>0, <1>1, <2>1 DEF TypeOK, clientVars
  <1>2. CASE Open \/ Decide
    <2>1. \E e \in Emitters : StartRun(e)
      BY <1>2 DEF Open, Decide, Emitters
    <2>2. ServerTypeOK'
      BY <1>0, <2>1 DEF ServerTypeOK, StartRun, redis
    <2>3. QED
      BY <1>0, <1>2, <2>2 DEF TypeOK, Open, Decide, ClientStates
  <1>3. CASE Read
    <2>1. queue \in Seq(Events \cup {Sentinel}) /\ queue # <<>>
      BY <1>0, <1>3 DEF ServerTypeOK, Read
    <2>2. Head(queue) \in Events \cup {Sentinel} /\ Tail(queue) \in Seq(Events \cup {Sentinel})
      BY <2>1, TailFacts
    <2>3. Head(queue).serial \in Nat /\ Head(queue).id \in Nat /\ (Head(queue).kind # "end" => Head(queue).from \in Emitters)
      BY <2>2 DEF Events, Sentinel
    <2>4. ServerTypeOK'
      BY <1>0, <1>3, <2>2 DEF ServerTypeOK, Read, redis, emitting
    <2>5. QED
      BY <1>0, <1>3, <2>3, <2>4 DEF TypeOK, Read
  <1>4. CASE ReadEnd
    <2>1. queue \in Seq(Events \cup {Sentinel}) /\ queue # <<>>
      BY <1>0, <1>4 DEF ServerTypeOK, ReadEnd
    <2>2. Tail(queue) \in Seq(Events \cup {Sentinel})
      BY <2>1, TailFacts
    <2>3. ServerTypeOK'
      BY <1>0, <1>4, <2>2 DEF ServerTypeOK, ReadEnd, redis, emitting
    <2>4. QED
      BY <1>0, <1>4, <2>3 DEF TypeOK, ReadEnd, LeaveStream, ClientStates
  <1>5. CASE OpenGone \/ Drop \/ DecideTooLate \/ PollGone
    <2>1. UNCHANGED serverVars /\ UNCHANGED <<saved, savedUpTo, readUpTo, age, polls, shown>>
      BY <1>5 DEF OpenGone, Drop, DecideTooLate, PollGone
    <2>2. ServerTypeOK'
      BY <1>0, <2>1 DEF ServerTypeOK, serverVars, redis, emitting
    <2>3. client' \in ClientStates /\ pending' \in BOOLEAN /\ dropped' \in BOOLEAN
      BY <1>0, <1>5 DEF TypeOK, OpenGone, Drop, DecideTooLate, PollGone, LeaveStream, ClientStates
    <2>4. QED
      BY <1>0, <2>1, <2>2, <2>3 DEF TypeOK
  <1>6. CASE PollFinal
    <2>1. buffer \in Seq(Events) /\ saved \in Nat
      BY <1>0 DEF TypeOK, ServerTypeOK
    <2>2. \A i \in DOMAIN EventsAfter(saved) : EventsAfter(saved)[i].from \in Emitters
      BY <2>1, EventsAfterFacts, BufferedEvents
    <2>3. \A i \in DOMAIN EventsAfter(saved) : 1..i \subseteq DOMAIN EventsAfter(saved)
      BY <2>1 DEF EventsAfter
    <2>4. shown' \subseteq Emitters /\ client' \in ClientStates
      BY <1>0, <1>6, <2>2, <2>3 DEF PollFinal, TypeOK, ClientStates
    <2>5. UNCHANGED serverVars /\ UNCHANGED <<saved, savedUpTo, readUpTo, age, polls, dropped>> /\ pending' = FALSE
      BY <1>6 DEF PollFinal
    <2>6. ServerTypeOK'
      BY <1>0, <2>5 DEF ServerTypeOK, serverVars, redis, emitting
    <2>7. QED
      BY <1>0, <2>4, <2>5, <2>6 DEF TypeOK
  <1>7. CASE PollMore
    <2>1. buffer \in Seq(Events) /\ saved \in Nat
      BY <1>0 DEF TypeOK, ServerTypeOK
    <2>2. \A i \in DOMAIN EventsAfter(saved) : EventsAfter(saved)[i].from \in Emitters
      BY <2>1, EventsAfterFacts, BufferedEvents
    <2>3. shown' \subseteq Emitters /\ client' \in ClientStates /\ pending' \in BOOLEAN
      BY <1>0, <1>7, <2>2 DEF PollMore, TypeOK, ClientStates
    <2>4. saved' \in Nat /\ savedUpTo' \in Nat
      BY <1>0, <1>7, PollFacts
    <2>5. UNCHANGED serverVars /\ UNCHANGED <<readUpTo, age, dropped>> /\ polls < MaxPolls /\ polls' = polls + 1
      BY <1>7 DEF PollMore
    <2>6. ServerTypeOK'
      BY <1>0, <2>5 DEF ServerTypeOK, serverVars, redis, emitting
    <2>7. polls' \in 0..MaxPolls
      BY <1>0, <2>5, ClientAssumption DEF TypeOK
    <2>8. QED
      BY <1>0, <2>3, <2>4, <2>5, <2>6, <2>7 DEF TypeOK
  <1>8. CASE CancelRun
    <2>1. EndRun("live") /\ "live" \in Emitters /\ EmittingTypes
      BY <1>0, <1>8 DEF CancelRun, Emitters, ServerTypeOK, EmittingTypes
    <2>2. UNCHANGED <<handshake, buffer, ttl, pushes, steps, overlapped, failures, clientVars>> /\ queue' = <<>>
      BY <1>8 DEF CancelRun, redis
    <2>3. queue' \in Seq(Events \cup {Sentinel})
      BY <2>2
    <2>4. ServerTypeOK'
      BY <1>0, <2>1, <2>2, <2>3, EndRunTypes DEF ServerTypeOK
    <2>5. QED
      BY <1>0, <2>2, <2>4 DEF TypeOK, clientVars
  <1>9. CASE Tick
    <2>1. handshake' \in 0..ContextTtl /\ ttl' \in 0..NoTtl
      BY <1>0, <1>9, TtlAssumption DEF Tick, Age, Older, ServerTypeOK, NoTtl
    <2>2. buffer' \in Seq(Events)
      BY <1>0, <1>9 DEF Tick, Age, ServerTypeOK
    <2>3. ServerTypeOK'
      BY <1>0, <1>9, <2>1, <2>2 DEF Tick, Age, emitting, ServerTypeOK
    <2>4. age' \in 0..(ApprovalTtl + 1)
      BY <1>0, <1>9, ClientAssumption DEF Tick, TypeOK
    <2>5. QED
      BY <1>0, <1>9, <2>3, <2>4 DEF Tick, TypeOK
  <1>10. CASE UNCHANGED vars
    BY <1>0, <1>10 DEF vars, serverVars, clientVars, redis, emitting, TypeOK, ServerTypeOK
  <1>11. QED
    BY <1>1, <1>2, <1>3, <1>4, <1>5, <1>6, <1>7, <1>8, <1>9, <1>10 DEF Next, ClientNext

-----------------------------------------------------------------------------
(* The steps of an emitter, by what they do to its variables.              *)

Same(e) == phase'[e] = phase[e] /\ todo'[e] = todo[e] /\ eventId'[e] = eventId[e] /\ isHitl'[e] = isHitl[e]

(* e is back in the graph, or its run is over. *)
Left(e) == phase'[e] = "ended" \/ (phase'[e] = "between" /\ isHitl'[e] = isHitl[e])

Quiet(e) == GraphSteps(e) \/ HitlGateEnds(e) \/ GraphStops(e) \/ GraphRaises(e) \/ EmitFails(e)

LEMMA QuietFacts ==
  ASSUME ServerTypeOK, NEW e \in Emitters, Quiet(e)
  PROVE  /\ UNCHANGED <<handshake, buffer, ttl, pushes, queue, overlapped>>
         /\ Active(e) /\ Left(e)
         /\ \A f \in Emitters \ {e} : Same(f)
         /\ failures' = 0 => failures = 0 /\ phase[e] = "between"
  <1>1. CASE GraphSteps(e) \/ HitlGateEnds(e) \/ GraphStops(e)
    BY <1>1 DEF GraphSteps, HitlGateEnds, GraphStops, Pause, Plan, redis, Active, Left, Same, ServerTypeOK
  <1>2. CASE GraphRaises(e) \/ EmitFails(e)
    <2>1. Raise(e) /\ Active(e)
      BY <1>2 DEF GraphRaises, EmitFails, Pause, Active
    <2>2. UNCHANGED <<handshake, buffer, ttl, pushes, queue, overlapped>> /\ failures' # 0
      BY <2>1 DEF Raise, redis, ServerTypeOK
    <2>3. Left(e) /\ \A f \in Emitters \ {e} : Same(f)
      BY <2>1 DEF Raise, EndRun, Plan, Left, Same, ServerTypeOK
    <2>4. QED
      BY <2>1, <2>2, <2>3
  <1>3. QED
    BY <1>1, <1>2 DEF Quiet

LEMMA CountFacts ==
  ASSUME ServerTypeOK, NEW e \in Emitters, Count(e)
  PROVE  /\ UNCHANGED <<handshake, buffer, ttl, pushes, queue, overlapped, failures>>
         /\ phase[e] = "between" /\ phase'[e] = "counted"
         /\ todo'[e] = todo[e] /\ todo[e] # <<>>
         /\ eventId'[e] = Len(buffer) + 1
         /\ isHitl'[e] <=> isHitl[e] \/ Head(todo[e]) = "approval"
         /\ \A f \in Emitters \ {e} : Same(f)
  BY DEF Count, redis, Same, ServerTypeOK

LEMMA PushFacts ==
  ASSUME ServerTypeOK, NEW e \in Emitters, Push(e)
  PROVE  /\ UNCHANGED <<handshake, queue, overlapped, failures>>
         /\ phase[e] = "counted" /\ phase'[e] = "pushed"
         /\ todo'[e] = todo[e] /\ eventId'[e] = eventId[e] /\ isHitl'[e] = isHitl[e]
         /\ \A f \in Emitters \ {e} : Same(f)
         /\ pushes' = pushes + 1 /\ Len(buffer') = Len(buffer) + 1
         /\ \A i \in 1..Len(buffer) : buffer'[i] = buffer[i]
         /\ buffer'[Len(buffer) + 1] = [id |-> eventId[e], kind |-> Head(todo[e]), from |-> e, serial |-> pushes + 1]
         /\ ttl' = IF buffer = <<>> THEN NoTtl ELSE ttl
  <1>1. buffer \in Seq(Events)
    BY DEF ServerTypeOK
  <1> DEFINE ev == [id |-> eventId[e], kind |-> Head(todo[e]), from |-> e, serial |-> pushes + 1]
  <1>2. buffer' = Append(buffer, ev) /\ pushes' = pushes + 1
    BY DEF Push
  <1>3. /\ Len(buffer') = Len(buffer) + 1 /\ buffer'[Len(buffer) + 1] = ev
        /\ \A i \in 1..Len(buffer) : buffer'[i] = buffer[i]
    <2> HIDE DEF ev
    <2>1. QED
      BY <1>1, <1>2
  <1>4. QED
    BY <1>2, <1>3 DEF Push, Same, ServerTypeOK

LEMMA AdvanceFacts ==
  ASSUME ServerTypeOK, NEW e \in Emitters, Advance(e)
  PROVE  Left(e) /\ \A f \in Emitters \ {e} : Same(f)
  BY DEF Advance, EndRun, Plan, Left, Same, ServerTypeOK

LEMMA ExpireFacts ==
  ASSUME ServerTypeOK, NEW e \in Emitters, Expire(e)
  PROVE  /\ UNCHANGED <<handshake, buffer, pushes, queue, overlapped, failures>>
         /\ phase[e] = "pushed"
         /\ ttl' = IF isHitl[e] THEN HitlTtl ELSE NormalTtl
         /\ e = "live" => /\ phase'[e] = "stored" /\ todo'[e] = todo[e]
                          /\ eventId'[e] = eventId[e] /\ isHitl'[e] = isHitl[e]
         /\ e # "live" => Left(e)
         /\ \A f \in Emitters \ {e} : Same(f)
  BY AdvanceFacts DEF Expire, SetTtl, Same, ServerTypeOK

LEMMA ReadBackFacts ==
  ASSUME ServerTypeOK, EmitOK, NEW e \in Emitters, ReadBack(e)
  PROVE  /\ UNCHANGED <<handshake, buffer, ttl, pushes, overlapped, failures>>
         /\ e = "live" /\ phase[e] = "stored" /\ Left(e)
         /\ \A f \in Emitters \ {e} : Same(f)
         /\ Head(todo[e]) = "done" => phase'[e] = "ended"
  <1>1. Advance(e) /\ UNCHANGED <<handshake, buffer, ttl, pushes, overlapped, failures>> /\ phase[e] = "stored"
    BY DEF ReadBack, redis
  <1>2. e = "live"
    BY <1>1 DEF EmitOK, Emitters
  <1>3. Head(todo[e]) = "done" => phase'[e] = "ended"
    BY <1>1 DEF Advance, EndRun, ServerTypeOK
  <1>4. QED
    BY <1>1, <1>2, <1>3, AdvanceFacts

LEMMA StartFacts ==
  ASSUME ServerTypeOK, NEW e \in Emitters, StartRun(e)
  PROVE  /\ UNCHANGED <<handshake, buffer, ttl, pushes, queue, failures>>
         /\ phase[e] = "idle" /\ phase'[e] = "between" /\ isHitl'[e] = isHitl[e]
         /\ \A f \in Emitters \ {e} : Same(f)
         /\ overlapped' <=> overlapped \/ \E f \in Emitters : Active(f)
  BY DEF StartRun, redis, Same, ServerTypeOK

LEMMA CancelFacts ==
  ASSUME ServerTypeOK, CancelRun
  PROVE  /\ UNCHANGED <<handshake, buffer, ttl, pushes, overlapped, failures, clientVars>>
         /\ Active("live") /\ phase'["live"] = "ended" /\ dropped /\ queue' = <<>>
         /\ Same("resume")
  BY DEF CancelRun, EndRun, Plan, redis, Same, ServerTypeOK, Emitters

-----------------------------------------------------------------------------

(* The steps of the system, grouped. *)
LEMMA Steps ==
  ASSUME [Next]_vars
  PROVE  \/ \E e \in Emitters : Quiet(e) /\ UNCHANGED clientVars
         \/ \E e \in Emitters : Count(e) /\ UNCHANGED clientVars
         \/ \E e \in Emitters : Push(e) /\ UNCHANGED clientVars
         \/ \E e \in Emitters : Expire(e) /\ UNCHANGED clientVars
         \/ \E e \in Emitters : ReadBack(e) /\ UNCHANGED clientVars
         \/ Open \/ Decide \/ CancelRun \/ Tick \/ Read \/ ReadEnd
         \/ UNCHANGED serverVars /\ (OpenGone \/ Drop \/ DecideTooLate \/ PollGone \/ PollFinal \/ PollMore)
         \/ UNCHANGED serverVars /\ UNCHANGED clientVars
  <1>1. CASE \E e \in Emitters : EmitterNext(e) /\ UNCHANGED clientVars
    BY <1>1 DEF EmitterNext, Quiet
  <1>2. CASE ClientNext
    BY <1>2 DEF ClientNext, OpenGone, Drop, DecideTooLate, PollGone, PollFinal, PollMore
  <1>3. QED
    BY <1>1, <1>2 DEF Next, vars

LEMMA EmitStep == ChatInv /\ [Next]_vars => EmitOK'
  <1> SUFFICES ASSUME ChatInv, [Next]_vars PROVE EmitOK'
    OBVIOUS
  <1>0. ServerTypeOK /\ ServerTypeOK' /\ EmitOK
    BY TypeStep DEF ChatInv, TypeOK
  <1> USE DEF EmitOK, Writing, InEmit
  <1>s. ASSUME NEW f \in Emitters, Same(f)
        PROVE  InEmit(f)' => todo'[f] # <<>> /\ (Head(todo'[f]) = "approval" => isHitl'[f])
    BY <1>0, <1>s DEF Same
  <1>1. ASSUME NEW e \in Emitters, Quiet(e) PROVE EmitOK'
    <2>1. ~InEmit(e)' /\ UNCHANGED <<buffer, ttl>> /\ \A f \in Emitters \ {e} : Same(f)
      BY <1>0, <1>1, QuietFacts DEF Left
    <2>2. \A f \in Emitters : InEmit(f)' => todo'[f] # <<>> /\ (Head(todo'[f]) = "approval" => isHitl'[f])
      BY <1>s, <2>1
    <2>3. \A f \in Emitters \ {e} : phase'[f] = phase[f]
      BY <2>1 DEF Same
    <2>4. phase'["resume"] # "stored"
      BY <1>0, <2>1, <2>3 DEF Emitters
    <2>5. \A f \in Emitters : Writing(f)' => buffer' # <<>>
      BY <1>0, <2>1, <2>3
    <2>6. QED
      BY <1>0, <2>1, <2>2, <2>4, <2>5
  <1>2. ASSUME NEW e \in Emitters, Count(e) PROVE EmitOK'
    <2>1. UNCHANGED <<buffer, ttl>> /\ phase'[e] = "counted" /\ \A f \in Emitters \ {e} : Same(f)
      BY <1>0, <1>2, CountFacts
    <2>2. todo'[e] # <<>> /\ (Head(todo'[e]) = "approval" => isHitl'[e])
      BY <1>0, <1>2, CountFacts
    <2>3. \A f \in Emitters : InEmit(f)' => todo'[f] # <<>> /\ (Head(todo'[f]) = "approval" => isHitl'[f])
      BY <1>s, <2>1, <2>2
    <2>4. \A f \in Emitters \ {e} : phase'[f] = phase[f]
      BY <2>1 DEF Same
    <2>5. QED
      BY <1>0, <2>1, <2>3, <2>4 DEF Emitters
  <1>3. ASSUME NEW e \in Emitters, Push(e) PROVE EmitOK'
    <2>1. buffer' # <<>>
      <3>1. Len(buffer') = Len(buffer) + 1 /\ buffer \in Seq(Events)
        BY <1>0, <1>3, PushFacts DEF ServerTypeOK
      <3>2. QED
        BY <3>1
    <2>2. phase[e] = "counted" /\ phase'[e] = "pushed" /\ \A f \in Emitters \ {e} : Same(f)
      BY <1>0, <1>3, PushFacts
    <2>3. todo'[e] # <<>> /\ (Head(todo'[e]) = "approval" => isHitl'[e])
      <3>1. todo'[e] = todo[e] /\ isHitl'[e] = isHitl[e]
        BY <1>0, <1>3, PushFacts
      <3>2. QED
        BY <1>0, <2>2, <3>1
    <2>4. \A f \in Emitters : InEmit(f)' => todo'[f] # <<>> /\ (Head(todo'[f]) = "approval" => isHitl'[f])
      BY <1>s, <2>2, <2>3
    <2>5. \A f \in Emitters \ {e} : phase'[f] = phase[f]
      BY <2>2 DEF Same
    <2>6. QED
      BY <1>0, <2>1, <2>2, <2>4, <2>5 DEF Emitters
  <1>4. ASSUME NEW e \in Emitters, Expire(e) PROVE EmitOK'
    BY <1>0, <1>4, ExpireFacts DEF Same, Left, Emitters
  <1>5. ASSUME NEW e \in Emitters, ReadBack(e) PROVE EmitOK'
    BY <1>0, <1>5, ReadBackFacts DEF Same, Left, Emitters
  <1>6. CASE Open \/ Decide
    <2>1. \E e \in Emitters : StartRun(e)
      BY <1>6 DEF Open, Decide, Emitters
    <2>2. QED
      BY <1>0, <2>1, StartFacts DEF Same, Emitters
  <1>7. CASE CancelRun
    BY <1>0, <1>7, CancelFacts DEF Same, Emitters
  <1>8. CASE Tick
    BY <1>0, <1>8 DEF Tick, Age, emitting, Active, ServerTypeOK, Emitters, NoTtl, Older
  <1>9. CASE Read \/ ReadEnd \/ UNCHANGED serverVars
    <2>1. UNCHANGED <<phase, todo, isHitl, buffer, ttl>>
      BY <1>9 DEF Read, ReadEnd, serverVars, emitting, redis
    <2>2. QED
      BY <1>0, <2>1
  <1>10. QED
    BY <1>1, <1>2, <1>3, <1>4, <1>5, <1>6, <1>7, <1>8, <1>9, Steps

(* The arithmetic of the buffer is disturbed by three kinds of steps only. *)
LEMMA BufferSteps ==
  ASSUME ChatInv, [Next]_vars
  PROVE  \/ /\ UNCHANGED <<buffer, pushes>>
            /\ \A e \in Emitters : phase'[e] = "counted" => phase[e] = "counted" /\ eventId'[e] = eventId[e]
         \/ \E e \in Emitters : Count(e)
         \/ \E e \in Emitters : Push(e)
         \/ Tick
  <1>0. ServerTypeOK /\ EmitOK
    BY DEF ChatInv, TypeOK
  <1>1. ASSUME NEW e \in Emitters, Quiet(e) \/ Expire(e) \/ ReadBack(e) \/ StartRun(e)
        PROVE  /\ UNCHANGED <<buffer, pushes>> /\ phase'[e] # "counted"
               /\ \A f \in Emitters \ {e} : Same(f)
    <2>1. CASE Quiet(e)
      BY <1>0, <2>1, QuietFacts DEF Left
    <2>2. CASE Expire(e)
      BY <1>0, <2>2, ExpireFacts DEF Left
    <2>3. CASE ReadBack(e)
      BY <1>0, <2>3, ReadBackFacts DEF Left
    <2>4. CASE StartRun(e)
      BY <1>0, <2>4, StartFacts
    <2>5. QED
      BY <1>1, <2>1, <2>2, <2>3, <2>4
  <1>2. CASE \E e \in Emitters : Quiet(e) \/ Expire(e) \/ ReadBack(e) \/ StartRun(e)
    BY <1>1, <1>2 DEF Same
  <1>3. CASE Open \/ Decide
    BY <1>2, <1>3 DEF Open, Decide, Emitters
  <1>4. CASE CancelRun
    BY <1>0, <1>4, CancelFacts DEF Same, Emitters
  <1>5. CASE Read \/ ReadEnd \/ UNCHANGED serverVars
    BY <1>5 DEF Read, ReadEnd, serverVars, emitting, redis
  <1>6. QED
    BY <1>2, <1>3, <1>4, <1>5, Steps

LEMMA BufferStep == ChatInv /\ [Next]_vars => BufferOK'
  <1> SUFFICES ASSUME ChatInv, [Next]_vars PROVE BufferOK'
    OBVIOUS
  <1>0. ServerTypeOK /\ ServerTypeOK' /\ BufferOK
    BY TypeStep DEF ChatInv, TypeOK
  <1>a. /\ buffer \in Seq(Events) /\ Len(buffer) \in Nat /\ pushes \in Nat /\ eventId \in [Emitters -> Nat]
        /\ \A i \in 1..Len(buffer) : buffer[i].serial \in Nat /\ buffer[i].id \in Nat
    BY <1>0, BufferedEvents DEF ServerTypeOK
  <1> USE DEF BufferOK, Base
  <1>1. CASE /\ UNCHANGED <<buffer, pushes>>
             /\ \A e \in Emitters : phase'[e] = "counted" => phase[e] = "counted" /\ eventId'[e] = eventId[e]
    BY <1>0, <1>1
  <1>2. ASSUME NEW e \in Emitters, Count(e) PROVE BufferOK'
    <2>1. UNCHANGED <<buffer, pushes>> /\ eventId'[e] = Len(buffer) + 1 /\ \A f \in Emitters \ {e} : Same(f)
      BY <1>0, <1>2, CountFacts
    <2>2. QED
      BY <1>0, <1>a, <2>1 DEF Same
  <1>3. ASSUME NEW e \in Emitters, Push(e) PROVE BufferOK'
    <2> DEFINE n == Len(buffer)
               ev == [id |-> eventId[e], kind |-> Head(todo[e]), from |-> e, serial |-> pushes + 1]
    <2>1. /\ phase[e] = "counted" /\ phase'[e] = "pushed" /\ \A f \in Emitters \ {e} : Same(f)
          /\ pushes' = pushes + 1 /\ Len(buffer') = n + 1
          /\ \A i \in 1..n : buffer'[i] = buffer[i]
          /\ buffer'[n + 1] = ev
      BY <1>0, <1>3, PushFacts
    <2>2. ev.id <= n + 1 /\ ev.serial = pushes + 1 /\ ev.id \in Nat
      BY <1>0, <1>a, <2>1
    <2>3. n \in Nat /\ n <= pushes /\ \A i \in 1..n : buffer[i].serial = pushes - n + i /\ buffer[i].id <= i
      BY <1>0, <1>a
    <2>4. \A f \in Emitters : phase'[f] = "counted" => phase[f] = "counted" /\ eventId'[f] = eventId[f]
      BY <2>1 DEF Same
    <2>5. DOMAIN buffer' = 1..(n + 1)
      BY <1>0, <2>1 DEF ServerTypeOK
    <2>6. \A f \in Emitters : phase'[f] = "counted" => eventId'[f] <= n + 2
      BY <1>0, <1>a, <2>4
    <2> HIDE DEF n, ev
    <2>7. \A i \in 1..(n + 1) : buffer'[i].serial = pushes - n + i /\ buffer'[i].id <= i
      <3> SUFFICES ASSUME NEW i \in 1..(n + 1) PROVE buffer'[i].serial = pushes - n + i /\ buffer'[i].id <= i
        OBVIOUS
      <3>1. CASE i \in 1..n
        BY <2>1, <2>3, <3>1
      <3>2. CASE i = n + 1
        BY <1>a, <2>1, <2>2, <2>3, <3>2
      <3>3. QED
        BY <2>3, <3>1, <3>2
    <2>8. pushes' - Len(buffer') = pushes - n /\ Len(buffer') <= pushes' /\ Len(buffer') + 1 = n + 2
      <3>1. pushes' = pushes + 1 /\ Len(buffer') = n + 1 /\ pushes \in Nat /\ n \in Nat /\ n <= pushes
        BY <1>a, <2>1, <2>3
      <3>2. QED
        BY <3>1
    <2>9. QED
      BY <2>5, <2>6, <2>7, <2>8
  <1>4. CASE Tick
    <2>1. (buffer' = buffer \/ buffer' = <<>>) /\ pushes' = pushes /\ \A e \in Emitters : phase'[e] # "counted"
      BY <1>4 DEF Tick, Age, Active, emitting
    <2>2. QED
      BY <1>0, <1>a, <2>1
  <1>5. QED
    BY <1>1, <1>2, <1>3, <1>4, BufferSteps

(* Only a start makes an emitter active. *)
LEMMA ActiveSteps ==
  ASSUME ChatInv, [Next]_vars
  PROVE  /\ overlapped => overlapped'
         /\ \/ \A e \in Emitters : Active(e)' => Active(e)
            \/ ~overlapped' => \E e \in Emitters : \A f \in Emitters \ {e} : ~Active(f)'
  <1>0. ServerTypeOK /\ EmitOK
    BY DEF ChatInv, TypeOK
  <1>1. ASSUME NEW e \in Emitters, Quiet(e) \/ Count(e) \/ Push(e) \/ Expire(e) \/ ReadBack(e)
        PROVE  Active(e) /\ overlapped' = overlapped /\ \A f \in Emitters \ {e} : Same(f)
    <2>1. CASE Quiet(e)
      BY <1>0, <2>1, QuietFacts
    <2>2. CASE Count(e)
      BY <1>0, <2>2, CountFacts DEF Active
    <2>3. CASE Push(e)
      BY <1>0, <2>3, PushFacts DEF Active
    <2>4. CASE Expire(e)
      BY <1>0, <2>4, ExpireFacts DEF Active
    <2>5. CASE ReadBack(e)
      BY <1>0, <2>5, ReadBackFacts DEF Active
    <2>6. QED
      BY <1>1, <2>1, <2>2, <2>3, <2>4, <2>5
  <1>2. CASE \E e \in Emitters : Quiet(e) \/ Count(e) \/ Push(e) \/ Expire(e) \/ ReadBack(e)
    BY <1>1, <1>2 DEF Same, Active
  <1>3. CASE Open \/ Decide
    <2>1. PICK e \in Emitters : StartRun(e)
      BY <1>3 DEF Open, Decide, Emitters
    <2>2. \A f \in Emitters \ {e} : Same(f)
      BY <1>0, <2>1, StartFacts
    <2>3. overlapped' <=> overlapped \/ \E f \in Emitters : Active(f)
      BY <1>0, <2>1, StartFacts
    <2>4. \A f \in Emitters \ {e} : Active(f)' => Active(f)
      BY <2>2 DEF Same, Active
    <2>5. QED
      BY <2>3, <2>4
  <1>4. CASE CancelRun
    BY <1>0, <1>4, CancelFacts DEF Same, Active, Emitters
  <1>5. CASE Tick
    BY <1>5 DEF Tick, Age, emitting, Active
  <1>6. CASE Read \/ ReadEnd \/ UNCHANGED serverVars
    BY <1>6 DEF Read, ReadEnd, serverVars, emitting, Active
  <1>7. QED
    BY <1>2, <1>3, <1>4, <1>5, <1>6, Steps

LEMMA AloneStep == ChatInv /\ [Next]_vars => AloneOK'
  <1> SUFFICES ASSUME ChatInv, [Next]_vars, ~overlapped'
               PROVE  /\ \A i \in DOMAIN buffer' : buffer'[i].id = i
                      /\ \A e \in Emitters : phase'[e] = "counted" => eventId'[e] = Len(buffer') + 1
                      /\ ~(Active("live")' /\ Active("resume")')
    BY DEF AloneOK
  <1>0. ServerTypeOK /\ ServerTypeOK'
    BY TypeStep DEF ChatInv, TypeOK
  <1>1. ~overlapped
    BY ActiveSteps
  <1>2. /\ \A i \in DOMAIN buffer : buffer[i].id = i
        /\ \A e \in Emitters : phase[e] = "counted" => eventId[e] = Len(buffer) + 1
        /\ ~(Active("live") /\ Active("resume"))
    BY <1>1 DEF ChatInv, IdsOK, AloneOK
  <1>3. ~(Active("live")' /\ Active("resume")')
    BY <1>2, ActiveSteps DEF Emitters
  <1>4. CASE /\ UNCHANGED <<buffer, pushes>>
             /\ \A e \in Emitters : phase'[e] = "counted" => phase[e] = "counted" /\ eventId'[e] = eventId[e]
    BY <1>2, <1>3, <1>4
  <1>5. ASSUME NEW e \in Emitters, Count(e)
        PROVE  /\ \A i \in DOMAIN buffer' : buffer'[i].id = i
               /\ \A f \in Emitters : phase'[f] = "counted" => eventId'[f] = Len(buffer') + 1
    <2>1. UNCHANGED buffer /\ eventId'[e] = Len(buffer) + 1 /\ \A f \in Emitters \ {e} : Same(f)
      BY <1>0, <1>5, CountFacts
    <2>2. QED
      BY <1>2, <2>1 DEF Same
  <1>6. ASSUME NEW e \in Emitters, Push(e)
        PROVE  /\ \A i \in DOMAIN buffer' : buffer'[i].id = i
               /\ \A f \in Emitters : phase'[f] = "counted" => eventId'[f] = Len(buffer') + 1
    <2> DEFINE n == Len(buffer)
               ev == [id |-> eventId[e], kind |-> Head(todo[e]), from |-> e, serial |-> pushes + 1]
    <2>1. /\ phase[e] = "counted" /\ phase'[e] = "pushed" /\ \A f \in Emitters \ {e} : Same(f)
          /\ Len(buffer') = n + 1
          /\ \A i \in 1..n : buffer'[i] = buffer[i]
          /\ buffer'[n + 1] = ev
      BY <1>0, <1>6, PushFacts
    <2>2. ev.id = n + 1
      BY <1>2, <2>1
    <2>3. n \in Nat /\ DOMAIN buffer = 1..n /\ DOMAIN buffer' = 1..(n + 1)
      BY <1>0, <2>1 DEF ServerTypeOK
    <2>4. \A f \in Emitters : phase'[f] # "counted"
      <3>1. Active(e) /\ Active(e)'
        BY <2>1 DEF Active
      <3>2. \A f \in Emitters \ {e} : ~Active(f)'
        BY <1>3, <3>1 DEF Emitters
      <3>3. QED
        BY <2>1, <3>2 DEF Active
    <2> HIDE DEF n, ev
    <2>5. QED
      BY <1>2, <2>1, <2>2, <2>3, <2>4
  <1>7. CASE Tick
    <2>1. (buffer' = buffer \/ buffer' = <<>>) /\ \A e \in Emitters : phase'[e] # "counted"
      BY <1>7 DEF Tick, Age, Active, emitting
    <2>2. QED
      BY <1>2, <1>3, <2>1
  <1>8. QED
    BY <1>3, <1>4, <1>5, <1>6, <1>7, BufferSteps

LEMMA OrderStep == ChatInv /\ [Next]_vars => OrderOK'
  <1> SUFFICES ASSUME ChatInv, [Next]_vars PROVE OrderOK'
    OBVIOUS
  <1>0. ServerTypeOK /\ ServerTypeOK' /\ OrderOK /\ BufferOK
    BY TypeStep DEF ChatInv, TypeOK, IdsOK
  <1>a. buffer \in Seq(Events) /\ eventId \in [Emitters -> Nat]
    BY <1>0 DEF ServerTypeOK
  <1>b. DOMAIN buffer = 1..Len(buffer) /\ Len(buffer) \in Nat
    BY <1>a
  <1>c. \A i \in DOMAIN buffer : buffer[i].id <= i
    BY <1>0 DEF BufferOK
  <1>d. \A i \in 1..Len(buffer) : buffer[i].id \in Nat
    BY <1>a, BufferedEvents
  <1>e. /\ DOMAIN buffer = 1..Len(buffer) /\ Len(buffer) \in Nat /\ eventId \in [Emitters -> Nat]
        /\ \A i \in 1..Len(buffer) : buffer[i].id \in Nat /\ buffer[i].id <= i
    BY <1>a, <1>b, <1>c, <1>d
  <1>1. CASE /\ UNCHANGED <<buffer, pushes>>
             /\ \A e \in Emitters : phase'[e] = "counted" => phase[e] = "counted" /\ eventId'[e] = eventId[e]
    BY <1>0, <1>1 DEF OrderOK
  <1>2. ASSUME NEW e \in Emitters, Count(e) PROVE OrderOK'
    <2>1. UNCHANGED buffer /\ eventId'[e] = Len(buffer) + 1 /\ \A f \in Emitters \ {e} : Same(f)
      BY <1>0, <1>2, CountFacts
    <2>2. \A i \in DOMAIN buffer : buffer[i].id < Len(buffer) + 1
      BY <1>e
    <2>3. QED
      BY <1>0, <2>1, <2>2 DEF OrderOK, Same
  <1>3. ASSUME NEW e \in Emitters, Push(e) PROVE OrderOK'
    <2> DEFINE n == Len(buffer)
               ev == [id |-> eventId[e], kind |-> Head(todo[e]), from |-> e, serial |-> pushes + 1]
    <2>1. /\ phase[e] = "counted" /\ phase'[e] = "pushed" /\ \A f \in Emitters \ {e} : Same(f)
          /\ Len(buffer') = n + 1
          /\ \A i \in 1..n : buffer'[i] = buffer[i]
          /\ buffer'[n + 1] = ev
      BY <1>0, <1>3, PushFacts
    <2>2. ev.id = eventId[e] /\ ev.from = e
      OBVIOUS
    <2>3. n \in Nat /\ DOMAIN buffer = 1..n /\ DOMAIN buffer' = 1..(n + 1)
      BY <1>0, <1>e, <2>1 DEF ServerTypeOK
    <2> HIDE DEF n, ev
    <2>4. ASSUME NEW i \in 1..(n + 1), NEW j \in 1..(n + 1), i < j, buffer'[i].from = buffer'[j].from
          PROVE  buffer'[i].id < buffer'[j].id
      <3>1. i \in 1..n /\ (j \in 1..n \/ j = n + 1)
        BY <2>3, <2>4
      <3>2. CASE j \in 1..n
        BY <1>0, <2>1, <2>3, <2>4, <3>1, <3>2 DEF OrderOK
      <3>3. CASE j = n + 1
        BY <1>0, <2>1, <2>2, <2>3, <2>4, <3>1, <3>3 DEF OrderOK
      <3>4. QED
        BY <3>1, <3>2, <3>3
    <2>5. ASSUME NEW f \in Emitters, phase'[f] = "counted", NEW i \in 1..(n + 1), buffer'[i].from = f
          PROVE  buffer'[i].id < eventId'[f]
      <3>1. f # e /\ phase[f] = "counted" /\ eventId'[f] = eventId[f]
        BY <2>1, <2>5 DEF Same
      <3>2. i \in 1..n
        BY <2>1, <2>2, <2>3, <2>5, <3>1
      <3>3. QED
        BY <1>0, <2>1, <2>3, <2>5, <3>1, <3>2 DEF OrderOK
    <2>6. QED
      BY <2>3, <2>4, <2>5 DEF OrderOK
  <1>4. CASE Tick
    <2>1. (buffer' = buffer \/ buffer' = <<>>) /\ \A e \in Emitters : phase'[e] # "counted"
      BY <1>4 DEF Tick, Age, Active, emitting
    <2>2. QED
      BY <1>0, <2>1 DEF OrderOK
  <1>5. QED
    BY <1>1, <1>2, <1>3, <1>4, BufferSteps

(* What is covered stays covered: the list only grows at its end, and when *)
(* it disappears all that was pushed is behind its next first element.     *)
LEMMA CoveredStep ==
  ASSUME ChatInv, [Next]_vars, NEW serial \in Nat, NEW id \in Nat, Covered(serial, id)
  PROVE  serial <= pushes' /\ (serial > Base' => id + Base' <= serial)
  <1>0. ServerTypeOK /\ BufferOK /\ ServerTypeOK'
    BY TypeStep DEF ChatInv, TypeOK
  <1>1. pushes \in Nat /\ Len(buffer) \in Nat /\ pushes' \in Nat
    BY <1>0 DEF ServerTypeOK
  <1>2. (pushes' = pushes /\ Base' = Base) \/ (pushes' = pushes + 1 /\ Base' = Base) \/ (pushes' = pushes /\ Base' = pushes)
    <2>1. CASE UNCHANGED <<buffer, pushes>>
      BY <2>1 DEF Base
    <2>2. ASSUME NEW e \in Emitters, Count(e) PROVE pushes' = pushes /\ Base' = Base
      BY <1>0, <2>2, CountFacts DEF Base
    <2>3. ASSUME NEW e \in Emitters, Push(e) PROVE pushes' = pushes + 1 /\ Base' = Base
      <3>1. pushes' = pushes + 1 /\ Len(buffer') = Len(buffer) + 1
        BY <1>0, <2>3, PushFacts
      <3>2. QED
        BY <1>1, <3>1 DEF Base
    <2>4. CASE Tick
      <3>1. pushes' = pushes /\ (buffer' = buffer \/ buffer' = <<>>)
        BY <2>4 DEF Tick, Age
      <3>2. QED
        BY <1>1, <3>1 DEF Base
    <2>5. QED
      BY <2>1, <2>2, <2>3, <2>4, BufferSteps
  <1>3. Base \in Nat
    BY <1>0, <1>1 DEF Base, BufferOK
  <1>4. QED
    BY <1>1, <1>2, <1>3 DEF Covered

LEMMA SavedStep == ChatInv /\ [Next]_vars => SavedOK'
  <1> SUFFICES ASSUME ChatInv, [Next]_vars PROVE SavedOK'
    OBVIOUS
  <1>0. TypeOK /\ ServerTypeOK /\ ServerTypeOK' /\ BufferOK /\ SavedOK /\ QueueOK
    BY TypeStep DEF ChatInv, TypeOK
  <1>1. CASE saved' = saved /\ savedUpTo' = savedUpTo
    BY <1>0, <1>1, CoveredStep DEF SavedOK, Covered, TypeOK
  <1>2. CASE Read
    <2>1. queue \in Seq(Events \cup {Sentinel}) /\ queue # <<>> /\ client = "streaming"
      BY <1>0, <1>2 DEF ServerTypeOK, Read
    <2>2. Head(queue) = queue[1] /\ 1 \in DOMAIN queue
      BY <2>1
    <2>3. Covered(Head(queue).serial, Head(queue).id)
      BY <1>0, <2>1, <2>2 DEF QueueOK
    <2>4. /\ UNCHANGED <<buffer, pushes>>
          /\ \/ saved' = Head(queue).id /\ savedUpTo' = Head(queue).serial
             \/ saved' = saved /\ savedUpTo' = savedUpTo
      <3>1. CASE Head(queue).kind = "approval"
        <4>1. UNCHANGED <<buffer, pushes>>
          BY <1>2 DEF Read, redis
        <4>2. saved' = Head(queue).id /\ savedUpTo' = Head(queue).serial
          BY <1>2, <3>1 DEF Read
        <4>3. QED
          BY <4>1, <4>2
      <3>2. CASE Head(queue).kind # "approval"
        BY <1>2, <3>2 DEF Read, redis
      <3>3. QED
        BY <3>1, <3>2
    <2>5. QED
      BY <1>0, <2>3, <2>4 DEF SavedOK, Covered, Base
  <1>3. CASE PollMore
    <2>1. UNCHANGED <<buffer, pushes>>
      BY <1>3 DEF PollMore, serverVars, redis
    <2>2. /\ saved' \in Nat
          /\ \/ saved' = saved /\ savedUpTo' = savedUpTo
             \/ saved' <= Len(buffer) /\ savedUpTo' = pushes
      BY <1>0, <1>3, PollFacts
    <2>3. pushes \in Nat /\ Len(buffer) \in Nat
      BY <1>0 DEF ServerTypeOK
    <2>4. QED
      BY <1>0, <1>1, <2>1, <2>2, <2>3 DEF SavedOK, Covered, Base
  <1>4. CASE UNCHANGED clientVars \/ Open \/ Decide \/ CancelRun \/ Tick \/ ReadEnd \/ OpenGone \/ Drop
             \/ DecideTooLate \/ PollGone \/ PollFinal
    BY <1>1, <1>4 DEF clientVars, Open, Decide, CancelRun, Tick, ReadEnd, OpenGone, Drop,
                      DecideTooLate, PollGone, PollFinal
  <1>5. QED
    BY <1>2, <1>3, <1>4, Steps

LEMMA TurnStep == ChatInv /\ [Next]_vars => TurnOK'
  <1> SUFFICES ASSUME ChatInv, [Next]_vars PROVE TurnOK'
    OBVIOUS
  <1>0. TypeOK /\ ServerTypeOK /\ EmitOK /\ TurnOK
    BY DEF ChatInv, TypeOK
  <1> USE DEF TurnOK
  <1>1. ASSUME NEW e \in Emitters, Quiet(e) \/ Count(e) \/ Push(e) \/ Expire(e) \/ ReadBack(e),
               UNCHANGED clientVars
        PROVE  TurnOK'
    <2>1. Active(e) /\ phase'[e] # "idle" /\ \A f \in Emitters \ {e} : Same(f)
      <3>1. CASE Quiet(e)
        BY <1>0, <3>1, QuietFacts DEF Left
      <3>2. CASE Count(e)
        BY <1>0, <3>2, CountFacts DEF Active
      <3>3. CASE Push(e)
        BY <1>0, <3>3, PushFacts DEF Active
      <3>4. CASE Expire(e)
        BY <1>0, <3>4, ExpireFacts DEF Active, Left
      <3>5. CASE ReadBack(e)
        BY <1>0, <3>5, ReadBackFacts DEF Active, Left
      <3>6. QED
        BY <1>1, <3>1, <3>2, <3>3, <3>4, <3>5
    <2>2. client # "posted"
      BY <1>0, <2>1, <1>1 DEF Active, Emitters, Same
    <2>3. client \in {"streaming", "closed", "waiting"} => phase'["resume"] = "idle"
      BY <1>0, <2>1 DEF Active, Emitters, Same
    <2>4. client = "streaming" => phase'["live"] # "idle"
      BY <1>0, <2>1 DEF Active, Emitters, Same
    <2>5. QED
      BY <1>0, <1>1, <2>2, <2>3, <2>4 DEF clientVars
  <1>2. CASE Open
    <2>1. phase'["live"] = "between" /\ phase'["resume"] = phase["resume"] /\ client = "posted" /\ client' = "streaming"
      BY <1>0, <1>2, StartFacts DEF Open, Emitters, Same
    <2>2. QED
      BY <1>0, <1>2, <2>1 DEF Open
  <1>3. CASE Decide
    BY <1>0, <1>3 DEF Decide
  <1>4. CASE CancelRun
    BY <1>0, <1>4, CancelFacts DEF Same, clientVars, Active
  <1>5. CASE Tick
    BY <1>0, <1>5 DEF Tick, Age, emitting
  <1>6. CASE Read
    BY <1>0, <1>6 DEF Read, redis, emitting
  <1>7. CASE ReadEnd
    BY <1>0, <1>7 DEF ReadEnd, redis, emitting, LeaveStream
  <1>8. CASE UNCHANGED serverVars /\ (OpenGone \/ Drop \/ DecideTooLate \/ PollGone \/ PollFinal \/ PollMore)
    <2>1. UNCHANGED <<phase, queue, readUpTo, pushes>>
      BY <1>8 DEF serverVars, emitting, redis, OpenGone, Drop, DecideTooLate, PollGone, PollFinal, PollMore
    <2>2. QED
      BY <1>0, <1>8, <2>1 DEF TypeOK, ClientStates, OpenGone, Drop, DecideTooLate, PollGone, PollFinal, PollMore, LeaveStream
  <1>9. CASE UNCHANGED serverVars /\ UNCHANGED clientVars
    BY <1>0, <1>9 DEF serverVars, clientVars, redis, emitting
  <1>10. QED
    BY <1>1, <1>2, <1>3, <1>4, <1>5, <1>6, <1>7, <1>8, <1>9, Steps

-----------------------------------------------------------------------------
(* The queue between the live emitter and the client.                      *)

Sorted ==
    /\ \A i \in DOMAIN queue : queue[i].kind # "end" =>
          queue[i].serial > Prev(i) /\ (failures = 0 => queue[i].serial = Prev(i) + 1)
    /\ \A i \in DOMAIN queue : queue[i].kind = "end" => i = Len(queue) /\ phase["live"] = "ended"
    /\ \A i \in DOMAIN queue : Covered(queue[i].serial, queue[i].id)

Level ==
    /\ phase["live"] # "ended" =>
          /\ LastRead + (IF Writing("live") THEN 1 ELSE 0) <= pushes
          /\ failures = 0 => LastRead + (IF Writing("live") THEN 1 ELSE 0) = pushes
    /\ Writing("live") => buffer[Len(buffer)].kind = Head(todo["live"])

LEMMA QueuedTypes ==
  ASSUME TypeOK
  PROVE  /\ \A i \in DOMAIN queue : queue[i].serial \in Nat /\ queue[i].id \in Nat
         /\ queue \in Seq(Events \cup {Sentinel})
         /\ Len(queue) \in Nat /\ DOMAIN queue = 1..Len(queue)
         /\ LastRead \in Nat /\ pushes \in Nat /\ readUpTo \in Nat
         /\ \A i \in 1..Len(queue) : Prev(i) \in Nat
  <1>1. queue \in Seq(Events \cup {Sentinel}) /\ readUpTo \in Nat /\ pushes \in Nat
    BY DEF TypeOK, ServerTypeOK
  <1>2. Len(queue) \in Nat /\ DOMAIN queue = 1..Len(queue)
    BY <1>1
  <1>3. \A i \in DOMAIN queue : queue[i] \in Events \cup {Sentinel}
    BY <1>1
  <1>4. \A ev \in Events \cup {Sentinel} : ev.serial \in Nat /\ ev.id \in Nat
    BY DEF Events, Sentinel
  <1>5. \A i \in DOMAIN queue : queue[i].serial \in Nat /\ queue[i].id \in Nat
    BY <1>3, <1>4
  <1>6. queue # <<>> => Len(queue) \in DOMAIN queue
    BY <1>1
  <1>7. LastRead \in Nat
    BY <1>1, <1>5, <1>6 DEF LastRead
  <1>8. \A i \in 1..Len(queue) : i # 1 => i - 1 \in DOMAIN queue
    BY <1>2
  <1>9. \A i \in 1..Len(queue) : Prev(i) \in Nat
    BY <1>1, <1>5, <1>8 DEF Prev
  <1>10. QED
    BY <1>1, <1>2, <1>5, <1>7, <1>9

(* A step that leaves the queue alone. *)
LEMMA QueueKept ==
  ASSUME ChatInv, [Next]_vars, Sorted, UNCHANGED <<queue, readUpTo>>,
         failures' = 0 => failures = 0, phase["live"] = "ended" => phase'["live"] = "ended"
  PROVE  Sorted' /\ LastRead' = LastRead
  <1>1. LastRead' = LastRead /\ \A i : Prev(i)' = Prev(i)
    BY DEF LastRead, Prev
  <1>2. TypeOK
    BY DEF ChatInv
  <1>3. \A i \in DOMAIN queue : Covered(queue[i].serial, queue[i].id)'
    <2> SUFFICES ASSUME NEW i \in DOMAIN queue PROVE Covered(queue[i].serial, queue[i].id)'
      OBVIOUS
    <2> DEFINE s == queue[i].serial
               d == queue[i].id
    <2>1. s \in Nat /\ d \in Nat /\ Covered(s, d)
      BY <1>2, QueuedTypes DEF Sorted
    <2>2. s' = s /\ d' = d
      OBVIOUS
    <2>3. s <= pushes' /\ (s > Base' => d + Base' <= s)
      <3> HIDE DEF s, d
      <3>1. QED
        BY <2>1, CoveredStep
    <2>4. QED
      BY <2>2, <2>3 DEF Covered
  <1>4. QED
    BY <1>1, <1>3 DEF Sorted

LEMMA ReadKeeps ==
  ASSUME ChatInv, Sorted, Level, Read
  PROVE  Sorted' /\ Level'
  <1>0. TypeOK
    BY DEF ChatInv
  <1>1. /\ queue \in Seq(Events \cup {Sentinel}) /\ queue # <<>>
        /\ UNCHANGED <<buffer, pushes, phase, todo, failures>>
        /\ readUpTo' = Head(queue).serial /\ queue' = Tail(queue)
    BY <1>0, QueuedTypes DEF Read, redis, emitting
  <1> DEFINE n == Len(queue)
  <1>2. /\ Head(queue) = queue[1] /\ n \in Nat \ {0} /\ DOMAIN queue = 1..n
        /\ DOMAIN queue' = 1..(n - 1) /\ Len(queue') = n - 1
        /\ \A i \in 1..(n - 1) : queue'[i] = queue[i + 1]
    <2>1. /\ Head(queue) = queue[1] /\ Tail(queue) \in Seq(Events \cup {Sentinel})
          /\ n \in Nat \ {0} /\ Len(Tail(queue)) = n - 1
          /\ \A i \in 1..(n - 1) : Tail(queue)[i] = queue[i + 1]
      BY <1>1, TailFacts
    <2>2. DOMAIN Tail(queue) = 1..(n - 1) /\ DOMAIN queue = 1..n
      BY <1>1, <2>1
    <2>3. QED
      BY <1>1, <2>1, <2>2
  <1> HIDE DEF n
  <1>3. \A i \in 1..(n - 1) : i + 1 \in 1..n /\ i + 1 # 1 /\ (i # 1 => i - 1 \in 1..(n - 1)) /\ (i + 1 = n <=> i = n - 1)
    BY <1>2
  <1>4. \A i \in 1..(n - 1) : Prev(i)' = Prev(i + 1)
    <2> SUFFICES ASSUME NEW i \in 1..(n - 1) PROVE Prev(i)' = Prev(i + 1)
      OBVIOUS
    <2>1. Prev(i)' = IF i = 1 THEN readUpTo' ELSE queue'[i - 1].serial
      BY DEF Prev
    <2>2. Prev(i + 1) = queue[i].serial
      <3>1. i + 1 # 1 /\ (i + 1) - 1 = i
        BY <1>2
      <3>2. QED
        BY <3>1 DEF Prev
    <2>3. i # 1 => queue'[i - 1] = queue[i]
      <3>1. i # 1 => i - 1 \in 1..(n - 1) /\ (i - 1) + 1 = i
        BY <1>2
      <3>2. QED
        BY <1>2, <3>1
    <2>4. QED
      BY <1>1, <1>2, <2>1, <2>2, <2>3
  <1>5. LastRead' = LastRead
    <2>1. CASE n = 1
      <3>1. queue' = <<>>
        BY <1>1, <2>1 DEF n
      <3>2. QED
        BY <1>1, <1>2, <2>1, <3>1 DEF LastRead, n
    <2>2. CASE n # 1
      <3>1. n - 1 \in 1..(n - 1) /\ (n - 1) + 1 = n
        BY <1>2, <2>2
      <3>2. queue'[n - 1] = queue[n] /\ queue' # <<>>
        BY <1>2, <3>1
      <3>3. QED
        BY <1>1, <1>2, <3>2 DEF LastRead, n
    <2>3. QED
      BY <2>1, <2>2
  <1>6. \A i \in 1..(n - 1) : queue'[i].kind # "end" =>
           queue'[i].serial > Prev(i)' /\ (failures' = 0 => queue'[i].serial = Prev(i)' + 1)
    BY <1>1, <1>2, <1>3, <1>4 DEF Sorted
  <1>7. \A i \in 1..(n - 1) : queue'[i].kind = "end" => i = n - 1 /\ phase'["live"] = "ended"
    <2> SUFFICES ASSUME NEW i \in 1..(n - 1), queue[i + 1].kind = "end"
                 PROVE  i = n - 1 /\ phase["live"] = "ended"
      BY <1>1, <1>2
    <2>1. i + 1 = Len(queue) /\ phase["live"] = "ended"
      BY <1>2, <1>3 DEF Sorted
    <2>2. i + 1 = n
      BY <2>1 DEF n
    <2>3. QED
      BY <1>2, <2>1, <2>2
  <1>8. \A i \in 1..(n - 1) : Covered(queue[i].serial, queue[i].id)'
    <2> SUFFICES ASSUME NEW i \in 1..(n - 1) PROVE Covered(queue[i].serial, queue[i].id)'
      OBVIOUS
    <2>1. Covered(queue[i + 1].serial, queue[i + 1].id) /\ queue'[i] = queue[i + 1]
      BY <1>2, <1>3 DEF Sorted
    <2>2. QED
      BY <1>1, <2>1 DEF Covered, Base
  <1>9. Sorted'
    BY <1>2, <1>6, <1>7, <1>8 DEF Sorted
  <1>10. Level'
    BY <1>1, <1>5 DEF Level, Writing
  <1>11. QED
    BY <1>9, <1>10

(* The last element of the list while an emit is between RPUSH and LINDEX. *)
LEMMA LastPushed ==
  ASSUME ChatInv, buffer # <<>>
  PROVE  /\ buffer[Len(buffer)] \in Events /\ buffer[Len(buffer)].serial = pushes
         /\ buffer[Len(buffer)].id <= Len(buffer) /\ buffer[Len(buffer)].id \in Nat
         /\ Len(buffer) \in Nat \ {0}
  <1>1. buffer \in Seq(Events) /\ BufferOK /\ pushes \in Nat
    BY DEF ChatInv, TypeOK, ServerTypeOK
  <1>2. Len(buffer) \in 1..Len(buffer) /\ Len(buffer) \in DOMAIN buffer /\ Len(buffer) \in Nat \ {0}
    BY <1>1
  <1>3. buffer[Len(buffer)] \in Events /\ buffer[Len(buffer)].id \in Nat
    BY <1>1, <1>2, BufferedEvents
  <1>4. buffer[Len(buffer)].serial = Base + Len(buffer) /\ buffer[Len(buffer)].id <= Len(buffer)
    BY <1>1, <1>2 DEF BufferOK
  <1>5. QED
    BY <1>1, <1>2, <1>3, <1>4 DEF Base

LEMMA ReadBackKeeps ==
  ASSUME ChatInv, [Next]_vars, Sorted, Level, ReadBack("live"), UNCHANGED clientVars
  PROVE  Sorted' /\ Level'
  <1>0. TypeOK /\ TypeOK' /\ ServerTypeOK /\ EmitOK /\ BufferOK /\ "live" \in Emitters
    BY TypeStep DEF ChatInv, TypeOK, Emitters
  <1>n. PICK n \in Nat : n = Len(queue)
    BY <1>0, QueuedTypes
  <1> DEFINE b == buffer[Len(buffer)]
             t == IF Head(todo["live"]) = "done" THEN <<Sentinel>> ELSE <<>>
  <1>1. /\ UNCHANGED <<buffer, pushes, failures, readUpTo>>
        /\ phase["live"] = "stored" /\ phase'["live"] \in {"between", "ended"}
        /\ Head(todo["live"]) = "done" => phase'["live"] = "ended"
    BY <1>0, ReadBackFacts DEF Left, clientVars
  <1>2. buffer # <<>>
    BY <1>0, <1>1 DEF EmitOK, Writing
  <1>3. b \in Events /\ b.serial = pushes /\ b.id <= Len(buffer) /\ b.id \in Nat /\ Len(buffer) \in Nat \ {0}
    BY <1>2, LastPushed
  <1>4. b.kind # "end"
    BY <1>3 DEF Events, Kinds
  <1>5. /\ Len(t) \in 0..1 /\ t \in Seq(Events \cup {Sentinel})
        /\ Len(t) = 1 => t[1] = Sentinel /\ phase'["live"] = "ended"
    <2>1. <<Sentinel>> \in Seq(Events \cup {Sentinel}) /\ Len(<<Sentinel>>) = 1 /\ <<Sentinel>>[1] = Sentinel
      OBVIOUS
    <2>2. <<>> \in Seq(Events \cup {Sentinel}) /\ Len(<<>>) = 0
      OBVIOUS
    <2>3. CASE Head(todo["live"]) = "done"
      BY <1>1, <2>1, <2>3
    <2>4. CASE Head(todo["live"]) # "done"
      BY <2>2, <2>4
    <2>5. QED
      BY <2>3, <2>4
  <1>6. queue' = queue \o <<b>> \o t
    BY DEF ReadBack
  <1>7. queue \in Seq(Events \cup {Sentinel}) /\ n \in Nat /\ DOMAIN queue = 1..n
    BY <1>0, <1>n, QueuedTypes
  <1> HIDE DEF b, t
  <1>8. /\ Len(queue') = n + 1 + Len(t)
        /\ \A i \in 1..n : queue'[i] = queue[i]
        /\ queue'[n + 1] = b
        /\ \A i \in 1..Len(t) : queue'[n + 1 + i] = t[i]
    <2>1. b \in Events \cup {Sentinel}
      BY <1>3
    <2>2. QED
      BY <1>n, <1>5, <1>6, <1>7, <2>1, QueueFacts
  <1>9. DOMAIN queue' = 1..Len(queue')
    BY <1>0, QueuedTypes
  <1>10. \A i \in DOMAIN queue' : i \in 1..n \/ i = n + 1 \/ (i = n + 2 /\ Len(t) = 1 /\ i = Len(queue'))
    BY <1>5, <1>7, <1>8, <1>9
  <1>11. \A i \in 1..n : queue[i].kind # "end"
    BY <1>1, <1>7 DEF Sorted
  <1>12. Len(t) = 1 => queue'[n + 2] = Sentinel
    <2>1. Len(t) = 1 => 1 \in 1..Len(t) /\ n + 1 + 1 = n + 2
      BY <1>5, <1>7
    <2>2. QED
      BY <1>5, <1>8, <2>1
  <1>13. \A i \in 1..n : Prev(i)' = Prev(i)
    <2> SUFFICES ASSUME NEW i \in 1..n PROVE Prev(i)' = Prev(i)
      OBVIOUS
    <2>1. i = 1 \/ i - 1 \in 1..n
      BY <1>7
    <2>2. QED
      BY <1>1, <1>8, <2>1 DEF Prev
  <1>14. Prev(n + 1)' = LastRead
    <2>1. CASE n = 0
      <3>1. queue = <<>>
        BY <1>n, <1>7, <2>1
      <3>2. QED
        BY <1>1, <2>1, <3>1 DEF Prev, LastRead
    <2>2. CASE n # 0
      <3>1. n + 1 # 1 /\ (n + 1) - 1 = n /\ n \in 1..n
        BY <1>7, <2>2
      <3>2. queue # <<>> /\ Len(queue) = n
        BY <1>n, <1>7, <2>2
      <3>3. Prev(n + 1)' = queue'[n].serial
        BY <3>1 DEF Prev
      <3>4. QED
        BY <1>8, <3>1, <3>2, <3>3 DEF LastRead
    <2>3. QED
      BY <2>1, <2>2
  <1>15. /\ LastRead \in Nat /\ pushes \in Nat /\ LastRead + 1 <= pushes
         /\ failures = 0 => LastRead + 1 = pushes
    BY <1>0, <1>1, QueuedTypes DEF Level, Writing
  <1>16. Sorted'
    <2> SUFFICES ASSUME NEW i \in DOMAIN queue'
                 PROVE  /\ queue'[i].kind # "end" =>
                              queue'[i].serial > Prev(i)' /\ (failures' = 0 => queue'[i].serial = Prev(i)' + 1)
                        /\ queue'[i].kind = "end" => i = Len(queue') /\ phase'["live"] = "ended"
                        /\ Covered(queue[i].serial, queue[i].id)'
      BY DEF Sorted
    <2>1. CASE i \in 1..n
      <3>1. queue'[i] = queue[i] /\ queue[i].kind # "end" /\ Prev(i)' = Prev(i)
        BY <1>8, <1>11, <1>13, <2>1
      <3>2. Covered(queue[i].serial, queue[i].id)'
        BY <1>1, <1>7, <2>1, <3>1 DEF Sorted, Covered, Base
      <3>3. QED
        BY <1>1, <1>7, <2>1, <3>1, <3>2 DEF Sorted
    <2>2. CASE i = n + 1
      <3>1. queue'[i] = b /\ Prev(i)' = LastRead
        BY <1>8, <1>14, <2>2
      <3>2. b.serial > LastRead /\ (failures' = 0 => b.serial = LastRead + 1)
        BY <1>1, <1>3, <1>15
      <3>3. b.serial <= pushes /\ (b.serial > Base => b.id + Base <= b.serial)
        BY <1>3, <1>15 DEF Base
      <3>4. Covered(queue[i].serial, queue[i].id)'
        BY <1>1, <3>1, <3>3 DEF Covered, Base
      <3>5. QED
        BY <1>4, <3>1, <3>2, <3>4
    <2>3. CASE i = n + 2 /\ Len(t) = 1 /\ i = Len(queue')
      <3>1. queue'[i] = Sentinel /\ phase'["live"] = "ended"
        BY <1>5, <1>12, <2>3
      <3>2. Sentinel.serial = 0 /\ Sentinel.id = 0 /\ Sentinel.kind = "end"
        BY DEF Sentinel
      <3>3. Base \in Nat
        BY <1>0, <1>3, <1>15 DEF BufferOK, Base
      <3>4. Covered(queue[i].serial, queue[i].id)'
        BY <1>1, <1>15, <3>1, <3>2, <3>3 DEF Covered, Base
      <3>5. QED
        BY <2>3, <3>1, <3>2, <3>4
    <2>4. QED
      BY <1>10, <2>1, <2>2, <2>3
  <1>17. Level'
    <2>1. ~Writing("live")'
      BY <1>1 DEF Writing
    <2>2. phase'["live"] # "ended" => Len(queue') = n + 1
      BY <1>5, <1>7, <1>8
    <2>3. phase'["live"] # "ended" => LastRead' = pushes
      <3>1. Len(queue') = n + 1 => queue' # <<>> /\ queue'[Len(queue')] = b
        BY <1>7, <1>8
      <3>2. QED
        BY <1>3, <2>2, <3>1 DEF LastRead
    <2>4. QED
      BY <1>1, <1>15, <2>1, <2>3 DEF Level
  <1>18. QED
    BY <1>16, <1>17

(* Where the client comes from. *)
LEMMA ClientSteps ==
  ASSUME [Next]_vars
  PROVE  /\ client' \in {"posted", "streaming"} => client \in {"posted", "streaming"}
         /\ client' \in {"streaming", "waiting"} => client \in {"streaming", "waiting"} \/ Open
  <1>1. CASE UNCHANGED clientVars \/ CancelRun \/ Tick
    BY <1>1 DEF clientVars, CancelRun, Tick
  <1>2. CASE Open \/ Decide \/ Read \/ ReadEnd \/ OpenGone \/ Drop \/ DecideTooLate \/ PollGone \/ PollFinal \/ PollMore
    BY <1>2 DEF Open, Decide, Read, ReadEnd, LeaveStream, OpenGone, Drop, DecideTooLate, PollGone, PollFinal, PollMore
  <1>3. QED
    BY <1>1, <1>2, Steps

LEMMA QueueStep == ChatInv /\ [Next]_vars => QueueOK'
  <1> SUFFICES ASSUME ChatInv, [Next]_vars, client' \in {"posted", "streaming"} PROVE Sorted' /\ Level'
    BY DEF QueueOK, Sorted, Level
  <1>0. TypeOK /\ ServerTypeOK /\ EmitOK /\ TurnOK /\ "live" \in Emitters
    BY DEF ChatInv, TypeOK, Emitters
  <1>1. client \in {"posted", "streaming"} /\ Sorted /\ Level /\ phase["resume"] = "idle"
    BY <1>0, ClientSteps DEF ChatInv, QueueOK, Sorted, Level, TurnOK
  <1>2. LastRead \in Nat /\ pushes \in Nat
    BY <1>0, QueuedTypes
  <1>3. \A e \in Emitters : Active(e) \/ phase[e] \in {"between", "counted", "pushed", "stored"} => e = "live"
    BY <1>1 DEF Active, Emitters
  <1>4. ASSUME NEW e \in Emitters, Quiet(e), UNCHANGED clientVars PROVE Sorted' /\ Level'
    <2>1. e = "live"
      BY <1>0, <1>3, <1>4, QuietFacts
    <2>2. /\ UNCHANGED <<buffer, pushes, queue, readUpTo>> /\ Active("live") /\ Left("live")
          /\ failures' = 0 => failures = 0 /\ phase["live"] = "between"
      BY <1>0, <1>4, <2>1, QuietFacts DEF clientVars
    <2>3. Sorted' /\ LastRead' = LastRead
      BY <1>1, <2>2, QueueKept DEF Active
    <2>4. ~Writing("live")' /\ phase["live"] # "ended" /\ (failures' = 0 => ~Writing("live"))
      BY <2>2 DEF Writing, Left, Active
    <2>5. LastRead' <= pushes' /\ (failures' = 0 => LastRead' = pushes')
      BY <1>1, <1>2, <2>2, <2>3, <2>4 DEF Level
    <2>6. QED
      BY <1>2, <2>2, <2>3, <2>4, <2>5 DEF Level
  <1>5. ASSUME NEW e \in Emitters, Count(e), UNCHANGED clientVars PROVE Sorted' /\ Level'
    <2>1. e = "live"
      BY <1>0, <1>3, <1>5, CountFacts
    <2>2. /\ UNCHANGED <<buffer, pushes, queue, readUpTo, failures>>
          /\ phase["live"] = "between" /\ phase'["live"] = "counted"
      BY <1>0, <1>5, <2>1, CountFacts DEF clientVars
    <2>3. Sorted' /\ LastRead' = LastRead
      BY <1>1, <2>2, QueueKept
    <2>4. QED
      BY <1>1, <2>2, <2>3 DEF Level, Writing
  <1>6. ASSUME NEW e \in Emitters, Push(e), UNCHANGED clientVars PROVE Sorted' /\ Level'
    <2>1. e = "live"
      BY <1>0, <1>3, <1>6, PushFacts
    <2>2. /\ UNCHANGED <<queue, readUpTo, failures>> /\ pushes' = pushes + 1
          /\ phase["live"] = "counted" /\ phase'["live"] = "pushed"
      BY <1>0, <1>6, <2>1, PushFacts DEF clientVars
    <2>3. buffer'[Len(buffer')].kind = Head(todo'["live"])
      <3>1. /\ Len(buffer') = Len(buffer) + 1 /\ todo'["live"] = todo["live"]
            /\ buffer'[Len(buffer) + 1].kind = Head(todo["live"])
        <4>1. /\ Len(buffer') = Len(buffer) + 1 /\ todo'["live"] = todo["live"]
              /\ buffer'[Len(buffer) + 1] = [id |-> eventId["live"], kind |-> Head(todo["live"]),
                                             from |-> "live", serial |-> pushes + 1]
          BY <1>0, <1>6, <2>1, PushFacts
        <4>2. QED
          BY <4>1
      <3>2. QED
        BY <3>1
    <2>4. Sorted' /\ LastRead' = LastRead
      BY <1>1, <2>2, QueueKept
    <2>5. /\ LastRead' + 1 <= pushes'
          /\ failures' = 0 => LastRead' + 1 = pushes'
      <3>1. LastRead <= pushes /\ (failures = 0 => LastRead = pushes)
        BY <1>1, <1>2, <2>2 DEF Level, Writing
      <3>2. QED
        BY <1>2, <2>2, <2>4, <3>1
    <2>6. QED
      BY <2>2, <2>3, <2>4, <2>5 DEF Level, Writing
  <1>7. ASSUME NEW e \in Emitters, Expire(e), UNCHANGED clientVars PROVE Sorted' /\ Level'
    <2>1. e = "live"
      BY <1>0, <1>3, <1>7, ExpireFacts
    <2>2. /\ UNCHANGED <<buffer, pushes, queue, readUpTo, failures>> /\ todo'["live"] = todo["live"]
          /\ phase["live"] = "pushed" /\ phase'["live"] = "stored"
      BY <1>0, <1>7, <2>1, ExpireFacts DEF clientVars
    <2>3. Sorted' /\ LastRead' = LastRead
      BY <1>1, <2>2, QueueKept
    <2>4. QED
      BY <1>1, <2>2, <2>3 DEF Level, Writing
  <1>8. ASSUME NEW e \in Emitters, ReadBack(e), UNCHANGED clientVars PROVE Sorted' /\ Level'
    <2>1. e = "live"
      BY <1>0, <1>8, ReadBackFacts
    <2>2. QED
      BY <1>1, <1>8, <2>1, ReadBackKeeps
  <1>9. CASE Open
    <2>1. /\ UNCHANGED <<buffer, pushes, queue, readUpTo, failures>>
          /\ phase["live"] = "idle" /\ phase'["live"] = "between"
      BY <1>0, <1>9, StartFacts DEF Open
    <2>2. Sorted' /\ LastRead' = LastRead
      BY <1>1, <2>1, QueueKept
    <2>3. QED
      BY <1>1, <2>1, <2>2 DEF Level, Writing
  <1>10. CASE Tick
    <2>1. UNCHANGED <<pushes, queue, readUpTo, failures, phase>> /\ ~Active("live")
      BY <1>0, <1>10 DEF Tick, Age, emitting
    <2>2. Sorted' /\ LastRead' = LastRead
      BY <1>1, <2>1, QueueKept
    <2>3. QED
      BY <1>1, <2>1, <2>2 DEF Level, Writing, Active
  <1>11. CASE Read
    BY <1>1, <1>11, ReadKeeps
  <1>12. CASE Decide \/ ReadEnd \/ OpenGone \/ Drop \/ DecideTooLate \/ PollGone \/ PollFinal \/ PollMore
    <2>1. client' \notin {"posted", "streaming"}
      BY <1>12 DEF Decide, ReadEnd, LeaveStream, OpenGone, Drop, DecideTooLate, PollGone, PollFinal, PollMore
    <2>2. QED
      BY <2>1
  <1>13. CASE CancelRun
    BY <1>0, <1>1, <1>13 DEF CancelRun, TurnOK
  <1>14. CASE UNCHANGED serverVars /\ UNCHANGED clientVars
    <2>1. UNCHANGED <<buffer, pushes, queue, readUpTo, failures, phase, todo>>
      BY <1>14 DEF serverVars, clientVars, redis, emitting
    <2>2. Sorted' /\ LastRead' = LastRead
      BY <1>1, <2>1, QueueKept
    <2>3. QED
      BY <1>1, <2>1, <2>2 DEF Level, Writing
  <1>15. QED
    BY <1>4, <1>5, <1>6, <1>7, <1>8, <1>9, <1>10, <1>11, <1>12, <1>13, <1>14, Steps

-----------------------------------------------------------------------------
(* The life of the buffer while a decision is awaited.                     *)

Awaiting ==
    /\ pending /\ Active("live") => isHitl["live"]
    /\ phase["live"] = "stored" /\ isHitl["live"] => ttl >= HitlTtl
    /\ pending /\ age <= ApprovalTtl => ttl + age >= HitlTtl

Announced ==
    \A i \in DOMAIN queue : queue[i].kind = "approval" =>
        (Active("live") => isHitl["live"]) /\ ttl >= HitlTtl

LEMMA HitlStep == ChatInv /\ [Next]_vars => HitlOK'
  <1> SUFFICES ASSUME ChatInv, [Next]_vars, client' \in {"streaming", "waiting"}
               PROVE  Awaiting' /\ (client' = "streaming" => Announced')
    BY DEF HitlOK, Awaiting, Announced
  <1>0. TypeOK /\ ServerTypeOK /\ TypeOK' /\ ServerTypeOK' /\ EmitOK /\ TurnOK /\ "live" \in Emitters
    BY TypeStep DEF ChatInv, TypeOK, Emitters
  <1>1. /\ ttl \in Nat /\ ttl' \in Nat /\ age \in Nat /\ age' \in Nat
        /\ HitlTtl \in Nat /\ ApprovalTtl \in Nat /\ ApprovalTtl < HitlTtl /\ NoTtl \in Nat /\ NoTtl > HitlTtl /\ ttl <= NoTtl
    BY <1>0, TtlAssumption, ClientAssumption, ApprovalWindowAssumption DEF TypeOK, ServerTypeOK, NoTtl
  <1>2. CASE Open
    <2>1. ~pending' /\ queue' = <<>> /\ phase'["live"] = "between"
      BY <1>0, <1>2, StartFacts DEF Open, TurnOK
    <2>2. QED
      BY <2>1 DEF Awaiting, Announced
  <1> SUFFICES ASSUME ~Open PROVE Awaiting' /\ (client' = "streaming" => Announced')
    BY <1>2
  <1>3. /\ client \in {"streaming", "waiting"} /\ phase["resume"] = "idle"
        /\ Awaiting /\ (client = "streaming" => Announced)
    BY <1>0, ClientSteps DEF ChatInv, HitlOK, Awaiting, Announced, TurnOK
  <1>4. \A e \in Emitters : Active(e) \/ phase[e] \in {"between", "counted", "pushed", "stored"} => e = "live"
    BY <1>3 DEF Active, Emitters
  <1>5. ASSUME NEW e \in Emitters, Quiet(e), UNCHANGED clientVars
        PROVE  Awaiting' /\ (client' = "streaming" => Announced')
    <2>1. e = "live"
      BY <1>0, <1>4, <1>5, QuietFacts
    <2>2. UNCHANGED <<ttl, queue, client, pending, age>> /\ Active("live") /\ Left("live")
      BY <1>0, <1>5, <2>1, QuietFacts DEF clientVars
    <2>3. Active("live")' => isHitl'["live"] = isHitl["live"]
      BY <2>2 DEF Left, Active
    <2>4. phase'["live"] # "stored"
      BY <2>2 DEF Left
    <2>5. QED
      BY <1>3, <2>2, <2>3, <2>4 DEF Awaiting, Announced
  <1>6. ASSUME NEW e \in Emitters, Count(e), UNCHANGED clientVars
        PROVE  Awaiting' /\ (client' = "streaming" => Announced')
    <2>1. e = "live"
      BY <1>0, <1>4, <1>6, CountFacts
    <2>2. /\ UNCHANGED <<ttl, queue, client, pending, age>>
          /\ phase["live"] = "between" /\ phase'["live"] = "counted" /\ (isHitl["live"] => isHitl'["live"])
      BY <1>0, <1>6, <2>1, CountFacts DEF clientVars
    <2>3. Active("live")
      BY <2>2 DEF Active
    <2>4. QED
      BY <1>3, <2>2, <2>3 DEF Awaiting, Announced
  <1>7. ASSUME NEW e \in Emitters, Push(e), UNCHANGED clientVars
        PROVE  Awaiting' /\ (client' = "streaming" => Announced')
    <2>1. e = "live"
      BY <1>0, <1>4, <1>7, PushFacts
    <2>2. /\ UNCHANGED <<queue, client, pending, age>> /\ (ttl' = ttl \/ ttl' = NoTtl)
          /\ phase["live"] = "counted" /\ phase'["live"] = "pushed" /\ isHitl'["live"] = isHitl["live"]
      BY <1>0, <1>7, <2>1, PushFacts DEF clientVars
    <2>3. Active("live") /\ Active("live")' /\ phase'["live"] # "stored"
      BY <2>2 DEF Active
    <2>4. Awaiting'
      <3>1. pending /\ age <= ApprovalTtl => ttl' + age >= HitlTtl
        <4>1. pending /\ age <= ApprovalTtl => ttl + age >= HitlTtl
          BY <1>3 DEF Awaiting
        <4>2. ttl + age >= HitlTtl => ttl' + age >= HitlTtl
          <5>1. CASE ttl' = ttl
            BY <5>1
          <5>2. CASE ttl' = NoTtl
            <6>1. NoTtl + age >= HitlTtl
              BY <1>1
            <6>2. QED
              BY <5>2, <6>1
          <5>3. QED
            BY <2>2, <5>1, <5>2
        <4>3. QED
          BY <4>1, <4>2
      <3>2. pending => isHitl'["live"]
        BY <1>3, <2>2, <2>3 DEF Awaiting
      <3>3. QED
        BY <2>2, <2>3, <3>1, <3>2 DEF Awaiting
    <2>5. client' = "streaming" => Announced'
      <3>1. ttl >= HitlTtl => ttl' >= HitlTtl
        BY <1>1, <2>2
      <3>2. QED
        BY <1>3, <2>2, <2>3, <3>1 DEF Announced
    <2>6. QED
      BY <2>4, <2>5
  <1>8. ASSUME NEW e \in Emitters, Expire(e), UNCHANGED clientVars
        PROVE  Awaiting' /\ (client' = "streaming" => Announced')
    <2>1. e = "live"
      BY <1>0, <1>4, <1>8, ExpireFacts
    <2>2. /\ UNCHANGED <<queue, client, pending, age>> /\ isHitl'["live"] = isHitl["live"]
          /\ ttl' = IF isHitl["live"] THEN HitlTtl ELSE NormalTtl
          /\ phase["live"] = "pushed" /\ phase'["live"] = "stored"
      BY <1>0, <1>8, <2>1, ExpireFacts DEF clientVars
    <2>3. Active("live") /\ Active("live")'
      BY <2>2 DEF Active
    <2>4. isHitl["live"] => ttl' >= HitlTtl /\ ttl' + age >= HitlTtl
      BY <1>1, <2>2
    <2>5. pending => isHitl["live"]
      BY <1>3, <2>3 DEF Awaiting
    <2>6. Awaiting'
      BY <2>2, <2>4, <2>5 DEF Awaiting
    <2>7. client' = "streaming" => Announced'
      BY <1>3, <2>2, <2>3, <2>4 DEF Announced
    <2>8. QED
      BY <2>6, <2>7
  <1>9. ASSUME NEW e \in Emitters, ReadBack(e), UNCHANGED clientVars
        PROVE  Awaiting' /\ (client' = "streaming" => Announced')
    <2>1. /\ e = "live" /\ UNCHANGED <<ttl, client, pending, age>>
          /\ phase["live"] = "stored" /\ Left("live")
      BY <1>0, <1>9, ReadBackFacts DEF clientVars
    <2>2. Active("live") /\ (Active("live")' => isHitl'["live"] = isHitl["live"]) /\ phase'["live"] # "stored"
      BY <2>1 DEF Left, Active
    <2>3. Awaiting'
      BY <1>3, <2>1, <2>2 DEF Awaiting
    <2>4. ASSUME client' = "streaming" PROVE Announced'
      <3>1. client = "streaming"
        BY <2>1, <2>4
      <3> DEFINE b == buffer[Len(buffer)]
      <3>2. b.kind = "approval" => isHitl["live"] /\ ttl >= HitlTtl
        <4>1. b.kind = Head(todo["live"])
          BY <2>1, <3>1 DEF ChatInv, QueueOK, Writing
        <4>2. Head(todo["live"]) = "approval" => isHitl["live"]
          BY <1>0, <2>1 DEF EmitOK, InEmit
        <4>3. isHitl["live"] => ttl >= HitlTtl
          BY <1>3, <2>1 DEF Awaiting
        <4>4. QED
          BY <4>1, <4>2, <4>3
      <3>3. \A i \in DOMAIN queue' : (i \in DOMAIN queue /\ queue'[i] = queue[i]) \/ queue'[i] = b \/ queue'[i] = Sentinel
        <4> DEFINE t == IF Head(todo["live"]) = "done" THEN <<Sentinel>> ELSE <<>>
        <4>1. queue' = queue \o <<b>> \o t
          BY <1>9, <2>1 DEF ReadBack
        <4>2. /\ t \in Seq(Events \cup {Sentinel}) /\ Len(t) \in 0..1 /\ (Len(t) = 1 => t[1] = Sentinel)
          <5>1. <<Sentinel>> \in Seq(Events \cup {Sentinel}) /\ Len(<<Sentinel>>) = 1 /\ <<Sentinel>>[1] = Sentinel
            OBVIOUS
          <5>2. <<>> \in Seq(Events \cup {Sentinel}) /\ Len(<<>>) = 0
            OBVIOUS
          <5>3. CASE Head(todo["live"]) = "done"
            BY <5>1, <5>3
          <5>4. CASE Head(todo["live"]) # "done"
            BY <5>2, <5>4
          <5>5. QED
            BY <5>3, <5>4
        <4>3. b \in Events \cup {Sentinel}
          BY <1>0, <2>1, LastPushed DEF EmitOK, Writing
        <4>4. queue \in Seq(Events \cup {Sentinel}) /\ DOMAIN queue = 1..Len(queue) /\ Len(queue) \in Nat
          BY <1>0, QueuedTypes
        <4> HIDE DEF b, t
        <4>5. /\ queue' \in Seq(Events \cup {Sentinel})
              /\ Len(queue') = Len(queue) + 1 + Len(t)
              /\ \A i \in 1..Len(queue) : queue'[i] = queue[i]
              /\ queue'[Len(queue) + 1] = b
              /\ \A i \in 1..Len(t) : queue'[Len(queue) + 1 + i] = t[i]
          BY <4>1, <4>2, <4>3, <4>4, QueueFacts
        <4>6. SUFFICES ASSUME NEW i \in DOMAIN queue'
                       PROVE  \/ i \in DOMAIN queue /\ queue'[i] = queue[i]
                              \/ queue'[i] = b
                              \/ queue'[i] = Sentinel
          OBVIOUS
        <4>7. i \in 1..Len(queue) \/ i = Len(queue) + 1 \/ (Len(t) = 1 /\ i = Len(queue) + 1 + 1)
          BY <4>2, <4>4, <4>5
        <4>8. QED
          BY <4>2, <4>4, <4>5, <4>7
      <3>4. Sentinel.kind # "approval"
        BY DEF Sentinel
      <3> HIDE DEF b
      <3>5. QED
        BY <1>3, <2>1, <2>2, <3>1, <3>2, <3>3, <3>4 DEF Announced
    <2>5. QED
      BY <2>3, <2>4
  <1>10. CASE Tick
    <2>1. /\ ~Active("live") /\ UNCHANGED <<client, pending, phase, queue>>
          /\ ttl' = IF ttl = NoTtl THEN ttl ELSE Older(ttl)
          /\ age' = IF pending /\ age <= ApprovalTtl THEN age + 1 ELSE age
          /\ client = "streaming" => queue = <<>>
      BY <1>0, <1>10 DEF Tick, Age, emitting
    <2>2. ~Active("live")' /\ phase'["live"] # "stored"
      BY <2>1 DEF Active
    <2>3. pending /\ age' <= ApprovalTtl => ttl' + age' >= HitlTtl
      <3> SUFFICES ASSUME pending, age' <= ApprovalTtl PROVE ttl' + age' >= HitlTtl
        OBVIOUS
      <3>1. age <= ApprovalTtl /\ age' = age + 1
        BY <1>1, <2>1
      <3>2. ttl + age >= HitlTtl
        BY <1>3, <3>1 DEF Awaiting
      <3>3. ttl # 0
        BY <1>1, <3>1, <3>2
      <3>4. ttl' = ttl \/ ttl' = ttl - 1
        BY <2>1, <3>3 DEF Older
      <3>5. QED
        <4>1. ttl \in Nat /\ ttl' \in Nat /\ age \in Nat /\ age' \in Nat /\ HitlTtl \in Nat
          BY <1>1
        <4>2. CASE ttl' = ttl
          BY <4>1, <4>2, <3>1, <3>2
        <4>3. CASE ttl' = ttl - 1
          <5>1. ttl' + age' = (ttl - 1) + (age + 1)
            BY <3>1, <4>3
          <5>2. (ttl - 1) + (age + 1) = ttl + age
            BY <4>1
          <5>3. QED
            BY <3>2, <5>1, <5>2
        <4>4. QED
          BY <3>4, <4>2, <4>3
    <2>4. QED
      BY <2>1, <2>2, <2>3 DEF Awaiting, Announced
  <1>11. CASE Read
    <2>1. /\ UNCHANGED <<client, ttl, age, phase, isHitl>> /\ client = "streaming" /\ queue # <<>>
          /\ queue' = Tail(queue)
          /\ pending' = pending \/ Head(queue).kind = "approval"
      BY <1>11 DEF Read, redis, emitting
    <2>2. /\ Head(queue) = queue[1] /\ 1 \in DOMAIN queue
          /\ \A i \in DOMAIN queue' : i + 1 \in DOMAIN queue /\ queue'[i] = queue[i + 1]
      <3>1. queue \in Seq(Events \cup {Sentinel}) /\ DOMAIN queue = 1..Len(queue)
        BY <1>0, QueuedTypes
      <3>2. /\ Head(queue) = queue[1] /\ Len(queue) \in Nat \ {0}
            /\ Tail(queue) \in Seq(Events \cup {Sentinel}) /\ Len(Tail(queue)) = Len(queue) - 1
            /\ \A i \in 1..Len(Tail(queue)) : Tail(queue)[i] = queue[i + 1]
        BY <2>1, <3>1, TailFacts
      <3>3. DOMAIN queue' = 1..(Len(queue) - 1)
        BY <2>1, <3>2
      <3>4. QED
        BY <2>1, <3>1, <3>2, <3>3
    <2>3. Head(queue).kind = "approval" => (Active("live") => isHitl["live"]) /\ ttl >= HitlTtl
      BY <1>3, <2>1, <2>2 DEF Announced
    <2>4. Announced'
      BY <1>3, <2>1, <2>2 DEF Announced, Active
    <2>5. Awaiting'
      <3>1. CASE Head(queue).kind = "approval"
        <4>1. ttl + age >= HitlTtl
          BY <1>1, <2>3, <3>1
        <4>2. QED
          BY <1>3, <2>1, <2>3, <3>1, <4>1 DEF Awaiting, Active
      <3>2. CASE Head(queue).kind # "approval"
        <4>1. pending' = pending
          BY <1>11, <3>2 DEF Read
        <4>2. QED
          BY <1>3, <2>1, <4>1 DEF Awaiting, Active
      <3>3. QED
        BY <3>1, <3>2
    <2>6. QED
      BY <2>4, <2>5
  <1>12. CASE ReadEnd \/ Drop
    <2>1. client' # "streaming" /\ client' = "waiting" /\ UNCHANGED <<pending, age>>
      BY <1>12 DEF ReadEnd, Drop, LeaveStream
    <2>2. UNCHANGED <<ttl, phase, isHitl>>
      BY <1>12 DEF ReadEnd, Drop, serverVars, redis, emitting
    <2>3. QED
      BY <1>3, <2>1, <2>2 DEF Awaiting, Active
  <1>13. CASE CancelRun
    <2>1. phase'["live"] = "ended" /\ queue' = <<>> /\ UNCHANGED <<ttl, client, pending, age>>
      BY <1>0, <1>13, CancelFacts DEF clientVars
    <2>2. QED
      BY <1>3, <2>1 DEF Awaiting, Announced, Active
  <1>14. CASE Decide \/ OpenGone \/ DecideTooLate \/ PollGone \/ PollFinal \/ PollMore
    <2>1. client' \notin {"streaming", "waiting"}
      BY <1>14 DEF Decide, OpenGone, DecideTooLate, PollGone, PollFinal, PollMore
    <2>2. QED
      BY <2>1
  <1>15. CASE UNCHANGED serverVars /\ UNCHANGED clientVars
    BY <1>3, <1>15 DEF serverVars, clientVars, redis, emitting, Awaiting, Announced, Active
  <1>16. QED
    BY <1>5, <1>6, <1>7, <1>8, <1>9, <1>10, <1>11, <1>12, <1>13, <1>14, <1>15, Steps

-----------------------------------------------------------------------------

LEMMA ChatInvStep == ChatInv /\ [Next]_vars => ChatInv'
  BY TypeStep, EmitStep, BufferStep, AloneStep, OrderStep, TurnStep, QueueStep, SavedStep, HitlStep
  DEF ChatInv, IdsOK

(* The whole invariant holds of every behaviour of one turn.               *)
THEOREM ChatInvariant == Spec => []ChatInv
  <1>1. Init => ChatInv
    BY InitChatInv
  <1>2. ChatInv /\ [Next]_vars => ChatInv'
    BY ChatInvStep
  <1>3. QED
    BY <1>1, <1>2, PTL DEF Spec

(* Every variable keeps its type; in particular no emit takes the head of  *)
(* an empty list of events or reads back from an empty buffer.             *)
THEOREM TypeCorrect == Spec => []TypeOK
  <1>1. ChatInv => TypeOK
    BY DEF ChatInv
  <1>2. QED
    BY <1>1, ChatInvariant, PTL

(* Event id n is at index n - 1 (replay.py) as long as the emitters of the *)
(* stream do not overlap, whatever fails in the middle of an emit; when    *)
(* they do, an id is at most its index and repeats between emitters only.  *)
THEOREM IdsFollowTheList == Spec => []IdsAreIndexes
  <1>1. ChatInv => IdsAreIndexes
    BY DEF ChatInv, IdsOK, AloneOK, OrderOK, BufferOK, IdsAreIndexes
  <1>2. QED
    BY <1>1, ChatInvariant, PTL

(* A reconnect with the remembered id is sent everything that was pushed   *)
(* after the remembered event, overlapping emitters or not (FR-14).        *)
THEOREM NothingSkipped == Spec => []ReplayNeverSkips
  <1>1. ChatInv => ReplayNeverSkips
    <2> SUFFICES ASSUME ChatInv, buffer # <<>>, buffer[1].serial <= savedUpTo,
                        NEW i \in DOMAIN buffer, buffer[i].serial > savedUpTo
                 PROVE  i > saved
      BY DEF ReplayNeverSkips
    <2>1. /\ buffer \in Seq(Events) /\ pushes \in Nat /\ saved \in Nat /\ savedUpTo \in Nat
          /\ BufferOK /\ SavedOK
      BY DEF ChatInv, TypeOK, ServerTypeOK
    <2>2. 1 \in DOMAIN buffer /\ i \in Nat /\ Len(buffer) \in Nat
      BY <2>1
    <2>3. buffer[1].serial = Base + 1 /\ buffer[i].serial = Base + i /\ Base \in Nat
      BY <2>1, <2>2 DEF BufferOK, Base
    <2>4. savedUpTo > Base
      BY <2>1, <2>3
    <2>5. saved + Base <= savedUpTo
      BY <2>1, <2>4 DEF SavedOK, Covered
    <2>6. QED
      BY <2>1, <2>2, <2>3, <2>5
  <1>2. QED
    BY <1>1, ChatInvariant, PTL

(* While the user may still decide, the events are there to be replayed    *)
(* (FR-14, NFR-8).                                                         *)
THEOREM BufferAwaitsDecision == Spec => []BufferOutlivesApproval
  <1>1. ChatInv => BufferOutlivesApproval
    <2> SUFFICES ASSUME ChatInv, pending, client \in {"streaming", "waiting"}, age <= ApprovalTtl
                 PROVE  buffer # <<>>
      BY DEF BufferOutlivesApproval
    <2>1. ttl + age >= HitlTtl
      BY DEF ChatInv, HitlOK
    <2>2. ttl \in Nat /\ age \in Nat /\ HitlTtl \in Nat /\ ApprovalTtl \in Nat /\ ApprovalTtl < HitlTtl
      BY TtlAssumption, ClientAssumption, ApprovalWindowAssumption DEF ChatInv, TypeOK, ServerTypeOK
    <2>3. ttl # 0
      BY <2>1, <2>2
    <2>4. QED
      BY <2>3 DEF ChatInv, EmitOK
  <1>2. QED
    BY <1>1, ChatInvariant, PTL

(* The live connection gets the events in the order of the buffer, none    *)
(* twice, and none missing when nothing failed.                            *)
THEOREM LiveOrder == Spec => []LiveInOrder
  <1>1. ChatInv => LiveInOrder
    <2> SUFFICES ASSUME ChatInv, client = "streaming", NEW i \in DOMAIN queue, queue[i].kind # "end"
                 PROVE  IF failures = 0 THEN queue[i].serial = Prev(i) + 1 ELSE queue[i].serial > Prev(i)
      BY DEF LiveInOrder, Prev
    <2>1. QED
      BY DEF ChatInv, QueueOK
  <1>2. QED
    BY <1>1, ChatInvariant, PTL

=============================================================================
