------------------------ MODULE ConversationsProofs ------------------------
(***************************************************************************)
(* Proofs about Conversations for every finite set of conversations, any   *)
(* number of transactions at a time, every page size and all bounds.       *)
(*                                                                         *)
(* The inductive invariant is ConvInv.  Counters and purge rest on the row *)
(* locks: TxOK says that what a transaction holds exists and is not the    *)
(* job's, so what it read of the row is still so when it commits.  RacesOK *)
(* carries a free title from its probe to its commit: whoever takes it in  *)
(* between races.  WalkOK is about the pages read so far: what they do not *)
(* show is older than the cursor, ties with the last row of a page, or     *)
(* changed.                                                                *)
(***************************************************************************)
EXTENDS Conversations, FiniteSetTheorems, FunctionTheorems, WellFoundedInduction, TLAPS

(* The process: what it has when, and that the job is over in time. *)
LifeOK ==
    /\ phase \in {"down", "migrating", "checkpointer"} => saver = "none"
    /\ phase = "setup" => saver = "entered"
    /\ phase \notin {"serving", "stopping"} => ~tasks
    /\ phase \in {"migrating", "checkpointer", "setup"} => available
    /\ phase \in {"registry", "serving", "stopping"} => (available => saver = "ready") /\ (~available => ~required)
    /\ phase \in {"serving", "stopping"} => (tasks <=> available)
    /\ job # "off" => phase \in {"serving", "stopping"} /\ tasks

Updates == {"touch", "save", "delete"}
Updating(k) == tx[k].kind \in Updates /\ tx[k].at = "holding"

TxOK(k) ==
    LET c == tx[k].conv
    IN tx[k].kind # "none" =>
        /\ c \in created
        /\ tx[k].at = "found" => tx[k].kind = "delete"
        /\ tx[k].kind # "create" /\ tx[k].at = "holding" => c \in rows \ chosen
        /\ Is(k, "save", "holding") => tx[k].suffix = counted[c]
        /\ tx[k].kind = "create" => /\ c \notin rows /\ title[c] = 0 /\ tx[k].suffix > 0
                                    /\ \A n \in 1..(tx[k].suffix - 1) : \E d \in Convs : title[d] = n

TxsOK ==
    /\ \A k \in Clients : TxOK(k)
    /\ \A j, k \in Clients : j # k /\ tx[j].conv = tx[k].conv =>
          ~(tx[j].kind = "create" /\ tx[k].kind = "create") /\ ~(Updating(j) /\ Updating(k))
    /\ \A c \in Convs \ created : title[c] = 0

RacesOK ==
    /\ SameTitleOnlyByRace
    /\ \A k \in Clients : Is(k, "create", "holding") =>
          \A d \in Visible : title[d] = tx[k].suffix => {tx[k].conv, d} \in raced

JobOK ==
    /\ job \notin {"selecting", "deleting"} => chosen = {} /\ todo = {}
    /\ job = "selecting" => open \subseteq snapshot \cup late
    /\ job = "deleting" => chosen \cap audited = {}
    /\ \A c \in chosen : Stale(c) /\ (c \in open => c \in late)

CountsOK == \A c \in Convs : counted[c] = messages[c]

WalkOK ==
    /\ walk \in [at : {"idle", "paging", "end"}, cursor : 0..MaxClock, got : SUBSET Convs,
                 cursors : SUBSET (0..MaxClock), again : SUBSET Convs, changed : SUBSET Convs]
    /\ walk.at = "idle" => walk = NoWalk
    /\ \A c \in rows : last[c] > 0
    /\ walk.at = "paging" =>
          /\ walk.cursor = 0 => walk.got = {}
          /\ \A c \in walk.got \ walk.changed : last[c] >= walk.cursor
          /\ walk.cursor # 0 => \A c \in Visible \ (walk.got \cup walk.changed) :
                  last[c] >= walk.cursor => last[c] \in walk.cursors
    /\ PagesMissOnlyTies

ConvInv == TypeOK /\ LifeOK /\ TxsOK /\ RacesOK /\ JobOK /\ CountsOK /\ WalkOK

-----------------------------------------------------------------------------
(* Facts of arithmetic and counting. *)

LEMMA SmallestOf ==
  ASSUME NEW T \in SUBSET Nat, T # {}
  PROVE  \E x \in T : \A y \in T : x <= y
  <1>1. \E R : IsWellFoundedOn(R, Nat) /\ \A x, y \in Nat : <<y, x>> \in R <=> y < x
    <2> DEFINE R == OpToRel(<, Nat)
    <2>1. IsWellFoundedOn(R, Nat)
      BY NatLessThanWellFounded
    <2>2. \A x, y \in Nat : <<y, x>> \in R <=> y < x
      BY DEF OpToRel
    <2> HIDE DEF R
    <2>3. QED
      BY <2>1, <2>2
  <1>2. PICK R : IsWellFoundedOn(R, Nat) /\ \A x, y \in Nat : <<y, x>> \in R <=> y < x
    BY <1>1
  <1>3. PICK x \in T : \A y \in T : ~ (<<y, x>> \in R)
    BY <1>2, WFMin
  <1>4. \A y \in T : ~(y < x)
    BY <1>2, <1>3
  <1>5. QED
    BY <1>4

LEMMA Pigeons ==
  ASSUME NEW S, IsFiniteSet(S), NEW c \in S, NEW f \in [S -> Nat], f[c] = 0, NEW n \in Nat,
         \A m \in 1..n : \E s \in S : f[s] = m
  PROVE  n < Cardinality(S)
  <1> DEFINE D == {s \in S : f[s] \in 1..n}
             g == [s \in D |-> f[s]]
  <1>1. g \in Surjection(D, 1..n)
    <2>1. g \in [D -> 1..n] /\ \A m \in 1..n : \E s \in D : g[s] = m
      OBVIOUS
    <2> HIDE DEF g, D
    <2>2. QED
      BY <2>1, Fun_IsSurj
  <1>2. D \subseteq S /\ D # S /\ IsFiniteSet(D) /\ Cardinality(D) <= Cardinality(S)
    BY FS_Subset
  <1>3. Cardinality(D) # Cardinality(S)
    BY <1>2, FS_Subset
  <1>4. Cardinality(1..n) = n
    BY FS_Interval
  <1>5. Cardinality(D) \in Nat /\ Cardinality(S) \in Nat
    BY <1>2, FS_CardinalityType
  <1>6. Cardinality(1..n) <= Cardinality(D)
    BY <1>1, <1>2, FS_Surjection
  <1>7. QED
    BY <1>2, <1>3, <1>4, <1>5, <1>6

-----------------------------------------------------------------------------
(* Who writes what. *)

Starting == \E k \in Clients, stamp \in 1..MaxClock :
    \/ StartCreate(k, stamp)
    \/ \E c \in Convs :
        (\E kind \in Kinds : StartRequest(k, kind, c, stamp)) \/ StartGate(k, c, stamp)
Probing == \E k \in Clients : ProbeTitle(k) \/ FindToDelete(k)
Locking == \E k \in Clients : UpdateRow(k) \/ InsertMessage(k) \/ InsertApproval(k)
Aborting == \E k \in Clients : Abort(k)
Creating == \E k \in Clients : CommitCreate(k)
Touching == \E k \in Clients : CommitTouch(k)
Counting == \E k \in Clients : CommitMessage(k)
Deleting == \E k \in Clients : CommitDelete(k)
Gating == \E k \in Clients : CommitGate(k)
Closing == \E c \in Convs : CloseApproval(c)
Taking == \E c \in Convs : JobTake(c)

LEMMA Steps ==
  ASSUME [Next]_vars
  PROVE  \/ Starting \/ Probing \/ Locking \/ Aborting
         \/ Creating \/ Touching \/ Counting \/ Deleting \/ Gating \/ Closing
         \/ BeginWalk \/ ReadPage
         \/ JobSelect \/ Taking \/ JobDelete \/ JobCommit \/ JobFails
         \/ Live \/ Shutdown \/ StopJob \/ EndProcess \/ Age \/ UNCHANGED vars
  BY DEF Next, Work, JobStep, Starting, Probing, Locking, Aborting, Creating, Touching, Counting,
         Deleting, Gating, Closing, Taking

LEMMA Writers ==
  ASSUME [Next]_vars
  PROVE  /\ UNCHANGED <<phase, required, available, saver, tasks>>
               \/ Live \/ Shutdown \/ StopJob \/ EndProcess
         /\ UNCHANGED <<boots, faults>> \/ Live \/ EndProcess \/ Aborting \/ JobFails
         /\ UNCHANGED rows \/ Creating \/ JobCommit
         /\ UNCHANGED created \/ Starting
         /\ UNCHANGED <<title, raced>> \/ Creating
         /\ UNCHANGED last \/ Creating \/ Touching
         /\ UNCHANGED hits \/ Touching
         /\ UNCHANGED deleted \/ Deleting \/ JobCommit
         /\ UNCHANGED <<messages, counted>> \/ Counting \/ JobCommit
         /\ UNCHANGED open \/ Gating \/ Closing \/ JobCommit
         /\ UNCHANGED audited \/ Closing
         /\ UNCHANGED late \/ Gating \/ JobSelect
         /\ UNCHANGED cutoff \/ Age
         /\ \/ UNCHANGED <<job, snapshot, todo, chosen>>
            \/ JobSelect \/ Taking \/ JobDelete \/ JobCommit \/ JobFails
            \/ Live \/ StopJob \/ EndProcess
         /\ \/ UNCHANGED tx
            \/ Starting \/ Probing \/ Locking \/ Aborting
            \/ Creating \/ Touching \/ Counting \/ Deleting \/ Gating \/ EndProcess
         /\ \/ UNCHANGED walk
            \/ Creating \/ Touching \/ Deleting \/ BeginWalk \/ ReadPage \/ JobCommit
            \/ Shutdown \/ EndProcess
  <1>1. ASSUME Starting
        PROVE  /\ UNCHANGED <<lifeVars, rows, title, last, hits, deleted, messages, counted, open, audited>>
               /\ UNCHANGED <<jobVars, cutoff, walk, raced, late>>
    BY <1>1 DEF Starting, StartCreate, StartRequest, StartGate, Start, dbVars
  <1>2. ASSUME Probing \/ Locking
        PROVE  UNCHANGED <<lifeVars, dbVars, jobVars, timeVars, walk, raced, late>>
    BY <1>2 DEF Probing, Locking, ProbeTitle, FindToDelete, UpdateRow, InsertMessage, InsertApproval
  <1>3. ASSUME Aborting
        PROVE  /\ UNCHANGED <<phase, required, available, saver, tasks, boots>>
               /\ UNCHANGED <<dbVars, jobVars, timeVars, walk, raced, late>>
    BY <1>3 DEF Aborting, Abort
  <1>4. ASSUME Creating
        PROVE  /\ UNCHANGED <<created, hits, deleted, messages, counted, open, audited>>
               /\ UNCHANGED <<lifeVars, jobVars, timeVars, late>>
    BY <1>4 DEF Creating, CommitCreate
  <1>5. ASSUME Touching
        PROVE  /\ UNCHANGED <<rows, created, title, deleted, messages, counted, open, audited>>
               /\ UNCHANGED <<lifeVars, jobVars, timeVars, raced, late>>
    BY <1>5 DEF Touching, CommitTouch
  <1>6. ASSUME Counting
        PROVE  /\ UNCHANGED <<rows, created, title, last, hits, deleted, open, audited>>
               /\ UNCHANGED <<lifeVars, jobVars, timeVars, walk, raced, late>>
    BY <1>6 DEF Counting, CommitMessage
  <1>7. ASSUME Deleting
        PROVE  /\ UNCHANGED <<rows, created, title, last, hits, messages, counted, open, audited>>
               /\ UNCHANGED <<lifeVars, jobVars, timeVars, raced, late>>
    BY <1>7 DEF Deleting, CommitDelete
  <1>8. ASSUME Gating
        PROVE  /\ UNCHANGED <<rows, created, title, last, hits, deleted, messages, counted, audited>>
               /\ UNCHANGED <<lifeVars, jobVars, timeVars, walk, raced>>
    BY <1>8 DEF Gating, CommitGate
  <1>9. ASSUME Closing
        PROVE  /\ UNCHANGED <<rows, created, title, last, hits, deleted, messages, counted>>
               /\ UNCHANGED <<lifeVars, tx, jobVars, timeVars, walk, raced, late>>
    BY <1>9 DEF Closing, CloseApproval
  <1>10. ASSUME BeginWalk \/ ReadPage
         PROVE  UNCHANGED <<lifeVars, dbVars, tx, jobVars, clock, cutoff, raced, late>>
    BY <1>10 DEF BeginWalk, ReadPage, timeVars
  <1>11. ASSUME JobSelect
         PROVE  UNCHANGED <<chosen, lifeVars, dbVars, tx, timeVars, walk, raced>>
    BY <1>11 DEF JobSelect
  <1>12. ASSUME Taking \/ JobDelete
         PROVE  UNCHANGED <<lifeVars, dbVars, tx, timeVars, walk, raced, late>>
    BY <1>12 DEF Taking, JobTake, JobDelete
  <1>13. ASSUME JobCommit
         PROVE  UNCHANGED <<created, title, last, hits, audited, lifeVars, tx, timeVars, raced, late>>
    BY <1>13 DEF JobCommit
  <1>14. ASSUME JobFails
         PROVE  /\ UNCHANGED <<phase, required, available, saver, tasks, boots>>
                /\ UNCHANGED <<dbVars, tx, timeVars, walk, raced, late>>
    BY <1>14 DEF JobFails
  <1>15. ASSUME Live \/ Shutdown \/ StopJob \/ EndProcess
         PROVE  UNCHANGED <<dbVars, timeVars, raced, late>>
    BY <1>15 DEF Live, Shutdown, StopJob, EndProcess
  <1>16. ASSUME Live PROVE UNCHANGED <<tx, walk>>
    BY <1>16 DEF Live
  <1>17. ASSUME Shutdown PROVE UNCHANGED <<boots, faults, tx, jobVars>>
    BY <1>17 DEF Shutdown
  <1>18. ASSUME StopJob PROVE UNCHANGED <<boots, faults, tx, walk>>
    BY <1>18 DEF StopJob, StopTasks
  <1>19. ASSUME Age PROVE UNCHANGED <<starts, lifeVars, dbVars, tx, jobVars, walk, raced, late>>
    BY <1>19 DEF Age
  <1>20. QED
    BY <1>1, <1>2, <1>3, <1>4, <1>5, <1>6, <1>7, <1>8, <1>9, <1>10, <1>11, <1>12, <1>13, <1>14, <1>15,
       <1>16, <1>17, <1>18, <1>19, Steps DEF vars, lifeVars, dbVars, jobVars, timeVars

-----------------------------------------------------------------------------
(* The process. *)

LEMMA LifeNext ==
  ASSUME TypeOK, LifeOK, [Next]_vars
  PROVE  LifeOK' /\ LifeTypeOK'
  <1> USE DEF LifeOK
  <1>0. LifeTypeOK
    BY DEF TypeOK
  <1>1. boots' \in Nat /\ faults' \in Nat
    <2>1. boots \in Nat /\ faults \in Nat
      BY <1>0 DEF LifeTypeOK
    <2>2. ASSUME Fails PROVE faults' \in Nat
      BY <2>1, <2>2 DEF Fails
    <2>3. CASE Live
      <3>1. CASE Boot
        BY <2>1, <3>1 DEF Boot
      <3>2. CASE MigrateFails \/ SaverFails
        BY <2>1, <2>2, <3>2 DEF MigrateFails, SaverFails
      <3>3. CASE Migrate \/ EnterSaver \/ SetupSaver \/ StartServing \/ DisposeEngine \/ TearDownSaver
        BY <2>1, <3>3 DEF Migrate, EnterSaver, SetupSaver, StartServing, DisposeEngine, TearDownSaver
      <3>4. QED
        BY <2>3, <3>1, <3>2, <3>3 DEF Live, LifeStep
    <2>4. CASE EndProcess
      BY <2>1, <2>2, <2>4 DEF EndProcess, CloseRedis, Crash
    <2>5. CASE Aborting \/ JobFails
      BY <2>1, <2>2, <2>5 DEF Aborting, Abort, JobFails
    <2>6. QED
      BY <2>1, <2>3, <2>4, <2>5, Writers
  <1>2. CASE Live
    <2>1. CASE Boot
      BY <1>0, <1>1, <1>2, <2>1 DEF Live, Boot, LifeTypeOK, Phases
    <2>2. CASE Migrate
      BY <1>0, <1>1, <1>2, <2>2 DEF Live, Migrate, LifeTypeOK, Phases
    <2>3. CASE MigrateFails
      BY <1>0, <1>1, <1>2, <2>3 DEF Live, MigrateFails, Exit, LifeTypeOK, Phases
    <2>4. CASE EnterSaver
      BY <1>0, <1>1, <1>2, <2>4 DEF Live, EnterSaver, LifeTypeOK, Phases
    <2>5. CASE SetupSaver
      BY <1>0, <1>1, <1>2, <2>5 DEF Live, SetupSaver, LifeTypeOK, Phases
    <2>6. CASE SaverFails
      BY <1>0, <1>1, <1>2, <2>6 DEF Live, SaverFails, Exit, LifeTypeOK, Phases
    <2>7. CASE StartServing
      BY <1>0, <1>1, <1>2, <2>7 DEF Live, StartServing, LifeTypeOK, Phases
    <2>8. CASE DisposeEngine
      BY <1>0, <1>1, <1>2, <2>8 DEF Live, DisposeEngine, LifeTypeOK, Phases
    <2>9. CASE TearDownSaver
      BY <1>0, <1>1, <1>2, <2>9 DEF Live, TearDownSaver, LifeTypeOK, Phases
    <2>10. QED
      BY <1>2, <2>1, <2>2, <2>3, <2>4, <2>5, <2>6, <2>7, <2>8, <2>9 DEF Live, LifeStep
  <1>3. CASE Shutdown
    BY <1>0, <1>1, <1>3 DEF Shutdown, LifeTypeOK, Phases, jobVars
  <1>4. CASE StopJob
    BY <1>0, <1>1, <1>4 DEF StopJob, StopTasks, EndJob, LifeTypeOK, Phases
  <1>5. CASE EndProcess
    <2>1. job' = "off" /\ Exit /\ required' = required
      BY <1>5 DEF EndProcess, EndJob, CloseRedis, Crash
    <2>2. QED
      BY <1>0, <1>1, <2>1 DEF Exit, LifeTypeOK, Phases
  <1>6. CASE UNCHANGED <<phase, required, available, saver, tasks>> /\ ~Live /\ ~StopJob /\ ~EndProcess
    <2>1. job' # "off" => job # "off"
      <3>1. CASE JobSelect \/ Taking \/ JobDelete \/ JobCommit \/ JobFails
        BY <3>1 DEF JobSelect, Taking, JobTake, JobDelete, JobCommit, JobFails
      <3>2. QED
        BY <1>6, <3>1, Writers
    <2>2. QED
      BY <1>0, <1>1, <1>6, <2>1 DEF LifeTypeOK
  <1>7. QED
    BY <1>2, <1>3, <1>4, <1>5, <1>6, Writers

-----------------------------------------------------------------------------
(* Steps of transactions before their commit. *)

Begins(t) ==
    /\ t.at = "begun" /\ t.conv \in created' /\ created \subseteq created' /\ created' \subseteq Convs
    /\ t.kind = "create" => t.conv \notin created /\ t.suffix = 1

Probes(k, t) ==
    /\ Is(k, "create", "begun") /\ t.kind = "create" /\ t.conv = tx[k].conv
    /\ \/ TitleFree(tx[k].suffix) /\ t.at = "holding" /\ t.suffix = tx[k].suffix
       \/ ~TitleFree(tx[k].suffix) /\ t.at = "begun" /\ t.suffix = tx[k].suffix + 1

Finds(k, t) ==
    Is(k, "delete", "begun") /\ t.kind = "delete" /\ t.at = "found" /\ t.conv = tx[k].conv

Locks(k, t) ==
    /\ tx[k].kind = t.kind /\ t.kind \in Updates \cup {"gate"} /\ t.at = "holding"
    /\ t.conv = tx[k].conv /\ t.conv \in rows \ chosen
    /\ t.kind \in Updates => t.conv \notin UpdateLocks
    /\ t.kind = "save" => t.suffix = counted[t.conv]

Waits(k) == \/ Done(k)
            \/ \E t \in Txs : /\ tx' = [tx EXCEPT ![k] = t]
                              /\ Probes(k, t) \/ Finds(k, t) \/ Locks(k, t)

LEMMA TxType ==
  ASSUME TypeOK, NEW k \in Clients, tx[k].kind # "none"
  PROVE  tx[k] \in Txs
  BY DEF TypeOK, NoTx

LEMMA Goes ==
  ASSUME TypeOK, NEW k \in Clients, tx[k] \in Txs, NEW place \in {"begun", "found", "holding"}, Goto(k, place)
  PROVE  \E t \in Txs : /\ tx' = [tx EXCEPT ![k] = t] /\ t.at = place /\ t.kind = tx[k].kind
                        /\ t.conv = tx[k].conv /\ t.suffix = tx[k].suffix
  <1> DEFINE t == [tx[k] EXCEPT !.at = place]
  <1>1. /\ t \in Txs /\ t.at = place /\ t.kind = tx[k].kind
        /\ t.conv = tx[k].conv /\ t.suffix = tx[k].suffix
    BY DEF Txs
  <1>2. tx' = [tx EXCEPT ![k] = t]
    BY DEF Goto, TypeOK
  <1> HIDE DEF t
  <1>3. QED
    BY <1>1, <1>2

LEMMA StartsTx ==
  ASSUME TypeOK, NEW k \in Clients, NEW stamp \in 1..MaxClock, NEW kind \in Kinds, NEW c \in Convs,
         Start(k, kind, c, stamp), c \in created', created \subseteq created', created' \subseteq Convs,
         kind = "create" => c \notin created
  PROVE  \E t \in Txs : tx' = [tx EXCEPT ![k] = t] /\ Begins(t)
  <1> DEFINE t == [kind |-> kind, at |-> "begun", conv |-> c, stamp |-> stamp,
                   suffix |-> IF kind = "create" THEN 1 ELSE 0]
  <1>1. t \in Txs /\ t.kind = kind /\ t.at = "begun" /\ t.conv = c /\ (kind = "create" => t.suffix = 1)
    BY DEF Txs
  <1>2. tx' = [tx EXCEPT ![k] = t]
    BY DEF Start
  <1> HIDE DEF t
  <1>3. QED
    BY <1>1, <1>2 DEF Begins

LEMMA StartMoves ==
  ASSUME TypeOK, Starting
  PROVE  \E k \in Clients, t \in Txs : tx' = [tx EXCEPT ![k] = t] /\ Begins(t)
  <1>1. ASSUME NEW k \in Clients, NEW stamp \in 1..MaxClock, StartCreate(k, stamp)
        PROVE  \E t \in Txs : tx' = [tx EXCEPT ![k] = t] /\ Begins(t)
    <2> DEFINE c == CHOOSE d \in Convs : d \notin created
    <2>1. c \in Convs /\ c \notin created
      BY <1>1 DEF StartCreate, TypeOK
    <2>2. created' = created \cup {c} /\ Start(k, "create", c, stamp)
      BY <1>1 DEF StartCreate
    <2> HIDE DEF c
    <2>3. created \subseteq created' /\ c \in created' /\ created' \subseteq Convs /\ "create" \in Kinds
      BY <2>1, <2>2 DEF TypeOK, Kinds
    <2>4. QED
      BY <2>1, <2>2, <2>3, StartsTx
  <1>2. ASSUME NEW k \in Clients, NEW stamp \in 1..MaxClock, NEW c \in Convs, NEW kind \in Kinds,
               StartRequest(k, kind, c, stamp) \/ (kind = "gate" /\ StartGate(k, c, stamp))
        PROVE  \E t \in Txs : tx' = [tx EXCEPT ![k] = t] /\ Begins(t)
    <2>1. /\ Start(k, kind, c, stamp) /\ created' = created /\ c \in created /\ kind # "create"
      BY <1>2 DEF StartRequest, StartGate, dbVars
    <2>2. QED
      BY <2>1, StartsTx DEF TypeOK
  <1>3. "gate" \in Kinds
    BY DEF Kinds
  <1>4. QED
    BY <1>1, <1>2, <1>3 DEF Starting

LEMMA WaitMoves ==
  ASSUME TypeOK, Probing \/ Locking \/ Aborting
  PROVE  \E k \in Clients : Waits(k)
  <1>1. ASSUME NEW k \in Clients, ProbeTitle(k) PROVE Waits(k)
    <2>1. tx[k] \in Txs /\ Is(k, "create", "begun")
      BY <1>1, TxType DEF ProbeTitle, Is
    <2>2. CASE TitleFree(tx[k].suffix)
      <3>1. Goto(k, "holding")
        BY <1>1, <2>2 DEF ProbeTitle, Goto
      <3>2. QED
        BY <2>1, <2>2, <3>1, Goes DEF Waits, Probes, Is
    <2>3. CASE ~TitleFree(tx[k].suffix)
      <3> DEFINE t == [tx[k] EXCEPT !.suffix = @ + 1]
      <3>1. /\ t \in Txs /\ t.at = tx[k].at /\ t.kind = tx[k].kind
            /\ t.conv = tx[k].conv /\ t.suffix = tx[k].suffix + 1
        BY <2>1 DEF Txs
      <3>2. tx' = [tx EXCEPT ![k] = t]
        BY <1>1, <2>3 DEF ProbeTitle, TypeOK
      <3> HIDE DEF t
      <3>3. QED
        BY <2>1, <2>3, <3>1, <3>2 DEF Waits, Probes, Is
    <2>4. QED
      BY <2>2, <2>3
  <1>2. ASSUME NEW k \in Clients, FindToDelete(k) PROVE Waits(k)
    <2>1. tx[k] \in Txs /\ Is(k, "delete", "begun") /\ (Goto(k, "found") \/ Done(k))
      BY <1>2, TxType DEF FindToDelete, Is
    <2>2. QED
      BY <2>1, Goes DEF Waits, Finds, Is
  <1>3. ASSUME NEW k \in Clients, UpdateRow(k) PROVE Waits(k)
    <2>1. /\ tx[k] \in Txs /\ tx[k].kind \in {"touch", "delete"}
          /\ tx[k].conv \notin UpdateLocks \cup chosen
          /\ (tx[k].conv \in rows /\ Goto(k, "holding")) \/ Done(k)
      BY <1>3, TxType DEF UpdateRow, Is
    <2>2. QED
      BY <2>1, Goes DEF Waits, Locks, Updates
  <1>4. ASSUME NEW k \in Clients, InsertMessage(k) PROVE Waits(k)
    <2>1. tx[k] \in Txs /\ Is(k, "save", "begun") /\ tx[k].conv \notin UpdateLocks \cup chosen
      BY <1>4, TxType DEF InsertMessage, Is
    <2>2. CASE tx[k].conv \in rows
      <3> DEFINE t == [tx[k] EXCEPT !.at = "holding", !.suffix = counted[tx[k].conv]]
      <3>1. counted[tx[k].conv] \in Nat
        BY <2>1 DEF TypeOK, Txs
      <3>2. /\ t \in Txs /\ t.at = "holding" /\ t.kind = tx[k].kind
            /\ t.conv = tx[k].conv /\ t.suffix = counted[tx[k].conv]
        BY <2>1, <3>1 DEF Txs
      <3>3. tx' = [tx EXCEPT ![k] = t]
        BY <1>4, <2>2 DEF InsertMessage, TypeOK
      <3> HIDE DEF t
      <3>4. QED
        BY <2>1, <2>2, <3>2, <3>3 DEF Waits, Locks, Is, Updates
    <2>3. QED
      BY <1>4, <2>2 DEF InsertMessage, Waits
  <1>5. ASSUME NEW k \in Clients, InsertApproval(k) PROVE Waits(k)
    <2>1. /\ tx[k] \in Txs /\ tx[k].kind = "gate" /\ tx[k].conv \notin chosen
          /\ (tx[k].conv \in rows /\ Goto(k, "holding")) \/ Done(k)
      BY <1>5, TxType DEF InsertApproval, Is
    <2>2. QED
      BY <2>1, Goes DEF Waits, Locks, Updates
  <1>6. QED
    BY <1>1, <1>2, <1>3, <1>4, <1>5 DEF Probing, Locking, Aborting, Abort, Waits

-----------------------------------------------------------------------------
(* What holds of a transaction keeps holding while others work. *)

(* A commit of j other than k leaves what k relies on. *)
LEMMA OtherTx ==
  ASSUME TypeOK, TxsOK, [Next]_vars, NEW k \in Clients, tx'[k] = tx[k]
  PROVE  TxOK(k)'
  <1> DEFINE c == tx[k].conv
  <1> SUFFICES ASSUME tx[k].kind # "none" PROVE TxOK(k)'
    BY DEF TxOK
  <1>1. tx[k] \in Txs /\ c \in Convs /\ TxOK(k)
    BY TxType DEF TxsOK, Txs
  <1>2. c \in created'
    <2>1. created \subseteq created'
      BY StartMoves, Writers DEF Begins
    <2>2. QED
      BY <1>1, <2>1 DEF TxOK
  <1>3. tx[k].kind = "create" => c \notin rows' /\ title'[c] = 0
    <2>1. SUFFICES ASSUME tx[k].kind = "create" PROVE c \notin rows' /\ title'[c] = 0
      OBVIOUS
    <2>2. CASE Creating
      <3>1. PICK j \in Clients : CommitCreate(j)
        BY <2>2 DEF Creating
      <3>2. j # k
        BY <2>1, <3>1 DEF CommitCreate, Done, TypeOK, NoTx
      <3>3. tx[j].conv # c
        BY <2>1, <3>1, <3>2 DEF CommitCreate, Is, TxsOK
      <3>4. QED
        BY <1>1, <2>1, <3>1, <3>3 DEF CommitCreate, TxOK, TypeOK
    <2>3. CASE JobCommit
      BY <1>1, <2>1, <2>3 DEF JobCommit, TxOK
    <2>4. QED
      BY <1>1, <2>1, <2>2, <2>3, Writers DEF TxOK
  <1>4. ASSUME tx[k].kind = "create", NEW n \in 1..(tx[k].suffix - 1)
        PROVE  \E d \in Convs : title'[d] = n
    <2>1. PICK d \in Convs : title[d] = n
      BY <1>1, <1>4 DEF TxOK
    <2>2. CASE Creating
      <3>1. PICK j \in Clients : CommitCreate(j)
        BY <2>2 DEF Creating
      <3>2. title[tx[j].conv] = 0
        BY <3>1 DEF CommitCreate, Is, TxsOK, TxOK
      <3>3. n # 0
        BY <1>4, <1>1 DEF Txs
      <3>4. title'[d] = title[d]
        BY <2>1, <3>1, <3>2, <3>3 DEF CommitCreate, TypeOK
      <3>5. QED
        BY <2>1, <3>4
    <2>3. QED
      BY <2>1, <2>2, Writers
  <1>5. ASSUME tx[k].kind # "create", tx[k].at = "holding" PROVE c \in rows' \ chosen'
    <2>1. c \in rows \ chosen /\ c \in UpdateLocks \cup ShareLocks
      BY <1>1, <1>5 DEF TxOK, UpdateLocks, ShareLocks, Is, Txs, Kinds
    <2>2. c \in rows'
      <3>1. CASE Creating
        BY <2>1, <3>1 DEF Creating, CommitCreate
      <3>2. CASE JobCommit
        BY <2>1, <3>2 DEF JobCommit
      <3>3. QED
        BY <2>1, <3>1, <3>2, Writers
    <2>3. c \notin chosen'
      <3>1. CASE Taking
        BY <2>1, <3>1 DEF Taking, JobTake
      <3>2. CASE JobSelect \/ JobDelete \/ JobCommit \/ JobFails \/ Live \/ StopJob \/ EndProcess
        BY <2>1, <3>2 DEF JobSelect, JobDelete, JobCommit, JobFails, Live, StopJob, EndProcess, EndJob, Sleep
      <3>3. QED
        BY <2>1, <3>1, <3>2, Writers
    <2>4. QED
      BY <2>2, <2>3
  <1>6. ASSUME Is(k, "save", "holding") PROVE tx[k].suffix = counted'[c]
    <2>1. tx[k].suffix = counted[c] /\ c \notin chosen /\ Updating(k)
      BY <1>1, <1>6 DEF TxOK, Is, Updating, Updates
    <2>2. CASE Counting
      <3>1. PICK j \in Clients : CommitMessage(j)
        BY <2>2 DEF Counting
      <3>2. j # k
        BY <1>6, <3>1 DEF CommitMessage, Done, TypeOK, NoTx, Is
      <3>3. tx[j].conv # c
        BY <2>1, <3>1, <3>2 DEF CommitMessage, Is, TxsOK, Updating, Updates
      <3>4. QED
        BY <1>1, <2>1, <3>1, <3>3 DEF CommitMessage, TypeOK
    <2>3. CASE JobCommit
      BY <1>1, <2>1, <2>3 DEF JobCommit, TypeOK
    <2>4. QED
      BY <2>1, <2>2, <2>3, Writers
  <1>7. QED
    BY <1>1, <1>2, <1>3, <1>4, <1>5, <1>6 DEF TxOK, Is

Committing == Creating \/ Touching \/ Counting \/ Deleting \/ Gating

LEMMA CommitEnds ==
  ASSUME Committing
  PROVE  \E k \in Clients : Done(k)
  BY DEF Committing, Creating, Touching, Counting, Deleting, Gating,
         CommitCreate, CommitTouch, CommitMessage, CommitDelete, CommitGate

(* A client that steps: what it has begun, found or locked. *)
LEMMA OwnTx ==
  ASSUME TypeOK, TxsOK, NEW k \in Clients, NEW t \in Txs, tx' = [tx EXCEPT ![k] = t],
         UNCHANGED <<rows, title, counted, chosen, deleted>>,
         Begins(t) \/ (created' = created /\ (Probes(k, t) \/ Finds(k, t) \/ Locks(k, t)))
  PROVE  TxOK(k)'
  <1>1. tx'[k] = t
    BY DEF TypeOK
  <1>2. t.conv \in Convs /\ t.suffix \in Nat
    BY DEF Txs
  <1>3. CASE Begins(t)
    <2>1. t.kind = "create" => t.conv \notin rows /\ title[t.conv] = 0 /\ t.suffix = 1
      BY <1>2, <1>3 DEF Begins, TypeOK, TxsOK
    <2>2. QED
      BY <1>1, <1>3, <2>1 DEF Begins, TxOK, Is
  <1>4. CASE created' = created /\ Probes(k, t)
    <2>1. TxOK(k) /\ tx[k].kind = "create" /\ tx[k] \in Txs
      BY <1>4, TxType DEF TxsOK, Probes, Is
    <2>2. tx[k].suffix \in Nat \ {0}
      BY <2>1 DEF TxOK, Txs
    <2>3. t.suffix > 0
      BY <1>4, <2>2 DEF Probes
    <2>4. ASSUME NEW n \in 1..(t.suffix - 1) PROVE \E d \in Convs : title[d] = n
      <3>1. CASE n \in 1..(tx[k].suffix - 1)
        BY <2>1, <3>1 DEF TxOK
      <3>2. CASE n \notin 1..(tx[k].suffix - 1)
        <4>1. n = tx[k].suffix /\ ~TitleFree(tx[k].suffix)
          BY <1>4, <2>2, <3>2 DEF Probes
        <4>2. QED
          BY <4>1 DEF TitleFree, Visible, TypeOK
      <3>3. QED
        BY <3>1, <3>2
    <2>5. t.conv \in created /\ t.conv \notin rows /\ title[t.conv] = 0 /\ t.kind = "create"
          /\ t.at \in {"begun", "holding"}
      BY <1>4, <2>1 DEF TxOK, Probes
    <2>6. QED
      BY <1>1, <1>4, <2>3, <2>4, <2>5 DEF TxOK, Is
  <1>5. CASE created' = created /\ Finds(k, t)
    BY <1>1, <1>5 DEF Finds, TxsOK, TxOK, Is
  <1>6. CASE created' = created /\ Locks(k, t)
    BY <1>1, <1>6 DEF Locks, TxsOK, TxOK, Is, Updates
  <1>7. QED
    BY <1>3, <1>4, <1>5, <1>6

Moves(k, t) ==
    /\ tx' = [tx EXCEPT ![k] = t]
    /\ UNCHANGED <<rows, title, counted, chosen, deleted, raced>>
    /\ Begins(t) \/ (created' = created /\ (Probes(k, t) \/ Finds(k, t) \/ Locks(k, t)))

LEMMA TxSteps ==
  ASSUME TypeOK, [Next]_vars
  PROVE  \/ UNCHANGED tx
         \/ EndProcess
         \/ \E k \in Clients : Done(k)
         \/ \E k \in Clients, t \in Txs : Moves(k, t)
  <1>1. CASE Starting
    <2>1. UNCHANGED <<rows, title, counted, chosen, deleted, raced>>
      BY <1>1 DEF Starting, StartCreate, StartRequest, StartGate, Start, dbVars, jobVars
    <2>2. QED
      BY <1>1, <2>1, StartMoves DEF Moves
  <1>2. CASE Probing \/ Locking \/ Aborting
    <2>1. UNCHANGED <<rows, created, title, counted, chosen, deleted, raced>>
      BY <1>2 DEF Probing, Locking, Aborting, ProbeTitle, FindToDelete, UpdateRow, InsertMessage,
                  InsertApproval, Abort, dbVars, jobVars
    <2>2. QED
      BY <1>2, <2>1, WaitMoves DEF Moves, Waits
  <1>3. CASE Committing
    BY <1>3, CommitEnds
  <1>4. QED
    BY <1>1, <1>2, <1>3, Writers DEF Committing

LEMMA TxTypeNext ==
  ASSUME TypeOK, [Next]_vars
  PROVE  tx' \in [Clients -> Txs \cup {NoTx}]
  BY TxSteps DEF TypeOK, EndProcess, Done, Moves

LEMMA TxsNext ==
  ASSUME TypeOK, TxsOK, [Next]_vars
  PROVE  TxsOK'
  <1>1. \A k \in Clients : tx'[k] = tx[k] => TxOK(k)'
    BY OtherTx
  <1>2. \A c \in Convs \ created' : title'[c] = 0
    <2>1. CASE Creating
      <3>1. PICK k \in Clients : CommitCreate(k)
        BY <2>1 DEF Creating
      <3>2. tx[k].conv \in created /\ created' = created
        BY <3>1 DEF CommitCreate, Is, TxsOK, TxOK
      <3>3. QED
        BY <3>1, <3>2 DEF CommitCreate, TxsOK, TypeOK
    <2>2. CASE ~Creating
      <3>1. created \subseteq created'
        BY StartMoves, Writers DEF Begins
      <3>2. QED
        BY <2>2, <3>1, Writers DEF TxsOK
    <2>3. QED
      BY <2>1, <2>2
  <1>3. CASE UNCHANGED tx
    BY <1>1, <1>2, <1>3 DEF TxsOK, Updating
  <1>4. CASE EndProcess
    <2>1. \A k \in Clients : tx'[k].kind = "none"
      BY <1>4 DEF EndProcess, NoTx
    <2>2. QED
      BY <1>2, <2>1 DEF TxsOK, TxOK, Updating, Updates
  <1>5. ASSUME NEW k \in Clients, Done(k) PROVE TxsOK'
    <2>1. tx'[k].kind = "none" /\ \A j \in Clients \ {k} : tx'[j] = tx[j]
      BY <1>5 DEF Done, TypeOK, NoTx
    <2>2. TxOK(k)'
      BY <2>1 DEF TxOK
    <2>3. QED
      BY <1>1, <1>2, <2>1, <2>2 DEF TxsOK, Updating, Updates
  <1>6. ASSUME NEW k \in Clients, NEW t \in Txs, Moves(k, t) PROVE TxsOK'
    <2>1. tx'[k] = t /\ \A j \in Clients \ {k} : tx'[j] = tx[j]
      BY <1>6 DEF Moves, TypeOK
    <2>2. TxOK(k)'
      BY <1>6, OwnTx DEF Moves
    <2>3. ASSUME NEW j \in Clients \ {k}, tx[j].conv = t.conv
          PROVE  ~(tx[j].kind = "create" /\ t.kind = "create") /\ ~(Updating(j) /\ Updating(k)')
      <3>1. ASSUME tx[j].kind = "create", t.kind = "create" PROVE FALSE
        <4>1. tx[j].conv \in created
          BY <3>1 DEF TxsOK, TxOK
        <4>2. Probes(k, t)
          BY <1>6, <2>3, <3>1, <4>1 DEF Moves, Begins, Finds, Locks, Updates
        <4>3. QED
          BY <2>3, <3>1, <4>2 DEF Probes, Is, TxsOK
      <3>2. ASSUME Updating(j), Updating(k)' PROVE FALSE
        <4>1. t.at = "holding" /\ t.kind \in Updates
          BY <2>1, <3>2 DEF Updating
        <4>2. Locks(k, t)
          BY <1>6, <4>1 DEF Moves, Begins, Probes, Finds, Updates
        <4>3. t.conv \in UpdateLocks
          BY <2>3, <3>2 DEF UpdateLocks, Updating, Updates, Is
        <4>4. QED
          BY <4>1, <4>2, <4>3 DEF Locks
      <3>3. QED
        BY <3>1, <3>2
    <2>4. \A i, j \in Clients : i # j /\ tx'[i].conv = tx'[j].conv =>
             ~(tx'[i].kind = "create" /\ tx'[j].kind = "create") /\ ~(Updating(i)' /\ Updating(j)')
      <3>1. \A j \in Clients \ {k} : Updating(j)' <=> Updating(j)
        BY <2>1 DEF Updating
      <3>2. QED
        BY <2>1, <2>3, <3>1 DEF TxsOK
    <2>5. \A j \in Clients : TxOK(j)'
      BY <1>1, <2>1, <2>2
    <2>6. QED
      BY <1>2, <2>4, <2>5 DEF TxsOK
  <1>7. QED
    BY <1>3, <1>4, <1>5, <1>6, TxSteps

-----------------------------------------------------------------------------
(* Counters and titles. *)

LEMMA CountsNext ==
  ASSUME TypeOK, TxsOK, CountsOK, [Next]_vars
  PROVE  CountsOK'
  <1>1. CASE Counting
    <2>1. PICK k \in Clients : CommitMessage(k)
      BY <1>1 DEF Counting
    <2>2. tx[k].suffix = counted[tx[k].conv]
      BY <2>1 DEF CommitMessage, Is, TxsOK, TxOK
    <2>3. QED
      BY <2>1, <2>2 DEF CommitMessage, CountsOK, TypeOK
  <1>2. CASE JobCommit
    BY <1>2 DEF JobCommit, CountsOK
  <1>3. QED
    BY <1>1, <1>2, Writers DEF CountsOK

LEMMA RacesNext ==
  ASSUME TypeOK, TxsOK, RacesOK, [Next]_vars
  PROVE  RacesOK'
  <1>1. CASE Creating
    <2>1. PICK k \in Clients : CommitCreate(k)
      BY <1>1 DEF Creating
    <2> DEFINE c == tx[k].conv
               n == tx[k].suffix
    <2>2. /\ Is(k, "create", "holding") /\ c \notin rows /\ c \in Convs
          /\ deleted' = deleted /\ rows' = rows \cup {c} /\ title' = [title EXCEPT ![c] = n]
          /\ \A j \in Clients \ {k} : tx[j].kind = "create" => {c, tx[j].conv} \in raced'
          /\ raced \subseteq raced'
          /\ tx'[k].kind = "none" /\ \A j \in Clients \ {k} : tx'[j] = tx[j]
      BY <2>1 DEF CommitCreate, TxsOK, TxOK, Is, TypeOK, Done, NoTx
    <2> HIDE DEF c, n
    <2>3. Visible' = Visible \cup {c} /\ c \notin Visible
      BY <2>2 DEF Visible, TypeOK
    <2>4. title'[c] = n /\ \A d \in Visible : title'[d] = title[d]
      BY <2>2, <2>3 DEF TypeOK
    <2>5. \A d \in Visible : title[d] = n => {c, d} \in raced'
      BY <2>2 DEF RacesOK, c, n
    <2>6. SameTitleOnlyByRace'
      <3>1. \A d, e \in Visible : d # e /\ title[d] = title[e] => {d, e} \in raced'
        BY <2>2 DEF RacesOK, SameTitleOnlyByRace
      <3>2. \A d \in Visible : {d, c} = {c, d}
        OBVIOUS
      <3>3. QED
        BY <2>3, <2>4, <2>5, <3>1, <3>2 DEF SameTitleOnlyByRace
    <2>7. ASSUME NEW j \in Clients, Is(j, "create", "holding")', NEW d \in Visible',
                 title'[d] = tx'[j].suffix
          PROVE  {tx'[j].conv, d} \in raced'
      <3>1. j # k /\ tx'[j] = tx[j] /\ Is(j, "create", "holding")
        BY <2>2, <2>7 DEF Is
      <3>2. CASE d = c
        <4>1. {c, tx[j].conv} \in raced' /\ {c, tx[j].conv} = {tx[j].conv, c}
          BY <2>2, <3>1 DEF Is
        <4>2. QED
          BY <3>1, <3>2, <4>1
      <3>3. CASE d # c
        BY <2>2, <2>3, <2>4, <2>7, <3>1, <3>3 DEF RacesOK
      <3>4. QED
        BY <3>2, <3>3
    <2>8. QED
      BY <2>6, <2>7 DEF RacesOK
  <1>2. CASE ~Creating
    <2>1. UNCHANGED <<title, raced>>
      BY <1>2, Writers
    <2>2. Visible' \subseteq Visible
      <3>1. CASE JobCommit
        BY <3>1 DEF JobCommit, Visible
      <3>2. CASE ~JobCommit
        <4>1. rows' = rows
          BY <1>2, <3>2, Writers
        <4>2. deleted \subseteq deleted'
          BY <3>2, Writers DEF Deleting, CommitDelete
        <4>3. QED
          BY <4>1, <4>2 DEF Visible
      <3>3. QED
        BY <3>1, <3>2
    <2>3. SameTitleOnlyByRace'
      BY <2>1, <2>2 DEF RacesOK, SameTitleOnlyByRace
    <2>4. ASSUME NEW j \in Clients, Is(j, "create", "holding")', NEW d \in Visible',
                 title'[d] = tx'[j].suffix
          PROVE  {tx'[j].conv, d} \in raced'
      <3>1. CASE Is(j, "create", "holding") /\ tx'[j] = tx[j]
        BY <2>1, <2>2, <2>4, <3>1 DEF RacesOK
      <3>2. CASE ~(Is(j, "create", "holding") /\ tx'[j] = tx[j])
        <4>1. tx'[j] # tx[j]
          BY <2>4, <3>2 DEF Is
        <4>2. tx'[j].kind # "none"
          BY <2>4 DEF Is
        <4>3. \E t \in Txs : Moves(j, t)
          BY <4>1, <4>2, TxSteps DEF EndProcess, Done, Moves, TypeOK, NoTx
        <4>4. PICK t \in Txs : Moves(j, t)
          BY <4>3
        <4>5. tx'[j] = t
          BY <4>4 DEF Moves, TypeOK
        <4>6. Probes(j, t) /\ TitleFree(t.suffix)
          BY <2>4, <4>4, <4>5 DEF Moves, Begins, Probes, Finds, Locks, Updates, Is
        <4>7. QED
          BY <2>1, <2>2, <2>4, <4>5, <4>6 DEF TitleFree
      <3>3. QED
        BY <3>1, <3>2
    <2>5. QED
      BY <2>3, <2>4 DEF RacesOK
  <1>3. QED
    BY <1>1, <1>2

-----------------------------------------------------------------------------
(* The retention job. *)

JobType ==
    /\ job \in {"off", "sleeping", "selecting", "deleting"}
    /\ snapshot \subseteq Convs /\ todo \subseteq Convs /\ chosen \subseteq rows

(* The job is idle, or what is changed is not what it has chosen. *)
ChosenKept ==
    /\ UNCHANGED <<job, snapshot, todo, chosen, cutoff>>
    /\ chosen \subseteq rows'
    /\ \A c \in chosen : last'[c] = last[c] /\ hits'[c] = hits[c] /\ (c \in deleted => c \in deleted')

LEMMA ChosenStale ==
  ASSUME JobOK, ChosenKept, NEW c \in chosen
  PROVE  Stale(c)'
  BY DEF JobOK, ChosenKept, Stale

LEMMA JobNext ==
  ASSUME TypeOK, LifeOK, TxsOK, JobOK, [Next]_vars
  PROVE  JobOK' /\ JobType'
  <1>0. JobType /\ rows \subseteq Convs /\ open \subseteq Convs
    BY DEF TypeOK, JobType
  <1>1. ASSUME ChosenKept, open' = open, late' = late, audited' = audited PROVE JobOK' /\ JobType'
    <2>1. JobType'
      BY <1>0, <1>1 DEF JobType, ChosenKept
    <2>2. \A c \in chosen' : Stale(c)'
      BY <1>1, ChosenStale DEF ChosenKept
    <2>3. QED
      BY <1>1, <2>1, <2>2 DEF JobOK, ChosenKept
  <1>2. ASSUME UNCHANGED <<rows, last, hits, deleted, cutoff, open, late, audited>>,
               chosen' = {}, todo' = {}, snapshot' \subseteq Convs, job' \in {"off", "sleeping"}
        PROVE  JobOK' /\ JobType'
    BY <1>2 DEF JobOK, JobType
  <1>3. CASE Creating
    <2>1. PICK k \in Clients : CommitCreate(k)
      BY <1>3 DEF Creating
    <2>2. tx[k].conv \notin chosen
      BY <2>1 DEF CommitCreate, TxsOK, TxOK, TypeOK, Is
    <2>3. ChosenKept /\ open' = open /\ late' = late /\ audited' = audited
      BY <2>1, <2>2, <1>0 DEF CommitCreate, ChosenKept, jobVars, timeVars, JobType, TypeOK
    <2>4. QED
      BY <1>1, <2>3
  <1>4. CASE Touching
    <2>1. PICK k \in Clients : CommitTouch(k)
      BY <1>4 DEF Touching
    <2>2. tx[k].conv \notin chosen
      BY <2>1 DEF CommitTouch, TxsOK, TxOK, Is
    <2>3. ChosenKept /\ open' = open /\ late' = late /\ audited' = audited
      BY <2>1, <2>2, <1>0 DEF CommitTouch, ChosenKept, jobVars, timeVars, JobType, TypeOK
    <2>4. QED
      BY <1>1, <2>3
  <1>5. CASE Deleting
    <2>1. ChosenKept /\ open' = open /\ late' = late /\ audited' = audited
      BY <1>5, <1>0 DEF Deleting, CommitDelete, ChosenKept, jobVars, timeVars, JobType
    <2>2. QED
      BY <1>1, <2>1
  <1>6. CASE Gating
    <2>1. PICK k \in Clients : CommitGate(k)
      BY <1>6 DEF Gating
    <2>2. tx[k].conv \notin chosen
      BY <2>1 DEF CommitGate, TxsOK, TxOK, Is
    <2>3. /\ ChosenKept /\ open' = open \cup {tx[k].conv} /\ late \subseteq late' /\ audited' = audited
          /\ job = "selecting" => late' = late \cup {tx[k].conv}
      BY <2>1, <1>0 DEF CommitGate, ChosenKept, jobVars, timeVars, JobType
    <2>4. JobType'
      BY <1>0, <2>3 DEF JobType, ChosenKept
    <2>5. \A c \in chosen' : Stale(c)'
      BY <2>3, ChosenStale DEF ChosenKept
    <2>6. QED
      BY <2>2, <2>3, <2>4, <2>5 DEF JobOK, ChosenKept
  <1>7. CASE Closing
    <2>1. PICK c \in Convs : CloseApproval(c)
      BY <1>7 DEF Closing
    <2>2. ChosenKept /\ open' = open \ {c} /\ late' = late /\ audited' = audited \cup {c}
      BY <2>1, <1>0 DEF CloseApproval, ChosenKept, jobVars, timeVars, JobType
    <2>3. JobType'
      BY <1>0, <2>2 DEF JobType, ChosenKept
    <2>4. \A d \in chosen' : Stale(d)'
      BY <2>2, ChosenStale DEF ChosenKept
    <2>5. job = "deleting" => c \notin chosen
      BY <2>1 DEF CloseApproval
    <2>6. QED
      BY <2>2, <2>3, <2>4, <2>5 DEF JobOK, ChosenKept
  <1>8. CASE JobSelect
    <2>1. /\ job = "sleeping" /\ job' = "selecting" /\ snapshot' = open /\ todo' \subseteq rows
          /\ chosen' = chosen /\ rows' = rows /\ open' = open
      BY <1>8 DEF JobSelect, dbVars
    <2>2. chosen = {}
      BY <2>1 DEF JobOK
    <2>3. QED
      BY <1>0, <2>1, <2>2 DEF JobOK, JobType
  <1>9. CASE Taking
    <2>1. PICK c \in Convs : JobTake(c)
      BY <1>9 DEF Taking
    <2>2. /\ job = "selecting" /\ job' = job /\ snapshot' = snapshot /\ todo' \subseteq todo
          /\ chosen' = chosen \/ (chosen' = chosen \cup {c} /\ c \notin snapshot /\ Stale(c))
          /\ UNCHANGED <<rows, last, hits, deleted, cutoff, open, late, audited>>
      BY <2>1 DEF JobTake, dbVars, timeVars
    <2>3. \A d : Stale(d) => Stale(d)'
      BY <2>2 DEF Stale
    <2>4. JobType'
      BY <1>0, <2>2 DEF JobType, Stale
    <2>5. \A d \in chosen' : Stale(d) /\ (d \in open => d \in late)
      BY <2>2 DEF JobOK
    <2>6. QED
      BY <2>2, <2>3, <2>4, <2>5 DEF JobOK
  <1>10. CASE JobDelete
    <2>1. CASE Sleep
      BY <1>0, <1>2, <1>10, <2>1 DEF JobDelete, Sleep, dbVars, timeVars
    <2>2. CASE ~Sleep
      <3>1. /\ job' = "deleting" /\ UNCHANGED <<snapshot, todo, chosen>> /\ chosen \cap audited = {}
            /\ UNCHANGED <<rows, last, hits, deleted, cutoff, open, late, audited>>
        BY <1>10, <2>2 DEF JobDelete, dbVars, timeVars
      <3>2. \A d : Stale(d) => Stale(d)'
        BY <3>1 DEF Stale
      <3>3. QED
        BY <1>0, <3>1, <3>2 DEF JobOK, JobType
    <2>3. QED
      BY <2>1, <2>2
  <1>11. CASE JobCommit
    BY <1>11 DEF JobCommit, Sleep, JobOK, JobType
  <1>12. CASE JobFails \/ StopJob \/ EndProcess
    BY <1>2, <1>12 DEF JobFails, StopJob, EndProcess, EndJob, Sleep, dbVars, timeVars
  <1>13. CASE Live
    <2>1. /\ UNCHANGED <<rows, last, hits, deleted, cutoff, open, late, audited, snapshot, todo, chosen>>
          /\ job' = IF phase' = "serving" /\ tasks' THEN "sleeping" ELSE job
      BY <1>13 DEF Live, dbVars, timeVars
    <2>2. CASE job' = job
      BY <1>0, <1>1, <2>1, <2>2 DEF ChosenKept, JobType
    <2>3. CASE job' # job
      <3>1. job' = "sleeping" /\ phase' = "serving"
        BY <2>1, <2>3
      <3>2. phase = "registry"
        BY <1>13, <3>1 DEF Live, LifeStep, Boot, Migrate, MigrateFails, EnterSaver, SetupSaver,
           SaverFails, StartServing, DisposeEngine, TearDownSaver, Exit
      <3>3. chosen = {} /\ todo = {}
        BY <3>2 DEF LifeOK, JobOK
      <3>4. QED
        BY <1>0, <1>2, <2>1, <3>1, <3>3 DEF JobType
    <2>4. QED
      BY <2>2, <2>3
  <1>14. CASE Age
    <2>1. chosen = {} /\ job' = job /\ snapshot' = snapshot /\ todo' = todo /\ chosen' = chosen
          /\ job \in {"off", "sleeping"} /\ rows' = rows
      BY <1>14 DEF Age, JobOK, jobVars, dbVars
    <2>2. QED
      BY <1>0, <2>1 DEF JobOK, JobType
  <1>15. ASSUME ~Creating, ~Touching, ~Deleting, ~Gating, ~Closing, ~JobSelect, ~Taking, ~JobDelete,
                ~JobCommit, ~JobFails, ~StopJob, ~EndProcess, ~Live, ~Age
         PROVE  JobOK' /\ JobType'
    <2>1. UNCHANGED <<job, snapshot, todo, chosen, cutoff, rows, last, hits, deleted, open, late, audited>>
      BY <1>15, Writers
    <2>2. ChosenKept
      BY <1>0, <2>1 DEF ChosenKept, JobType
    <2>3. QED
      BY <1>1, <2>1, <2>2
  <1>16. QED
    BY <1>3, <1>4, <1>5, <1>6, <1>7, <1>8, <1>9, <1>10, <1>11, <1>12, <1>13, <1>14, <1>15

-----------------------------------------------------------------------------
(* Pages. *)

WalkType == [at : {"idle", "paging", "end"}, cursor : 0..MaxClock, got : SUBSET Convs,
             cursors : SUBSET (0..MaxClock), again : SUBSET Convs, changed : SUBSET Convs]

LEMMA OldestFacts ==
  ASSUME TypeOK, NEW page \in SUBSET Convs, page # {}
  PROVE  /\ Oldest(page) \in 0..MaxClock
         /\ \E c \in page : last[c] = Oldest(page)
         /\ \A c \in page : Oldest(page) <= last[c]
  <1> DEFINE T == {last[c] : c \in page}
  <1>1. /\ \A c \in page : last[c] \in 0..MaxClock /\ last[c] \in T
        /\ T \subseteq Nat /\ T # {}
    BY ConvBounds DEF TypeOK
  <1>2. \E s \in T : \A t \in T : s <= t
    BY <1>1, SmallestOf
  <1>3. \E s \in T : \A c \in page : s <= last[c]
    BY <1>1, <1>2
  <1>4. Oldest(page) \in T /\ \A c \in page : Oldest(page) <= last[c]
    BY <1>3 DEF Oldest
  <1>5. PICK c \in page : last[c] = Oldest(page)
    BY <1>4
  <1>6. QED
    BY <1>1, <1>4, <1>5

(* A page is what remains, or its rows are no older than those behind it. *)
LEMMA PageFacts ==
  ASSUME TypeOK, NEW candidates \in SUBSET Convs, NEW page \in Pages(candidates)
  PROVE  /\ page \subseteq candidates
         /\ \A c \in page, d \in candidates \ page : last[c] >= last[d]
         /\ Cardinality(candidates) > PageSize => page # {}
         /\ ~(Cardinality(candidates) > PageSize) => page = candidates
  <1>1. /\ page \subseteq candidates
        /\ Cardinality(page) = IF Cardinality(candidates) < PageSize THEN Cardinality(candidates) ELSE PageSize
        /\ \A c \in page, d \in candidates \ page : last[c] >= last[d]
    BY DEF Pages
  <1>2. IsFiniteSet(candidates)
    BY ConvBounds, FS_Subset
  <1>3. Cardinality(candidates) \in Nat /\ PageSize \in Nat /\ PageSize > 0
    BY <1>2, ConvBounds, FS_CardinalityType
  <1>4. Cardinality(page) = Cardinality(candidates) => page = candidates
    BY <1>1, <1>2, FS_Subset
  <1>5. Cardinality({}) = 0
    BY FS_EmptySet
  <1>6. QED
    BY <1>1, <1>3, <1>4, <1>5

(* While other clients commit, the list owes them nothing. *)
LEMMA WalkChanges ==
  ASSUME TypeOK, WalkOK, NEW C \in SUBSET Convs,
         walk' = IF walk.at = "idle" THEN walk ELSE [walk EXCEPT !.changed = @ \cup C],
         \A c \in Convs \ C : last'[c] = last[c] /\ (c \in Visible' => c \in Visible),
         Visible' \subseteq Convs, \A c \in rows' : last'[c] > 0
  PROVE  WalkOK'
  <1>1. walk \in WalkType
    BY DEF WalkOK, WalkType
  <1>2. CASE walk.at = "idle"
    <2>1. walk' = walk /\ walk = NoWalk
      BY <1>2 DEF WalkOK
    <2>2. QED
      BY <1>1, <1>2, <2>1 DEF WalkOK, WalkType, PagesMissOnlyTies, NoWalk
  <1>3. CASE walk.at # "idle"
    <2>1. walk' = [walk EXCEPT !.changed = @ \cup C]
      BY <1>3
    <2>2. /\ walk' \in WalkType /\ walk'.at = walk.at /\ walk'.cursor = walk.cursor
          /\ walk'.got = walk.got /\ walk'.cursors = walk.cursors /\ walk'.again = walk.again
          /\ walk'.changed = walk.changed \cup C
      BY <1>1, <2>1 DEF WalkType
    <2>3. walk'.got \subseteq Convs
      BY <2>2 DEF WalkType
    <2>4. walk.at = "paging" => \A c \in walk'.got \ walk'.changed : last'[c] >= walk'.cursor
      BY <2>2, <2>3 DEF WalkOK
    <2>5. walk.at = "paging" /\ walk.cursor # 0 =>
             \A c \in Visible' \ (walk'.got \cup walk'.changed) :
                 last'[c] >= walk'.cursor => last'[c] \in walk'.cursors
      BY <2>2 DEF WalkOK
    <2>6. PagesMissOnlyTies'
      BY <2>2 DEF WalkOK, PagesMissOnlyTies
    <2>7. QED
      BY <1>3, <2>2, <2>4, <2>5, <2>6 DEF WalkOK, WalkType
  <1>4. QED
    BY <1>2, <1>3

LEMMA ReadPageOK ==
  ASSUME TypeOK, WalkOK, ReadPage
  PROVE  WalkOK'
  <1> DEFINE candidates == After(walk.cursor)
             more == Cardinality(candidates) > PageSize
  <1>1. PICK page \in Pages(candidates) :
          walk' = [walk EXCEPT !.at = IF more THEN "paging" ELSE "end",
                               !.cursor = IF more THEN Oldest(page) ELSE 0,
                               !.cursors = IF more THEN @ \cup {Oldest(page)} ELSE @,
                               !.got = @ \cup page,
                               !.again = @ \cup (walk.got \cap page)]
    BY DEF ReadPage
  <1>2. /\ walk \in WalkType /\ walk.at = "paging" /\ UNCHANGED <<rows, deleted, last>>
        /\ Visible' = Visible
    BY DEF ReadPage, WalkOK, WalkType, dbVars, Visible
  <1>3. /\ candidates = {c \in Visible : walk.cursor = 0 \/ last[c] < walk.cursor}
        /\ candidates \subseteq Visible /\ Visible \subseteq Convs
    BY DEF After, Visible, TypeOK
  <1> HIDE DEF candidates
  <1>4. /\ page \subseteq candidates
        /\ \A c \in page, d \in candidates \ page : last[c] >= last[d]
        /\ more => page # {}
        /\ ~more => page = candidates
    BY <1>3, PageFacts
  <1>5. more => /\ Oldest(page) \in 0..MaxClock
                /\ \E c \in page : last[c] = Oldest(page)
                /\ \A c \in page : Oldest(page) <= last[c]
    BY <1>3, <1>4, OldestFacts
  <1> HIDE DEF more
  <1>6. /\ walk' \in WalkType /\ walk'.at = (IF more THEN "paging" ELSE "end")
        /\ walk'.cursor = (IF more THEN Oldest(page) ELSE 0)
        /\ walk'.cursors = (IF more THEN walk.cursors \cup {Oldest(page)} ELSE walk.cursors)
        /\ walk'.got = walk.got \cup page
        /\ walk'.again = walk.again \cup (walk.got \cap page) /\ walk'.changed = walk.changed
    <2> DEFINE at == IF more THEN "paging" ELSE "end"
               cursor == IF more THEN Oldest(page) ELSE 0
               cursors == IF more THEN walk.cursors \cup {Oldest(page)} ELSE walk.cursors
    <2>1. /\ at \in {"idle", "paging", "end"} /\ cursor \in 0..MaxClock
          /\ cursors \in SUBSET (0..MaxClock) /\ page \in SUBSET Convs
      BY <1>2, <1>3, <1>4, <1>5, ConvBounds DEF WalkType
    <2>2. walk' = [walk EXCEPT !.at = at, !.cursor = cursor, !.cursors = cursors,
                               !.got = @ \cup page, !.again = @ \cup (walk.got \cap page)]
      BY <1>1, <1>2 DEF WalkType
    <2> HIDE DEF at, cursor, cursors
    <2>3. walk' \in WalkType
      BY <1>2, <2>1, <2>2 DEF WalkType
    <2>4. /\ walk'.at = at /\ walk'.cursor = cursor /\ walk'.cursors = cursors
          /\ walk'.got = walk.got \cup page
          /\ walk'.again = walk.again \cup (walk.got \cap page) /\ walk'.changed = walk.changed
      BY <1>2, <2>2 DEF WalkType
    <2>5. QED
      BY <2>3, <2>4 DEF at, cursor, cursors
  <1>7. \A c \in Convs : last[c] \in Nat
    BY ConvBounds DEF TypeOK
  <1>8. walk.cursor \in Nat /\ (more => Oldest(page) \in Nat)
    BY <1>2, <1>5, ConvBounds DEF WalkType
  <1>9. walk'.again \subseteq walk'.changed
    <2>1. ASSUME NEW c \in walk.got \cap page PROVE c \in walk.changed
      <3>1. walk.cursor # 0 /\ last[c] < walk.cursor /\ c \in Convs
        BY <1>2, <1>3, <1>4, <2>1 DEF WalkOK
      <3>2. QED
        BY <1>2, <1>7, <1>8, <2>1, <3>1 DEF WalkOK
    <2>2. QED
      BY <1>6, <2>1 DEF WalkOK, PagesMissOnlyTies
  <1>10. ASSUME more, NEW c \in Visible \ (walk'.got \cup walk'.changed), last[c] >= Oldest(page)
         PROVE  last[c] \in walk'.cursors
    <2>1. c \in Visible \ (walk.got \cup walk.changed) /\ c \notin page /\ c \in Convs
      BY <1>3, <1>6, <1>10
    <2>2. CASE c \in candidates
      <3>1. last[c] <= Oldest(page)
        BY <1>4, <1>5, <1>7, <1>8, <1>3, <1>10, <2>1, <2>2
      <3>2. last[c] = Oldest(page)
        BY <1>7, <1>8, <1>10, <2>1, <3>1
      <3>3. QED
        BY <1>6, <1>10, <3>2
    <2>3. CASE c \notin candidates
      <3>1. walk.cursor # 0 /\ last[c] >= walk.cursor
        BY <1>3, <1>7, <1>8, <2>1, <2>3
      <3>2. last[c] \in walk.cursors
        BY <1>2, <2>1, <3>1 DEF WalkOK
      <3>3. QED
        BY <1>6, <1>10, <3>2
    <2>4. QED
      BY <2>2, <2>3
  <1>11. ASSUME ~more, NEW c \in Visible \ (walk'.got \cup walk'.changed)
         PROVE  last[c] \in walk'.cursors
    <2>1. c \in Visible \ (walk.got \cup walk.changed) /\ c \notin candidates /\ c \in Convs
      BY <1>3, <1>4, <1>6, <1>11
    <2>2. walk.cursor # 0 /\ last[c] >= walk.cursor
      BY <1>3, <1>7, <1>8, <2>1
    <2>3. QED
      BY <1>2, <1>6, <1>11, <2>1, <2>2 DEF WalkOK
  <1>12. ASSUME more
         PROVE  walk'.cursor # 0 /\ \A c \in walk'.got \ walk'.changed : last[c] >= walk'.cursor
    <2>1. PICK d \in page : last[d] = Oldest(page)
      BY <1>5, <1>12
    <2>2. d \in Convs /\ last[d] > 0 /\ (walk.cursor # 0 => last[d] < walk.cursor)
      BY <1>3, <1>4, <2>1 DEF Visible, WalkOK
    <2>3. ASSUME NEW c \in walk.got \ walk.changed PROVE last[c] >= Oldest(page)
      <3>1. c \in Convs /\ walk.cursor # 0 /\ last[c] >= walk.cursor
        BY <1>2, <2>3 DEF WalkOK, WalkType
      <3>2. QED
        BY <1>7, <1>8, <1>12, <2>1, <2>2, <3>1
    <2>4. \A c \in page : last[c] >= Oldest(page)
      BY <1>3, <1>4, <1>5, <1>7, <1>8, <1>12
    <2>5. walk'.cursor = Oldest(page) /\ walk'.got = walk.got \cup page /\ walk'.changed = walk.changed
      BY <1>6, <1>12
    <2>6. QED
      BY <1>7, <2>1, <2>2, <2>3, <2>4, <2>5
  <1>13. PagesMissOnlyTies'
    BY <1>2, <1>6, <1>9, <1>11 DEF PagesMissOnlyTies
  <1>14. /\ walk'.at # "idle" /\ walk'.at = "paging" => more
         /\ more => walk'.cursor = Oldest(page)
         /\ \A c \in rows' : last'[c] > 0
    BY <1>2, <1>6 DEF WalkOK
  <1>15. QED
    BY <1>2, <1>6, <1>10, <1>12, <1>13, <1>14 DEF WalkOK, WalkType

LEMMA WalkNext ==
  ASSUME TypeOK, TxsOK, JobOK, WalkOK, [Next]_vars
  PROVE  WalkOK'
  <1>0. rows \subseteq Convs /\ deleted \subseteq rows /\ chosen \subseteq rows
        /\ \A c \in rows : last[c] > 0
    BY DEF TypeOK, WalkOK
  <1>1. CASE Creating
    <2>1. PICK k \in Clients : CommitCreate(k)
      BY <1>1 DEF Creating
    <2> DEFINE c == tx[k].conv
    <2>2. c \in Convs /\ tx[k].stamp > 0 /\ tx[k] \in Txs
      BY <2>1, TxType DEF CommitCreate, Is, Txs
    <2>3. /\ rows' = rows \cup {c} /\ last' = [last EXCEPT ![c] = tx[k].stamp] /\ deleted' = deleted
          /\ walk' = IF walk.at = "idle" THEN walk ELSE [walk EXCEPT !.changed = @ \cup {c}]
      BY <2>1 DEF CommitCreate, Changed
    <2> HIDE DEF c
    <2>4. /\ \A d \in Convs \ {c} : last'[d] = last[d] /\ (d \in Visible' => d \in Visible)
          /\ Visible' \subseteq Convs
      BY <1>0, <2>2, <2>3 DEF Visible, TypeOK
    <2>5. \A d \in rows' : last'[d] > 0
      BY <1>0, <2>2, <2>3 DEF TypeOK
    <2>6. {c} \in SUBSET Convs
      BY <2>2
    <2>7. QED
      BY <2>3, <2>4, <2>5, <2>6, WalkChanges
  <1>2. CASE Touching
    <2>1. PICK k \in Clients : CommitTouch(k)
      BY <1>2 DEF Touching
    <2> DEFINE c == tx[k].conv
    <2>2. c \in Convs /\ tx[k].stamp > 0 /\ tx[k] \in Txs
      BY <2>1, TxType DEF CommitTouch, Is, Txs
    <2>3. /\ rows' = rows /\ last' = [last EXCEPT ![c] = tx[k].stamp] /\ deleted' = deleted
          /\ walk' = IF walk.at = "idle" THEN walk ELSE [walk EXCEPT !.changed = @ \cup {c}]
      BY <2>1 DEF CommitTouch, Changed
    <2> HIDE DEF c
    <2>4. /\ \A d \in Convs \ {c} : last'[d] = last[d] /\ (d \in Visible' => d \in Visible)
          /\ Visible' \subseteq Convs
      BY <1>0, <2>2, <2>3 DEF Visible, TypeOK
    <2>5. \A d \in rows' : last'[d] > 0
      BY <1>0, <2>2, <2>3 DEF TypeOK
    <2>6. {c} \in SUBSET Convs
      BY <2>2
    <2>7. QED
      BY <2>3, <2>4, <2>5, <2>6, WalkChanges
  <1>3. CASE Deleting
    <2>1. PICK k \in Clients : CommitDelete(k)
      BY <1>3 DEF Deleting
    <2> DEFINE c == tx[k].conv
    <2>2. c \in Convs
      BY <2>1, TxType DEF CommitDelete, Is, Txs
    <2>3. /\ rows' = rows /\ last' = last /\ deleted' = deleted \cup {c}
          /\ walk' = IF walk.at = "idle" THEN walk ELSE [walk EXCEPT !.changed = @ \cup {c}]
      BY <2>1 DEF CommitDelete, Changed
    <2> HIDE DEF c
    <2>4. /\ \A d \in Convs \ {c} : last'[d] = last[d] /\ (d \in Visible' => d \in Visible)
          /\ Visible' \subseteq Convs /\ \A d \in rows' : last'[d] > 0
      BY <1>0, <2>2, <2>3 DEF Visible
    <2>5. {c} \in SUBSET Convs
      BY <2>2
    <2>6. QED
      BY <2>3, <2>4, <2>5, WalkChanges
  <1>4. CASE JobCommit
    <2>1. /\ rows' = rows \ chosen /\ last' = last /\ deleted' = deleted \ chosen
          /\ walk' = IF walk.at = "idle" THEN walk ELSE [walk EXCEPT !.changed = @ \cup chosen]
      BY <1>4 DEF JobCommit
    <2>2. /\ \A d \in Convs \ chosen : last'[d] = last[d] /\ (d \in Visible' => d \in Visible)
          /\ Visible' \subseteq Convs /\ \A d \in rows' : last'[d] > 0
      BY <1>0, <2>1 DEF Visible
    <2>3. chosen \in SUBSET Convs
      BY <1>0
    <2>4. QED
      BY <2>1, <2>2, <2>3, WalkChanges
  <1>5. CASE ReadPage
    BY <1>5, ReadPageOK
  <1>6. CASE BeginWalk
    <2>1. /\ walk = NoWalk /\ walk' = [NoWalk EXCEPT !.at = "paging"]
          /\ UNCHANGED <<rows, deleted, last>>
      BY <1>6 DEF BeginWalk, WalkOK, dbVars
    <2>2. /\ walk'.at = "paging" /\ walk'.cursor = 0 /\ walk'.got = {} /\ walk'.cursors = {}
          /\ walk'.again = {} /\ walk'.changed = {} /\ walk' \in WalkType
      BY <2>1, ConvBounds DEF NoWalk, WalkType
    <2>3. QED
      BY <1>0, <2>1, <2>2 DEF WalkOK, WalkType, PagesMissOnlyTies
  <1>7. CASE Shutdown \/ EndProcess
    <2>1. walk' = NoWalk /\ UNCHANGED <<rows, deleted, last>>
      BY <1>7 DEF Shutdown, EndProcess, dbVars
    <2>2. /\ NoWalk \in WalkType /\ NoWalk.at = "idle" /\ NoWalk.again = {}
      BY ConvBounds DEF NoWalk, WalkType
    <2>3. QED
      BY <1>0, <2>1, <2>2 DEF WalkOK, WalkType, PagesMissOnlyTies
  <1>8. ASSUME ~Creating, ~Touching, ~Deleting, ~BeginWalk, ~ReadPage, ~JobCommit, ~Shutdown, ~EndProcess
        PROVE  WalkOK'
    <2>1. UNCHANGED <<walk, rows, deleted, last>>
      BY <1>8, Writers
    <2>2. QED
      BY <2>1 DEF WalkOK, PagesMissOnlyTies, Visible
  <1>9. QED
    BY <1>1, <1>2, <1>3, <1>4, <1>5, <1>6, <1>7, <1>8

-----------------------------------------------------------------------------
(* Types. *)

(* A title is found after at most as many probes as there are ids. *)
LEMMA TitleBound ==
  ASSUME TypeOK, TxsOK, NEW k \in Clients, tx[k].kind = "create"
  PROVE  tx[k].suffix \in 0..Cardinality(Convs)
  <1> DEFINE c == tx[k].conv
             n == tx[k].suffix - 1
  <1>1. /\ TxOK(k) /\ tx[k] \in Txs
    BY TxType DEF TxsOK
  <1>2. /\ c \in Convs /\ title[c] = 0 /\ n \in Nat /\ tx[k].suffix = n + 1
        /\ \A m \in 1..n : \E d \in Convs : title[d] = m
    BY <1>1 DEF TxOK, Txs
  <1>3. title \in [Convs -> Nat] /\ IsFiniteSet(Convs) /\ Cardinality(Convs) \in Nat
    BY ConvBounds, FS_CardinalityType DEF TypeOK
  <1> HIDE DEF c, n
  <1>4. n < Cardinality(Convs)
    BY <1>2, <1>3, Pigeons
  <1>5. QED
    BY <1>2, <1>3, <1>4

LEMMA CounterTypes ==
  ASSUME NEW f \in [Convs -> Nat], NEW c \in Convs, NEW n \in Nat
  PROVE  [f EXCEPT ![c] = @ + 1] \in [Convs -> Nat] /\ [f EXCEPT ![c] = n] \in [Convs -> Nat]
  OBVIOUS

LEMMA TimeNext ==
  ASSUME TypeOK, [Next]_vars
  PROVE  clock' \in 0..MaxClock /\ cutoff' \in 0..MaxClock /\ starts' \in Nat
  <1>0. clock \in 0..MaxClock /\ cutoff \in 0..MaxClock /\ starts \in Nat /\ MaxClock \in Nat
    BY ConvBounds DEF TypeOK
  <1>1. CASE Starting
    BY <1>0, <1>1 DEF Starting, StartCreate, StartRequest, StartGate, Start
  <1>2. CASE BeginWalk
    BY <1>0, <1>2 DEF BeginWalk
  <1>3. CASE Age
    BY <1>0, <1>3 DEF Age
  <1>4. ASSUME ~Starting, ~BeginWalk, ~Age PROVE UNCHANGED timeVars
    BY <1>4, Steps DEF Probing, Locking, Aborting, Creating, Touching, Counting, Deleting, Gating,
       Closing, Taking, ProbeTitle, FindToDelete, UpdateRow, InsertMessage, InsertApproval, Abort,
       CommitCreate, CommitTouch, CommitMessage, CommitDelete, CommitGate, CloseApproval, ReadPage,
       JobSelect, JobTake, JobDelete, JobCommit, JobFails, Live, Shutdown, StopJob, EndProcess,
       timeVars, vars
  <1>5. QED
    BY <1>0, <1>1, <1>2, <1>3, <1>4 DEF timeVars

LEMMA TypeNext ==
  ASSUME ConvInv, [Next]_vars
  PROVE  TypeOK'
  <1>0. TypeOK /\ LifeOK /\ TxsOK /\ JobOK
    BY DEF ConvInv
  <1>1. LifeTypeOK' /\ JobType' /\ tx' \in [Clients -> Txs \cup {NoTx}]
    BY <1>0, LifeNext, JobNext, TxTypeNext
  <1>2. created \subseteq created' /\ created' \subseteq Convs
    BY <1>0, StartMoves, Writers DEF Begins, TypeOK
  <1>3. rows' \subseteq created'
    BY <1>0, <1>2, Writers DEF Creating, CommitCreate, JobCommit, TxsOK, TxOK, TypeOK, Is
  <1>4. title' \in [Convs -> 0..Cardinality(Convs)]
    <2>1. CASE Creating
      <3>1. PICK k \in Clients : CommitCreate(k)
        BY <2>1 DEF Creating
      <3>2. tx[k].suffix \in 0..Cardinality(Convs)
        BY <1>0, <3>1, TitleBound DEF CommitCreate, Is
      <3>3. QED
        BY <1>0, <3>1, <3>2 DEF CommitCreate, TypeOK
    <2>2. QED
      BY <1>0, <2>1, Writers DEF TypeOK
  <1>5. last' \in [Convs -> 0..MaxClock]
    <2>1. ASSUME NEW k \in Clients, CommitCreate(k) \/ CommitTouch(k) PROVE last' \in [Convs -> 0..MaxClock]
      <3>1. tx[k].stamp \in 0..MaxClock
        BY <1>0, <2>1, TxType, ConvBounds DEF CommitCreate, CommitTouch, Is, Txs
      <3>2. QED
        BY <1>0, <2>1, <3>1 DEF CommitCreate, CommitTouch, TypeOK
    <2>2. QED
      BY <1>0, <2>1, Writers DEF Creating, Touching, TypeOK
  <1>6. hits' \in [Convs -> Nat]
    <2>1. CASE Touching
      <3>1. PICK k \in Clients : CommitTouch(k)
        BY <2>1 DEF Touching
      <3>2. hits \in [Convs -> Nat] /\ tx[k].conv \in Convs
        BY <1>0, <3>1, TxType DEF CommitTouch, Is, Txs, TypeOK
      <3>3. hits' = [hits EXCEPT ![tx[k].conv] = @ + 1]
        BY <3>1 DEF CommitTouch
      <3>4. QED
        BY <3>2, <3>3, CounterTypes
    <2>2. QED
      BY <1>0, <2>1, Writers DEF TypeOK
  <1>7. messages' \in [Convs -> Nat] /\ counted' \in [Convs -> Nat]
    <2>1. CASE Counting
      <3>1. PICK k \in Clients : CommitMessage(k)
        BY <2>1 DEF Counting
      <3>2. /\ tx[k].suffix + 1 \in Nat /\ tx[k].conv \in Convs
            /\ messages \in [Convs -> Nat] /\ counted \in [Convs -> Nat]
        BY <1>0, <3>1, TxType DEF CommitMessage, Is, Txs, TypeOK
      <3>3. /\ messages' = [messages EXCEPT ![tx[k].conv] = @ + 1]
            /\ counted' = [counted EXCEPT ![tx[k].conv] = tx[k].suffix + 1]
        BY <3>1 DEF CommitMessage
      <3>4. QED
        BY <3>2, <3>3, CounterTypes
    <2>2. CASE JobCommit
      BY <1>0, <2>2 DEF JobCommit, TypeOK
    <2>3. QED
      BY <1>0, <2>1, <2>2, Writers DEF TypeOK
  <1>8. deleted' \subseteq rows' /\ open' \subseteq rows' /\ audited' \subseteq rows'
    <2>1. ASSUME NEW k \in Clients, CommitDelete(k) \/ CommitGate(k) PROVE tx[k].conv \in rows
      BY <1>0, <2>1 DEF CommitDelete, CommitGate, Is, TxsOK, TxOK
    <2>2. ASSUME ~JobCommit PROVE rows \subseteq rows'
      BY <2>2, Writers DEF Creating, CommitCreate
    <2>3. CASE JobCommit
      BY <1>0, <2>3 DEF JobCommit, JobOK, TypeOK
    <2>4. CASE ~JobCommit
      <3>1. deleted' \subseteq rows
        BY <1>0, <2>1, <2>4, Writers DEF Deleting, CommitDelete, TypeOK
      <3>2. open' \subseteq rows /\ audited' \subseteq rows
        <4>1. CASE Gating
          BY <1>0, <2>1, <4>1 DEF Gating, CommitGate, TypeOK
        <4>2. CASE Closing
          BY <1>0, <4>2 DEF Closing, CloseApproval, TypeOK
        <4>3. QED
          BY <1>0, <2>4, <4>1, <4>2, Writers DEF TypeOK
      <3>3. QED
        BY <2>2, <2>4, <3>1, <3>2
    <2>5. QED
      BY <2>3, <2>4
  <1>9. QED
    BY <1>0, <1>1, <1>2, <1>3, <1>4, <1>5, <1>6, <1>7, <1>8, TimeNext DEF TypeOK, JobType

-----------------------------------------------------------------------------
(* The invariant. *)

LEMMA InitInv == Init => ConvInv
  <1> SUFFICES ASSUME Init PROVE ConvInv
    OBVIOUS
  <1>1. /\ 0 \in 0..MaxClock /\ 1 \in 0..MaxClock
        /\ Cardinality(Convs) \in Nat /\ 0 \in 0..Cardinality(Convs)
    BY ConvBounds, FS_CardinalityType
  <1>2. NoTx.kind = "none" /\ \A k \in Clients : tx[k] = NoTx
    BY DEF Init, NoTx
  <1>3. LifeOK /\ LifeTypeOK
    BY DEF Init, LifeInit, LifeOK, LifeTypeOK, Phases
  <1>4. TypeOK
    BY <1>1, <1>3 DEF Init, TypeOK
  <1>5. TxsOK
    BY <1>2 DEF Init, TxsOK, TxOK, Updating, Updates
  <1>6. RacesOK
    BY <1>2 DEF Init, RacesOK, SameTitleOnlyByRace, Visible, Is
  <1>7. JobOK /\ CountsOK
    BY DEF Init, JobOK, CountsOK
  <1>8. WalkOK
    <2>1. walk = NoWalk /\ rows = {}
      BY DEF Init
    <2>2. NoWalk \in WalkType /\ NoWalk.at = "idle" /\ NoWalk.again = {}
      BY <1>1 DEF NoWalk, WalkType
    <2>3. QED
      BY <2>1, <2>2 DEF WalkOK, WalkType, PagesMissOnlyTies
  <1>9. QED
    BY <1>3, <1>4, <1>5, <1>6, <1>7, <1>8 DEF ConvInv

LEMMA NextInv == ConvInv /\ [Next]_vars => ConvInv'
  BY TypeNext, LifeNext, TxsNext, RacesNext, JobNext, CountsNext, WalkNext DEF ConvInv

(* The invariant, in every state of every run. *)
THEOREM ConversationsInvariant == Spec => []ConvInv
  <1>1. QED
    BY InitInv, NextInv, PTL DEF Spec

(* Every variable keeps its type: a title is found after as many probes    *)
(* as there are ids at most, and approvals and audited rows keep their     *)
(* conversation.                                                           *)
THEOREM TypeCorrect == Spec => []TypeOK
  <1>1. ConvInv => TypeOK
    BY DEF ConvInv
  <1>2. QED
    BY <1>1, ConversationsInvariant, PTL

(* The purge deletes nothing that became fresh, in use or waited for an    *)
(* approval, but one that came during its SELECT.                          *)
THEOREM SafePurge == Spec => []PurgeIsSafe
  <1>1. ConvInv => PurgeIsSafe
    <2>1. ASSUME ConvInv, NEW c \in chosen PROVE c \notin UpdateLocks \cup ShareLocks
      BY <2>1 DEF ConvInv, TxsOK, TxOK, UpdateLocks, ShareLocks, Is
    <2>2. QED
      BY <2>1 DEF ConvInv, JobOK, PurgeIsSafe
  <1>2. QED
    BY <1>1, ConversationsInvariant, PTL

(* The process serves whole or degraded, and the job only runs while the   *)
(* database is there.                                                      *)
THEOREM DatabaseThere == Spec => []WorkNeedsDatabase
  <1>1. ConvInv => WorkNeedsDatabase
    BY DEF ConvInv, LifeOK, WorkNeedsDatabase, ServesWholeOrDegraded
  <1>2. QED
    BY <1>1, ConversationsInvariant, PTL

(* Equal titles come only of conversations created at the same time. *)
THEOREM UniqueTitles == Spec => []SameTitleOnlyByRace
  <1>1. ConvInv => SameTitleOnlyByRace
    BY DEF ConvInv, RacesOK
  <1>2. QED
    BY <1>1, ConversationsInvariant, PTL

(* The counter of a conversation is the number of its messages. *)
THEOREM CountsAgree == Spec => []MessageCountAgrees
  <1>1. ConvInv => MessageCountAgrees
    BY DEF ConvInv, TypeOK, CountsOK, MessageCountAgrees
  <1>2. QED
    BY <1>1, ConversationsInvariant, PTL

(* Reading all pages misses nothing but ties, and repeats nothing. *)
THEOREM PagesComplete == Spec => []PagesMissOnlyTies
  <1>1. ConvInv => PagesMissOnlyTies
    BY DEF ConvInv, WalkOK
  <1>2. QED
    BY <1>1, ConversationsInvariant, PTL

=============================================================================
