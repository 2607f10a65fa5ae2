--------------------------- MODULE Conversations ---------------------------
(***************************************************************************)
(* The rows of one user's conversations (conversation_repo.py,             *)
(* message_repo.py, api/routers/sessions.py) and the daily job that purges *)
(* stale ones (api/main.py), in a process that starts, stops and crashes   *)
(* (Lifespan).                                                             *)
(*                                                                         *)
(* A client is a transaction of a request or a graph task.  PostgreSQL at  *)
(* READ COMMITTED: what a transaction wrote counts from its commit, an     *)
(* UPDATE waits for the row, an INSERT of a child takes a share lock of    *)
(* its conversation, and now() is the start of the transaction.            *)
(***************************************************************************)
EXTENDS Lifespan, FiniteSets

CONSTANTS
    Clients,        \* transactions at a time
    Convs,          \* conversation ids
    MinAccess,      \* access_count below which a conversation is low-engagement
    PageSize,       \* limit of list_conversations
    MaxStarts,      \* bound: transactions and listings started
    MaxClock        \* bound: distinct timestamps

ASSUME ConvBounds ==
    /\ IsFiniteSet(Convs)
    /\ MinAccess \in Nat /\ PageSize \in Nat \ {0} /\ MaxStarts \in Nat /\ MaxClock \in Nat \ {0}

VARIABLES
    rows,       \* conversations in the table
    created,    \* ids ever used: uuids are not used again
    title,      \* title[c]: 1 is the title asked for, n is that title with " (n)"
    last,       \* last[c]: last_accessed
    hits,       \* hits[c]: access_count
    deleted,    \* is_deleted
    messages,   \* messages[c]: rows of messages
    counted,    \* counted[c]: message_count
    open,       \* conversations with an open approval
    audited,    \* conversations with an approval that the audit log names
    tx,         \* tx[k]: the transaction of client k
    job,        \* where the retention job is
    snapshot,   \* open, as the job's SELECT sees it
    todo,       \* rows the SELECT has not come to
    chosen,     \* rows the job has locked
    clock,      \* the latest timestamp; the first is 1
    cutoff,     \* timestamps below are more than 90 days old
    starts,     \* transactions and listings so far
    walk,       \* a client that lists its conversations page by page
    raced,      \* pairs of conversations created at the same time
    late        \* conversations whose approval came during the job's SELECT

dbVars == <<rows, created, title, last, hits, deleted, messages, counted, open, audited>>
jobVars == <<job, snapshot, todo, chosen>>
timeVars == <<clock, cutoff, starts>>
vars == <<lifeVars, dbVars, tx, jobVars, timeVars, walk, raced, late>>

Nobody == CHOOSE c \in Convs : TRUE
NoTx == [kind |-> "none", at |-> "idle", conv |-> Nobody, stamp |-> 0, suffix |-> 0]
NoWalk == [at |-> "idle", cursor |-> 0, got |-> {}, cursors |-> {}, again |-> {}, changed |-> {}]

Kinds == {"create", "touch", "save", "delete", "gate"}
Txs == [kind : Kinds, at : {"begun", "found", "holding"}, conv : Convs,
        stamp : 1..MaxClock, suffix : Nat]

Init ==
    /\ LifeInit
    /\ rows = {} /\ created = {}
    /\ title = [c \in Convs |-> 0] /\ last = [c \in Convs |-> 0]
    /\ hits = [c \in Convs |-> 0] /\ deleted = {}
    /\ messages = [c \in Convs |-> 0] /\ counted = [c \in Convs |-> 0]
    /\ open = {} /\ audited = {}
    /\ tx = [k \in Clients |-> NoTx]
    /\ job = "off" /\ snapshot = {} /\ todo = {} /\ chosen = {}
    /\ clock = 1 /\ cutoff = 1 /\ starts = 0
    /\ walk = NoWalk
    /\ raced = {} /\ late = {}

Visible == rows \ deleted
Is(k, kind, place) == tx[k].kind = kind /\ tx[k].at = place
Goto(k, place) == tx' = [tx EXCEPT ![k].at = place]
Done(k) == tx' = [tx EXCEPT ![k] = NoTx]

(* Row locks of transactions: an UPDATE excludes other UPDATEs, a child    *)
(* that is inserted excludes only the job's FOR UPDATE.                    *)
UpdateLocks == {tx[k].conv : k \in {j \in Clients : \E kind \in {"touch", "save", "delete"} :
                                        Is(j, kind, "holding")}}
ShareLocks == {tx[k].conv : k \in {j \in Clients : \E kind \in {"gate", "save"} :
                                        Is(j, kind, "holding")}}

(* A list that is being read misses and repeats what changes under it. *)
Changed(c) == walk' = IF walk.at = "idle" THEN walk ELSE [walk EXCEPT !.changed = @ \cup {c}]

-----------------------------------------------------------------------------
(* Transactions of clients.                                                *)

(* now() may be the same for two transactions. *)
Start(k, kind, c, stamp) ==
    /\ tx[k] = NoTx
    /\ starts < MaxStarts
    /\ starts' = starts + 1
    /\ stamp \in {clock, clock + 1}
    /\ stamp <= MaxClock
    /\ clock' = stamp
    /\ tx' = [tx EXCEPT ![k] = [kind |-> kind, at |-> "begun", conv |-> c, stamp |-> stamp,
                                suffix |-> IF kind = "create" THEN 1 ELSE 0]]
    /\ UNCHANGED <<lifeVars, jobVars, cutoff, walk, raced, late>>

(* create_conversation under a fresh uuid: it does not matter which. *)
StartCreate(k, stamp) ==
    /\ phase = "serving"
    /\ created # Convs
    /\ LET c == CHOOSE c \in Convs : c \notin created
       IN created' = created \cup {c} /\ Start(k, "create", c, stamp)
    /\ UNCHANGED <<rows, title, last, hits, deleted, messages, counted, open, audited>>

(* update_last_accessed, save_message, delete_session. *)
StartRequest(k, kind, c, stamp) ==
    /\ kind \in {"touch", "save", "delete"}
    /\ phase = "serving"
    /\ c \in created
    /\ Start(k, kind, c, stamp)
    /\ UNCHANGED dbVars

(* hitl_gate stores an approval.  Its graph needs a saver to start, and a  *)
(* resumed graph is a task that nobody stops before the process ends.      *)
StartGate(k, c, stamp) ==
    /\ saver # "none"
    /\ phase \in {"serving", "stopping", "disposing", "tearing"}
    /\ c \in created \ open
    /\ Start(k, "gate", c, stamp)
    /\ UNCHANGED dbVars

(* Faulty: the filter on is_deleted is the wrong way round. *)
TitleFreeOfDeleted(suffix) == \A c \in deleted : title[c] # suffix

TitleFree(suffix) == \A c \in Visible : title[c] # suffix

(* _unique_title: one SELECT per candidate. *)
ProbeTitle(k) ==
    /\ Is(k, "create", "begun")
    /\ tx' = IF TitleFree(tx[k].suffix)
             THEN [tx EXCEPT ![k].at = "holding"]
             ELSE [tx EXCEPT ![k].suffix = @ + 1]
    /\ UNCHANGED <<lifeVars, dbVars, jobVars, timeVars, walk, raced, late>>

(* get_conversation of delete_session: 403 unless it is visible. *)
FindToDelete(k) ==
    /\ Is(k, "delete", "begun")
    /\ IF tx[k].conv \in Visible THEN Goto(k, "found") ELSE Done(k)
    /\ UNCHANGED <<lifeVars, dbVars, jobVars, timeVars, walk, raced, late>>

(* An UPDATE by id: it waits for the lock; no row, no effect. *)
UpdateRow(k) ==
    LET c == tx[k].conv
    IN /\ Is(k, "touch", "begun") \/ Is(k, "delete", "found")
       /\ c \notin UpdateLocks \cup chosen
       /\ IF c \in rows THEN Goto(k, "holding") ELSE Done(k)
       /\ UNCHANGED <<lifeVars, dbVars, jobVars, timeVars, walk, raced, late>>

(* Faulty: message_count is read when the request begins. *)
InsertMessageUnlocked(k) ==
    LET c == tx[k].conv
    IN /\ Is(k, "save", "begun")
       /\ c \notin chosen
       /\ IF c \in rows
          THEN tx' = [tx EXCEPT ![k].at = "holding", ![k].suffix = counted[c]]
          ELSE Done(k)
       /\ UNCHANGED <<lifeVars, dbVars, jobVars, timeVars, walk, raced, late>>

(* save_message: INSERT, then UPDATE of the counter; without a conversation *)
(* the foreign key fails.                                                  *)
InsertMessage(k) ==
    LET c == tx[k].conv
    IN /\ Is(k, "save", "begun")
       /\ c \notin UpdateLocks \cup chosen
       /\ IF c \in rows
          THEN tx' = [tx EXCEPT ![k].at = "holding", ![k].suffix = counted[c]]
          ELSE Done(k)
       /\ UNCHANGED <<lifeVars, dbVars, jobVars, timeVars, walk, raced, late>>

(* The INSERT of an approval waits for the job; the foreign key may fail. *)
InsertApproval(k) ==
    LET c == tx[k].conv
    IN /\ Is(k, "gate", "begun")
       /\ c \notin chosen
       /\ IF c \in rows THEN Goto(k, "holding") ELSE Done(k)
       /\ UNCHANGED <<lifeVars, dbVars, jobVars, timeVars, walk, raced, late>>

CommitCreate(k) ==
    LET c == tx[k].conv
        others == {j \in Clients \ {k} : tx[j].kind = "create"}
    IN /\ Is(k, "create", "holding")
       /\ rows' = rows \cup {c}
       /\ title' = [title EXCEPT ![c] = tx[k].suffix]
       /\ last' = [last EXCEPT ![c] = tx[k].stamp]
       /\ raced' = raced \cup {{c, tx[j].conv} : j \in others}
       /\ Changed(c)
       /\ Done(k)
       /\ UNCHANGED <<created, hits, deleted, messages, counted, open, audited,
                      lifeVars, jobVars, timeVars, late>>

CommitTouch(k) ==
    LET c == tx[k].conv
    IN /\ Is(k, "touch", "holding")
       /\ last' = [last EXCEPT ![c] = tx[k].stamp]
       /\ hits' = [hits EXCEPT ![c] = @ + 1]
       /\ Changed(c)
       /\ Done(k)
       /\ UNCHANGED <<rows, created, title, deleted, messages, counted, open, audited,
                      lifeVars, jobVars, timeVars, raced, late>>

CommitMessage(k) ==
    LET c == tx[k].conv
    IN /\ Is(k, "save", "holding")
       /\ messages' = [messages EXCEPT ![c] = @ + 1]
       /\ counted' = [counted EXCEPT ![c] = tx[k].suffix + 1]
       /\ Done(k)
       /\ UNCHANGED <<rows, created, title, last, hits, deleted, open, audited,
                      lifeVars, jobVars, timeVars, walk, raced, late>>

CommitDelete(k) ==
    LET c == tx[k].conv
    IN /\ Is(k, "delete", "holding")
       /\ deleted' = deleted \cup {c}
       /\ Changed(c)
       /\ Done(k)
       /\ UNCHANGED <<rows, created, title, last, hits, messages, counted, open, audited,
                      lifeVars, jobVars, timeVars, raced, late>>

CommitGate(k) ==
    LET c == tx[k].conv
    IN /\ Is(k, "gate", "holding")
       /\ open' = open \cup {c}
       /\ late' = IF job = "selecting" THEN late \cup {c} ELSE late
       /\ Done(k)
       /\ UNCHANGED <<rows, created, title, last, hits, deleted, messages, counted, audited,
                      lifeVars, jobVars, timeVars, walk, raced>>

(* A statement or commit fails: rolled back. *)
Abort(k) ==
    /\ tx[k] # NoTx
    /\ Fails
    /\ Done(k)
    /\ UNCHANGED <<phase, required, available, saver, tasks, boots,
                   dbVars, jobVars, timeVars, walk, raced, late>>

(* Approval, denial or time-out: the verdicts of HitlApproval.  They wait  *)
(* for a purge that deletes the approval and then find no row.             *)
CloseApproval(c) ==
    /\ c \in open
    /\ ~(job = "deleting" /\ c \in chosen)
    /\ open' = open \ {c}
    /\ audited' = audited \cup {c}
    /\ UNCHANGED <<rows, created, title, last, hits, deleted, messages, counted,
                   lifeVars, tx, jobVars, timeVars, walk, raced, late>>

-----------------------------------------------------------------------------
(* GET /sessions page by page.                                             *)

After(cursor) == {c \in Visible : cursor = 0 \/ last[c] < cursor}

(* The first PageSize of rows in descending order of last; ties in any order. *)
Pages(candidates) ==
    {page \in SUBSET candidates :
        /\ Cardinality(page) = IF Cardinality(candidates) < PageSize THEN Cardinality(candidates) ELSE PageSize
        /\ \A c \in page, d \in candidates \ page : last[c] >= last[d]}

Oldest(page) == CHOOSE s \in {last[c] : c \in page} : \A c \in page : s <= last[c]

(* Faulty: the cursor is the row that was fetched to look ahead. *)
ReadPageLookAhead ==
    /\ walk.at = "paging"
    /\ LET candidates == After(walk.cursor)
       IN \E page \in Pages(candidates) :
            LET more == Cardinality(candidates) > PageSize
                ahead == CHOOSE c \in candidates \ page : \A d \in candidates \ page : last[c] >= last[d]
            IN walk' = [walk EXCEPT !.at = IF more THEN "paging" ELSE "end",
                                    !.cursor = IF more THEN last[ahead] ELSE 0,
                                    !.cursors = IF more THEN @ \cup {Oldest(page)} ELSE @,
                                    !.got = @ \cup page,
                                    !.again = @ \cup (walk.got \cap page)]
    /\ UNCHANGED <<lifeVars, dbVars, tx, jobVars, timeVars, raced, late>>

(* list_conversations: LIMIT one more than the page, the cursor is the     *)
(* timestamp of the page's last row.                                       *)
ReadPage ==
    /\ walk.at = "paging"
    /\ LET candidates == After(walk.cursor)
       IN \E page \in Pages(candidates) :
            LET more == Cardinality(candidates) > PageSize
            IN walk' = [walk EXCEPT !.at = IF more THEN "paging" ELSE "end",
                                    !.cursor = IF more THEN Oldest(page) ELSE 0,
                                    !.cursors = IF more THEN @ \cup {Oldest(page)} ELSE @,
                                    !.got = @ \cup page,
                                    !.again = @ \cup (walk.got \cap page)]
    /\ UNCHANGED <<lifeVars, dbVars, tx, jobVars, timeVars, raced, late>>

BeginWalk ==
    /\ phase = "serving"
    /\ walk.at = "idle"
    /\ starts < MaxStarts
    /\ starts' = starts + 1
    /\ walk' = [walk EXCEPT !.at = "paging"]
    /\ UNCHANGED <<lifeVars, dbVars, tx, jobVars, clock, cutoff, raced, late>>

-----------------------------------------------------------------------------
(* _conversation_retention_job, delete_stale_conversations.                *)

Stale(c) == c \in rows /\ last[c] < cutoff /\ (hits[c] < MinAccess \/ c \in deleted)

(* Every day; the statement takes its snapshot. *)
JobSelect ==
    /\ tasks
    /\ job = "sleeping"
    /\ job' = "selecting"
    /\ snapshot' = open
    /\ todo' = {c \in rows : Stale(c)}
    /\ late' = {}
    /\ UNCHANGED <<chosen, lifeVars, dbVars, tx, timeVars, walk, raced>>

(* Faulty: rows with an open approval are not excluded. *)
JobTakeAny(c) ==
    /\ job = "selecting"
    /\ c \in todo
    /\ todo' = todo \ {c}
    /\ chosen' = IF c \notin UpdateLocks \cup ShareLocks /\ Stale(c)
                 THEN chosen \cup {c} ELSE chosen
    /\ UNCHANGED <<job, snapshot, lifeVars, dbVars, tx, timeVars, walk, raced, late>>

(* FOR UPDATE SKIP LOCKED, row by row: a locked row is skipped; one that   *)
(* changed is tested again, but with the approvals of the snapshot.        *)
JobTake(c) ==
    /\ job = "selecting"
    /\ c \in todo
    /\ todo' = todo \ {c}
    /\ chosen' = IF c \notin UpdateLocks \cup ShareLocks \cup snapshot /\ Stale(c)
                 THEN chosen \cup {c} ELSE chosen
    /\ UNCHANGED <<job, snapshot, lifeVars, dbVars, tx, timeVars, walk, raced, late>>

Sleep == job' = "sleeping" /\ snapshot' = {} /\ todo' = {} /\ chosen' = {}

(* Faulty: the audit log cascades too. *)
JobDeleteCascading ==
    /\ job = "selecting" /\ todo = {}
    /\ IF chosen = {} THEN Sleep ELSE job' = "deleting" /\ UNCHANGED <<snapshot, todo, chosen>>
    /\ UNCHANGED <<lifeVars, dbVars, tx, timeVars, walk, raced, late>>

(* The DELETE, its cascade to messages and approvals, and the audit log,   *)
(* whose foreign key has no ON DELETE: one audited row and the statement   *)
(* fails.  The job logs it and sleeps.                                     *)
JobDelete ==
    /\ job = "selecting" /\ todo = {}
    /\ IF chosen = {} \/ chosen \cap audited # {} THEN Sleep
       ELSE job' = "deleting" /\ UNCHANGED <<snapshot, todo, chosen>>
    /\ UNCHANGED <<lifeVars, dbVars, tx, timeVars, walk, raced, late>>

JobCommit ==
    /\ job = "deleting"
    /\ rows' = rows \ chosen
    /\ deleted' = deleted \ chosen
    /\ open' = open \ chosen
    /\ messages' = [c \in Convs |-> IF c \in chosen THEN 0 ELSE messages[c]]
    /\ counted' = [c \in Convs |-> IF c \in chosen THEN 0 ELSE counted[c]]
    /\ walk' = IF walk.at = "idle" THEN walk ELSE [walk EXCEPT !.changed = @ \cup chosen]
    /\ Sleep
    /\ UNCHANGED <<created, title, last, hits, audited, lifeVars, tx, timeVars, raced, late>>

(* Faulty: the exception ends the task. *)
JobDies ==
    /\ job \in {"selecting", "deleting"}
    /\ Fails
    /\ job' = "off" /\ snapshot' = {} /\ todo' = {} /\ chosen' = {}
    /\ UNCHANGED <<phase, required, available, saver, tasks, boots,
                   dbVars, tx, timeVars, walk, raced, late>>

(* A statement or the commit fails: rolled back, logged, tried tomorrow. *)
JobFails ==
    /\ job \in {"selecting", "deleting"}
    /\ Fails
    /\ Sleep
    /\ UNCHANGED <<phase, required, available, saver, tasks, boots,
                   dbVars, tx, timeVars, walk, raced, late>>

-----------------------------------------------------------------------------
(* The process.                                                            *)

Live ==
    /\ LifeStep
    /\ job' = IF phase' = "serving" /\ tasks' THEN "sleeping" ELSE job
    /\ UNCHANGED <<dbVars, tx, snapshot, todo, chosen, timeVars, walk, raced, late>>

(* The server answers its requests before it shuts down. *)
Shutdown ==
    /\ phase = "serving"
    /\ \A k \in Clients : tx[k].kind \in {"none", "gate"}
    /\ phase' = "stopping"
    /\ walk' = NoWalk
    /\ UNCHANGED <<required, available, saver, tasks, boots, faults,
                   dbVars, tx, jobVars, timeVars, raced, late>>

(* Cancelling the job in a transaction rolls it back. *)
EndJob == job' = "off" /\ snapshot' = {} /\ todo' = {} /\ chosen' = {}

(* Faulty: the tasks are cancelled and not awaited. *)
StopJobUnawaited ==
    /\ StopTasks
    /\ UNCHANGED <<dbVars, tx, jobVars, timeVars, walk, raced, late>>

StopJob ==
    /\ StopTasks
    /\ EndJob
    /\ UNCHANGED <<dbVars, tx, timeVars, walk, raced, late>>

EndProcess ==
    /\ CloseRedis \/ Crash
    /\ EndJob
    /\ tx' = [k \in Clients |-> NoTx]
    /\ walk' = NoWalk
    /\ UNCHANGED <<dbVars, timeVars, raced, late>>

(* Ninety days in which nothing happens to any conversation. *)
Age ==
    /\ \A k \in Clients : tx[k] = NoTx
    /\ job \in {"off", "sleeping"}
    /\ clock < MaxClock
    /\ cutoff' = clock + 1
    /\ clock' = clock + 1
    /\ UNCHANGED <<starts, lifeVars, dbVars, tx, jobVars, walk, raced, late>>

-----------------------------------------------------------------------------

Work(k) ==
    \/ ProbeTitle(k) \/ FindToDelete(k) \/ UpdateRow(k) \/ InsertMessage(k) \/ InsertApproval(k)
    \/ CommitCreate(k) \/ CommitTouch(k) \/ CommitMessage(k) \/ CommitDelete(k) \/ CommitGate(k)

JobStep == JobSelect \/ (\E c \in Convs : JobTake(c)) \/ JobDelete \/ JobCommit

Next ==
    \/ \E k \in Clients, stamp \in 1..MaxClock :
        \/ StartCreate(k, stamp)
        \/ \E c \in Convs :
            (\E kind \in Kinds : StartRequest(k, kind, c, stamp)) \/ StartGate(k, c, stamp)
    \/ \E k \in Clients : Work(k) \/ Abort(k)
    \/ \E c \in Convs : CloseApproval(c)
    \/ BeginWalk \/ ReadPage
    \/ JobStep \/ JobFails
    \/ Live \/ Shutdown \/ StopJob \/ EndProcess
    \/ Age

Spec ==
    /\ Init /\ [][Next]_vars
    /\ \A k \in Clients : WF_vars(Work(k))
    /\ WF_vars(JobStep)

-----------------------------------------------------------------------------
(* Types; approvals that are open or that the audit log names have their   *)
(* conversation (foreign keys of the migration).                           *)
TypeOK ==
    /\ LifeTypeOK
    /\ rows \subseteq created /\ created \subseteq Convs
    /\ title \in [Convs -> 0..Cardinality(Convs)] /\ last \in [Convs -> 0..MaxClock]
    /\ hits \in [Convs -> Nat] /\ deleted \subseteq rows
    /\ messages \in [Convs -> Nat] /\ counted \in [Convs -> Nat]
    /\ open \subseteq rows /\ audited \subseteq rows
    /\ tx \in [Clients -> Txs \cup {NoTx}]
    /\ job \in {"off", "sleeping", "selecting", "deleting"}
    /\ snapshot \subseteq Convs /\ todo \subseteq Convs /\ chosen \subseteq rows
    /\ clock \in 0..MaxClock /\ cutoff \in 0..MaxClock /\ starts \in Nat

(* What the job is about to delete is stale and not in use until it        *)
(* commits, and has no open approval but one that came during its SELECT   *)
(* (delete_stale_conversations).                                           *)
PurgeIsSafe ==
    \A c \in chosen : Stale(c) /\ (c \in open => c \in late) /\ c \notin UpdateLocks \cup ShareLocks

(* What works on the database has a process that brought it up and has not *)
(* begun to give it up: the process serves whole or knows that it is       *)
(* degraded, and the job is over before the pool is disposed (lifespan).   *)
WorkNeedsDatabase ==
    /\ ServesWholeOrDegraded
    /\ job # "off" => phase \in {"serving", "stopping"} /\ saver = "ready"

(* Two visible conversations have the same title only if they were created *)
(* at the same time (_unique_title).                                       *)
SameTitleOnlyByRace ==
    \A c, d \in Visible : c # d /\ title[c] = title[d] => {c, d} \in raced

(* message_count is the number of messages, however transactions overlap   *)
(* (save_message).                                                         *)
MessageCountAgrees == \A c \in rows : counted[c] = messages[c]

(* A client that reads all pages sees every conversation that did not      *)
(* change meanwhile, unless its timestamp equals that of a page's last     *)
(* row, and none of them twice (list_conversations).                       *)
PagesMissOnlyTies ==
    /\ walk.at = "end" => \A c \in Visible \ (walk.got \cup walk.changed) : last[c] \in walk.cursors
    /\ walk.again \subseteq walk.changed

(* A stale conversation without open approval is purged, unless it stops   *)
(* being one, the job is not running, or an audited conversation is stale  *)
(* too: that one makes every purge fail (delete_stale_conversations).      *)
Purgeable == {c \in rows \ open : Stale(c)}

StaleIsPurged ==
    \A c \in Convs :
        c \in Purgeable ~> c \notin Purgeable \/ Purgeable \cap audited # {} \/ phase # "serving" \/ ~available

=============================================================================
