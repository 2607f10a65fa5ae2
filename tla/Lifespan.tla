------------------------------ MODULE Lifespan ------------------------------
(***************************************************************************)
(* The life of the backend process (lifespan in api/main.py, setup and     *)
(* teardown in persistence/checkpointer.py): migrations, checkpointer,     *)
(* registry, background tasks, and the way back.  A step that needs the    *)
(* database may fail; then the process exits, or, unless                   *)
(* STARTUP_DB_REQUIRED, serves without background tasks (degraded).        *)
(***************************************************************************)
EXTENDS Naturals

CONSTANTS
    MaxBoots,   \* bound: starts of the process
    MaxFaults   \* bound: steps that fail, crashes

ASSUME LifespanBounds == MaxBoots \in Nat /\ MaxFaults \in Nat

VARIABLES
    phase,      \* how far lifespan has come
    required,   \* settings.STARTUP_DB_REQUIRED
    available,  \* app.state.db_available
    saver,      \* the checkpointer: none, entered (its setup has not run), ready
    tasks,      \* the background tasks exist
    boots,      \* starts so far
    faults      \* failures so far

lifeVars == <<phase, required, available, saver, tasks, boots, faults>>

Phases == {"down", "migrating", "checkpointer", "setup", "registry", "serving",
           "stopping", "disposing", "tearing", "closing"}

LifeInit ==
    /\ phase = "down" /\ required \in BOOLEAN /\ available = FALSE
    /\ saver = "none" /\ tasks = FALSE
    /\ boots = 0 /\ faults = 0

Fails == faults < MaxFaults /\ faults' = faults + 1

(* The process ends: nothing of it is left. *)
Exit == phase' = "down" /\ available' = FALSE /\ saver' = "none" /\ tasks' = FALSE

Boot ==
    /\ phase = "down"
    /\ boots < MaxBoots
    /\ boots' = boots + 1
    /\ phase' = "migrating"
    /\ available' = TRUE
    /\ UNCHANGED <<required, saver, tasks, faults>>

Migrate ==
    /\ phase = "migrating"
    /\ phase' = "checkpointer"
    /\ UNCHANGED <<required, available, saver, tasks, boots, faults>>

(* _run_alembic_upgrade returns False. *)
MigrateFails ==
    /\ phase = "migrating"
    /\ Fails
    /\ IF required THEN Exit
       ELSE phase' = "registry" /\ available' = FALSE /\ UNCHANGED <<saver, tasks>>
    /\ UNCHANGED <<required, boots>>

(* setup_checkpointer assigns the saver, then runs its setup. *)
EnterSaver ==
    /\ phase = "checkpointer"
    /\ phase' = "setup"
    /\ saver' = "entered"
    /\ UNCHANGED <<required, available, tasks, boots, faults>>

SetupSaver ==
    /\ phase = "setup"
    /\ phase' = "registry"
    /\ saver' = "ready"
    /\ UNCHANGED <<required, available, tasks, boots, faults>>

(* Faulty: the failure is logged only. *)
SaverFailsUnnoticed ==
    /\ phase \in {"checkpointer", "setup"}
    /\ Fails
    /\ phase' = "registry"
    /\ UNCHANGED <<required, available, saver, tasks, boots>>

(* When setup fails the saver stays assigned. *)
SaverFails ==
    /\ phase \in {"checkpointer", "setup"}
    /\ Fails
    /\ IF required THEN Exit
       ELSE phase' = "registry" /\ available' = FALSE /\ UNCHANGED <<saver, tasks>>
    /\ UNCHANGED <<required, boots>>

(* load_registry, app.state.ready, and the tasks if the database came up. *)
StartServing ==
    /\ phase = "registry"
    /\ phase' = "serving"
    /\ tasks' = available
    /\ UNCHANGED <<required, available, saver, boots, faults>>

(* Sweeper and job are cancelled and awaited. *)
StopTasks ==
    /\ phase = "stopping"
    /\ phase' = "disposing"
    /\ tasks' = FALSE
    /\ UNCHANGED <<required, available, saver, boots, faults>>

(* An error of dispose or teardown is a warning. *)
DisposeEngine ==
    /\ phase = "disposing"
    /\ phase' = "tearing"
    /\ UNCHANGED <<required, available, saver, tasks, boots, faults>>

TearDownSaver ==
    /\ phase = "tearing"
    /\ phase' = "closing"
    /\ saver' = "none"
    /\ UNCHANGED <<required, available, tasks, boots, faults>>

CloseRedis ==
    /\ phase = "closing"
    /\ Exit
    /\ UNCHANGED <<required, boots, faults>>

Crash ==
    /\ phase # "down"
    /\ Fails
    /\ Exit
    /\ UNCHANGED <<required, boots>>

(* Steps of lifespan that leave requests and tasks alone. *)
LifeStep ==
    \/ Boot \/ Migrate \/ MigrateFails \/ EnterSaver \/ SetupSaver \/ SaverFails
    \/ StartServing \/ DisposeEngine \/ TearDownSaver

LifeTypeOK ==
    /\ phase \in Phases /\ required \in BOOLEAN /\ available \in BOOLEAN
    /\ saver \in {"none", "entered", "ready"} /\ tasks \in BOOLEAN
    /\ boots \in Nat /\ faults \in Nat

(* A process that serves has its checkpointer set up and its tasks         *)
(* running, or knows that it is degraded; and with STARTUP_DB_REQUIRED it  *)
(* is never degraded (lifespan).                                           *)
ServesWholeOrDegraded ==
    phase = "serving" => /\ available => saver = "ready" /\ tasks
                         /\ ~available => ~tasks /\ ~required

=============================================================================
