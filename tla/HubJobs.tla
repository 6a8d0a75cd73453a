------------------------------- MODULE HubJobs ------------------------------
(***************************************************************************)
(* The hub's background thread (server/main.py, automation_daemon): a      *)
(* cycle of automatic tasks, then the backup if it is due, over and over.  *)
(* It composes Automation and Backup, which share the thread: while a      *)
(* model answers there is no backup, while tar runs there are no tasks,    *)
(* and an exception in either must not end the loop.                       *)
(***************************************************************************)
EXTENDS Automation

CONSTANTS Every, Keep
ASSUME BackupAssumption == Every \in Nat \ {0} /\ Keep \in Nat \ {0}

VARIABLES dueIn, shots, job, jobAge,
          turn      \* where the thread is: "tasks", "cycle" or "backup"

B == INSTANCE Backup
bkpVars == <<dueIn, shots, job, jobAge>>

allVars == <<vars, bkpVars, turn>>

JobsInit == Init /\ B!Init /\ turn = "tasks"

(* ------------------------------- the thread ----------------------------- *)

LoopBegin ==
    /\ turn = "tasks"
    /\ BeginCycle
    /\ turn' = "cycle"
    /\ UNCHANGED bkpVars

\* The lock is with a handler's retry: the cycle is over at once.
LoopTurnedAway ==
    /\ turn = "tasks"
    /\ proc.phase # "idle"
    /\ turn' = "backup"
    /\ UNCHANGED <<vars, bkpVars>>

\* A bug: the loop hangs on to the tasks.
TasksOnly == "tasks"
AfterCycle == IF turn = "cycle" THEN "backup" ELSE turn

LoopEnd ==
    /\ EndCycle
    /\ turn' = AfterCycle
    /\ UNCHANGED bkpVars

TaskStep ==
    /\ Skip \/ StartTask \/ Busy \/ Generate \/ Succeed \/ Fail
    /\ UNCHANGED <<bkpVars, turn>>

BackupStep ==
    /\ turn = "backup"
    /\ \/ (B!StartTar \/ B!FinishTar) /\ UNCHANGED turn
       \/ (B!NotDue \/ B!SaveDate) /\ turn' = "tasks"
    /\ UNCHANGED vars

(* ---------------------------- everything else --------------------------- *)

BackupFails ==
    /\ turn = "backup"
    /\ faults < MaxFaults
    /\ faults' = faults + 1
    /\ B!TarFails
    /\ turn' = "tasks"
    /\ UNCHANGED <<env, disk, detect, proc, mem, overtaken, manual, log, manuals, asked>>

\* An exception ends the cycle and is caught by the loop.
Exception ==
    /\ Abort
    /\ turn' = AfterCycle
    /\ UNCHANGED bkpVars

\* The hub dies and is started again, which may purge a day.
Restart ==
    /\ \/ Abort
       \/ \E t \in Tasks, k \in Periods : Purge(t, k)
       \/ /\ proc.phase = "idle"
          /\ faults < MaxFaults
          /\ faults' = faults + 1
          /\ UNCHANGED <<env, disk, detect, proc, mem, overtaken, manual, log, manuals, asked>>
    /\ B!Killed
    /\ turn' = "tasks"

Outside ==
    /\ \/ BeginRetry \/ SetModel \/ ManualStart \/ ManualEnd
       \/ \E t \in Tasks, k \in Periods : Arrive(t, k)
    /\ UNCHANGED <<bkpVars, turn>>

Clock ==
    /\ Tick
    /\ B!Pass
    /\ UNCHANGED turn

(* ----------------------------- specification ---------------------------- *)

LoopStep == LoopBegin \/ LoopTurnedAway \/ BackupStep
CycleStep == TaskStep \/ LoopEnd

JobsNext ==
    \/ LoopStep \/ CycleStep
    \/ BackupFails \/ Exception \/ Restart \/ Outside \/ Clock
    \/ \E t \in Tasks : Roll(t) /\ UNCHANGED <<bkpVars, turn>>

\* The thread runs, models and tar return, reports by hand end, time passes.
JobsFairness ==
    /\ WF_allVars(LoopStep) /\ WF_allVars(CycleStep)
    /\ WF_allVars(ManualEnd /\ UNCHANGED <<bkpVars, turn>>)
    /\ WF_allVars(Clock)

JobsSpec == JobsInit /\ [][JobsNext]_allVars /\ JobsFairness

(* ------------------------------ properties ------------------------------ *)

\* The date vouches for a snapshot: while no backup is due there is a whole
\* one, whatever failed or died between tar, rotation and date.
DateIsHonest == dueIn > 0 => \E i \in DOMAIN shots : shots[i]

\* Half-written files of failed backups never push the last whole snapshot
\* out of the rotation.
SnapshotStays ==
    [][(\E i \in DOMAIN shots : shots[i]) => \E i \in DOMAIN shots' : shots'[i]]_allVars

\* Backups go on: however often one failed, and whatever the AI tasks on the
\* same thread are doing, there is again and again one that succeeds.
BackedUp == []<>(job = "save")
=============================================================================
