---------------------------- MODULE HubJobsProofs ---------------------------
(***************************************************************************)
(* Machine-checked proofs about the weekly backup as the hub's background  *)
(* thread runs it, for every interval, every number of snapshots kept and  *)
(* every set of AI tasks on the same thread: whatever fails or dies        *)
(* between tar, rotation and date, the saved date vouches for a snapshot   *)
(* and a whole snapshot is never lost.  And sharing the thread costs the   *)
(* tasks nothing: what Automation guarantees alone it guarantees here.     *)
(***************************************************************************)
EXTENDS HubJobs, AutomationProofs

\* There is a whole snapshot among the files.
Whole(files) == \E i \in DOMAIN files : files[i]

\* The backup's own types.
BackupTypes == /\ shots \in Seq(BOOLEAN)
               /\ job \in {"none", "tar", "save"}
\* While tar runs its file is the newest and is not whole yet.
TarWrites == job = "tar" => Len(shots) >= 1 /\ shots[1] = FALSE
\* The date is due to be saved only after a snapshot was completed, and what
\* was completed is still there.
SavesWhole == job = "save" => Whole(shots)
BackupInv == BackupTypes /\ TarWrites /\ SavesWhole /\ DateIsHonest

(***************************************************************************)
(* The snapshot files.                                                     *)
(***************************************************************************)

\* A new file in front leaves the others as they were.
LEMMA OpenedKeepsWhole ==
    ASSUME NEW S \in Seq(BOOLEAN)
    PROVE  /\ <<FALSE>> \o S \in Seq(BOOLEAN)
           /\ Len(<<FALSE>> \o S) >= 1
           /\ (<<FALSE>> \o S)[1] = FALSE
           /\ Whole(S) => Whole(<<FALSE>> \o S)
<1>. DEFINE O == <<FALSE>> \o S
<1>1. O \in Seq(BOOLEAN) /\ Len(O) = Len(S) + 1 /\ O[1] = FALSE
  OBVIOUS
<1>2. ASSUME NEW i \in DOMAIN S, S[i] PROVE \E j \in DOMAIN O : O[j]
  <2>1. i + 1 \in DOMAIN O /\ O[i + 1]
    BY <1>2
  <2>. QED BY <2>1
<1>3. Whole(S) => Whole(O)
  BY <1>2 DEF Whole
<1>. QED
  BY <1>1, <1>3

\* Rotation keeps the newest file, which was just completed.
LEMMA RotationKeepsNewest ==
    ASSUME NEW S \in Seq(BOOLEAN), Len(S) >= 1, S[1] = TRUE
    PROVE  B!Kept(S) \in Seq(BOOLEAN) /\ Whole(B!Kept(S))
<1>1. CASE Len(S) > Keep
  <2>1. /\ SubSeq(S, 1, Keep) \in Seq(BOOLEAN)
        /\ 1 \in DOMAIN SubSeq(S, 1, Keep)
        /\ SubSeq(S, 1, Keep)[1] = S[1]
    BY <1>1, BackupAssumption
  <2>. QED
    BY <1>1, <2>1 DEF B!Kept, Whole
<1>2. CASE ~(Len(S) > Keep)
  BY <1>2 DEF B!Kept, Whole
<1>. QED
  BY <1>1, <1>2

\* Writing to the newest file, not whole before, takes no whole one away.
LEMMA WritingKeepsWhole ==
    ASSUME NEW S \in Seq(BOOLEAN), Len(S) >= 1, S[1] = FALSE, NEW b \in BOOLEAN
    PROVE  /\ [S EXCEPT ![1] = b] \in Seq(BOOLEAN)
           /\ Len([S EXCEPT ![1] = b]) = Len(S)
           /\ [S EXCEPT ![1] = b][1] = b
           /\ Whole(S) => Whole([S EXCEPT ![1] = b])
<1>. DEFINE W == [S EXCEPT ![1] = b]
<1>1. W \in Seq(BOOLEAN) /\ Len(W) = Len(S) /\ W[1] = b
  OBVIOUS
<1>2. ASSUME NEW i \in DOMAIN S, S[i] PROVE i \in DOMAIN W /\ W[i]
  BY <1>2
<1>. QED
  BY <1>1, <1>2 DEF Whole

(***************************************************************************)
(* Steps.                                                                  *)
(***************************************************************************)

\* What a step of the backup does to the snapshots and to the date.
LEMMA BackupStepKeeps ==
    ASSUME BackupInv,
           \/ B!StartTar \/ B!FinishTar \/ B!NotDue \/ B!SaveDate
           \/ B!TarFails \/ B!Killed \/ B!Pass \/ UNCHANGED bkpVars
    PROVE  BackupInv' /\ (Whole(shots) => Whole(shots)')
<1>. USE DEF BackupInv, BackupTypes
<1>1. CASE B!StartTar
  <2>1. job' = "tar" /\ shots' = <<FALSE>> \o shots /\ dueIn' = 0
    BY <1>1 DEF B!StartTar
  <2>. QED
    BY <2>1, OpenedKeepsWhole DEF TarWrites, SavesWhole, DateIsHonest, Whole
<1>2. CASE B!FinishTar
  <2>1. /\ shots' = B!Kept([shots EXCEPT ![1] = TRUE]) /\ job' = "save"
        /\ Len(shots) >= 1 /\ shots[1] = FALSE
    BY <1>2 DEF B!FinishTar, TarWrites
  <2>2. shots' \in Seq(BOOLEAN) /\ Whole(shots')
    BY <2>1, WritingKeepsWhole, RotationKeepsNewest
  <2>. QED
    BY <2>1, <2>2 DEF TarWrites, SavesWhole, DateIsHonest, Whole
<1>3. CASE B!TarFails
  <2>1. PICK b \in BOOLEAN : shots' = [shots EXCEPT ![1] = b]
    BY <1>3 DEF B!TarFails
  <2>2. job' = "none" /\ dueIn' = dueIn /\ Len(shots) >= 1 /\ shots[1] = FALSE
    BY <1>3 DEF B!TarFails, TarWrites
  <2>3. shots' \in Seq(BOOLEAN) /\ (Whole(shots) => Whole(shots'))
    BY <2>1, <2>2, WritingKeepsWhole
  <2>. QED
    BY <2>2, <2>3 DEF TarWrites, SavesWhole, DateIsHonest, Whole
<1>4. CASE B!SaveDate
  BY <1>4 DEF B!SaveDate, TarWrites, SavesWhole, DateIsHonest, Whole
<1>5. CASE B!NotDue \/ B!Killed \/ UNCHANGED bkpVars
  BY <1>5 DEF B!NotDue, B!Killed, bkpVars, TarWrites, SavesWhole, DateIsHonest, Whole
<1>6. CASE B!Pass
  <2>1. shots' = shots /\ job' = job /\ (dueIn' > 0 => dueIn > 0)
    BY <1>6 DEF B!Pass
  <2>. QED
    BY <2>1 DEF TarWrites, SavesWhole, DateIsHonest, Whole
<1>. QED
  BY <1>1, <1>2, <1>3, <1>4, <1>5, <1>6

\* Every step of the thread, of the handlers and of the clock is one of those.
LEMMA JobsStep ==
    BackupInv /\ [JobsNext]_allVars => BackupInv' /\ (Whole(shots) => Whole(shots)')
<1>. SUFFICES ASSUME BackupInv, [JobsNext]_allVars
              PROVE  \/ B!StartTar \/ B!FinishTar \/ B!NotDue \/ B!SaveDate
                     \/ B!TarFails \/ B!Killed \/ B!Pass \/ UNCHANGED bkpVars
  BY BackupStepKeeps
<1>1. CASE LoopStep
  BY <1>1 DEF LoopStep, LoopBegin, LoopTurnedAway, BackupStep
<1>2. CASE CycleStep
  BY <1>2 DEF CycleStep, TaskStep, LoopEnd
<1>3. CASE BackupFails \/ Exception \/ Restart \/ Outside \/ Clock
  BY <1>3 DEF BackupFails, Exception, Restart, Outside, Clock
<1>4. CASE \E t \in Tasks : Roll(t) /\ UNCHANGED <<bkpVars, turn>>
  BY <1>4
<1>5. CASE UNCHANGED allVars
  BY <1>5 DEF allVars
<1>. QED
  BY <1>1, <1>2, <1>3, <1>4, <1>5 DEF JobsNext

\* No snapshot and no date at the start.
LEMMA JobsStart == JobsInit => BackupInv
BY DEF JobsInit, B!Init, BackupInv, BackupTypes, TarWrites, SavesWhole, DateIsHonest, Whole

\* The date in .backup-state.json vouches for a snapshot: while it says that no
\* backup is due there is a whole one, whether tar fails, the hub dies between
\* tar, rotation and date, or the AI tasks on the thread raise.
THEOREM DateVouches == JobsSpec => []DateIsHonest
<1>1. BackupInv /\ [JobsNext]_allVars => BackupInv'
  BY JobsStep
<1>2. BackupInv => DateIsHonest
  BY DEF BackupInv
<1>. QED
  BY <1>1, <1>2, JobsStart, PTL DEF JobsSpec

\* However many half-written files failed backups leave, the rotation of
\* backup.sh never removes the last whole snapshot.
THEOREM SnapshotKept == JobsSpec => SnapshotStays
<1>. DEFINE A == (\E i \in DOMAIN shots : shots[i]) => \E i \in DOMAIN shots' : shots'[i]
<1>1. BackupInv /\ [JobsNext]_allVars => BackupInv' /\ [A]_allVars
  BY JobsStep DEF Whole
<1>. QED
  BY <1>1, JobsStart, PTL DEF JobsSpec, SnapshotStays

(***************************************************************************)
(* The tasks on the shared thread.                                         *)
(***************************************************************************)

\* All the state of the tasks but the count of faults, which backups share.
taskVars == <<env, disk, detect, proc, mem, overtaken, manual, log, manuals, asked>>

\* To the tasks a step of the thread, of the clock or of the hub's death is one
\* of their own or none.
LEMMA JobsAreTasks == [JobsNext]_allVars => [Next]_vars \/ UNCHANGED taskVars
<1>1. CASE LoopStep \/ CycleStep
  BY <1>1 DEF LoopStep, LoopBegin, LoopTurnedAway, BackupStep, CycleStep, TaskStep, LoopEnd,
              Next, Work
<1>2. CASE BackupFails \/ Restart
  BY <1>2 DEF BackupFails, Restart, Next, taskVars
<1>3. CASE Exception \/ Outside \/ Clock
  BY <1>3 DEF Exception, Outside, Clock, Next
<1>4. CASE \E t \in Tasks : Roll(t) /\ UNCHANGED <<bkpVars, turn>>
  BY <1>4 DEF Next
<1>5. CASE UNCHANGED allVars
  BY <1>5 DEF allVars
<1>. QED
  BY <1>1, <1>2, <1>3, <1>4, <1>5 DEF JobsNext

\* The invariants of the tasks do not look at the count of faults.
LEMMA FaultsDoNotMatter ==
    ASSUME IInv, HonestInv, BudgetInv, UNCHANGED taskVars
    PROVE  IInv' /\ HonestInv' /\ BudgetInv'
<1>1. UNCHANGED <<period, content, product, ready, tries, resets, disk, detect, mem, proc,
                  overtaken>>
  BY DEF taskVars, env, log
<1>2. /\ content \in [Tasks -> [Periods -> BOOLEAN]]
      /\ product \in [Tasks -> [Periods -> BOOLEAN]]
  BY DEF IInv, FilesOK, Files, Book
<1>3. IInv' /\ HonestInv'
  BY <1>1, <1>2, ElsewhereIInv, KeptHonest
<1>4. CountersOK'
  BY <1>1 DEF BudgetInv, CountersOK
<1>5. ASSUME NEW t \in Tasks PROVE Budgeted(t)'
  <2>1. Spent(t, disk[t])' = Spent(t, disk[t]) /\ Spent(t, mem[t])' = Spent(t, mem[t])
    BY <1>1 DEF Spent
  <2>2. TaskState(t, period[t])' = TaskState(t, period[t])
    BY <1>1 DEF TaskState
  <2>. QED
    BY <1>1, <1>3, <2>1, <2>2, ElsewhereBudget
<1>. QED
  BY <1>3, <1>4, <1>5 DEF BudgetInv

LEMMA JobsKeepTasks == JobsSpec => [](IInv /\ HonestInv /\ BudgetInv)
<1>1. JobsInit => IInv /\ HonestInv /\ BudgetInv
  BY InitIInv, InitHonest, InitBudget DEF JobsInit
<1>2. IInv /\ HonestInv /\ BudgetInv /\ [JobsNext]_allVars => IInv' /\ HonestInv' /\ BudgetInv'
  BY JobsAreTasks, NextIInv, NextHonest, NextBudget, FaultsDoNotMatter
<1>. QED
  BY <1>1, <1>2, PTL DEF JobsSpec

\* The state file of the tasks is honest also on the thread of
\* automation_daemon, where backups hold up cycles, tar fails, exceptions cut a
\* cycle off and the hub is started again in any phase of either job: a record
\* is wrong only when somebody changed the diary since it was made.
THEOREM TasksHonestOnThread == JobsSpec => []StatusIsHonest
<1>1. HonestInv => StatusIsHonest
  BY DEF HonestInv, True, StatusIsHonest
<1>. QED
  BY <1>1, JobsKeepTasks, PTL

\* Nor do backups, failed ones included, ever buy a task another generation, or
\* charge it with one that did not run.
THEOREM TasksBudgetedOnThread == JobsSpec => [](AttemptsAreReal /\ RetryBudget)
<1>1. IInv => AttemptsAreReal
  BY DEF IInv, FilesOK, Files, AllFair, Fair, Counted, AttemptsAreReal
<1>. QED
  BY <1>1, BudgetBounds, JobsKeepTasks, PTL

=============================================================================
