--------------------------- MODULE AutomationProofs --------------------------
(***************************************************************************)
(* For any tasks, limits, periods and times, with any number of crashes,   *)
(* model switches, reports by hand and changes of the diary: what the      *)
(* state file says is true unless somebody changed the files since, and    *)
(* nothing is generated more often than the limits allow.                  *)
(***************************************************************************)
EXTENDS Automation, TLAPS

USE TasksAssumption, LimitAssumption, TimesAssumption

Rec == [status : Statuses, attempts : Nat, period : Periods \cup {NoPeriod},
        wait : 0 .. RetryAfter]

\* What the records are about: the calendar, the diary, the products, and
\* the generations that really ran.
Files == [period |-> period, content |-> content, product |-> product, tries |-> tries]
Book  == [period  : [Tasks -> Periods],
          content : [Tasks -> [Periods -> BOOLEAN]],
          product : [Tasks -> [Periods -> BOOLEAN]],
          tries   : [Tasks -> Nat]]

\* What a record may say, whether it is on file or in a cycle's memory.
Dated(r) == r.status # "none" => r.period \in Periods
Counted(F, t, r) ==
    /\ r.attempts <= Limit[t] + 1
    /\ r.status # "blocked" => r.attempts <= Limit[t]
    /\ r.period <= F.period[t]
    /\ r.period = F.period[t] =>
         /\ r.attempts <= F.tries[t]
         /\ r.status = "blocked" => F.tries[t] > Limit[t]
Fair(F, t, r) == r \in Rec /\ Dated(r) /\ Counted(F, t, r)

AllFair(F, records) == records \in [Tasks -> Rec] /\ \A t \in Tasks : Fair(F, t, records[t])

FilesOK ==
    /\ Files \in Book
    /\ detect \in 0 .. DetectEvery
    /\ AllFair(Files, disk)
    /\ AllFair(Files, mem)

Phases == {"idle", "work", "started", "generating"}

\* A cycle's targets are never ahead of the calendar; a task at work has its
\* record marked, and its generation is already counted.
CycleOK ==
    /\ proc \in [phase : Phases, todo : Seq(Tasks), target : [Tasks -> Periods],
                 ripe : SUBSET Tasks, age : 0 .. RetryAfter]
    /\ \A t \in Tasks : proc.target[t] <= period[t]
    /\ proc.phase \in {"started", "generating"} =>
         /\ proc.todo # <<>>
         /\ mem[Task].status = "running"
         /\ mem[Task].period = Target
    /\ proc.phase = "generating" /\ Target = period[Task] =>
         mem[Task].attempts < tries[Task]

IInv == FilesOK /\ CycleOK

-----------------------------------------------------------------------------
(* ------------------------------- records -------------------------------- *)

LEMMA PeriodsAreInts == Periods \subseteq Int /\ NoPeriod \in Int \ Periods /\ 0 \in Periods
  BY DEF Periods, NoPeriod

LEMMA NoRecordFair ==
    ASSUME NEW F \in Book, NEW t \in Tasks
    PROVE  Fair(F, t, NoRecord)
  BY PeriodsAreInts DEF Fair, Dated, Counted, Rec, NoRecord, Statuses, NoPeriod, Periods, Book

\* A fresh record is fair.
LEMMA MarkedFair ==
    ASSUME NEW F \in Book, NEW t \in Tasks, NEW k \in Periods, k <= F.period[t],
           NEW s \in Statuses \ {"none", "blocked"}
    PROVE  Fair(F, t, Marked(s, k))
  BY PeriodsAreInts DEF Fair, Dated, Counted, Rec, Marked, Book

LEMMA ScannedFair ==
    ASSUME Files \in Book, NEW t \in Tasks, NEW k \in Periods, k <= period[t],
           NEW r \in Rec, Fair(Files, t, r)
    PROVE  Fair(Files, t, Scanned(t, r, k))
<1>1. Fair(Files, t, Marked("pending", k))
  BY MarkedFair DEF Statuses, Files
<1>2. Fair(Files, t, Marked("ok", k))
  BY MarkedFair DEF Statuses, Files
<1>3. Fair(Files, t, Marked("empty", k))
  BY MarkedFair DEF Statuses, Files
<1>4. Fair(Files, t, NoRecord)
  BY NoRecordFair
<1>5. QED
  BY <1>1, <1>2, <1>3, <1>4 DEF Scanned

LEMMA RefreshedFair ==
    ASSUME Files \in Book, NEW t \in Tasks, NEW k \in Periods, k <= period[t],
           NEW r \in Rec, Fair(Files, t, r)
    PROVE  /\ Fair(Files, t, Refreshed(t, r, k))
           /\ Refreshed(t, r, k).period \in {NoPeriod, k}
<1>1. Fair(Files, t, Marked("pending", k))
  BY MarkedFair DEF Statuses, Files
<1>2. QED
  BY <1>1 DEF Refreshed, SamePeriod, Marked

LEMMA FromStartOK ==
    ASSUME CycleOK, NEW n \in 0 .. RetryAfter
    PROVE  FromStart(n) \in 0 .. RetryAfter
  BY DEF CycleOK, FromStart

\* More generations leave every record fair, whatever the files.
LEMMA FairStays ==
    ASSUME NEW F \in Book, NEW G \in Book, NEW records, AllFair(F, records),
           F.period = G.period,
           \A t \in Tasks : F.tries[t] <= G.tries[t]
    PROVE  AllFair(G, records)
<1> SUFFICES ASSUME NEW t \in Tasks PROVE Fair(G, t, records[t])
  BY DEF AllFair
<1> DEFINE r == records[t]
<1>1. Fair(F, t, r) /\ r \in Rec
  BY DEF AllFair
<1> HIDE DEF r
<1>2. Dated(r)
  BY <1>1 DEF Fair
<1>3. Counted(G, t, r)
  BY <1>1, PeriodsAreInts DEF Fair, Counted, Book, Rec
<1>4. QED
  BY <1>1, <1>2, <1>3 DEF Fair, r

-----------------------------------------------------------------------------
(* -------------------------------- a cycle ------------------------------- *)

LEMMA InitIInv == Init => IInv
<1> SUFFICES ASSUME Init PROVE IInv
  OBVIOUS
<1>1. Files \in Book
  BY PeriodsAreInts DEF Init, Files, Book
<1>2. NoRecord \in Rec
  BY DEF NoRecord, Rec, Statuses
<1>3. AllFair(Files, [t \in Tasks |-> NoRecord])
  BY <1>1, <1>2, NoRecordFair DEF AllFair
<1>4. FilesOK
  BY <1>1, <1>3 DEF Init, FilesOK
<1>5. CycleOK
  BY PeriodsAreInts DEF Init, CycleOK, Idle, Phases
<1>6. QED
  BY <1>4, <1>5 DEF IInv

\* A cycle begins, by itself or for /retry.
LEMMA BegunOK ==
    ASSUME IInv, proc' = Begun, UNCHANGED period
    PROVE  CycleOK'
<1>1. Begun \in [phase : Phases, todo : Seq(Tasks), target : [Tasks -> Periods],
                  ripe : SUBSET Tasks, age : 0 .. RetryAfter]
  BY DEF IInv, FilesOK, Files, Book, Begun, Ripe, Phases
<1>2. \A t \in Tasks : period[t] <= period[t]
  BY DEF IInv, FilesOK, Files, Book, Periods
<1>3. QED
  BY <1>1, <1>2 DEF CycleOK, Begun

LEMMA BeginCycleIInv == ASSUME IInv, BeginCycle PROVE IInv'
<1>1. Files \in Book /\ Files' = Files
  BY DEF BeginCycle, env, log, IInv, FilesOK, Files
<1>2. \A t \in Tasks : period[t] \in Periods /\ period[t] <= period[t]
  BY <1>1 DEF Files, Book, Periods
<1>3. AllFair(Files, [t \in Tasks |-> Scanned(t, disk[t], period[t])])
  <2>1. \A t \in Tasks : disk[t] \in Rec /\ Fair(Files, t, disk[t])
    BY DEF IInv, FilesOK, AllFair
  <2>2. \A t \in Tasks : Fair(Files, t, Scanned(t, disk[t], period[t]))
    BY <1>1, <1>2, <2>1, ScannedFair
  <2>3. QED
    BY <2>2 DEF AllFair, Fair
<1>4. AllFair(Files, mem') /\ AllFair(Files, disk') /\ detect' \in 0 .. DetectEvery
  <2>1. CASE detect = 0
    BY <2>1, <1>3 DEF BeginCycle
  <2>2. CASE detect # 0
    BY <2>2 DEF BeginCycle, IInv, FilesOK
  <2>3. QED
    BY <2>1, <2>2
<1>5. FilesOK'
  BY <1>1, <1>4 DEF FilesOK
<1>6. CycleOK'
  BY BegunOK DEF BeginCycle, env
<1>7. QED
  BY <1>5, <1>6 DEF IInv

LEMMA PutFair ==
    ASSUME NEW F, NEW records, AllFair(F, records),
           NEW t \in Tasks, NEW q, Fair(F, t, q)
    PROVE  AllFair(F, [records EXCEPT ![t] = q])
  BY DEF AllFair, Fair

LEMMA BeginRetryIInv == ASSUME IInv, BeginRetry PROVE IInv'
<1>1. Files \in Book /\ Files' = Files
  BY DEF BeginRetry, env, log, IInv, FilesOK, Files
<1>2. \A t \in Tasks : period[t] \in Periods /\ period[t] <= period[t]
  BY <1>1 DEF Files, Book, Periods
<1>3. \A t \in Tasks : Fair(Files, t, Marked("pending", period[t]))
  BY <1>1, <1>2, MarkedFair DEF Statuses, Files
<1>4. AllFair(Files, mem')
  BY <1>3 DEF BeginRetry, IInv, FilesOK, AllFair, Fair
<1>5. FilesOK'
  BY <1>1, <1>4 DEF FilesOK, BeginRetry, IInv
<1>6. CycleOK'
  BY BegunOK DEF BeginRetry, env
<1>7. QED
  BY <1>5, <1>6 DEF IInv

-----------------------------------------------------------------------------
(* -------------------------- the task in hand ---------------------------- *)

LEMMA AtWork ==
    ASSUME IInv, proc.todo # <<>>
    PROVE  /\ Task \in Tasks
           /\ Target \in Periods /\ Target <= period[Task]
           /\ mem[Task] \in Rec /\ Fair(Files, Task, mem[Task])
           /\ Files \in Book
<1>1. Task \in Tasks
  BY DEF IInv, CycleOK, Task
<1>2. QED
  BY <1>1 DEF IInv, FilesOK, AllFair, CycleOK, Target

LEMMA NextTaskOK ==
    ASSUME IInv, proc.todo # <<>>, proc' = Next1, UNCHANGED period
    PROVE  CycleOK'
<1>1. Next1 \in [phase : Phases, todo : Seq(Tasks), target : [Tasks -> Periods],
                  ripe : SUBSET Tasks, age : 0 .. RetryAfter]
  <2>1. Tail(proc.todo) \in Seq(Tasks)
    BY DEF IInv, CycleOK
  <2>2. QED
    BY <2>1 DEF IInv, CycleOK, Next1, Phases
<1>2. Next1.target = proc.target /\ Next1.phase = "work"
  BY DEF IInv, CycleOK, Next1
<1>3. QED
  BY <1>1, <1>2 DEF IInv, CycleOK

LEMMA SkipIInv == ASSUME IInv, Skip PROVE IInv'
<1>1. proc.todo # <<>> /\ Files' = Files /\ proc' = Next1 /\ UNCHANGED <<period, disk, detect>>
  BY DEF Skip, env, log, Files
<1> DEFINE r == Refreshed(Task, mem[Task], Target)
           s == TaskState(Task, Target)
<1>2. Fair(Files, Task, r)
  BY <1>1, AtWork, RefreshedFair
<1>3. Fair(Files, Task, Marked("ok", Target))
  BY <1>1, AtWork, MarkedFair DEF Statuses, Files
<1>4. Fair(Files, Task, Marked("empty", Target))
  BY <1>1, AtWork, MarkedFair DEF Statuses, Files
<1>5. Fair(Files, Task, Marked("unconfigured", Target))
  BY <1>1, AtWork, MarkedFair DEF Statuses, Files
<1>6. PICK q : Fair(Files, Task, q) /\ mem' = [mem EXCEPT ![Task] = q]
  BY <1>2, <1>3, <1>4, <1>5 DEF Skip
<1>7. AllFair(Files, mem')
  BY <1>1, <1>6, AtWork, PutFair DEF IInv, FilesOK
<1>8. FilesOK'
  BY <1>1, <1>7 DEF IInv, FilesOK
<1>9. CycleOK'
  BY <1>1, NextTaskOK
<1>10. QED
  BY <1>8, <1>9 DEF IInv

LEMMA StartTaskIInv == ASSUME IInv, StartTask PROVE IInv'
<1> DEFINE r == Refreshed(Task, mem[Task], Target)
           q == [r EXCEPT !.status = "running", !.wait = FromStart(StaleAfter)]
<1>1. proc.todo # <<>> /\ Files' = Files /\ UNCHANGED <<period, detect>>
  BY DEF StartTask, env, log, Files
<1>2. /\ Fair(Files, Task, r) /\ r \in Rec
      /\ r.period \in {NoPeriod, Target}
  BY <1>1, AtWork, RefreshedFair DEF Fair
<1>3. r.status \in {"unconfigured", "pending", "failed"}
  BY DEF StartTask, Due, RetryDue
<1>4. r.period = Target
  BY <1>2, <1>3, PeriodsAreInts DEF Fair, Dated
<1>5. FromStart(StaleAfter) \in 0 .. RetryAfter
  BY FromStartOK DEF IInv
<1> HIDE DEF r
<1>6. q \in Rec /\ q.status = "running" /\ q.period = Target /\ q.attempts = r.attempts
  BY <1>2, <1>4, <1>5 DEF Rec, Statuses
<1>7. Fair(Files, Task, q)
  BY <1>2, <1>3, <1>4, <1>6 DEF Fair, Dated, Counted
<1>8. mem' = [mem EXCEPT ![Task] = q] /\ disk' = mem'
  BY DEF StartTask, r
<1> HIDE DEF q
<1>9. AllFair(Files, mem')
  BY <1>1, <1>7, <1>8, AtWork, PutFair DEF IInv, FilesOK
<1>10. FilesOK'
  BY <1>1, <1>8, <1>9 DEF IInv, FilesOK
<1>11. proc' = [proc EXCEPT !.phase = "started"]
  BY DEF StartTask
<1>12. mem'[Task] = q
  BY <1>1, <1>8, AtWork DEF IInv, FilesOK, AllFair
<1>13. CycleOK'
  BY <1>1, <1>6, <1>11, <1>12 DEF IInv, CycleOK, Task, Target, Phases
<1>14. QED
  BY <1>10, <1>13 DEF IInv

LEMMA BusyIInv == ASSUME IInv, Busy PROVE IInv'
<1>1. /\ proc.todo # <<>> /\ Files' = Files /\ proc' = Next1
      /\ UNCHANGED <<period, disk, detect>>
      /\ mem[Task].period = Target
  BY DEF Busy, env, Files, IInv, CycleOK
<1>2. Fair(Files, Task, Marked("pending", Target))
  BY <1>1, AtWork, MarkedFair DEF Statuses, Files
<1>3. mem' = [mem EXCEPT ![Task] = Marked("pending", Target)]
  BY <1>1, AtWork DEF Busy, IInv, FilesOK, AllFair
<1>4. AllFair(Files, mem')
  BY <1>1, <1>2, <1>3, AtWork, PutFair DEF IInv, FilesOK
<1>5. FilesOK'
  BY <1>1, <1>4 DEF IInv, FilesOK
<1>6. QED
  BY <1>1, <1>5, NextTaskOK DEF IInv

LEMMA GenerateIInv == ASSUME IInv, Generate PROVE IInv'
<1>1. proc.todo # <<>> /\ mem[Task].status = "running" /\ mem[Task].period = Target
  BY DEF Generate, IInv, CycleOK
<1>2. UNCHANGED <<period, content, product, disk, detect, mem>>
  BY DEF Generate, env
<1>3. tries' \in [Tasks -> Nat] /\ \A t \in Tasks : tries[t] <= tries'[t]
  <2>1. tries \in [Tasks -> Nat]
    BY DEF IInv, FilesOK, Files, Book
  <2>2. tries' = tries \/ tries' = [tries EXCEPT ![Task] = @ + 1]
    BY DEF Generate, Count
  <2>3. CASE tries' = tries
    BY <2>1, <2>3
  <2>4. CASE tries' = [tries EXCEPT ![Task] = @ + 1]
    <3>1. Task \in Tasks
      BY <1>1, AtWork
    <3>2. tries[Task] + 1 \in Nat /\ tries[Task] <= tries[Task] + 1
      BY <2>1, <3>1
    <3>3. QED
      BY <2>1, <2>4, <3>1, <3>2
  <2>5. QED
    BY <2>2, <2>3, <2>4
<1>4. Files \in Book /\ Files' \in Book
  BY <1>2, <1>3 DEF IInv, FilesOK, Files, Book
<1>5. AllFair(Files, mem) /\ AllFair(Files, disk)
  BY DEF IInv, FilesOK
<1>6. AllFair(Files', mem) /\ AllFair(Files', disk)
  BY <1>2, <1>3, <1>4, <1>5, FairStays DEF Files
<1>7. FilesOK'
  BY <1>2, <1>4, <1>6 DEF FilesOK, IInv
<1>8. Target = period[Task] => mem[Task].attempts < tries'[Task]
  <2> SUFFICES ASSUME Target = period[Task] PROVE mem[Task].attempts < tries'[Task]
    OBVIOUS
  <2>1. mem[Task].attempts <= tries[Task] /\ mem[Task].attempts \in Nat
    BY <1>1, AtWork DEF Fair, Counted, Files, Rec
  <2>2. tries'[Task] = tries[Task] + 1 /\ tries[Task] \in Nat
    BY <1>1, AtWork DEF Generate, Count, Files, Book
  <2>3. QED
    BY <2>1, <2>2
<1>9. proc' = [proc EXCEPT !.phase = "generating"]
  BY DEF Generate
<1>10. CycleOK'
  BY <1>1, <1>2, <1>8, <1>9 DEF IInv, CycleOK, Task, Target, Phases
<1>11. QED
  BY <1>7, <1>10 DEF IInv

LEMMA SucceedIInv == ASSUME IInv, Succeed PROVE IInv'
<1>1. /\ proc.todo # <<>> /\ proc' = Next1
      /\ UNCHANGED <<period, content, tries, disk, detect>>
  BY DEF Succeed, log, IInv, CycleOK
<1>2. product' = [product EXCEPT ![Task][Target] = TRUE]
  BY DEF Succeed
<1>3. product' \in [Tasks -> [Periods -> BOOLEAN]]
  BY <1>1, <1>2, AtWork DEF Files, Book
<1>4. Files \in Book /\ Files' \in Book
  BY <1>1, <1>3 DEF IInv, FilesOK, Files, Book
<1>5. \A t \in Tasks : tries[t] <= tries[t]
  BY <1>4 DEF Files, Book
<1>6. AllFair(Files', mem) /\ AllFair(Files', disk)
  BY <1>1, <1>3, <1>4, <1>5, FairStays DEF IInv, FilesOK, Files
<1>7. Fair(Files', Task, Marked("ok", Target))
  BY <1>1, <1>3, <1>4, AtWork, MarkedFair DEF Statuses, Files
<1>8. AllFair(Files', mem')
  BY <1>1, <1>6, <1>7, AtWork, PutFair DEF Succeed
<1>9. FilesOK'
  BY <1>1, <1>4, <1>6, <1>8 DEF IInv, FilesOK
<1>10. QED
  BY <1>1, <1>9, NextTaskOK DEF IInv

LEMMA FailIInv == ASSUME IInv, Fail PROVE IInv'
<1> DEFINE r == mem[Task]
           q == MarkedFailed(Task, r, Target)
<1>1. /\ proc.todo # <<>> /\ Files' = Files /\ proc' = Next1
      /\ UNCHANGED <<period, disk, detect>>
      /\ r.status = "running"
      /\ Target = period[Task] => r.attempts < tries[Task]
  BY DEF Fail, env, log, Files, IInv, CycleOK
<1>2. Fair(Files, Task, r) /\ r \in Rec /\ Task \in Tasks
  BY <1>1, AtWork
<1>3. r.attempts <= Limit[Task] /\ r.attempts \in Nat /\ Limit[Task] \in Nat
  BY <1>1, <1>2 DEF Fair, Counted, Rec
<1>4. FromStart(RetryAfter) \in 0 .. RetryAfter
  BY FromStartOK DEF IInv
<1> HIDE DEF r
<1>5. /\ q \in Rec /\ q.period = Target /\ q.attempts = r.attempts + 1
      /\ q.status \in {"failed", "blocked"}
      /\ q.status = "blocked" <=> r.attempts + 1 > Limit[Task]
  BY <1>1, <1>3, <1>4, AtWork DEF MarkedFailed, Rec, Statuses
<1> HIDE DEF q
<1>6. Dated(q)
  BY <1>1, <1>5, AtWork DEF Dated
<1>7. tries[Task] \in Nat /\ period[Task] \in Periods
  BY <1>1, AtWork DEF Files, Book
<1>8. Counted(Files, Task, q)
  BY <1>1, <1>3, <1>5, <1>7, AtWork, PeriodsAreInts DEF Counted, Files
<1>9. AllFair(Files, mem')
  BY <1>1, <1>2, <1>5, <1>6, <1>8, PutFair DEF Fail, Fair, q, r, IInv, FilesOK
<1>10. FilesOK'
  BY <1>1, <1>9 DEF IInv, FilesOK
<1>11. QED
  BY <1>1, <1>10, NextTaskOK DEF IInv

-----------------------------------------------------------------------------
(* ---------------------- the end, and everything else -------------------- *)

\* A cycle that is over keeps nothing in memory.
LEMMA OverOK ==
    ASSUME IInv, proc' = Idle, UNCHANGED period, Files' = Files,
           mem' = [t \in Tasks |-> NoRecord]
    PROVE  CycleOK' /\ AllFair(Files', mem')
<1>1. CycleOK'
  <2>1. Idle.phase = "idle" /\ Idle.target = [t \in Tasks |-> 0]
    BY DEF Idle
  <2>2. Idle \in [phase : Phases, todo : Seq(Tasks), target : [Tasks -> Periods],
                  ripe : SUBSET Tasks, age : 0 .. RetryAfter]
    BY PeriodsAreInts DEF Idle, Phases
  <2>3. \A t \in Tasks : 0 <= period[t]
    BY DEF IInv, FilesOK, Files, Book, Periods
  <2>4. QED
    BY <2>1, <2>2, <2>3 DEF CycleOK
<1>2. \A t \in Tasks : Fair(Files, t, NoRecord)
  BY NoRecordFair DEF IInv, FilesOK
<1>3. QED
  BY <1>1, <1>2 DEF AllFair, Fair

LEMMA EndCycleIInv == ASSUME IInv, EndCycle PROVE IInv'
<1>1. Files' = Files /\ disk' = mem /\ UNCHANGED <<period, detect>>
  BY DEF EndCycle, env, log, Files
<1>2. CycleOK' /\ AllFair(Files', mem')
  BY <1>1, OverOK DEF EndCycle
<1>3. QED
  BY <1>1, <1>2 DEF IInv, FilesOK

LEMMA AbortIInv == ASSUME IInv, Abort PROVE IInv'
<1>1. Files' = Files /\ UNCHANGED <<period, detect, disk>>
  BY DEF Abort, env, Files
<1>2. CycleOK' /\ AllFair(Files', mem')
  BY <1>1, OverOK DEF Abort
<1>3. QED
  BY <1>1, <1>2 DEF IInv, FilesOK

\* What touches neither the records nor the cycle, but perhaps the files.
LEMMA ElsewhereIInv ==
    ASSUME IInv,
           UNCHANGED <<period, tries, disk, detect, proc, mem>>,
           content' \in [Tasks -> [Periods -> BOOLEAN]],
           product' \in [Tasks -> [Periods -> BOOLEAN]]
    PROVE  IInv'
<1>1. Files \in Book /\ Files' \in Book
  BY DEF IInv, FilesOK, Files, Book
<1>2. \A t \in Tasks : tries[t] <= tries[t]
  BY <1>1 DEF Files, Book
<1>3. AllFair(Files', mem) /\ AllFair(Files', disk)
  BY <1>1, <1>2, FairStays DEF IInv, FilesOK, Files
<1>4. FilesOK'
  BY <1>1, <1>3 DEF IInv, FilesOK
<1>5. CycleOK'
  BY DEF IInv, CycleOK, Task, Target
<1>6. QED
  BY <1>4, <1>5 DEF IInv

\* A cell of a table of booleans is set.
LEMMA CellSet ==
    ASSUME NEW f \in [Tasks -> [Periods -> BOOLEAN]], NEW t \in Tasks,
           NEW k, NEW b \in BOOLEAN
    PROVE  /\ [f EXCEPT ![t][k] = b] \in [Tasks -> [Periods -> BOOLEAN]]
           /\ \A u \in Tasks \ {t} : [f EXCEPT ![t][k] = b][u] = f[u]
           /\ k \in Periods => [f EXCEPT ![t][k] = b][t][k] = b
           /\ \A j \in Periods \ {k} : [f EXCEPT ![t][k] = b][t][j] = f[t][j]
<1>1. [f EXCEPT ![t][k] = b] = [f EXCEPT ![t] = [f[t] EXCEPT ![k] = b]]
  OBVIOUS
<1>2. [f[t] EXCEPT ![k] = b] \in [Periods -> BOOLEAN]
  OBVIOUS
<1>3. QED
  BY <1>1, <1>2

LEMMA ManualEndIInv == ASSUME IInv, ManualEnd PROVE IInv'
<1>1. /\ content \in [Tasks -> [Periods -> BOOLEAN]]
      /\ product \in [Tasks -> [Periods -> BOOLEAN]]
  BY DEF IInv, FilesOK, Files, Book
<1>2. UNCHANGED <<period, content, tries, disk, detect, proc, mem>>
  BY DEF ManualEnd, log
<1>3. product' \in [Tasks -> [Periods -> BOOLEAN]]
  <2>1. product' = product \/ \E t \in Reports : product' = [product EXCEPT ![t][manual] = TRUE]
    BY DEF ManualEnd
  <2>2. ASSUME NEW t \in Reports, product' = [product EXCEPT ![t][manual] = TRUE]
        PROVE  product' \in [Tasks -> [Periods -> BOOLEAN]]
    <3>1. t \in Tasks /\ TRUE \in BOOLEAN
      BY <2>2, TasksAssumption
    <3>2. [product EXCEPT ![t][manual] = TRUE] \in [Tasks -> [Periods -> BOOLEAN]]
      BY <1>1, <3>1, CellSet
    <3>3. QED
      BY <2>2, <3>2
  <2>3. QED
    BY <1>1, <2>1, <2>2
<1>4. QED
  BY <1>1, <1>2, <1>3, ElsewhereIInv

\* A report by hand takes no product away.
LEMMA ManualEndGrows ==
    ASSUME IInv, ManualEnd
    PROVE  \A u \in Tasks, k \in Periods : product[u][k] => product'[u][k]
<1>1. product \in [Tasks -> [Periods -> BOOLEAN]]
  BY DEF IInv, FilesOK, Files, Book
<1>2. product' = product \/ \E t \in Reports : product' = [product EXCEPT ![t][manual] = TRUE]
  BY DEF ManualEnd
<1>3. ASSUME NEW t \in Reports, product' = [product EXCEPT ![t][manual] = TRUE]
      PROVE  \A u \in Tasks, k \in Periods : product[u][k] => product'[u][k]
  <2> SUFFICES ASSUME NEW u \in Tasks, NEW k \in Periods, product[u][k]
               PROVE  product'[u][k]
    OBVIOUS
  <2>1. CASE u = t
    BY <1>1, <1>3, <2>1, CellSet
  <2>2. CASE u # t
    BY <1>1, <1>3, <2>2, CellSet
  <2>3. QED
    BY <2>1, <2>2
<1>4. QED
  BY <1>2, <1>3

\* An import, a late request or the purge changes the files of one task.
LEMMA ChangedFiles ==
    ASSUME IInv, NEW t \in Tasks, NEW k \in Periods, Arrive(t, k) \/ Purge(t, k)
    PROVE  /\ content' \in [Tasks -> [Periods -> BOOLEAN]]
           /\ product' \in [Tasks -> [Periods -> BOOLEAN]]
           /\ \A u \in Tasks \ {t} : content'[u] = content[u] /\ product'[u] = product[u]
           /\ \A j \in Periods \ {k} : /\ content'[t][j] = content[t][j]
                                       /\ product'[t][j] = product[t][j]
           /\ Overtake(t, k)
<1>1. /\ content \in [Tasks -> [Periods -> BOOLEAN]]
      /\ product \in [Tasks -> [Periods -> BOOLEAN]]
  BY DEF IInv, FilesOK, Files, Book
<1>2. /\ \E b \in BOOLEAN : content' = [content EXCEPT ![t][k] = b]
      /\ product' = product \/ \E b \in BOOLEAN : product' = [product EXCEPT ![t][k] = b]
      /\ Overtake(t, k)
  BY DEF Arrive, Purge
<1>3. PICK b \in BOOLEAN : content' = [content EXCEPT ![t][k] = b]
  BY <1>2
<1>4. /\ content' \in [Tasks -> [Periods -> BOOLEAN]]
      /\ \A u \in Tasks \ {t} : content'[u] = content[u]
      /\ \A j \in Periods \ {k} : content'[t][j] = content[t][j]
  BY <1>1, <1>3, CellSet
<1>5. ASSUME NEW c \in BOOLEAN, product' = [product EXCEPT ![t][k] = c]
      PROVE  /\ product' \in [Tasks -> [Periods -> BOOLEAN]]
             /\ \A u \in Tasks \ {t} : product'[u] = product[u]
             /\ \A j \in Periods \ {k} : product'[t][j] = product[t][j]
  BY <1>1, <1>5, CellSet
<1>6. QED
  BY <1>1, <1>2, <1>4, <1>5

LEMMA ChangeIInv ==
    ASSUME IInv, NEW t \in Tasks, NEW k \in Periods, Arrive(t, k) \/ Purge(t, k)
    PROVE  IInv'
<1>1. UNCHANGED <<period, tries, disk, detect, proc, mem>>
  BY ChangedFiles DEF Overtake
<1>2. QED
  BY <1>1, ChangedFiles, ElsewhereIInv

LEMMA TickIInv == ASSUME IInv, Tick PROVE IInv'
<1>1. Files' = Files /\ Files \in Book /\ UNCHANGED period
  BY DEF Tick, env, log, Files, IInv, FilesOK
<1>2. ASSUME NEW records, AllFair(Files, records)
      PROVE  AllFair(Files, Later(records))
  <2> SUFFICES ASSUME NEW t \in Tasks
               PROVE  Fair(Files, t, [records[t] EXCEPT !.wait = Left(@)])
    BY DEF AllFair, Later, Fair
  <2>1. Fair(Files, t, records[t]) /\ records[t] \in Rec
    BY <1>2 DEF AllFair
  <2>2. Left(records[t].wait) \in 0 .. RetryAfter
    BY <2>1 DEF Rec, Left
  <2>3. QED
    BY <2>1, <2>2 DEF Rec, Fair, Dated, Counted
<1>3. AllFair(Files, disk') /\ AllFair(Files, mem')
  BY <1>2 DEF Tick, IInv, FilesOK
<1>4. detect' \in 0 .. DetectEvery
  BY DEF Tick, Left, IInv, FilesOK
<1>5. FilesOK'
  BY <1>1, <1>3, <1>4 DEF FilesOK
<1>6. /\ proc' \in [phase : Phases, todo : Seq(Tasks), target : [Tasks -> Periods],
                    ripe : SUBSET Tasks, age : 0 .. RetryAfter]
      /\ proc'.phase = proc.phase /\ proc'.todo = proc.todo
      /\ proc'.target = proc.target
  <2>1. proc.age # RetryAfter => proc.age + 1 \in 0 .. RetryAfter
    BY DEF IInv, CycleOK
  <2>2. QED
    BY <2>1 DEF Tick, IInv, CycleOK
<1>7. proc.todo # <<>> =>
        /\ mem'[Task].status = mem[Task].status
        /\ mem'[Task].period = mem[Task].period
        /\ mem'[Task].attempts = mem[Task].attempts
  BY AtWork DEF Tick, Later, Rec
<1>8. UNCHANGED <<period, tries>>
  BY DEF Tick, env, log
<1>9. CycleOK'
  BY <1>6, <1>7, <1>8 DEF IInv, CycleOK, Task, Target
<1>10. QED
  BY <1>5, <1>9 DEF IInv

\* A new period: no record and no running cycle is about it yet.
LEMMA RollIInv == ASSUME IInv, NEW t \in Tasks, Roll(t) PROVE IInv'
<1>1. UNCHANGED <<content, product, disk, detect, mem, proc>>
  BY DEF Roll
<1>2. /\ period' \in [Tasks -> Periods] /\ tries' \in [Tasks -> Nat]
      /\ period[t] \in Periods /\ period'[t] = period[t] + 1
      /\ \A u \in Tasks \ {t} : period'[u] = period[u] /\ tries'[u] = tries[u]
  BY DEF Roll, IInv, FilesOK, Files, Book, Periods
<1>3. Files' \in Book
  BY <1>1, <1>2 DEF IInv, FilesOK, Files, Book
<1>4. ASSUME NEW records, AllFair(Files, records)
      PROVE  AllFair(Files', records)
  <2> SUFFICES ASSUME NEW u \in Tasks PROVE Fair(Files', u, records[u])
    BY <1>4 DEF AllFair
  <2>1. Fair(Files, u, records[u]) /\ records[u] \in Rec
    BY <1>4 DEF AllFair
  <2>2. Dated(records[u])
    BY <2>1 DEF Fair
  <2>3. CASE u = t
    <3>1. records[u].period <= period[t] /\ records[u].period \in Int
      BY <2>1, <2>3, PeriodsAreInts DEF Fair, Counted, Files, Rec
    <3>2. period[t] \in Int /\ Files'.period[u] = period[t] + 1
      BY <1>2, <2>3, PeriodsAreInts DEF Files
    <3>3. records[u].period <= Files'.period[u] /\ records[u].period # Files'.period[u]
      BY <3>1, <3>2
    <3>4. QED
      BY <2>1, <2>2, <3>3 DEF Fair, Counted
  <2>4. CASE u # t
    BY <1>2, <2>1, <2>2, <2>4 DEF Fair, Counted, Files
  <2>5. QED
    BY <2>3, <2>4
<1>5. FilesOK'
  BY <1>1, <1>3, <1>4 DEF IInv, FilesOK
<1>6. \A u \in Tasks : proc.target[u] <= period'[u]
  <2> SUFFICES ASSUME NEW u \in Tasks PROVE proc.target[u] <= period'[u]
    OBVIOUS
  <2>1. proc.target[u] \in Int /\ period[u] \in Int /\ proc.target[u] <= period[u]
    BY PeriodsAreInts DEF IInv, CycleOK, FilesOK, Files, Book
  <2>2. period'[u] = period[u] \/ period'[u] = period[u] + 1
    BY <1>2
  <2>3. QED
    BY <2>1, <2>2
<1>7. proc.todo # <<>> => Task \in Tasks
  BY DEF IInv, CycleOK, Task
<1>8. ASSUME proc.todo # <<>>, Target = period'[Task]
      PROVE  Task # t /\ Target = period[Task] /\ tries'[Task] = tries[Task]
  <2>1. Target <= period[Task] /\ Target \in Int /\ Task \in Tasks
    BY <1>8, AtWork, PeriodsAreInts
  <2>2. period[t] \in Int
    BY <1>2, PeriodsAreInts
  <2>3. Task # t
    BY <1>2, <1>8, <2>1, <2>2
  <2>4. QED
    BY <1>2, <1>8, <2>1, <2>3
<1>9. CycleOK'
  BY <1>1, <1>6, <1>8 DEF IInv, CycleOK, Task, Target
<1>10. QED
  BY <1>5, <1>9 DEF IInv

-----------------------------------------------------------------------------
LEMMA NextIInv == IInv /\ [Next]_vars => IInv'
<1> SUFFICES ASSUME IInv, [Next]_vars PROVE IInv'
  OBVIOUS
<1>1. /\ product \in [Tasks -> [Periods -> BOOLEAN]]
      /\ content \in [Tasks -> [Periods -> BOOLEAN]]
  BY DEF IInv, FilesOK, Files, Book
<1>2. CASE BeginCycle \/ BeginRetry
  BY <1>2, BeginCycleIInv, BeginRetryIInv
<1>3. CASE Work
  BY <1>3, SkipIInv, StartTaskIInv, BusyIInv, GenerateIInv, SucceedIInv, FailIInv,
     EndCycleIInv DEF Work
<1>4. CASE Abort
  BY <1>4, AbortIInv
<1>5. CASE SetModel
  BY <1>1, <1>5, ElsewhereIInv DEF SetModel
<1>6. CASE ManualStart
  BY <1>1, <1>6, ElsewhereIInv DEF ManualStart, env, log
<1>7. CASE ManualEnd
  BY <1>7, ManualEndIInv
<1>8. CASE Tick
  BY <1>8, TickIInv
<1>9. CASE \E t \in Tasks : Roll(t)
  BY <1>9, RollIInv
<1>10. CASE \E t \in Tasks, k \in Periods : Arrive(t, k) \/ Purge(t, k)
  BY <1>10, ChangeIInv
<1>11. CASE UNCHANGED vars
  BY <1>1, <1>11, ElsewhereIInv DEF vars, env, log
<1>12. QED
  BY <1>2, <1>3, <1>4, <1>5, <1>6, <1>7, <1>8, <1>9, <1>10, <1>11 DEF Next

LEMMA AlwaysIInv == Spec => []IInv
  BY InitIInv, NextIInv, PTL DEF Spec

\* The state file and the products stay in their types, for every limit: in
\* particular attempts never pass limit + 1 (_mark_failure).
THEOREM AutomationTypes == Spec => []TypeOK
<1>1. IInv => TypeOK
  BY DEF IInv, FilesOK, Files, Book, AllFair, Fair, Counted, Rec, TypeOK, NoPeriod
<1>2. QED
  BY <1>1, AlwaysIInv, PTL

-----------------------------------------------------------------------------
(* ------------------------------- honesty -------------------------------- *)

\* What a record claims about its period holds.
True(C, P, t, r) ==
    /\ r.status = "ok" => P[t][r.period]
    /\ r.status = "empty" => ~C[t][r.period]
\* So it does for every record that nothing overtook, on file and in memory.
HonestInv ==
    /\ overtaken \in [file : SUBSET Tasks, loaded : SUBSET Tasks]
    /\ \A t \in Tasks \ overtaken.file : True(content, product, t, disk[t])
    /\ \A t \in Tasks \ overtaken.loaded : True(content, product, t, mem[t])

LEMMA InitHonest == Init => HonestInv
  BY DEF Init, HonestInv, True, NoRecord

\* Marking a record by what the files say makes it true.
LEMMA MarkedTrue ==
    ASSUME NEW t, NEW k, NEW s \in {"ok", "empty", "pending", "unconfigured"},
           s = "ok" => product[t][k],
           s = "empty" => ~content[t][k]
    PROVE  True(content, product, t, Marked(s, k))
  BY DEF True, Marked

LEMMA ScannedTrue ==
    ASSUME NEW t \in Tasks, NEW k, NEW r
    PROVE  True(content, product, t, Scanned(t, r, k))
<1>1. TaskState(t, k) = "done" => True(content, product, t, Marked("ok", k))
  BY MarkedTrue DEF TaskState
<1>2. TaskState(t, k) = "empty" => True(content, product, t, Marked("empty", k))
  BY MarkedTrue DEF TaskState
<1>3. True(content, product, t, Marked("pending", k))
  BY MarkedTrue
<1>4. True(content, product, t, NoRecord)
  BY DEF True, NoRecord
<1>5. QED
  BY <1>1, <1>2, <1>3, <1>4 DEF Scanned, True

LEMMA BeginHonest == ASSUME IInv, HonestInv, BeginCycle \/ BeginRetry PROVE HonestInv'
<1>1. UNCHANGED <<content, product>>
  BY DEF BeginCycle, BeginRetry, env
<1>2. CASE BeginRetry
  <2>1. \A t \in Tasks : mem'[t] = disk[t] \/ mem'[t] = Marked("pending", period[t])
    BY <1>2 DEF BeginRetry
  <2>2. \A t \in Tasks : True(content, product, t, Marked("pending", period[t]))
    BY MarkedTrue
  <2>3. overtaken' = [overtaken EXCEPT !.loaded = overtaken.file] /\ disk' = disk
    BY <1>2 DEF BeginRetry
  <2>4. \A t \in Tasks \ overtaken.file : True(content', product', t, mem'[t])
    BY <1>1, <2>1, <2>2 DEF HonestInv
  <2>5. QED
    BY <1>1, <2>3, <2>4 DEF HonestInv
<1>3. CASE BeginCycle /\ detect = 0
  <2>1. /\ \A t \in Tasks : mem'[t] = Scanned(t, disk[t], period[t])
        /\ disk' = mem' /\ overtaken' = [file |-> {}, loaded |-> {}]
    BY <1>3 DEF BeginCycle
  <2>2. \A t \in Tasks : True(content, product, t, Scanned(t, disk[t], period[t]))
    BY ScannedTrue
  <2>3. QED
    BY <1>1, <2>1, <2>2 DEF HonestInv, True
<1>4. CASE BeginCycle /\ detect # 0
  BY <1>1, <1>4 DEF BeginCycle, HonestInv, True
<1>5. QED
  BY <1>2, <1>3, <1>4

\* A step that makes the record of the task in hand anew, or one that claims
\* nothing, and keeps the others.
LEMMA TaskHonest ==
    ASSUME IInv, HonestInv, proc.todo # <<>>, NEW q,
           UNCHANGED <<content, disk>>, mem' = [mem EXCEPT ![Task] = q],
           \A u \in Tasks, k \in Periods : product[u][k] => product'[u][k],
           \/ overtaken' = Renewed /\ True(content', product', Task, q)
           \/ /\ overtaken' = overtaken
              /\ Task \in overtaken.loaded \/ True(content', product', Task, q)
    PROVE  HonestInv'
<1>1. Task \in Tasks /\ \A u \in Tasks : Dated(disk[u]) /\ Dated(mem[u])
  BY AtWork DEF IInv, FilesOK, AllFair, Fair
<1>2. /\ overtaken' \in [file : SUBSET Tasks, loaded : SUBSET Tasks]
      /\ overtaken'.file = overtaken.file
      /\ Task \notin overtaken'.loaded => True(content', product', Task, q)
      /\ \A u \in Tasks \ {Task} : u \in overtaken.loaded => u \in overtaken'.loaded
  BY DEF HonestInv, Renewed
<1>3. ASSUME NEW u \in Tasks, NEW r, Dated(r), True(content, product, u, r)
      PROVE  True(content', product', u, r)
  BY <1>3 DEF True, Dated
<1>4. \A u \in Tasks \ overtaken'.file : True(content', product', u, disk'[u])
  BY <1>1, <1>2, <1>3 DEF HonestInv
<1>5. \A u \in Tasks \ overtaken'.loaded : True(content', product', u, mem'[u])
  <2> SUFFICES ASSUME NEW u \in Tasks \ overtaken'.loaded PROVE True(content', product', u, mem'[u])
    OBVIOUS
  <2>1. CASE u = Task
    BY <1>1, <1>2, <2>1 DEF IInv, FilesOK, AllFair
  <2>2. CASE u # Task
    BY <1>1, <1>2, <1>3, <2>2 DEF HonestInv, IInv, FilesOK, AllFair
  <2>3. QED
    BY <2>1, <2>2
<1>6. QED
  BY <1>2, <1>4, <1>5 DEF HonestInv

\* A step that leaves the claims, and at most adds to the products.
LEMMA KeptHonest ==
    ASSUME IInv, HonestInv, UNCHANGED <<content, overtaken>>,
           \A u \in Tasks, k \in Periods : product[u][k] => product'[u][k],
           \A u \in Tasks : /\ disk'[u].status = disk[u].status
                            /\ disk'[u].period = disk[u].period
                            /\ mem'[u].status = mem[u].status
                            /\ mem'[u].period = mem[u].period
    PROVE  HonestInv'
<1>1. \A u \in Tasks : Dated(disk[u]) /\ Dated(mem[u])
  BY DEF IInv, FilesOK, AllFair, Fair
<1>2. \A u \in Tasks : True(content, product, u, disk[u]) => True(content', product', u, disk'[u])
  BY <1>1 DEF True, Dated
<1>3. \A u \in Tasks : True(content, product, u, mem[u]) => True(content', product', u, mem'[u])
  BY <1>1 DEF True, Dated
<1>4. QED
  BY <1>2, <1>3 DEF HonestInv

LEMMA SkipHonest == ASSUME IInv, HonestInv, Skip PROVE HonestInv'
<1> DEFINE r == Refreshed(Task, mem[Task], Target)
           s == TaskState(Task, Target)
<1>1. proc.todo # <<>> /\ UNCHANGED <<content, product, disk>>
  BY DEF Skip, env
<1>2. Task \in Tasks
  BY <1>1, AtWork
<1>3. ASSUME NEW q, True(content, product, Task, q) PROVE True(content', product', Task, q)
  BY <1>1, <1>3 DEF True, Task
<1>4. CASE s = "done"
  <2>1. mem' = [mem EXCEPT ![Task] = Marked("ok", Target)] /\ overtaken' = Renewed
    BY <1>4 DEF Skip
  <2>2. True(content, product, Task, Marked("ok", Target))
    BY <1>4, MarkedTrue DEF TaskState
  <2>3. QED
    BY <1>1, <1>3, <2>1, <2>2, TaskHonest
<1>5. CASE s = "empty"
  <2>1. mem' = [mem EXCEPT ![Task] = Marked("empty", Target)] /\ overtaken' = Renewed
    BY <1>5 DEF Skip
  <2>2. True(content, product, Task, Marked("empty", Target))
    BY <1>5, MarkedTrue DEF TaskState
  <2>3. QED
    BY <1>1, <1>3, <2>1, <2>2, TaskHonest
<1>6. CASE s \notin {"done", "empty"}
  <2>1. /\ overtaken' = overtaken
        /\ \/ mem' = [mem EXCEPT ![Task] = r]
           \/ mem' = [mem EXCEPT ![Task] = Marked("unconfigured", Target)]
    BY <1>6 DEF Skip, TaskState
  <2>2. /\ True(content, product, Task, Marked("unconfigured", Target))
        /\ True(content, product, Task, Marked("pending", Target))
    BY MarkedTrue
  <2>3. Task \in overtaken.loaded \/ True(content, product, Task, r)
    BY <1>2, <2>2 DEF Refreshed, HonestInv
  <2> HIDE DEF r
  <2>4. QED
    BY <1>1, <1>3, <2>1, <2>2, <2>3, TaskHonest
<1>7. QED
  BY <1>4, <1>5, <1>6

\* "running" claims nothing.
LEMMA StartTaskHonest == ASSUME IInv, HonestInv, StartTask PROVE HonestInv'
<1> DEFINE q == [Refreshed(Task, mem[Task], Target)
                    EXCEPT !.status = "running", !.wait = FromStart(StaleAfter)]
<1>1. /\ proc.todo # <<>> /\ UNCHANGED <<content, product>>
      /\ mem' = [mem EXCEPT ![Task] = q] /\ disk' = mem'
      /\ overtaken' = [overtaken EXCEPT !.file = overtaken.loaded]
  BY DEF StartTask, env
<1>2. Refreshed(Task, mem[Task], Target) \in Rec
  BY <1>1, AtWork, RefreshedFair DEF Fair
<1>3. q.status = "running"
  BY <1>2 DEF Rec
<1> HIDE DEF q
<1>4. \A u \in Tasks : mem'[u] = q \/ mem'[u] = mem[u]
  BY <1>1 DEF IInv, FilesOK, AllFair
<1>5. \A u \in Tasks \ overtaken.loaded : True(content', product', u, mem'[u])
  BY <1>1, <1>3, <1>4 DEF HonestInv, True
<1>6. QED
  BY <1>1, <1>5 DEF HonestInv, True

LEMMA BusyHonest == ASSUME IInv, HonestInv, Busy PROVE HonestInv'
<1>1. /\ proc.todo # <<>> /\ UNCHANGED <<content, product, disk, overtaken>>
      /\ mem[Task].period = Target
  BY DEF Busy, env, IInv, CycleOK
<1>2. mem' = [mem EXCEPT ![Task] = Marked("pending", Target)]
  BY <1>1, AtWork DEF Busy, IInv, FilesOK, AllFair
<1>3. True(content', product', Task, Marked("pending", Target))
  BY DEF True, Marked
<1>4. QED
  BY <1>1, <1>2, <1>3, TaskHonest

LEMMA SucceedHonest == ASSUME IInv, HonestInv, Succeed PROVE HonestInv'
<1>1. /\ proc.todo # <<>> /\ UNCHANGED <<content, disk>> /\ proc' = Next1
      /\ mem' = [mem EXCEPT ![Task] = Marked("ok", Target)] /\ overtaken' = Renewed
      /\ product' = [product EXCEPT ![Task][Target] = TRUE]
  BY DEF Succeed, IInv, CycleOK
<1>2. /\ Task \in Tasks /\ Target \in Periods
      /\ product \in [Tasks -> [Periods -> BOOLEAN]]
  BY <1>1, AtWork DEF Files, Book
<1>3. /\ \A u \in Tasks, k \in Periods : product[u][k] => product'[u][k]
      /\ product'[Task][Target]
  BY <1>1, <1>2, CellSet
<1> DEFINE t == Task
           k == Target
<1>4. product'[t][k]
  BY <1>3
<1> HIDE DEF t, k
<1>5. True(content', product', t, Marked("ok", k))
  BY <1>4 DEF True, Marked
<1>6. QED
  BY <1>1, <1>3, <1>5, TaskHonest DEF t, k

LEMMA FailHonest == ASSUME IInv, HonestInv, Fail PROVE HonestInv'
<1>1. /\ proc.todo # <<>> /\ UNCHANGED <<content, product, disk, overtaken>>
      /\ mem' = [mem EXCEPT ![Task] = MarkedFailed(Task, mem[Task], Target)]
  BY DEF Fail, env, IInv, CycleOK
<1>2. True(content', product', Task, MarkedFailed(Task, mem[Task], Target))
  BY DEF True, MarkedFailed
<1>3. QED
  BY <1>1, <1>2, TaskHonest

\* The end of a cycle, with its records on file or without.
LEMMA OverHonest ==
    ASSUME HonestInv, EndCycle \/ Abort
    PROVE  HonestInv'
<1>1. /\ UNCHANGED <<content, product>>
      /\ overtaken'.loaded = {} /\ mem' = [t \in Tasks |-> NoRecord]
      /\ \/ disk' = mem /\ overtaken'.file = overtaken.loaded
         \/ disk' = disk /\ overtaken'.file = overtaken.file
      /\ overtaken' \in [file : SUBSET Tasks, loaded : SUBSET Tasks]
  BY DEF EndCycle, Abort, env, HonestInv
<1>2. \A t \in Tasks : True(content', product', t, NoRecord)
  BY DEF True, NoRecord
<1>3. \A t \in Tasks \ overtaken'.file : True(content', product', t, disk'[t])
  BY <1>1 DEF HonestInv, True
<1>4. QED
  BY <1>1, <1>2, <1>3 DEF HonestInv

\* What somebody else changes, the records it belies are known to be overtaken.
LEMMA ChangeHonest ==
    ASSUME IInv, HonestInv, NEW t \in Tasks, NEW k \in Periods, Arrive(t, k) \/ Purge(t, k)
    PROVE  HonestInv'
<1>1. Overtake(t, k)
  BY DEF Arrive, Purge
<1>2. /\ UNCHANGED <<disk, mem>>
      /\ overtaken' \in [file : SUBSET Tasks, loaded : SUBSET Tasks]
      /\ \A u \in Tasks \ overtaken'.file : /\ u \notin overtaken.file
                                            /\ u # t \/ disk[u].period # k
      /\ \A u \in Tasks \ overtaken'.loaded : /\ u \notin overtaken.loaded
                                              /\ u # t \/ mem[u].period # k
  BY <1>1 DEF Overtake, HonestInv
<1>3. \A u \in Tasks, j \in Periods : u # t \/ j # k =>
           content'[u][j] = content[u][j] /\ product'[u][j] = product[u][j]
  BY ChangedFiles
<1>4. ASSUME NEW u \in Tasks, NEW r, Dated(r), True(content, product, u, r), u # t \/ r.period # k
      PROVE  True(content', product', u, r)
  BY <1>3, <1>4 DEF True, Dated
<1>5. \A u \in Tasks : Dated(disk[u]) /\ Dated(mem[u])
  BY DEF IInv, FilesOK, AllFair, Fair
<1>6. \A u \in Tasks \ overtaken'.file : True(content', product', u, disk'[u])
  BY <1>2, <1>4, <1>5 DEF HonestInv
<1>7. \A u \in Tasks \ overtaken'.loaded : True(content', product', u, mem'[u])
  BY <1>2, <1>4, <1>5 DEF HonestInv
<1>8. QED
  BY <1>2, <1>6, <1>7 DEF HonestInv

LEMMA NextHonest == IInv /\ HonestInv /\ [Next]_vars => HonestInv'
<1> SUFFICES ASSUME IInv, HonestInv, [Next]_vars PROVE HonestInv'
  OBVIOUS
<1>1. CASE BeginCycle \/ BeginRetry
  BY <1>1, BeginHonest
<1>2. CASE Work
  <2>1. CASE Generate
    BY <2>1, KeptHonest DEF Generate, env
  <2>2. QED
    BY <1>2, <2>1, SkipHonest, StartTaskHonest, BusyHonest, SucceedHonest, FailHonest,
       OverHonest DEF Work
<1>3. CASE Abort
  BY <1>3, OverHonest
<1>4. CASE SetModel \/ ManualStart \/ UNCHANGED vars \/ \E t \in Tasks : Roll(t)
  BY <1>4, KeptHonest DEF SetModel, ManualStart, Roll, vars, env
<1>5. CASE ManualEnd
  <2>1. \A u \in Tasks, k \in Periods : product[u][k] => product'[u][k]
    BY <1>5, ManualEndGrows
  <2>2. QED
    BY <1>5, <2>1, KeptHonest DEF ManualEnd
<1>6. CASE Tick
  <2>1. \A u \in Tasks : /\ disk'[u] = [disk[u] EXCEPT !.wait = Left(@)]
                         /\ mem'[u] = [mem[u] EXCEPT !.wait = Left(@)]
                         /\ disk[u] \in Rec /\ mem[u] \in Rec
    BY <1>6 DEF Tick, Later, IInv, FilesOK, AllFair
  <2>2. \A u \in Tasks : /\ disk'[u].status = disk[u].status
                         /\ disk'[u].period = disk[u].period
                         /\ mem'[u].status = mem[u].status
                         /\ mem'[u].period = mem[u].period
    BY <2>1 DEF Rec
  <2>3. QED
    BY <1>6, <2>2, KeptHonest DEF Tick, env
<1>7. CASE \E t \in Tasks, k \in Periods : Arrive(t, k) \/ Purge(t, k)
  BY <1>7, ChangeHonest
<1>8. QED
  BY <1>1, <1>2, <1>3, <1>4, <1>5, <1>6, <1>7 DEF Next

LEMMA AlwaysHonest == Spec => []HonestInv
  BY AlwaysIInv, InitHonest, NextHonest, PTL DEF Spec

\* "ok" on file has its product and "empty" its empty period, through crashes,
\* midnights inside a cycle and reports by hand: only a change of the diary by
\* somebody else can belie a record, and only the records of that period made
\* before it, until the next detection makes them anew.
THEOREM FileIsHonest == Spec => []StatusIsHonest
<1>1. HonestInv => StatusIsHonest
  BY DEF HonestInv, True, StatusIsHonest
<1>2. QED
  BY <1>1, AlwaysHonest, PTL

\* No failure is counted that did not happen in this very period, and no task
\* is given up before it has run limit + 1 times.
THEOREM AttemptsHappened == Spec => []AttemptsAreReal
<1>1. IInv => AttemptsAreReal
  BY DEF IInv, FilesOK, Files, AllFair, Fair, Counted, AttemptsAreReal
<1>2. QED
  BY <1>1, AlwaysIInv, PTL

-----------------------------------------------------------------------------
(* ----------------------------- the budget ------------------------------- *)
(* A record says how much of the budget is used up since attempts were last *)
(* set to 0.  It is set to 0 only by what resets counts, and where nothing  *)
(* was used up: a done task, a new period, a model not yet usable.          *)

\* The generations paid for by /retry, by lost attempts and by other files.
Cap(t) == (Limit[t] + 1) * resets[t]
\* Those a record still knows of.
Spent(t, r) ==
    IF r.period = period[t] /\ r.status \in {"pending", "failed", "blocked"}
      THEN r.attempts ELSE 0
AtHand(t) == proc.phase \in {"started", "generating"} /\ t = Task
\* The generation that has been started and will run, whatever becomes of the model.
ToRun(t) == IF proc.phase = "started" /\ t = Task /\ Target = period[t] THEN 1 ELSE 0

WithinCap(t) == tries[t] <= Cap(t) + Limit[t] + 1
\* Nothing has run for a period that came while the cycle was under way.
NewPeriodUnused(t) == proc.phase # "idle" /\ proc.target[t] # period[t] => tries[t] = 0
\* What has run is on record: on file between cycles, in memory within one.
OnRecord(t) ==
    TaskState(t, period[t]) = "missing" =>
        /\ proc.phase = "idle" => tries[t] <= Cap(t) + Spent(t, disk[t])
        /\ proc.phase # "idle" /\ ~AtHand(t) => tries[t] <= Cap(t) + Spent(t, mem[t])
InHand(t) ==
    AtHand(t) /\ Target = period[t] =>
        tries[t] <= Cap(t) + mem[t].attempts + (IF proc.phase = "started" THEN 0 ELSE 1)
\* While the model is unusable records are marked so, and attempts forgotten.
Unready(t) == ~ready => tries[t] + ToRun(t) <= Cap(t)

CountersOK == resets \in [Tasks -> Nat]
Budgeted(t) == WithinCap(t) /\ NewPeriodUnused(t) /\ OnRecord(t) /\ InHand(t) /\ Unready(t)
BudgetInv == CountersOK /\ \A t \in Tasks : Budgeted(t)

\* The numbers are numbers.
LEMMA BudgetNumbers ==
    ASSUME IInv, CountersOK, NEW t \in Tasks
    PROVE  /\ tries[t] \in Nat /\ Limit[t] \in Nat /\ Cap(t) \in Nat
           /\ disk[t] \in Rec /\ mem[t] \in Rec
           /\ \A r \in Rec : Spent(t, r) \in Nat /\ Spent(t, r) <= r.attempts
           /\ ToRun(t) \in {0, 1}
<1>1. tries[t] \in Nat /\ disk[t] \in Rec /\ mem[t] \in Rec
  BY DEF IInv, FilesOK, Files, Book, AllFair
<1>2. Limit[t] + 1 \in Nat /\ resets[t] \in Nat
  BY DEF CountersOK
<1>3. \A a, b \in Nat : a * b \in Nat
  OBVIOUS
<1>4. Cap(t) \in Nat
  BY <1>2, <1>3 DEF Cap
<1>. QED
  BY <1>1, <1>4 DEF Spent, Rec, ToRun

\* They are numbers after a step, too.
LEMMA BudgetNumbersThen ==
    ASSUME IInv', CountersOK', NEW t \in Tasks
    PROVE  /\ tries'[t] \in Nat /\ Limit[t] \in Nat /\ Cap(t)' \in Nat
           /\ Spent(t, disk[t])' \in Nat /\ Spent(t, mem[t])' \in Nat
           /\ mem'[t].attempts \in Nat
<1>1. tries'[t] \in Nat /\ disk'[t] \in Rec /\ mem'[t] \in Rec
  BY DEF IInv, FilesOK, Files, Book, AllFair
<1>2. Limit[t] + 1 \in Nat /\ resets'[t] \in Nat
  BY DEF CountersOK
<1>3. \A a, b \in Nat : a * b \in Nat
  OBVIOUS
<1>4. Cap(t)' \in Nat
  BY <1>2, <1>3 DEF Cap
<1>. QED
  BY <1>1, <1>4 DEF Spent, Rec

\* One more event that sets attempts back pays for limit + 1 generations.
LEMMA CapGrows ==
    ASSUME CountersOK, CountersOK', NEW t \in Tasks,
           resets'[t] = resets[t] + 1
    PROVE  Cap(t)' = Cap(t) + Limit[t] + 1
<1>1. \A a, b \in Nat : a * (b + 1) = a * b + a
  OBVIOUS
<1>2. Limit[t] + 1 \in Nat /\ resets[t] \in Nat
  BY DEF CountersOK
<1>3. (Limit[t] + 1) * (resets[t] + 1) = (Limit[t] + 1) * resets[t] + (Limit[t] + 1)
  BY <1>1, <1>2
<1>4. Cap(t) \in Int
  BY <1>2 DEF Cap
<1>. QED
  BY <1>2, <1>3, <1>4 DEF Cap

\* It makes up for every attempt a record forgets.
LEMMA Refilled ==
    ASSUME IInv, IInv', BudgetInv, CountersOK', NEW t \in Tasks,
           resets'[t] = resets[t] + 1,
           tries'[t] = tries[t],
           NewPeriodUnused(t)', ~ready' => tries[t] + ToRun(t)' <= Cap(t)'
    PROVE  Budgeted(t)'
<1>1. Cap(t)' = Cap(t) + Limit[t] + 1
  BY CapGrows DEF BudgetInv
<1>2. tries[t] <= Cap(t)'
  BY <1>1 DEF BudgetInv, Budgeted, WithinCap
<1>3. /\ tries[t] \in Nat /\ Cap(t)' \in Nat /\ Limit[t] \in Nat
      /\ Spent(t, disk[t])' \in Nat /\ Spent(t, mem[t])' \in Nat
      /\ mem'[t].attempts \in Nat
  BY BudgetNumbersThen
<1>4. WithinCap(t)'
  BY <1>2, <1>3 DEF WithinCap
<1>5. OnRecord(t)'
  BY <1>2, <1>3 DEF OnRecord
<1>6. InHand(t)'
  BY <1>2, <1>3 DEF InHand
<1>7. Unready(t)'
  BY DEF Unready
<1>. QED
  BY <1>4, <1>5, <1>6, <1>7 DEF Budgeted

\* A task whose period has seen no generation has its whole budget.
LEMMA Untouched ==
    ASSUME IInv', CountersOK', NEW t \in Tasks, tries'[t] = 0, ToRun(t)' = 0
    PROVE  Budgeted(t)'
<1>1. /\ Cap(t)' \in Nat /\ Limit[t] \in Nat
      /\ Spent(t, disk[t])' \in Nat /\ Spent(t, mem[t])' \in Nat
      /\ mem'[t].attempts \in Nat
  BY BudgetNumbersThen
<1>. QED
  BY <1>1 DEF Budgeted, WithinCap, NewPeriodUnused, OnRecord, InHand, Unready

\* Looking for missing products forgets no attempt of a task that needs one,
LEMMA SpentScanned ==
    ASSUME NEW t \in Tasks, NEW r \in Rec, TaskState(t, period[t]) = "missing"
    PROVE  Spent(t, Scanned(t, r, period[t])) = Spent(t, r)
BY PeriodsAreInts DEF Scanned, SamePeriod, Marked, NoRecord, Spent, Rec

\* nor does dropping an interrupted run or another period's record.
LEMMA SpentRefreshed ==
    ASSUME NEW t \in Tasks, NEW r \in Rec, period[t] \in Periods
    PROVE  Spent(t, Refreshed(t, r, period[t])) = Spent(t, r)
BY PeriodsAreInts DEF Refreshed, Stale, SamePeriod, Marked, Spent, Rec

(* What becomes of a task in a step of the cycle. *)

\* One that is not in hand keeps what its record knows.
LEMMA NotAtHand ==
    ASSUME IInv, IInv', BudgetInv, CountersOK', NEW t \in Tasks,
           UNCHANGED <<period, content, product, ready>>,
           tries'[t] = tries[t], resets'[t] = resets[t],
           proc.phase # "idle", proc'.phase # "idle", proc'.target = proc.target,
           ~AtHand(t), ~AtHand(t)', Spent(t, mem[t])' = Spent(t, mem[t])
    PROVE  Budgeted(t)'
<1>1. Budgeted(t) /\ Cap(t)' = Cap(t)
  BY DEF BudgetInv, Cap
<1>2. TaskState(t, period[t])' = TaskState(t, period[t])
  BY DEF TaskState
<1>3. ToRun(t) = 0 /\ ToRun(t)' = 0
  BY DEF ToRun, AtHand
<1>4. WithinCap(t)' /\ NewPeriodUnused(t)'
  BY <1>1 DEF Budgeted, WithinCap, NewPeriodUnused
<1>5. OnRecord(t)'
  BY <1>1, <1>2 DEF Budgeted, OnRecord
<1>6. InHand(t)' /\ Unready(t)'
  BY <1>1, <1>3 DEF Budgeted, InHand, Unready
<1>. QED
  BY <1>4, <1>5, <1>6 DEF Budgeted

\* One that is paid for, or done, may forget its attempts.
LEMMA PaidFor ==
    ASSUME IInv, IInv', BudgetInv, CountersOK', NEW t \in Tasks,
           tries'[t] = tries[t], resets'[t] = resets[t],
           UNCHANGED <<period, ready>>,
           ~AtHand(t)', NewPeriodUnused(t)',
           tries[t] <= Cap(t) \/ TaskState(t, period[t])' # "missing"
    PROVE  Budgeted(t)'
<1>1. Budgeted(t) /\ Cap(t)' = Cap(t)
  BY DEF BudgetInv, Cap
<1>2. ToRun(t)' = 0
  BY DEF ToRun, AtHand
<1>3. WithinCap(t)'
  BY <1>1 DEF Budgeted, WithinCap
<1>4. OnRecord(t)'
  BY <1>1, BudgetNumbers, BudgetNumbersThen DEF BudgetInv, OnRecord
<1>5. InHand(t)'
  BY DEF InHand
<1>6. Unready(t)'
  <2>1. ToRun(t) \in {0, 1} /\ tries[t] \in Nat /\ Cap(t) \in Nat
    BY BudgetNumbers DEF BudgetInv
  <2>2. ~ready => tries[t] <= Cap(t)
    BY <1>1, <2>1 DEF Budgeted, Unready
  <2>. QED
    BY <1>1, <1>2, <2>1, <2>2 DEF Unready
<1>. QED
  BY <1>3, <1>4, <1>5, <1>6 DEF Budgeted

\* What the steps of a cycle leave alone.
LEMMA NextTaskBudget ==
    ASSUME IInv, proc' = Next1
    PROVE  proc'.phase = "work" /\ proc'.target = proc.target
BY DEF IInv, CycleOK, Next1

LEMMA SkipBudget ==
    ASSUME IInv, IInv', BudgetInv, Skip, NEW t \in Tasks
    PROVE  Budgeted(t)'
<1>1. /\ proc.phase = "work" /\ proc.todo # <<>> /\ proc' = Next1
      /\ UNCHANGED <<period, content, product, ready, tries, resets>>
  BY DEF Skip, env, log
<1>2. proc'.phase = "work" /\ proc'.target = proc.target
  BY <1>1, NextTaskBudget
<1>3. ~AtHand(t) /\ ~AtHand(t)' /\ CountersOK'
  BY <1>1, <1>2 DEF AtHand, BudgetInv, CountersOK
<1>4. Task \in Tasks /\ mem[Task] \in Rec /\ period[Task] \in Periods
  BY <1>1, AtWork DEF IInv, FilesOK, Files, Book
<1>5. mem \in [Tasks -> Rec]
  BY DEF IInv, FilesOK, AllFair
<1>6. NewPeriodUnused(t) /\ NewPeriodUnused(t)'
  BY <1>1, <1>2 DEF BudgetInv, Budgeted, NewPeriodUnused
<1>7. CASE t # Task
  <2>1. mem'[t] = mem[t]
    BY <1>5, <1>7 DEF Skip
  <2>2. Spent(t, mem[t])' = Spent(t, mem[t])
    BY <1>1, <2>1 DEF Spent
  <2>. QED
    BY <1>1, <1>2, <1>3, <2>2, NotAtHand
<1>8. CASE t = Task /\ Target # period[t]
  <2>1. tries[t] = 0
    BY <1>1, <1>6, <1>8 DEF NewPeriodUnused, Target
  <2>2. ToRun(t)' = 0
    BY <1>2 DEF ToRun
  <2>. QED
    BY <1>1, <1>3, <2>1, <2>2, Untouched
<1>9. CASE t = Task /\ Target = period[t]
  <2>1. CASE TaskState(t, period[t]) # "missing"
    <3>1. TaskState(t, period[t])' # "missing"
      BY <1>1, <2>1 DEF TaskState
    <3>. QED
      BY <1>1, <1>3, <1>6, <3>1, PaidFor
  <2>2. CASE ~ready
    <3>1. tries[t] <= Cap(t)
      BY <2>2, <1>1, BudgetNumbers DEF BudgetInv, Budgeted, Unready, ToRun
    <3>. QED
      BY <1>1, <1>3, <1>6, <3>1, PaidFor
  <2>3. CASE TaskState(t, period[t]) = "missing" /\ ready
    <3>1. mem' = [mem EXCEPT ![Task] = Refreshed(Task, mem[Task], Target)]
      BY <1>9, <2>3 DEF Skip
    <3>2. mem'[t] = Refreshed(t, mem[t], period[t])
      BY <1>4, <1>5, <1>9, <3>1
    <3>3. Spent(t, mem'[t]) = Spent(t, mem[t])
      BY <1>4, <1>9, <3>2, SpentRefreshed
    <3>4. Spent(t, mem[t])' = Spent(t, mem'[t])
      BY <1>1 DEF Spent
    <3>. QED
      BY <1>1, <1>2, <1>3, <3>3, <3>4, NotAtHand
  <2>. QED
    BY <2>1, <2>2, <2>3
<1>. QED
  BY <1>7, <1>8, <1>9

LEMMA StartTaskBudget ==
    ASSUME IInv, IInv', BudgetInv, StartTask, NEW t \in Tasks
    PROVE  Budgeted(t)'
<1> DEFINE r == Refreshed(Task, mem[Task], Target)
<1>1. /\ proc.phase = "work" /\ proc.todo # <<>> /\ ready
      /\ proc' = [proc EXCEPT !.phase = "started"]
      /\ TaskState(Task, Target) = "missing"
      /\ UNCHANGED <<period, content, product, ready, tries, resets>>
  BY DEF StartTask, env, log
<1>2. /\ proc'.phase = "started" /\ proc'.target = proc.target /\ proc'.todo = proc.todo
      /\ Task' = Task /\ Target' = Target
  BY <1>1 DEF IInv, CycleOK, Task, Target
<1>3. ~AtHand(t) /\ CountersOK'
  BY <1>1, <1>2 DEF AtHand, BudgetInv, CountersOK
<1>4. Task \in Tasks /\ mem[Task] \in Rec /\ period[Task] \in Periods
  BY <1>1, AtWork DEF IInv, FilesOK, Files, Book
<1>5. mem \in [Tasks -> Rec]
  BY DEF IInv, FilesOK, AllFair
<1>6. mem' = [mem EXCEPT ![Task] = [r EXCEPT !.status = "running", !.wait = FromStart(StaleAfter)]]
  BY DEF StartTask
<1>7. NewPeriodUnused(t) /\ NewPeriodUnused(t)'
  BY <1>1, <1>2 DEF BudgetInv, Budgeted, NewPeriodUnused
<1>8. CASE t # Task
  <2>1. mem'[t] = mem[t]
    BY <1>5, <1>6, <1>8
  <2>2. Spent(t, mem[t])' = Spent(t, mem[t])
    BY <1>1, <2>1 DEF Spent
  <2>3. ~AtHand(t)'
    BY <1>2, <1>8 DEF AtHand
  <2>. QED
    BY <1>1, <1>2, <1>3, <2>2, <2>3, NotAtHand
<1>9. CASE t = Task /\ Target # period[t]
  <2>1. tries[t] = 0
    BY <1>1, <1>7, <1>9 DEF NewPeriodUnused, Target
  <2>2. ToRun(t)' = 0
    BY <1>1, <1>2, <1>9 DEF ToRun
  <2>. QED
    BY <1>1, <1>3, <2>1, <2>2, Untouched
<1>10. CASE t = Task /\ Target = period[t]
  <2>1. tries[t] <= Cap(t) + Spent(t, mem[t])
    BY <1>1, <1>3, <1>10 DEF BudgetInv, Budgeted, OnRecord
  <2>2. Spent(t, r) = Spent(t, mem[t])
    BY <1>4, <1>10, SpentRefreshed
  <2>3. r \in Rec
    BY <1>1, AtWork, RefreshedFair DEF Fair
  <2>4. mem'[t].attempts = r.attempts
    <3> HIDE DEF r
    <3>. QED
      BY <1>4, <1>5, <1>6, <1>10, <2>3 DEF Rec
  <2>5. Spent(t, r) \in Nat /\ Spent(t, r) <= r.attempts /\ r.attempts \in Nat
    BY <2>3, BudgetNumbers DEF BudgetInv, Rec
  <2>6. Cap(t)' = Cap(t) /\ AtHand(t)'
    BY <1>1, <1>2, <1>10 DEF Cap, AtHand
  <2> HIDE DEF r
  <2>7. tries'[t] <= Cap(t)' + mem'[t].attempts
    BY <1>1, <2>1, <2>2, <2>4, <2>5, <2>6, BudgetNumbers DEF BudgetInv
  <2>8. WithinCap(t)'
    BY <1>1, <2>6 DEF BudgetInv, Budgeted, WithinCap
  <2>. QED
    BY <1>1, <1>2, <1>7, <2>6, <2>7, <2>8, BudgetNumbersThen, <1>3
       DEF Budgeted, OnRecord, InHand, Unready
<1>. QED
  BY <1>8, <1>9, <1>10

LEMMA BusyBudget ==
    ASSUME IInv, IInv', BudgetInv, Busy, NEW t \in Tasks
    PROVE  Budgeted(t)'
<1>1. /\ proc.phase = "started" /\ proc.todo # <<>> /\ proc' = Next1
      /\ UNCHANGED <<period, content, product, ready, tries>>
      /\ mem[Task].period = Target
  BY DEF Busy, env, IInv, CycleOK
<1>2. proc'.phase = "work" /\ proc'.target = proc.target
  BY <1>1, NextTaskBudget
<1>3. Task \in Tasks /\ mem \in [Tasks -> Rec] /\ resets \in [Tasks -> Nat]
  BY <1>1, AtWork DEF IInv, FilesOK, AllFair, BudgetInv, CountersOK
<1>4. ~AtHand(t)' /\ ToRun(t)' = 0
  BY <1>2 DEF AtHand, ToRun
<1>5. CountersOK'
  BY <1>1, <1>3 DEF Busy, Count, BudgetInv, CountersOK
<1>6. NewPeriodUnused(t) /\ NewPeriodUnused(t)'
  BY <1>1, <1>2 DEF BudgetInv, Budgeted, NewPeriodUnused
<1>7. CASE t # Task
  <2>1. mem'[t] = mem[t] /\ resets'[t] = resets[t]
    BY <1>3, <1>7 DEF Busy, Count
  <2>2. Spent(t, mem[t])' = Spent(t, mem[t])
    BY <1>1, <2>1 DEF Spent
  <2>3. ~AtHand(t)
    BY <1>7 DEF AtHand
  <2>. QED
    BY <1>1, <1>2, <1>4, <1>5, <2>1, <2>2, <2>3, NotAtHand
<1>8. CASE t = Task /\ Target # period[t]
  <2>1. tries[t] = 0
    BY <1>1, <1>6, <1>8 DEF NewPeriodUnused, Target
  <2>. QED
    BY <1>1, <1>4, <1>5, <2>1, Untouched
<1>9. CASE t = Task /\ Target = period[t] /\ mem[t].attempts > 0
  <2>1. resets'[t] = resets[t] + 1
    BY <1>3, <1>9 DEF Busy, Count
  <2>3. tries[t] + 0 <= Cap(t)'
    BY <1>5, <2>1, CapGrows, BudgetNumbers DEF BudgetInv, Budgeted, WithinCap
  <2>. QED
    BY <1>1, <1>4, <1>5, <1>6, <2>1, <2>3, Refilled
<1>10. CASE t = Task /\ Target = period[t] /\ ~(mem[t].attempts > 0)
  <2>1. resets'[t] = resets[t]
    BY <1>10 DEF Busy
  <2>2. mem[t].attempts = 0
    BY <1>3, <1>10 DEF Rec
  <2>3. tries[t] <= Cap(t)
    BY <1>1, <1>10, <2>2, BudgetNumbers DEF BudgetInv, Budgeted, InHand, AtHand
  <2>. QED
    BY <1>1, <1>4, <1>5, <1>6, <2>1, <2>3, PaidFor
<1>. QED
  BY <1>7, <1>8, <1>9, <1>10

LEMMA GenerateBudget ==
    ASSUME IInv, IInv', BudgetInv, Generate, NEW t \in Tasks
    PROVE  Budgeted(t)'
<1>1. /\ proc.phase = "started" /\ proc.todo # <<>>
      /\ proc' = [proc EXCEPT !.phase = "generating"]
      /\ UNCHANGED <<period, content, product, ready, mem, resets>>
      /\ mem[Task].status = "running"
  BY DEF Generate, env, IInv, CycleOK
<1>2. /\ proc'.phase = "generating" /\ proc'.target = proc.target /\ proc'.todo = proc.todo
      /\ Task' = Task /\ Target' = Target
  BY <1>1 DEF IInv, CycleOK, Task, Target
<1>3. Task \in Tasks /\ Fair(Files, Task, mem[Task]) /\ mem[Task] \in Rec
  BY <1>1, AtWork
<1>4. tries \in [Tasks -> Nat] /\ CountersOK'
  BY <1>1 DEF IInv, FilesOK, Files, Book, BudgetInv, CountersOK
<1>5. NewPeriodUnused(t) /\ ToRun(t)' = 0
  BY <1>2 DEF BudgetInv, Budgeted, ToRun
<1>6. CASE t # Task
  <2>1. tries'[t] = tries[t]
    BY <1>3, <1>4, <1>6 DEF Generate, Count
  <2>2. Spent(t, mem[t])' = Spent(t, mem[t])
    BY <1>1 DEF Spent
  <2>3. ~AtHand(t) /\ ~AtHand(t)'
    BY <1>2, <1>6 DEF AtHand
  <2>. QED
    BY <1>1, <1>2, <1>4, <2>1, <2>2, <2>3, NotAtHand
<1>7. CASE t = Task /\ Target # period[t]
  <2>1. tries'[t] = 0
    BY <1>1, <1>5, <1>7 DEF Generate, NewPeriodUnused, Target
  <2>. QED
    BY <1>4, <1>5, <2>1, Untouched
<1>8. CASE t = Task /\ Target = period[t]
  <2>1. tries'[t] = tries[t] + 1
    BY <1>3, <1>4, <1>8 DEF Generate, Count
  <2>2. AtHand(t) /\ AtHand(t)' /\ Cap(t)' = Cap(t)
    BY <1>1, <1>2, <1>8 DEF AtHand, Cap
  <2>3. mem[t].attempts <= Limit[t] /\ mem[t].attempts \in Nat
    BY <1>1, <1>3, <1>8 DEF Fair, Counted, Rec
  <2>4. /\ tries[t] <= Cap(t) + mem[t].attempts
        /\ ~ready => tries[t] + 1 <= Cap(t)
    BY <1>1, <1>8, <2>2, <2>3, BudgetNumbers
       DEF BudgetInv, Budgeted, InHand, Unready, ToRun
  <2>5. /\ tries'[t] <= Cap(t)' + mem'[t].attempts + 1
        /\ tries'[t] <= Cap(t)' + Limit[t] + 1
    <3>1. tries[t] \in Nat /\ Limit[t] \in Nat /\ Cap(t) \in Nat
      BY BudgetNumbers DEF BudgetInv
    <3>2. mem'[t].attempts = mem[t].attempts
      BY <1>1
    <3>. QED
      BY <2>1, <2>2, <2>3, <2>4, <3>1, <3>2
  <2>6. WithinCap(t)' /\ InHand(t)'
    BY <1>2, <2>5 DEF WithinCap, InHand
  <2>7. NewPeriodUnused(t)'
    BY <1>1, <1>2, <1>8 DEF NewPeriodUnused, Target
  <2>8. OnRecord(t)'
    BY <1>2, <2>2 DEF OnRecord
  <2>9. Unready(t)'
    BY <1>1, <1>5, <2>1, <2>2, <2>4, BudgetNumbers DEF BudgetInv, Unready
  <2>. QED
    BY <2>6, <2>7, <2>8, <2>9 DEF Budgeted
<1>. QED
  BY <1>6, <1>7, <1>8

LEMMA SucceedBudget ==
    ASSUME IInv, IInv', BudgetInv, Succeed, NEW t \in Tasks
    PROVE  Budgeted(t)'
<1>1. /\ proc.phase = "generating" /\ proc.todo # <<>> /\ proc' = Next1
      /\ UNCHANGED <<period, content, ready, tries, resets>>
      /\ product' = [product EXCEPT ![Task][Target] = TRUE]
      /\ mem' = [mem EXCEPT ![Task] = Marked("ok", Target)]
  BY DEF Succeed, log, IInv, CycleOK
<1>2. proc'.phase = "work" /\ proc'.target = proc.target
  BY <1>1, NextTaskBudget
<1>3. Task \in Tasks /\ Target \in Periods /\ mem \in [Tasks -> Rec]
      /\ product \in [Tasks -> [Periods -> BOOLEAN]]
  BY <1>1, AtWork DEF IInv, FilesOK, AllFair, Files, Book
<1>4. ~AtHand(t)' /\ ToRun(t)' = 0 /\ CountersOK'
  BY <1>1, <1>2 DEF AtHand, ToRun, BudgetInv, CountersOK
<1>5. NewPeriodUnused(t) /\ NewPeriodUnused(t)'
  BY <1>1, <1>2 DEF BudgetInv, Budgeted, NewPeriodUnused
<1>6. CASE t # Task
  <2>1. mem'[t] = mem[t] /\ product'[t] = product[t]
    BY <1>1, <1>3, <1>6
  <2>2. Spent(t, mem[t])' = Spent(t, mem[t])
    BY <1>1, <2>1 DEF Spent
  <2>3. TaskState(t, period[t])' = TaskState(t, period[t])
    BY <1>1, <2>1 DEF TaskState
  <2>4. ~AtHand(t) /\ Cap(t)' = Cap(t)
    BY <1>1, <1>6 DEF AtHand, Cap
  <2>5. Budgeted(t) /\ ToRun(t) = 0
    BY <1>1 DEF BudgetInv, ToRun
  <2>6. OnRecord(t)'
    BY <1>1, <1>2, <2>2, <2>3, <2>4, <2>5 DEF Budgeted, OnRecord
  <2>7. WithinCap(t)' /\ InHand(t)' /\ Unready(t)'
    BY <1>1, <1>4, <2>4, <2>5 DEF Budgeted, WithinCap, InHand, Unready
  <2>. QED
    BY <1>5, <2>6, <2>7 DEF Budgeted
<1>7. CASE t = Task /\ Target # period[t]
  <2>1. tries'[t] = 0
    BY <1>1, <1>5, <1>7 DEF NewPeriodUnused, Target
  <2>. QED
    BY <1>4, <2>1, Untouched
<1>8. CASE t = Task /\ Target = period[t]
  <2>1. TaskState(t, period[t])' # "missing"
    BY <1>1, <1>3, <1>8 DEF TaskState
  <2>. QED
    BY <1>1, <1>4, <1>5, <2>1, PaidFor
<1>. QED
  BY <1>6, <1>7, <1>8

LEMMA FailBudget ==
    ASSUME IInv, IInv', BudgetInv, Fail, NEW t \in Tasks
    PROVE  Budgeted(t)'
<1>1. /\ proc.phase = "generating" /\ proc.todo # <<>> /\ proc' = Next1
      /\ UNCHANGED <<period, content, product, ready, tries, resets>>
      /\ mem' = [mem EXCEPT ![Task] = MarkedFailed(Task, mem[Task], Target)]
  BY DEF Fail, env, log, IInv, CycleOK
<1>2. proc'.phase = "work" /\ proc'.target = proc.target
  BY <1>1, NextTaskBudget
<1>3. Task \in Tasks /\ mem \in [Tasks -> Rec]
  BY <1>1, AtWork DEF IInv, FilesOK, AllFair
<1>4. ~AtHand(t)' /\ ToRun(t)' = 0 /\ CountersOK'
  BY <1>1, <1>2 DEF AtHand, ToRun, BudgetInv, CountersOK
<1>5. NewPeriodUnused(t) /\ NewPeriodUnused(t)'
  BY <1>1, <1>2 DEF BudgetInv, Budgeted, NewPeriodUnused
<1>6. CASE t # Task
  <2>1. mem'[t] = mem[t]
    BY <1>1, <1>3, <1>6
  <2>2. Spent(t, mem[t])' = Spent(t, mem[t])
    BY <1>1, <2>1 DEF Spent
  <2>3. ~AtHand(t)
    BY <1>6 DEF AtHand
  <2>. QED
    BY <1>1, <1>2, <1>4, <2>2, <2>3, NotAtHand
<1>7. CASE t = Task /\ Target # period[t]
  <2>1. tries'[t] = 0
    BY <1>1, <1>5, <1>7 DEF NewPeriodUnused, Target
  <2>. QED
    BY <1>4, <2>1, Untouched
<1>8. CASE t = Task /\ Target = period[t]
  <2> DEFINE q == MarkedFailed(t, mem[t], Target)
  <2>1. mem'[t] = q
    BY <1>1, <1>3, <1>8
  <2>2. q.attempts = mem[t].attempts + 1 /\ q.period = period[t] /\ q.status \in {"failed", "blocked"}
    BY <1>8 DEF MarkedFailed
  <2> HIDE DEF q
  <2>3. Spent(t, mem[t])' = mem[t].attempts + 1 /\ Cap(t)' = Cap(t)
    BY <1>1, <2>1, <2>2 DEF Spent, Cap
  <2>4. tries[t] <= Cap(t) + mem[t].attempts + 1
    BY <1>1, <1>8 DEF BudgetInv, Budgeted, InHand, AtHand
  <2>5. tries'[t] <= Cap(t)' + Spent(t, mem[t])'
    BY <1>1, <1>3, <2>3, <2>4, BudgetNumbers DEF BudgetInv, Rec
  <2>6. OnRecord(t)'
    BY <1>2, <2>5 DEF OnRecord
  <2>7. InHand(t)' /\ WithinCap(t)'
    BY <1>1, <1>4, <2>3 DEF InHand, BudgetInv, Budgeted, WithinCap
  <2>8. Unready(t)'
    BY <1>1, <1>4, <2>3 DEF BudgetInv, Budgeted, Unready, ToRun
  <2>. QED
    BY <1>5, <2>6, <2>7, <2>8 DEF Budgeted
<1>. QED
  BY <1>6, <1>7, <1>8

(* The ends of a cycle. *)

\* Between the cycles it is the file that counts.
LEMMA EndCycleBudget ==
    ASSUME IInv, IInv', BudgetInv, EndCycle, NEW t \in Tasks
    PROVE  Budgeted(t)'
<1>1. /\ proc.phase = "work" /\ proc'.phase = "idle" /\ disk' = mem
      /\ UNCHANGED <<period, content, product, ready, tries, resets>>
  BY DEF EndCycle, env, log, Idle
<1>2. Budgeted(t) /\ Cap(t)' = Cap(t) /\ Spent(t, disk[t])' = Spent(t, mem[t])
  BY <1>1 DEF BudgetInv, Cap, Spent
<1>3. ~AtHand(t) /\ ~AtHand(t)' /\ ToRun(t) = 0 /\ ToRun(t)' = 0
  BY <1>1 DEF AtHand, ToRun
<1>4. TaskState(t, period[t])' = TaskState(t, period[t])
  BY <1>1 DEF TaskState
<1>5. OnRecord(t)'
  BY <1>1, <1>2, <1>3, <1>4 DEF Budgeted, OnRecord
<1>6. WithinCap(t)' /\ NewPeriodUnused(t)' /\ InHand(t)' /\ Unready(t)'
  BY <1>1, <1>2, <1>3 DEF Budgeted, WithinCap, NewPeriodUnused, InHand, Unready
<1>. QED
  BY <1>5, <1>6 DEF Budgeted

LEMMA BeginCycleBudget ==
    ASSUME IInv, IInv', BudgetInv, BeginCycle, NEW t \in Tasks
    PROVE  Budgeted(t)'
<1>1. /\ proc.phase = "idle" /\ proc' = Begun
      /\ UNCHANGED <<period, content, product, ready, tries, resets>>
  BY DEF BeginCycle, env, log
<1>2. proc'.phase = "work" /\ proc'.target = period
  BY <1>1 DEF Begun
<1>3. Budgeted(t) /\ Cap(t)' = Cap(t) /\ disk \in [Tasks -> Rec]
  BY <1>1 DEF BudgetInv, Cap, IInv, FilesOK, AllFair
<1>4. ~AtHand(t)' /\ ToRun(t) = 0 /\ ToRun(t)' = 0
  BY <1>1, <1>2 DEF AtHand, ToRun
<1>5. TaskState(t, period[t])' = TaskState(t, period[t])
  BY <1>1 DEF TaskState
<1>6. ASSUME TaskState(t, period[t]) = "missing"
      PROVE  Spent(t, mem[t])' = Spent(t, disk[t])
  <2>1. Spent(t, mem[t])' = Spent(t, mem'[t])
    BY <1>1 DEF Spent
  <2>2. mem'[t] \in {disk[t], Scanned(t, disk[t], period[t])}
    BY DEF BeginCycle
  <2>. QED
    BY <1>3, <1>6, <2>1, <2>2, SpentScanned
<1>7. OnRecord(t)'
  BY <1>1, <1>2, <1>3, <1>5, <1>6 DEF Budgeted, OnRecord
<1>8. WithinCap(t)' /\ NewPeriodUnused(t)' /\ InHand(t)' /\ Unready(t)'
  BY <1>1, <1>2, <1>3, <1>4 DEF Budgeted, WithinCap, NewPeriodUnused, InHand, Unready
<1>. QED
  BY <1>7, <1>8 DEF Budgeted

\* /retry pays for what it lets the failed tasks forget.
LEMMA BeginRetryBudget ==
    ASSUME IInv, IInv', BudgetInv, BeginRetry, NEW t \in Tasks
    PROVE  Budgeted(t)'
<1> DEFINE failed == {u \in Tasks : /\ disk[u].status \in {"failed", "blocked"}
                                    /\ SamePeriod(disk[u], period[u])}
<1>1. /\ proc.phase = "idle" /\ proc' = Begun
      /\ UNCHANGED <<period, content, product, ready, tries>>
      /\ resets' = [u \in Tasks |-> IF u \in failed THEN resets[u] + 1 ELSE resets[u]]
      /\ t \notin failed => mem'[t] = disk[t]
  BY DEF BeginRetry, env, log
<1> HIDE DEF failed
<1>2. proc'.phase = "work" /\ proc'.target = period
  BY <1>1 DEF Begun
<1>3. resets \in [Tasks -> Nat]
  BY DEF BudgetInv, CountersOK
<1>4. CountersOK'
  <2>1. \A u \in Tasks : (IF u \in failed THEN resets[u] + 1 ELSE resets[u]) \in Nat
    BY <1>3
  <2>. QED
    BY <1>1, <2>1 DEF CountersOK
<1>5. NewPeriodUnused(t)' /\ ToRun(t) = 0 /\ ToRun(t)' = 0 /\ ~AtHand(t)'
  BY <1>1, <1>2 DEF NewPeriodUnused, ToRun, AtHand
<1>6. CASE t \in failed
  <2>1. resets'[t] = resets[t] + 1
    BY <1>1, <1>6
  <2>2. tries[t] + 0 <= Cap(t)'
    BY <1>4, <2>1, CapGrows, BudgetNumbers DEF BudgetInv, Budgeted, WithinCap
  <2>. QED
    BY <1>1, <1>4, <1>5, <2>1, <2>2, Refilled
<1>7. CASE t \notin failed
  <2>1. Budgeted(t) /\ Cap(t)' = Cap(t)
    BY <1>1, <1>7 DEF BudgetInv, Cap
  <2>2. TaskState(t, period[t])' = TaskState(t, period[t])
    BY <1>1 DEF TaskState
  <2>3. Spent(t, mem[t])' = Spent(t, disk[t])
    BY <1>1, <1>7 DEF Spent
  <2>4. OnRecord(t)'
    BY <1>1, <1>2, <2>1, <2>2, <2>3 DEF Budgeted, OnRecord
  <2>5. WithinCap(t)' /\ InHand(t)' /\ Unready(t)'
    BY <1>1, <1>5, <2>1 DEF Budgeted, WithinCap, InHand, Unready
  <2>. QED
    BY <1>5, <2>4, <2>5 DEF Budgeted
<1>. QED
  BY <1>6, <1>7

\* So does what a crash or an exception makes the unsaved tasks forget,
LEMMA AbortBudget ==
    ASSUME IInv, IInv', BudgetInv, Abort, NEW t \in Tasks
    PROVE  Budgeted(t)'
<1>1. /\ proc.phase # "idle" /\ proc'.phase = "idle"
      /\ resets' = [u \in Tasks |-> IF u \in Unsaved THEN resets[u] + 1 ELSE resets[u]]
      /\ UNCHANGED <<period, content, product, ready, tries, disk>>
  BY DEF Abort, env, Idle
<1>2. resets \in [Tasks -> Nat]
  BY DEF BudgetInv, CountersOK
<1>3. CountersOK'
  <2>1. \A u \in Tasks : (IF u \in Unsaved THEN resets[u] + 1 ELSE resets[u]) \in Nat
    BY <1>2
  <2>. QED
    BY <1>1, <2>1 DEF CountersOK
<1>4. NewPeriodUnused(t)' /\ ToRun(t)' = 0 /\ ~AtHand(t)'
  BY <1>1 DEF NewPeriodUnused, ToRun, AtHand
<1>5. CASE t \in Unsaved
  <2>1. resets'[t] = resets[t] + 1
    BY <1>1, <1>5
  <2>2. tries[t] + 0 <= Cap(t)'
    BY <1>3, <2>1, CapGrows, BudgetNumbers DEF BudgetInv, Budgeted, WithinCap
  <2>. QED
    BY <1>1, <1>3, <1>4, <2>1, <2>2, Refilled
<1>6. CASE t \notin Unsaved
  <2>1. mem[t] = disk[t] /\ ~(proc.phase # "work" /\ t = Task)
    BY <1>6 DEF Unsaved
  <2>2. ~AtHand(t) /\ ToRun(t) = 0
    BY <2>1 DEF AtHand, ToRun
  <2>3. Budgeted(t) /\ Cap(t)' = Cap(t)
    BY <1>1, <1>6 DEF BudgetInv, Cap
  <2>4. TaskState(t, period[t])' = TaskState(t, period[t])
    BY <1>1 DEF TaskState
  <2>5. Spent(t, disk[t])' = Spent(t, mem[t])
    BY <1>1, <2>1 DEF Spent
  <2>6. OnRecord(t)'
    BY <1>1, <2>2, <2>3, <2>4, <2>5 DEF Budgeted, OnRecord
  <2>7. WithinCap(t)' /\ InHand(t)' /\ Unready(t)'
    BY <1>1, <1>4, <2>2, <2>3 DEF Budgeted, WithinCap, InHand, Unready
  <2>. QED
    BY <1>4, <2>6, <2>7 DEF Budgeted
<1>. QED
  BY <1>5, <1>6

\* The generation under way fits in, too.
LEMMA RunIncluded ==
    ASSUME IInv, BudgetInv, NEW t \in Tasks
    PROVE  tries[t] + ToRun(t) <= Cap(t) + Limit[t] + 1
<1>1. CASE ToRun(t) = 0
  BY <1>1, BudgetNumbers DEF BudgetInv, Budgeted, WithinCap
<1>2. CASE ToRun(t) # 0
  <2>1. /\ proc.phase = "started" /\ t = Task /\ Target = period[t] /\ ToRun(t) = 1
        /\ proc.todo # <<>> /\ mem[t].status = "running"
    BY <1>2 DEF ToRun, IInv, CycleOK
  <2>2. mem[t].attempts <= Limit[t] /\ mem[t].attempts \in Nat
    BY <2>1, AtWork DEF Fair, Counted, Rec
  <2>3. tries[t] <= Cap(t) + mem[t].attempts
    BY <2>1, <2>2, BudgetNumbers DEF BudgetInv, Budgeted, InHand, AtHand
  <2>. QED
    BY <2>1, <2>2, <2>3, BudgetNumbers DEF BudgetInv
<1>. QED
  BY <1>1, <1>2

\* and the loss of the model; with one that works everything is as it was.
LEMMA SetModelBudget ==
    ASSUME IInv, IInv', BudgetInv, SetModel, NEW t \in Tasks
    PROVE  Budgeted(t)'
<1>1. /\ UNCHANGED <<period, content, product, disk, proc, mem, tries>>
      /\ resets' = [u \in Tasks |-> IF ready THEN resets[u] + 1 ELSE resets[u]]
      /\ ready' = ~ready
  BY DEF SetModel
<1>2. resets \in [Tasks -> Nat]
  BY DEF BudgetInv, CountersOK
<1>3. CountersOK'
  <2>1. \A u \in Tasks : (IF ready THEN resets[u] + 1 ELSE resets[u]) \in Nat
    BY <1>2
  <2>. QED
    BY <1>1, <2>1 DEF CountersOK
<1>4. NewPeriodUnused(t)' /\ ToRun(t)' = ToRun(t)
  BY <1>1 DEF BudgetInv, Budgeted, NewPeriodUnused, ToRun, Task, Target
<1>5. CASE ready
  <2>1. resets'[t] = resets[t] + 1
    BY <1>1, <1>5
  <2>2. Cap(t)' = Cap(t) + Limit[t] + 1
    BY <1>3, <2>1, CapGrows DEF BudgetInv
  <2>3. tries[t] + ToRun(t)' <= Cap(t)'
    BY <1>4, <2>2, RunIncluded
  <2>. QED
    BY <1>1, <1>3, <1>4, <2>1, <2>3, Refilled
<1>6. CASE ~ready
  <2>1. Budgeted(t) /\ Cap(t)' = Cap(t)
    BY <1>1, <1>6 DEF BudgetInv, Cap
  <2>2. TaskState(t, period[t])' = TaskState(t, period[t])
    BY <1>1 DEF TaskState
  <2>3. (AtHand(t)' <=> AtHand(t)) /\ (Target' = Target)
    BY <1>1 DEF AtHand, Task, Target
  <2>4. Spent(t, disk[t])' = Spent(t, disk[t]) /\ Spent(t, mem[t])' = Spent(t, mem[t])
    BY <1>1 DEF Spent
  <2>5. OnRecord(t)'
    BY <1>1, <2>1, <2>2, <2>3, <2>4 DEF Budgeted, OnRecord
  <2>6. WithinCap(t)' /\ InHand(t)' /\ Unready(t)'
    BY <1>1, <1>6, <2>1, <2>3 DEF Budgeted, WithinCap, InHand, Unready
  <2>. QED
    BY <1>4, <2>5, <2>6 DEF Budgeted
<1>. QED
  BY <1>5, <1>6

\* What at most does a task's work for it, or lets time pass.
LEMMA ElsewhereBudget ==
    ASSUME IInv, IInv', BudgetInv, NEW t \in Tasks,
           UNCHANGED <<period, ready, tries>>, resets'[t] = resets[t],
           TaskState(t, period[t])' = "missing" => TaskState(t, period[t]) = "missing",
           proc'.phase = proc.phase, proc'.todo = proc.todo, proc'.target = proc.target,
           Spent(t, disk[t])' = Spent(t, disk[t]), Spent(t, mem[t])' = Spent(t, mem[t]),
           mem'[t].attempts = mem[t].attempts
    PROVE  Budgeted(t)'
<1>1. Budgeted(t) /\ Cap(t)' = Cap(t)
  BY DEF BudgetInv, Cap
<1>2. Task' = Task /\ Target' = Target
  BY DEF Task, Target
<1>3. (AtHand(t)' <=> AtHand(t)) /\ ToRun(t)' = ToRun(t)
  BY <1>2 DEF AtHand, ToRun
<1>6. OnRecord(t)'
  BY <1>1, <1>3 DEF Budgeted, OnRecord
<1>7. WithinCap(t)' /\ NewPeriodUnused(t)'
  BY <1>1 DEF Budgeted, WithinCap, NewPeriodUnused
<1>8. InHand(t)'
  BY <1>1, <1>2, <1>3 DEF Budgeted, InHand
<1>9. Unready(t)'
  BY <1>1, <1>3 DEF Budgeted, Unready
<1>. QED
  BY <1>6, <1>7, <1>8, <1>9 DEF Budgeted

\* A change of a task's files is paid for; the other tasks' do not change.
LEMMA ChangeBudget ==
    ASSUME IInv, IInv', BudgetInv, NEW u \in Tasks, NEW k \in Periods,
           Arrive(u, k) \/ Purge(u, k), NEW t \in Tasks
    PROVE  Budgeted(t)'
<1>1. /\ UNCHANGED <<period, ready, disk, proc, mem, tries>>
      /\ resets' = [resets EXCEPT ![u] = @ + 1]
  BY ChangedFiles DEF Overtake
<1>2. resets \in [Tasks -> Nat] /\ CountersOK'
  BY <1>1 DEF BudgetInv, CountersOK
<1>3. CASE t = u
  <2>1. resets'[t] = resets[t] + 1
    BY <1>1, <1>2, <1>3
  <2>2. Cap(t)' = Cap(t) + Limit[t] + 1
    BY <1>2, <2>1, CapGrows DEF BudgetInv
  <2>3. NewPeriodUnused(t)' /\ ToRun(t)' = ToRun(t)
    BY <1>1 DEF BudgetInv, Budgeted, NewPeriodUnused, ToRun, Task, Target
  <2>4. tries[t] + ToRun(t)' <= Cap(t)'
    BY <2>2, <2>3, RunIncluded
  <2>. QED
    BY <1>1, <1>2, <2>1, <2>3, <2>4, Refilled
<1>4. CASE t # u
  <2>1. resets'[t] = resets[t]
    BY <1>1, <1>2, <1>4
  <2>2. content'[t] = content[t] /\ product'[t] = product[t]
    BY <1>4, ChangedFiles
  <2>3. TaskState(t, period[t])' = TaskState(t, period[t])
    BY <1>1, <2>2 DEF TaskState
  <2>4. Spent(t, disk[t])' = Spent(t, disk[t]) /\ Spent(t, mem[t])' = Spent(t, mem[t])
    BY <1>1 DEF Spent
  <2>. QED
    BY <1>1, <2>1, <2>3, <2>4, ElsewhereBudget
<1>. QED
  BY <1>3, <1>4

\* A new period starts with its whole budget.
LEMMA RollBudget ==
    ASSUME IInv, IInv', BudgetInv, NEW u \in Tasks, Roll(u), NEW t \in Tasks
    PROVE  Budgeted(t)'
<1>1. /\ UNCHANGED <<content, product, ready, disk, mem, proc>>
      /\ period' = [period EXCEPT ![u] = @ + 1]
      /\ tries' = [tries EXCEPT ![u] = 0] /\ resets' = [resets EXCEPT ![u] = 0]
  BY DEF Roll
<1>2. /\ period \in [Tasks -> Periods] /\ tries \in [Tasks -> Nat]
      /\ resets \in [Tasks -> Nat] /\ CountersOK'
  BY <1>1 DEF IInv, FilesOK, Files, Book, BudgetInv, CountersOK
<1>3. CASE t = u
  <2>1. tries'[t] = 0
    BY <1>1, <1>2, <1>3
  <2>2. ToRun(t)' = 0
    <3>1. CASE proc.phase = "started" /\ t = Task
      <4>1. proc.todo # <<>> /\ Target \in Periods /\ Target <= period[t]
        BY <3>1, AtWork DEF IInv, CycleOK
      <4>2. period'[t] = period[t] + 1 /\ period[t] \in Int /\ Target \in Int
        BY <1>1, <1>2, <1>3, <4>1, PeriodsAreInts
      <4>3. Target # period'[t] /\ Target' = Target
        BY <1>1, <4>1, <4>2 DEF Target, Task
      <4>. QED
        BY <4>3 DEF ToRun
    <3>2. CASE ~(proc.phase = "started" /\ t = Task)
      BY <1>1, <3>2 DEF ToRun, Task
    <3>. QED BY <3>1, <3>2
  <2>. QED
    BY <1>2, <2>1, <2>2, Untouched
<1>4. CASE t # u
  <2>1. period'[t] = period[t] /\ tries'[t] = tries[t] /\ resets'[t] = resets[t]
    BY <1>1, <1>2, <1>4
  <2>2. Budgeted(t) /\ Cap(t)' = Cap(t)
    BY <1>1, <2>1 DEF BudgetInv, Cap
  <2>3. Task' = Task /\ Target' = Target
    BY <1>1 DEF Task, Target
  <2>4. (AtHand(t)' <=> AtHand(t)) /\ ToRun(t)' = ToRun(t)
    BY <1>1, <2>1, <2>3 DEF AtHand, ToRun
  <2>5. /\ TaskState(t, period[t])' = TaskState(t, period[t])
        /\ Spent(t, disk[t])' = Spent(t, disk[t]) /\ Spent(t, mem[t])' = Spent(t, mem[t])
    BY <1>1, <2>1 DEF TaskState, Spent
  <2>6. OnRecord(t)'
    BY <1>1, <2>1, <2>2, <2>4, <2>5 DEF Budgeted, OnRecord
  <2>7. WithinCap(t)' /\ NewPeriodUnused(t)'
    BY <1>1, <2>1, <2>2 DEF Budgeted, WithinCap, NewPeriodUnused
  <2>8. InHand(t)' /\ Unready(t)'
    BY <1>1, <2>1, <2>2, <2>3, <2>4 DEF Budgeted, InHand, Unready
  <2>. QED
    BY <2>6, <2>7, <2>8 DEF Budgeted
<1>. QED
  BY <1>3, <1>4

LEMMA TickBudget ==
    ASSUME IInv, IInv', BudgetInv, Tick, NEW t \in Tasks
    PROVE  Budgeted(t)'
<1>1. UNCHANGED <<period, content, product, ready, tries, resets>>
  BY DEF Tick, env, log
<1>2. proc'.phase = proc.phase /\ proc'.todo = proc.todo /\ proc'.target = proc.target
  BY DEF Tick, IInv, CycleOK
<1>3. disk[t] \in Rec /\ mem[t] \in Rec
  BY DEF IInv, FilesOK, AllFair
<1>4. /\ disk'[t] = [disk[t] EXCEPT !.wait = Left(@)]
      /\ mem'[t] = [mem[t] EXCEPT !.wait = Left(@)]
  BY DEF Tick, Later
<1>5. /\ Spent(t, disk[t])' = Spent(t, disk[t]) /\ Spent(t, mem[t])' = Spent(t, mem[t])
      /\ mem'[t].attempts = mem[t].attempts
  BY <1>1, <1>3, <1>4 DEF Spent, Rec
<1>6. TaskState(t, period[t])' = TaskState(t, period[t])
  BY <1>1 DEF TaskState
<1>. QED
  BY <1>1, <1>2, <1>5, <1>6, ElsewhereBudget

\* Every step keeps every task within its budget.
LEMMA NextBudget == IInv /\ BudgetInv /\ [Next]_vars => BudgetInv'
<1>. SUFFICES ASSUME IInv, BudgetInv, [Next]_vars PROVE BudgetInv'
  OBVIOUS
<1>1. IInv'
  BY NextIInv
<1>2. CountersOK'
  <2>1. resets \in [Tasks -> Nat]
    BY DEF BudgetInv, CountersOK
  <2>2. CASE UNCHANGED resets
    BY <2>1, <2>2 DEF CountersOK
  <2>3. CASE BeginRetry \/ Abort \/ SetModel
    <3>1. \E S \in SUBSET Tasks :
              resets' = [u \in Tasks |-> IF u \in S THEN resets[u] + 1 ELSE resets[u]]
      <4>1. Unsaved \in SUBSET Tasks
        BY DEF Unsaved
      <4>2. {u \in Tasks : /\ disk[u].status \in {"failed", "blocked"}
                           /\ SamePeriod(disk[u], period[u])} \in SUBSET Tasks
        OBVIOUS
      <4>3. \A u \in Tasks : u \in (IF ready THEN Tasks ELSE {}) <=> ready
        OBVIOUS
      <4>4. CASE SetModel
        <5>1. resets' = [u \in Tasks |-> IF u \in (IF ready THEN Tasks ELSE {})
                                           THEN resets[u] + 1 ELSE resets[u]]
          BY <4>4 DEF SetModel
        <5>. QED
          BY <5>1
      <4>. QED
        BY <2>3, <4>1, <4>2, <4>4 DEF BeginRetry, Abort
    <3>2. PICK S \in SUBSET Tasks :
              resets' = [u \in Tasks |-> IF u \in S THEN resets[u] + 1 ELSE resets[u]]
      BY <3>1
    <3>3. \A u \in Tasks : (IF u \in S THEN resets[u] + 1 ELSE resets[u]) \in Nat
      BY <2>1
    <3>. QED
      BY <3>2, <3>3 DEF CountersOK
  <2>4. ASSUME NEW u \in Tasks, Roll(u) PROVE CountersOK'
    BY <2>1, <2>4 DEF Roll, CountersOK
  <2>5. CASE Busy
    BY <2>1, <2>5 DEF Busy, Count, CountersOK
  <2>6. ASSUME NEW u \in Tasks, NEW k \in Periods, Arrive(u, k) \/ Purge(u, k)
        PROVE  CountersOK'
    <3>1. resets' = [resets EXCEPT ![u] = @ + 1]
      BY <2>6, ChangedFiles DEF Overtake
    <3>2. resets[u] + 1 \in Nat
      BY <2>1
    <3>. QED
      BY <2>1, <3>1, <3>2 DEF CountersOK
  <2>. QED
    BY <2>2, <2>3, <2>4, <2>5, <2>6
       DEF Next, BeginCycle, Work, Skip, StartTask, Generate, Succeed, Fail, EndCycle,
           ManualStart, ManualEnd, Tick, vars, log
<1>3. SUFFICES ASSUME NEW t \in Tasks PROVE Budgeted(t)'
  BY <1>2 DEF BudgetInv
<1>4. CASE BeginCycle \/ BeginRetry
  BY <1>1, <1>4, BeginCycleBudget, BeginRetryBudget
<1>5. CASE Work
  BY <1>1, <1>5, SkipBudget, StartTaskBudget, BusyBudget, GenerateBudget, SucceedBudget,
     FailBudget, EndCycleBudget DEF Work
<1>6. CASE Abort \/ SetModel
  BY <1>1, <1>6, AbortBudget, SetModelBudget
<1>7. CASE ManualStart \/ ManualEnd \/ UNCHANGED vars
  <2>1. UNCHANGED <<period, content, ready, tries, resets, disk, mem, proc>>
    BY <1>7 DEF ManualStart, ManualEnd, vars, env, log
  <2>2. TaskState(t, period[t])' = "missing" => TaskState(t, period[t]) = "missing"
    <3>1. \A k \in Periods : product[t][k] => product'[t][k]
      BY <1>7, ManualEndGrows DEF ManualStart, vars, env
    <3>2. period[t] \in Periods
      BY DEF IInv, FilesOK, Files, Book
    <3>. QED
      BY <2>1, <3>1, <3>2 DEF TaskState
  <2>3. Spent(t, disk[t])' = Spent(t, disk[t]) /\ Spent(t, mem[t])' = Spent(t, mem[t])
    BY <2>1 DEF Spent
  <2>. QED
    BY <1>1, <2>1, <2>2, <2>3, ElsewhereBudget
<1>8. CASE Tick
  BY <1>1, <1>8, TickBudget
<1>9. CASE \E u \in Tasks : Roll(u)
  BY <1>1, <1>9, RollBudget
<1>10. CASE \E u \in Tasks, k \in Periods : Arrive(u, k) \/ Purge(u, k)
  BY <1>1, <1>10, ChangeBudget
<1>. QED
  BY <1>4, <1>5, <1>6, <1>7, <1>8, <1>9, <1>10 DEF Next

LEMMA InitBudget == Init => BudgetInv
<1>. SUFFICES ASSUME Init PROVE BudgetInv
  OBVIOUS
<1>1. IInv /\ CountersOK
  BY InitIInv DEF Init, CountersOK
<1>2. \A t \in Tasks : tries[t] = 0 /\ ToRun(t) = 0
  BY DEF Init, Idle, ToRun
<1>3. ASSUME NEW t \in Tasks PROVE Budgeted(t)
  BY <1>1, <1>2, BudgetNumbers
     DEF Budgeted, WithinCap, NewPeriodUnused, OnRecord, InHand, Unready, AtHand, Init, Idle
<1>. QED
  BY <1>1, <1>3 DEF BudgetInv

\* The budget's invariant gives the bound.
LEMMA BudgetBounds == BudgetInv => RetryBudget
<1>. SUFFICES ASSUME BudgetInv, NEW t \in Tasks
              PROVE  tries[t] <= (Limit[t] + 1) * (1 + resets[t])
  BY DEF RetryBudget
<1>1. Limit[t] + 1 \in Nat /\ resets[t] \in Nat /\ 1 + resets[t] = resets[t] + 1
  BY DEF BudgetInv, CountersOK
<1>2. \A a, b \in Nat : a * (b + 1) = a * b + a
  OBVIOUS
<1>3. (Limit[t] + 1) * (1 + resets[t]) = Cap(t) + (Limit[t] + 1)
  BY <1>1, <1>2 DEF Cap
<1>4. \A a, b \in Nat : a * b \in Nat
  OBVIOUS
<1>5. Cap(t) \in Nat /\ Limit[t] \in Nat
  BY <1>1, <1>4 DEF Cap
<1>6. tries[t] <= Cap(t) + Limit[t] + 1
  BY DEF BudgetInv, Budgeted, WithinCap
<1>. QED
  BY <1>3, <1>5, <1>6

\* Generations are bounded: limit + 1 from the start of a period, and again
\* after each event that sets the task's attempts back: /retry, a busy report
\* lock, a record lost before it was saved, a model that does not work, a change
\* of the diary.  No other crash, midnight inside a cycle, stale record or report
\* by hand buys one more.  (A generation may call the model several times.)
THEOREM BudgetHolds == Spec => []RetryBudget
  BY BudgetBounds, InitBudget, NextBudget, AlwaysIInv, PTL DEF Spec
=============================================================================
