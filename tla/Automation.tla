----------------------------- MODULE Automation -----------------------------
(***************************************************************************)
(* The automatic AI tasks of the hub (server/ai/analysis/automation.py):   *)
(* the daily summary and the weekly and monthly reports are looked for,    *)
(* generated, retried after failures and given up, by a thread that wakes  *)
(* every minute, by the user's /retry, next to a report the user generates *)
(* from another process.  What survives a crash is the state file and the  *)
(* products themselves.                                                    *)
(*                                                                         *)
(* Time is counted in ticks; a stored date is the ticks left until it.     *)
(***************************************************************************)
EXTENDS Integers, Sequences

CONSTANTS
    Order,          \* _AUTOMATION_TASKS, those switched on
    Reports,        \* the tasks that generate under .report.lock
    LastPeriod,     \* target periods are 0 .. LastPeriod
    Limit,          \* retry limit of each task
    DetectEvery, RetryAfter, StaleAfter,    \* in ticks: 15, 30, 10 minutes
    MaxFaults,      \* bound on crashes, exceptions, model switches and
                    \* changes of the diary of finished periods
    MaxManual,      \* bound on reports generated by hand
    MaxAsked        \* bound on /retry

Tasks   == {Order[i] : i \in DOMAIN Order}
Periods == 0 .. LastPeriod
NoPeriod == -1

ASSUME TasksAssumption == /\ Order \in Seq(Tasks)
                          /\ \A i, j \in DOMAIN Order : Order[i] = Order[j] => i = j
                          /\ Reports \subseteq Tasks
ASSUME LimitAssumption == Limit \in [Tasks -> Nat]
ASSUME TimesAssumption == /\ LastPeriod \in Nat
                          /\ DetectEvery \in Nat /\ RetryAfter \in Nat
                          /\ StaleAfter \in 0 .. RetryAfter
ASSUME BoundsAssumption == MaxFaults \in Nat /\ MaxManual \in Nat /\ MaxAsked \in Nat

VARIABLES
    period,     \* the period each task is for, by the wall clock
    content,    \* are there diary records in a period?
    product,    \* is its summary or report written?
    ready,      \* is the model usable?
    disk,       \* .automation-state.json
    detect,     \* ticks until the next detection is due
    proc,       \* whoever holds .automation.lock
    mem,        \* the state that thread has loaded
    overtaken,  \* the records whose period's diary or product somebody else
                \* changed after they were made: on file, loaded
    manual,     \* the report being generated by hand, which holds .report.lock
    tries,      \* generations run for the current period
    resets,     \* events that set attempts to 0 in the current period
    faults, manuals, asked

env  == <<period, content, product, ready>>
log  == <<tries, resets>>
vars == <<env, disk, detect, proc, mem, overtaken, manual, log, faults, manuals, asked>>

Statuses == {"none", "ok", "empty", "pending", "running", "failed",
             "blocked", "unconfigured"}
NoRecord == [status |-> "none", attempts |-> 0, period |-> NoPeriod, wait |-> 0]
Idle == [phase |-> "idle", todo |-> <<>>, target |-> [t \in Tasks |-> 0],
         ripe |-> {}, age |-> 0]

Init ==
    /\ period = [t \in Tasks |-> 0]
    /\ content \in [Tasks -> [Periods -> BOOLEAN]]
    /\ product = [t \in Tasks |-> [k \in Periods |-> FALSE]]
    /\ ready \in BOOLEAN
    /\ disk = [t \in Tasks |-> NoRecord]
    /\ detect = 0
    /\ proc = Idle
    /\ mem = [t \in Tasks |-> NoRecord]
    /\ overtaken = [file |-> {}, loaded |-> {}]
    /\ manual = NoPeriod
    /\ tries = [t \in Tasks |-> 0]
    /\ resets = [t \in Tasks |-> 0]
    /\ faults = 0 /\ manuals = 0 /\ asked = 0

(* ---------------------------- task records ------------------------------ *)

\* _mark_ok, _mark_empty, _mark_unconfigured and the updates to "pending".
Marked(status, k) == [status |-> status, attempts |-> 0, period |-> k, wait |-> 0]

\* Dates are counted from the start of the cycle, not from the event.
FromStart(ticks) == IF ticks > proc.age THEN ticks - proc.age ELSE 0

\* Bugs: the limit is not looked at, and is never reached.
NoLimit(t, r, k) ==
    [status |-> "failed", attempts |-> r.attempts + 1, period |-> k,
     wait |-> FromStart(RetryAfter)]
NeverBlocked(t, r, k) ==
    [status |-> "failed", attempts |-> IF r.attempts < Limit[t] THEN r.attempts + 1 ELSE r.attempts,
     period |-> k, wait |-> FromStart(RetryAfter)]
\* _mark_failure: the limit counts retries, the first execution is extra.
MarkedFailed(t, r, k) ==
    IF r.attempts + 1 > Limit[t]
      THEN [status |-> "blocked", attempts |-> r.attempts + 1, period |-> k, wait |-> 0]
      ELSE [status |-> "failed", attempts |-> r.attempts + 1, period |-> k,
            wait |-> FromStart(RetryAfter)]

\* A bug: the record of whatever period is carried on.
AnyPeriod(r, k) == TRUE
\* _same_period
SamePeriod(r, k) == r.period \in {NoPeriod, k}

\* A bug: a period without records counts as done.
DoneOrMissing(t, k) == IF product[t][k] \/ ~content[t][k] THEN "done" ELSE "missing"
\* _task_state looks at the files only.
TaskState(t, k) == IF ~content[t][k] THEN "empty"
                   ELSE IF product[t][k] THEN "done" ELSE "missing"

\* _scan_missing: a missing product becomes due unless it is being retried.
Scanned(t, r, k) ==
    LET kept == IF SamePeriod(r, k) THEN r ELSE NoRecord
    IN  IF TaskState(t, k) = "done" THEN Marked("ok", k)
        ELSE IF TaskState(t, k) = "empty" THEN Marked("empty", k)
        ELSE IF kept.status \in {"none", "ok", "empty"} THEN Marked("pending", k)
        ELSE kept

\* A bug: an interrupted run is waited for.
NeverStale(t, r) == FALSE
\* _is_stale_running, by the time the cycle started.
Stale(t, r) == r.status = "running" /\ t \in proc.ripe
\* _process_due first drops another period's record and an interrupted run.
Refreshed(t, r, k) ==
    IF ~SamePeriod(r, k) \/ Stale(t, r) THEN Marked("pending", k) ELSE r

RetryDue(t, r) == r.status = "pending" \/ (r.status = "failed" /\ t \in proc.ripe)
\* Is there something to generate, and is it time?
Due(t, r) == r.status = "unconfigured" \/ RetryDue(t, r)

(* ------------------------------- a cycle -------------------------------- *)

Ripe == {t \in Tasks : disk[t].wait = 0}
Begun == [phase |-> "work", todo |-> Order, target |-> period, ripe |-> Ripe, age |-> 0]

\* run_due_automatic_tasks up to _process_due: load, scan if due, save.
BeginCycle ==
    /\ proc.phase = "idle"
    /\ proc' = Begun
    /\ IF detect = 0
         THEN /\ mem' = [t \in Tasks |-> Scanned(t, disk[t], period[t])]
              /\ disk' = mem'
              /\ detect' = DetectEvery
              /\ overtaken' = [file |-> {}, loaded |-> {}]
         ELSE /\ mem' = disk
              /\ overtaken' = [overtaken EXCEPT !.loaded = overtaken.file]
              /\ UNCHANGED <<disk, detect>>
    /\ UNCHANGED <<env, manual, log, faults, manuals, asked>>

\* retry_failed_automatic_tasks: this period's failed tasks start afresh.
BeginRetry ==
    LET failed == {t \in Tasks : /\ disk[t].status \in {"failed", "blocked"}
                                 /\ SamePeriod(disk[t], period[t])}
    IN  /\ asked < MaxAsked
        /\ proc.phase = "idle"
        /\ failed # {}
        /\ asked' = asked + 1
        /\ proc' = Begun
        /\ mem' = [t \in Tasks |-> IF t \in failed THEN Marked("pending", period[t])
                                                   ELSE disk[t]]
        /\ overtaken' = [overtaken EXCEPT !.loaded = overtaken.file]
        /\ resets' = [t \in Tasks |-> IF t \in failed THEN resets[t] + 1 ELSE resets[t]]
        /\ UNCHANGED <<env, disk, detect, manual, tries, faults, manuals>>

Next1 == [proc EXCEPT !.phase = "work", !.todo = Tail(@)]
Task == Head(proc.todo)
Target == proc.target[Task]
\* The record is made anew, from the files as they are.
Renewed == [overtaken EXCEPT !.loaded = @ \ {Task}]

\* A task that is not generated in this cycle.
Skip ==
    LET r == Refreshed(Task, mem[Task], Target)
        s == TaskState(Task, Target)
        Put(q) == mem' = [mem EXCEPT ![Task] = q]
    IN  /\ proc.phase = "work" /\ proc.todo # <<>>
        /\ overtaken' = IF s = "missing" THEN overtaken ELSE Renewed
        /\ \/ s = "done"  /\ Put(Marked("ok", Target))
           \/ s = "empty" /\ Put(Marked("empty", Target))
           \/ /\ s = "missing" /\ r.status \in {"ok", "blocked", "running"}
              /\ Put(r)
           \/ /\ s = "missing" /\ r.status \notin {"ok", "blocked", "running"}
              /\ ~ready
              /\ Put(Marked("unconfigured", Target))
           \/ /\ s = "missing" /\ r.status \notin {"ok", "blocked", "running"}
              /\ ready /\ ~Due(Task, r)
              /\ Put(r)
        /\ proc' = Next1
        /\ UNCHANGED <<env, disk, detect, manual, log, faults, manuals, asked>>

\* The rest is generated; "running" is saved before.
StartTask ==
    LET r == Refreshed(Task, mem[Task], Target)
    IN  /\ proc.phase = "work" /\ proc.todo # <<>>
        /\ TaskState(Task, Target) = "missing"
        /\ r.status \notin {"ok", "blocked", "running"}
        /\ ready
        /\ Due(Task, r)
        /\ mem' = [mem EXCEPT ![Task] = [r EXCEPT !.status = "running",
                                                  !.wait = FromStart(StaleAfter)]]
        /\ disk' = mem'
        /\ overtaken' = [overtaken EXCEPT !.file = overtaken.loaded]
        /\ proc' = [proc EXCEPT !.phase = "started"]
        /\ UNCHANGED <<env, detect, manual, log, faults, manuals, asked>>

Count(f) == [f EXCEPT ![Task] = @ + 1]

\* generate_analysis_report finds .report.lock taken: not counted a failure.
Busy ==
    /\ proc.phase = "started"
    /\ Task \in Reports /\ manual # NoPeriod
    /\ mem' = [mem EXCEPT ![Task] = Marked("pending", @.period)]
    /\ resets' = IF Target = period[Task] /\ mem[Task].attempts > 0
                    THEN Count(resets) ELSE resets
    /\ proc' = Next1
    /\ UNCHANGED <<env, disk, detect, overtaken, manual, tries, faults, manuals, asked>>

Generate ==
    /\ proc.phase = "started"
    /\ Task \notin Reports \/ manual = NoPeriod
    /\ tries' = IF Target = period[Task] THEN Count(tries) ELSE tries
    /\ proc' = [proc EXCEPT !.phase = "generating"]
    /\ UNCHANGED <<env, disk, detect, mem, overtaken, manual, resets, faults, manuals, asked>>

\* The product is written, the record still only in memory.
Succeed ==
    /\ proc.phase = "generating"
    /\ product' = [product EXCEPT ![Task][Target] = TRUE]
    /\ mem' = [mem EXCEPT ![Task] = Marked("ok", Target)]
    /\ overtaken' = Renewed
    /\ proc' = Next1
    /\ UNCHANGED <<period, content, ready, disk, detect, manual, log, faults, manuals, asked>>

Fail ==
    /\ proc.phase = "generating"
    /\ mem' = [mem EXCEPT ![Task] = MarkedFailed(Task, @, Target)]
    /\ proc' = Next1
    /\ UNCHANGED <<env, disk, detect, overtaken, manual, log, faults, manuals, asked>>

EndCycle ==
    /\ proc.phase = "work" /\ proc.todo = <<>>
    /\ disk' = mem
    /\ overtaken' = [file |-> overtaken.loaded, loaded |-> {}]
    /\ proc' = Idle
    /\ mem' = [t \in Tasks |-> NoRecord]
    /\ UNCHANGED <<env, detect, manual, log, faults, manuals, asked>>

(* --------------------------- the environment ---------------------------- *)

\* What the file does not know of, the attempts of a run under way included.
Unsaved == {t \in Tasks : mem[t] # disk[t] \/ (proc.phase # "work" /\ t = Task)}

\* The hub dies, or an exception ends the cycle: what was not saved is gone.
Abort ==
    /\ proc.phase # "idle"
    /\ faults < MaxFaults
    /\ faults' = faults + 1
    /\ proc' = Idle
    /\ mem' = [t \in Tasks |-> NoRecord]
    /\ overtaken' = [overtaken EXCEPT !.loaded = {}]
    /\ resets' = [t \in Tasks |-> IF t \in Unsaved THEN resets[t] + 1 ELSE resets[t]]
    /\ UNCHANGED <<env, disk, detect, manual, tries, manuals, asked>>

\* The model is switched to one that works, or to one that does not, for
\* which no attempt is remembered.
SetModel ==
    /\ faults < MaxFaults
    /\ faults' = faults + 1
    /\ ready' = ~ready
    /\ resets' = [t \in Tasks |-> IF ready THEN resets[t] + 1 ELSE resets[t]]
    /\ UNCHANGED <<period, content, product, disk, detect, proc, mem, overtaken,
                   manual, tries, manuals, asked>>

\* Somebody else changes the diary, or the product, of a finished period.
Overtake(t, k) ==
    /\ <<content, product>>' # <<content, product>>
    /\ faults < MaxFaults
    /\ k <= period[t]
    /\ faults' = faults + 1
    /\ resets' = [resets EXCEPT ![t] = @ + 1]
    /\ overtaken' = [file   |-> overtaken.file \cup {u \in {t} : disk[u].period = k},
                     loaded |-> overtaken.loaded \cup {u \in {t} : mem[u].period = k}]
    /\ UNCHANGED <<period, ready, disk, detect, proc, mem, manual, tries, manuals, asked>>

\* "main.py import" brings a file, a day's own summary or none with it; a
\* request that began before midnight brings a file without one.
Arrive(t, k) ==
    /\ content' = [content EXCEPT ![t][k] = TRUE]
    /\ \/ UNCHANGED product
       \/ t \notin Reports /\ \E b \in BOOLEAN : product' = [product EXCEPT ![t][k] = b]
    /\ Overtake(t, k)

\* _purge_empty_placeholder_days, when the hub starts: the summary of a day
\* goes with its file, a report stays.
Purge(t, k) ==
    /\ proc.phase = "idle"
    /\ content[t][k]
    /\ content' = [content EXCEPT ![t][k] = FALSE]
    /\ product' = IF t \in Reports THEN product ELSE [product EXCEPT ![t][k] = FALSE]
    /\ Overtake(t, k)

\* "python -m server.main report", in a process of its own.
ManualStart ==
    /\ manuals < MaxManual
    /\ manual = NoPeriod
    /\ ~(proc.phase = "generating" /\ Task \in Reports)
    /\ manuals' = manuals + 1
    /\ manual' \in Periods
    /\ UNCHANGED <<env, disk, detect, proc, mem, overtaken, log, faults, asked>>

ManualEnd ==
    /\ manual # NoPeriod
    /\ \/ \E t \in Reports : content[t][manual]
             /\ product' = [product EXCEPT ![t][manual] = TRUE]
       \/ UNCHANGED product
    /\ manual' = NoPeriod
    /\ UNCHANGED <<period, content, ready, disk, detect, proc, mem, overtaken,
                   log, faults, manuals, asked>>

Left(n) == IF n > 0 THEN n - 1 ELSE 0
Later(state) == [t \in Tasks |-> [state[t] EXCEPT !.wait = Left(@)]]

Tick ==
    /\ disk' = Later(disk)
    /\ mem' = Later(mem)
    /\ detect' = Left(detect)
    /\ proc' = IF proc.phase = "idle" \/ proc.age = RetryAfter THEN proc
                 ELSE [proc EXCEPT !.age = @ + 1]
    /\ UNCHANGED <<env, overtaken, manual, log, faults, manuals, asked>>

\* Midnight: yesterday, or last week, or last month, is another period.
Roll(t) ==
    /\ period[t] < LastPeriod
    /\ period' = [period EXCEPT ![t] = @ + 1]
    /\ tries' = [tries EXCEPT ![t] = 0]
    /\ resets' = [resets EXCEPT ![t] = 0]
    /\ UNCHANGED <<content, product, ready, disk, detect, proc, mem, overtaken,
                   manual, faults, manuals, asked>>

(* ----------------------------- specification ---------------------------- *)

Work == \/ Skip \/ StartTask \/ Busy \/ Generate \/ Succeed \/ Fail \/ EndCycle

Next ==
    \/ BeginCycle \/ BeginRetry \/ Work
    \/ Abort \/ SetModel \/ ManualStart \/ ManualEnd \/ Tick
    \/ \E t \in Tasks, k \in Periods : Arrive(t, k) \/ Purge(t, k)
    \/ \E t \in Tasks : Roll(t)

Spec == Init /\ [][Next]_vars

\* The daemon thread loops, model calls return, time passes.
Fairness == /\ WF_vars(BeginCycle) /\ WF_vars(Work)
            /\ WF_vars(ManualEnd) /\ WF_vars(Tick)
FairSpec == Spec /\ Fairness

(* ------------------------------ properties ------------------------------ *)

\* The state file and the products stay in their types.
TypeOK ==
    /\ period \in [Tasks -> Periods]
    /\ product \in [Tasks -> [Periods -> BOOLEAN]]
    /\ \A t \in Tasks :
         /\ disk[t].status \in Statuses
         /\ disk[t].attempts \in 0 .. Limit[t] + 1
         /\ disk[t].period \in Periods \cup {NoPeriod}
         /\ disk[t].wait \in 0 .. RetryAfter
    /\ detect \in 0 .. DetectEvery

\* "Strictly by the files": what the state file calls done has its product,
\* what it calls empty has no records, also for a cycle that midnight, a crash
\* or a change of the diary cut in two.  A record may only be wrong when
\* somebody changed the files after it was made, until the next detection.
StatusIsHonest ==
    \A t \in Tasks \ overtaken.file :
        /\ disk[t].status = "ok" => product[t][disk[t].period]
        /\ disk[t].status = "empty" => ~content[t][disk[t].period]

\* A failure on file is a generation that ran for this very period: crashes
\* may forget attempts but invent none, and no period inherits another's.
AttemptsAreReal ==
    \A t \in Tasks : disk[t].period = period[t] =>
        /\ disk[t].attempts <= tries[t]
        /\ disk[t].status = "blocked" => tries[t] > Limit[t]

\* Generations are bounded: limit + 1 from the start of a period and after
\* each event that sets the task's attempts back: /retry for a failed task,
\* a busy report lock, attempts lost with an unsaved record or with the model,
\* a change of the diary.
RetryBudget ==
    \A t \in Tasks : tries[t] <= (Limit[t] + 1) * (1 + resets[t])

\* No task is forgotten: a missing product of the current period is in the
\* end written or given up, unless the period passes, its diary vanishes or the
\* model is unusable, whatever was interrupted in between.
Attended ==
    \A t \in Tasks, k \in Periods :
        (period[t] = k /\ TaskState(t, k) = "missing") ~>
            \/ TaskState(t, k) # "missing"
            \/ disk[t] = [status |-> "blocked", attempts |-> Limit[t] + 1,
                          period |-> k, wait |-> 0]
            \/ period[t] # k
            \/ ~ready
=============================================================================
