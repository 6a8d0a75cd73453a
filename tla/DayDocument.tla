----------------------------- MODULE DayDocument -----------------------------
(***************************************************************************)
(* The file of one day on the hub and everybody who writes it: requests    *)
(* that began before midnight (store.py), the automatic summary of the     *)
(* finished day (orchestrator.summarize_diary, ai/journal.py), the purge   *)
(* of empty files when the hub starts, and "main.py import", a process of  *)
(* its own.  Requests and the summary write under Records/.journal.lock;   *)
(* the summary is generated from a text read minutes before, without it.   *)
(***************************************************************************)
EXTENDS DayFile, Integers

CONSTANTS Handlers,     \* threads of the hub that serve a push
          Batches,      \* the sets of records a request carries
          Imports,      \* the files somebody may import
          MaxAnswers,   \* daily_summary_retry_limit + 1, the model calls of a run
          MaxRuns,      \* failed runs until the task is blocked
          UnlockedRace, \* does an import fall between a read and a write or unlink?
          ReadFails     \* does a read of the file fail for a moment?

\* A file: its blocks, its <summary> region (absent, the default text, a
\* summary written here, a text that came with an import), and the records
\* the summary written here was made of.
File == [exists : BOOLEAN, entries : SUBSET UNION Batches, tombs : SUBSET IdsOf(UNION Batches),
         head : {"absent", "default", "summary", "foreign"}, of : SUBSET UNION Batches]
Missing == [exists |-> FALSE, entries |-> {}, tombs |-> {}, head |-> "default", of |-> {}]

ASSUME DayDocumentAssumption ==
    /\ \A f \in Imports : f \in File /\ f.exists /\ f.head # "summary"
    /\ MaxAnswers \in Nat \ {0} /\ MaxRuns \in Nat \ {0}
    /\ UnlockedRace \in BOOLEAN /\ ReadFails \in BOOLEAN

VARIABLES age,     \* the days since: today, yesterday, before that
          file,    \* Records/<day>.md
          up,      \* does the hub run?
          purge,   \* is it starting, about to remove the file?
          pc,      \* where each handler stands
          job,     \* the request it serves
          view,    \* the file it read
          auto,    \* where the summary stands
          seen,    \* the file the summary is made from
          asks,    \* model calls of this run
          failed   \* failed runs

hub  == <<up, purge, pc, job, view>>
task == <<auto, seen, asks, failed>>
vars == <<age, file, hub, task>>

past == age > 0

NoJob == [do |-> "nothing", records |-> {}]

Init == /\ age = 0
        /\ file \in Imports \cup {Missing}
        /\ up = TRUE /\ purge = FALSE
        /\ pc = [h \in Handlers |-> "idle"]
        /\ job = [h \in Handlers |-> NoJob]
        /\ view = [h \in Handlers |-> Missing]
        /\ auto = "idle" /\ seen = Missing /\ asks = 0 /\ failed = 0

\* .journal.lock
Held == auto = "writing" \/ \E h \in Handlers : pc[h] # "idle"

(* ------------------------- requests (store.py) -------------------------- *)

\* append_entries or apply_deletes, dated this day and let in on this day:
\* the lock is taken, the file read; one that cannot be read is taken as empty.
Read(h) ==
    /\ up /\ ~past
    /\ pc[h] = "idle" /\ ~Held
    /\ pc' = [pc EXCEPT ![h] = "merge"]
    /\ \E d \in {"append", "delete"}, B \in Batches :
         job' = [job EXCEPT ![h] = [do |-> d, records |-> B]]
    /\ \/ view' = [view EXCEPT ![h] = file]
       \/ ReadFails /\ view' = [view EXCEPT ![h] = Missing]
    /\ UNCHANGED <<age, file, up, purge, task>>

Leave(h) == /\ pc' = [pc EXCEPT ![h] = "idle"]
            /\ job' = [job EXCEPT ![h] = NoJob]
            /\ view' = [view EXCEPT ![h] = Missing]

\* _today_path() is this day's file; or midnight is past and the blocks go
\* elsewhere.
Path(h) ==
    /\ pc[h] = "merge"
    /\ \/ ~past /\ pc' = [pc EXCEPT ![h] = "write"] /\ UNCHANGED <<job, view>>
       \/ past /\ Leave(h)
    /\ UNCHANGED <<age, file, up, purge, task>>

\* The merge: the header stays as it was read.
Merge(f, j) == [IF j.do = "append" THEN WithEntries(f, j.records)
                                   ELSE WithDeletes(f, j.records) EXCEPT !.exists = TRUE]

\* os.replace, maybe after midnight by then; the lock is released.
Write(h) ==
    /\ pc[h] = "write"
    /\ file' = Merge(view[h], job[h])
    /\ Leave(h)
    /\ UNCHANGED <<age, up, purge, task>>

(* ------------------ the summary (ai/journal.py and so on) --------------- *)

Idle == /\ auto' = "idle" /\ seen' = Missing /\ asks' = 0
GiveUp == Idle /\ failed' = failed + 1

\* _task_state: the file is there and its summary is not.
Missed == file.exists /\ file.head \in {"absent", "default"}

\* The target is yesterday; the day before is never looked at again.
Due == /\ up /\ age = 1 /\ auto = "idle" /\ failed < MaxRuns
       /\ Missed
       /\ auto' = "due"
       /\ UNCHANGED <<age, file, hub, seen, asks, failed>>

\* summarize_diary reads the file; no lock.
Look == /\ auto = "due"
        /\ IF file.exists
           THEN auto' = "asking" /\ seen' = file /\ UNCHANGED <<asks, failed>>
           ELSE GiveUp
        /\ UNCHANGED <<age, file, hub>>

\* A bug: a text that does not pass is asked for again, ever again.
AnswerUntilValid ==
    /\ auto = "asking"
    /\ \/ auto' = "answered" /\ UNCHANGED <<seen, asks, failed>>
       \/ UNCHANGED <<auto, seen, failed>> /\ asks' = 1 - asks
       \/ GiveUp
    /\ UNCHANGED <<age, file, hub>>
\* call_ai: a text, or an error of whatever kind (the endpoint, its status,
\* a text cut off, filtered or missing).
Replies == {"text", "error"}
\* _normalize_daily_summary: a text may pass, nothing else does.
Passes(r) == IF r = "text" THEN BOOLEAN ELSE {FALSE}

\* One model call; a text that does not pass is asked for again, up to the limit.
Answer == /\ auto = "asking"
          /\ \E r \in Replies : \E passes \in Passes(r) :
               CASE passes -> auto' = "answered" /\ UNCHANGED <<seen, asks, failed>>
                 [] ~passes /\ r = "text" /\ asks + 1 < MaxAnswers ->
                      asks' = asks + 1 /\ UNCHANGED <<auto, seen, failed>>
                 [] OTHER -> GiveUp
          /\ UNCHANGED <<age, file, hub>>

\* A bug: the hash is not looked at.
AnyHash == file.exists /\ file.head # "absent"
Summarisable == file.exists /\ file = seen /\ file.head # "absent"

\* update_summary_for_date: lock, read, compare the hash, find the region.
Lock == /\ auto = "answered" /\ ~Held
        /\ IF Summarisable
           THEN /\ auto' = "writing"
                /\ seen' = [file EXCEPT !.of = seen.entries]
                /\ UNCHANGED <<asks, failed>>
           ELSE GiveUp
        /\ UNCHANGED <<age, file, hub>>

\* os.replace of the text read under the lock, the summary put in.
Put == /\ auto = "writing"
       /\ file' = [seen EXCEPT !.head = "summary"]
       /\ Idle
       /\ UNCHANGED <<age, hub, failed>>

(* ----------------------------- the rest --------------------------------- *)

\* "main.py import" replaces the file whoever holds the lock, and whatever
\* the purge is about to do.
Import(f) == /\ UnlockedRace \/ ~(Held \/ purge)
             /\ file' = f
             /\ UNCHANGED <<age, hub, task>>

Midnight == /\ age < 2 /\ age' = age + 1
            /\ UNCHANGED <<file, hub, task>>

Stop == /\ (up \/ purge)
        /\ up' = FALSE /\ purge' = FALSE
        /\ pc' = [h \in Handlers |-> "idle"]
        /\ job' = [h \in Handlers |-> NoJob]
        /\ view' = [h \in Handlers |-> Missing]
        /\ Idle
        /\ UNCHANGED <<age, file, failed>>

\* A bug: a day whose records are all deleted counts as empty.
NoEntries(f) == f.entries = {}
\* _purge_empty_placeholder_days: no entry and no tombstone left a mark.
NoBlocks(f) == f.entries = {} /\ f.tombs = {}

\* _command_run: the purge reads the file and takes no lock,
Start == /\ ~up /\ ~purge
         /\ IF file.exists /\ NoBlocks(file)
              THEN purge' = TRUE /\ UNCHANGED up
              ELSE up' = TRUE /\ UNCHANGED purge
         /\ UNCHANGED <<age, file, pc, job, view, task>>

\* removes it if it found nothing in it; then comes the server.
Unlink == /\ purge /\ purge' = FALSE
          /\ file' = Missing
          /\ up' = TRUE
          /\ UNCHANGED <<age, pc, job, view, task>>

Summary == Due \/ Look \/ Answer \/ Lock \/ Put

Next == \/ \E h \in Handlers : Read(h) \/ Path(h) \/ Write(h)
        \/ Summary
        \/ \E f \in Imports : Import(f)
        \/ Midnight \/ Stop \/ Start \/ Unlink

Spec == Init /\ [][Next]_vars

\* Threads that can go on do, the model answers in the end, the hub is
\* started again.
Fairness == /\ \A h \in Handlers : WF_vars(Path(h) \/ Write(h))
            /\ WF_vars(Summary) /\ WF_vars(Start \/ Unlink)
FairSpec == Spec /\ Fairness
-----------------------------------------------------------------------------
TypeOK == /\ age \in 0 .. 2 /\ up \in BOOLEAN /\ purge \in BOOLEAN
          /\ file \in File
          /\ pc \in [Handlers -> {"idle", "merge", "write"}]
          /\ job \in [Handlers -> [do : {"append", "delete"}, records : Batches] \cup {NoJob}]
          /\ view \in [Handlers -> File]
          /\ auto \in {"idle", "due", "asking", "answered", "writing"}
          /\ seen \in File
          /\ asks \in 0 .. MaxAnswers - 1
          /\ failed \in 0 .. MaxRuns

\* A summary tells of the records that stand under it, all and only those:
\* no request that was late, no midnight, crash or import leaves an outdated
\* one (ai/journal.py:51-54).
SummaryIsOfTheDay == file.head = "summary" => file.of = file.entries

\* Requests, summary, purge and import each act on the file in one instant:
\* none undoes what another wrote meanwhile (store.py:128, one lock for all).
Book == INSTANCE DayBook
ImplementsDayBook == Book!Spec

\* Yesterday gets its summary, or its failed runs reach the limit, or midnight
\* comes and the chance is gone (automation.py:113-117), unless the hub is
\* stopped or the day imported for ever.
SummarisedOrGivenUp ==
    <>[][~Stop /\ \A f \in Imports : ~Import(f)]_vars =>
        [](age = 1 => <>(~Missed \/ failed = MaxRuns \/ age = 2))
=============================================================================
