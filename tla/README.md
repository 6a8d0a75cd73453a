# MyRecord in TLA+

MyRecord is a diary that several devices write and one server, the hub, keeps.
Every day is one Markdown file, `Records/<date>.md`; only today's file (UTC+8)
may be written, on a device or on the hub; records are added or deleted, never
edited. At night the hub has an AI model write a summary of the day and weekly
and monthly reports.

This directory holds TLA+ modules translated from the Python source, the TLC
configurations that model-check them, and TLAPS proofs, in eight modules of
their own, about six of them. `PROJECT.json` maps each definition to the lines it stands for, lists
the hazards of the code with the properties aimed at them, and names for every
property a plausible bug (an operator marked "A bug" in the module, never used
by the specification) that makes the property fail.

    tlc -workers 4 -config HubStoreRace.cfg MCHubStore     # one run
    tlapm DiarySyncProofs.tla                              # the proofs of a module

## 1. The system

| component | state | operations | what is hard |
|---|---|---|---|
| hub store (`server/hub/store.py`) | day files, `trash.md`, credentials | `append_entries`, `apply_deletes`, `today_state`, `wait_for_change` | handler threads and two locks; the clock is read three times per write and the file replaced after the last; two files per delete; process crash |
| sync handlers (`server/hub/server.py`) | none of their own | push, pull, longpoll, records list and files, reports, status, retry, model | a push whose entries are refused may still delete |
| client sync engine (`client/sync.py`) | `outbox.json`, `state.json` (token) | enqueue, `send_pending`, `full_sync`, `longpoll`, `sync_history_files`, `sync_reports` | three threads; requests outside the outbox lock; lost requests and answers; midnight; finished days that change between list and download |
| report files on the client (`client/sync.py:518-575`) | `AnalysisReports/` | list, download, clean-up | reports are generated again between list and download |
| client journal (`client/journal.py`) | local day files and trash | `append_record`, `delete_record`, `apply_delta` | merges old answers into a file the user is writing |
| client command line (`client/cli.py`) | none on disk | write, `/d`, receive loop, start-up | crash between the file and the outbox |
| client file lock and atomic write (`client/file_lock.py`, `atomic_write.py`) | the lock's inode | lock, replace, append | a lock belongs to an inode, `os.replace` gives the path another |
| hub file lock and atomic write (`server/file_lock.py`, `atomic_write.py`) | lock files | lock, replace | several processes; a lock that may fail to come |
| automatic tasks (`server/ai/analysis/automation.py`) | `.automation-state.json` | detection, due tasks, `/retry`, purge of empty files | crash in the middle of a run, periods that roll over, a diary that changes under a record, retry limits, a lock shared with another process |
| summaries and reports (`orchestrator.py`, `context.py`, `server/ai/journal.py`) | reports, the `<summary>` of a day file | generate, update summary | minutes between reading and writing |
| backup (`server/hub/backup.py`, `server/deploy/backup.sh`) | date of the last one, snapshots | run when seven days have passed, rotate | child process, crash before the date is saved, failed snapshots among the whole ones |
| hub process (`server/main.py`) | none on disk | `run`, the minute loop, `import`, `report` | two jobs on one thread; `import` is another process without the lock |
| authentication (`server/hub/auth.py`, `server.py:61-89`, `client/trust.py`, `client/identity.py`) | one credential, failures per address, pinned certificate | verify, lock out, pin | concurrent failures |
| configuration, AI client, terminal editor, deployment commands | configuration files | load, call, edit a line | no concurrency of their own, except two model switches at once |

How they interact: the input thread writes today's local file and then the
outbox, and signals the push thread. The push thread and full synchronisation
exclude each other by `_sync_lock`; the receive loop's long poll does not take
it. A device talks to the hub by push, pull and long poll (entry by entry, for
today) and by a list of hashes with whole-file downloads (for other days, the
trash file and the reports). The hub serves each request on a thread; writers
hold `.journal.lock` and `Store._lock`. One more hub thread runs, every minute,
a cycle of the automatic tasks and then the backup if it is due. Its daily
summary and the requests write the same day files under `.journal.lock`; its
reports and those of a command in another process exclude each other by
`.report.lock`.

What makes each part correct:

* store: one block per id, tombstones for ever, a finished day closed but for
  the one write that was under way at midnight, what was acknowledged is on disk in the file of its day, deleted bodies are kept, a
  long poll never says "nothing new" wrongly;
* synchronisation: no record or deletion is forgotten between input and hub,
  whatever is lost or late; a deleted record does not come back; synchronising
  history never touches today; reports never fall back; devices converge;
* local files: every change takes effect whole and at one instant, whichever
  thread or process dies;
* a day file on the hub: requests, summary, purge and import do not undo each
  other; a summary is of exactly the records that stand under it;
* automatic tasks: the state file tells the truth about the products, but for
  what somebody changed since the record was made; attempts are counted truly and bounded, no task is forgotten for ever;
* backup: the date on file vouches for a whole snapshot, failed ones never push
  the last whole one out, backups go on whatever the tasks do.

## 2. Modules

| module | models | composition |
|---|---|---|
| `DayLog` | what the hub promises: one log per day; only the current one changes, by adding records and tombstones, the day before's by the one write of before midnight, a finished one by an import | abstract specification of `HubStore` and of the hub in `DiarySync` |
| `HubStore` | store and sync handlers, a step per point where another thread, midnight or a crash can intervene | implements `DayLog` (`ImplementsDayLog`) |
| `DayFile` | pure operators on the blocks of one day file: append, delete, merge, trash | used by `DiarySync`, `DayDocument`, `DayBook`, `MCLockedFile` |
| `DiarySync` | devices, their threads and files, the network, the hub with each locked section of a handler as one step, or two when midnight falls into it, and the reports | extends `DayFile`; implements `DayLog` (`HubIsDayLog`) |
| `AtomicFile` | what a file lock promises: changes that happen at one instant | abstract specification of `LockedFile` |
| `LockedFile` | the client's `file_lock` and `atomic_write`, per inode | implements `AtomicFile` |
| `DayBook` | what the hub promises about one day file with its summary | abstract specification of `DayDocument` |
| `DayDocument` | one day file on the hub and everybody who writes it | extends `DayFile`; implements `DayBook` |
| `Automation` | the automatic AI tasks and their state file | |
| `Backup` | snapshots, rotation and the date of the last backup | |
| `HubJobs` | the hub's background thread | composes `Automation` (EXTENDS) and `Backup` (INSTANCE) |
| `HubStoreProofs`, `DiarySyncProofs`, `LockedFileProofs`, `DayDocumentProofs`, `AutomationProofs` | theorems (section 4) | each extends its module and `TLAPS` |
| `HubStoreAnswers`, `DiarySyncDelivery` | more theorems: what the hub's answers promise, and that what devices hand over arrives | extend `HubStoreProofs` and `DiarySyncProofs` |
| `HubJobsProofs` | theorems about the backup and about the tasks beside it | extends `HubJobs` and `AutomationProofs` |
| `MCHubStore`, `MCDiarySync`, `MCLockedFile`, `MCDayDocument`, `MCAutomation`, `MCHubJobs` | constants for TLC | |

**HubStore.** A worker is a handler thread, `pc` its place. `Accept` takes a
request up; `AppendCheck` / `AppendRead` / `AppendTarget` / `AppendWrite` are
`append_entries`: date check before the locks; read under them; the path asked
of the clock again (`store.py:291`) and kept in `path`; that file replaced after
the sort and the temporary file (`145-148`), when midnight may be past.
`DeleteCheck` / `DeleteRead` / `DeleteTarget` / `DeleteWrite` / `WriteTrash` are
`apply_deletes`, whose two files are written one after the other; `Label` /
`State` are `today_state`; `Poll` / `Wake` the two halves of `wait_for_change`
(a spurious, timed-out or notified return of `Condition.wait` looks the same);
`Finish` sends the answer. `lock` stands for both locks: writers take both,
readers of the state only the inner one, and no writer holds the inner one
without the outer. `view` is what the thread parsed. The token is a hash of the
file; the model uses the blocks themselves, that is, takes the hash to be
injective. Block order, labels, devices and the summary header are data no
property of this module distinguishes (the summary is in `DayDocument`).

**DiarySync.** `WriteRecord` and `DeleteLatest` change the local file at once
and leave the id in `input`; `Enqueue` puts it in the outbox: between the two
every other thread may run. `sync` is the thread that holds `_sync_lock`, in a
phase of `send_pending`, `reconcile`, `sync_history_files` or `sync_reports`;
`full` tells a full synchronisation from a flush. `loop` is the receive loop. A
request in `net` is sent, then served, then merged. The hub serves a push section
by section (`ServePush`: `append_entries`, then `apply_deletes`; `at` says which
is next), then answers with the state of the day (`AnswerPush`). Each section
reads the clock anew. Midnight falls between sections, or into one whose date
check and path are behind it (`HubMidnight` puts the old day in the push's
`path`): that section still writes the day it began on, and holds the locks until
then (`LocksFree`). The hub changes finished days too: by such a write, by the
summary (`Summarise`) and by an import (`Import`). `LoseSync` loses a request
or an answer: a push lost at any point may stay in `ghosts`, whose remaining
sections may be served at any later time, or end there. `LosePoll`, `LoseList`, `LoseReports`, `SkipFile`, `SkipReport`
and `CrashClient` are the other failures the code handles. An entry's id is a
number that grows, its milliseconds. `since` is a history variable: the contents
each hub file has had while a device works through its list.

Reports: `reports` is the version of each on the hub, `copies` on a device, 0
for no file; `mirror` is the list a device works through. `ListReports`,
`FetchReport` and `PruneReports` are `sync_reports`, run at the end of a full
synchronisation or by the receive loop; `GenerateReport` may put a newer version
at any moment, so a download may bring another version than the list named.

**LockedFile.** A thread asks for a change (`Ask`), opens the lock file, waits
in `flock`, reads, writes and releases. `inode` is what the lock's path names and
`fd` what the thread has open: `Acquire` excludes only holders of the same
inode. With `LockBeside` the lock is `Records/.journal.lock`, which nobody
replaces; otherwise it is the file itself, as for `outbox.json` and `state.json`,
and a `Write` gives the path a new inode. `Dies` ends all threads of a process
at any step. `os.replace` is one step and leaves the old content or the new one.

**DayDocument.** A file is its blocks, its tombstones, the kind of its
`<summary>` region and, as history, the records the summary was made of.
`Read` / `Path` / `Write` is a request that was let in before midnight and may
write after it; `Due` / `Look` / `Answer` / `Lock` / `Put` is the automatic
summary, whose target is yesterday: `age` says how old the day is, and after one
more midnight it is never due again. The summary reads without the lock, asks the model up to `MaxAnswers` times
and compares the file with what it read under the lock; `Import` is `main.py
import`; `Stop`, `Start` and `Unlink` are the hub process with its purge of empty
files, which reads a file first and removes it after, without the lock.
The `Lock` guard compares whole files where the code compares a hash of the
text.

**Automation.** One action per step between two saves of the state file:
`BeginCycle` (load, scan if due, save), `Skip` or `StartTask` for each task in
order ("running" is saved first), `Busy` / `Generate` / `Succeed` / `Fail`,
`EndCycle` (save). `mem` is the loaded state, lost by `Abort`: a crash, or an
exception that ends the cycle. Dates on file are kept as ticks left until they
are due, so that time needs no counter; `proc.age` accounts for code that counts
from the start of the cycle. The files a record is made from change under it:
`Arrive` is an import or a write of before midnight that lands late, `Purge` the
purge at start. `tries`, `resets` and `overtaken` are history variables:
generations of the current period, events that set a task's attempts back, and
the tasks whose record on file (or loaded) is older than such a change.
Which day, week or month a task is for is a number per task; each may roll over
on its own (`Roll`), which allows more than the calendar does.

**Backup and HubJobs.** `shots` holds the snapshot files, newest first, and
whether each is whole. `StartTar` opens a new file, `FinishTar` completes it and
rotates, `TarFails` leaves it, `SaveDate` is the line after it in `backup.py`,
which saves the time the job *began*. `HubJobs` adds `turn`, the place of the
background thread: tasks, then backup, then tasks again, where an exception in a
cycle hands the turn on and a restart begins with the tasks.

## 3. Runs

Passing runs (distinct states as found on the bounds in the `.cfg`):

| run | question | states |
|---|---|---|
| `HubStoreRace` | Two threads, midnight and crashes between any two steps: is the diary still the log of `DayLog`? Does a long poll ever miss a change? | 1.12 M |
| `HubStoreDay` | Two threads, batches that mix days, duplicates, deletes with another body than the file's: is everything acknowledged on disk in its file, and every deleted body kept? | 0.31 M |
| `SyncDay` | Two devices, two records, one day, all interleavings of all threads, no loss: is anything forgotten, revived or dropped too early, does a token run ahead of the data? | 1.69 M |
| `SyncLoss` | A message or list is lost, or served late after its sender gave up: do the devices converge? | 0.27 M |
| `SyncMidnight` | The day changes under requests, and finished days are summarised, imported or written late between list and download: is today protected, and does a device end with every finished day as the hub had it since the list? | 2.45 M |
| `SyncSkew` | The device's clock is up to a day off, the client may die, the hub makes reports anew: do deletions last, does a device ever fall back to an older report or miss a listed one, and is the hub, with imports, late pushes and its own midnight, still a `DayLog`? | 2.34 M |
| `JournalLock` | Three threads of two processes change one file under the lock beside it and die anywhere: is every change atomic, is the lock ever stuck? | 22 k |
| `DayDocument` | Late requests, the summary, the purge at start and imports on one day file: does the summary tell of the records under it, does anybody undo another's write, is the day summarised or given up while it is yesterday? | 25 k |
| `Automation` | Two tasks, two periods, a crash, a model switch or a change of the diary, a report by hand, a `/retry`: does the state file tell the truth, and is the work bounded? | 9.39 M |
| `HubJobs` | Tasks and backup on one thread, each failing, dying or holding the other up: does the date vouch for a snapshot, is there again and again a backup, is every missing product written or given up? | 0.67 M |

Runs that fail, each on one sentence of the repository (`findings` in
`PROJECT.json` quote it):

| run | property | what happens |
|---|---|---|
| `LostDelete` | `DeletesKeptUntilStored` | The entry is in flight, the user deletes it, the delete is queued, the entry's acknowledgement clears the id from *both* queues (`client/sync.py:356-359`): the hub never hears of the delete. |
| `MidnightWipe` | `TodayIsProtected` | `sync_history_files` took `today` before midnight and cleans up after it: the new day's file is neither "today" nor on the hub's list and is unlinked. |

### Bounds

* Hub: two threads suffice for every pairwise race of the locked sections; a
  third could only wait. Three ids: two of day 0, one of day 1, so that a batch
  can mix days; two bodies, so that a collision of one id is visible; two days.
  The requests are listed in `MCHubStore`: an id from two devices, a batch over
  two days, a delete with another body, an entry and its own delete together,
  long polls with a stale and a current token.
* Devices: two, one that writes and one that hears of it and may delete; two
  records, so that an answer can be older than a write; two days in
  `SyncMidnight`. `SyncSkew` has one device, because what it asks is about one
  device's clock against the hub's; one report in two versions, so that a
  download can bring a newer one than was listed. Who deletes what (`Deletable`)
  is both devices and all records, but q alone in `SyncMidnight` and all but p's
  first record in `SyncDay`, where p still deletes what it wrote with another
  record in the queue. An import (`Imports`, in `SyncMidnight` and `SyncSkew`) is
  an older copy of the day with its first record alone. At most one fault in
  `SyncLoss` and `SyncSkew` (`MaxFaults`): each kind of loss is retried the same
  way however often it happens.
* Lock: the input and poll threads of one process and a thread of a second one;
  changes that append, delete, and merge an answer with and without tombstones;
  every content of two ids as the initial file. `MaxInode` is 0, for a lock
  beside the file is never replaced; it bounds replacements of the lock when
  `LockBeside` is FALSE.
* Day file: two handlers, three batches that overlap in a record, three imports
  (a file of an older program without a region, an empty placeholder, a file
  with a summary of its own), two answers per run and two runs, so that both
  the repeated question and the last run happen.
* Automation: the intervals of 15, 30 and 10 minutes become 1 or 2, 2 or 3, and
  1 ticks, in an order that keeps "stale before retry". A limit of 0 for one task
  and 1 for the other covers the first failure blocking and the second.
  `MaxFaults`, `MaxManual` and `MaxAsked` bound crashes, model switches and
  changes of the diary, reports by hand and `/retry`. `HubJobs` has one
  task, the weekly report with a limit of 1, for the tasks of a cycle run one
  after the other (`Automation` has two), a backup every two ticks and one
  snapshot kept, so that a failed one is enough to rotate the whole one out if
  the rotation were wrong.

### Switches

A known disagreement would end every run that meets it. Constants keep the step
that leads to it apart, so that the other properties are still checked:

| constant | TRUE in | what FALSE leaves out |
|---|---|---|
| `MidnightRace` | `HubStoreRace` | midnight between a handler's date check and the path it asks for (midnight elsewhere stays, also between the path and the write) |
| `MayCrash` | `HubStoreRace` | a crash of the hub |
| `DeleteInFlight` | `LostDelete` | queueing a delete while the same entry's push is unanswered |
| `MidnightInHistory` | `MidnightWipe` | midnight between reading `today` and the end of the clean-up |
| `Crashes` | `SyncSkew` | the death of a client |
| `ReportFails` | no run | a report the hub cannot read for a moment |
| `UnlockedRace` | no run | an import between another writer's read and its write, or the purge's read and its unlink |
| `ReadFails` | no run | a day file a handler cannot read for a moment |
| `LockBeside` | `JournalLock` | nothing: FALSE makes the file its own lock |

Section 5 says what breaks with the ones TRUE in no run.

### Fairness

`DiarySync!FairSpec`: weak fairness, per device, of the step that queues an
input, of the thread behind `_sync_lock`, of the receive loop, of the report
round and of the hub's answers, and of late pushes. The code justifies it: both
client threads are `while True` loops that catch every exception, wake at least
every five seconds and time out every request; the hub answers each connection
on its own thread and holds a long poll for at most 25 seconds. Nothing is
assumed of the users, and losses are bounded, which stands for "the network is up
in the end".

`LockedFile!FairSpec`: a thread that can go on does. Who gets the lock among the
waiting ones is the kernel's choice, so only `SomeoneGetsThrough` is claimed,
not that every thread does.

`DayDocument!FairSpec`: handlers finish, the summary task goes on (a model call
has a timeout and may fail every time), the hub is started again. The property
excuses a hub that is stopped, or a day that is imported, for ever, and a midnight
that comes first.

`HubJobs!JobsSpec`: the thread runs, a model call and `tar` return, a report by
hand ends, time passes. A generation may fail every time; `tar` may fail
`MaxFaults` times. `Automation!FairSpec` states the same for the tasks alone.

## 4. Proofs

All theorems hold for every value of the constants that meets the assumptions
the modules name (days are `0 .. LastDay`, every id has a date, requests carry
an id at most once, sentinels differ from the values they stand next to); TLC
evaluates those assumptions in the runs.

**HubStoreProofs** (any ids, bodies, threads, requests, days, switches):
`TypeCorrect`, `InvCorrect`, `BlocksUnique`, `StoreImplementsDayLog`,
`NoResurrection`, `PastFrozen`. `OneBlockPerId` is not inductive: a thread that
writes what it parsed earlier could write anything. `IInv` adds what makes the
write safe: whoever is past its read holds both locks (`MergerHoldsLock`), so the
blocks it parsed are still those of the file it will replace, *or* midnight came
between read and path and that file is new and empty (`ViewIsSound`, which needs
`FutureIsEmpty`). The file it will replace may be yesterday's: `PastIsFrozen` and
`DayLog` allow a finished day that one write, whose path is older than midnight
(`Late`), and nothing after it. Then `AppendMerge` and `DeleteMerge` show of each of the two writes that it is a
step of `DayLog`, `MidnightKeeps` the same of midnight, and every other action
leaves the files alone (`QuietKeepsMerge`). As one handler holds the locks at a
time, at most one write is late (`OneWriterLate`). The action properties follow
from the shape of a `DayLog` step.

**HubStoreAnswers** (the same instances), what a device may rely on:

* `NothingNewIsCurrent` (`EmptyDeltaIsCurrent`) and `ErasedIsKept`
  (`ErasedBodyIsKept`) need no condition. The first follows one long poll
  (`PollInv`): it goes from its wait to its answer and refuses nothing, so the
  state that comes with its answer is the one it compared.
* `TrashKept` (`TrashHasBody`) without `MayCrash`. A tombstone is written only
  by the handler that holds its body, and the tombstones a handler has parsed
  are buried by then, for the one who buried them had the lock until then
  (`TrashInv`). A crash between the two files really loses the body (section 5).
* `FiledCorrectly` (`FiledUnderItsDay`), `AcceptedStays` (`AcceptedIsStored`)
  and `WritesAreRead` (`ReadYourWrites`) without `MidnightRace`, with which they
  are false (section 5), but with crashes, which no run combines with them. They
  have one invariant, `FiledInv`: what was checked against the date is still of
  the date when it is written (`DateHolds`), what is accepted is in the file
  (`AcceptedOnDisk`), and no id ever leaves a file (`KnownGrows`, from the
  shape of a `DayLog` step).

**LockedFileProofs** (any threads, processes, contents and changes):
`LockedTypes`, `LockIsExclusive`, `ReadStaysFresh` and `FileImplements`, under
`LockBeside`. The invariant says that the lock's path keeps naming one inode and
every thread has that one open (`OneInode`), that one thread is inside
(`Exclusive`), and that what it read is the content (`ViewIsFresh`); a write is
then the instant at which `AtomicFile` makes the change, and a death before it
is `Abort`.

**DayDocumentProofs** (any requests, imports and limits): `DocumentTypes`,
`SummaryIsHonest` and `DocumentImplements`, under `Disciplined`, that is, without
`UnlockedRace` and `ReadFails`. The invariant: one writer inside (`OneInside`),
what it read is the file (`Fresh`), no summary before midnight and no reader of
the file after it (`Order`), no task on a stopped hub (`Running`).
`SummaryIsOfTheDay` follows because after midnight the blocks change only by an
import, which brings its own region, or by a late write, which finds no summary
yet.

**AutomationProofs** (any tasks, limits, periods and intervals):
`AutomationTypes`, `FileIsHonest`, `AttemptsHappened`, `BudgetHolds`. What is said of the state
file must also be said of what a cycle has in memory and will save: every record,
there and here, is counted truly against the generations that ran for the period
it names, which may be past by now (`FilesOK`, `CycleOK`), and says of the files
what is so, unless they were changed under it (`HonestInv`): a task is in
`overtaken` from such a change until its record is made anew, so that
`FileIsHonest` does not excuse a record that was wrong when it was made.
`BudgetHolds` (`RetryBudget`) has a second invariant, `BudgetInv`: what has run
and is not paid for by `resets` is on record, on file between cycles and in
memory within one, while there is still something to do (`OnRecord`, `InHand`), or the
model is unusable and the record says so (`Unready`), and nothing has run for a
period that came while the cycle was under way (`NewPeriodUnused`). The budget is
in generations; a daily one calls the model up to `daily_summary_retry_limit` + 1
times (`orchestrator.py:144-150`, `MaxAnswers` in `DayDocument`).

**HubJobsProofs** (any interval, number of snapshots kept, and tasks):

* `DateVouches` (`DateIsHonest`) and `SnapshotKept` (`SnapshotStays`). The
  invariant `BackupInv` says what the thread knows between two steps of a backup:
  the file `tar` writes is the newest and not whole (`TarWrites`), and when the
  date is to be saved what vouches for it is still there (`SavesWhole`).
* `TasksHonestOnThread` and `TasksBudgetedOnThread`: the guarantees of
  `Automation` carry over to `JobsSpec`. A step of the composition is a step of
  `Automation` or changes at most its count of faults (`JobsAreTasks`), which
  no invariant of `AutomationProofs` looks at (`FaultsDoNotMatter`).

**DiarySyncProofs** (any devices, records, days, skew, losses and crashes):

* `SyncTypes` and `HubKeepsDayLog` without further assumption;
* `DeletedForGood` (`StaysDeleted`) and `TodayKept` (`TodayIsProtected`) under
  `NoHistoryAtMidnight`: with it they are false, run `MidnightWipe`;
* `ReportsKept` (`ReportsNeverLost`) under `AllReadable`.

The invariant follows a file from the hub into every message, list and local
file: all of them are `Clean`, no id both alive and buried (`HubOK`, `LocalOK`,
`LinesOK`, `SyncOK`), so that a merge can never bring back what its own file
buries. `SparesToday` says that a history comparison under way was begun on the
day the device still has. For the reports, `MirrorOK` and `CopiesBehind`: the
hub's version is at least the one listed and at least the copy. For the hub,
`BodiesOK`: an id has one body wherever it is, in files, queues, messages and
late pushes, so that whatever is served late is a `DayLog` write. A section that
midnight fell into is the `late` write of `DayLog`: at most one push has a `path`
of its own (`OneLate`), for it has the locks (`ServedIsLogStep`, `MidnightLog`;
`OwnerLog` for summary and import, `GivesUp` for a hub that stops at it).

**DiarySyncDelivery** (any devices, records, days, reports and losses), on the
invariant of `DiarySyncProofs`:

| theorem | property | holds under |
|---|---|---|
| `ReportsArrive` | `ReportsTaken` | no condition |
| `EntriesLeaveStored` | `EntriesKeptUntilStored` | `ClocksAgree` |
| `DeletesLeaveStored` | `DeletesKeptUntilStored` | `ClocksAgree`, `NoDeleteInFlight` |
| `RecordsNotForgotten` | `NothingForgotten` | `ClocksAgree`, `NoCrashes` |
| `DeletionsNotForgotten` | `DeletionsTravel` | `ClocksAgree`, `NoCrashes`, `NoDeleteInFlight` |
| `TokenHonest` | `TokenIsSound` | `ClocksAgree`, `NoHistoryAtMidnight` |
| `FinishedDaysTaken` | `HistoryTaken` | `ClocksAgree` |

None of the conditions is there for the proof's sake: without it the property
is false, or was never promised. `ClocksAgree` is `Skew = 0`: a device that is
ahead of the hub has its records refused, and one that is behind takes a token
without the blocks (section 5). It still passes midnight, and requests and
answers of the day before are still under way then. `NoCrashes` is `Crashes =
FALSE`: a client that dies between file and outbox forgets (section 5).
`NoDeleteInFlight` and `NoHistoryAtMidnight` exclude what the runs `LostDelete`
and `MidnightWipe` show. Losses, late pushes and any number of days are in all of
them, crashes in all but two; the runs that check these properties have one
fault at most, and most of them none.

An id is followed from the file to the hub. `FlowInv`: an answer on its way is of
a day that has come, holds ids of that day only, and nothing the hub does not
have by now (`AnswersTrue`); every file from today on holds ids of its day
(`HubFiled`, `LocalFiled`; an import may put anything into a finished one), and a
write that midnight fell into is of a day gone by, with its date check behind it
(`LatePast`). `QueueInv`: nothing is queued for a day to come (`QueuesPast`), and
while a push is out it is of one day, and what its sections have accepted is on
the hub or over, what they refused is over (`Exchanged`); of finished days nothing
is claimed, for they may be imported anew. With these an item that leaves the outbox
is on the hub or past. `RecordsHeld` and `TombsHeld` add the moment between file
and outbox, and `NoFuture` the new day, which begins with empty files. For the
token (`TokensHeld`): a file a device has as token, or asks a poll with, or is told
is still current, holds nothing of today that the device does not. For the history
files (`ListTrue`): what was listed is a content the hub had since the list, and
each finished day is such a content on the device, or ahead on the list
(`DayListed`, `Taken`). The content fetched may be later than the one listed: the
theorem says that it is the hub's of some moment since, not that it is the latest.
For the reports (`ListKept`): a copy is as listed, or later, or still to come.

`NoneAssumption` (the `None` of the model is no file, input or list) is needed
wherever "nothing pending" must differ from something pending; in the code
Python's `None` is no dictionary.

Only model-checked:

* liveness (`Converges`, `Attended`, `BackedUp`, `SummarisedOrGivenUp`,
  `SomeoneGetsThrough`): fairness and ENABLED are outside the prover;
* `TrashNeverEmptied`: it is false on more than one day (section 5), when a
  client dies, and for an id with two bodies, so that a theorem would need all
  three as hypotheses and say little more than the run `SyncDay` does.

No module declares a RECURSIVE operator and no proof uses induction over data.

## 5. Known departures without a run

Met while modelling; each can be reproduced by changing one constant or is
outside the models' present scope.

Hub:

* The path is asked of the clock at `store.py:291` and `428`, the file replaced at
  `145-148`: midnight in between changes a day that is over, after its summary may
  have begun. Two runs have it: `HubStoreRace` bounds it to one write,
  `DayDocument` shows that it does not harm the summary.
* The date is checked at `store.py:246`, the path is asked of the clock again at
  `291`: with `MidnightRace = TRUE` in `HubStoreDay`, `FiledUnderItsDay` fails, a
  record of day D is filed under D+1.
* A hub crash between `store.py:428` and `430` loses the deleted body: with
  `MayCrash = TRUE` in `HubStoreDay`, `TrashHasBody` fails.
* A day file the hub cannot read for a moment is taken as empty and rewritten
  (`store.py:123`): with `ReadFails = TRUE`, `ImplementsDayBook` fails.
* `main.py import` replaces a day file without the journal lock (`main.py:226`):
  with `UnlockedRace = TRUE`, `ImplementsDayBook` fails. The purge at start has the
  same gap between `automation.py:157` and `167`. `DiarySync` has no import of the
  day a late write is under way for, nor of today's file.
* In `DiarySync` midnight does not fall between the date check of a section and the
  path it asks for (`store.py:246` to `291`, `370` to `428`): `HubStoreRace` has it.
* A day the hub could not summarise while it was yesterday is never looked at again
  (`automation.py:113-117`, which says so): `SummarisedOrGivenUp` ends with `age = 2`.
* A lock that cannot be taken gives None, and the store goes on without it
  (`store.py:133`); the models always grant it.
* A diary file that is not UTF-8 raises out of `_diary_summary_needs_generation`
  (`automation.py:176`) and ends every cycle for all tasks.
* A report made by hand holds the report lock when the retry of a failed one
  comes: `attempts` goes back to 0 (`automation.py:480`), so the limit that
  `Docs/设计基线.md:485-486` describes starts anew. `RetryBudget` counts this as
  one of the `resets`.
* Partial snapshots of failed backups count among the KEEP newest
  (`deploy/backup.sh`): a success is always kept, older whole ones may go.
  `subprocess.run` at `backup.py:80` has no timeout; a `tar` that hangs holds up
  the tasks too.
* `server/README.md:46-47` says that a long poll returns at once on new
  reports; `wait_for_change` looks at the diary's token only, and a device hears
  of reports when the poll ends.

Device:

* `_apply_delta` saves the token although `apply_delta` skipped the blocks of
  another day (`sync.py:233-234`): with `Skew = 1` and two devices
  `TokenIsSound` fails until the next change.
* A device whose clock is ahead has its records refused as future and drops
  them (`sync.py:350`): with `Skew = 1` `EntriesKeptUntilStored` fails.
* A delete that was never pushed expires at midnight, and the body that was only
  in the device's trash goes when the hub's trash replaces it (`sync.py:486`):
  with two days `TrashNeverEmptied` fails.
* A client that dies between `cli.py:338` and `341` has a record in its file
  that nothing will queue.
* `file_lock` on `outbox.json` and `state.json` locks the very file that
  `os.replace` swaps: with `LockBeside = FALSE`, and a `MaxInode` above 0,
  two threads are past `flock` at once. `DiarySync`
  takes outbox updates as atomic. Without `fcntl` (Windows) there is no lock.
* A report the hub cannot read is missing from its list, and devices delete
  their copy (`sync.py:569`): with `ReportFails = TRUE` `ReportsNeverLost` fails.

## 6. Not modelled

* Formats: parsing of blocks beyond their identity, their order, time labels,
  the line numbers that reports cite (`context.py:103`); models hold sets of
  blocks.
* Credentials, hashing, lock-out, TLS and certificates: requests are
  authenticated.
* Configuration: read once; the model switch is one step of `Automation`, though
  `settings.py:190` reads and rewrites a file.
* The AI client and prompts: a call is a text or an error.
* The terminal editor, which is one thread and the cursor on a screen.
* `token`, `cert` and `deploy`, run once by hand.
* Failing disk reads and writes, except those the switches name and the death
  of a process.

Reasons per component are in `PROJECT.json`.

## 7. Plan

What could follow, in this order:

1. `DiarySync` over `AtomicFile`s: the outbox as a file whose lock may fail, to
   see which of its properties survive `LockBeside = FALSE`.
2. A form of `TrashNeverEmptied` that is true on many days, in terms of what a
   delete that expired still owes, and its proof.
3. The order of blocks as a pure operator, and the citation of line numbers on
   top of it.
4. The configuration file under two model switches.
