------------------------------ MODULE DiarySync -----------------------------
(***************************************************************************)
(* The diary between the hub and its devices: local writes and deletes,    *)
(* the outbox, the push thread, full synchronisation, the long-poll thread *)
(* (client/sync.py, client/journal.py, client/cli.py), over a network that *)
(* loses requests and answers, with clocks that pass midnight; and the     *)
(* copies of the hub's reports that each device keeps.                     *)
(*                                                                         *)
(* The hub is HubStore with each handler's locked section as one step, but *)
(* where midnight falls into it.                                           *)
(***************************************************************************)
EXTENDS DayFile, FiniteSets

CONSTANTS
    Devices,
    Ids,            \* entry ids: millisecond timestamps, numbers
    Texts,          \* what a record may say
    LastDay,
    DateOf,         \* the day of an id's timestamp
    Writable,       \* <<device, record>> pairs the users may write
    Deletable,      \* <<device, id>> pairs the users may delete
    Imports,        \* the files the owner may import for finished days
    Skew,           \* days by which a device's clock may differ from the hub's
    Reports,        \* the reports of the hub, numbered in the order of their names
    MaxVersion,     \* bound on how often a report is generated
    ReportFails,    \* may the hub fail to read a report for a moment?
    MaxFaults,      \* bound on lost messages and client crashes
    Crashes,        \* may a client process die?
    DeleteInFlight, \* may a delete be queued while its entry is being pushed?
    MidnightInHistory, \* may midnight fall while history files are compared?
    None

Days   == 0 .. LastDay
Record == [id : Ids, body : Texts]
File   == [entries : SUBSET Record, tombs : SUBSET Ids, head : {"default", "summary"}]

ASSUME DaysAssumption == LastDay \in Nat
ASSUME IdsAssumption == Ids \subseteq Nat
ASSUME DateAssumption == DateOf \in [Ids -> Days]
ASSUME WritableAssumption == Writable \subseteq Devices \X Record
ASSUME ImportsAssumption ==
    /\ Imports \subseteq File
    /\ \A f \in Imports : \A r, q \in f.entries : /\ r.id \notin f.tombs
                                                  /\ r.id = q.id => r = q
ASSUME ReportsAssumption == Reports \subseteq Nat /\ MaxVersion \in Nat
ASSUME BoundsAssumption == Skew \in Nat /\ MaxFaults \in Nat
\* None is no day, no file, no pending input and no list of reports.
ASSUME NoneAssumption ==
    /\ None \notin Days
    /\ None \notin File
    /\ None \notin [op : {"entry", "delete"}, record : Record]
    /\ None \notin [list : [Reports -> 0 .. MaxVersion], todo : SUBSET Reports]

\* The two connections of a device: one behind _sync_lock, one long poll.
Lines == {"sync", "poll"}

VARIABLES
    today, hub, hubTrash,           \* the hub: date, Records/<d>.md, trash.md
    clock,                          \* each device's date
    local, localTrash,              \* its Records/<d>.md and trash.md
    outEntries, outDeletes,         \* its outbox.json
    tok,                            \* its state.json: last token seen
    input,                          \* its input thread, between file and outbox
    sync,                           \* the thread that holds _sync_lock
    loop,                           \* the receive loop of _sync_loop
    net,                            \* requests and answers on its lines
    reports,                        \* AnalysisReports/ of the hub: the version of each
    copies,                         \* and of the devices; 0 is no file
    mirror,                         \* the list a device works through in sync_reports
    ghosts,                         \* pushes the hub still has though nobody waits
    used,                           \* what the users have written so far
    faults,                         \* losses and crashes so far
    since                           \* history variable: what each hub file has been
                                    \* since a device asked for the list

hubVars == <<today, hub, hubTrash>>
devVars == <<clock, local, localTrash, outEntries, outDeletes, tok, input>>
thrVars == <<sync, loop, net, ghosts>>
repVars == <<reports, copies, mirror>>
sysVars == <<hubVars, devVars, thrVars, repVars, used, faults>>
vars    == <<hubVars, devVars, thrVars, repVars, used, faults, since>>

NoMsg  == [stage |-> "none"]
IdleSync == [phase |-> "idle", full |-> FALSE, answer |-> None]

NothingSeen == [d \in Days |-> {}]

Init ==
    /\ today = 0
    /\ hub = [d \in Days |-> EmptyFile]
    /\ hubTrash = {}
    /\ clock = [v \in Devices |-> 0]
    /\ local = [v \in Devices |-> [d \in Days |-> EmptyFile]]
    /\ localTrash = [v \in Devices |-> {}]
    /\ outEntries = [v \in Devices |-> {}]
    /\ outDeletes = [v \in Devices |-> {}]
    /\ tok = [v \in Devices |-> None]
    /\ input = [v \in Devices |-> None]
    /\ sync = [v \in Devices |-> IdleSync]
    /\ loop = [v \in Devices |-> "unsynced"]
    /\ net = [v \in Devices |-> [c \in Lines |-> NoMsg]]
    /\ reports = [r \in Reports |-> 0]
    /\ copies = [v \in Devices |-> reports]
    /\ mirror = [v \in Devices |-> None]
    /\ ghosts = {}
    /\ used = {}
    /\ faults = 0
    /\ since = [v \in Devices |-> NothingSeen]

(* --------------------------- the input thread --------------------------- *)

\* _write_record and append_record: only today's file, at once.  The id is
\* the millisecond of writing: later than the device's earlier ones, and not
\* one it has heard of.
WriteRecord(v, r) ==
    /\ input[v] = None
    /\ <<v, r>> \in Writable
    /\ \A q \in Record : <<v, q>> \in used => q.id < r.id
    /\ DateOf[r.id] = clock[v]
    /\ r.id \notin Known(local[v][clock[v]])
    /\ used' = used \cup {<<v, r>>}
    /\ local' = [local EXCEPT ![v][clock[v]].entries = @ \cup {r}]
    /\ input' = [input EXCEPT ![v] = [op |-> "entry", record |-> r]]
    /\ UNCHANGED <<hubVars, clock, localTrash, outEntries, outDeletes, tok,
                   thrVars, repVars, faults>>

\* latest_local_entry: the greatest id of today's entries.
Latest(file) == {r \in file.entries : \A q \in file.entries : q.id <= r.id}

\* _handle_delete and delete_record: block out, tombstone in, body to trash.
DeleteLatest(v) ==
    LET file == local[v][clock[v]]
    IN  /\ input[v] = None
        /\ \E r \in Latest(file) :
             /\ <<v, r.id>> \in Deletable
             /\ local' = [local EXCEPT ![v][clock[v]] = WithDeletes(file, {r})]
             /\ localTrash' = [localTrash EXCEPT ![v] = WithTrash(@, {r})]
             /\ input' = [input EXCEPT ![v] = [op |-> "delete", record |-> r]]
        /\ UNCHANGED <<hubVars, clock, outEntries, outDeletes, tok, thrVars,
                       repVars, used, faults>>

\* The entries the push thread has sent and not yet taken off the outbox.
InFlight(v) ==
    LET m == net[v]["sync"]
    IN  CASE m.stage = "sent" /\ m.kind = "push" -> IdsOf(m.entries)
          [] m.stage = "answer" /\ sync[v].phase = "pushing" -> m.accepted
          [] OTHER -> {}

Queued(box, r) == IF r.id \in IdsOf(box) THEN box ELSE box \cup {r}
\* _store_in_outbox drops a record of another day.
QueuedEntries(v, r) == IF DateOf[r.id] = clock[v] THEN Queued(outEntries[v], r)
                                                  ELSE outEntries[v]
\* A bug: deleting what is still queued is taken to need no message.
Cancelled(v, r) == IF r.id \in IdsOf(outEntries[v]) THEN outDeletes[v]
                                                     ELSE Queued(outDeletes[v], r)
QueuedDeletes(v, r) == Queued(outDeletes[v], r)

\* enqueue or enqueue_delete, after the file is written; an id queues once.
Enqueue(v) ==
    /\ input[v] # None
    /\ \/ DeleteInFlight
       \/ input[v].op = "entry"
       \/ input[v].record.id \notin InFlight(v)
    /\ LET r == input[v].record
       IN  CASE input[v].op = "entry" ->
                  /\ outEntries' = [outEntries EXCEPT ![v] = QueuedEntries(v, r)]
                  /\ UNCHANGED outDeletes
             [] input[v].op = "delete" ->
                  /\ outDeletes' = [outDeletes EXCEPT ![v] = QueuedDeletes(v, r)]
                  /\ UNCHANGED outEntries
    /\ input' = [input EXCEPT ![v] = None]
    /\ UNCHANGED <<hubVars, clock, local, localTrash, tok, thrVars, repVars, used, faults>>

(* ----------------- _sync_lock: the push and full sync ------------------- *)

Phase(v, p) == sync' = [sync EXCEPT ![v].phase = p]

AfterPush(full) == IF full THEN "pull" ELSE "idle"

\* A bug: the test for an expired item turned round.
Overdue(v, box) == {r \in box : DateOf[r.id] < clock[v]}
Current(v, box) == {r \in box : DateOf[r.id] = clock[v]}

\* send_pending: drop what is not today's, send the rest outside the lock.
SendPending(v, full) ==
    LET es == Current(v, outEntries[v])
        ds == Current(v, outDeletes[v])
        push == [stage |-> "sent", kind |-> "push", entries |-> es, deletes |-> ds,
                 at |-> IF es = {} THEN "delete" ELSE "append", path |-> None,
                 accepted |-> {}, rejected |-> {}]
    IN  /\ sync[v].phase = "idle"
        /\ outEntries' = [outEntries EXCEPT ![v] = es]
        /\ outDeletes' = [outDeletes EXCEPT ![v] = ds]
        /\ IF es \cup ds = {}
             THEN /\ sync' = [sync EXCEPT ![v].phase = AfterPush(full), ![v].full = full]
                  /\ UNCHANGED net
             ELSE /\ sync' = [sync EXCEPT ![v].phase = "pushing", ![v].full = full]
                  /\ net' = [net EXCEPT ![v]["sync"] = push]
        /\ UNCHANGED <<hubVars, clock, local, localTrash, tok, input, ghosts,
                       repVars, used, faults>>

\* flush_pending_loop, woken by the event or every five seconds.
Flush(v) ==
    /\ outEntries[v] \cup outDeletes[v] # {}
    /\ SendPending(v, FALSE)
    /\ UNCHANGED loop

\* run_full_sync from _sync_loop, at start and after every error.
FullSync(v) ==
    /\ loop[v] = "unsynced"
    /\ SendPending(v, TRUE)
    /\ loop' = [loop EXCEPT ![v] = "syncing"]

\* A bug: a push empties the outbox.
Everything(v) == IdsOf(outEntries[v] \cup outDeletes[v])
\* Every id the answer names leaves the outbox, as entry and as delete.
Settled(v) == net[v]["sync"].accepted \cup net[v]["sync"].rejected

\* The hub's answer.  After a refusal (422) there is no state to merge.
Acknowledge(v) ==
    LET m == net[v]["sync"]
        refused == m.rejected # {}
        keep(box) == {r \in box : r.id \notin Settled(v)}
    IN  /\ sync[v].phase = "pushing"
        /\ m.stage = "answer"
        /\ outEntries' = [outEntries EXCEPT ![v] = keep(@)]
        /\ outDeletes' = [outDeletes EXCEPT ![v] = keep(@)]
        /\ sync' = [sync EXCEPT ![v].phase = IF refused THEN AfterPush(sync[v].full) ELSE "merge",
                                ![v].answer = IF refused THEN None ELSE m.delta]
        /\ net' = [net EXCEPT ![v]["sync"] = NoMsg]
        /\ UNCHANGED <<hubVars, clock, local, localTrash, tok, input, loop,
                       ghosts, repVars, used, faults>>

\* A bug: the whole answer is remembered as the token.
WholeAnswer(delta) == delta
TokenOf(delta) == delta.file

\* _apply_delta: only blocks of the device's own today; the token always.
ApplyDelta(v, delta) ==
    LET file == local[v][delta.label]
    IN  /\ IF delta.fresh /\ delta.label = clock[v]
             THEN /\ local' = [local EXCEPT ![v][delta.label] = Merged(file, delta.file)]
                  /\ localTrash' = [localTrash EXCEPT ![v] =
                                      WithTrash(@, Displaced(file, delta.file))]
             ELSE UNCHANGED <<local, localTrash>>
        /\ tok' = [tok EXCEPT ![v] = TokenOf(delta)]

MergePush(v) ==
    /\ sync[v].phase = "merge"
    /\ ApplyDelta(v, sync[v].answer)
    /\ sync' = [sync EXCEPT ![v].phase = AfterPush(sync[v].full), ![v].answer = None]
    /\ UNCHANGED <<hubVars, clock, outEntries, outDeletes, input, loop, net,
                   ghosts, repVars, used, faults>>

\* reconcile
SendPull(v) ==
    /\ sync[v].phase = "pull"
    /\ Phase(v, "pulling")
    /\ net' = [net EXCEPT ![v]["sync"] = [stage |-> "sent", kind |-> "pull"]]
    /\ UNCHANGED <<hubVars, devVars, loop, ghosts, repVars, used, faults>>

MergePull(v) ==
    /\ sync[v].phase = "pulling"
    /\ net[v]["sync"].stage = "answer"
    /\ ApplyDelta(v, net[v]["sync"].delta)
    /\ net' = [net EXCEPT ![v]["sync"] = NoMsg]
    /\ Phase(v, "list")
    /\ UNCHANGED <<hubVars, clock, outEntries, outDeletes, input, loop, ghosts,
                   repVars, used, faults>>

(* --------------------------- the receive loop --------------------------- *)

SendPoll(v) ==
    /\ loop[v] = "synced"
    /\ net[v]["poll"].stage = "none"
    /\ net' = [net EXCEPT ![v]["poll"] =
                 [stage |-> "sent", kind |-> "longpoll", after |-> tok[v]]]
    /\ UNCHANGED <<hubVars, devVars, sync, loop, ghosts, repVars, used, faults>>

\* No _sync_lock here: a poll's answer may overtake or trail a push's.  An
\* answer with blocks makes the loop look for new reports.
MergePoll(v) ==
    LET delta == net[v]["poll"].delta
    IN  /\ net[v]["poll"].stage = "answer"
        /\ ApplyDelta(v, delta)
        /\ net' = [net EXCEPT ![v]["poll"] = NoMsg]
        /\ loop' = [loop EXCEPT ![v] = IF delta.fresh /\ delta.file # EmptyFile
                                         THEN "changed" ELSE @]
        /\ UNCHANGED <<hubVars, clock, outEntries, outDeletes, input, sync,
                       ghosts, repVars, used, faults>>

(* ----------------------- history files, trash file ---------------------- *)

\* sync_history_files: today's date first, then the hub's list of hashes.
StartHistory(v) ==
    /\ sync[v].phase = "list"
    /\ sync' = [sync EXCEPT ![v].phase = "listing",
                            ![v].answer = [skip |-> clock[v]]]
    /\ UNCHANGED <<hubVars, devVars, loop, net, ghosts, repVars, used, faults>>

GetList(v) ==
    /\ sync[v].phase = "listing"
    /\ sync' = [sync EXCEPT ![v].phase = "fetch",
                  ![v].answer = [skip  |-> @.skip, files |-> hub, trash |-> hubTrash,
                                 todo  |-> {d \in Days \ {@.skip} : hub[d] # EmptyFile}]]
    /\ UNCHANGED <<hubVars, devVars, loop, net, ghosts, repVars, used, faults>>

\* A bug: a file that is there is taken to be complete.
Present(v, d) == local[v][d] # EmptyFile
\* Equal sha256: nothing to fetch.
SameAsListed(v, d) == local[v][d] = sync[v].answer.files[d]

\* Lists are worked through in order.
First(todo) == {d \in todo : \A e \in todo : d <= e}

\* The whole file as the hub has it by now.
FetchFile(v) ==
    LET s == sync[v].answer
    IN  /\ sync[v].phase = "fetch"
        /\ \E d \in First(s.todo) :
             /\ local' = IF SameAsListed(v, d) THEN local
                           ELSE [local EXCEPT ![v][d] = hub[d]]
             /\ sync' = [sync EXCEPT ![v].answer.todo = s.todo \ {d}]
        /\ UNCHANGED <<hubVars, clock, localTrash, outEntries, outDeletes, tok,
                       input, loop, net, ghosts, repVars, used, faults>>

\* The hub's trash file replaces the device's.
FetchTrash(v) ==
    LET s == sync[v].answer
    IN  /\ sync[v].phase = "fetch"
        /\ s.todo = {}
        /\ localTrash' = IF s.trash = {} \/ localTrash[v] = s.trash THEN localTrash
                           ELSE [localTrash EXCEPT ![v] = hubTrash]
        /\ Phase(v, "prune")
        /\ UNCHANGED <<hubVars, clock, local, outEntries, outDeletes, tok,
                       input, loop, net, ghosts, repVars, used, faults>>

\* A bug: the file of today is not spared.
Unlisted(v) == {d \in Days : sync[v].answer.files[d] = EmptyFile}
Extra(v) == {d \in Days : /\ d # sync[v].answer.skip
                          /\ sync[v].answer.files[d] = EmptyFile}

\* Files of days the hub did not list are unlinked; the reports are next.
PruneFiles(v) ==
    /\ sync[v].phase = "prune"
    /\ local' = [local EXCEPT ![v] =
                   [d \in Days |-> IF d \in Extra(v) THEN EmptyFile ELSE @[d]]]
    /\ sync' = [sync EXCEPT ![v].phase = "reports", ![v].answer = None]
    /\ UNCHANGED <<hubVars, clock, localTrash, outEntries, outDeletes, tok,
                   input, loop, net, ghosts, repVars, used, faults>>

(* -------------------------------- reports ------------------------------- *)

\* A report is generated again, by the automatic tasks or by hand.
GenerateReport(r) ==
    /\ reports[r] < MaxVersion
    /\ reports' = [reports EXCEPT ![r] = @ + 1]
    /\ UNCHANGED <<hubVars, devVars, thrVars, copies, mirror, used, faults>>

\* sync_reports: the end of a full sync, or after a long poll with news.
MirrorsReports(v) == sync[v].phase = "reports" \/ loop[v] = "changed"

\* A report the hub cannot read at this moment is not on its list.
Unreadable == IF ReportFails THEN SUBSET Reports ELSE {{}}

ListReports(v) ==
    /\ MirrorsReports(v)
    /\ mirror[v] = None
    /\ \E lost \in Unreadable :
         LET listed == [r \in Reports |-> IF r \in lost THEN 0 ELSE reports[r]]
         IN  mirror' = [mirror EXCEPT ![v] =
                          [list |-> listed, todo |-> {r \in Reports : listed[r] # 0}]]
    /\ UNCHANGED <<hubVars, devVars, thrVars, reports, copies, used, faults>>

\* A bug: a copy that is there is taken to be the latest.
HasCopy(v, r) == copies[v][r] # 0
\* Equal sha256: nothing to fetch.
HasListed(v, r) == copies[v][r] = mirror[v].list[r]

\* The report as it is by now, which may be later than the list.
FetchReport(v) ==
    /\ mirror[v] # None
    /\ \E r \in First(mirror[v].todo) :
         /\ copies' = IF HasListed(v, r) THEN copies
                        ELSE [copies EXCEPT ![v][r] = reports[r]]
         /\ mirror' = [mirror EXCEPT ![v].todo = @ \ {r}]
    /\ UNCHANGED <<hubVars, devVars, thrVars, reports, used, faults>>

\* A bug: what is not as listed is taken for a leftover.
Unlike(v) == {r \in Reports : ~HasListed(v, r)}
Leftover(v) == {r \in Reports : mirror[v].list[r] = 0}

\* The sync lock, if held, is released; the loop goes on to poll.
EndMirror(v, outcome) ==
    /\ mirror' = [mirror EXCEPT ![v] = None]
    /\ loop' = [loop EXCEPT ![v] = outcome]
    /\ sync' = IF sync[v].phase = "reports" THEN [sync EXCEPT ![v] = IdleSync] ELSE sync

PruneReports(v) ==
    /\ mirror[v] # None
    /\ mirror[v].todo = {}
    /\ copies' = [copies EXCEPT ![v] =
                    [r \in Reports |-> IF r \in Leftover(v) THEN 0 ELSE @[r]]]
    /\ EndMirror(v, "synced")
    /\ UNCHANGED <<hubVars, devVars, net, ghosts, reports, used, faults>>

(* -------------------------------- the hub ------------------------------- *)

Pushing(v) == net[v]["sync"].stage = "sent" /\ net[v]["sync"].kind = "push"
Pushes == {net[v]["sync"] : v \in {w \in Devices : Pushing(w)}} \cup ghosts

\* The write midnight fell into: it has read its day's file and taken its
\* path, and holds the locks until that file is replaced.
Late == {m \in Pushes : m.path # None}
LateDays == {m.path : m \in Late}
LocksFree == LateDays = {}

\* append_entries, then apply_deletes: a section with a date check, a read and
\* a write of its own, which takes or refuses its whole batch.
Section(m) == IF m.at = "append" THEN m.entries ELSE m.deletes
Expired(records, d) == {id \in IdsOf(records) : DateOf[id] # d}

\* The day a section is about.
Reading(m) == IF m.path = None THEN today ELSE m.path
Refused(m) == Expired(Section(m), Reading(m))
Deletes(m) == m.at = "delete" /\ Refused(m) = {}
Effect(m) ==
    LET file == hub[Reading(m)]
    IN  IF Refused(m) # {} THEN file
        ELSE IF m.at = "append" THEN WithEntries(file, m.entries)
        ELSE WithDeletes(file, m.deletes)
Served(m) ==
    [m EXCEPT !.at = IF m.at = "append" /\ m.deletes # {} THEN "delete" ELSE "state",
              !.path = None,
              !.accepted = @ \cup (IF Refused(m) = {} THEN IdsOf(Section(m)) ELSE {}),
              !.rejected = @ \cup Refused(m)]

\* The next section of a push.
HubPush(m) ==
    /\ m.at # "state"
    /\ LocksFree \/ m \in Late
    /\ hub' = [hub EXCEPT ![Reading(m)] = Effect(m)]
    /\ hubTrash' = IF Deletes(m) THEN WithTrash(hubTrash, BodiesOf(hub[Reading(m)], m.deletes))
                                  ELSE hubTrash
    /\ UNCHANGED today

ServePush(v) ==
    /\ Pushing(v)
    /\ HubPush(net[v]["sync"])
    /\ net' = [net EXCEPT ![v]["sync"] = Served(@)]
    /\ UNCHANGED <<devVars, sync, loop, ghosts, repVars, used, faults>>

\* A push whose device has given up is served all the same.
ServeGhost ==
    \E m \in ghosts :
        /\ HubPush(m)
        /\ ghosts' = (ghosts \ {m}) \cup {g \in {Served(m)} : g.at # "state"}
        /\ UNCHANGED <<devVars, sync, loop, net, repVars, used, faults>>

\* today_state: the file of the day, labelled with that day.
FullState == [fresh |-> TRUE, label |-> today, file |-> hub[today]]

AnswerPush(v) ==
    LET m == net[v]["sync"]
    IN  /\ Pushing(v) /\ m.at = "state"
        /\ LocksFree
        /\ net' = [net EXCEPT ![v]["sync"] =
                     [stage |-> "answer", accepted |-> m.accepted,
                      rejected |-> m.rejected, delta |-> FullState]]
        /\ UNCHANGED <<hubVars, devVars, sync, loop, ghosts, repVars, used, faults>>

AnswerPull(v) ==
    /\ net[v]["sync"].stage = "sent" /\ net[v]["sync"].kind = "pull"
    /\ LocksFree
    /\ net' = [net EXCEPT ![v]["sync"] = [stage |-> "answer", delta |-> FullState]]
    /\ UNCHANGED <<hubVars, devVars, sync, loop, ghosts, repVars, used, faults>>

\* Unequal tokens, not newer ones.
Changed(m) == m.after # hub[today]

\* wait_for_change: at once when the token differs, else after the timeout.
AnswerPoll(v) ==
    LET m == net[v]["poll"]
    IN  /\ m.stage = "sent"
        /\ LocksFree
        /\ net' = [net EXCEPT ![v]["poll"] = [stage |-> "answer",
                     delta |-> [FullState EXCEPT !.fresh = Changed(m)]]]
        /\ UNCHANGED <<hubVars, devVars, sync, loop, ghosts, repVars, used, faults>>

\* A finished day's summary: update_summary_for_date, behind the same lock.
Summarise(d) ==
    /\ d < today
    /\ hub[d].entries # {} /\ hub[d].head = "default"
    /\ LocksFree
    /\ hub' = [hub EXCEPT ![d].head = "summary"]
    /\ UNCHANGED <<today, hubTrash, devVars, thrVars, repVars, used, faults>>

\* _command_import copies whole files, with no lock.
Import(d) ==
    /\ d < today /\ d \notin LateDays
    /\ \E f \in Imports : hub' = [hub EXCEPT ![d] = f]
    /\ UNCHANGED <<today, hubTrash, devVars, thrVars, repVars, used, faults>>

(* ------------------------- faults and midnight -------------------------- *)

\* What the hub may still have of a line that is cut.
Orphan(v) == {m \in {net[v]["sync"]} : Pushing(v) /\ m.at # "state"}

\* A bug: the receive loop waits for a full sync nobody runs any more.
StillSyncing(v) == loop[v]
Restarted(v) == IF sync[v].full THEN "unsynced" ELSE loop[v]

\* A request that never arrives, an answer that is lost, a timeout.  The
\* push thread retries later; the receive loop starts over with a full sync.
\* The hub may never have had the request, be done with it, or stop at it.
LoseSync(v) ==
    /\ faults < MaxFaults
    /\ net[v]["sync"].stage # "none"
    /\ faults' = faults + 1
    /\ \/ ghosts' = ghosts \cup Orphan(v)
       \/ UNCHANGED ghosts
    /\ net' = [net EXCEPT ![v]["sync"] = NoMsg]
    /\ sync' = [sync EXCEPT ![v] = IdleSync]
    /\ loop' = [loop EXCEPT ![v] = Restarted(v)]
    /\ UNCHANGED <<hubVars, devVars, repVars, used>>

LosePoll(v) ==
    /\ faults < MaxFaults
    /\ net[v]["poll"].stage # "none"
    /\ faults' = faults + 1
    /\ net' = [net EXCEPT ![v]["poll"] = NoMsg]
    /\ loop' = [loop EXCEPT ![v] = "unsynced"]
    /\ UNCHANGED <<hubVars, devVars, sync, ghosts, repVars, used>>

\* No list: the history files keep for the next full sync, the reports are
\* asked for all the same.
LoseList(v) ==
    /\ faults < MaxFaults
    /\ sync[v].phase = "listing"
    /\ faults' = faults + 1
    /\ sync' = [sync EXCEPT ![v].phase = "reports", ![v].answer = None]
    /\ UNCHANGED <<hubVars, devVars, loop, net, ghosts, repVars, used>>

\* No list of reports: the receive loop starts over with a full sync.
LoseReports(v) ==
    /\ faults < MaxFaults
    /\ MirrorsReports(v)
    /\ mirror[v] = None
    /\ faults' = faults + 1
    /\ EndMirror(v, "unsynced")
    /\ UNCHANGED <<hubVars, devVars, net, ghosts, reports, copies, used>>

\* _report_content returns None: the copy is left as it is.
SkipReport(v) ==
    /\ faults < MaxFaults
    /\ mirror[v] # None
    /\ faults' = faults + 1
    /\ \E r \in First(mirror[v].todo) : mirror' = [mirror EXCEPT ![v].todo = @ \ {r}]
    /\ UNCHANGED <<hubVars, devVars, thrVars, reports, copies, used>>

\* _fetch_record_file returns None: the file is left as it is.
SkipFile(v) ==
    LET s == sync[v].answer
    IN  /\ faults < MaxFaults
        /\ sync[v].phase = "fetch"
        /\ faults' = faults + 1
        /\ \/ s.todo = {} /\ Phase(v, "prune")
           \/ \E d \in First(s.todo) :
                sync' = [sync EXCEPT ![v].answer.todo = s.todo \ {d}]
        /\ UNCHANGED <<hubVars, devVars, loop, net, ghosts, repVars, used>>

\* The client process dies and is started again; its files stay.
CrashClient(v) ==
    /\ Crashes
    /\ faults < MaxFaults
    /\ faults' = faults + 1
    /\ \/ ghosts' = ghosts \cup Orphan(v)
       \/ UNCHANGED ghosts
    /\ input' = [input EXCEPT ![v] = None]
    /\ sync' = [sync EXCEPT ![v] = IdleSync]
    /\ loop' = [loop EXCEPT ![v] = "unsynced"]
    /\ net' = [net EXCEPT ![v] = [c \in Lines |-> NoMsg]]
    /\ mirror' = [mirror EXCEPT ![v] = None]
    /\ UNCHANGED <<hubVars, clock, local, localTrash, outEntries, outDeletes,
                   tok, reports, copies, used>>

InHistory(v) == sync[v].phase \in {"listing", "fetch", "prune"}

\* A push whose section midnight may fall into: the date check is behind it.
Caught(m) ==
    /\ LocksFree
    /\ m.at # "state"
    /\ Section(m) # {} /\ Expired(Section(m), today) = {}

\* The hub's midnight: between two sections, or inside one.
HubMidnight ==
    /\ today < LastDay
    /\ today' = today + 1
    /\ \/ UNCHANGED <<net, ghosts>>
       \/ \E v \in Devices :
            /\ Pushing(v) /\ Caught(net[v]["sync"])
            /\ net' = [net EXCEPT ![v]["sync"].path = today]
            /\ UNCHANGED ghosts
       \/ \E m \in ghosts :
            /\ Caught(m)
            /\ ghosts' = (ghosts \ {m}) \cup {[m EXCEPT !.path = today]}
            /\ UNCHANGED net

\* Midnight, for all at once when clocks agree, else one clock at a time.
Midnight ==
    /\ MidnightInHistory \/ \A v \in Devices : ~InHistory(v)
    /\ \/ /\ Skew = 0
          /\ HubMidnight
          /\ clock' = [v \in Devices |-> today + 1]
       \/ /\ Skew > 0
          /\ \A v \in Devices : today + 1 - clock[v] <= Skew
          /\ HubMidnight
          /\ UNCHANGED clock
       \/ \E v \in Devices :
          /\ Skew > 0 /\ clock[v] < LastDay
          /\ clock[v] + 1 - today <= Skew
          /\ clock' = [clock EXCEPT ![v] = @ + 1]
          /\ UNCHANGED <<today, net, ghosts>>
    /\ UNCHANGED <<hub, hubTrash, local, localTrash, outEntries, outDeletes,
                   tok, input, sync, loop, repVars, used, faults>>

(* ----------------------------- specification ---------------------------- *)

SyncStep(v) ==
    \/ Flush(v) \/ FullSync(v) \/ Acknowledge(v)
    \/ MergePush(v) \/ SendPull(v) \/ MergePull(v)
    \/ StartHistory(v) \/ GetList(v) \/ FetchFile(v) \/ FetchTrash(v) \/ PruneFiles(v)
PollStep(v) == SendPoll(v) \/ MergePoll(v)
MirrorStep(v) == ListReports(v) \/ FetchReport(v) \/ PruneReports(v)
ServeSync(v) == ServePush(v) \/ AnswerPush(v) \/ AnswerPull(v)

\* The contents a hub file has while a device works on its list.
Browsing(v) == sync[v].phase \in {"fetch", "prune"}
Watch ==
    since' = [v \in Devices |->
                IF Browsing(v)'
                  THEN [d \in Days |-> {hub'[d]} \cup (IF Browsing(v) THEN since[v][d] ELSE {})]
                  ELSE NothingSeen]

Step ==
    \/ \E v \in Devices :
         \/ \E p \in Writable : p[1] = v /\ WriteRecord(v, p[2])
         \/ DeleteLatest(v) \/ Enqueue(v)
         \/ SyncStep(v) \/ PollStep(v) \/ MirrorStep(v)
         \/ ServeSync(v) \/ AnswerPoll(v)
         \/ LoseSync(v) \/ LosePoll(v) \/ LoseList(v) \/ LoseReports(v)
         \/ SkipFile(v) \/ SkipReport(v) \/ CrashClient(v)
    \/ \E r \in Reports : GenerateReport(r)
    \/ ServeGhost
    \/ \E d \in Days : Summarise(d) \/ Import(d)
    \/ Midnight

Next == Step /\ Watch

Spec == Init /\ [][Next]_vars

\* Threads keep running and the hub keeps answering; users need not write.
Fairness ==
    /\ \A v \in Devices : /\ WF_sysVars(Enqueue(v))
                          /\ WF_sysVars(SyncStep(v))
                          /\ WF_sysVars(PollStep(v))
                          /\ WF_sysVars(MirrorStep(v))
                          /\ WF_sysVars(ServeSync(v))
                          /\ WF_sysVars(AnswerPoll(v))
    /\ WF_sysVars(ServeGhost)
FairSpec == Spec /\ Fairness

(* ------------------------------ properties ------------------------------ *)

\* Files, outboxes and tokens stay in their types.
TypeOK ==
    /\ today \in Days
    /\ hub \in [Days -> File]
    /\ hubTrash \in SUBSET Record
    /\ clock \in [Devices -> Days]
    /\ local \in [Devices -> [Days -> File]]
    /\ localTrash \in [Devices -> SUBSET Record]
    /\ outEntries \in [Devices -> SUBSET Record]
    /\ outDeletes \in [Devices -> SUBSET Record]
    /\ tok \in [Devices -> File \cup {None}]
    /\ copies \in [Devices -> [Reports -> 0 .. MaxVersion]]
    /\ used \subseteq Writable
    /\ faults \in 0 .. MaxFaults

\* A record a device shows as today's is on the hub, in the outbox, or on its
\* way there: no step between file, outbox, network and acknowledgement
\* forgets it.
NothingForgotten ==
    \A v \in Devices : \A r \in local[v][clock[v]].entries :
        <<v, r>> \in used /\ clock[v] = today =>
            \/ r.id \in Known(hub[today]) \cup IdsOf(outEntries[v])
            \/ input[v] # None /\ input[v].record = r

\* A deletion the user was told of is on the hub, queued, or about to be.
DeletionsTravel ==
    \A v \in Devices : \A id \in local[v][clock[v]].tombs :
        clock[v] = today =>
            \/ id \in hub[today].tombs \cup IdsOf(outDeletes[v])
            \/ input[v] # None /\ input[v].record.id = id

\* send_pending drops an entry only when its day is over or the hub has it.
EntriesKeptUntilStored ==
    [][\A v \in Devices : \A r \in outEntries[v] \ outEntries'[v] :
          \/ DateOf[r.id] < clock[v]
          \/ r.id \in Known(hub[DateOf[r.id]])]_vars

\* send_pending drops a delete only when its day is over or the hub has the
\* tombstone: what other threads queue during the request stays.
DeletesKeptUntilStored ==
    [][\A v \in Devices : \A r \in outDeletes[v] \ outDeletes'[v] :
          \/ DateOf[r.id] < clock[v]
          \/ r.id \in hub[DateOf[r.id]].tombs]_vars

\* While its day lasts an entry deleted on a device never comes back there,
\* whatever old answers arrive late.
StaysDeleted ==
    [][\A v \in Devices : clock'[v] = clock[v] =>
          LET f == local[v][clock[v]]
              g == local'[v][clock[v]]
          IN  f.tombs \subseteq g.tombs /\ IdsOf(g.entries) \cap f.tombs = {}]_vars

\* A device's file of today never drops an entry but by a tombstone or for
\* the hub's version of it.
TodayIsProtected ==
    [][\A v \in Devices : clock'[v] = clock[v] =>
          Known(local[v][clock[v]]) \subseteq Known(local'[v][clock[v]])]_vars

\* A token never runs ahead of the data: a device that would be told "nothing
\* new" has everything the hub has.
TokenIsSound ==
    \A v \in Devices : clock[v] = today /\ tok[v] = hub[today] =>
        /\ hub[today].tombs \subseteq local[v][today].tombs
        /\ Known(hub[today]) \subseteq Known(local[v][today])

\* A body once in a device's trash is in its trash, in the hub's, or in a
\* delete that will take it there.
TrashNeverEmptied ==
    [][\A v \in Devices : \A r \in localTrash[v] :
          \/ r \in localTrash'[v] \cup hubTrash' \cup outDeletes'[v]
          \/ input'[v] # None /\ input'[v].record = r]_vars

\* A full sync that lost nothing leaves every finished day as the hub had it
\* at some moment since the list, whatever summary, import or late write has
\* come between list and download.
HistoryTaken ==
    [][\A v \in Devices : sync[v].phase = "prune" /\ sync'[v].phase = "reports" /\ faults = 0 =>
          \A d \in Days : d < sync[v].answer.skip => local'[v][d] \in since[v][d]]_vars

\* A device never exchanges its copy of a report for an older one or for
\* none: what is regenerated while the list is worked through stays.
ReportsNeverLost ==
    [][\A v \in Devices, r \in Reports : copies'[v][r] >= copies[v][r]]_vars

\* A round that lost nothing leaves every report as listed or later.
ReportsTaken ==
    [][\A v \in Devices : mirror[v] # None /\ mirror'[v] = None /\ faults' = 0 =>
          \A r \in Reports : copies'[v][r] >= mirror[v].list[r]]_vars

\* With devices that retry, pushes nobody waits for, deletes of unknown ids
\* and midnight between or inside the sections of a push, the hub's diary is
\* still a DayLog.
Log == INSTANCE DayLog WITH
          Bodies <- Texts, day <- today, late <- LateDays,
          live <- [d \in Days |-> hub[d].entries], dead <- [d \in Days |-> hub[d].tombs]
HubIsDayLog == Log!Spec

\* Once users stop, every device ends up with the hub's file of the day and
\* an empty outbox.
Converges ==
    <>[](\A v \in Devices : /\ local[v][today] = hub[today]
                            /\ outEntries[v] \cup outDeletes[v] = {})
=============================================================================
