------------------------------ MODULE HubStore ------------------------------
(***************************************************************************)
(* The diary store of the hub (server/hub/store.py) and the sync handlers  *)
(* that drive it (server/hub/server.py).  One day file per day is the only *)
(* authority: entry blocks and tombstone blocks, and one trash file for    *)
(* all deleted bodies.  Handlers run on threads; a handler's steps are     *)
(* separated wherever another thread, midnight or a crash can come between *)
(* them: the clock is read once for the date check, again for the path     *)
(* read and again for the path written, and midnight may still fall        *)
(* between asking for that path and the os.replace that puts the file      *)
(* there.                                                                  *)
(***************************************************************************)
EXTENDS Integers, FiniteSets

CONSTANTS
    Ids,            \* entry ids
    Bodies,         \* texts
    LastDay,        \* days are 0 .. LastDay
    DateOf,         \* the day of an id's timestamp
    Workers,        \* handler threads
    Requests,       \* the requests devices may send
    NoJob, NoReply, NoToken, Free,
    MidnightRace,   \* may midnight fall between a date check and its use?
    MayCrash        \* may the hub process die?

Days   == 0 .. LastDay
Record == [id : Ids, body : Bodies]
Token  == [entries : SUBSET Record, tombs : SUBSET Ids]
\* A push carries entries and deletes; a pull nothing; a long poll a token.
Request == [kind : {"push", "pull", "longpoll"}, entries : SUBSET Record,
            deletes : SUBSET Record, after : Token \cup {NoToken}]
Reply == [status : {200, 422}, accepted : SUBSET Ids, rejected : SUBSET Ids,
          label : Days, entries : SUBSET Record, tombs : SUBSET Ids,
          token : Token \cup {NoToken}]

\* The list of a request is keyed by entry id: devices queue an id once.
UniqueIds(records) == \A r, q \in records : r.id = q.id => r = q

ASSUME DaysAssumption == LastDay \in Nat
ASSUME DateAssumption == DateOf \in [Ids -> Days]
ASSUME RequestsAssumption ==
    /\ Requests \subseteq Request
    /\ \A q \in Requests : UniqueIds(q.entries) /\ UniqueIds(q.deletes)
ASSUME SentinelAssumption == /\ NoJob \notin Requests
                             /\ NoToken \notin Token
                             /\ NoReply \notin Reply
                             /\ Free \notin Workers
ASSUME SwitchAssumption == MidnightRace \in BOOLEAN /\ MayCrash \in BOOLEAN

VARIABLES
    today,      \* the hub's date, UTC+8
    entries,    \* entries[d]: entry blocks of Records/<d>.md
    tombs,      \* tombs[d]: tombstone blocks of Records/<d>.md
    trash,      \* Records/trash.md
    lock,       \* holder of .journal.lock and of Store._lock
    pc,         \* where each worker is
    job,        \* the request it serves
    day,        \* the date today_state labels its answer with
    view,       \* the blocks that call has parsed
    path,       \* the day whose file it is about to replace
    accepted, rejected,
    toTrash,    \* trash_bodies, not yet appended
    reply       \* the response being sent

files   == <<entries, tombs, trash>>
workers == <<pc, job, day, view, path, accepted, rejected, toTrash, reply>>
vars    == <<today, files, lock, workers>>

IdsOf(records) == {r.id : r \in records}
\* Blocks of a day file; the sha256 token is taken to be injective in them.
Content(d) == [entries |-> entries[d], tombs |-> tombs[d]]
NoView == [entries |-> {}, tombs |-> {}]

PcValues == {"idle", "append", "appendRead", "appendTarget", "appendWrite",
             "delete", "deleteRead", "deleteTarget", "deleteWrite", "trash",
             "label", "state", "poll", "waiting", "reply"}

Init == /\ today = 0
        /\ entries = [d \in Days |-> {}]
        /\ tombs = [d \in Days |-> {}]
        /\ trash = {}
        /\ lock = Free
        /\ pc = [w \in Workers |-> "idle"]
        /\ job = [w \in Workers |-> NoJob]
        /\ day = [w \in Workers |-> 0]
        /\ view = [w \in Workers |-> NoView]
        /\ path = [w \in Workers |-> 0]
        /\ accepted = [w \in Workers |-> {}]
        /\ rejected = [w \in Workers |-> {}]
        /\ toTrash = [w \in Workers |-> {}]
        /\ reply = [w \in Workers |-> NoReply]

\* A bug: one path per batch, from the batch's own date.
BatchPath(w) == IF job[w].entries = {} THEN today
                  ELSE DateOf[(CHOOSE r \in job[w].entries : TRUE).id]
\* _today_path asks the clock again at every use.
TodayPath(w) == today

Goto(w, label) == pc' = [pc EXCEPT ![w] = label]

\* A handler thread takes up an authenticated request.
Accept(w, q) ==
    /\ pc[w] = "idle"
    /\ Goto(w, CASE q.kind = "push" -> "append"
                 [] q.kind = "pull" -> "label"
                 [] q.kind = "longpoll" -> "poll")
    /\ job' = [job EXCEPT ![w] = q]
    /\ UNCHANGED <<today, files, lock, day, view, path, accepted, rejected,
                   toTrash, reply>>

(* ------------------------- Store.append_entries ------------------------- *)

\* A bug: only earlier dates are refused.
OutOfDate(records, d) == {id \in IdsOf(records) : DateOf[id] < d}
Expired(records, d) == {id \in IdsOf(records) : DateOf[id] # d}

\* One entry of another day rejects the whole batch.
AppendCheck(w) ==
    /\ pc[w] = "append"
    /\ rejected' = [rejected EXCEPT ![w] = Expired(job[w].entries, today)]
    /\ Goto(w, IF Expired(job[w].entries, today) = {}
                 THEN "appendRead" ELSE "delete")
    /\ UNCHANGED <<today, files, lock, job, day, view, path, accepted, toTrash,
                   reply>>

\* Both locks, then _read_blocks: of the file that is today's by now.
AppendRead(w) ==
    /\ pc[w] = "appendRead"
    /\ lock = Free
    /\ lock' = w
    /\ view' = [view EXCEPT ![w] = Content(TodayPath(w))]
    /\ Goto(w, "appendTarget")
    /\ UNCHANGED <<today, files, job, day, path, accepted, rejected, toTrash,
                   reply>>

\* Bugs: blocks compared whole, and tombstones not looked at.
AddedWhole(w) == job[w].entries \ view[w].entries
AddedOverTombs(w) == {r \in job[w].entries : r.id \notin IdsOf(view[w].entries)}
\* Entries whose id the parsed file has neither live nor dead.
Added(w) == {r \in job[w].entries : /\ r.id \notin IdsOf(view[w].entries)
                                    /\ r.id \notin view[w].tombs}

\* The merge is done.  When it added something the path is asked of the
\* clock, before the blocks are sorted and the temporary file is written.
AppendTarget(w) ==
    /\ pc[w] = "appendTarget"
    /\ IF Added(w) = {}
         THEN /\ accepted' = [accepted EXCEPT ![w] = IdsOf(job[w].entries)]
              /\ view' = [view EXCEPT ![w] = NoView]
              /\ lock' = Free
              /\ Goto(w, "delete")
              /\ UNCHANGED path
         ELSE /\ path' = [path EXCEPT ![w] = TodayPath(w)]
              /\ Goto(w, "appendWrite")
              /\ UNCHANGED <<lock, view, accepted>>
    /\ UNCHANGED <<today, files, job, day, rejected, toTrash, reply>>

\* os.replace: the parsed blocks and the added ones become that day's file.
AppendWrite(w) ==
    /\ pc[w] = "appendWrite"
    /\ accepted' = [accepted EXCEPT ![w] = IdsOf(job[w].entries)]
    /\ entries' = [entries EXCEPT ![path[w]] = view[w].entries \cup Added(w)]
    /\ tombs' = [tombs EXCEPT ![path[w]] = view[w].tombs]
    /\ view' = [view EXCEPT ![w] = NoView]
    /\ path' = [path EXCEPT ![w] = 0]
    /\ lock' = Free
    /\ Goto(w, "delete")
    /\ UNCHANGED <<today, trash, job, day, rejected, toTrash, reply>>

(* ------------------------- Store.apply_deletes -------------------------- *)

DeleteCheck(w) ==
    /\ pc[w] = "delete"
    /\ rejected' = [rejected EXCEPT ![w] = @ \cup Expired(job[w].deletes, today)]
    /\ Goto(w, IF Expired(job[w].deletes, today) = {}
                 THEN "deleteRead" ELSE "label")
    /\ UNCHANGED <<today, files, lock, job, day, view, path, accepted, toTrash,
                   reply>>

DeleteRead(w) ==
    /\ pc[w] = "deleteRead"
    /\ lock = Free
    /\ lock' = w
    /\ view' = [view EXCEPT ![w] = Content(TodayPath(w))]
    /\ Goto(w, "deleteTarget")
    /\ UNCHANGED <<today, files, job, day, path, accepted, rejected, toTrash,
                   reply>>

\* Deletes that find no tombstone yet.
Fresh(w) == {r \in job[w].deletes : r.id \notin view[w].tombs}
\* Bugs: a body the file does not have is dropped; the device's body wins.
RemovedFromFile(w) == {r \in view[w].entries : r.id \in IdsOf(Fresh(w))}
RemovedAsSent(w) == Fresh(w)
\* The body to keep: the file's, else the one the device sent along.
Removed(w) ==
    {r \in view[w].entries : r.id \in IdsOf(Fresh(w))}
    \cup {r \in Fresh(w) : r.id \notin IdsOf(view[w].entries)}

\* A bug: the file is rebuilt without the tombstones it had.
NewTombs(w) == IdsOf(Fresh(w))
AllTombs(w) == view[w].tombs \cup IdsOf(Fresh(w))

\* A delete is always written; a batch without any writes nothing.
DeleteTarget(w) ==
    /\ pc[w] = "deleteTarget"
    /\ IF job[w].deletes = {}
         THEN /\ view' = [view EXCEPT ![w] = NoView]
              /\ lock' = Free
              /\ Goto(w, "label")
              /\ UNCHANGED path
         ELSE /\ path' = [path EXCEPT ![w] = TodayPath(w)]
              /\ Goto(w, "deleteWrite")
              /\ UNCHANGED <<lock, view>>
    /\ UNCHANGED <<today, files, job, day, accepted, rejected, toTrash, reply>>

\* os.replace of the day file; the trash file comes after it.
DeleteWrite(w) ==
    /\ pc[w] = "deleteWrite"
    /\ accepted' = [accepted EXCEPT ![w] = @ \cup IdsOf(job[w].deletes)]
    /\ entries' = [entries EXCEPT ![path[w]] =
                      {r \in view[w].entries : r.id \notin IdsOf(Fresh(w))}]
    /\ tombs' = [tombs EXCEPT ![path[w]] = AllTombs(w)]
    /\ view' = [view EXCEPT ![w] = NoView]
    /\ path' = [path EXCEPT ![w] = 0]
    /\ toTrash' = [toTrash EXCEPT ![w] = Removed(w)]
    /\ IF Removed(w) = {}
         THEN lock' = Free /\ Goto(w, "label")
         ELSE UNCHANGED lock /\ Goto(w, "trash")
    /\ UNCHANGED <<today, trash, job, day, rejected, reply>>

\* _append_trash keeps the body it already has for an id.
WriteTrash(w) ==
    /\ pc[w] = "trash"
    /\ trash' = trash \cup {r \in toTrash[w] : r.id \notin IdsOf(trash)}
    /\ toTrash' = [toTrash EXCEPT ![w] = {}]
    /\ lock' = Free
    /\ Goto(w, "label")
    /\ UNCHANGED <<today, entries, tombs, job, day, view, path, accepted,
                   rejected, reply>>

(* -------------------- today_state, wait_for_change ---------------------- *)

\* The label of the reply is taken before the lock, in pushes and pulls.
Label(w) ==
    /\ pc[w] = "label"
    /\ day' = [day EXCEPT ![w] = today]
    /\ Goto(w, "state")
    /\ UNCHANGED <<today, files, lock, job, view, path, accepted, rejected,
                   toTrash, reply>>

\* A bug: the device is not told of what it just sent.
OthersOnly(w) ==
    [status |-> 200, accepted |-> accepted[w], rejected |-> rejected[w],
     label |-> day[w], entries |-> entries[today] \ job[w].entries,
     tombs |-> tombs[today], token |-> Content(today)]
\* The file of the day, labelled with the date taken before.
Snapshot(w) ==
    [status |-> 200, accepted |-> accepted[w], rejected |-> rejected[w],
     label |-> day[w], entries |-> entries[today], tombs |-> tombs[today],
     token |-> Content(today)]
\* Only ids when something was rejected.
Refusal(w) ==
    [status |-> 422, accepted |-> accepted[w], rejected |-> rejected[w],
     label |-> day[w], entries |-> {}, tombs |-> {}, token |-> NoToken]
\* A bug: the status no caller knows.
NotModified(w) ==
    [status |-> 304, accepted |-> {}, rejected |-> {}, label |-> day[w],
     entries |-> {}, tombs |-> {}, token |-> Content(today)]
\* A long poll that found nothing new.
Unchanged(w) ==
    [status |-> 200, accepted |-> {}, rejected |-> {}, label |-> day[w],
     entries |-> {}, tombs |-> {}, token |-> Content(today)]

State(w) ==
    /\ pc[w] = "state"
    /\ lock \in {Free, w}
    /\ lock' = Free
    /\ reply' = [reply EXCEPT ![w] =
            IF rejected[w] # {} THEN Refusal(w) ELSE Snapshot(w)]
    /\ Goto(w, "reply")
    /\ UNCHANGED <<today, files, job, day, view, path, accepted, rejected,
                   toTrash>>

\* A bug: only new entries count as a change, not tombstones.
NewEntries(w) == ~(entries[today] \subseteq job[w].after.entries)
\* Unequal tokens, not newer ones: a device may be ahead or behind.
Changed(w) == Content(today) # job[w].after

\* A token that differs is answered at once, under the lock.
Poll(w) ==
    /\ pc[w] = "poll"
    /\ lock = Free
    /\ IF Changed(w)
         THEN lock' = w /\ Goto(w, "label")
         ELSE UNCHANGED lock /\ Goto(w, "waiting")
    /\ UNCHANGED <<today, files, job, day, view, path, accepted, rejected,
                   toTrash, reply>>

\* Condition.wait returns: notified, or after 25 seconds.
Wake(w) ==
    /\ pc[w] = "waiting"
    /\ lock = Free
    /\ IF Changed(w)
         THEN lock' = w /\ Goto(w, "label") /\ UNCHANGED reply
         ELSE /\ reply' = [reply EXCEPT ![w] = Unchanged(w)]
              /\ Goto(w, "reply")
              /\ UNCHANGED lock
    /\ UNCHANGED <<today, files, job, day, view, path, accepted, rejected,
                   toTrash>>

\* The response is on the wire; the thread is done, its locals are gone.
Finish(w) ==
    /\ pc[w] = "reply"
    /\ Goto(w, "idle")
    /\ job' = [job EXCEPT ![w] = NoJob]
    /\ reply' = [reply EXCEPT ![w] = NoReply]
    /\ accepted' = [accepted EXCEPT ![w] = {}]
    /\ rejected' = [rejected EXCEPT ![w] = {}]
    /\ day' = [day EXCEPT ![w] = 0]
    /\ UNCHANGED <<today, files, lock, view, path, toTrash>>

(* --------------------------- the environment ---------------------------- *)

\* A worker that has taken the date and has yet to ask for the path or to read
\* the file the date is for.
HoldsDate(w) == pc[w] \in {"appendRead", "appendTarget", "deleteRead",
                           "deleteTarget", "state"}

Midnight ==
    /\ today < LastDay
    /\ MidnightRace \/ \A w \in Workers : ~HoldsDate(w)
    /\ today' = today + 1
    /\ UNCHANGED <<files, lock, workers>>

\* The process dies: the files stay, atomic_write leaves no half-written one.
Crash ==
    /\ MayCrash
    /\ \E w \in Workers : pc[w] # "idle"
    /\ lock' = Free
    /\ pc' = [w \in Workers |-> "idle"]
    /\ job' = [w \in Workers |-> NoJob]
    /\ reply' = [w \in Workers |-> NoReply]
    /\ accepted' = [w \in Workers |-> {}]
    /\ rejected' = [w \in Workers |-> {}]
    /\ toTrash' = [w \in Workers |-> {}]
    /\ day' = [w \in Workers |-> 0]
    /\ view' = [w \in Workers |-> NoView]
    /\ path' = [w \in Workers |-> 0]
    /\ UNCHANGED <<today, files>>

Step(w) ==
    \/ AppendCheck(w) \/ AppendRead(w) \/ AppendTarget(w) \/ AppendWrite(w)
    \/ DeleteCheck(w) \/ DeleteRead(w) \/ DeleteTarget(w) \/ DeleteWrite(w)
    \/ WriteTrash(w)
    \/ Label(w) \/ State(w) \/ Poll(w) \/ Wake(w)

Next ==
    \/ \E w \in Workers, q \in Requests : Accept(w, q)
    \/ \E w \in Workers : Step(w) \/ Finish(w)
    \/ Midnight
    \/ Crash

Spec == Init /\ [][Next]_vars

(* ------------------------------ properties ------------------------------ *)

\* Every variable stays in its type.
TypeOK ==
    /\ today \in Days
    /\ entries \in [Days -> SUBSET Record]
    /\ tombs \in [Days -> SUBSET Ids]
    /\ trash \in SUBSET Record
    /\ lock \in Workers \cup {Free}
    /\ pc \in [Workers -> PcValues]
    /\ job \in [Workers -> Requests \cup {NoJob}]
    /\ day \in [Workers -> Days]
    /\ view \in [Workers -> Token]
    /\ path \in [Workers -> Days]
    /\ accepted \in [Workers -> SUBSET Ids]
    /\ rejected \in [Workers -> SUBSET Ids]
    /\ toTrash \in [Workers -> SUBSET Record]
    /\ reply \in [Workers -> Reply \cup {NoReply}]

\* Two blocks of one id never share a day file, however pushes of the same
\* id (a retry, two devices in the same millisecond) interleave, even when
\* midnight comes between reading the file and writing it.
OneBlockPerId ==
    \A d \in Days : /\ UniqueIds(entries[d])
                    /\ IdsOf(entries[d]) \cap tombs[d] = {}

\* A worker between Accept and State still serves a known request.
Busy(w) == pc[w] \in {"append", "appendRead", "appendTarget", "appendWrite",
                      "delete", "deleteRead", "deleteTarget", "deleteWrite"}
JobKnown == \A w \in Workers : Busy(w) => job[w] \in Requests
\* Nobody writes the file of a day that has not come.
FutureIsEmpty == \A d \in Days : d > today => Content(d) = NoView
\* Whoever rewrites a file holds both locks,
Merging == {"appendTarget", "deleteTarget"}
Replacing == {"appendWrite", "deleteWrite"}
MergerHoldsLock ==
    \A w \in Workers :
        pc[w] \in Merging \cup Replacing \cup {"trash"} => lock = w
\* so the blocks it parsed are still those of the file it will replace, which
\* is today's until it asks for the path; when midnight came in between, that
\* file is a new one and still empty.
Target(w) == IF pc[w] \in Replacing THEN path[w] ELSE today
ViewIsSound ==
    \A w \in Workers : pc[w] \in Merging \cup Replacing =>
        /\ Target(w) <= today
        /\ Content(Target(w)) \in {view[w], NoView}
        /\ UniqueIds(view[w].entries)
        /\ IdsOf(view[w].entries) \cap view[w].tombs = {}

\* The inductive invariant behind OneBlockPerId and NeverResurrected: the
\* locks make read-merge-write atomic, midnight only ever opens a new file.
IInv == JobKnown /\ OneBlockPerId /\ FutureIsEmpty /\ MergerHoldsLock /\ ViewIsSound

\* What append_entries and apply_deletes promise of their day file at every
\* moment, midnight included: a tombstone is for ever, an entry leaves only
\* by a tombstone, and no late push revives a deleted id.
NeverResurrected ==
    [][\A d \in Days :
          /\ tombs[d] \subseteq tombs'[d]
          /\ \A r \in entries[d] : r \in entries'[d] \/ r.id \in tombs'[d]
          /\ \A r \in entries'[d] : r.id \notin tombs[d]]_vars

\* The finished days some handler may still write, its path being older than
\* midnight.
Late == {path[w] : w \in {u \in Workers : pc[u] \in Replacing}} \cap {d \in Days : d < today}

\* A finished day is closed once no handler that asked for its path before
\* midnight is left: its file never changes again and nobody gets its path.
\* Such a handler writes the file once.
PastIsFrozen ==
    [][\A d \in Days : d < today =>
          /\ d \notin Late => Content(d)' = Content(d) /\ d \notin Late'
          /\ Content(d)' # Content(d) => d \notin Late']_vars

\* An id a handler is about to acknowledge is on disk, live or dead, in the
\* file of its own day: the device may drop it from its outbox.
AcceptedIsStored ==
    \A w \in Workers : \A id \in accepted[w] :
        id \in IdsOf(entries[DateOf[id]]) \cup tombs[DateOf[id]]

\* Each block is in the file of the day its id was written on.
FiledUnderItsDay ==
    \A d \in Days : \A id \in IdsOf(entries[d]) \cup tombs[d] : DateOf[id] = d

\* "delete = tombstone + body into trash": a deleted id's body is in the
\* trash file, or the handler that removed it is about to put it there.
TrashHasBody ==
    \A d \in Days : \A id \in tombs[d] :
        \/ id \in IdsOf(trash)
        \/ \E w \in Workers : pc[w] = "trash" /\ id \in IdsOf(toTrash[w])

\* The body that was in the file is the one that reaches the trash file, not
\* the one a device happened to send with the delete.
ErasedBodyIsKept ==
    [][\A d \in Days : \A r \in entries[d] :
          r \notin entries'[d] => r \in trash' \cup UNION {toTrash'[w] : w \in Workers}]_vars

\* The device that pushed an id finds it, live or dead, in the state that
\* comes with the acknowledgement.
ReadYourWrites ==
    \A w \in Workers : pc[w] = "reply" /\ reply[w].token # NoToken =>
        \A id \in reply[w].accepted : DateOf[id] = reply[w].label =>
            id \in IdsOf(reply[w].entries) \cup reply[w].tombs

\* A long poll is told "nothing new" only with the token it asked with.
EmptyDeltaIsCurrent ==
    \A w \in Workers : pc[w] = "reply" /\ job[w].kind = "longpoll" =>
        \/ reply[w].token = job[w].after
        \/ reply[w].token = [entries |-> reply[w].entries, tombs |-> reply[w].tombs]

\* The diary is a DayLog.
Log == INSTANCE DayLog WITH day <- today, live <- entries, dead <- tombs,
                          late <- Late, Imports <- {}
ImplementsDayLog == Log!Spec
=============================================================================
