--------------------------- MODULE HubStoreAnswers --------------------------
(***************************************************************************)
(* What the hub's store promises the devices it answers, proved for every  *)
(* instance: a long poll says "nothing new" only when nothing is new; a    *)
(* deleted body reaches the trash file; and, while midnight does not fall  *)
(* between a date check and its use, what is acknowledged is on disk,      *)
(* under its day and in the state that comes with the acknowledgement.     *)
(***************************************************************************)
EXTENDS HubStoreProofs

(***************************************************************************)
(* Steps of one worker.                                                    *)
(***************************************************************************)

\* A step of the thread that serves one request.
Serves(w) == (\E q \in Requests : Accept(w, q)) \/ Step(w) \/ Finish(w)

\* A handler touches its own locals only.
LEMMA OthersStay ==
    ASSUME TypeOK, NEW w \in Workers, Serves(w), NEW v \in Workers, v # w
    PROVE  /\ pc'[v] = pc[v] /\ job'[v] = job[v] /\ day'[v] = day[v]
           /\ view'[v] = view[v] /\ path'[v] = path[v] /\ accepted'[v] = accepted[v]
           /\ rejected'[v] = rejected[v] /\ toTrash'[v] = toTrash[v]
           /\ reply'[v] = reply[v]
<1>. USE DEF TypeOK, Goto
<1>1. CASE \E q \in Requests : Accept(w, q)
  BY <1>1 DEF Accept
<1>2. CASE AppendCheck(w) \/ AppendRead(w) \/ AppendTarget(w) \/ AppendWrite(w)
  BY <1>2 DEF AppendCheck, AppendRead, AppendTarget, AppendWrite
<1>3. CASE DeleteCheck(w) \/ DeleteRead(w) \/ DeleteTarget(w) \/ DeleteWrite(w)
           \/ WriteTrash(w)
  BY <1>3 DEF DeleteCheck, DeleteRead, DeleteTarget, DeleteWrite, WriteTrash
<1>4. CASE Label(w) \/ State(w) \/ Poll(w) \/ Wake(w) \/ Finish(w)
  BY <1>4 DEF Label, State, Poll, Wake, Finish
<1>. QED
  BY <1>1, <1>2, <1>3, <1>4 DEF Serves, Step

\* Every step is a worker's, midnight, a crash, or none.
LEMMA StepOfOne ==
    [Next]_vars => (\E w \in Workers : Serves(w)) \/ Midnight \/ Crash \/ UNCHANGED vars
BY DEF Next, Serves

(***************************************************************************)
(* Long polls.                                                             *)
(***************************************************************************)

\* A worker without a request remembers no refusal.
StartsClean(w) == pc[w] = "idle" => rejected[w] = {}
\* A long poll goes straight from its wait to its answer and refuses nothing.
RefusesNothing(w) ==
    pc[w] # "idle" /\ job[w].kind = "longpoll" =>
        /\ pc[w] \in {"poll", "waiting", "label", "state", "reply"}
        /\ rejected[w] = {}
\* Its answer carries the token it asked with, or that of the blocks it brings.
AnswersPoll(w) ==
    pc[w] = "reply" /\ job[w].kind = "longpoll" =>
        \/ reply[w].token = job[w].after
        \/ reply[w].token = [entries |-> reply[w].entries, tombs |-> reply[w].tombs]
PollInv == \A w \in Workers : StartsClean(w) /\ RefusesNothing(w) /\ AnswersPoll(w)

\* The worker that moves keeps its part of PollInv.
LEMMA PollWorker ==
    ASSUME TypeOK, PollInv, NEW w \in Workers, Serves(w)
    PROVE  StartsClean(w)' /\ RefusesNothing(w)' /\ AnswersPoll(w)'
<1>. USE DEF TypeOK, Goto, PollInv
<1>1. ASSUME NEW q \in Requests, Accept(w, q)
      PROVE  StartsClean(w)' /\ RefusesNothing(w)' /\ AnswersPoll(w)'
  <2>1. q.kind \in {"push", "pull", "longpoll"}
    BY RequestType DEF Request
  <2>2. /\ job'[w] = q
        /\ pc[w] = "idle" /\ rejected'[w] = rejected[w]
        /\ pc'[w] \in {"append", "label", "poll"}
        /\ q.kind = "longpoll" => pc'[w] = "poll"
    BY <1>1, <2>1 DEF Accept
  <2>. QED
    BY <2>2 DEF StartsClean, RefusesNothing, AnswersPoll
<1>2. CASE AppendCheck(w) \/ AppendRead(w) \/ AppendTarget(w) \/ AppendWrite(w)
           \/ DeleteCheck(w) \/ DeleteRead(w) \/ DeleteTarget(w) \/ DeleteWrite(w)
           \/ WriteTrash(w)
  <2>1. /\ pc[w] \in {"append", "appendRead", "appendTarget", "appendWrite", "delete",
                      "deleteRead", "deleteTarget", "deleteWrite", "trash"}
        /\ pc'[w] \in {"append", "appendRead", "appendTarget", "appendWrite", "delete",
                       "deleteRead", "deleteTarget", "deleteWrite", "trash", "label"}
        /\ job'[w] = job[w]
    BY <1>2 DEF AppendCheck, AppendRead, AppendTarget, AppendWrite, DeleteCheck,
                DeleteRead, DeleteTarget, DeleteWrite, WriteTrash
  <2>2. job[w].kind # "longpoll"
    BY <2>1 DEF RefusesNothing
  <2>. QED
    BY <2>1, <2>2 DEF StartsClean, RefusesNothing, AnswersPoll
<1>3. CASE Label(w) \/ Poll(w)
  <2>1. /\ pc[w] # "idle" /\ pc'[w] \in {"label", "waiting", "state"}
        /\ job'[w] = job[w] /\ rejected'[w] = rejected[w]
    BY <1>3 DEF Label, Poll
  <2>. QED
    BY <2>1 DEF StartsClean, RefusesNothing, AnswersPoll
<1>4. CASE State(w)
  <2>1. /\ pc[w] = "state" /\ pc'[w] = "reply"
        /\ job'[w] = job[w] /\ rejected'[w] = rejected[w]
        /\ rejected[w] = {} => reply'[w] = Snapshot(w)
    BY <1>4 DEF State
  <2>2. ASSUME job[w].kind = "longpoll"
        PROVE  reply'[w].token = [entries |-> reply'[w].entries, tombs |-> reply'[w].tombs]
    <3>1. rejected[w] = {}
      BY <2>1, <2>2 DEF RefusesNothing
    <3>. QED
      BY <2>1, <3>1 DEF Snapshot, Content
  <2>3. AnswersPoll(w)'
    BY <2>1, <2>2 DEF AnswersPoll
  <2>. QED
    BY <2>1, <2>3 DEF StartsClean, RefusesNothing
<1>5. CASE Wake(w)
  <2>1. /\ pc[w] = "waiting" /\ pc'[w] \in {"label", "reply"}
        /\ job'[w] = job[w] /\ rejected'[w] = rejected[w]
        /\ pc'[w] = "reply" => /\ Content(today) = job[w].after
                               /\ reply'[w] = Unchanged(w)
    BY <1>5 DEF Wake, Changed
  <2>2. AnswersPoll(w)'
    BY <2>1 DEF AnswersPoll, Unchanged
  <2>. QED
    BY <2>1, <2>2 DEF StartsClean, RefusesNothing
<1>6. CASE Finish(w)
  <2>1. pc'[w] = "idle" /\ accepted'[w] = {} /\ rejected'[w] = {}
    BY <1>6 DEF Finish
  <2>. QED
    BY <2>1 DEF StartsClean, RefusesNothing, AnswersPoll
<1>. QED
  BY <1>1, <1>2, <1>3, <1>4, <1>5, <1>6 DEF Serves, Step

\* PollInv is inductive.
LEMMA PollStep == TypeOK /\ PollInv /\ [Next]_vars => PollInv'
<1>. SUFFICES ASSUME TypeOK, PollInv, [Next]_vars, NEW v \in Workers
              PROVE  StartsClean(v)' /\ RefusesNothing(v)' /\ AnswersPoll(v)'
  BY DEF PollInv
<1>1. ASSUME NEW w \in Workers, Serves(w)
      PROVE  StartsClean(v)' /\ RefusesNothing(v)' /\ AnswersPoll(v)'
  <2>1. CASE v = w
    BY <1>1, <2>1, PollWorker
  <2>2. CASE v # w
    BY <1>1, <2>2, OthersStay DEF PollInv, StartsClean, RefusesNothing, AnswersPoll
  <2>. QED BY <2>1, <2>2
<1>2. CASE Midnight \/ UNCHANGED vars
  BY <1>2 DEF Midnight, vars, workers, PollInv, StartsClean, RefusesNothing, AnswersPoll
<1>3. CASE Crash
  BY <1>3 DEF Crash, StartsClean, RefusesNothing, AnswersPoll
<1>. QED
  BY <1>1, <1>2, <1>3, StepOfOne

\* A long poll is told "nothing new" only with the token it asked with: in
\* wait_for_change no answer hides blocks the device has not seen, whatever
\* pushes, midnights and crashes come between its wait and its answer.
THEOREM NothingNewIsCurrent == Spec => []EmptyDeltaIsCurrent
<1>1. Init => PollInv
  BY DEF Init, PollInv, StartsClean, RefusesNothing, AnswersPoll
<1>2. TypeOK /\ PollInv /\ [Next]_vars => PollInv'
  BY PollStep
<1>3. PollInv => EmptyDeltaIsCurrent
  BY DEF PollInv, AnswersPoll, EmptyDeltaIsCurrent
<1>. QED
  BY <1>1, <1>2, <1>3, TypeCorrect, PTL DEF Spec

(***************************************************************************)
(* The trash file.                                                         *)
(***************************************************************************)

\* Every fresh delete sends one body to the trash file.
LEMMA FreshIsRemoved ==
    ASSUME NEW w \in Workers
    PROVE  IdsOf(Fresh(w)) \subseteq IdsOf(Removed(w))
BY DEF IdsOf, Removed

\* The body that was in the file is the one that is kept: whatever entry
\* apply_deletes takes out of a day file, and nothing else takes any out, is in
\* the list its handler will append to the trash file.
THEOREM ErasedIsKept == Spec => ErasedBodyIsKept
<1>. DEFINE Kept == trash' \cup UNION {toTrash'[w] : w \in Workers}
            A == \A d \in Days : \A r \in entries[d] : r \notin entries'[d] => r \in Kept
<1>1. TypeOK /\ IInv /\ [Next]_vars => [A]_vars
  <2>. SUFFICES ASSUME TypeOK, IInv, [Next]_vars,
                       NEW d \in Days, NEW r \in entries[d], r \notin entries'[d]
                PROVE  r \in Kept
    OBVIOUS
  <2>1. PICK w \in Workers : AppendWrite(w) \/ DeleteWrite(w)
    BY DEF Next, Step, Accept, AppendCheck, AppendRead, AppendTarget, DeleteCheck,
           DeleteRead, DeleteTarget, WriteTrash, Label, State, Poll, Wake, Finish,
           Midnight, Crash, vars, files
  <2>2. Content(path[w]) \in {view[w], NoView}
    BY <2>1 DEF AppendWrite, DeleteWrite, IInv, ViewIsSound, Target, Replacing
  <2>3. CASE AppendWrite(w)
    BY <2>2, <2>3 DEF AppendWrite, TypeOK, Content, NoView
  <2>4. CASE DeleteWrite(w)
    <3>1. /\ d = path[w]
          /\ entries'[d] = {q \in view[w].entries : q.id \notin IdsOf(Fresh(w))}
      BY <2>4 DEF DeleteWrite, TypeOK
    <3>2. r \in view[w].entries
      BY <2>2, <3>1 DEF Content, NoView
    <3>3. r \in Removed(w)
      BY <3>1, <3>2 DEF Removed
    <3>4. toTrash'[w] = Removed(w)
      BY <2>4 DEF DeleteWrite, TypeOK
    <3>. QED
      BY <3>3, <3>4
  <2>. QED
    BY <2>1, <2>3, <2>4
<1>. QED
  BY <1>1, InvCorrect, PTL DEF Spec, ErasedBodyIsKept

\* Whoever holds the lock to merge has seen no tombstone whose body is not in
\* the trash file: the handler before it put it there under the same lock.
ParsedAreBuried(w) ==
    pc[w] \in Merging \cup Replacing => view[w].tombs \subseteq IdsOf(trash)
\* A tombstone has its body in the trash file or in a handler's hands.
Buried(id) ==
    \/ id \in IdsOf(trash)
    \/ \E w \in Workers : pc[w] = "trash" /\ id \in IdsOf(toTrash[w])
TrashInv == /\ \A w \in Workers : ParsedAreBuried(w)
            /\ \A d \in Days : \A id \in tombs[d] : Buried(id)

\* A step of one worker keeps TrashInv.
LEMMA TrashWorker ==
    ASSUME TypeOK, IInv, TrashInv, NEW w \in Workers, Serves(w)
    PROVE  TrashInv'
<1>. USE DEF TypeOK, Goto, Merging, Replacing
<1>1. IdsOf(trash) \subseteq IdsOf(trash')
  BY DEF Serves, Step, Accept, AppendCheck, AppendRead, AppendTarget, AppendWrite,
         DeleteCheck, DeleteRead, DeleteTarget, DeleteWrite, WriteTrash, Label, State,
         Poll, Wake, Finish, files, IdsOf
<1>2. ASSUME ParsedAreBuried(w)', \A d \in Days : \A id \in tombs'[d] : Buried(id)'
      PROVE  TrashInv'
  <2>1. ASSUME NEW v \in Workers, v # w PROVE ParsedAreBuried(v)'
    BY <1>1, <2>1, OthersStay DEF TrashInv, ParsedAreBuried, IdsOf
  <2>. QED
    BY <1>2, <2>1 DEF TrashInv
<1>3. ASSUME NEW id, Buried(id), pc[w] # "trash" PROVE Buried(id)'
  <2>1. CASE id \in IdsOf(trash)
    BY <1>1, <2>1 DEF Buried, IdsOf
  <2>2. ASSUME NEW v \in Workers, pc[v] = "trash", id \in IdsOf(toTrash[v])
        PROVE  Buried(id)'
    BY <1>3, <2>2, OthersStay DEF Buried, IdsOf
  <2>. QED
    BY <1>3, <2>1, <2>2 DEF Buried
<1>4. CASE AppendRead(w) \/ DeleteRead(w)
  <2>1. /\ lock = Free /\ UNCHANGED tombs /\ pc[w] # "trash"
        /\ view'[w] = Content(today) /\ today \in Days
    BY <1>4 DEF AppendRead, DeleteRead, TodayPath, files
  <2>2. \A v \in Workers : pc[v] # "trash"
    BY <2>1, SentinelAssumption DEF IInv, MergerHoldsLock
  <2>3. tombs[today] \subseteq IdsOf(trash)
    BY <2>1, <2>2 DEF TrashInv, Buried
  <2>4. ParsedAreBuried(w)'
    <3>1. view'[w].tombs = tombs[today]
      BY <2>1 DEF Content
    <3>. QED
      BY <1>1, <2>3, <3>1 DEF ParsedAreBuried, IdsOf
  <2>5. \A d \in Days : \A id \in tombs'[d] : Buried(id)'
    BY <1>3, <2>1 DEF TrashInv
  <2>. QED
    BY <1>2, <2>4, <2>5
<1>5. CASE AppendWrite(w)
  <2>1. pc[w] = "appendWrite" /\ pc'[w] = "delete"
    BY <1>5 DEF AppendWrite
  <2>2. \A d \in Days : tombs'[d] = tombs[d] \/ tombs'[d] = view[w].tombs
    BY <1>5 DEF AppendWrite
  <2>3. \A id \in view[w].tombs : Buried(id)
    BY <2>1 DEF TrashInv, ParsedAreBuried, Buried
  <2>4. \A d \in Days : \A id \in tombs'[d] : Buried(id)'
    BY <1>3, <2>1, <2>2, <2>3 DEF TrashInv
  <2>5. ParsedAreBuried(w)'
    BY <2>1 DEF ParsedAreBuried
  <2>. QED
    BY <1>2, <2>4, <2>5
<1>6. CASE DeleteWrite(w)
  <2>1. /\ pc[w] = "deleteWrite" /\ pc'[w] \in {"label", "trash"}
        /\ toTrash'[w] = Removed(w)
        /\ Removed(w) # {} => pc'[w] = "trash"
    BY <1>6 DEF DeleteWrite
  <2>2. \A d \in Days : tombs'[d] \subseteq tombs[d] \cup view[w].tombs \cup IdsOf(Fresh(w))
    BY <1>6 DEF DeleteWrite, AllTombs
  <2>3. \A id \in view[w].tombs : Buried(id)
    BY <2>1 DEF TrashInv, ParsedAreBuried, Buried
  <2>4. \A id \in IdsOf(Fresh(w)) : Buried(id)'
    <3>1. \A id \in IdsOf(Fresh(w)) : id \in IdsOf(toTrash'[w]) /\ pc'[w] = "trash"
      BY <2>1, FreshIsRemoved DEF IdsOf
    <3>. QED
      BY <3>1 DEF Buried, IdsOf
  <2>5. \A d \in Days : \A id \in tombs'[d] : Buried(id)'
    BY <1>3, <2>1, <2>2, <2>3, <2>4 DEF TrashInv
  <2>6. ParsedAreBuried(w)'
    BY <2>1 DEF ParsedAreBuried
  <2>. QED
    BY <1>2, <2>5, <2>6
<1>7. CASE WriteTrash(w)
  <2>1. /\ pc'[w] = "label" /\ UNCHANGED tombs
        /\ trash' = trash \cup {r \in toTrash[w] : r.id \notin IdsOf(trash)}
    BY <1>7 DEF WriteTrash
  <2>2. IdsOf(toTrash[w]) \subseteq IdsOf(trash')
    BY <2>1 DEF IdsOf
  <2>3. ASSUME NEW id, Buried(id) PROVE Buried(id)'
    <3>1. CASE id \in IdsOf(trash)
      BY <1>1, <3>1 DEF Buried, IdsOf
    <3>2. ASSUME NEW v \in Workers, pc[v] = "trash", id \in IdsOf(toTrash[v])
          PROVE  Buried(id)'
      <4>1. CASE v = w
        BY <2>2, <3>2, <4>1 DEF Buried, IdsOf
      <4>2. CASE v # w
        BY <3>2, <4>2, OthersStay DEF Buried, IdsOf
      <4>. QED BY <4>1, <4>2
    <3>. QED
      BY <2>3, <3>1, <3>2 DEF Buried
  <2>4. ParsedAreBuried(w)'
    BY <2>1 DEF ParsedAreBuried
  <2>. QED
    BY <1>2, <2>1, <2>3, <2>4 DEF TrashInv
<1>8. CASE \/ \E q \in Requests : Accept(w, q)
           \/ AppendCheck(w) \/ DeleteCheck(w) \/ Label(w) \/ State(w)
           \/ Poll(w) \/ Wake(w) \/ Finish(w)
  <2>1. /\ UNCHANGED tombs /\ pc[w] # "trash"
        /\ pc'[w] \notin Merging \cup Replacing
    <3>1. CASE \E q \in Requests : Accept(w, q)
      BY <3>1, RequestType DEF Accept, files, Request
    <3>2. CASE AppendCheck(w) \/ DeleteCheck(w) \/ Label(w) \/ State(w)
               \/ Poll(w) \/ Wake(w) \/ Finish(w)
      BY <3>2 DEF AppendCheck, DeleteCheck, Label, State, Poll, Wake, Finish, files
    <3>. QED
      BY <1>8, <3>1, <3>2
  <2>. QED
    BY <1>2, <1>3, <2>1 DEF TrashInv, ParsedAreBuried
<1>9. CASE AppendTarget(w) \/ DeleteTarget(w)
  <2>1. /\ UNCHANGED <<tombs, trash>> /\ pc[w] \in Merging /\ pc[w] # "trash"
        /\ pc'[w] \in Replacing => view'[w] = view[w]
        /\ pc'[w] \notin Merging
    BY <1>9 DEF AppendTarget, DeleteTarget, files
  <2>2. ParsedAreBuried(w)'
    BY <2>1 DEF TrashInv, ParsedAreBuried, IdsOf
  <2>. QED
    BY <1>2, <1>3, <2>1, <2>2 DEF TrashInv
<1>. QED
  BY <1>4, <1>5, <1>6, <1>7, <1>8, <1>9 DEF Serves, Step

\* "delete = tombstone + body into trash": as long as the process is not killed
\* between the two files (MayCrash), every tombstone of every day has its body in
\* the trash file or in the hands of the handler that just wrote the tombstone.
\* Midnight may fall anywhere.
THEOREM TrashKept == ASSUME ~MayCrash PROVE Spec => []TrashHasBody
<1>1. Init => TrashInv
  BY DEF Init, TrashInv, ParsedAreBuried, Merging, Replacing
<1>2. TypeOK /\ IInv /\ TrashInv /\ [Next]_vars => TrashInv'
  <2>. SUFFICES ASSUME TypeOK, IInv, TrashInv, [Next]_vars PROVE TrashInv'
    OBVIOUS
  <2>1. CASE Midnight \/ UNCHANGED vars
    BY <2>1 DEF Midnight, vars, workers, files, TrashInv, ParsedAreBuried, Buried, IdsOf
  <2>2. ~Crash
    BY DEF Crash
  <2>. QED
    BY <2>1, <2>2, TrashWorker, StepOfOne
<1>3. TrashInv => TrashHasBody
  BY DEF TrashInv, Buried, TrashHasBody
<1>. QED
  BY <1>1, <1>2, <1>3, InvCorrect, PTL DEF Spec

(***************************************************************************)
(* Acknowledgements.                                                       *)
(***************************************************************************)

\* Ids of a day file, live or dead.
Known(d) == IdsOf(entries[d]) \cup tombs[d]

\* From the date check to the path the day is the same; from then on the path
\* is of that day, and what was parsed is the file it names.
DateHolds(w) ==
    /\ pc[w] \in {"appendRead", "appendTarget"} => Expired(job[w].entries, today) = {}
    /\ pc[w] = "appendWrite" => Expired(job[w].entries, path[w]) = {}
    /\ pc[w] \in {"deleteRead", "deleteTarget"} => Expired(job[w].deletes, today) = {}
    /\ pc[w] = "deleteWrite" => Expired(job[w].deletes, path[w]) = {}
    /\ pc[w] \in Merging => view[w] = Content(today)
    /\ pc[w] \in Replacing => view[w] = Content(path[w])
    /\ pc[w] = "state" => day[w] = today
\* What a handler has accepted is on disk, under its own day.
AcceptedOnDisk(w) == \A id \in accepted[w] : id \in Known(DateOf[id])
\* A state that goes out holds what its acknowledgement names of its day.
ShowsAccepted(w) ==
    pc[w] = "reply" /\ reply[w].token # NoToken =>
        \A id \in reply[w].accepted : DateOf[id] = reply[w].label =>
            id \in IdsOf(reply[w].entries) \cup reply[w].tombs
FiledInv == /\ FiledUnderItsDay
            /\ \A w \in Workers : DateHolds(w) /\ AcceptedOnDisk(w) /\ ShowsAccepted(w)

\* No id ever leaves a day file: live, it may only die there.
LEMMA KnownGrows ==
    ASSUME TypeOK, IInv, [Next]_vars, NEW d \in Days
    PROVE  Known(d) \subseteq Known(d)'
<1>1. CASE \E e \in Days : Log!Change(e)
  BY <1>1 DEF Log!Change, TypeOK, Known, IdsOf
<1>2. CASE UNCHANGED <<entries, tombs>>
  BY <1>2 DEF Known, IdsOf
<1>3. today \in Days /\ Late \subseteq Days /\ ~Log!Import
  BY DEF TypeOK, Late, Log!Import
<1>. QED
  BY <1>1, <1>2, <1>3, InvStep
     DEF Log!Next, Log!Write, Log!WriteLate, Log!GiveUp, Log!NextDay, Stutter

\* Records that are not expired are of today.
LEMMA NotExpired ==
    ASSUME NEW R, NEW d, Expired(R, d) = {}
    PROVE  \A id \in IdsOf(R) : DateOf[id] = d
BY DEF Expired

\* The ids of a union.
LEMMA IdsOfUnion ==
    ASSUME NEW R, NEW S
    PROVE  IdsOf(R \cup S) = IdsOf(R) \cup IdsOf(S)
BY DEF IdsOf

\* append_entries files what it accepts under the day of its path, which is
\* the day of the ids.
LEMMA AppendFiles ==
    ASSUME TypeOK, IInv, FiledInv, NEW w \in Workers, AppendWrite(w)
    PROVE  /\ FiledUnderItsDay'
           /\ \A id \in accepted'[w] : id \in Known(DateOf[id])'
<1>. USE DEF TypeOK
<1>0. PICK p \in Days : p = path[w]
  BY DEF TypeOK
<1>1. /\ job[w] \in Requests
      /\ view[w] = Content(p)
      /\ \A id \in IdsOf(job[w].entries) : DateOf[id] = p
  <2>1. pc[w] = "appendWrite"
    BY DEF AppendWrite
  <2>2. Expired(job[w].entries, p) = {} /\ view[w] = Content(p)
    BY <1>0, <2>1 DEF FiledInv, DateHolds, Replacing
  <2>3. job[w] \in Requests
    BY <2>1 DEF IInv, JobKnown, Busy
  <2>. QED
    BY <2>2, <2>3, NotExpired
<1>2. IdsOf(Added(w)) \subseteq IdsOf(job[w].entries)
  BY DEF Added, IdsOf
<1>3. IdsOf(job[w].entries) \subseteq IdsOf(view[w].entries) \cup view[w].tombs \cup IdsOf(Added(w))
  BY DEF Added, IdsOf
<1>4. entries'[p] = entries[p] \cup Added(w) /\ tombs'[p] = tombs[p]
  BY <1>0, <1>1 DEF AppendWrite, Content
<1>5. \A d \in Days : d # p => entries'[d] = entries[d] /\ tombs'[d] = tombs[d]
  BY <1>0 DEF AppendWrite
<1>6. FiledUnderItsDay'
  <2>. SUFFICES ASSUME NEW d \in Days, NEW id \in IdsOf(entries'[d]) \cup tombs'[d]
                PROVE  DateOf[id] = d
    BY DEF FiledUnderItsDay
  <2>1. CASE id \in IdsOf(entries[d]) \cup tombs[d]
    BY <2>1 DEF FiledInv, FiledUnderItsDay
  <2>2. CASE d = p /\ id \in IdsOf(Added(w))
    BY <1>1, <1>2, <2>2
  <2>3. d # p => IdsOf(entries'[d]) = IdsOf(entries[d]) /\ tombs'[d] = tombs[d]
    BY <1>5
  <2>4. IdsOf(entries'[p]) = IdsOf(entries[p]) \cup IdsOf(Added(w))
    BY <1>4, IdsOfUnion
  <2>. QED
    BY <1>4, <2>1, <2>2, <2>3, <2>4
<1>7. ASSUME NEW id \in accepted'[w] PROVE id \in Known(DateOf[id])'
  <2>1. id \in IdsOf(job[w].entries)
    BY <1>7 DEF AppendWrite
  <2>2. id \in Known(p) \cup IdsOf(Added(w))
    BY <1>1, <1>3, <2>1 DEF Known, Content
  <2>3. id \in Known(p)'
    BY <1>4, <2>2 DEF Known, IdsOf
  <2>. QED
    BY <1>1, <2>1, <2>3 DEF Known
<1>. QED
  BY <1>6, <1>7

\* apply_deletes does the same with tombstones.
LEMMA DeleteFiles ==
    ASSUME TypeOK, IInv, FiledInv, NEW w \in Workers, DeleteWrite(w)
    PROVE  /\ FiledUnderItsDay'
           /\ \A id \in IdsOf(job[w].deletes) : id \in Known(DateOf[id])'
<1>. USE DEF TypeOK
<1>0. PICK p \in Days : p = path[w]
  BY DEF TypeOK
<1>1. /\ job[w] \in Requests
      /\ view[w] = Content(p)
      /\ \A id \in IdsOf(job[w].deletes) : DateOf[id] = p
  <2>1. pc[w] = "deleteWrite"
    BY DEF DeleteWrite
  <2>2. Expired(job[w].deletes, p) = {} /\ view[w] = Content(p)
    BY <1>0, <2>1 DEF FiledInv, DateHolds, Replacing
  <2>3. job[w] \in Requests
    BY <2>1 DEF IInv, JobKnown, Busy
  <2>. QED
    BY <2>2, <2>3, NotExpired
<1>2. IdsOf(Fresh(w)) \subseteq IdsOf(job[w].deletes)
  BY DEF Fresh, IdsOf
<1>3. IdsOf(job[w].deletes) \subseteq view[w].tombs \cup IdsOf(Fresh(w))
  BY DEF Fresh, IdsOf
<1>4. /\ entries'[p] = {r \in entries[p] : r.id \notin IdsOf(Fresh(w))}
      /\ tombs'[p] = tombs[p] \cup IdsOf(Fresh(w))
  BY <1>0, <1>1 DEF DeleteWrite, AllTombs, Content
<1>5. \A d \in Days : d # p => entries'[d] = entries[d] /\ tombs'[d] = tombs[d]
  BY <1>0 DEF DeleteWrite
<1>6. FiledUnderItsDay'
  <2>. SUFFICES ASSUME NEW d \in Days, NEW id \in IdsOf(entries'[d]) \cup tombs'[d]
                PROVE  DateOf[id] = d
    BY DEF FiledUnderItsDay
  <2>1. CASE id \in IdsOf(entries[d]) \cup tombs[d]
    BY <2>1 DEF FiledInv, FiledUnderItsDay
  <2>2. CASE d = p /\ id \in IdsOf(Fresh(w))
    BY <1>1, <1>2, <2>2
  <2>3. d # p => IdsOf(entries'[d]) = IdsOf(entries[d]) /\ tombs'[d] = tombs[d]
    BY <1>5
  <2>4. IdsOf(entries'[p]) \subseteq IdsOf(entries[p])
    BY <1>4 DEF IdsOf
  <2>. QED
    BY <1>4, <2>1, <2>2, <2>3, <2>4
<1>7. ASSUME NEW id \in IdsOf(job[w].deletes) PROVE id \in Known(DateOf[id])'
  <2>1. id \in tombs[p] \cup IdsOf(Fresh(w))
    BY <1>1, <1>3 DEF Content
  <2>2. id \in Known(p)'
    BY <1>4, <2>1 DEF Known
  <2>. QED
    BY <1>1, <2>2 DEF Known
<1>. QED
  BY <1>6, <1>7

\* The part of FiledInv about the worker that moves.
LEMMA FiledWorker ==
    ASSUME TypeOK, IInv, FiledInv, NEW w \in Workers, Serves(w), [Next]_vars
    PROVE  FiledUnderItsDay' /\ DateHolds(w)' /\ AcceptedOnDisk(w)' /\ ShowsAccepted(w)'
<1>. DEFINE Goal == FiledUnderItsDay' /\ DateHolds(w)' /\ AcceptedOnDisk(w)' /\ ShowsAccepted(w)'
<1>. USE DEF TypeOK, Goto, Merging, Replacing
<1>1. ASSUME accepted'[w] \subseteq accepted[w] PROVE AcceptedOnDisk(w)'
  BY <1>1, KnownGrows, DateAssumption DEF FiledInv, AcceptedOnDisk
<1>2. ASSUME UNCHANGED <<entries, tombs>> PROVE FiledUnderItsDay'
  BY <1>2 DEF FiledInv, FiledUnderItsDay, IdsOf
<1>3. ASSUME NEW q \in Requests, Accept(w, q) PROVE Goal
  <2>1. /\ UNCHANGED <<entries, tombs>> /\ accepted'[w] = accepted[w]
        /\ pc'[w] \in {"append", "label", "poll"}
    BY <1>3, RequestType DEF Accept, files, Request
  <2>. QED
    BY <1>1, <1>2, <2>1 DEF DateHolds, ShowsAccepted
<1>4. CASE AppendCheck(w) \/ DeleteCheck(w)
  <2>1. /\ UNCHANGED <<today, entries, tombs>> /\ accepted'[w] = accepted[w]
        /\ job'[w] = job[w]
    BY <1>4 DEF AppendCheck, DeleteCheck, files
  <2>2. /\ pc'[w] \in {"appendRead", "delete", "deleteRead", "label"}
        /\ pc'[w] = "appendRead" => Expired(job[w].entries, today) = {}
        /\ pc'[w] = "deleteRead" => Expired(job[w].deletes, today) = {}
    BY <1>4 DEF AppendCheck, DeleteCheck
  <2>. QED
    BY <1>1, <1>2, <2>1, <2>2 DEF DateHolds, ShowsAccepted, Expired, IdsOf
<1>5. CASE AppendRead(w) \/ DeleteRead(w)
  <2>1. /\ UNCHANGED <<today, entries, tombs>> /\ accepted'[w] = accepted[w]
        /\ job'[w] = job[w] /\ view'[w] = Content(today)
        /\ pc'[w] = "appendTarget" => pc[w] = "appendRead"
        /\ pc'[w] = "deleteTarget" => pc[w] = "deleteRead"
        /\ pc'[w] \in {"appendTarget", "deleteTarget"}
    BY <1>5 DEF AppendRead, DeleteRead, TodayPath, files
  <2>. QED
    BY <1>1, <1>2, <2>1 DEF FiledInv, DateHolds, ShowsAccepted, Expired, IdsOf, Content
<1>5a. CASE AppendTarget(w)
  <2>1. /\ UNCHANGED <<today, entries, tombs>> /\ job'[w] = job[w]
        /\ pc[w] = "appendTarget"
        /\ Expired(job[w].entries, today) = {} /\ view[w] = Content(today)
    BY <1>5a DEF AppendTarget, FiledInv, DateHolds, files
  <2>2. CASE Added(w) = {}
    <3>1. pc'[w] = "delete" /\ accepted'[w] = IdsOf(job[w].entries)
      BY <1>5a, <2>2 DEF AppendTarget
    <3>2. ASSUME NEW id \in IdsOf(job[w].entries) PROVE id \in Known(DateOf[id])'
      <4>1. DateOf[id] = today
        BY <2>1, <3>2 DEF Expired
      <4>2. id \in IdsOf(view[w].entries) \cup view[w].tombs
        BY <2>2, <3>2 DEF Added, IdsOf
      <4>. QED
        BY <2>1, <4>1, <4>2 DEF Known, Content, IdsOf
    <3>. QED
      BY <1>2, <2>1, <3>1, <3>2 DEF DateHolds, AcceptedOnDisk, ShowsAccepted
  <2>3. CASE Added(w) # {}
    <3>1. /\ pc'[w] = "appendWrite" /\ accepted'[w] = accepted[w]
          /\ path'[w] = today /\ view'[w] = view[w]
      BY <1>5a, <2>3 DEF AppendTarget, TodayPath
    <3>2. DateHolds(w)'
      BY <2>1, <3>1 DEF DateHolds, Expired, IdsOf, Content
    <3>. QED
      BY <1>1, <1>2, <2>1, <3>1, <3>2 DEF ShowsAccepted
  <2>. QED BY <2>2, <2>3
<1>5b. CASE DeleteTarget(w)
  <2>1. /\ UNCHANGED <<today, entries, tombs>> /\ job'[w] = job[w]
        /\ pc[w] = "deleteTarget" /\ accepted'[w] = accepted[w]
        /\ Expired(job[w].deletes, today) = {} /\ view[w] = Content(today)
        /\ \/ pc'[w] = "label"
           \/ pc'[w] = "deleteWrite" /\ path'[w] = today /\ view'[w] = view[w]
    BY <1>5b DEF DeleteTarget, TodayPath, FiledInv, DateHolds, files
  <2>2. DateHolds(w)'
    BY <2>1 DEF DateHolds, Expired, IdsOf, Content
  <2>. QED
    BY <1>1, <1>2, <2>1, <2>2 DEF ShowsAccepted
<1>6. CASE AppendWrite(w)
  <2>1. pc'[w] = "delete"
    BY <1>6 DEF AppendWrite
  <2>. QED
    BY <1>6, <2>1, AppendFiles DEF DateHolds, AcceptedOnDisk, ShowsAccepted
<1>7. CASE DeleteWrite(w)
  <2>1. /\ pc'[w] \in {"label", "trash"}
        /\ accepted'[w] = accepted[w] \cup IdsOf(job[w].deletes)
    BY <1>7 DEF DeleteWrite
  <2>2. AcceptedOnDisk(w)'
    BY <1>7, <2>1, DeleteFiles, KnownGrows, DateAssumption DEF FiledInv, AcceptedOnDisk
  <2>. QED
    BY <1>7, <2>1, <2>2, DeleteFiles DEF DateHolds, ShowsAccepted
<1>8. CASE WriteTrash(w) \/ Poll(w) \/ Finish(w)
  <2>1. /\ UNCHANGED <<entries, tombs>> /\ accepted'[w] \subseteq accepted[w]
        /\ pc'[w] \in {"label", "waiting", "idle"}
    BY <1>8 DEF WriteTrash, Poll, Finish, files
  <2>. QED
    BY <1>1, <1>2, <2>1 DEF DateHolds, ShowsAccepted
<1>9. CASE Label(w)
  <2>1. /\ UNCHANGED <<today, entries, tombs>> /\ accepted'[w] = accepted[w]
        /\ pc'[w] = "state" /\ day'[w] = today
    BY <1>9 DEF Label, files
  <2>. QED
    BY <1>1, <1>2, <2>1 DEF DateHolds, ShowsAccepted
<1>10. CASE State(w)
  <2>1. /\ UNCHANGED <<entries, tombs>> /\ accepted'[w] = accepted[w]
        /\ pc'[w] = "reply" /\ reply'[w] \in {Refusal(w), Snapshot(w)}
    BY <1>10 DEF State, files
  <2>2. /\ Snapshot(w).accepted = accepted[w] /\ Snapshot(w).label = today
        /\ Snapshot(w).entries = entries[today] /\ Snapshot(w).tombs = tombs[today]
    BY <1>10 DEF State, Snapshot, FiledInv, DateHolds
  <2>3. Refusal(w).token = NoToken
    BY DEF Refusal
  <2>4. ShowsAccepted(w)'
    BY <2>1, <2>2, <2>3 DEF FiledInv, AcceptedOnDisk, ShowsAccepted, Known
  <2>. QED
    BY <1>1, <1>2, <2>1, <2>4 DEF DateHolds
<1>11. CASE Wake(w)
  <2>1. /\ UNCHANGED <<entries, tombs>> /\ accepted'[w] = accepted[w]
        /\ pc'[w] \in {"label", "reply"}
        /\ pc'[w] = "reply" => reply'[w].accepted = {}
    BY <1>11 DEF Wake, Unchanged, files
  <2>. QED
    BY <1>1, <1>2, <2>1 DEF DateHolds, ShowsAccepted
<1>. QED
  BY <1>3, <1>4, <1>5, <1>5a, <1>5b, <1>6, <1>7, <1>8, <1>9, <1>10, <1>11 DEF Serves, Step

\* The part about the others: nobody else is between a read and a write.
LEMMA FiledOthers ==
    ASSUME TypeOK, IInv, FiledInv, NEW w \in Workers, Serves(w), [Next]_vars,
           NEW v \in Workers, v # w
    PROVE  DateHolds(v)' /\ AcceptedOnDisk(v)' /\ ShowsAccepted(v)'
<1>. USE DEF Merging, Replacing
<1>1. today' = today
  BY DEF Serves, Step, Accept, AppendCheck, AppendRead, AppendTarget, AppendWrite, DeleteCheck,
         DeleteRead, DeleteTarget, DeleteWrite, WriteTrash, Label, State, Poll, Wake, Finish
<1>2. pc[v] \in Merging \cup Replacing => UNCHANGED <<entries, tombs>>
  <2>1. ASSUME pc[v] \in Merging \cup Replacing
        PROVE  pc[w] \notin {"appendWrite", "deleteWrite"}
    BY <2>1 DEF IInv, MergerHoldsLock
  <2>. QED
    BY <2>1 DEF Serves, Step, Accept, AppendCheck, AppendRead, AppendTarget, AppendWrite,
           DeleteCheck, DeleteRead, DeleteTarget, DeleteWrite, WriteTrash, Label, State,
           Poll, Wake, Finish, files
<1>3. DateHolds(v)'
  <2>1. DateHolds(v)
    BY DEF FiledInv
  <2>2. /\ pc'[v] = pc[v] /\ job'[v] = job[v] /\ day'[v] = day[v]
        /\ view'[v] = view[v] /\ path'[v] = path[v]
    BY OthersStay
  <2>3. CASE pc[v] \in Merging \cup Replacing
    BY <1>1, <1>2, <2>1, <2>2, <2>3 DEF DateHolds, Expired, IdsOf, Content
  <2>4. CASE pc[v] \notin Merging \cup Replacing
    BY <1>1, <2>1, <2>2, <2>4 DEF DateHolds, Expired, IdsOf
  <2>. QED BY <2>3, <2>4
<1>4. accepted[v] \subseteq Ids
  BY DEF TypeOK
<1>5. AcceptedOnDisk(v)'
  BY <1>4, OthersStay, KnownGrows, DateAssumption DEF FiledInv, AcceptedOnDisk
<1>6. ShowsAccepted(v)'
  BY OthersStay DEF FiledInv, ShowsAccepted, IdsOf
<1>. QED
  BY <1>3, <1>5, <1>6

\* FiledInv is inductive as long as midnight spares the handlers that hold a date.
LEMMA FiledStep ==
    ASSUME ~MidnightRace
    PROVE  TypeOK /\ IInv /\ FiledInv /\ [Next]_vars => FiledInv'
<1>. SUFFICES ASSUME TypeOK, IInv, FiledInv, [Next]_vars PROVE FiledInv'
  OBVIOUS
<1>1. ASSUME NEW w \in Workers, Serves(w) PROVE FiledInv'
  <2>1. FiledUnderItsDay' /\ DateHolds(w)' /\ AcceptedOnDisk(w)' /\ ShowsAccepted(w)'
    BY <1>1, FiledWorker
  <2>2. \A v \in Workers \ {w} : DateHolds(v)' /\ AcceptedOnDisk(v)' /\ ShowsAccepted(v)'
    BY <1>1, FiledOthers
  <2>. QED
    BY <2>1, <2>2 DEF FiledInv
<1>2. CASE Midnight
  <2>1. /\ UNCHANGED <<files, workers>>
        /\ \A w \in Workers : ~HoldsDate(w)
    BY <1>2 DEF Midnight
  <2>. QED
    BY <2>1 DEF HoldsDate, files, workers, FiledInv, FiledUnderItsDay, DateHolds,
                Merging, Replacing, Content, Expired,
                AcceptedOnDisk, ShowsAccepted, Known, IdsOf
<1>3. CASE Crash
  <2>1. /\ UNCHANGED <<entries, tombs>>
        /\ \A w \in Workers : pc'[w] = "idle" /\ accepted'[w] = {}
    BY <1>3 DEF Crash, files
  <2>. QED
    BY <2>1 DEF FiledInv, FiledUnderItsDay, DateHolds, AcceptedOnDisk, ShowsAccepted, IdsOf,
                Merging, Replacing
<1>4. CASE UNCHANGED vars
  BY <1>4 DEF vars, files, workers, FiledInv, FiledUnderItsDay, DateHolds,
              AcceptedOnDisk, ShowsAccepted, Known, Expired, Content, IdsOf
<1>. QED
  BY <1>1, <1>2, <1>3, <1>4, StepOfOne

\* The invariant behind the three theorems below, crashes included.
LEMMA FiledCorrect == ASSUME ~MidnightRace PROVE Spec => []FiledInv
<1>1. Init => FiledInv
  BY DEF Init, FiledInv, FiledUnderItsDay, DateHolds, AcceptedOnDisk, ShowsAccepted, IdsOf,
         Merging, Replacing
<1>2. TypeOK /\ IInv /\ FiledInv /\ [Next]_vars => FiledInv'
  BY FiledStep
<1>. QED
  BY <1>1, <1>2, InvCorrect, PTL DEF Spec

\* Every block of every day file was written on that day: append_entries and
\* apply_deletes refuse what is of another day, if midnight does not fall between
\* that check and the path they write to.
THEOREM FiledCorrectly == ASSUME ~MidnightRace PROVE Spec => []FiledUnderItsDay
<1>1. FiledInv => FiledUnderItsDay
  BY DEF FiledInv
<1>. QED
  BY <1>1, FiledCorrect, PTL

\* An id that a push handler is about to acknowledge is on disk under its own
\* day, whatever other handlers and crashes do in between: the device may forget
\* it.
THEOREM AcceptedStays == ASSUME ~MidnightRace PROVE Spec => []AcceptedIsStored
<1>1. FiledInv => AcceptedIsStored
  BY DEF FiledInv, AcceptedOnDisk, AcceptedIsStored, Known
<1>. QED
  BY <1>1, FiledCorrect, PTL

\* The state that comes with an acknowledgement shows what was acknowledged: a
\* device that replaces its day file by it loses nothing it pushed.
THEOREM WritesAreRead == ASSUME ~MidnightRace PROVE Spec => []ReadYourWrites
<1>1. FiledInv => ReadYourWrites
  BY DEF FiledInv, ShowsAccepted, ReadYourWrites
<1>. QED
  BY <1>1, FiledCorrect, PTL
=============================================================================
