--------------------------- MODULE DiarySyncProofs ---------------------------
(***************************************************************************)
(* For any devices, records, days, clocks and faults: what a device does   *)
(* with late, lost, repeated and reordered answers never undoes a deletion *)
(* nor drops a record of its own day, and the hub's diary stays a log of   *)
(* days.  History files must not be compared across midnight: then it is   *)
(* false (run MidnightWipe).                                               *)
(***************************************************************************)
EXTENDS DiarySync, TLAPS

USE DaysAssumption, IdsAssumption, DateAssumption, WritableAssumption,
    ReportsAssumption, BoundsAssumption

\* What the theorems about a device's files and reports assume.
NoHistoryAtMidnight == MidnightInHistory = FALSE
AllReadable == ReportFails = FALSE

(* -------------------------- the values passed --------------------------- *)

Delta == [fresh : BOOLEAN, label : Days, file : File]
Push == [stage : {"sent"}, kind : {"push"}, entries : SUBSET Record, deletes : SUBSET Record,
         at : {"append", "delete", "state"}, path : Days \cup {None},
         accepted : SUBSET Ids, rejected : SUBSET Ids]
Message ==
    {NoMsg} \cup Push
    \cup [stage : {"sent"}, kind : {"pull"}]
    \cup [stage : {"sent"}, kind : {"longpoll"}, after : File \cup {None}]
    \cup [stage : {"answer"}, accepted : SUBSET Ids, rejected : SUBSET Ids, delta : Delta]
    \cup [stage : {"answer"}, delta : Delta]
Listing == [skip : Days, files : [Days -> File], trash : SUBSET Record, todo : SUBSET Days]
Phases == {"idle", "pushing", "merge", "pull", "pulling", "list", "listing",
           "fetch", "prune", "reports"}
Sync == [phase : Phases, full : BOOLEAN,
         answer : {None} \cup Delta \cup [skip : Days] \cup Listing]

\* No id is both alive and buried.
Clean(file) == file \in File /\ IdsOf(file.entries) \cap file.tombs = {}

(* ------------------------- inductive invariant -------------------------- *)

ClocksOK == today \in Days /\ clock \in [Devices -> Days]
HubOK == /\ hub \in [Days -> File] /\ hubTrash \in SUBSET Record
         /\ \A d \in Days : Clean(hub[d])
LocalOK == /\ local \in [Devices -> [Days -> File]]
           /\ localTrash \in [Devices -> SUBSET Record]
           /\ \A v \in Devices, d \in Days : Clean(local[v][d])
BoxOK == /\ outEntries \in [Devices -> SUBSET Record]
         /\ outDeletes \in [Devices -> SUBSET Record]
         /\ tok \in [Devices -> File \cup {None}]
         /\ input \in [Devices -> {None} \cup [op : {"entry", "delete"}, record : Record]]
LinesOK == /\ net \in [Devices -> [Lines -> Message]]
           /\ ghosts \subseteq Push
SyncOK == /\ sync \in [Devices -> Sync]
          /\ \A v \in Devices :
               /\ sync[v].phase = "merge" => sync[v].answer \in Delta
               /\ sync[v].phase = "listing" => sync[v].answer \in [skip : Days]
               /\ sync[v].phase \in {"fetch", "prune"} =>
                    /\ sync[v].answer \in Listing
                    /\ sync[v].answer.skip \notin sync[v].answer.todo
\* While history files are compared the day that is spared is the device's.
SparesToday == \A v \in Devices : InHistory(v) => sync[v].answer.skip = clock[v]
Versions == [Reports -> 0 .. MaxVersion]
Mirror == [list : Versions, todo : SUBSET Reports]
MirrorOK == /\ reports \in Versions /\ copies \in [Devices -> Versions]
            /\ mirror \in [Devices -> {None} \cup Mirror]
\* No copy is ahead of the hub, and a report that is not on the list was
\* never copied.
CopiesBehind ==
    \A v \in Devices, r \in Reports :
        /\ copies[v][r] <= reports[r]
        /\ mirror[v] # None =>
             /\ mirror[v].list[r] = 0 => copies[v][r] = 0
             /\ r \in mirror[v].todo => mirror[v].list[r] # 0
CountsOK == used \subseteq Writable /\ faults \in 0 .. MaxFaults

IInv == /\ ClocksOK /\ HubOK /\ LocalOK /\ BoxOK
        /\ LinesOK /\ SyncOK /\ CountsOK

-----------------------------------------------------------------------------
(* ------------------------------ day files ------------------------------- *)

LEMMA MergedClean ==
    ASSUME NEW f, Clean(f), NEW g \in File
    PROVE  /\ Clean(Merged(f, g))
           /\ f.tombs \subseteq Merged(f, g).tombs
           /\ Known(f) \subseteq Known(Merged(f, g))
<1> DEFINE fresh == g.tombs \ f.tombs
           won == {r \in g.entries : r.id \notin f.tombs}
           h == Merged(f, g)
<1>1. /\ f.entries \in SUBSET Record /\ f.tombs \in SUBSET Ids
      /\ g.entries \in SUBSET Record /\ g.tombs \in SUBSET Ids
  BY DEF Clean, File
<1>2. /\ h = [f EXCEPT !.entries = h.entries, !.tombs = h.tombs]
      /\ h.entries = {r \in f.entries : r.id \notin fresh \cup IdsOf(won)}
                     \cup {r \in won : r.id \notin fresh}
      /\ h.tombs = f.tombs \cup fresh
  BY DEF Merged, Clean, File
<1>3. h \in File
  <2>1. h.entries \in SUBSET Record /\ h.tombs \in SUBSET Ids
    BY <1>1, <1>2
  <2> HIDE DEF h
  <2>2. QED
    BY <1>2, <2>1 DEF Clean, File
<1> HIDE DEF h, fresh
<1>4. IdsOf(h.entries) \cap h.tombs = {}
  BY <1>2 DEF Clean, IdsOf
<1>5. Known(f) \subseteq Known(h)
  <2>1. ASSUME NEW r \in f.entries PROVE r.id \in Known(h)
    <3>1. CASE r.id \in fresh
      BY <1>2, <3>1 DEF Known
    <3>2. CASE r.id \notin fresh /\ r.id \in IdsOf(won)
      <4>1. PICK q \in won : q.id = r.id
        BY <3>2 DEF IdsOf
      <4>2. q \in h.entries
        BY <1>2, <3>2, <4>1
      <4>3. QED
        BY <4>1, <4>2 DEF Known, IdsOf
    <3>3. CASE r.id \notin fresh \cup IdsOf(won)
      BY <1>2, <3>3 DEF Known, IdsOf
    <3>4. QED
      BY <3>1, <3>2, <3>3
  <2>2. QED
    BY <1>2, <2>1 DEF Known, IdsOf
<1>6. QED
  BY <1>2, <1>3, <1>4, <1>5 DEF Clean, h

LEMMA DeletedClean ==
    ASSUME NEW f, Clean(f), NEW rs \in SUBSET Record
    PROVE  /\ Clean(WithDeletes(f, rs))
           /\ f.tombs \subseteq WithDeletes(f, rs).tombs
           /\ Known(f) \subseteq Known(WithDeletes(f, rs))
<1> DEFINE fresh == IdsOf(rs) \ f.tombs
           g == WithDeletes(f, rs)
<1>1. /\ \A r : r \in g.entries <=> r \in f.entries /\ r.id \notin fresh
      /\ g.tombs = f.tombs \cup fresh
      /\ g \in File
  <2>1. f.entries \in SUBSET Record /\ f.tombs \in SUBSET Ids
        /\ f = [entries |-> f.entries, tombs |-> f.tombs, head |-> f.head]
    BY DEF Clean, File
  <2>2. fresh \in SUBSET Ids
    BY DEF IdsOf, Record
  <2> HIDE DEF fresh
  <2>3. /\ g = [f EXCEPT !.entries = g.entries, !.tombs = g.tombs]
        /\ \A r : r \in g.entries <=> r \in f.entries /\ r.id \notin fresh
        /\ g.tombs = f.tombs \cup fresh
    BY <2>1 DEF WithDeletes, fresh
  <2>4. g.entries \in SUBSET Record /\ g.tombs \in SUBSET Ids
    BY <2>1, <2>2, <2>3
  <2> HIDE DEF g
  <2>5. g \in File
    BY <2>3, <2>4 DEF Clean, File
  <2>6. QED
    BY <2>3, <2>5
<1> HIDE DEF g
<1>2. IdsOf(g.entries) \cap g.tombs = {}
  BY <1>1 DEF Clean, IdsOf
<1>3. Known(f) \subseteq Known(g)
  BY <1>1 DEF Known, IdsOf
<1>4. QED
  BY <1>1, <1>2, <1>3 DEF Clean, g

LEMMA WrittenClean ==
    ASSUME NEW f, Clean(f), NEW r \in Record, r.id \notin Known(f)
    PROVE  /\ Clean([f EXCEPT !.entries = @ \cup {r}])
           /\ Known(f) \subseteq Known([f EXCEPT !.entries = @ \cup {r}])
  BY DEF Clean, File, IdsOf, Known, Record

LEMMA EntriesClean ==
    ASSUME NEW f, Clean(f), NEW rs \in SUBSET Record
    PROVE  Clean(WithEntries(f, rs))
  BY DEF Clean, File, WithEntries, IdsOf, Known, Record

LEMMA TrashStays ==
    ASSUME NEW bin \in SUBSET Record, NEW rs \in SUBSET Record
    PROVE  WithTrash(bin, rs) \in SUBSET Record
  BY DEF WithTrash

LEMMA EmptyClean == Clean(EmptyFile)
  BY DEF Clean, EmptyFile, File, IdsOf

-----------------------------------------------------------------------------
(* ------------------------------- the steps ------------------------------ *)

InputStep(v) == \/ \E r \in Record : WriteRecord(v, r)
                \/ DeleteLatest(v) \/ Enqueue(v)
PushStep(v) == Flush(v) \/ FullSync(v) \/ Acknowledge(v) \/ MergePush(v)
PullStep(v) == SendPull(v) \/ MergePull(v) \/ SendPoll(v) \/ MergePoll(v)
HistoryStep(v) == \/ StartHistory(v) \/ GetList(v) \/ FetchFile(v) \/ FetchTrash(v)
                  \/ PruneFiles(v) \/ SkipFile(v) \/ LoseList(v)
ReportStep(v) == MirrorStep(v) \/ LoseReports(v) \/ SkipReport(v)
HubStep(v) == ServePush(v) \/ AnswerPush(v) \/ AnswerPull(v) \/ AnswerPoll(v)
OwnerStep(d) == Summarise(d) \/ Import(d)
CutStep(v) == LoseSync(v) \/ LosePoll(v) \/ CrashClient(v)

LEMMA Steps ==
    ASSUME Next
    PROVE  \/ \E v \in Devices : \/ InputStep(v) \/ PushStep(v) \/ PullStep(v)
                                 \/ HistoryStep(v) \/ ReportStep(v)
                                 \/ HubStep(v) \/ CutStep(v)
           \/ \E r \in Reports : GenerateReport(r)
           \/ \E d \in Days : OwnerStep(d)
           \/ ServeGhost \/ Midnight
  BY DEF Next, Step, OwnerStep, SyncStep, PollStep, ServeSync, InputStep, PushStep, PullStep,
         HistoryStep, ReportStep, HubStep, CutStep

-----------------------------------------------------------------------------
(* --------------------------------- the hub ------------------------------ *)

LEMMA SectionServed ==
    ASSUME ClocksOK, HubOK, NEW m \in Push
    PROVE  /\ Reading(m) \in Days /\ Clean(Effect(m))
           /\ Section(m) \in SUBSET Record
           /\ Served(m) \in Push
<1>1. Reading(m) \in Days
  BY DEF Push, Reading, ClocksOK
<1>2. /\ m.entries \in SUBSET Record /\ m.deletes \in SUBSET Record
      /\ Section(m) \in SUBSET Record
  BY DEF Push, Section
<1>3. Clean(hub[Reading(m)])
  BY <1>1 DEF HubOK
<1>4. Clean(Effect(m))
  BY <1>2, <1>3, EntriesClean, DeletedClean DEF Effect
<1>5. IdsOf(Section(m)) \in SUBSET Ids /\ Refused(m) \in SUBSET Ids
  BY <1>2 DEF Refused, Expired, IdsOf, Record
<1>6. Served(m) \in Push
  BY <1>5 DEF Push, Served
<1>7. QED
  BY <1>1, <1>2, <1>4, <1>6

LEMMA PushKeepsHub ==
    ASSUME ClocksOK, HubOK, NEW m \in Push, HubPush(m)
    PROVE  HubOK'
<1>1. Reading(m) \in Days /\ Clean(Effect(m))
  BY SectionServed
<1>2. hub' = [hub EXCEPT ![Reading(m)] = Effect(m)]
  BY DEF HubPush
<1>3. hub' \in [Days -> File] /\ \A d \in Days : Clean(hub'[d])
  BY <1>1, <1>2 DEF HubOK, Clean
<1>4. Clean(hub[Reading(m)]) /\ m.deletes \in SUBSET Record
  BY <1>1 DEF HubOK, Push
<1>5. BodiesOf(hub[Reading(m)], m.deletes) \in SUBSET Record
  BY <1>4 DEF BodiesOf, Clean, File
<1>6. hubTrash' \in SUBSET Record
  BY <1>5, TrashStays DEF HubPush, HubOK
<1>7. QED
  BY <1>3, <1>6 DEF HubOK

\* The owner's changes, of finished days only.
LEMMA OwnerKeepsHub ==
    ASSUME ClocksOK, HubOK, NEW d \in Days, OwnerStep(d)
    PROVE  HubOK' /\ \A e \in Days : e >= today => hub'[e] = hub[e]
<1>1. PICK f : Clean(f) /\ hub' = [hub EXCEPT ![d] = f]
  <2>1. CASE Summarise(d)
    <3>1. Clean(hub[d])
      BY DEF HubOK
    <3>2. Clean([hub[d] EXCEPT !.head = "summary"])
      BY <3>1 DEF Clean, File
    <3>3. QED
      BY <2>1, <3>2 DEF Summarise
  <2>2. CASE Import(d)
    <3>1. \A f \in Imports : Clean(f)
      BY ImportsAssumption DEF Clean, IdsOf
    <3>2. QED
      BY <2>2, <3>1 DEF Import
  <2>3. QED
    BY <2>1, <2>2 DEF OwnerStep
<1>2. f \in File
  BY <1>1 DEF Clean
<1>3. hub' \in [Days -> File] /\ \A e \in Days : hub'[e] = IF e = d THEN f ELSE hub[e]
  BY <1>1, <1>2 DEF HubOK
<1>4. UNCHANGED hubTrash /\ d < today /\ today \in Days
  BY DEF OwnerStep, Summarise, Import, ClocksOK
<1>5. \A e \in Days : e >= today => e # d
  BY <1>4 DEF Days
<1>6. QED
  BY <1>1, <1>3, <1>4, <1>5 DEF HubOK

\* Only a push and the owner change the hub's files.
LEMMA HubStands ==
    ASSUME [Next]_vars, ~ServeGhost, \A v \in Devices : ~ServePush(v),
           \A d \in Days : ~OwnerStep(d)
    PROVE  UNCHANGED <<hub, hubTrash>>
<1>1. CASE UNCHANGED vars
  BY <1>1 DEF vars, hubVars
<1>2. CASE \E r \in Reports : GenerateReport(r)
  BY <1>2 DEF GenerateReport, hubVars
<1>3. CASE Midnight
  BY <1>3 DEF Midnight
<1>4. ASSUME NEW v \in Devices, InputStep(v) PROVE UNCHANGED <<hub, hubTrash>>
  BY <1>4 DEF InputStep, WriteRecord, DeleteLatest, Enqueue, hubVars
<1>5. ASSUME NEW v \in Devices, PushStep(v) PROVE UNCHANGED <<hub, hubTrash>>
  BY <1>5 DEF PushStep, Flush, FullSync, SendPending, Acknowledge, MergePush, hubVars
<1>6. ASSUME NEW v \in Devices, PullStep(v) PROVE UNCHANGED <<hub, hubTrash>>
  BY <1>6 DEF PullStep, SendPull, MergePull, SendPoll, MergePoll, hubVars
<1>7. ASSUME NEW v \in Devices, HistoryStep(v) PROVE UNCHANGED <<hub, hubTrash>>
  BY <1>7 DEF HistoryStep, StartHistory, GetList, FetchFile, FetchTrash, PruneFiles,
              SkipFile, LoseList, hubVars
<1>8. ASSUME NEW v \in Devices, ReportStep(v) PROVE UNCHANGED <<hub, hubTrash>>
  BY <1>8 DEF ReportStep, MirrorStep, ListReports, FetchReport, PruneReports,
              LoseReports, SkipReport, hubVars
<1>9. ASSUME NEW v \in Devices, CutStep(v) PROVE UNCHANGED <<hub, hubTrash>>
  BY <1>9 DEF CutStep, LoseSync, LosePoll, CrashClient, hubVars
<1>10. ASSUME NEW v \in Devices, AnswerPush(v) \/ AnswerPull(v) \/ AnswerPoll(v)
       PROVE  UNCHANGED <<hub, hubTrash>>
  BY <1>10 DEF AnswerPush, AnswerPull, AnswerPoll, hubVars
<1>11. QED
  BY <1>1, <1>2, <1>3, <1>4, <1>5, <1>6, <1>7, <1>8, <1>9, <1>10, Steps DEF HubStep

LEMMA OnSyncLine ==
    ASSUME LinesOK, NEW v \in Devices, Pushing(v)
    PROVE  net[v]["sync"] \in Push
  BY DEF LinesOK, Pushing, Message, NoMsg, Lines

LEMMA HubMoves ==
    ASSUME LinesOK, [Next]_vars
    PROVE  \/ UNCHANGED <<hub, hubTrash>>
           \/ \E m \in Push : HubPush(m) /\ m \in Pushes
           \/ \E d \in Days : OwnerStep(d)
<1>1. CASE ServeGhost
  BY <1>1 DEF ServeGhost, LinesOK, Pushes
<1>2. ASSUME NEW v \in Devices, ServePush(v)
      PROVE  net[v]["sync"] \in Push \cap Pushes /\ HubPush(net[v]["sync"])
  BY <1>2, OnSyncLine DEF ServePush, Pushes
<1>3. QED
  BY <1>1, <1>2, HubStands

LEMMA HubInv == ClocksOK /\ HubOK /\ LinesOK /\ [Next]_vars => HubOK'
<1> SUFFICES ASSUME ClocksOK, HubOK, LinesOK, [Next]_vars PROVE HubOK'
  OBVIOUS
<1>1. CASE UNCHANGED <<hub, hubTrash>>
  BY <1>1 DEF HubOK
<1>2. QED
  BY <1>1, HubMoves, PushKeepsHub, OwnerKeepsHub

-----------------------------------------------------------------------------
(* ----------------------------- a device's files ------------------------- *)

LEMMA ClocksStand ==
    ASSUME [Next]_vars, ~Midnight
    PROVE  UNCHANGED <<today, clock>>
<1>1. CASE UNCHANGED vars
  BY <1>1 DEF vars, hubVars, devVars
<1>2. CASE \E r \in Reports : GenerateReport(r)
  BY <1>2 DEF GenerateReport, hubVars, devVars
<1>3. CASE ServeGhost
  BY <1>3 DEF ServeGhost, HubPush, devVars
<1>4. ASSUME NEW v \in Devices, InputStep(v) PROVE UNCHANGED <<today, clock>>
  BY <1>4 DEF InputStep, WriteRecord, DeleteLatest, Enqueue, hubVars
<1>5. ASSUME NEW v \in Devices, PushStep(v) PROVE UNCHANGED <<today, clock>>
  BY <1>5 DEF PushStep, Flush, FullSync, SendPending, Acknowledge, MergePush, hubVars
<1>6. ASSUME NEW v \in Devices, PullStep(v) PROVE UNCHANGED <<today, clock>>
  BY <1>6 DEF PullStep, SendPull, MergePull, SendPoll, MergePoll, hubVars, devVars
<1>7. ASSUME NEW v \in Devices, HistoryStep(v) PROVE UNCHANGED <<today, clock>>
  BY <1>7 DEF HistoryStep, StartHistory, GetList, FetchFile, FetchTrash, PruneFiles,
              SkipFile, LoseList, hubVars, devVars
<1>8. ASSUME NEW v \in Devices, ReportStep(v) PROVE UNCHANGED <<today, clock>>
  BY <1>8 DEF ReportStep, MirrorStep, ListReports, FetchReport, PruneReports,
              LoseReports, SkipReport, hubVars, devVars
<1>9. ASSUME NEW v \in Devices, HubStep(v) PROVE UNCHANGED <<today, clock>>
  BY <1>9 DEF HubStep, ServePush, AnswerPush, HubPush, AnswerPull, AnswerPoll, hubVars, devVars
<1>10. ASSUME NEW v \in Devices, CutStep(v) PROVE UNCHANGED <<today, clock>>
  BY <1>10 DEF CutStep, LoseSync, LosePoll, CrashClient, hubVars, devVars
<1>11. ASSUME NEW d \in Days, OwnerStep(d) PROVE UNCHANGED <<today, clock>>
  BY <1>11 DEF OwnerStep, Summarise, Import, devVars
<1>12. QED
  BY <1>1, <1>2, <1>3, <1>4, <1>5, <1>6, <1>7, <1>8, <1>9, <1>10, <1>11, Steps

LEMMA ClocksInv == ClocksOK /\ [Next]_vars => ClocksOK'
<1> SUFFICES ASSUME ClocksOK, [Next]_vars PROVE ClocksOK'
  OBVIOUS
<1>1. CASE Midnight
  BY <1>1 DEF Midnight, HubMidnight, ClocksOK, Days
<1>2. CASE ~Midnight
  BY <1>2, ClocksStand DEF ClocksOK
<1>3. QED
  BY <1>1, <1>2

\* What a step may do to the file of a device's day.
Grown(f, g) == f.tombs \subseteq g.tombs /\ Known(f) \subseteq Known(g)

LEMMA Untouched ==
    ASSUME LocalOK, UNCHANGED local, localTrash' \in [Devices -> SUBSET Record]
    PROVE  LocalOK' /\ \A v \in Devices, d \in Days : Grown(local[v][d], local'[v][d])
  BY DEF LocalOK, Grown

\* One file of one device is replaced.
LEMMA OneFile ==
    ASSUME LocalOK, NEW v \in Devices, NEW d \in Days, NEW g, Clean(g),
           local' = [local EXCEPT ![v][d] = g],
           localTrash' \in [Devices -> SUBSET Record]
    PROVE  /\ LocalOK'
           /\ \A w \in Devices, e \in Days :
                w # v \/ e # d \/ Grown(local[v][d], g) => Grown(local[w][e], local'[w][e])
<1>1. g \in File
  BY DEF Clean
<1>2. local' \in [Devices -> [Days -> File]]
  BY <1>1 DEF LocalOK
<1>3. \A w \in Devices, e \in Days :
        local'[w][e] = IF w = v /\ e = d THEN g ELSE local[w][e]
  BY DEF LocalOK
<1>4. QED
  BY <1>2, <1>3 DEF LocalOK, Grown

LEMMA ApplyKeeps ==
    ASSUME LocalOK, BoxOK, ClocksOK, NEW v \in Devices, NEW delta \in Delta,
           ApplyDelta(v, delta)
    PROVE  /\ LocalOK' /\ tok' \in [Devices -> File \cup {None}]
           /\ \A w \in Devices, e \in Days : Grown(local[w][e], local'[w][e])
<1>1. delta.label \in Days /\ delta.file \in File
  BY DEF Delta
<1>2. tok' \in [Devices -> File \cup {None}]
  BY <1>1 DEF ApplyDelta, TokenOf, BoxOK
<1>3. CASE delta.fresh /\ delta.label = clock[v]
  <2> DEFINE f == local[v][delta.label]
             g == Merged(f, delta.file)
  <2>1. Clean(f)
    BY <1>1 DEF LocalOK
  <2>2. Clean(g) /\ Grown(f, g)
    BY <1>1, <2>1, MergedClean DEF Grown
  <2>3. Displaced(f, delta.file) \in SUBSET Record
    BY <2>1 DEF Displaced, Clean, File
  <2>4. WithTrash(localTrash[v], Displaced(f, delta.file)) \in SUBSET Record
    BY <2>3, TrashStays DEF LocalOK
  <2>5. /\ local' = [local EXCEPT ![v][delta.label] = g]
        /\ localTrash' \in [Devices -> SUBSET Record]
    BY <1>3, <2>4 DEF ApplyDelta, LocalOK
  <2> HIDE DEF f, g
  <2>6. QED
    BY <1>1, <1>2, <2>2, <2>5, OneFile DEF f
<1>4. CASE ~(delta.fresh /\ delta.label = clock[v])
  BY <1>2, <1>4, Untouched DEF ApplyDelta, LocalOK
<1>5. QED
  BY <1>3, <1>4

\* A message on a line is one of the kinds its stage and kind say.
LEMMA OnLine ==
    ASSUME LinesOK, NEW v \in Devices, NEW c \in Lines
    PROVE  /\ net[v][c] \in Message
           /\ net[v][c].stage = "sent" /\ net[v][c].kind = "push" =>
                net[v][c] \in Push
<1>1. net[v][c] \in Message
  BY DEF LinesOK
<1>2. QED
  BY <1>1 DEF Message, NoMsg

\* No day's file shrinks, but in the clean-up of history files.
AllGrow == \A v \in Devices, d \in Days : Grown(local[v][d], local'[v][d])
TodaysGrow == \A v \in Devices : Grown(local[v][clock[v]], local'[v][clock[v]])

LEMMA InputLocal ==
    ASSUME LocalOK, ClocksOK, NEW v \in Devices, InputStep(v)
    PROVE  LocalOK' /\ AllGrow
<1> DEFINE f == local[v][clock[v]]
<1>1. Clean(f) /\ clock[v] \in Days
  BY DEF LocalOK, ClocksOK
<1>2. ASSUME NEW r \in Record, WriteRecord(v, r) PROVE LocalOK' /\ AllGrow
  <2> DEFINE g == [f EXCEPT !.entries = @ \cup {r}]
  <2>1. Clean(g) /\ Grown(f, g)
    BY <1>1, <1>2, WrittenClean DEF WriteRecord, Grown, Clean, File
  <2>2. local' = [local EXCEPT ![v][clock[v]] = g] /\ localTrash' = localTrash
    <3>1. local' = [local EXCEPT ![v] = [local[v] EXCEPT ![clock[v]] = g]]
      BY <1>1, <1>2 DEF WriteRecord, LocalOK
    <3>2. QED
      BY <3>1, <1>2 DEF WriteRecord
  <2> HIDE DEF f, g
  <2>3. localTrash' \in [Devices -> SUBSET Record]
    BY <2>2 DEF LocalOK
  <2>4. QED
    BY <1>1, <2>1, <2>2, <2>3, OneFile DEF AllGrow, f
<1>3. CASE DeleteLatest(v)
  <2>1. PICK r \in f.entries :
          /\ local' = [local EXCEPT ![v][clock[v]] = WithDeletes(f, {r})]
          /\ localTrash' = [localTrash EXCEPT ![v] = WithTrash(@, {r})]
    BY <1>3 DEF DeleteLatest, Latest
  <2>2. {r} \in SUBSET Record
    BY <1>1 DEF Clean, File
  <2> DEFINE g == WithDeletes(f, {r})
  <2>3. Clean(g) /\ Grown(f, g)
    BY <1>1, <2>2, DeletedClean DEF Grown
  <2>4. WithTrash(localTrash[v], {r}) \in SUBSET Record
    BY <2>2, TrashStays DEF LocalOK
  <2>5. localTrash' \in [Devices -> SUBSET Record]
    BY <2>1, <2>4 DEF LocalOK
  <2>6. local' = [local EXCEPT ![v][clock[v]] = g]
    BY <2>1
  <2> HIDE DEF f, g
  <2>7. QED
    BY <1>1, <2>3, <2>5, <2>6, OneFile DEF AllGrow, f
<1>4. CASE Enqueue(v)
  BY <1>4, Untouched DEF Enqueue, AllGrow, LocalOK
<1>5. QED
  BY <1>2, <1>3, <1>4 DEF InputStep

LEMMA PushLocal ==
    ASSUME LocalOK, BoxOK, ClocksOK, SyncOK, NEW v \in Devices, PushStep(v)
    PROVE  LocalOK' /\ AllGrow
<1>1. CASE Flush(v) \/ FullSync(v) \/ Acknowledge(v)
  BY <1>1, Untouched DEF Flush, FullSync, SendPending, Acknowledge, AllGrow, LocalOK
<1>2. CASE MergePush(v)
  BY <1>2, ApplyKeeps DEF MergePush, SyncOK, AllGrow
<1>3. QED
  BY <1>1, <1>2 DEF PushStep

LEMMA PullLocal ==
    ASSUME LocalOK, BoxOK, ClocksOK, LinesOK, SyncOK, NEW v \in Devices, PullStep(v)
    PROVE  LocalOK' /\ AllGrow
<1>1. CASE SendPull(v) \/ SendPoll(v)
  BY <1>1, Untouched DEF SendPull, SendPoll, devVars, AllGrow, LocalOK
<1>2. CASE MergePull(v)
  <2>1. net[v]["sync"] \in Message /\ net[v]["sync"].stage = "answer"
    BY <1>2, OnLine DEF Lines, MergePull
  <2>2. net[v]["sync"].delta \in Delta
    BY <2>1 DEF Message, Push, NoMsg
  <2>3. QED
    BY <1>2, <2>2, ApplyKeeps DEF MergePull, AllGrow
<1>3. CASE MergePoll(v)
  <2>1. net[v]["poll"] \in Message /\ net[v]["poll"].stage = "answer"
    BY <1>3, OnLine DEF Lines, MergePoll
  <2>2. net[v]["poll"].delta \in Delta
    BY <2>1 DEF Message, Push, NoMsg
  <2>3. QED
    BY <1>3, <2>2, ApplyKeeps DEF MergePoll, AllGrow
<1>4. QED
  BY <1>1, <1>2, <1>3 DEF PullStep

LEMMA HistoryLocal ==
    ASSUME LocalOK, HubOK, ClocksOK, SyncOK, NEW v \in Devices, HistoryStep(v)
    PROVE  LocalOK' /\ (SparesToday => TodaysGrow)
<1>1. CASE StartHistory(v) \/ GetList(v) \/ SkipFile(v) \/ LoseList(v)
  BY <1>1, Untouched DEF StartHistory, GetList, SkipFile, LoseList, devVars,
     TodaysGrow, LocalOK, ClocksOK
<1>2. CASE FetchTrash(v)
  <2>1. localTrash' \in [Devices -> SUBSET Record]
    BY <1>2 DEF FetchTrash, LocalOK, HubOK
  <2>2. QED
    BY <1>2, <2>1, Untouched DEF FetchTrash, TodaysGrow, ClocksOK
<1>3. CASE FetchFile(v)
  <2>1. localTrash' \in [Devices -> SUBSET Record]
    BY <1>3 DEF FetchFile, LocalOK
  <2>2. CASE UNCHANGED local
    BY <2>1, <2>2, Untouched DEF TodaysGrow, ClocksOK
  <2>3. CASE local' # local
    <3>1. PICK d \in First(sync[v].answer.todo) :
             local' = [local EXCEPT ![v][d] = hub[d]]
      BY <1>3, <2>3 DEF FetchFile
    <3>2. d \in sync[v].answer.todo /\ sync[v].answer \in Listing
          /\ sync[v].answer.skip \notin sync[v].answer.todo /\ InHistory(v)
      BY <1>3, <3>1 DEF First, FetchFile, SyncOK, InHistory
    <3>3. d \in Days /\ (SparesToday => d # clock[v])
      BY <3>2 DEF Listing, SparesToday
    <3>4. Clean(hub[d])
      BY <3>3 DEF HubOK
    <3>5. /\ LocalOK'
          /\ \A w \in Devices, e \in Days :
               w # v \/ e # d => Grown(local[w][e], local'[w][e])
      BY <2>1, <3>1, <3>3, <3>4, OneFile
    <3>6. \A w \in Devices : clock[w] \in Days
      BY DEF ClocksOK
    <3>7. QED
      BY <3>3, <3>5, <3>6 DEF TodaysGrow
  <2>4. QED
    BY <2>2, <2>3
<1>4. CASE PruneFiles(v)
  <2>1. \A w \in Devices : local'[w] =
          IF w = v THEN [d \in Days |-> IF d \in Extra(v) THEN EmptyFile ELSE local[v][d]]
                   ELSE local[w]
    BY <1>4 DEF PruneFiles, LocalOK
  <2>2. local' \in [Devices -> [Days -> File]]
    BY <1>4, EmptyClean DEF PruneFiles, LocalOK, Clean
  <2>3. \A w \in Devices, d \in Days :
          \/ local'[w][d] = local[w][d]
          \/ local'[w][d] = EmptyFile /\ w = v /\ d \in Extra(v)
    BY <2>1
  <2>4. localTrash' \in [Devices -> SUBSET Record]
    BY <1>4 DEF PruneFiles, LocalOK
  <2>5. LocalOK'
    BY <2>2, <2>3, <2>4, EmptyClean DEF LocalOK
  <2>6. SparesToday => clock[v] \notin Extra(v)
    BY <1>4 DEF PruneFiles, SparesToday, InHistory, Extra
  <2>7. QED
    BY <2>3, <2>5, <2>6 DEF TodaysGrow, Grown, ClocksOK
<1>5. QED
  BY <1>1, <1>2, <1>3, <1>4 DEF HistoryStep

LEMMA OtherLocal ==
    ASSUME LocalOK, [Next]_vars,
           \A v \in Devices : ~InputStep(v) /\ ~PushStep(v) /\ ~PullStep(v) /\ ~HistoryStep(v)
    PROVE  LocalOK' /\ AllGrow
<1> SUFFICES UNCHANGED <<local, localTrash>>
  BY Untouched DEF AllGrow, LocalOK
<1>1. CASE UNCHANGED vars
  BY <1>1 DEF vars, devVars
<1>2. CASE \E r \in Reports : GenerateReport(r)
  BY <1>2 DEF GenerateReport, devVars
<1>3. CASE ServeGhost
  BY <1>3 DEF ServeGhost, devVars
<1>4. CASE Midnight
  BY <1>4 DEF Midnight
<1>5. ASSUME NEW v \in Devices, ReportStep(v) PROVE UNCHANGED <<local, localTrash>>
  BY <1>5 DEF ReportStep, MirrorStep, ListReports, FetchReport, PruneReports,
              LoseReports, SkipReport, devVars
<1>6. ASSUME NEW v \in Devices, HubStep(v) PROVE UNCHANGED <<local, localTrash>>
  BY <1>6 DEF HubStep, ServePush, AnswerPush, AnswerPull, AnswerPoll, devVars
<1>7. ASSUME NEW v \in Devices, CutStep(v) PROVE UNCHANGED <<local, localTrash>>
  BY <1>7 DEF CutStep, LoseSync, LosePoll, CrashClient, devVars
<1>8. ASSUME NEW d \in Days, OwnerStep(d) PROVE UNCHANGED <<local, localTrash>>
  BY <1>8 DEF OwnerStep, Summarise, Import, devVars
<1>9. QED
  BY <1>1, <1>2, <1>3, <1>4, <1>5, <1>6, <1>7, <1>8, Steps

LEMMA LocalInv ==
    ASSUME IInv, [Next]_vars
    PROVE  LocalOK' /\ (SparesToday => TodaysGrow)
<1>1. AllGrow => TodaysGrow
  BY DEF AllGrow, TodaysGrow, IInv, ClocksOK
<1>2. QED
  BY <1>1, InputLocal, PushLocal, PullLocal, HistoryLocal, OtherLocal DEF IInv

-----------------------------------------------------------------------------
(* --------------------- outboxes, tokens, input threads ------------------ *)

boxVars == <<outEntries, outDeletes, tok, input>>

LEMMA InputBox ==
    ASSUME BoxOK, LocalOK, ClocksOK, NEW v \in Devices, InputStep(v)
    PROVE  BoxOK'
<1>1. ASSUME NEW r \in Record, NEW o \in {"entry", "delete"},
             input' = [input EXCEPT ![v] = [op |-> o, record |-> r]],
             UNCHANGED <<outEntries, outDeletes, tok>>
      PROVE  BoxOK'
  BY <1>1 DEF BoxOK
<1>2. ASSUME NEW r \in Record, WriteRecord(v, r) PROVE BoxOK'
  BY <1>1, <1>2 DEF WriteRecord
<1>3. CASE DeleteLatest(v)
  <2>1. Clean(local[v][clock[v]])
    BY DEF LocalOK, ClocksOK
  <2>2. \A r \in Latest(local[v][clock[v]]) : r \in Record
    BY <2>1 DEF Latest, Clean, File
  <2>3. QED
    BY <1>1, <1>3, <2>2 DEF DeleteLatest
<1>4. CASE Enqueue(v)
  <2>1. input[v].record \in Record /\ input[v].op \in {"entry", "delete"}
    BY <1>4 DEF Enqueue, BoxOK
  <2>2. /\ QueuedEntries(v, input[v].record) \in SUBSET Record
        /\ QueuedDeletes(v, input[v].record) \in SUBSET Record
    BY <2>1 DEF BoxOK, QueuedEntries, QueuedDeletes, Queued
  <2>3. CASE input[v].op = "entry"
    BY <1>4, <2>2, <2>3 DEF Enqueue, BoxOK
  <2>4. CASE input[v].op = "delete"
    BY <1>4, <2>2, <2>4 DEF Enqueue, BoxOK
  <2>5. QED
    BY <2>1, <2>3, <2>4
<1>5. QED
  BY <1>2, <1>3, <1>4 DEF InputStep

LEMMA SendPendingBox ==
    ASSUME BoxOK, NEW v \in Devices, NEW full \in BOOLEAN, SendPending(v, full)
    PROVE  BoxOK'
  BY DEF SendPending, Current, BoxOK

LEMMA PushBox ==
    ASSUME BoxOK, LocalOK, ClocksOK, SyncOK, NEW v \in Devices, PushStep(v)
    PROVE  BoxOK'
<1>1. CASE Flush(v) \/ FullSync(v)
  BY <1>1, SendPendingBox DEF Flush, FullSync
<1>2. CASE Acknowledge(v)
  BY <1>2 DEF Acknowledge, BoxOK
<1>3. CASE MergePush(v)
  BY <1>3, ApplyKeeps DEF MergePush, SyncOK, BoxOK
<1>4. QED
  BY <1>1, <1>2, <1>3 DEF PushStep

LEMMA AnswersAreDeltas ==
    ASSUME LinesOK, NEW v \in Devices, NEW c \in Lines, net[v][c].stage = "answer"
    PROVE  net[v][c].delta \in Delta
  BY OnLine DEF Message, Push, NoMsg

LEMMA PullBox ==
    ASSUME BoxOK, LocalOK, ClocksOK, LinesOK, NEW v \in Devices, PullStep(v)
    PROVE  BoxOK'
<1>1. CASE SendPull(v) \/ SendPoll(v)
  BY <1>1 DEF SendPull, SendPoll, devVars, BoxOK
<1>2. CASE MergePull(v)
  BY <1>2, AnswersAreDeltas, ApplyKeeps DEF MergePull, Lines, BoxOK
<1>3. CASE MergePoll(v)
  BY <1>3, AnswersAreDeltas, ApplyKeeps DEF MergePoll, Lines, BoxOK
<1>4. QED
  BY <1>1, <1>2, <1>3 DEF PullStep

LEMMA BoxInv == ASSUME IInv, [Next]_vars PROVE BoxOK'
<1>1. CASE UNCHANGED boxVars
  BY <1>1 DEF IInv, BoxOK, boxVars
<1>2. CASE UNCHANGED vars
  BY <1>1, <1>2 DEF vars, devVars, boxVars
<1>3. CASE \E r \in Reports : GenerateReport(r)
  BY <1>1, <1>3 DEF GenerateReport, devVars, boxVars
<1>4. CASE ServeGhost
  BY <1>1, <1>4 DEF ServeGhost, devVars, boxVars
<1>5. CASE Midnight
  BY <1>1, <1>5 DEF Midnight, boxVars
<1>6. ASSUME NEW v \in Devices, HistoryStep(v) PROVE BoxOK'
  BY <1>1, <1>6 DEF HistoryStep, StartHistory, GetList, FetchFile, FetchTrash, PruneFiles,
              SkipFile, LoseList, devVars, boxVars
<1>7. ASSUME NEW v \in Devices, ReportStep(v) PROVE BoxOK'
  BY <1>1, <1>7 DEF ReportStep, MirrorStep, ListReports, FetchReport, PruneReports,
              LoseReports, SkipReport, devVars, boxVars
<1>8. ASSUME NEW v \in Devices, HubStep(v) PROVE BoxOK'
  BY <1>1, <1>8 DEF HubStep, ServePush, AnswerPush, AnswerPull, AnswerPoll, devVars, boxVars
<1>9. ASSUME NEW v \in Devices, LoseSync(v) \/ LosePoll(v) PROVE BoxOK'
  BY <1>1, <1>9 DEF LoseSync, LosePoll, devVars, boxVars
<1>10. ASSUME NEW v \in Devices, CrashClient(v) PROVE BoxOK'
  BY <1>10 DEF CrashClient, IInv, BoxOK
<1>11. ASSUME NEW d \in Days, OwnerStep(d) PROVE BoxOK'
  BY <1>1, <1>11 DEF OwnerStep, Summarise, Import, devVars, boxVars
<1>12. QED
  BY <1>2, <1>3, <1>4, <1>5, <1>6, <1>7, <1>8, <1>9, <1>10, <1>11, Steps,
     InputBox, PushBox, PullBox DEF IInv, CutStep

-----------------------------------------------------------------------------
(* ------------------------------- the lines ------------------------------ *)

LEMMA PutLine ==
    ASSUME LinesOK, NEW v \in Devices, NEW c \in Lines, NEW m \in Message,
           net' = [net EXCEPT ![v][c] = m], ghosts' \subseteq Push
    PROVE  LinesOK'
<1>1. net' = [net EXCEPT ![v] = [net[v] EXCEPT ![c] = m]]
  OBVIOUS
<1>2. [net[v] EXCEPT ![c] = m] \in [Lines -> Message]
  BY DEF LinesOK
<1>3. QED
  BY <1>1, <1>2 DEF LinesOK

LEMMA SimpleMessages ==
    /\ NoMsg \in Message
    /\ [stage |-> "sent", kind |-> "pull"] \in Message
    /\ "sync" \in Lines /\ "poll" \in Lines
  BY DEF Message, Lines

LEMMA SendPendingLines ==
    ASSUME BoxOK, LinesOK, NEW v \in Devices, NEW full \in BOOLEAN, SendPending(v, full)
    PROVE  LinesOK'
<1> DEFINE push == [stage |-> "sent", kind |-> "push",
                    entries |-> Current(v, outEntries[v]),
                    deletes |-> Current(v, outDeletes[v]),
                    at |-> IF Current(v, outEntries[v]) = {} THEN "delete" ELSE "append",
                    path |-> None, accepted |-> {}, rejected |-> {}]
<1>1. push \in Message
  <2>1. /\ Current(v, outEntries[v]) \in SUBSET Record
        /\ Current(v, outDeletes[v]) \in SUBSET Record
    BY DEF BoxOK, Current
  <2>2. push \in Push
    BY <2>1 DEF Push
  <2>3. QED
    BY <2>2 DEF Message
<1>2. net' = net \/ net' = [net EXCEPT ![v]["sync"] = push]
  BY DEF SendPending
<1>3. ghosts' = ghosts
  BY DEF SendPending
<1> HIDE DEF push
<1>4. CASE net' = net
  BY <1>3, <1>4 DEF LinesOK
<1>5. CASE net' = [net EXCEPT ![v]["sync"] = push]
  BY <1>1, <1>3, <1>5, PutLine, SimpleMessages DEF LinesOK
<1>6. QED
  BY <1>2, <1>4, <1>5

LEMMA ClientLines ==
    ASSUME BoxOK, LinesOK, NEW v \in Devices, PushStep(v) \/ PullStep(v)
    PROVE  LinesOK'
<1>1. CASE Flush(v) \/ FullSync(v)
  BY <1>1, SendPendingLines DEF Flush, FullSync
<1>2. CASE Acknowledge(v)
  BY <1>2, PutLine, SimpleMessages DEF Acknowledge, LinesOK
<1>3. CASE MergePush(v)
  BY <1>3 DEF MergePush, LinesOK
<1>4. CASE SendPull(v)
  BY <1>4, PutLine, SimpleMessages DEF SendPull, LinesOK
<1>5. CASE MergePull(v)
  BY <1>5, PutLine, SimpleMessages DEF MergePull, LinesOK
<1>6. CASE SendPoll(v)
  <2>1. [stage |-> "sent", kind |-> "longpoll", after |-> tok[v]] \in Message
    BY DEF Message, BoxOK
  <2>2. QED
    BY <1>6, <2>1, PutLine, SimpleMessages DEF SendPoll, LinesOK
<1>7. CASE MergePoll(v)
  BY <1>7, PutLine, SimpleMessages DEF MergePoll, LinesOK
<1>8. QED
  BY <1>1, <1>2, <1>3, <1>4, <1>5, <1>6, <1>7 DEF PushStep, PullStep

LEMMA FullStateIsDelta ==
    ASSUME ClocksOK, HubOK, NEW b \in BOOLEAN
    PROVE  FullState \in Delta /\ [FullState EXCEPT !.fresh = b] \in Delta
  BY DEF ClocksOK, HubOK, FullState, Delta

LEMMA HubLines ==
    ASSUME ClocksOK, HubOK, LinesOK, NEW v \in Devices, HubStep(v)
    PROVE  LinesOK'
<1> DEFINE m == net[v]["sync"]
<1>1. CASE ServePush(v)
  <2>1. m \in Push
    BY <1>1, OnSyncLine DEF ServePush
  <2>2. Served(m) \in Message
    BY <2>1, SectionServed DEF Message
  <2>3. net' = [net EXCEPT ![v]["sync"] = Served(m)] /\ ghosts' = ghosts
    BY <1>1 DEF ServePush
  <2>4. QED
    BY <2>2, <2>3, PutLine, SimpleMessages DEF LinesOK
<1>2. CASE AnswerPush(v)
  <2> DEFINE a == [stage |-> "answer", accepted |-> m.accepted,
                   rejected |-> m.rejected, delta |-> FullState]
  <2>1. m \in Push
    BY <1>2, OnSyncLine DEF AnswerPush
  <2>2. a \in Message
    BY <2>1, FullStateIsDelta DEF Message, Push
  <2>3. net' = [net EXCEPT ![v]["sync"] = a] /\ ghosts' = ghosts
    BY <1>2 DEF AnswerPush
  <2> HIDE DEF a
  <2>4. QED
    BY <2>2, <2>3, PutLine, SimpleMessages DEF LinesOK
<1>3. CASE AnswerPull(v)
  <2>1. [stage |-> "answer", delta |-> FullState] \in Message
    BY FullStateIsDelta DEF Message
  <2>2. QED
    BY <1>3, <2>1, PutLine, SimpleMessages DEF AnswerPull, LinesOK
<1>4. CASE AnswerPoll(v)
  <2> DEFINE d == [FullState EXCEPT !.fresh = Changed(net[v]["poll"])]
  <2>1. Changed(net[v]["poll"]) \in BOOLEAN
    BY DEF Changed
  <2>2. d \in Delta
    BY <2>1, FullStateIsDelta
  <2> HIDE DEF d
  <2>3. [stage |-> "answer", delta |-> d] \in Message
    BY <2>2 DEF Message
  <2>4. net' = [net EXCEPT ![v]["poll"] = [stage |-> "answer", delta |-> d]]
        /\ ghosts' = ghosts
    BY <1>4 DEF AnswerPoll, d
  <2>5. QED
    BY <2>3, <2>4, PutLine, SimpleMessages DEF LinesOK
<1>5. QED
  BY <1>1, <1>2, <1>3, <1>4 DEF HubStep

\* Midnight marks the push it falls into.
LEMMA MidnightLines ==
    ASSUME ClocksOK, LinesOK, Midnight
    PROVE  LinesOK'
<1>1. CASE UNCHANGED <<net, ghosts>>
  BY <1>1 DEF LinesOK
<1>2. ASSUME NEW v \in Devices, Pushing(v), UNCHANGED ghosts,
             net' = [net EXCEPT ![v]["sync"].path = today]
      PROVE  LinesOK'
  <2> DEFINE m == [net[v]["sync"] EXCEPT !.path = today]
  <2>1. m \in Push
    BY <1>2, OnSyncLine DEF Push, ClocksOK
  <2>2. net' = [net EXCEPT ![v]["sync"] = m]
    BY <1>2
  <2>3. m \in Message
    BY <2>1 DEF Message
  <2> HIDE DEF m
  <2>4. ghosts' \subseteq Push /\ "sync" \in Lines
    BY <1>2, SimpleMessages DEF LinesOK
  <2>5. QED
    BY <1>2, <2>2, <2>3, <2>4, PutLine
<1>3. ASSUME NEW m \in ghosts, UNCHANGED net,
             ghosts' = (ghosts \ {m}) \cup {[m EXCEPT !.path = today]}
      PROVE  LinesOK'
  <2>1. m \in Push
    BY DEF LinesOK
  <2>2. [m EXCEPT !.path = today] \in Push
    BY <2>1 DEF Push, ClocksOK
  <2>3. QED
    BY <1>3, <2>2 DEF LinesOK
<1>4. QED
  BY <1>1, <1>2, <1>3 DEF Midnight, HubMidnight

LEMMA GhostLines ==
    ASSUME ClocksOK, HubOK, LinesOK, ServeGhost
    PROVE  LinesOK'
<1>1. PICK m \in ghosts : /\ UNCHANGED net
                          /\ ghosts' \subseteq ghosts \cup {Served(m)}
  BY DEF ServeGhost
<1>2. Served(m) \in Push
  BY SectionServed DEF LinesOK
<1>3. QED
  BY <1>1, <1>2 DEF LinesOK

LEMMA CutLines ==
    ASSUME LinesOK, NEW v \in Devices, CutStep(v)
    PROVE  LinesOK'
<1>1. Orphan(v) \subseteq Push
  BY OnSyncLine DEF Orphan
<1>2. ghosts' \subseteq Push
  BY <1>1 DEF CutStep, LoseSync, LosePoll, CrashClient, LinesOK
<1>3. CASE LoseSync(v) \/ LosePoll(v)
  BY <1>2, <1>3, PutLine, SimpleMessages DEF LoseSync, LosePoll
<1>4. CASE CrashClient(v)
  BY <1>2, <1>4, SimpleMessages DEF CrashClient, LinesOK
<1>5. QED
  BY <1>3, <1>4 DEF CutStep

LEMMA LinesInv == ASSUME IInv, [Next]_vars PROVE LinesOK'
<1>1. CASE UNCHANGED <<net, ghosts>>
  BY <1>1 DEF IInv, LinesOK
<1>2. CASE UNCHANGED vars
  BY <1>1, <1>2 DEF vars, thrVars
<1>3. CASE \E r \in Reports : GenerateReport(r)
  BY <1>1, <1>3 DEF GenerateReport, thrVars
<1>4. CASE ServeGhost \/ Midnight
  BY <1>4, GhostLines, MidnightLines DEF IInv
<1>5. ASSUME NEW d \in Days, OwnerStep(d) PROVE LinesOK'
  BY <1>1, <1>5 DEF OwnerStep, Summarise, Import, thrVars
<1>6. ASSUME NEW v \in Devices, InputStep(v) PROVE LinesOK'
  BY <1>1, <1>6 DEF InputStep, WriteRecord, DeleteLatest, Enqueue, thrVars
<1>7. ASSUME NEW v \in Devices, HistoryStep(v) PROVE LinesOK'
  BY <1>1, <1>7 DEF HistoryStep, StartHistory, GetList, FetchFile, FetchTrash, PruneFiles,
              SkipFile, LoseList
<1>8. ASSUME NEW v \in Devices, ReportStep(v) PROVE LinesOK'
  BY <1>1, <1>8 DEF ReportStep, MirrorStep, ListReports, FetchReport, PruneReports,
              LoseReports, SkipReport, thrVars
<1>9. QED
  BY <1>2, <1>3, <1>4, <1>5, <1>6, <1>7, <1>8, Steps, ClientLines, HubLines, CutLines
     DEF IInv

-----------------------------------------------------------------------------
(* --------------------------- the sync threads --------------------------- *)

\* What SyncOK and SparesToday say of one thread.
ThreadOK(s) == /\ s \in Sync
               /\ s.phase = "merge" => s.answer \in Delta
               /\ s.phase = "listing" => s.answer \in [skip : Days]
               /\ s.phase \in {"fetch", "prune"} =>
                    s.answer \in Listing /\ s.answer.skip \notin s.answer.todo
Spares(s, day) == s.phase \in {"listing", "fetch", "prune"} => s.answer.skip = day

LEMMA PutSync ==
    ASSUME SyncOK, NEW v \in Devices, NEW s, ThreadOK(s),
           sync' = [sync EXCEPT ![v] = s]
    PROVE  SyncOK'
  BY DEF SyncOK, ThreadOK

LEMMA PutSpares ==
    ASSUME SyncOK, SparesToday, NEW v \in Devices, NEW s, Spares(s, clock[v]),
           sync' = [sync EXCEPT ![v] = s], UNCHANGED clock
    PROVE  SparesToday'
  BY DEF SyncOK, SparesToday, Spares, InHistory

\* A thread that does not compare history files holds nothing but a delta.
LEMMA PhaseOK ==
    ASSUME NEW s \in Sync, NEW p \in Phases \ {"merge", "listing", "fetch", "prune"},
           NEW b \in BOOLEAN
    PROVE  /\ ThreadOK([s EXCEPT !.phase = p])
           /\ ThreadOK([s EXCEPT !.phase = p, !.full = b])
           /\ ThreadOK([s EXCEPT !.phase = p, !.answer = None])
           /\ \A day : Spares([s EXCEPT !.phase = p], day)
           /\ \A day : Spares([s EXCEPT !.phase = p, !.full = b], day)
           /\ \A day : Spares([s EXCEPT !.phase = p, !.answer = None], day)
  BY DEF ThreadOK, Spares, Sync

LEMMA IdleOK == ThreadOK(IdleSync) /\ \A day : Spares(IdleSync, day)
  BY DEF ThreadOK, Spares, IdleSync, Sync, Phases

LEMMA ThreadNow ==
    ASSUME SyncOK, NEW v \in Devices
    PROVE  sync[v] \in Sync /\ ThreadOK(sync[v])
  BY DEF SyncOK, ThreadOK

LEMMA AfterPushOK ==
    ASSUME NEW full
    PROVE  AfterPush(full) \in Phases \ {"merge", "listing", "fetch", "prune"}
  BY DEF AfterPush, Phases

\* A step either leaves the threads alone or gives one of them a sound state
\* that still spares the device's day.
Moved(v) == \E s : /\ ThreadOK(s)
                   /\ Spares(sync[v], clock[v]) => Spares(s, clock[v])
                   /\ sync' = [sync EXCEPT ![v] = s]

LEMMA PushMoves ==
    ASSUME SyncOK, LinesOK, NEW v \in Devices, PushStep(v)
    PROVE  Moved(v)
<1>1. ASSUME NEW full \in BOOLEAN, SendPending(v, full) PROVE Moved(v)
  <2>1. \/ sync' = [sync EXCEPT ![v] = [sync[v] EXCEPT !.phase = AfterPush(full), !.full = full]]
        \/ sync' = [sync EXCEPT ![v] = [sync[v] EXCEPT !.phase = "pushing", !.full = full]]
    BY <1>1 DEF SendPending
  <2>2. "pushing" \in Phases \ {"merge", "listing", "fetch", "prune"}
    BY DEF Phases
  <2>3. /\ ThreadOK([sync[v] EXCEPT !.phase = AfterPush(full), !.full = full])
        /\ Spares([sync[v] EXCEPT !.phase = AfterPush(full), !.full = full], clock[v])
    BY AfterPushOK, ThreadNow, PhaseOK
  <2>4. /\ ThreadOK([sync[v] EXCEPT !.phase = "pushing", !.full = full])
        /\ Spares([sync[v] EXCEPT !.phase = "pushing", !.full = full], clock[v])
    BY <2>2, ThreadNow, PhaseOK
  <2>5. QED
    BY <2>1, <2>3, <2>4 DEF Moved
<1>2. CASE Flush(v) \/ FullSync(v)
  BY <1>1, <1>2 DEF Flush, FullSync
<1>3. CASE Acknowledge(v)
  <2> DEFINE m == net[v]["sync"]
  <2>1. m.delta \in Delta
    BY <1>3, AnswersAreDeltas, SimpleMessages DEF Acknowledge
  <2>2. CASE m.rejected # {}
    <3>1. sync' = [sync EXCEPT ![v] = [sync[v] EXCEPT !.phase = AfterPush(sync[v].full),
                                                      !.answer = None]]
      BY <1>3, <2>2 DEF Acknowledge
    <3>2. /\ ThreadOK([sync[v] EXCEPT !.phase = AfterPush(sync[v].full), !.answer = None])
          /\ Spares([sync[v] EXCEPT !.phase = AfterPush(sync[v].full), !.answer = None], clock[v])
      BY AfterPushOK, ThreadNow, PhaseOK
    <3>3. QED
      BY <3>1, <3>2 DEF Moved
  <2>3. CASE m.rejected = {}
    <3>1. sync' = [sync EXCEPT ![v] = [sync[v] EXCEPT !.phase = "merge", !.answer = m.delta]]
      BY <1>3, <2>3 DEF Acknowledge
    <3> HIDE DEF m
    <3>2. /\ ThreadOK([sync[v] EXCEPT !.phase = "merge", !.answer = m.delta])
          /\ Spares([sync[v] EXCEPT !.phase = "merge", !.answer = m.delta], clock[v])
      BY <2>1, ThreadNow DEF ThreadOK, Spares, Sync, Phases
    <3>3. QED
      BY <3>1, <3>2 DEF Moved
  <2>4. QED
    BY <2>2, <2>3
<1>4. CASE MergePush(v)
  <2>1. sync' = [sync EXCEPT ![v] = [sync[v] EXCEPT !.phase = AfterPush(sync[v].full),
                                                    !.answer = None]]
    BY <1>4 DEF MergePush
  <2>2. /\ ThreadOK([sync[v] EXCEPT !.phase = AfterPush(sync[v].full), !.answer = None])
        /\ Spares([sync[v] EXCEPT !.phase = AfterPush(sync[v].full), !.answer = None], clock[v])
    BY AfterPushOK, ThreadNow, PhaseOK
  <2>3. QED
    BY <2>1, <2>2 DEF Moved
<1>5. QED
  BY <1>2, <1>3, <1>4 DEF PushStep

LEMMA PullMoves ==
    ASSUME SyncOK, NEW v \in Devices, PullStep(v)
    PROVE  UNCHANGED sync \/ Moved(v)
<1>1. {"pulling", "list"} \subseteq Phases \ {"merge", "listing", "fetch", "prune"}
  BY DEF Phases
<1>2. ASSUME NEW p \in {"pulling", "list"}, Phase(v, p) PROVE Moved(v)
  <2>1. sync' = [sync EXCEPT ![v] = [sync[v] EXCEPT !.phase = p]]
    BY <1>2 DEF Phase
  <2>2. ThreadOK([sync[v] EXCEPT !.phase = p]) /\ Spares([sync[v] EXCEPT !.phase = p], clock[v])
    BY <1>1, ThreadNow, PhaseOK
  <2>3. QED
    BY <2>1, <2>2 DEF Moved
<1>3. QED
  BY <1>2 DEF PullStep, SendPull, MergePull, SendPoll, MergePoll

LEMMA HistoryMoves ==
    ASSUME SyncOK, ClocksOK, HubOK, NEW v \in Devices, HistoryStep(v)
    PROVE  Moved(v)
<1>1. sync[v] \in Sync /\ ThreadOK(sync[v])
  BY ThreadNow
<1>2. CASE StartHistory(v)
  <2> DEFINE s == [sync[v] EXCEPT !.phase = "listing", !.answer = [skip |-> clock[v]]]
  <2>1. sync' = [sync EXCEPT ![v] = s]
    BY <1>2 DEF StartHistory
  <2>2. [skip |-> clock[v]] \in [skip : Days]
    BY DEF ClocksOK
  <2>3. ThreadOK(s) /\ Spares(s, clock[v])
    BY <1>1, <2>2 DEF ThreadOK, Spares, Sync, Phases
  <2>4. QED
    BY <2>1, <2>3 DEF Moved
<1>3. CASE GetList(v)
  <2> DEFINE a == [skip |-> sync[v].answer.skip, files |-> hub, trash |-> hubTrash,
                   todo |-> {d \in Days \ {sync[v].answer.skip} : hub[d] # EmptyFile}]
             s == [sync[v] EXCEPT !.phase = "fetch", !.answer = a]
  <2>1. sync' = [sync EXCEPT ![v] = s]
    BY <1>3 DEF GetList
  <2>2. sync[v].answer.skip \in Days /\ sync[v].phase = "listing"
    BY <1>1, <1>3 DEF GetList, ThreadOK
  <2>3. a \in Listing /\ a.skip \notin a.todo /\ a.skip = sync[v].answer.skip
    BY <2>2 DEF Listing, HubOK
  <2> HIDE DEF a
  <2>4. ThreadOK(s) /\ (Spares(sync[v], clock[v]) => Spares(s, clock[v]))
    BY <1>1, <2>2, <2>3 DEF ThreadOK, Spares, Sync, Phases
  <2>5. QED
    BY <2>1, <2>4 DEF Moved
\* A day taken off the list, or the end of it.
<1>4. ASSUME NEW d, sync[v].phase = "fetch",
             sync' = [sync EXCEPT ![v].answer.todo = sync[v].answer.todo \ {d}]
      PROVE  Moved(v)
  <2> DEFINE a == [sync[v].answer EXCEPT !.todo = sync[v].answer.todo \ {d}]
             s == [sync[v] EXCEPT !.answer = a]
  <2>1. sync' = [sync EXCEPT ![v] = s]
    BY <1>4
  <2>2. a \in Listing /\ a.skip \notin a.todo /\ a.skip = sync[v].answer.skip
    BY <1>1, <1>4 DEF ThreadOK, Listing
  <2> HIDE DEF a
  <2>3. ThreadOK(s) /\ (Spares(sync[v], clock[v]) => Spares(s, clock[v]))
    BY <1>1, <1>4, <2>2 DEF ThreadOK, Spares, Sync, Phases
  <2>4. QED
    BY <2>1, <2>3 DEF Moved
<1>5. ASSUME sync[v].phase = "fetch", Phase(v, "prune") PROVE Moved(v)
  <2> DEFINE s == [sync[v] EXCEPT !.phase = "prune"]
  <2>1. sync' = [sync EXCEPT ![v] = s]
    BY <1>5 DEF Phase
  <2>2. ThreadOK(s) /\ (Spares(sync[v], clock[v]) => Spares(s, clock[v]))
    BY <1>1, <1>5 DEF ThreadOK, Spares, Sync, Phases
  <2>3. QED
    BY <2>1, <2>2 DEF Moved
<1>6. CASE FetchFile(v) \/ FetchTrash(v) \/ SkipFile(v)
  BY <1>4, <1>5, <1>6 DEF FetchFile, FetchTrash, SkipFile
<1>7. CASE PruneFiles(v) \/ LoseList(v)
  <2>1. sync' = [sync EXCEPT ![v] = [sync[v] EXCEPT !.phase = "reports", !.answer = None]]
    BY <1>7 DEF PruneFiles, LoseList
  <2>2. "reports" \in Phases \ {"merge", "listing", "fetch", "prune"}
    BY DEF Phases
  <2>3. /\ ThreadOK([sync[v] EXCEPT !.phase = "reports", !.answer = None])
        /\ Spares([sync[v] EXCEPT !.phase = "reports", !.answer = None], clock[v])
    BY <1>1, <2>2, PhaseOK
  <2>4. QED
    BY <2>1, <2>3 DEF Moved
<1>8. QED
  BY <1>2, <1>3, <1>6, <1>7 DEF HistoryStep

LEMMA ReportMoves ==
    ASSUME NEW v \in Devices, ReportStep(v) \/ CutStep(v)
    PROVE  UNCHANGED sync \/ Moved(v)
<1>1. UNCHANGED sync \/ sync' = [sync EXCEPT ![v] = IdleSync]
  BY DEF ReportStep, MirrorStep, ListReports, FetchReport, PruneReports,
         LoseReports, SkipReport, EndMirror, CutStep, LoseSync, LosePoll, CrashClient, thrVars
<1>2. QED
  BY <1>1, IdleOK DEF Moved

LEMMA SyncInv ==
    ASSUME IInv, [Next]_vars
    PROVE  /\ SyncOK'
           /\ NoHistoryAtMidnight /\ SparesToday => SparesToday'
<1>1. ASSUME UNCHANGED <<sync, clock>> PROVE SyncOK' /\ (SparesToday => SparesToday')
  BY <1>1 DEF IInv, SyncOK, SparesToday, InHistory
<1>2. ASSUME NEW v \in Devices, Moved(v), UNCHANGED clock
      PROVE  SyncOK' /\ (SparesToday => SparesToday')
  <2>1. PICK s : /\ ThreadOK(s)
                 /\ Spares(sync[v], clock[v]) => Spares(s, clock[v])
                 /\ sync' = [sync EXCEPT ![v] = s]
    BY <1>2 DEF Moved
  <2>2. SparesToday => Spares(sync[v], clock[v])
    BY DEF SparesToday, Spares, InHistory
  <2>3. SyncOK'
    BY <2>1, PutSync DEF IInv
  <2>4. SparesToday => SparesToday'
    BY <1>2, <2>1, <2>2, PutSpares DEF IInv
  <2>5. QED
    BY <2>3, <2>4
<1>3. CASE Midnight
  <2>1. UNCHANGED sync /\ (NoHistoryAtMidnight => \A v \in Devices : ~InHistory(v))
    BY <1>3 DEF Midnight, thrVars, NoHistoryAtMidnight
  <2>2. QED
    BY <2>1 DEF IInv, SyncOK, SparesToday, InHistory
<1>4. CASE ~Midnight
  <2> USE <1>4, ClocksStand
  <2>1. CASE UNCHANGED vars
    BY <1>1, <2>1 DEF vars, thrVars
  <2>2. CASE \E r \in Reports : GenerateReport(r)
    BY <1>1, <2>2 DEF GenerateReport, thrVars
  <2>3. CASE ServeGhost
    BY <1>1, <2>3 DEF ServeGhost
  <2>4. ASSUME NEW v \in Devices, InputStep(v) PROVE UNCHANGED sync
    BY <2>4 DEF InputStep, WriteRecord, DeleteLatest, Enqueue, thrVars
  <2>5. ASSUME NEW v \in Devices, HubStep(v) PROVE UNCHANGED sync
    BY <2>5 DEF HubStep, ServePush, AnswerPush, AnswerPull, AnswerPoll
  <2>6. ASSUME NEW d \in Days, OwnerStep(d) PROVE UNCHANGED sync
    BY <2>6 DEF OwnerStep, Summarise, Import, thrVars
  <2>7. QED
    BY <1>1, <1>2, <2>1, <2>2, <2>3, <2>4, <2>5, <2>6, Steps, PushMoves, PullMoves,
       HistoryMoves, ReportMoves DEF IInv
<1>5. QED
  BY <1>3, <1>4

-----------------------------------------------------------------------------
(* ----------------------------- the bounds ------------------------------- *)

LEMMA CountsInv == ASSUME CountsOK, [Next]_vars PROVE CountsOK'
<1>1. CASE UNCHANGED <<used, faults>>
  BY <1>1 DEF CountsOK
<1>2. ASSUME UNCHANGED used, faults < MaxFaults, faults' = faults + 1 PROVE CountsOK'
  BY <1>2 DEF CountsOK
<1>3. CASE UNCHANGED vars
  BY <1>1, <1>3 DEF vars
<1>4. CASE \E r \in Reports : GenerateReport(r)
  BY <1>1, <1>4 DEF GenerateReport
<1>5. CASE ServeGhost \/ Midnight
  BY <1>1, <1>5 DEF ServeGhost, Midnight
<1>6. ASSUME NEW v \in Devices, InputStep(v) PROVE CountsOK'
  <2>1. ASSUME NEW r \in Record, WriteRecord(v, r) PROVE CountsOK'
    BY <2>1 DEF WriteRecord, CountsOK
  <2>2. CASE DeleteLatest(v) \/ Enqueue(v)
    BY <1>1, <2>2 DEF DeleteLatest, Enqueue
  <2>3. QED
    BY <1>6, <2>1, <2>2 DEF InputStep
<1>7. ASSUME NEW v \in Devices, PushStep(v) \/ PullStep(v) PROVE CountsOK'
  BY <1>1, <1>7 DEF PushStep, Flush, FullSync, SendPending, Acknowledge, MergePush,
                    PullStep, SendPull, MergePull, SendPoll, MergePoll
<1>8. ASSUME NEW v \in Devices, HistoryStep(v) PROVE CountsOK'
  BY <1>1, <1>2, <1>8 DEF HistoryStep, StartHistory, GetList, FetchFile, FetchTrash,
                          PruneFiles, SkipFile, LoseList
<1>9. ASSUME NEW v \in Devices, ReportStep(v) PROVE CountsOK'
  BY <1>1, <1>2, <1>9 DEF ReportStep, MirrorStep, ListReports, FetchReport, PruneReports,
                          LoseReports, SkipReport
<1>10. ASSUME NEW v \in Devices, HubStep(v) \/ CutStep(v) PROVE CountsOK'
  BY <1>1, <1>2, <1>10 DEF HubStep, ServePush, AnswerPush, AnswerPull, AnswerPoll,
                           CutStep, LoseSync, LosePoll, CrashClient
<1>11. ASSUME NEW d \in Days, OwnerStep(d) PROVE CountsOK'
  BY <1>1, <1>11 DEF OwnerStep, Summarise, Import
<1>12. QED
  BY <1>3, <1>4, <1>5, <1>6, <1>7, <1>8, <1>9, <1>10, <1>11, Steps

-----------------------------------------------------------------------------
(* ------------------------- the files: theorems -------------------------- *)

LEMMA InitIInv == Init => IInv /\ SparesToday
<1> SUFFICES ASSUME Init PROVE IInv /\ SparesToday
  OBVIOUS
<1>1. ClocksOK /\ BoxOK /\ CountsOK
  BY DEF Init, ClocksOK, BoxOK, CountsOK, Days
<1>2. HubOK /\ LocalOK
  BY EmptyClean DEF Init, HubOK, LocalOK, Clean
<1>3. LinesOK
  BY SimpleMessages DEF Init, LinesOK
<1>4. SyncOK /\ SparesToday
  BY IdleOK DEF Init, SyncOK, SparesToday, InHistory, ThreadOK, IdleSync
<1>5. QED
  BY <1>1, <1>2, <1>3, <1>4 DEF IInv

LEMMA NextIInv == IInv /\ [Next]_vars => IInv'
  BY ClocksInv, HubInv, LocalInv, BoxInv, LinesInv, SyncInv, CountsInv DEF IInv

LEMMA AlwaysIInv == Spec => []IInv
  BY InitIInv, NextIInv, PTL DEF Spec

LEMMA AlwaysSpares == NoHistoryAtMidnight /\ Spec => []SparesToday
<1>1. NoHistoryAtMidnight /\ IInv /\ SparesToday /\ [Next]_vars => SparesToday'
  BY SyncInv
<1>2. SUFFICES ASSUME NoHistoryAtMidnight PROVE Spec => []SparesToday
  OBVIOUS
<1>3. IInv /\ SparesToday /\ [Next]_vars => (IInv /\ SparesToday)'
  BY <1>1, <1>2, NextIInv
<1>4. QED
  BY <1>3, InitIInv, PTL DEF Spec

\* While its day lasts a deleted entry never comes back on the device, with
\* any devices, records, faults and clocks (journal.apply_delta,
\* sync._apply_delta, sync_history_files).
THEOREM DeletedForGood == NoHistoryAtMidnight /\ Spec => StaysDeleted
<1> SUFFICES ASSUME NoHistoryAtMidnight PROVE Spec => StaysDeleted
  OBVIOUS
<1>1. ASSUME IInv, SparesToday, [Next]_vars
      PROVE  [\A v \in Devices : clock'[v] = clock[v] =>
                LET f == local[v][clock[v]]
                    g == local'[v][clock[v]]
                IN  f.tombs \subseteq g.tombs /\ IdsOf(g.entries) \cap f.tombs = {}]_vars
  <2>1. LocalOK' /\ TodaysGrow
    BY <1>1, LocalInv
  <2> SUFFICES ASSUME NEW v \in Devices
               PROVE  LET f == local[v][clock[v]]
                          g == local'[v][clock[v]]
                      IN  f.tombs \subseteq g.tombs /\ IdsOf(g.entries) \cap f.tombs = {}
    OBVIOUS
  <2>2. local[v][clock[v]].tombs \subseteq local'[v][clock[v]].tombs
    BY <2>1 DEF TodaysGrow, Grown
  <2>3. clock[v] \in Days
    BY <1>1 DEF IInv, ClocksOK
  <2>4. IdsOf(local'[v][clock[v]].entries) \cap local'[v][clock[v]].tombs = {}
    BY <2>1, <2>3 DEF LocalOK, Clean
  <2>5. QED
    BY <2>2, <2>4
<1>2. QED
  BY <1>1, AlwaysIInv, AlwaysSpares, PTL DEF Spec, StaysDeleted

\* A device's file of today never loses an entry but to a tombstone.
THEOREM TodayKept == NoHistoryAtMidnight /\ Spec => TodayIsProtected
<1> SUFFICES ASSUME NoHistoryAtMidnight PROVE Spec => TodayIsProtected
  OBVIOUS
<1>1. ASSUME IInv, SparesToday, [Next]_vars
      PROVE  [\A v \in Devices : clock'[v] = clock[v] =>
                Known(local[v][clock[v]]) \subseteq Known(local'[v][clock[v]])]_vars
  BY <1>1, LocalInv DEF TodaysGrow, Grown
<1>2. QED
  BY <1>1, AlwaysIInv, AlwaysSpares, PTL DEF Spec, TodayIsProtected

-----------------------------------------------------------------------------
(* ------------------------------ the reports ----------------------------- *)

\* Only the mirroring of reports touches the reports, and a crash the list.
LEMMA ReportsStand ==
    ASSUME [Next]_vars,
           \A r \in Reports : ~GenerateReport(r),
           \A v \in Devices : ~ReportStep(v)
    PROVE  \/ UNCHANGED repVars
           \/ /\ UNCHANGED <<reports, copies>>
              /\ \E v \in Devices : mirror' = [mirror EXCEPT ![v] = None]
<1>1. CASE UNCHANGED vars \/ ServeGhost \/ Midnight
  BY <1>1 DEF vars, ServeGhost, Midnight
<1>2. ASSUME NEW v \in Devices, InputStep(v) \/ PushStep(v) \/ PullStep(v)
      PROVE  UNCHANGED repVars
  BY <1>2 DEF InputStep, WriteRecord, DeleteLatest, Enqueue, PushStep, Flush, FullSync,
              SendPending, Acknowledge, MergePush, PullStep, SendPull, MergePull,
              SendPoll, MergePoll
<1>3. ASSUME NEW v \in Devices, HistoryStep(v) \/ HubStep(v) \/ LoseSync(v) \/ LosePoll(v)
      PROVE  UNCHANGED repVars
  BY <1>3 DEF HistoryStep, StartHistory, GetList, FetchFile, FetchTrash, PruneFiles,
              SkipFile, LoseList, HubStep, ServePush, AnswerPush, AnswerPull, AnswerPoll,
              LoseSync, LosePoll
<1>4. ASSUME NEW v \in Devices, CrashClient(v)
      PROVE  UNCHANGED <<reports, copies>> /\ mirror' = [mirror EXCEPT ![v] = None]
  BY <1>4 DEF CrashClient
<1>5. ASSUME NEW d \in Days, OwnerStep(d) PROVE UNCHANGED repVars
  BY <1>5 DEF OwnerStep, Summarise, Import
<1>6. QED
  BY <1>1, <1>2, <1>3, <1>4, <1>5, Steps DEF CutStep

\* What the steps that mirror reports do to the list and the copies.
LEMMA MirrorMoves ==
    ASSUME MirrorOK, NEW v \in Devices, ReportStep(v)
    PROVE  /\ UNCHANGED reports
           /\ \/ /\ UNCHANGED copies /\ mirror' = [mirror EXCEPT ![v] = None]
              \/ \E lost \in Unreadable :
                   LET listed == [r \in Reports |-> IF r \in lost THEN 0 ELSE reports[r]]
                   IN  /\ UNCHANGED copies
                       /\ mirror' = [mirror EXCEPT ![v] =
                            [list |-> listed, todo |-> {r \in Reports : listed[r] # 0}]]
              \/ \E r \in Reports :
                   /\ mirror[v] # None /\ r \in mirror[v].todo
                   /\ mirror' = [mirror EXCEPT ![v].todo = @ \ {r}]
                   /\ copies' = copies \/ copies' = [copies EXCEPT ![v][r] = reports[r]]
              \/ /\ mirror[v] # None
                 /\ mirror' = [mirror EXCEPT ![v] = None]
                 /\ copies' = [copies EXCEPT ![v] =
                      [r \in Reports |-> IF r \in Leftover(v) THEN 0 ELSE @[r]]]
<1>1. CASE LoseReports(v)
  BY <1>1 DEF LoseReports, EndMirror
<1>2. CASE ListReports(v)
  BY <1>2 DEF ListReports
<1>3. CASE FetchReport(v) \/ SkipReport(v)
  <2>1. mirror[v] # None => mirror[v].todo \subseteq Reports
    BY DEF MirrorOK, Mirror
  <2>2. QED
    BY <1>3, <2>1 DEF FetchReport, SkipReport, First
<1>4. CASE PruneReports(v)
  BY <1>4 DEF PruneReports, EndMirror
<1>5. QED
  BY <1>1, <1>2, <1>3, <1>4 DEF ReportStep, MirrorStep

LEMMA MirrorInv ==
    ASSUME MirrorOK, [Next]_vars
    PROVE  /\ MirrorOK'
           /\ AllReadable /\ CopiesBehind =>
                /\ CopiesBehind'
                /\ \A v \in Devices, r \in Reports : copies'[v][r] >= copies[v][r]
<1> DEFINE Kept == \A v \in Devices, r \in Reports : copies'[v][r] >= copies[v][r]
<1>1. \A v \in Devices, r \in Reports : copies[v][r] \in Nat /\ reports[r] \in Nat
  BY DEF MirrorOK, Versions
<1>2. CASE UNCHANGED repVars
  BY <1>1, <1>2 DEF repVars, MirrorOK, CopiesBehind
<1>3. ASSUME NEW v \in Devices, UNCHANGED <<reports, copies>>,
             mirror' = [mirror EXCEPT ![v] = None]
      PROVE  MirrorOK' /\ (CopiesBehind => CopiesBehind' /\ Kept)
  BY <1>1, <1>3 DEF MirrorOK, CopiesBehind
<1>4. ASSUME NEW r \in Reports, GenerateReport(r)
      PROVE  MirrorOK' /\ (CopiesBehind => CopiesBehind' /\ Kept)
  <2>1. /\ UNCHANGED <<copies, mirror>>
        /\ reports' = [reports EXCEPT ![r] = @ + 1] /\ reports[r] < MaxVersion
    BY <1>4 DEF GenerateReport
  <2>2. MirrorOK'
    BY <2>1 DEF MirrorOK, Versions
  <2>3. \A q \in Reports : reports'[q] >= reports[q]
    BY <1>1, <2>1 DEF MirrorOK, Versions
  <2>4. \A q \in Reports : reports'[q] \in Nat
    BY <2>2 DEF MirrorOK, Versions
  <2>5. Kept
    BY <1>1, <2>1
  <2>6. ASSUME CopiesBehind, NEW v \in Devices, NEW q \in Reports
        PROVE  copies'[v][q] <= reports'[q]
    BY <1>1, <2>1, <2>3, <2>4, <2>6 DEF CopiesBehind
  <2>7. CopiesBehind => CopiesBehind'
    BY <2>1, <2>6 DEF CopiesBehind
  <2>8. QED
    BY <2>2, <2>5, <2>7
<1>5. ASSUME NEW v \in Devices, NEW lost \in Unreadable, UNCHANGED <<reports, copies>>,
             NEW listed, listed = [r \in Reports |-> IF r \in lost THEN 0 ELSE reports[r]],
             mirror' = [mirror EXCEPT ![v] =
                          [list |-> listed, todo |-> {r \in Reports : listed[r] # 0}]]
      PROVE  MirrorOK' /\ (AllReadable /\ CopiesBehind => CopiesBehind' /\ Kept)
  <2>1. listed \in Versions
    BY <1>5 DEF MirrorOK, Versions
  <2>2. MirrorOK'
    BY <1>5, <2>1 DEF MirrorOK, Mirror
  <2>3. AllReadable => listed = reports
    BY <1>5 DEF AllReadable, Unreadable, MirrorOK, Versions
  <2>4. QED
    BY <1>1, <1>5, <2>2, <2>3 DEF MirrorOK, CopiesBehind
<1>6. ASSUME NEW v \in Devices, NEW r \in Reports, UNCHANGED reports,
             mirror[v] # None, r \in mirror[v].todo,
             mirror' = [mirror EXCEPT ![v].todo = @ \ {r}],
             copies' = copies \/ copies' = [copies EXCEPT ![v][r] = reports[r]]
      PROVE  MirrorOK' /\ (CopiesBehind => CopiesBehind' /\ Kept)
  <2>1. mirror[v] \in Mirror
    BY <1>6 DEF MirrorOK
  <2>2. [mirror[v] EXCEPT !.todo = @ \ {r}] \in Mirror
    BY <2>1 DEF Mirror
  <2>3. \A w \in Devices, q \in Reports :
          copies'[w][q] = copies[w][q] \/ (w = v /\ q = r /\ copies'[w][q] = reports[r])
    <3>1. CASE copies' = copies
      BY <3>1
    <3>2. CASE copies' = [copies EXCEPT ![v][r] = reports[r]]
      <4>1. copies \in [Devices -> [Reports -> 0 .. MaxVersion]]
        BY DEF MirrorOK, Versions
      <4>2. QED
        BY <3>2, <4>1
    <3>3. QED
      BY <1>6, <3>1, <3>2
  <2>4. copies' \in [Devices -> Versions]
    <3>1. reports[r] \in 0 .. MaxVersion /\ copies[v] \in Versions
      BY DEF MirrorOK, Versions
    <3>2. [copies[v] EXCEPT ![r] = reports[r]] \in Versions
      BY <3>1 DEF Versions
    <3>3. \/ copies' = copies
          \/ copies' = [copies EXCEPT ![v] = [copies[v] EXCEPT ![r] = reports[r]]]
      BY <1>6
    <3>4. QED
      BY <3>2, <3>3 DEF MirrorOK
  <2>5. MirrorOK'
    BY <1>6, <2>2, <2>4 DEF MirrorOK
  <2>6. \A w \in Devices, q \in Reports :
          mirror'[w] # None => /\ mirror[w] # None
                               /\ mirror'[w].list[q] = mirror[w].list[q]
                               /\ mirror'[w].todo \subseteq mirror[w].todo
    BY <1>6, <2>1 DEF MirrorOK, Mirror
  <2>7. QED
    BY <1>1, <1>6, <2>3, <2>5, <2>6 DEF CopiesBehind
<1>7. ASSUME NEW v \in Devices, UNCHANGED reports, mirror[v] # None,
             mirror' = [mirror EXCEPT ![v] = None],
             copies' = [copies EXCEPT ![v] =
                          [r \in Reports |-> IF r \in Leftover(v) THEN 0 ELSE @[r]]]
      PROVE  MirrorOK' /\ (CopiesBehind => CopiesBehind' /\ Kept)
  <2> DEFINE f == [r \in Reports |-> IF r \in Leftover(v) THEN 0 ELSE copies[v][r]]
  <2>1. copies' = [copies EXCEPT ![v] = f]
    BY <1>7
  <2>2. f \in Versions /\ \A q \in Reports :
          f[q] = copies[v][q] \/ (mirror[v].list[q] = 0 /\ f[q] = 0)
    <3>1. copies[v] \in Versions
      BY DEF MirrorOK
    <3>2. QED
      BY <3>1 DEF Versions, Leftover
  <2> HIDE DEF f
  <2>3. \A w \in Devices, q \in Reports :
          copies'[w][q] = copies[w][q] \/ (w = v /\ mirror[v].list[q] = 0 /\ copies'[w][q] = 0)
    <3>1. copies \in [Devices -> Versions]
      BY DEF MirrorOK
    <3>2. QED
      BY <2>1, <2>2, <3>1
  <2>4. MirrorOK'
    BY <1>7, <2>1, <2>2 DEF MirrorOK
  <2>5. \A w \in Devices : mirror'[w] = None \/ mirror'[w] = mirror[w]
    BY <1>7 DEF MirrorOK
  <2>6. ASSUME CopiesBehind PROVE CopiesBehind' /\ Kept
    BY <1>1, <1>7, <2>3, <2>5, <2>6 DEF CopiesBehind
  <2>7. QED
    BY <2>4, <2>6
<1>8. ASSUME NEW v \in Devices, ReportStep(v)
      PROVE  MirrorOK' /\ (AllReadable /\ CopiesBehind => CopiesBehind' /\ Kept)
  BY <1>3, <1>5, <1>6, <1>7, <1>8, MirrorMoves
<1>9. QED
  BY <1>2, <1>3, <1>4, <1>8, ReportsStand

LEMMA MirrorInit == Init => MirrorOK /\ CopiesBehind
  BY DEF Init, MirrorOK, CopiesBehind, Versions

\* The files, outboxes, tokens, copies and counters of any number of devices
\* stay in their types.
THEOREM SyncTypes == Spec => []TypeOK
<1>1. IInv /\ MirrorOK => TypeOK
  BY DEF IInv, ClocksOK, HubOK, LocalOK, BoxOK, CountsOK, MirrorOK, Versions, TypeOK
<1>2. Spec => []MirrorOK
  BY MirrorInit, MirrorInv, PTL DEF Spec
<1>3. QED
  BY <1>1, <1>2, AlwaysIInv, PTL

\* When the hub can read its reports, no device exchanges its copy for an
\* older one or for none, however often a report is generated while the list
\* is worked through (sync.sync_reports).
THEOREM ReportsKept == AllReadable /\ Spec => ReportsNeverLost
<1> SUFFICES ASSUME AllReadable PROVE Spec => ReportsNeverLost
  OBVIOUS
<1> DEFINE Inv == MirrorOK /\ CopiesBehind
<1>1. Init => Inv
  BY MirrorInit
<1>2. Inv /\ [Next]_vars => Inv'
  BY MirrorInv
<1>3. Inv /\ [Next]_vars =>
        [\A v \in Devices, r \in Reports : copies'[v][r] >= copies[v][r]]_vars
  BY MirrorInv
<1>4. QED
  BY <1>1, <1>2, <1>3, PTL DEF Spec, ReportsNeverLost

-----------------------------------------------------------------------------
(* ------------------------- the hub is a day log ------------------------- *)

\* One body per id: in an outbox, in what is sent from it, on the hub.
OneBody(rs) == \A r, q \in rs : r.id = q.id => r = q
Sound(m) == m.stage = "sent" /\ m.kind = "push" => OneBody(m.entries)
\* Midnight has fallen into one write at most.
LateLine(v) == Pushing(v) /\ net[v]["sync"].path # None
OneLate == /\ \A v, w \in Devices : LateLine(v) /\ LateLine(w) => v = w
           /\ \A m, n \in ghosts : m.path # None /\ n.path # None => m = n
           /\ \A v \in Devices, m \in ghosts : m.path # None => ~LateLine(v)
BodiesOK == /\ \A d \in Days : OneBody(hub[d].entries)
            /\ \A v \in Devices : OneBody(outEntries[v])
            /\ \A v \in Devices, c \in Lines : Sound(net[v][c])
            /\ \A m \in ghosts : OneBody(m.entries)
            /\ OneLate

\* One section of a push is a change of the log of one day.
LEMMA PushIsChange ==
    ASSUME ClocksOK, HubOK, BodiesOK, NEW m \in Push, OneBody(m.entries), HubPush(m)
    PROVE  /\ m.path = None => Log!Change(today)
           /\ m.path # None => Log!Change(m.path)
           /\ \A d \in Days : OneBody(hub'[d].entries)
<1> DEFINE day == Reading(m)
           h == hub[day]
           g == Effect(m)
<1>1. day \in Days /\ hub \in [Days -> File] /\ Clean(h) /\ OneBody(h.entries)
      /\ Clean(g)
  BY SectionServed DEF HubOK, BodiesOK
<1>2. OneBody(g.entries) /\ h.tombs \subseteq g.tombs
      /\ \A r \in h.entries : r \in g.entries \/ r.id \in g.tombs
  <2>1. CASE g = h
    BY <1>1, <2>1
  <2>2. CASE g = WithEntries(h, m.entries)
    <3>1. /\ WithEntries(h, m.entries).entries =
               h.entries \cup {r \in m.entries : r.id \notin Known(h)}
          /\ WithEntries(h, m.entries).tombs = h.tombs
      BY <1>1 DEF WithEntries, Clean, File
    <3>2. OneBody(WithEntries(h, m.entries).entries)
      BY <1>1, <3>1 DEF OneBody, Known, IdsOf
    <3> HIDE DEF g, h
    <3>3. QED
      BY <2>2, <3>1, <3>2
  <2>3. CASE g = WithDeletes(h, m.deletes)
    <3> DEFINE fresh == IdsOf(m.deletes) \ h.tombs
    <3>1. /\ WithDeletes(h, m.deletes).entries = {r \in h.entries : r.id \notin fresh}
          /\ WithDeletes(h, m.deletes).tombs = h.tombs \cup fresh
      BY <1>1 DEF WithDeletes, Clean, File
    <3> HIDE DEF fresh
    <3>2. OneBody(WithDeletes(h, m.deletes).entries)
      BY <1>1, <3>1 DEF OneBody
    <3> HIDE DEF g, h
    <3>3. QED
      BY <2>3, <3>1, <3>2
  <2>4. QED
    BY <2>1, <2>2, <2>3 DEF Effect
<1>3. hub' = [hub EXCEPT ![day] = g]
  BY DEF HubPush
<1> HIDE DEF g, day
<1>4. \A d \in Days : hub'[d] = IF d = day THEN g ELSE hub[d]
  BY <1>1, <1>3
<1>5. /\ [d \in Days |-> hub'[d].entries]
             = [[d \in Days |-> hub[d].entries] EXCEPT ![day] = g.entries]
      /\ [d \in Days |-> hub'[d].tombs]
             = [[d \in Days |-> hub[d].tombs] EXCEPT ![day] = g.tombs]
  BY <1>4
<1>6. g.entries \in SUBSET Log!Record /\ g.tombs \in SUBSET Ids
  BY <1>1 DEF Clean, File, Record, Log!Record
<1>7. /\ h.tombs \subseteq g.tombs
      /\ \A r \in h.entries : r \in g.entries \/ r.id \in g.tombs
      /\ \A r \in g.entries : r.id \notin g.tombs
      /\ \A r, q \in g.entries : r.id = q.id => r = q
  BY <1>1, <1>2 DEF Clean, IdsOf, OneBody
<1>8. ASSUME m.path = None PROVE Log!Change(today)
  <2>1. day = today
    BY <1>8 DEF day, Reading
  <2>2. /\ [d \in Days |-> hub'[d].entries]
              = [[d \in Days |-> hub[d].entries] EXCEPT ![today] = g.entries]
        /\ [d \in Days |-> hub'[d].tombs]
              = [[d \in Days |-> hub[d].tombs] EXCEPT ![today] = g.tombs]
        /\ h = hub[today] /\ today \in Days
    BY <2>1, <1>1, <1>5
  <2> HIDE DEF h
  <2>3. QED
    BY <2>2, <1>6, <1>7 DEF Log!Change
<1>9. m.path # None => Log!Change(m.path)
  <2>1. m.path # None => day = m.path
    BY DEF day, Reading
  <2>2. QED
    BY <2>1, <1>1, <1>5, <1>6, <1>7 DEF Log!Change
<1>10. QED
  BY <1>2, <1>4, <1>8, <1>9 DEF BodiesOK

LEMMA LateMembers ==
    /\ LateDays = {net[v]["sync"].path : v \in {w \in Devices : LateLine(w)}}
                  \cup {m.path : m \in {g \in ghosts : g.path # None}}
    /\ LateDays' = {net'[v]["sync"].path : v \in {w \in Devices : LateLine(w)'}}
                   \cup {m.path : m \in {g \in ghosts' : g.path # None}}
  BY DEF LateDays, Late, Pushes, LateLine, Pushing

\* What a step does to one line and to the pushes nobody waits for, when it
\* starts no late write.
NoneLater(v) ==
    /\ \A w \in Devices : w # v => net'[w]["sync"] = net[w]["sync"]
    /\ ~LateLine(v)' \/ UNCHANGED <<net[v]["sync"], ghosts>>
    /\ \A m \in ghosts' : m.path # None =>
          m \in ghosts \/ (Pushing(v) /\ m = net[v]["sync"] /\ ~LateLine(v)')

LEMMA FewerLate ==
    ASSUME OneLate, NEW v \in Devices, NoneLater(v)
    PROVE  OneLate' /\ LateDays' \subseteq LateDays
<1>1. \A w \in Devices : LateLine(w)' => /\ LateLine(w)
                                         /\ net'[w]["sync"] = net[w]["sync"]
                                         /\ w = v => UNCHANGED ghosts
  BY DEF NoneLater, LateLine, Pushing
<1>2. \A m \in ghosts' : m.path # None =>
        m \in ghosts \/ (LateLine(v) /\ m = net[v]["sync"] /\ ~LateLine(v)')
  BY DEF NoneLater, LateLine
<1>3. OneLate'
  BY <1>1, <1>2 DEF OneLate
<1>4. QED
  BY <1>1, <1>2, <1>3, LateMembers

\* Where nothing is written, a late write goes on or comes to nothing.
LEMMA GivesUp ==
    ASSUME OneLate, LateDays' \subseteq LateDays, UNCHANGED <<today, hub>>
    PROVE  Log!Next \/ UNCHANGED Log!vars
<1>1. \A d, e \in LateDays : d = e
  BY LateMembers DEF OneLate
<1>2. LateDays' = LateDays \/ (LateDays # {} /\ LateDays' = {})
  BY <1>1
<1>3. CASE LateDays' = LateDays
  BY <1>3 DEF Log!vars
<1>4. CASE LateDays # {} /\ LateDays' = {}
  BY <1>4 DEF Log!Next, Log!GiveUp
<1>5. QED
  BY <1>2, <1>3, <1>4

\* A section is served: on time, or late.
LEMMA ServedIsLogStep ==
    ASSUME IInv, BodiesOK, NEW m \in Push, OneBody(m.entries), HubPush(m), m \in Pushes,
           LateDays' \subseteq LateDays, m.path # None => LateDays' = {}
    PROVE  Log!Next /\ \A d \in Days : OneBody(hub'[d].entries)
<1>1. (m.path = None => Log!Change(today)) /\ (m.path # None => Log!Change(m.path))
  BY PushIsChange DEF IInv
<1>2. UNCHANGED today /\ (LocksFree \/ m \in Late)
  BY DEF HubPush
<1>3. \A d \in Days : OneBody(hub'[d].entries)
  BY PushIsChange DEF IInv
<1>4. CASE m.path = None
  <2>1. LateDays = {}
    BY <1>2, <1>4 DEF Late, LocksFree
  <2>2. Log!Change(today)
    BY <1>1, <1>4
  <2>3. UNCHANGED <<today, LateDays>>
    BY <1>2, <2>1
  <2>4. Log!Write
    BY <2>2, <2>3 DEF Log!Write
  <2>5. QED
    BY <1>3, <2>4 DEF Log!Next
<1>5. CASE m.path # None
  <2>1. m.path \in LateDays
    BY <1>5 DEF LateDays, Late
  <2>2. Log!Change(m.path)
    BY <1>1, <1>5
  <2>3. Log!WriteLate
    BY <1>2, <1>5, <2>1, <2>2 DEF Log!WriteLate
  <2>4. QED
    BY <1>3, <2>3 DEF Log!Next
<1>6. QED
  BY <1>4, <1>5

LEMMA ServePushLog ==
    ASSUME IInv, BodiesOK, NEW v \in Devices, ServePush(v)
    PROVE  /\ \A d \in Days : OneBody(hub'[d].entries)
           /\ Log!Next /\ OneLate'
<1> DEFINE m == net[v]["sync"]
<1>1. m \in Push /\ HubPush(m) /\ m \in Pushes /\ OneBody(m.entries)
  BY OnSyncLine, SimpleMessages DEF ServePush, IInv, Pushes, BodiesOK, Sound, Pushing
<1>2. net' = [net EXCEPT ![v]["sync"] = Served(m)] /\ UNCHANGED ghosts
  BY DEF ServePush
<1>3. Served(m).path = None
  BY <1>1 DEF Served, Push
<1>4. \A w \in Devices : net'[w]["sync"] = IF w = v THEN Served(m) ELSE net[w]["sync"]
  BY <1>2, SimpleMessages DEF IInv, LinesOK
<1>5. ~LateLine(v)'
  BY <1>3, <1>4 DEF LateLine
<1>6. NoneLater(v)
  BY <1>2, <1>4, <1>5 DEF NoneLater
<1>7. OneLate' /\ LateDays' \subseteq LateDays
  BY <1>6, FewerLate DEF BodiesOK
<1>8. m.path # None => LateDays' = {}
  <2> SUFFICES ASSUME m.path # None PROVE LateDays' = {}
    OBVIOUS
  <2>1. LateLine(v)
    BY DEF LateLine, ServePush
  <2>2. \A w \in Devices : ~LateLine(w)'
    BY <1>4, <1>5, <2>1 DEF OneLate, BodiesOK, LateLine, Pushing
  <2>3. \A g \in ghosts' : g.path = None
    BY <1>2, <2>1 DEF OneLate, BodiesOK
  <2>4. QED
    BY <2>2, <2>3, LateMembers
<1>9. QED
  BY <1>1, <1>7, <1>8, ServedIsLogStep

LEMMA ServeGhostLog ==
    ASSUME IInv, BodiesOK, ServeGhost
    PROVE  /\ \A d \in Days : OneBody(hub'[d].entries)
           /\ Log!Next /\ OneLate'
<1>1. PICK m \in ghosts :
         /\ HubPush(m) /\ UNCHANGED net
         /\ ghosts' = (ghosts \ {m}) \cup {g \in {Served(m)} : g.at # "state"}
  BY DEF ServeGhost
<1>2. m \in Push /\ m \in Pushes /\ OneBody(m.entries)
  BY DEF IInv, LinesOK, Pushes, BodiesOK
<1>3. Served(m).path = None
  BY <1>2 DEF Served, Push
<1>4. \A g \in ghosts' : g.path # None => g \in ghosts /\ g # m
  BY <1>1, <1>3
<1>5. \A w \in Devices : LateLine(w)' <=> LateLine(w)
  BY <1>1 DEF LateLine, Pushing
<1>6. OneLate'
  BY <1>4, <1>5 DEF OneLate, BodiesOK
<1>7. LateDays' \subseteq LateDays
  BY <1>1, <1>4, <1>5, LateMembers
<1>8. m.path # None => LateDays' = {}
  BY <1>4, <1>5, LateMembers DEF OneLate, BodiesOK
<1>9. QED
  BY <1>1, <1>2, <1>6, <1>7, <1>8, ServedIsLogStep

LEMMA MidnightLog ==
    ASSUME IInv, BodiesOK, Midnight
    PROVE  /\ \A d \in Days : OneBody(hub'[d].entries)
           /\ Log!Next \/ UNCHANGED Log!vars
           /\ OneLate'
<1>1. UNCHANGED hub /\ (HubMidnight \/ UNCHANGED <<today, net, ghosts>>)
  BY DEF Midnight
<1>2. CASE UNCHANGED <<net, ghosts>>
  <2>1. OneLate' /\ LateDays' = LateDays
    BY <1>2, LateMembers DEF OneLate, BodiesOK, LateLine, Pushing
  <2>2. QED
    BY <1>1, <2>1 DEF HubMidnight, BodiesOK, Log!Next, Log!NextDay, Log!vars
<1>3. LocksFree => /\ \A w \in Devices : ~LateLine(w)
                   /\ \A g \in ghosts : g.path = None
  BY LateMembers DEF LocksFree
<1>4. today # None
  BY NoneAssumption DEF IInv, ClocksOK
<1>5. ASSUME HubMidnight, LocksFree, OneLate', LateDays' = {today}
      PROVE  Log!NextDay
  BY <1>1, <1>5 DEF HubMidnight, LocksFree, Log!NextDay
<1>6. ASSUME NEW v \in Devices, HubMidnight, Pushing(v), Caught(net[v]["sync"]), UNCHANGED ghosts,
             net' = [net EXCEPT ![v]["sync"].path = today]
      PROVE  OneLate' /\ LateDays' = {today}
  <2>1. net[v]["sync"] \in Push /\ LocksFree
    BY <1>6, OnSyncLine DEF IInv, Caught
  <2>2. \A w \in Devices : net'[w]["sync"] = IF w = v THEN [net[v]["sync"] EXCEPT !.path = today]
                                                     ELSE net[w]["sync"]
    BY <1>6, SimpleMessages DEF IInv, LinesOK
  <2>3. LateLine(v)' /\ net'[v]["sync"].path = today
    BY <1>4, <1>6, <2>1, <2>2 DEF LateLine, Pushing, Push
  <2>4. \A w \in Devices : w # v => ~LateLine(w)'
    BY <1>3, <2>1, <2>2 DEF LateLine, Pushing
  <2>5. \A g \in ghosts' : g.path = None
    BY <1>3, <1>6, <2>1
  <2>6. OneLate'
    BY <2>4, <2>5 DEF OneLate
  <2>7. {w \in Devices : LateLine(w)'} = {v}
    BY <2>3, <2>4
  <2>8. QED
    BY <2>3, <2>5, <2>6, <2>7, LateMembers
<1>7. ASSUME NEW m \in ghosts, HubMidnight, Caught(m), UNCHANGED net,
             ghosts' = (ghosts \ {m}) \cup {[m EXCEPT !.path = today]}
      PROVE  OneLate' /\ LateDays' = {today}
  <2> DEFINE n == [m EXCEPT !.path = today]
  <2>1. m \in Push /\ LocksFree
    BY <1>7 DEF IInv, LinesOK, Caught
  <2>2. n.path = today
    BY <2>1 DEF Push
  <2>3. \A w \in Devices : ~LateLine(w)'
    BY <1>3, <1>7, <2>1 DEF LateLine, Pushing
  <2>4. n \in ghosts' /\ \A g \in ghosts' : g.path = None \/ g = n
    BY <1>3, <1>7, <2>1
  <2> HIDE DEF n
  <2>5. OneLate'
    BY <2>3, <2>4 DEF OneLate
  <2>6. {g \in ghosts' : g.path # None} = {n}
    BY <1>4, <2>2, <2>4
  <2>7. QED
    BY <2>2, <2>3, <2>5, <2>6, LateMembers
<1>8. ASSUME NEW m, Caught(m) PROVE LocksFree
  BY <1>8 DEF Caught
<1>9. CASE HubMidnight /\ ~UNCHANGED <<net, ghosts>>
  BY <1>1, <1>5, <1>6, <1>7, <1>8, <1>9 DEF HubMidnight, BodiesOK, Log!Next
<1>10. QED
  BY <1>1, <1>2, <1>9

LEMMA OwnerLog ==
    ASSUME IInv, BodiesOK, NEW d \in Days, OwnerStep(d)
    PROVE  /\ \A e \in Days : OneBody(hub'[e].entries)
           /\ Log!Next \/ UNCHANGED Log!vars
           /\ OneLate'
<1>1. UNCHANGED <<today, net, ghosts>>
  BY DEF OwnerStep, Summarise, Import, thrVars
<1>2. OneLate' /\ LateDays' = LateDays
  BY <1>1, LateMembers DEF OneLate, BodiesOK, LateLine, Pushing
<1>3. hub \in [Days -> File] /\ d \in Log!Days
  BY DEF IInv, HubOK, Days, Log!Days
<1>4. CASE Summarise(d)
  <2>1. hub' = [hub EXCEPT ![d] = [hub[d] EXCEPT !.head = "summary"]]
    BY <1>4 DEF Summarise
  <2>2. \A e \in Days : hub'[e].entries = hub[e].entries /\ hub'[e].tombs = hub[e].tombs
    BY <1>3, <2>1 DEF File
  <2>3. UNCHANGED Log!vars
    BY <1>1, <1>2, <2>2 DEF Log!vars
  <2>4. QED
    BY <1>2, <2>2, <2>3 DEF BodiesOK
<1>5. CASE Import(d)
  <2>1. PICK f \in Imports : hub' = [hub EXCEPT ![d] = f]
    BY <1>5 DEF Import
  <2>2. \A e \in Days : hub'[e] = IF e = d THEN f ELSE hub[e]
    BY <1>3, <2>1
  <2>3. OneBody(f.entries)
    BY ImportsAssumption DEF OneBody
  <2>4. /\ [e \in Days |-> hub'[e].entries] = [[e \in Days |-> hub[e].entries] EXCEPT ![d] = f.entries]
        /\ [e \in Days |-> hub'[e].tombs] = [[e \in Days |-> hub[e].tombs] EXCEPT ![d] = f.tombs]
    BY <2>2
  <2>5. d < today
    BY <1>5 DEF Import
  <2>6. Log!Import
    BY <1>1, <1>2, <1>3, <2>4, <2>5 DEF Log!Import
  <2>7. QED
    BY <1>2, <2>2, <2>3, <2>6 DEF BodiesOK, Log!Next
<1>6. QED
  BY <1>4, <1>5 DEF OwnerStep

\* The steps of the devices and the answers of the hub.
LEMMA NothingLater ==
    ASSUME IInv, [Next]_vars, ~Midnight, ~ServeGhost, \A v \in Devices : ~ServePush(v)
    PROVE  UNCHANGED <<net, ghosts>> \/ \E v \in Devices : NoneLater(v)
<1>1. LinesOK
  BY DEF IInv
<1>2. ASSUME NEW v \in Devices, NEW m, ~(m.stage = "sent" /\ m.kind = "push" /\ m.path # None),
             net' = [net EXCEPT ![v]["sync"] = m], ghosts' \subseteq ghosts \cup Orphan(v)
      PROVE  NoneLater(v)
  <2>1. \A w \in Devices : net'[w]["sync"] = IF w = v THEN m ELSE net[w]["sync"]
    BY <1>1, <1>2, SimpleMessages DEF LinesOK
  <2>2. QED
    BY <1>2, <2>1 DEF NoneLater, LateLine, Pushing, Orphan
<1>3. ASSUME NEW v \in Devices, NEW m, net' = [net EXCEPT ![v]["poll"] = m], UNCHANGED ghosts
      PROVE  NoneLater(v)
  <2>1. \A w \in Devices : net'[w]["sync"] = net[w]["sync"]
    BY <1>1, <1>3, SimpleMessages DEF LinesOK
  <2>2. QED
    BY <1>3, <2>1 DEF NoneLater
<1>4. ASSUME NEW v \in Devices, PushStep(v) PROVE UNCHANGED <<net, ghosts>> \/ NoneLater(v)
  <2>1. ASSUME NEW full, SendPending(v, full) PROVE UNCHANGED <<net, ghosts>> \/ NoneLater(v)
    BY <1>2, <2>1 DEF SendPending
  <2>2. CASE Acknowledge(v) \/ MergePush(v)
    BY <1>2, <2>2 DEF Acknowledge, MergePush, NoMsg
  <2>3. QED
    BY <1>4, <2>1, <2>2 DEF PushStep, Flush, FullSync
<1>5. ASSUME NEW v \in Devices, PullStep(v) PROVE NoneLater(v)
  BY <1>2, <1>3, <1>5 DEF PullStep, SendPull, MergePull, SendPoll, MergePoll, NoMsg
<1>6. ASSUME NEW v \in Devices, AnswerPush(v) \/ AnswerPull(v) \/ AnswerPoll(v) PROVE NoneLater(v)
  BY <1>2, <1>3, <1>6 DEF AnswerPush, AnswerPull, AnswerPoll
<1>7. ASSUME NEW v \in Devices, LoseSync(v) \/ LosePoll(v) PROVE NoneLater(v)
  BY <1>2, <1>3, <1>7 DEF LoseSync, LosePoll, NoMsg
<1>8. ASSUME NEW v \in Devices, CrashClient(v) PROVE NoneLater(v)
  <2>1. \A w \in Devices : net'[w]["sync"] = IF w = v THEN NoMsg ELSE net[w]["sync"]
    BY <1>1, <1>8, SimpleMessages DEF CrashClient, LinesOK
  <2>2. ghosts' \subseteq ghosts \cup Orphan(v)
    BY <1>8 DEF CrashClient
  <2>3. QED
    BY <2>1, <2>2 DEF NoneLater, LateLine, Pushing, Orphan, NoMsg
<1>9. ASSUME NEW v \in Devices, InputStep(v) \/ HistoryStep(v) \/ ReportStep(v)
      PROVE  UNCHANGED <<net, ghosts>>
  BY <1>9 DEF InputStep, WriteRecord, DeleteLatest, Enqueue, HistoryStep, StartHistory,
              GetList, FetchFile, FetchTrash, PruneFiles, SkipFile, LoseList, ReportStep,
              MirrorStep, ListReports, FetchReport, PruneReports, LoseReports, SkipReport, thrVars
<1>10. ASSUME NEW d \in Days, OwnerStep(d) PROVE UNCHANGED <<net, ghosts>>
  BY <1>10 DEF OwnerStep, Summarise, Import, thrVars
<1>11. CASE UNCHANGED vars \/ \E r \in Reports : GenerateReport(r)
  BY <1>11 DEF vars, GenerateReport, thrVars
<1>12. QED
  BY <1>4, <1>5, <1>6, <1>7, <1>8, <1>9, <1>10, <1>11, Steps DEF HubStep, CutStep

\* A step of the whole system is a step of the log, or none.
LEMMA HubIsLog ==
    ASSUME IInv, BodiesOK, [Next]_vars
    PROVE  /\ \A d \in Days : OneBody(hub'[d].entries)
           /\ Log!Next \/ UNCHANGED Log!vars
           /\ OneLate'
<1>1. CASE ServeGhost \/ Midnight \/ \E v \in Devices : ServePush(v)
  BY <1>1, ServeGhostLog, MidnightLog, ServePushLog
<1>2. CASE \E d \in Days : OwnerStep(d)
  BY <1>2, OwnerLog
<1>3. CASE /\ ~ServeGhost /\ ~Midnight /\ \A v \in Devices : ~ServePush(v)
           /\ \A d \in Days : ~OwnerStep(d)
  <2>1. UNCHANGED <<today, hub>>
    BY <1>3, HubStands, ClocksStand
  <2>2. OneLate' /\ LateDays' \subseteq LateDays
    <3>1. CASE UNCHANGED <<net, ghosts>>
      BY <3>1, LateMembers DEF OneLate, BodiesOK, LateLine, Pushing
    <3>2. QED
      BY <1>3, <3>1, NothingLater, FewerLate DEF BodiesOK
  <2>3. QED
    BY <2>1, <2>2, GivesUp DEF BodiesOK
<1>4. QED
  BY <1>1, <1>2, <1>3

LEMMA OutboxOneBody ==
    ASSUME IInv, BodiesOK, [Next]_vars
    PROVE  \A v \in Devices : OneBody(outEntries'[v])
<1>1. CASE UNCHANGED outEntries
  BY <1>1 DEF BodiesOK
<1>2. ASSUME NEW v \in Devices, NEW box, OneBody(box),
             outEntries' = [outEntries EXCEPT ![v] = box]
      PROVE  \A w \in Devices : OneBody(outEntries'[w])
  BY <1>2 DEF BodiesOK, IInv, BoxOK
<1>3. ASSUME NEW v \in Devices, InputStep(v)
      PROVE  \A w \in Devices : OneBody(outEntries'[w])
  <2>1. CASE UNCHANGED outEntries
    BY <1>1, <2>1
  <2>2. CASE Enqueue(v) /\ ~UNCHANGED outEntries
    <3>1. outEntries' = [outEntries EXCEPT ![v] = QueuedEntries(v, input[v].record)]
      <4>1. input[v].op \in {"entry", "delete"}
        BY <2>2 DEF Enqueue, IInv, BoxOK
      <4>2. QED
        BY <2>2, <4>1 DEF Enqueue
    <3>2. OneBody(QueuedEntries(v, input[v].record))
      BY DEF QueuedEntries, Queued, OneBody, IdsOf, BodiesOK
    <3>3. QED
      BY <1>2, <3>1, <3>2
  <2>3. QED
    BY <1>3, <2>1, <2>2 DEF InputStep, WriteRecord, DeleteLatest
<1>4. ASSUME NEW v \in Devices, PushStep(v)
      PROVE  \A w \in Devices : OneBody(outEntries'[w])
  <2>1. ASSUME NEW full, SendPending(v, full) PROVE \A w \in Devices : OneBody(outEntries'[w])
    <3>1. OneBody(Current(v, outEntries[v]))
      BY DEF Current, OneBody, BodiesOK
    <3>2. QED
      BY <1>2, <2>1, <3>1 DEF SendPending
  <2>2. CASE Acknowledge(v)
    <3> DEFINE box == {r \in outEntries[v] : r.id \notin Settled(v)}
    <3>1. OneBody(box)
      BY DEF OneBody, BodiesOK
    <3>2. outEntries' = [outEntries EXCEPT ![v] = box]
      BY <2>2 DEF Acknowledge
    <3> HIDE DEF box
    <3>3. QED
      BY <1>2, <3>1, <3>2
  <2>3. CASE MergePush(v)
    BY <1>1, <2>3 DEF MergePush
  <2>4. QED
    BY <1>4, <2>1, <2>2, <2>3 DEF PushStep, Flush, FullSync
<1>5. ASSUME NEW v \in Devices, PullStep(v) \/ HistoryStep(v) PROVE UNCHANGED outEntries
  BY <1>5 DEF PullStep, SendPull, MergePull, SendPoll, MergePoll, HistoryStep, StartHistory,
              GetList, FetchFile, FetchTrash, PruneFiles, SkipFile, LoseList, devVars
<1>6. ASSUME NEW v \in Devices, ReportStep(v) \/ HubStep(v) \/ CutStep(v)
      PROVE  UNCHANGED outEntries
  BY <1>6 DEF ReportStep, MirrorStep, ListReports, FetchReport, PruneReports, LoseReports,
              SkipReport, HubStep, ServePush, AnswerPush, AnswerPull, AnswerPoll, CutStep, LoseSync,
              LosePoll, CrashClient, devVars
<1>7. CASE UNCHANGED vars \/ ServeGhost \/ Midnight \/ \E r \in Reports : GenerateReport(r)
  BY <1>1, <1>7 DEF vars, ServeGhost, Midnight, GenerateReport, devVars
<1>8. ASSUME NEW d \in Days, OwnerStep(d) PROVE UNCHANGED outEntries
  BY <1>8 DEF OwnerStep, Summarise, Import, devVars
<1>9. QED
  BY <1>1, <1>3, <1>4, <1>5, <1>6, <1>7, <1>8, Steps

LinesSound == /\ \A v \in Devices, c \in Lines : Sound(net[v][c])
              /\ \A m \in ghosts : OneBody(m.entries)

LEMMA PutSound ==
    ASSUME LinesOK, LinesSound, NEW v \in Devices, NEW c \in Lines, NEW m, Sound(m),
           net' = [net EXCEPT ![v][c] = m],
           \A q \in ghosts' : OneBody(q.entries)
    PROVE  LinesSound'
<1>1. net \in [Devices -> [Lines -> Message]]
  BY DEF LinesOK
<1>2. \A w \in Devices, e \in Lines : net'[w][e] = m \/ net'[w][e] = net[w][e]
  BY <1>1
<1>3. QED
  BY <1>2 DEF LinesSound

LEMMA LinesOneBody ==
    ASSUME IInv, BodiesOK, [Next]_vars
    PROVE  LinesSound'
<1>1. LinesSound /\ LinesOK
  BY DEF BodiesOK, LinesSound, IInv
<1>2. CASE UNCHANGED <<net, ghosts>>
  BY <1>1, <1>2 DEF LinesSound
<1>3. ASSUME NEW v \in Devices, NEW c \in Lines, NEW m, m.stage # "sent" \/ m.kind # "push",
             net' = [net EXCEPT ![v][c] = m], UNCHANGED ghosts
      PROVE  LinesSound'
  BY <1>1, <1>3, PutSound DEF Sound, LinesSound
<1>4. ASSUME NEW v \in Devices, PushStep(v) PROVE LinesSound'
  <2>1. ASSUME NEW full, SendPending(v, full) PROVE LinesSound'
    <3> DEFINE m == [stage |-> "sent", kind |-> "push",
                     entries |-> Current(v, outEntries[v]),
                     deletes |-> Current(v, outDeletes[v]),
                     at |-> IF Current(v, outEntries[v]) = {} THEN "delete" ELSE "append",
                     path |-> None, accepted |-> {}, rejected |-> {}]
    <3>1. Sound(m)
      BY DEF Sound, Current, OneBody, BodiesOK
    <3>2. UNCHANGED ghosts /\ (net' = net \/ net' = [net EXCEPT ![v]["sync"] = m])
      BY <2>1 DEF SendPending
    <3> HIDE DEF m
    <3>3. QED
      BY <1>1, <1>2, <3>1, <3>2, PutSound, SimpleMessages DEF LinesSound
  <2>2. CASE Acknowledge(v)
    BY <1>3, <2>2, SimpleMessages DEF Acknowledge, NoMsg
  <2>3. CASE MergePush(v)
    BY <1>2, <2>3 DEF MergePush
  <2>4. QED
    BY <1>4, <2>1, <2>2, <2>3 DEF PushStep, Flush, FullSync
<1>5. ASSUME NEW v \in Devices, PullStep(v) PROVE LinesSound'
  <2>1. CASE SendPull(v)
    BY <1>3, <2>1, SimpleMessages DEF SendPull
  <2>2. CASE MergePull(v)
    BY <1>3, <2>2, SimpleMessages DEF MergePull, NoMsg
  <2>3. CASE SendPoll(v)
    BY <1>3, <2>3, SimpleMessages DEF SendPoll
  <2>4. CASE MergePoll(v)
    BY <1>3, <2>4, SimpleMessages DEF MergePoll, NoMsg
  <2>5. QED
    BY <1>5, <2>1, <2>2, <2>3, <2>4 DEF PullStep
<1>6. ASSUME NEW v \in Devices, HubStep(v) PROVE LinesSound'
  <2>1. CASE AnswerPush(v)
    BY <1>3, <2>1, SimpleMessages DEF AnswerPush
  <2>2. CASE AnswerPull(v)
    BY <1>3, <2>2, SimpleMessages DEF AnswerPull
  <2>3. CASE AnswerPoll(v)
    BY <1>3, <2>3, SimpleMessages DEF AnswerPoll
  <2>4. CASE ServePush(v)
    <3>1. net[v]["sync"] \in Push /\ OneBody(net[v]["sync"].entries)
      BY <1>1, <2>4, OnSyncLine, SimpleMessages DEF ServePush, Pushing, LinesSound, Sound
    <3>2. Sound(Served(net[v]["sync"]))
      BY <3>1 DEF Served, Sound, Push
    <3>3. QED
      BY <1>1, <2>4, <3>2, PutSound, SimpleMessages DEF ServePush, LinesSound
  <2>5. QED
    BY <1>6, <2>1, <2>2, <2>3, <2>4 DEF HubStep
<1>7. ASSUME NEW v \in Devices, CutStep(v) PROVE LinesSound'
  <2>1. \A q \in Orphan(v) : OneBody(q.entries)
    BY <1>1, SimpleMessages DEF Orphan, Pushing, LinesSound, Sound
  <2>2. ghosts' = ghosts \/ ghosts' = ghosts \cup Orphan(v)
    BY <1>7 DEF CutStep, LoseSync, LosePoll, CrashClient
  <2>3. \A q \in ghosts' : OneBody(q.entries)
    BY <1>1, <2>1, <2>2 DEF LinesSound
  <2>4. Sound(NoMsg)
    BY DEF Sound, NoMsg
  <2>5. CASE LoseSync(v) \/ LosePoll(v)
    <3>1. PICK c \in Lines : net' = [net EXCEPT ![v][c] = NoMsg]
      BY <2>5, SimpleMessages DEF LoseSync, LosePoll
    <3>2. QED
      BY <1>1, <2>3, <2>4, <3>1, PutSound
  <2>6. CASE CrashClient(v)
    <3>1. \A w \in Devices, c \in Lines : net'[w][c] = NoMsg \/ net'[w][c] = net[w][c]
      BY <1>1, <2>6 DEF CrashClient, LinesOK
    <3>2. QED
      BY <1>1, <2>3, <2>4, <3>1 DEF LinesSound
  <2>7. QED
    BY <1>7, <2>5, <2>6 DEF CutStep
<1>8. ASSUME NEW v \in Devices, InputStep(v) \/ HistoryStep(v) \/ ReportStep(v)
      PROVE  UNCHANGED <<net, ghosts>>
  BY <1>8 DEF InputStep, WriteRecord, DeleteLatest, Enqueue, HistoryStep, StartHistory,
              GetList, FetchFile, FetchTrash, PruneFiles, SkipFile, LoseList, ReportStep,
              MirrorStep, ListReports, FetchReport, PruneReports, LoseReports, SkipReport, thrVars
<1>9. CASE UNCHANGED vars \/ (\E d \in Days : OwnerStep(d)) \/ \E r \in Reports : GenerateReport(r)
  BY <1>2, <1>9 DEF vars, OwnerStep, Summarise, Import, GenerateReport, thrVars
<1>10. CASE ServeGhost
  <2>1. PICK m \in ghosts : UNCHANGED net /\ ghosts' \subseteq ghosts \cup {Served(m)}
    BY <1>10 DEF ServeGhost
  <2>2. m \in Push
    BY <1>1 DEF LinesOK
  <2>3. Served(m).entries = m.entries
    BY <2>2 DEF Served, Push
  <2>4. QED
    BY <1>1, <2>1, <2>3 DEF LinesSound
<1>11. CASE Midnight
  <2>1. ASSUME NEW m \in Push PROVE [m EXCEPT !.path = today].entries = m.entries
    BY DEF Push
  <2>2. ASSUME NEW v \in Devices, Pushing(v), UNCHANGED ghosts,
               net' = [net EXCEPT ![v]["sync"].path = today]
        PROVE  LinesSound'
    <3> DEFINE m == [net[v]["sync"] EXCEPT !.path = today]
    <3>1. net[v]["sync"] \in Push /\ OneBody(net[v]["sync"].entries)
      BY <1>1, <2>2, OnSyncLine, SimpleMessages DEF Pushing, LinesSound, Sound
    <3>2. Sound(m)
      BY <2>1, <3>1 DEF Sound
    <3>3. net' = [net EXCEPT ![v]["sync"] = m]
      BY <2>2
    <3> HIDE DEF m
    <3>4. QED
      BY <1>1, <2>2, <3>2, <3>3, PutSound, SimpleMessages DEF LinesSound
  <2>3. ASSUME NEW m \in ghosts, UNCHANGED net,
               ghosts' = (ghosts \ {m}) \cup {[m EXCEPT !.path = today]}
        PROVE  LinesSound'
    <3>1. [m EXCEPT !.path = today].entries = m.entries
      BY <1>1, <2>1 DEF LinesOK
    <3>2. QED
      BY <1>1, <2>3, <3>1 DEF LinesSound
  <2>4. QED
    BY <1>2, <1>11, <2>2, <2>3 DEF Midnight, HubMidnight
<1>12. QED
  BY <1>2, <1>4, <1>5, <1>6, <1>7, <1>8, <1>9, <1>10, <1>11, Steps

LEMMA BodiesInv ==
    ASSUME IInv, BodiesOK, [Next]_vars
    PROVE  BodiesOK' /\ (Log!Next \/ UNCHANGED Log!vars)
  BY HubIsLog, OutboxOneBody, LinesOneBody DEF BodiesOK, LinesSound

\* Whatever any number of devices send, lose, repeat and retry, however their
\* clocks differ, and wherever midnight falls between the sections of a push
\* or between path and replacement of one, the hub's diary is a DayLog: but
\* for imports only the current day changes, and the day before by the one
\* write midnight fell into; no body is replaced, no tombstone goes
\* (Store.append_entries, Store.apply_deletes, _write_blocks, main
\* _command_import, driven by client/sync.py).
THEOREM HubKeepsDayLog == Spec => HubIsDayLog
<1>1. Init => Log!Init /\ BodiesOK
  <2> SUFFICES ASSUME Init PROVE Log!Init /\ BodiesOK
    OBVIOUS
  <2>1. hub = [d \in Days |-> EmptyFile] /\ today = 0
    BY DEF Init
  <2>2. \A v \in Devices : ~LateLine(v) /\ ghosts = {}
    BY SimpleMessages DEF Init, LateLine, Pushing, NoMsg
  <2>3. LateDays = {} /\ OneLate
    BY <2>2, LateMembers DEF Init, OneLate
  <2>4. Log!Init
    BY <2>1, <2>3 DEF Log!Init, Log!Days, Days, EmptyFile
  <2>5. BodiesOK
    BY <2>3 DEF Init, BodiesOK, OneBody, Sound, EmptyFile, NoMsg
  <2>6. QED
    BY <2>4, <2>5
<1>2. IInv /\ BodiesOK /\ [Next]_vars => BodiesOK' /\ [Log!Next]_(Log!vars)
  BY BodiesInv
<1>3. QED
  BY <1>1, <1>2, AlwaysIInv, PTL DEF Spec, HubIsDayLog, Log!Spec
=============================================================================
