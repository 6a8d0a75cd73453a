-------------------------- MODULE DiarySyncDelivery --------------------------
(***************************************************************************)
(* For any devices, records, days and reports: what a device hands over    *)
(* arrives.  Nothing leaves an outbox but what the hub has or whose day is *)
(* over, a record and a deletion stay with the device until then, and a    *)
(* full synchronisation that lost nothing has taken the finished days and  *)
(* the reports.                                                            *)
(***************************************************************************)
EXTENDS DiarySyncProofs

\* Faults are only counted up.
LEMMA FaultsCount == ASSUME CountsOK, [Next]_vars PROVE faults' = 0 => UNCHANGED faults
<1> faults \in Nat
  BY DEF CountsOK
<1>1. CASE \/ UNCHANGED vars \/ ServeGhost \/ Midnight
           \/ \E r \in Reports : GenerateReport(r)
           \/ \E d \in Days : OwnerStep(d)
  BY <1>1 DEF vars, ServeGhost, Midnight, GenerateReport, OwnerStep, Summarise, Import
<1>2. ASSUME NEW v \in Devices, InputStep(v) \/ PushStep(v) \/ PullStep(v) \/ HubStep(v)
      PROVE  UNCHANGED faults
  BY <1>2 DEF InputStep, WriteRecord, DeleteLatest, Enqueue, PushStep, Flush, FullSync,
              SendPending, Acknowledge, MergePush, PullStep, SendPull, MergePull, SendPoll,
              MergePoll, HubStep, ServePush, AnswerPush, AnswerPull, AnswerPoll
<1>3. ASSUME NEW v \in Devices, HistoryStep(v)
      PROVE  faults' = 0 => UNCHANGED faults
  BY <1>3 DEF HistoryStep, StartHistory, GetList, FetchFile, FetchTrash, PruneFiles,
              SkipFile, LoseList
<1>4. ASSUME NEW v \in Devices, ReportStep(v) \/ CutStep(v)
      PROVE  faults' = 0 => UNCHANGED faults
  BY <1>4 DEF ReportStep, MirrorStep, ListReports, FetchReport, PruneReports, LoseReports,
              SkipReport, CutStep, LoseSync, LosePoll, CrashClient
<1>5. QED
  BY <1>1, <1>2, <1>3, <1>4, Steps

\* What the copies and the list are not part of, a crash excepted.
LEMMA Quiet ==
    ASSUME [Next]_vars,
           \A r \in Reports : ~GenerateReport(r),
           \A v \in Devices : ~ReportStep(v)
    PROVE  UNCHANGED repVars \/ \E v \in Devices : CrashClient(v)
<1>1. CASE UNCHANGED vars \/ ServeGhost \/ Midnight \/ \E d \in Days : OwnerStep(d)
  BY <1>1 DEF vars, ServeGhost, Midnight, OwnerStep, Summarise, Import
<1>2. ASSUME NEW v \in Devices, InputStep(v) \/ PushStep(v) \/ PullStep(v)
      PROVE  UNCHANGED repVars
  BY <1>2 DEF InputStep, WriteRecord, DeleteLatest, Enqueue, PushStep, Flush, FullSync,
              SendPending, Acknowledge, MergePush, PullStep, SendPull, MergePull,
              SendPoll, MergePoll
<1>3. ASSUME NEW v \in Devices, HistoryStep(v) \/ HubStep(v) \/ LoseSync(v) \/ LosePoll(v)
      PROVE  UNCHANGED repVars
  BY <1>3 DEF HistoryStep, StartHistory, GetList, FetchFile, FetchTrash, PruneFiles,
              SkipFile, LoseList, HubStep, ServePush, AnswerPush, AnswerPull, AnswerPoll,
              LoseSync, LosePoll
<1>4. QED
  BY <1>1, <1>2, <1>3, Steps DEF CutStep

-----------------------------------------------------------------------------
(* ---------------------------- reports arrive ---------------------------- *)

\* In a round that has lost nothing a report is as listed, or later, or still
\* to be looked at; and no list is ahead of the hub.
ListKept ==
    \A v \in Devices, r \in Reports : mirror[v] # None /\ faults = 0 =>
        /\ mirror[v].list[r] <= reports[r]
        /\ copies[v][r] >= mirror[v].list[r] \/ r \in mirror[v].todo

LEMMA ReportStepList ==
    ASSUME MirrorOK, CountsOK, ListKept, NEW v \in Devices, ReportStep(v), faults' = 0,
           UNCHANGED faults
    PROVE  /\ ListKept'
           /\ \A w \in Devices : mirror[w] # None /\ mirror'[w] = None =>
                \A r \in Reports : copies'[w][r] >= mirror[w].list[r]
<1> DEFINE Taken == \A w \in Devices : mirror[w] # None /\ mirror'[w] = None =>
                      \A r \in Reports : copies'[w][r] >= mirror[w].list[r]
<1>0. /\ reports \in [Reports -> Nat] /\ faults \in Nat
      /\ \A w \in Devices : copies[w] \in [Reports -> Nat]
      /\ \A w \in Devices : mirror[w] # None => /\ mirror[w] \in Mirror
                                                /\ mirror[w].list \in [Reports -> Nat]
                                                /\ mirror[w].todo \subseteq Reports
  BY DEF MirrorOK, Versions, Mirror, CountsOK
<1>1. CASE ListReports(v)
  <2>1. PICK lost \in Unreadable :
          LET listed == [r \in Reports |-> IF r \in lost THEN 0 ELSE reports[r]]
          IN  mirror' = [mirror EXCEPT ![v] =
                           [list |-> listed, todo |-> {r \in Reports : listed[r] # 0}]]
    BY <1>1 DEF ListReports
  <2>2. mirror[v] = None /\ UNCHANGED <<reports, copies>>
    BY <1>1 DEF ListReports
  <2>3. \A w \in Devices : w # v => mirror'[w] = mirror[w]
    BY <2>1
  <2>4. \A r \in Reports :
          /\ mirror'[v].list[r] \in {0, reports[r]}
          /\ mirror'[v].list[r] # 0 => r \in mirror'[v].todo
    BY <2>1 DEF MirrorOK
  <2>5. QED
    BY <1>0, <2>2, <2>3, <2>4 DEF ListKept
<1>2. CASE FetchReport(v)
  <2>1. PICK r \in mirror[v].todo :
          /\ copies' = IF HasListed(v, r) THEN copies ELSE [copies EXCEPT ![v][r] = reports[r]]
          /\ mirror' = [mirror EXCEPT ![v].todo = @ \ {r}]
    BY <1>2 DEF FetchReport, First
  <2>2. mirror[v] # None /\ UNCHANGED reports /\ r \in Reports
    BY <1>0, <1>2, <2>1 DEF FetchReport
  <2>3. /\ \A w \in Devices : w # v => mirror'[w] = mirror[w]
        /\ mirror'[v] = [mirror[v] EXCEPT !.todo = @ \ {r}]
    BY <2>1 DEF MirrorOK
  <2>4. /\ mirror'[v].list = mirror[v].list /\ mirror'[v].todo = mirror[v].todo \ {r}
        /\ mirror'[v] \in Mirror
    BY <1>0, <2>2, <2>3 DEF Mirror
  <2>5. \A w \in Devices, q \in Reports :
          w # v \/ q # r => copies'[w][q] = copies[w][q]
    BY <2>1, <2>2 DEF MirrorOK, Versions
  <2>6. copies'[v][r] \in {mirror[v].list[r], reports[r]}
    BY <2>1, <2>2 DEF MirrorOK, Versions, HasListed
  <2>7. copies'[v][r] >= mirror[v].list[r]
    BY <1>0, <2>2, <2>6 DEF ListKept
  <2>8. mirror'[v] # None
    BY <2>4, NoneAssumption DEF Mirror, Versions
  <2>9. Taken
    BY <2>3, <2>8
  <2>10. ListKept'
    <3>1. ASSUME NEW q \in Reports
          PROVE  /\ mirror'[v].list[q] <= reports'[q]
                 /\ copies'[v][q] >= mirror'[v].list[q] \/ q \in mirror'[v].todo
      BY <2>2, <2>4, <2>5, <2>7 DEF ListKept
    <3>2. \A w \in Devices : w # v => mirror'[w] = mirror[w] /\ \A q \in Reports : copies'[w][q] = copies[w][q]
      BY <2>3, <2>5
    <3>3. QED
      BY <2>2, <3>1, <3>2 DEF ListKept
  <2>11. QED
    BY <2>9, <2>10
<1>3. CASE PruneReports(v)
  <2>1. /\ mirror[v] # None /\ mirror[v].todo = {} /\ UNCHANGED reports
        /\ mirror' = [mirror EXCEPT ![v] = None]
        /\ copies' = [copies EXCEPT ![v] =
                        [r \in Reports |-> IF r \in Leftover(v) THEN 0 ELSE @[r]]]
    BY <1>3 DEF PruneReports, EndMirror
  <2>2. \A w \in Devices : w # v => mirror'[w] = mirror[w] /\ copies'[w] = copies[w]
    BY <2>1
  <2>3. \A r \in Reports : copies'[v][r] = IF mirror[v].list[r] = 0 THEN 0 ELSE copies[v][r]
    BY <2>1 DEF Leftover, MirrorOK
  <2>4. \A r \in Reports : copies'[v][r] >= mirror[v].list[r]
    BY <1>0, <2>1, <2>3 DEF ListKept
  <2>5. mirror'[v] = None
    BY <2>1 DEF MirrorOK
  <2>6. QED
    BY <2>1, <2>2, <2>4, <2>5 DEF ListKept
<1>4. CASE LoseReports(v) \/ SkipReport(v)
  BY <1>0, <1>4 DEF LoseReports, SkipReport
<1>5. QED
  BY <1>1, <1>2, <1>3, <1>4 DEF ReportStep, MirrorStep

LEMMA ListInv ==
    ASSUME MirrorOK, CountsOK, ListKept, [Next]_vars
    PROVE  /\ ListKept'
           /\ faults' = 0 =>
                \A w \in Devices : mirror[w] # None /\ mirror'[w] = None =>
                  \A r \in Reports : copies'[w][r] >= mirror[w].list[r]
<1> SUFFICES ASSUME faults' = 0
             PROVE  /\ ListKept'
                    /\ \A w \in Devices : mirror[w] # None /\ mirror'[w] = None =>
                         \A r \in Reports : copies'[w][r] >= mirror[w].list[r]
  BY DEF ListKept
<1>1. UNCHANGED faults
  BY FaultsCount
<1>2. CASE UNCHANGED repVars
  BY <1>1, <1>2 DEF repVars, ListKept
<1>3. ASSUME NEW r \in Reports, GenerateReport(r)
      PROVE  ListKept' /\ UNCHANGED mirror
  <2>1. /\ UNCHANGED <<copies, mirror>> /\ reports' = [reports EXCEPT ![r] = @ + 1]
    BY <1>3 DEF GenerateReport
  <2>2. \A q \in Reports : /\ reports[q] \in Nat /\ reports'[q] \in Nat
                           /\ reports'[q] >= reports[q]
    BY <2>1 DEF MirrorOK, Versions
  <2>3. \A v \in Devices, q \in Reports : mirror[v] # None => mirror[v].list[q] \in Nat
    BY DEF MirrorOK, Mirror, Versions
  <2>4. QED
    BY <1>1, <2>1, <2>2, <2>3 DEF ListKept
<1>4. ASSUME NEW v \in Devices, CrashClient(v) PROVE FALSE
  BY <1>1, <1>4 DEF CrashClient, CountsOK
<1>5. CASE /\ \A r \in Reports : ~GenerateReport(r)
           /\ \A v \in Devices : ~ReportStep(v)
  <2>1. \/ UNCHANGED repVars
        \/ \E v \in Devices : CrashClient(v)
    BY <1>5, Quiet
  <2>2. QED
    BY <1>2, <1>4, <2>1
<1>6. QED
  BY <1>1, <1>3, <1>5, ReportStepList

\* A round of report copying that lost nothing leaves every report as listed
\* or later, whatever is generated again meanwhile (sync.sync_reports).
THEOREM ReportsArrive == Spec => ReportsTaken
<1>1. Init => ListKept
  BY DEF Init, ListKept
<1>2. MirrorOK /\ CountsOK /\ ListKept /\ [Next]_vars => ListKept'
  BY ListInv
<1>3. MirrorOK /\ CountsOK /\ ListKept /\ [Next]_vars =>
        [\A v \in Devices : mirror[v] # None /\ mirror'[v] = None /\ faults' = 0 =>
           \A r \in Reports : copies'[v][r] >= mirror[v].list[r]]_vars
  BY ListInv
<1>4. Spec => [](MirrorOK /\ CountsOK)
  <2>1. Spec => []MirrorOK
    BY MirrorInit, MirrorInv, PTL DEF Spec
  <2>2. IInv => CountsOK
    BY DEF IInv
  <2>3. QED
    BY <2>1, <2>2, AlwaysIInv, PTL
<1>5. QED
  BY <1>1, <1>2, <1>3, <1>4, PTL DEF Spec, ReportsTaken

-----------------------------------------------------------------------------
(* ------------------------- blocks in their files ------------------------ *)

\* The blocks of a file are of the file's day.
Filed(file, d) == \A id \in Known(file) : DateOf[id] = d

LEMMA GrownFurther ==
    ASSUME NEW f, NEW g, NEW h, Grown(f, g), Grown(g, h) PROVE Grown(f, h)
  BY DEF Grown

LEMMA NothingFiled == \A d \in Days : Filed(EmptyFile, d)
  BY DEF Filed, EmptyFile, Known, IdsOf

\* What the merging of an answer keeps and takes.
LEMMA MergedFiled ==
    ASSUME NEW f, Clean(f), NEW g, Clean(g)
    PROVE  /\ Known(Merged(f, g)) = Known(f) \cup Known(g)
           /\ Merged(f, g).tombs = f.tombs \cup g.tombs
           /\ \A r \in Merged(f, g).entries : r \in f.entries \/ r \in g.entries
<1>1. /\ Merged(f, g).tombs = f.tombs \cup g.tombs
      /\ \A r : r \in Merged(f, g).entries <=>
           \/ /\ r \in f.entries /\ r.id \notin g.tombs \ f.tombs
              /\ \A q \in g.entries : q.id \notin f.tombs => q.id # r.id
           \/ r \in g.entries /\ r.id \notin f.tombs /\ r.id \notin g.tombs
  BY DEF Merged, IdsOf, Clean
<1>2. \A q \in g.entries : q.id \notin g.tombs
  BY DEF Clean, IdsOf
<1>3. ASSUME NEW id \in Known(f) \cup Known(g) PROVE id \in Known(Merged(f, g))
  <2>1. CASE id \in f.tombs \cup g.tombs
    BY <1>1, <2>1 DEF Known
  <2>2. CASE id \notin f.tombs \cup g.tombs /\ \E q \in g.entries : q.id = id
    BY <1>1, <2>2 DEF Known, IdsOf
  <2>3. CASE /\ id \notin f.tombs \cup g.tombs /\ \A q \in g.entries : q.id # id
             /\ \E r \in f.entries : r.id = id
    BY <1>1, <2>3 DEF Known, IdsOf
  <2>4. QED
    BY <2>1, <2>2, <2>3 DEF Known, IdsOf
<1>4. \A r \in Merged(f, g).entries : r \in f.entries \/ r \in g.entries
  BY <1>1
<1>5. Known(Merged(f, g)) \subseteq Known(f) \cup Known(g)
  BY <1>1, <1>4 DEF Known, IdsOf
<1>6. QED
  BY <1>1, <1>3, <1>4, <1>5

LEMMA DeletedFiled ==
    ASSUME NEW f, Clean(f), NEW rs \in SUBSET Record
    PROVE  /\ WithDeletes(f, rs).tombs = f.tombs \cup IdsOf(rs)
           /\ WithDeletes(f, rs).entries \subseteq f.entries
           /\ Known(WithDeletes(f, rs)) = Known(f) \cup IdsOf(rs)
<1>1. f.entries \in SUBSET Record /\ f = [entries |-> f.entries, tombs |-> f.tombs, head |-> f.head]
  BY DEF Clean, File
<1>2. /\ WithDeletes(f, rs).tombs = f.tombs \cup IdsOf(rs)
      /\ \A r : r \in WithDeletes(f, rs).entries <=>
                r \in f.entries /\ r.id \notin IdsOf(rs) \ f.tombs
  BY <1>1 DEF WithDeletes
<1>3. QED
  BY <1>2 DEF Known, IdsOf

LEMMA AddedFiled ==
    ASSUME NEW f, Clean(f), NEW rs \in SUBSET Record
    PROVE  /\ WithEntries(f, rs).tombs = f.tombs
           /\ Known(WithEntries(f, rs)) = Known(f) \cup IdsOf(rs)
<1>1. /\ WithEntries(f, rs).tombs = f.tombs
      /\ WithEntries(f, rs).entries = f.entries \cup {r \in rs : r.id \notin Known(f)}
  BY DEF WithEntries, Clean, File
<1>2. QED
  BY <1>1 DEF Known, IdsOf

LEMMA WrittenFiled ==
    ASSUME NEW f, Clean(f), NEW r \in Record
    PROVE  /\ [f EXCEPT !.entries = @ \cup {r}].tombs = f.tombs
           /\ [f EXCEPT !.entries = @ \cup {r}].entries = f.entries \cup {r}
           /\ Known([f EXCEPT !.entries = @ \cup {r}]) = Known(f) \cup {r.id}
<1>1. /\ [f EXCEPT !.entries = @ \cup {r}].tombs = f.tombs
      /\ [f EXCEPT !.entries = @ \cup {r}].entries = f.entries \cup {r}
  BY DEF Clean, File
<1>2. QED
  BY <1>1 DEF Known, IdsOf

-----------------------------------------------------------------------------
(* --------------------------- the hub's answers -------------------------- *)

\* The hub's day does not go back, and with one clock it is every device's.
ClocksAgree == Skew = 0
OneClock == \A v \in Devices : clock[v] = today

LEMMA DayMoves ==
    ASSUME ClocksOK, [Next]_vars
    PROVE  /\ today' \in {today, today + 1}
           /\ ClocksAgree /\ OneClock => OneClock'
           /\ Midnight \/ UNCHANGED <<today, clock>>
<1>1. CASE Midnight
  BY <1>1 DEF Midnight, HubMidnight, ClocksOK, OneClock, ClocksAgree
<1>2. CASE ~Midnight
  BY <1>2, ClocksStand DEF OneClock
<1>3. QED
  BY <1>1, <1>2

\* The hub's file of its day, and those of the days to come.
HubFiled == \A d \in Days : d >= today => Filed(hub[d], d)

\* A write midnight fell into is of a day gone by, and its date check is
\* behind it.
Overtaken(m, day) == m.path # None => m.path < day /\ Expired(Section(m), m.path) = {}
LatePast == \A m \in Pushes : Overtaken(m, today)

LEMMA NoneBegins ==
    ASSUME IInv, [Next]_vars, ~Midnight, NEW m \in Pushes', m.path # None
    PROVE  m \in Pushes
<1>1. ASSUME NEW v \in Devices, ServePush(v) PROVE m \in Pushes
  <2> DEFINE p == net[v]["sync"]
  <2>1. p \in Push /\ net' = [net EXCEPT ![v]["sync"] = Served(p)] /\ UNCHANGED ghosts
    BY <1>1, OnSyncLine DEF ServePush, IInv
  <2>2. Served(p).path = None
    BY <2>1 DEF Served, Push
  <2> HIDE DEF p
  <2>3. \A w \in Devices : net'[w]["sync"] = IF w = v THEN Served(p) ELSE net[w]["sync"]
    BY <2>1, SimpleMessages DEF IInv, LinesOK
  <2>4. QED
    BY <2>1, <2>2, <2>3 DEF Pushes, Pushing
<1>2. CASE ServeGhost
  <2>1. PICK g \in ghosts : /\ UNCHANGED net
                            /\ ghosts' \subseteq ghosts \cup {Served(g)}
    BY <1>2 DEF ServeGhost
  <2>2. Served(g).path = None
    BY <2>1 DEF IInv, LinesOK, Served, Push
  <2>3. QED
    BY <2>1, <2>2 DEF Pushes, Pushing
<1>3. CASE UNCHANGED <<net, ghosts>>
  BY <1>3 DEF Pushes, Pushing
<1>4. ASSUME NEW v \in Devices, NoneLater(v) PROVE m \in Pushes
  BY <1>4 DEF NoneLater, LateLine, Pushes, Pushing
<1>5. QED
  BY <1>1, <1>2, <1>3, <1>4, NothingLater

LEMMA LateStep == ASSUME IInv, LatePast, [Next]_vars PROVE LatePast'
<1> SUFFICES ASSUME NEW m \in Pushes', m.path # None
             PROVE  m.path < today' /\ Expired(Section(m), m.path) = {}
  BY DEF LatePast, Overtaken
<1>1. today \in Days
  BY DEF IInv, ClocksOK
<1>2. ASSUME m \in Pushes, today' \in {today, today + 1}
      PROVE  m.path < today' /\ Expired(Section(m), m.path) = {}
  <2>1. m.path \in Days
    BY <1>2, OnSyncLine DEF Pushes, IInv, LinesOK, Push
  <2>2. QED
    BY <1>1, <1>2, <2>1 DEF LatePast, Overtaken, Days
<1>3. CASE ~Midnight
  BY <1>2, <1>3, NoneBegins, ClocksStand
<1>4. CASE Midnight /\ UNCHANGED <<net, ghosts>>
  <2>1. m \in Pushes /\ today' \in {today, today + 1}
    BY <1>1, <1>4 DEF Pushes, Pushing, Midnight, HubMidnight
  <2>2. QED
    BY <1>2, <2>1
<1>5. ASSUME NEW n \in Push, Caught(n), m = [n EXCEPT !.path = today], today' = today + 1
      PROVE  m.path < today' /\ Expired(Section(m), m.path) = {}
  <2>1. m.path = today /\ Section(m) = Section(n)
    BY <1>5 DEF Push, Section
  <2>2. QED
    BY <1>1, <1>5, <2>1 DEF Caught, Days
<1>6. ASSUME NEW v \in Devices, HubMidnight, Pushing(v), Caught(net[v]["sync"]),
             net' = [net EXCEPT ![v]["sync"].path = today], UNCHANGED ghosts
      PROVE  m.path < today' /\ Expired(Section(m), m.path) = {}
  <2>1. \A w \in Devices : net'[w]["sync"] = IF w = v THEN [net[v]["sync"] EXCEPT !.path = today]
                                                     ELSE net[w]["sync"]
    BY <1>6, SimpleMessages DEF IInv, LinesOK
  <2>2. m \in Pushes \/ m = [net[v]["sync"] EXCEPT !.path = today]
    BY <1>6, <2>1 DEF Pushes, Pushing
  <2>3. today' = today + 1 /\ net[v]["sync"] \in Push
    BY <1>6, OnSyncLine DEF HubMidnight, IInv
  <2>4. QED
    BY <1>2, <1>5, <1>6, <2>2, <2>3
<1>7. ASSUME NEW n \in ghosts, HubMidnight, Caught(n), UNCHANGED net,
             ghosts' = (ghosts \ {n}) \cup {[n EXCEPT !.path = today]}
      PROVE  m.path < today' /\ Expired(Section(m), m.path) = {}
  <2>1. m \in Pushes \/ m = [n EXCEPT !.path = today]
    BY <1>7 DEF Pushes, Pushing
  <2>2. today' = today + 1 /\ n \in Push
    BY <1>7 DEF HubMidnight, IInv, LinesOK
  <2>3. QED
    BY <1>2, <1>5, <1>7, <2>1, <2>2
<1>8. QED
  BY <1>3, <1>4, <1>6, <1>7 DEF Midnight, HubMidnight

\* What a section adds to the file it is about, and refuses.
LEMMA SectionTells ==
    ASSUME ClocksOK, HubOK, NEW m \in Push
    PROVE  /\ Grown(hub[Reading(m)], Effect(m))
           /\ Filed(hub[Reading(m)], Reading(m)) => Filed(Effect(m), Reading(m))
           /\ Refused(m) = {} => IdsOf(Section(m)) \subseteq Known(Effect(m))
           /\ Deletes(m) => IdsOf(m.deletes) \subseteq Effect(m).tombs
           /\ \A id : id \in Refused(m) <=> id \in IdsOf(Section(m)) /\ DateOf[id] # Reading(m)
<1> DEFINE h == hub[Reading(m)]
<1>1. Reading(m) \in Days /\ Clean(h) /\ Section(m) \in SUBSET Record
  BY SectionServed DEF HubOK
<1>2. \A id : id \in Refused(m) <=> id \in IdsOf(Section(m)) /\ DateOf[id] # Reading(m)
  BY DEF Refused, Expired
<1>3. CASE Refused(m) # {}
  <2>1. Effect(m) = h
    BY <1>3 DEF Effect
  <2>2. QED
    BY <1>2, <1>3, <2>1 DEF Grown, Deletes
<1>4. CASE Refused(m) = {} /\ m.at = "append"
  <2>1. Effect(m) = WithEntries(h, Section(m)) /\ ~Deletes(m)
    BY <1>4 DEF Effect, Section, Deletes
  <2> HIDE DEF h
  <2>2. /\ Effect(m).tombs = h.tombs
        /\ Known(Effect(m)) = Known(h) \cup IdsOf(Section(m))
    BY <1>1, <2>1, AddedFiled
  <2>3. QED
    BY <1>2, <1>4, <2>1, <2>2 DEF Grown, Filed, h
<1>5. CASE Refused(m) = {} /\ m.at # "append"
  <2>1. Effect(m) = WithDeletes(h, Section(m)) /\ Section(m) = m.deletes
    BY <1>5 DEF Effect, Section
  <2> HIDE DEF h
  <2>2. /\ Effect(m).tombs = h.tombs \cup IdsOf(Section(m))
        /\ Known(Effect(m)) = Known(h) \cup IdsOf(Section(m))
    BY <1>1, <2>1, DeletedFiled
  <2>3. QED
    BY <1>2, <1>5, <2>1, <2>2 DEF Grown, Filed, h
<1>6. QED
  BY <1>3, <1>4, <1>5

\* The hub's file of its day only grows, and no later one changes.
LEMMA HubGrows ==
    ASSUME IInv, LatePast, HubFiled, [Next]_vars
    PROVE  /\ HubFiled'
           /\ \A d \in Days : d >= today => Grown(hub[d], hub'[d])
           /\ \A d \in Days : d > today => hub'[d] = hub[d]
<1>0. today \in Days /\ today' \in Days /\ today <= today' /\ hub \in [Days -> File]
  <2>1. today' \in {today, today + 1}
    BY DayMoves DEF IInv
  <2>2. QED
    BY <2>1, ClocksInv DEF IInv, ClocksOK, HubOK, Days
<1> SUFFICES ASSUME NEW d \in Days, d >= today
             PROVE  /\ d >= today' => Filed(hub'[d], d)
                    /\ Grown(hub[d], hub'[d])
                    /\ d > today => hub'[d] = hub[d]
  BY <1>0 DEF HubFiled, Days
<1>1. CASE hub'[d] = hub[d]
  BY <1>1 DEF HubFiled, Grown
<1>2. ASSUME NEW m \in Push, m \in Pushes, HubPush(m), hub'[d] # hub[d]
      PROVE  d = today /\ Filed(hub'[d], d) /\ Grown(hub[d], hub'[d])
  <2>1. hub' = [hub EXCEPT ![Reading(m)] = Effect(m)]
    BY <1>2 DEF HubPush
  <2>2. d = Reading(m) /\ hub'[d] = Effect(m)
    BY <1>0, <1>2, <2>1
  <2>3. m.path # None => m.path < today /\ m.path \in Days
    BY <1>2 DEF LatePast, Overtaken, Push
  <2>4. d = today
    BY <1>0, <2>2, <2>3 DEF Reading, Days
  <2>5. QED
    BY <2>2, <2>4, SectionTells DEF IInv, HubFiled, Days
<1>3. CASE \E e \in Days : OwnerStep(e)
  BY <1>1, <1>3, OwnerKeepsHub DEF IInv
<1>4. CASE hub'[d] # hub[d] /\ \E m \in Push : HubPush(m) /\ m \in Pushes
  <2>1. d = today /\ Filed(hub'[d], d) /\ Grown(hub[d], hub'[d])
    BY <1>2, <1>4
  <2>2. QED
    BY <1>0, <2>1 DEF Days
<1>5. QED
  BY <1>1, <1>3, <1>4, HubMoves DEF IInv

-----------------------------------------------------------------------------
(* ------------------- what a step does to one device --------------------- *)

\* The answers a device may merge next.
Pending(v, delta) ==
    \/ sync[v].phase = "merge" /\ delta = sync[v].answer
    \/ \E c \in Lines : net[v][c].stage = "answer" /\ delta = net[v][c].delta

Writes(v) == (\E r \in Record : WriteRecord(v, r)) \/ DeleteLatest(v)
Merges(v) == \E delta \in Delta : Pending(v, delta) /\ ApplyDelta(v, delta)
Sends(v) == \E full \in BOOLEAN : SendPending(v, full)

LEMMA LocalMoves ==
    ASSUME IInv, [Next]_vars, NEW v \in Devices
    PROVE  \/ UNCHANGED local[v]
           \/ Writes(v) \/ Merges(v) \/ FetchFile(v) \/ PruneFiles(v)
<1>0. local \in [Devices -> [Days -> File]]
  BY DEF IInv, LocalOK
<1>1. CASE UNCHANGED local
  BY <1>1
<1>2. CASE \/ UNCHANGED vars \/ ServeGhost \/ Midnight
           \/ \E r \in Reports : GenerateReport(r)
           \/ \E e \in Days : OwnerStep(e)
  BY <1>2 DEF vars, ServeGhost, Midnight, GenerateReport, OwnerStep, Summarise, Import, devVars
<1>3. ASSUME NEW w \in Devices, ReportStep(w) \/ HubStep(w) \/ CutStep(w) PROVE UNCHANGED local
  BY <1>3 DEF ReportStep, MirrorStep, ListReports, FetchReport, PruneReports, LoseReports,
              SkipReport, HubStep, ServePush, AnswerPush, AnswerPull, AnswerPoll, CutStep, LoseSync,
              LosePoll, CrashClient, devVars
<1>4. ASSUME NEW w \in Devices, InputStep(w) PROVE UNCHANGED local[v] \/ Writes(v)
  <2>1. CASE w = v
    BY <1>4, <2>1 DEF InputStep, Writes, Enqueue
  <2>2. CASE w # v
    BY <1>0, <1>4, <2>2 DEF InputStep, WriteRecord, DeleteLatest, Enqueue
  <2>3. QED
    BY <2>1, <2>2
<1>5. ASSUME NEW w \in Devices, NEW delta \in Delta, Pending(w, delta), ApplyDelta(w, delta)
      PROVE  UNCHANGED local[v] \/ Merges(v)
  BY <1>0, <1>5 DEF ApplyDelta, Merges
<1>6. ASSUME NEW w \in Devices, PushStep(w) PROVE UNCHANGED local[v] \/ Merges(v)
  <2>1. CASE Flush(w) \/ FullSync(w) \/ Acknowledge(w)
    BY <2>1 DEF Flush, FullSync, SendPending, Acknowledge
  <2>2. CASE MergePush(w)
    BY <1>5, <2>2 DEF MergePush, Pending, IInv, SyncOK
  <2>3. QED
    BY <1>6, <2>1, <2>2 DEF PushStep
<1>7. ASSUME NEW w \in Devices, PullStep(w) PROVE UNCHANGED local[v] \/ Merges(v)
  <2>1. CASE SendPull(w) \/ SendPoll(w)
    BY <2>1 DEF SendPull, SendPoll, devVars
  <2>2. CASE MergePull(w)
    BY <1>5, <2>2, AnswersAreDeltas, SimpleMessages DEF MergePull, Pending, IInv
  <2>3. CASE MergePoll(w)
    BY <1>5, <2>3, AnswersAreDeltas, SimpleMessages DEF MergePoll, Pending, IInv
  <2>4. QED
    BY <1>7, <2>1, <2>2, <2>3 DEF PullStep
<1>8. ASSUME NEW w \in Devices, HistoryStep(w)
      PROVE  UNCHANGED local[v] \/ FetchFile(v) \/ PruneFiles(v)
  <2>1. CASE StartHistory(w) \/ GetList(w) \/ FetchTrash(w) \/ SkipFile(w) \/ LoseList(w)
    BY <2>1 DEF StartHistory, GetList, FetchTrash, SkipFile, LoseList, devVars
  <2>2. CASE FetchFile(w) \/ PruneFiles(w)
    BY <1>0, <2>2 DEF FetchFile, PruneFiles
  <2>3. QED
    BY <1>8, <2>1, <2>2 DEF HistoryStep
<1>9. QED
  BY <1>1, <1>2, <1>3, <1>4, <1>6, <1>7, <1>8, Steps

\* The same for one file.
LEMMA FileMoves ==
    ASSUME IInv, [Next]_vars, NEW v \in Devices, NEW d \in Days
    PROVE  \/ local'[v][d] = local[v][d]
           \/ \E r \in Record : /\ WriteRecord(v, r) /\ d = clock[v]
                                /\ local'[v][d] = [local[v][d] EXCEPT !.entries = @ \cup {r}]
           \/ \E r \in local[v][d].entries :
                /\ DeleteLatest(v) /\ d = clock[v]
                /\ input'[v] = [op |-> "delete", record |-> r]
                /\ local'[v][d] = WithDeletes(local[v][d], {r})
           \/ \E delta \in Delta :
                /\ Pending(v, delta) /\ delta.label = d /\ d = clock[v]
                /\ local'[v][d] = Merged(local[v][d], delta.file)
           \/ FetchFile(v) /\ d \in sync[v].answer.todo /\ local'[v][d] = hub[d]
           \/ PruneFiles(v) /\ d \in Extra(v) /\ local'[v][d] = EmptyFile
<1>0. /\ local \in [Devices -> [Days -> File]] /\ clock[v] \in Days
      /\ input \in [Devices -> {None} \cup [op : {"entry", "delete"}, record : Record]]
  BY DEF IInv, LocalOK, ClocksOK, BoxOK
<1>1. CASE UNCHANGED local[v]
  BY <1>1
<1>2. ASSUME NEW g, local' = [local EXCEPT ![v][clock[v]] = g]
      PROVE  local'[v][d] = IF d = clock[v] THEN g ELSE local[v][d]
  BY <1>0, <1>2
<1>3. ASSUME NEW r \in Record, WriteRecord(v, r)
      PROVE  \/ local'[v][d] = local[v][d]
             \/ d = clock[v] /\ local'[v][d] = [local[v][d] EXCEPT !.entries = @ \cup {r}]
  <2>1. local' = [local EXCEPT ![v][clock[v]].entries = @ \cup {r}]
    BY <1>3 DEF WriteRecord
  <2>2. local' = [local EXCEPT ![v][clock[v]] = [local[v][clock[v]] EXCEPT !.entries = @ \cup {r}]]
    BY <1>0, <2>1
  <2>3. QED
    BY <1>2, <2>2
<1>4. CASE DeleteLatest(v)
  <2>1. PICK r \in local[v][clock[v]].entries :
          /\ local' = [local EXCEPT ![v][clock[v]] = WithDeletes(local[v][clock[v]], {r})]
          /\ input' = [input EXCEPT ![v] = [op |-> "delete", record |-> r]]
    BY <1>4 DEF DeleteLatest, Latest
  <2>2. QED
    BY <1>0, <1>2, <1>4, <2>1
<1>5. ASSUME NEW delta \in Delta, Pending(v, delta), ApplyDelta(v, delta)
      PROVE  \/ local'[v][d] = local[v][d]
             \/ /\ delta.label = d /\ d = clock[v]
                /\ local'[v][d] = Merged(local[v][d], delta.file)
  <2>1. CASE delta.fresh /\ delta.label = clock[v]
    <3>1. local' = [local EXCEPT ![v][clock[v]] = Merged(local[v][clock[v]], delta.file)]
      BY <1>5, <2>1 DEF ApplyDelta
    <3>2. QED
      BY <1>2, <2>1, <3>1
  <2>2. CASE ~(delta.fresh /\ delta.label = clock[v])
    BY <1>5, <2>2 DEF ApplyDelta
  <2>3. QED
    BY <2>1, <2>2
<1>6. CASE FetchFile(v)
  <2>1. PICK e \in sync[v].answer.todo :
          local' = IF SameAsListed(v, e) THEN local ELSE [local EXCEPT ![v][e] = hub[e]]
    BY <1>6 DEF FetchFile, First
  <2>2. QED
    BY <1>0, <1>6, <2>1
<1>7. CASE PruneFiles(v)
  BY <1>0, <1>7 DEF PruneFiles
<1>8. QED
  BY <1>1, <1>3, <1>4, <1>5, <1>6, <1>7, LocalMoves DEF Writes, Merges

LEMMA BoxMoves ==
    ASSUME IInv, [Next]_vars, NEW v \in Devices
    PROVE  \/ UNCHANGED <<outEntries[v], outDeletes[v], input[v]>>
           \/ Writes(v) \/ Enqueue(v) \/ Sends(v) \/ Acknowledge(v) \/ CrashClient(v)
<1>0. /\ outEntries \in [Devices -> SUBSET Record] /\ outDeletes \in [Devices -> SUBSET Record]
      /\ input \in [Devices -> {None} \cup [op : {"entry", "delete"}, record : Record]]
  BY DEF IInv, BoxOK
<1>1. CASE \/ UNCHANGED vars \/ ServeGhost \/ Midnight
           \/ \E r \in Reports : GenerateReport(r)
           \/ \E d \in Days : OwnerStep(d)
  BY <1>1 DEF vars, ServeGhost, Midnight, GenerateReport, OwnerStep, Summarise, Import, devVars
<1>2. ASSUME NEW w \in Devices,
             PullStep(w) \/ HistoryStep(w) \/ LoseSync(w) \/ LosePoll(w) \/ MergePush(w)
      PROVE  UNCHANGED <<outEntries, outDeletes, input>>
  BY <1>2 DEF PullStep, SendPull, MergePull, SendPoll, MergePoll, HistoryStep, StartHistory,
              GetList, FetchFile, FetchTrash, PruneFiles, SkipFile, LoseList, LoseSync,
              LosePoll, MergePush, devVars
<1>3. ASSUME NEW w \in Devices, ReportStep(w) \/ HubStep(w)
      PROVE  UNCHANGED <<outEntries, outDeletes, input>>
  BY <1>3 DEF ReportStep, MirrorStep, ListReports, FetchReport, PruneReports, LoseReports,
              SkipReport, HubStep, ServePush, AnswerPush, AnswerPull, AnswerPoll, devVars
<1>4. ASSUME NEW w \in Devices, InputStep(w)
      PROVE  UNCHANGED <<outEntries[v], outDeletes[v], input[v]>> \/ Writes(v) \/ Enqueue(v)
  <2>1. CASE w = v
    BY <1>4, <2>1 DEF InputStep, Writes
  <2>2. CASE w # v
    <3>1. CASE (\E r \in Record : WriteRecord(w, r)) \/ DeleteLatest(w)
      BY <1>0, <2>2, <3>1 DEF WriteRecord, DeleteLatest
    <3>2. CASE Enqueue(w)
      <4>1. input[w].op \in {"entry", "delete"}
        BY <3>2 DEF Enqueue, IInv, BoxOK
      <4>2. QED
        BY <1>0, <2>2, <3>2, <4>1 DEF Enqueue
    <3>3. QED
      BY <1>4, <3>1, <3>2 DEF InputStep
  <2>3. QED
    BY <2>1, <2>2
<1>5. ASSUME NEW w \in Devices, Flush(w) \/ FullSync(w) \/ Acknowledge(w)
      PROVE  UNCHANGED <<outEntries[v], outDeletes[v], input[v]>> \/ Sends(v) \/ Acknowledge(v)
  <2>1. CASE w = v
    BY <1>5, <2>1 DEF Flush, FullSync, Sends
  <2>2. CASE w # v
    BY <1>0, <1>5, <2>2 DEF Flush, FullSync, SendPending, Acknowledge
  <2>3. QED
    BY <2>1, <2>2
<1>6. ASSUME NEW w \in Devices, CrashClient(w)
      PROVE  UNCHANGED <<outEntries[v], outDeletes[v], input[v]>> \/ CrashClient(v)
  BY <1>0, <1>6 DEF CrashClient
<1>7. QED
  BY <1>1, <1>2, <1>3, <1>4, <1>5, <1>6, Steps DEF PushStep, CutStep

LEMMA SyncMoves ==
    ASSUME IInv, [Next]_vars, NEW v \in Devices
    PROVE  \/ UNCHANGED sync[v]
           \/ Sends(v) \/ Acknowledge(v) \/ MergePush(v)
           \/ SendPull(v) \/ MergePull(v) \/ HistoryStep(v)
           \/ sync'[v] = IdleSync
<1>0. sync \in [Devices -> Sync]
  BY DEF IInv, SyncOK
<1>1. CASE \/ UNCHANGED vars \/ ServeGhost \/ Midnight
           \/ \E r \in Reports : GenerateReport(r)
           \/ \E d \in Days : OwnerStep(d)
  BY <1>1 DEF vars, ServeGhost, Midnight, GenerateReport, OwnerStep, Summarise, Import, thrVars
<1>2. ASSUME NEW w \in Devices, InputStep(w) \/ HubStep(w) PROVE UNCHANGED sync
  BY <1>2 DEF InputStep, WriteRecord, DeleteLatest, Enqueue, HubStep, ServePush, AnswerPush, AnswerPull,
              AnswerPoll, thrVars
<1>3. ASSUME NEW w \in Devices, ReportStep(w) \/ CutStep(w)
      PROVE  UNCHANGED sync[v] \/ sync'[v] = IdleSync
  BY <1>0, <1>3 DEF ReportStep, MirrorStep, ListReports, FetchReport, PruneReports,
              LoseReports, SkipReport, EndMirror, CutStep, LoseSync, LosePoll, CrashClient,
              thrVars
<1>4. ASSUME NEW w \in Devices, w # v, PushStep(w) \/ PullStep(w) \/ HistoryStep(w)
      PROVE  UNCHANGED sync[v]
  <2>1. CASE Flush(w) \/ FullSync(w)
    BY <1>0, <1>4, <2>1 DEF Flush, FullSync, SendPending
  <2>2. CASE Acknowledge(w) \/ MergePush(w)
    BY <1>0, <1>4, <2>2 DEF Acknowledge, MergePush
  <2>3. CASE PullStep(w)
    BY <1>0, <1>4, <2>3 DEF PullStep, SendPull, MergePull, SendPoll, MergePoll, Phase
  <2>4. CASE StartHistory(w) \/ GetList(w) \/ FetchTrash(w) \/ PruneFiles(w) \/ LoseList(w)
    BY <1>0, <1>4, <2>4 DEF StartHistory, GetList, FetchTrash, PruneFiles, LoseList, Phase
  <2>5. CASE FetchFile(w) \/ SkipFile(w)
    BY <1>0, <1>4, <2>5 DEF FetchFile, SkipFile, Phase
  <2>6. QED
    BY <1>4, <2>1, <2>2, <2>3, <2>4, <2>5 DEF PushStep, HistoryStep
<1>5. CASE PushStep(v) \/ PullStep(v)
  BY <1>5 DEF PushStep, Flush, FullSync, PullStep, SendPoll, MergePoll, Sends
<1>6. QED
  BY <1>1, <1>2, <1>3, <1>4, <1>5, Steps

\* Midnight falls into a section of the push a device waits for.
Overtakes(v) ==
    /\ Midnight /\ today' = today + 1
    /\ Pushing(v) /\ Caught(net[v]["sync"])
    /\ net'[v]["sync"] = [net[v]["sync"] EXCEPT !.path = today]

LEMMA NetMoves ==
    ASSUME IInv, [Next]_vars, NEW v \in Devices, NEW c \in Lines
    PROVE  \/ UNCHANGED net[v][c]
           \/ net'[v][c] = NoMsg /\ (c = "sync" => sync'[v].phase # "pushing")
           \/ c = "sync" /\ (Sends(v) \/ SendPull(v) \/ AnswerPull(v))
           \/ c = "sync" /\ (ServePush(v) \/ AnswerPush(v) \/ Overtakes(v))
           \/ c = "poll" /\ (SendPoll(v) \/ AnswerPoll(v))
<1>0. net \in [Devices -> [Lines -> Message]] /\ "sync" \in Lines /\ "poll" \in Lines
      /\ Lines = {"sync", "poll"}
  BY DEF IInv, LinesOK, Lines
<1>1. CASE \/ UNCHANGED vars \/ ServeGhost
           \/ \E r \in Reports : GenerateReport(r)
           \/ \E d \in Days : OwnerStep(d)
  BY <1>1 DEF vars, ServeGhost, GenerateReport, OwnerStep, Summarise, Import, thrVars
<1>2. ASSUME NEW w \in Devices,
             InputStep(w) \/ HistoryStep(w) \/ ReportStep(w) \/ MergePush(w)
      PROVE  UNCHANGED net
  BY <1>2 DEF InputStep, WriteRecord, DeleteLatest, Enqueue, HistoryStep, StartHistory,
              GetList, FetchFile, FetchTrash, PruneFiles, SkipFile, LoseList, ReportStep,
              MirrorStep, ListReports, FetchReport, PruneReports, LoseReports, SkipReport,
              MergePush, thrVars
<1>3. ASSUME NEW w \in Devices, NEW e \in Lines, NEW m, net' = [net EXCEPT ![w][e] = m]
      PROVE  net'[v][c] = IF w = v /\ e = c THEN m ELSE net[v][c]
  BY <1>0, <1>3
<1>4. ASSUME NEW w \in Devices, Flush(w) \/ FullSync(w)
      PROVE  UNCHANGED net[v][c] \/ (c = "sync" /\ Sends(v))
  <2>1. PICK full \in BOOLEAN : SendPending(w, full)
    BY <1>4 DEF Flush, FullSync
  <2>2. CASE UNCHANGED net
    BY <2>2
  <2>3. CASE ~UNCHANGED net
    <3>1. \E p : net' = [net EXCEPT ![w]["sync"] = p]
      BY <2>1, <2>3 DEF SendPending
    <3>2. QED
      BY <1>0, <1>3, <2>1, <3>1 DEF Sends
  <2>4. QED
    BY <2>2, <2>3
<1>5. ASSUME NEW w \in Devices, Acknowledge(w) \/ MergePull(w) \/ MergePoll(w)
                                \/ LoseSync(w) \/ LosePoll(w)
      PROVE  \/ UNCHANGED net[v][c]
             \/ net'[v][c] = NoMsg /\ (c = "sync" => sync'[v].phase # "pushing")
  <2>0. sync \in [Devices -> Sync]
    BY DEF IInv, SyncOK
  <2>1. CASE Acknowledge(w)
    <3>1. net' = [net EXCEPT ![w]["sync"] = NoMsg]
      BY <2>1 DEF Acknowledge
    <3>2. sync'[w].phase \in {AfterPush(sync[w].full), "merge"}
      BY <2>0, <2>1 DEF Acknowledge, Sync
    <3>3. sync'[w].phase # "pushing"
      BY <3>2 DEF AfterPush
    <3>4. QED
      BY <1>0, <1>3, <3>1, <3>3
  <2>2. CASE MergePull(w) \/ MergePoll(w)
    <3>1. CASE MergePull(w)
      <4>1. net' = [net EXCEPT ![w]["sync"] = NoMsg] /\ sync'[w].phase = "list"
        BY <2>0, <3>1 DEF MergePull, Phase, Sync
      <4>2. QED
        BY <1>0, <1>3, <4>1
    <3>2. CASE MergePoll(w)
      BY <1>0, <1>3, <3>2 DEF MergePoll
    <3>3. QED
      BY <2>2, <3>1, <3>2
  <2>3. CASE LoseSync(w) \/ LosePoll(w)
    BY <1>0, <1>3, <2>0, <2>3 DEF LoseSync, LosePoll, IdleSync
  <2>4. QED
    BY <1>5, <2>1, <2>2, <2>3
<1>6. ASSUME NEW w \in Devices, SendPull(w) \/ ServePush(w) \/ AnswerPush(w) \/ AnswerPull(w)
      PROVE  (w = v /\ c = "sync") \/ UNCHANGED net[v][c]
  BY <1>0, <1>3, <1>6 DEF SendPull, ServePush, AnswerPush, AnswerPull
<1>7. ASSUME NEW w \in Devices, SendPoll(w) \/ AnswerPoll(w)
      PROVE  (w = v /\ c = "poll") \/ UNCHANGED net[v][c]
  BY <1>0, <1>3, <1>7 DEF SendPoll, AnswerPoll
<1>8. ASSUME NEW w \in Devices, CrashClient(w)
      PROVE  \/ UNCHANGED net[v][c]
             \/ net'[v][c] = NoMsg /\ sync'[v].phase # "pushing"
  BY <1>0, <1>8 DEF CrashClient, IInv, SyncOK, IdleSync
<1>9. ASSUME Midnight, ~UNCHANGED net PROVE UNCHANGED net[v][c] \/ (c = "sync" /\ Overtakes(v))
  <2>1. PICK w \in Devices : /\ Pushing(w) /\ Caught(net[w]["sync"]) /\ today' = today + 1
                            /\ net' = [net EXCEPT ![w]["sync"].path = today]
    BY <1>9 DEF Midnight, HubMidnight
  <2>2. net' = [net EXCEPT ![w]["sync"] = [net[w]["sync"] EXCEPT !.path = today]]
    BY <1>0, <2>1
  <2>3. QED
    BY <1>0, <1>3, <1>9, <2>1, <2>2 DEF Overtakes
<1>10. QED
  BY <1>1, <1>2, <1>4, <1>5, <1>6, <1>7, <1>8, <1>9, Steps DEF PushStep, PullStep, HubStep, CutStep

-----------------------------------------------------------------------------
(* ------------------------ answers tell the truth ------------------------ *)

LocalFiled == \A v \in Devices, d \in Days : d >= today => Filed(local[v][d], d)
\* An answer holds blocks of its day, and while that lasts the hub knows them.
DeltaTrue(delta, day, files) ==
    /\ delta.label <= day
    /\ Clean(delta.file) /\ Filed(delta.file, delta.label)
    /\ delta.label = day => Grown(delta.file, files[day])
AnswersTrue ==
    \A v \in Devices : \A delta \in Delta : Pending(v, delta) => DeltaTrue(delta, today, hub)
FlowInv == HubFiled /\ LatePast /\ LocalFiled /\ AnswersTrue

\* An answer is new only when the hub has just given it.
LEMMA PendingMoves ==
    ASSUME IInv, [Next]_vars, NEW v \in Devices, NEW delta \in Delta, Pending(v, delta)'
    PROVE  \/ Pending(v, delta)
           \/ /\ delta.label = today /\ delta.file = hub'[today] /\ UNCHANGED today
              /\ \/ delta.fresh
                 \/ net[v]["poll"].stage = "sent" /\ net[v]["poll"].after = delta.file
<1>0. sync[v] \in Sync
  BY DEF IInv, SyncOK
<1>1. ASSUME sync'[v].phase = "merge", delta = sync'[v].answer PROVE Pending(v, delta)
  <2>1. ASSUME NEW p \in Phases, p # "merge", sync' = [sync EXCEPT ![v].phase = p] PROVE FALSE
    BY <1>1, <2>1 DEF IInv, SyncOK, Sync
  <2>2. CASE UNCHANGED sync[v]
    BY <1>1, <2>2 DEF Pending
  <2>3. CASE Acknowledge(v)
    <3>1. sync' = [sync EXCEPT ![v].phase = IF net[v]["sync"].rejected # {}
                                              THEN AfterPush(sync[v].full) ELSE "merge",
                               ![v].answer = IF net[v]["sync"].rejected # {}
                                              THEN None ELSE net[v]["sync"].delta]
          /\ net[v]["sync"].stage = "answer"
      BY <2>3 DEF Acknowledge
    <3>2. net[v]["sync"].rejected = {}
      BY <1>0, <1>1, <3>1 DEF AfterPush, Sync, IInv, SyncOK
    <3>3. delta = net[v]["sync"].delta
      BY <1>0, <1>1, <3>1, <3>2 DEF Sync, IInv, SyncOK
    <3>4. QED
      BY <3>1, <3>3, SimpleMessages DEF Pending
  <2>4. CASE Sends(v)
    BY <1>0, <1>1, <2>4 DEF Sends, SendPending, AfterPush, IInv, SyncOK, Sync
  <2>5. CASE MergePush(v)
    BY <1>0, <1>1, <2>5 DEF MergePush, AfterPush, IInv, SyncOK, Sync
  <2>6. CASE SendPull(v) \/ MergePull(v)
    BY <1>0, <1>1, <2>6 DEF SendPull, MergePull, Phase, IInv, SyncOK, Sync
  <2>7. CASE HistoryStep(v)
    BY <1>0, <1>1, <2>7 DEF HistoryStep, StartHistory, GetList, FetchFile, FetchTrash,
       PruneFiles, SkipFile, LoseList, Phase, IInv, SyncOK, Sync
  <2>8. CASE sync'[v] = IdleSync
    BY <1>1, <2>8 DEF IdleSync
  <2>9. QED
    BY <2>2, <2>3, <2>4, <2>5, <2>6, <2>7, <2>8, SyncMoves
<1>2. ASSUME NEW c \in Lines, net'[v][c].stage = "answer", delta = net'[v][c].delta
      PROVE  \/ Pending(v, delta)
             \/ /\ delta.label = today /\ delta.file = hub'[today] /\ UNCHANGED today
                /\ \/ delta.fresh
                   \/ net[v]["poll"].stage = "sent" /\ net[v]["poll"].after = delta.file
  <2>0. net \in [Devices -> [Lines -> Message]]
    BY DEF IInv, LinesOK
  <2>1. CASE UNCHANGED net[v][c]
    BY <1>2, <2>1 DEF Pending
  <2>2. CASE net'[v][c] = NoMsg
    BY <1>2, <2>2 DEF NoMsg
  <2>3. CASE c = "sync" /\ Sends(v)
    BY <1>2, <2>0, <2>1, <2>3 DEF Sends, SendPending
  <2>4. CASE c = "sync" /\ SendPull(v)
    BY <1>2, <2>0, <2>4 DEF SendPull
  <2>5. CASE c = "poll" /\ SendPoll(v)
    BY <1>2, <2>0, <2>5 DEF SendPoll
  <2>6. CASE c = "sync" /\ AnswerPush(v)
    BY <1>2, <2>0, <2>6 DEF AnswerPush, FullState, hubVars
  <2>7. CASE c = "sync" /\ AnswerPull(v)
    BY <1>2, <2>0, <2>7 DEF AnswerPull, FullState, hubVars
  <2>8. CASE c = "poll" /\ AnswerPoll(v)
    <3>1. /\ delta = [FullState EXCEPT !.fresh = Changed(net[v]["poll"])]
          /\ UNCHANGED hubVars /\ net[v]["poll"].stage = "sent"
      BY <1>2, <2>0, <2>8 DEF AnswerPoll
    <3>2. /\ delta.label = today /\ delta.file = hub[today]
          /\ delta.fresh = Changed(net[v]["poll"])
      BY <3>1 DEF FullState
    <3>3. QED
      BY <3>1, <3>2 DEF Changed, hubVars
  <2>9. CASE c = "sync" /\ ServePush(v)
    <3>1. net[v]["sync"] \in Push /\ net'[v]["sync"] = Served(net[v]["sync"])
      BY <2>0, <2>9, OnSyncLine DEF ServePush, IInv
    <3>2. QED
      BY <1>2, <2>9, <3>1 DEF Served, Push
  <2>10. CASE c = "sync" /\ Overtakes(v)
    <3>1. net[v]["sync"] \in Push
      BY <2>10, OnSyncLine DEF Overtakes, IInv
    <3>2. QED
      BY <1>2, <2>10, <3>1 DEF Overtakes, Push
  <2>11. QED
    BY <2>1, <2>2, <2>3, <2>4, <2>5, <2>6, <2>7, <2>8, <2>9, <2>10, NetMoves
<1>3. QED
  BY <1>1, <1>2 DEF Pending

LEMMA FlowStep == ASSUME IInv, IInv', FlowInv, [Next]_vars PROVE FlowInv'
<1>1. HubFiled' /\ LatePast' /\ \A d \in Days : d >= today => Grown(hub[d], hub'[d])
  BY HubGrows, LateStep DEF FlowInv
<1>2. today \in Days /\ today' \in Days /\ today <= today'
  BY DayMoves DEF IInv, ClocksOK, Days
<1>3. ASSUME NEW v \in Devices, NEW delta \in Delta, Pending(v, delta)'
      PROVE  DeltaTrue(delta, today', hub')
  <2>1. delta.label \in Days
    BY DEF Delta
  <2>2. CASE Pending(v, delta)
    <3>1. DeltaTrue(delta, today, hub)
      BY <2>2 DEF FlowInv, AnswersTrue
    <3>2. delta.label <= today' /\ (delta.label = today' => delta.label = today)
      BY <1>2, <2>1, <3>1 DEF DeltaTrue, Days
    <3>3. delta.label = today' => Grown(delta.file, hub'[today'])
      BY <1>1, <1>2, <3>1, <3>2, GrownFurther DEF DeltaTrue, Days
    <3>4. QED
      BY <3>1, <3>2, <3>3 DEF DeltaTrue
  <2>3. CASE delta.label = today /\ delta.file = hub'[today] /\ UNCHANGED today
    <3>1. Clean(hub'[today]) /\ Filed(hub'[today], today)
      BY <1>1, <1>2, <2>3 DEF HubFiled, IInv, HubOK, Days
    <3>2. QED
      BY <1>2, <2>3, <3>1 DEF DeltaTrue, Grown, Days
  <2>4. QED
    BY <1>3, <2>2, <2>3, PendingMoves
<1>4. ASSUME NEW v \in Devices, NEW d \in Days, d >= today' PROVE Filed(local'[v][d], d)
  <2>00. d >= today
    BY <1>2, <1>4 DEF Days
  <2>0. Filed(local[v][d], d) /\ Clean(local[v][d])
    BY <2>00 DEF FlowInv, LocalFiled, IInv, LocalOK
  <2>1. ASSUME NEW r \in Record, WriteRecord(v, r), d = clock[v],
               local'[v][d] = [local[v][d] EXCEPT !.entries = @ \cup {r}]
        PROVE  Filed(local'[v][d], d)
    <3>1. DateOf[r.id] = d
      BY <2>1 DEF WriteRecord
    <3>2. QED
      BY <2>0, <2>1, <3>1, WrittenFiled DEF Filed
  <2>2. ASSUME NEW r \in local[v][d].entries, local'[v][d] = WithDeletes(local[v][d], {r})
        PROVE  Filed(local'[v][d], d)
    <3>1. {r} \in SUBSET Record /\ IdsOf({r}) \subseteq Known(local[v][d])
      BY <2>0 DEF Clean, File, Known, IdsOf
    <3>2. Known(local'[v][d]) = Known(local[v][d]) \cup IdsOf({r})
      BY <2>0, <2>2, <3>1, DeletedFiled
    <3>3. QED
      BY <2>0, <3>1, <3>2 DEF Filed
  <2>3. ASSUME NEW delta \in Delta, Pending(v, delta), delta.label = d,
               local'[v][d] = Merged(local[v][d], delta.file)
        PROVE  Filed(local'[v][d], d)
    <3>1. Clean(delta.file) /\ Filed(delta.file, d)
      BY <2>3 DEF FlowInv, AnswersTrue, DeltaTrue
    <3>2. QED
      BY <2>0, <2>3, <3>1, MergedFiled DEF Filed
  <2>4. CASE local'[v][d] = hub[d] \/ local'[v][d] = EmptyFile
    BY <2>00, <2>4, NothingFiled DEF FlowInv, HubFiled
  <2>5. QED
    BY <2>0, <2>1, <2>2, <2>3, <2>4, FileMoves
<1>5. QED
  BY <1>1, <1>3, <1>4 DEF FlowInv, LocalFiled, AnswersTrue

LEMMA FlowInit == Init => FlowInv
<1> SUFFICES ASSUME Init PROVE FlowInv
  OBVIOUS
<1>1. HubFiled /\ LocalFiled /\ LatePast
  <2>1. Pushes = {}
    BY SimpleMessages DEF Init, Pushes, Pushing, NoMsg
  <2>2. QED
    BY <2>1, NothingFiled DEF Init, HubFiled, LocalFiled, LatePast
<1>2. \A v \in Devices : \A delta : ~Pending(v, delta)
  BY DEF Init, Pending, NoMsg, IdleSync
<1>3. QED
  BY <1>1, <1>2 DEF FlowInv, AnswersTrue

LEMMA AlwaysFlow == Spec => []FlowInv
<1>1. IInv /\ [Next]_vars => IInv'
  BY NextIInv
<1>2. IInv /\ FlowInv /\ [Next]_vars => FlowInv'
  BY <1>1, FlowStep
<1>3. QED
  BY <1>2, FlowInit, AlwaysIInv, PTL DEF Spec

-----------------------------------------------------------------------------
(* --------------------- the outbox is emptied rightly -------------------- *)

Batch(v) == [stage |-> "sent", kind |-> "push",
             entries |-> Current(v, outEntries[v]), deletes |-> Current(v, outDeletes[v]),
             at |-> IF Current(v, outEntries[v]) = {} THEN "delete" ELSE "append",
             path |-> None, accepted |-> {}, rejected |-> {}]

\* A push thread waits for the answer to what it has just sent, or still to
\* the same.
LEMMA PushingMoves ==
    ASSUME IInv, [Next]_vars, NEW v \in Devices, sync'[v].phase = "pushing"
    PROVE  \/ sync[v].phase = "pushing" /\ UNCHANGED net[v]["sync"]
           \/ sync[v].phase = "pushing" /\ (AnswerPush(v) \/ AnswerPull(v))
           \/ sync[v].phase = "pushing" /\ (ServePush(v) \/ Overtakes(v))
           \/ Sends(v) /\ net'[v]["sync"] = Batch(v)
<1>0. sync \in [Devices -> Sync] /\ net \in [Devices -> [Lines -> Message]] /\ "sync" \in Lines
  BY SimpleMessages DEF IInv, SyncOK, LinesOK
<1>1. CASE Sends(v)
  <2>1. PICK full \in BOOLEAN : SendPending(v, full)
    BY <1>1 DEF Sends
  <2>2. sync' # [sync EXCEPT ![v].phase = AfterPush(full), ![v].full = full]
    BY <1>0 DEF AfterPush, Sync
  <2>3. net' = [net EXCEPT ![v]["sync"] = Batch(v)]
    BY <2>1, <2>2 DEF SendPending, Batch
  <2>4. QED
    BY <1>0, <1>1, <2>3
<1>2. ASSUME Acknowledge(v) \/ MergePush(v) PROVE FALSE
  BY <1>0, <1>2 DEF Acknowledge, MergePush, AfterPush, Sync
<1>3. ASSUME SendPull(v) \/ MergePull(v) PROVE FALSE
  BY <1>0, <1>3 DEF SendPull, MergePull, Phase, Sync
<1>4. CASE HistoryStep(v)
  <2>1. sync[v].phase # "pushing"
    BY <1>4 DEF HistoryStep, StartHistory, GetList, FetchFile, FetchTrash, PruneFiles,
                SkipFile, LoseList
  <2>2. sync'[v].phase # "pushing"
    BY <1>0, <1>4, <2>1 DEF HistoryStep, StartHistory, GetList, FetchFile, FetchTrash,
       PruneFiles, SkipFile, LoseList, Phase, Sync
  <2>3. QED
    BY <2>2
<1>5. sync'[v] # IdleSync
  BY DEF IdleSync
<1>6. CASE UNCHANGED sync[v] /\ ~Sends(v)
  <2>1. sync[v].phase = "pushing" /\ ~SendPull(v)
    BY <1>6 DEF SendPull
  <2>2. QED
    BY <1>0, <1>6, <2>1, NetMoves
<1>7. QED
  BY <1>1, <1>2, <1>3, <1>4, <1>5, <1>6, SyncMoves

\* Nothing queued is of a day to come.
QueuesPast ==
    \A v \in Devices :
        /\ \A r \in outEntries[v] \cup outDeletes[v] : DateOf[r.id] <= today
        /\ input[v] # None => DateOf[input[v].record.id] <= today

LEMMA QueuesStep ==
    ASSUME ClocksAgree, IInv, OneClock, FlowInv, QueuesPast, [Next]_vars
    PROVE  QueuesPast'
<1> SUFFICES ASSUME NEW v \in Devices
             PROVE  /\ \A r \in outEntries'[v] \cup outDeletes'[v] : DateOf[r.id] <= today'
                    /\ input'[v] # None => DateOf[input'[v].record.id] <= today'
  BY DEF QueuesPast
<1>0. /\ today \in Days /\ today' \in Days /\ today <= today' /\ clock[v] = today
      /\ outEntries[v] \in SUBSET Record /\ outDeletes[v] \in SUBSET Record
  <2>1. today \in Days /\ today' \in {today, today + 1} /\ ClocksOK'
    BY DayMoves, ClocksInv DEF IInv, ClocksOK
  <2>2. today' \in Days /\ today <= today'
    BY <2>1 DEF ClocksOK, Days
  <2>3. QED
    BY <2>1, <2>2 DEF IInv, BoxOK, OneClock
<1>00. \A r \in Record : DateOf[r.id] \in Days /\ (DateOf[r.id] <= today => DateOf[r.id] <= today')
  <2>1. \A r \in Record : DateOf[r.id] \in Days
    BY DateAssumption DEF Record
  <2>2. QED
    BY <1>0, <2>1 DEF Days
<1>1. CASE UNCHANGED <<outEntries[v], outDeletes[v], input[v]>>
  <2>1. input[v] # None => input[v].record \in Record
    BY DEF IInv, BoxOK
  <2>2. QED
    BY <1>0, <1>00, <1>1, <2>1 DEF QueuesPast
<1>2. CASE Writes(v)
  <2>1. UNCHANGED <<outEntries, outDeletes, today>>
    BY <1>2 DEF Writes, WriteRecord, DeleteLatest, hubVars
  <2>2. \E r \in Record : input'[v].record = r /\ DateOf[r.id] = today
    <3>1. ASSUME NEW r \in Record, WriteRecord(v, r)
          PROVE  input'[v].record = r /\ DateOf[r.id] = today
      BY <1>0, <3>1 DEF WriteRecord, IInv, BoxOK
    <3>2. CASE DeleteLatest(v)
      <4>1. PICK r \in local[v][today].entries : input'[v].record = r
        BY <1>0, <3>2 DEF DeleteLatest, Latest, IInv, BoxOK
      <4>2. r \in Record /\ DateOf[r.id] = today
        BY <1>0, <4>1 DEF FlowInv, LocalFiled, Filed, Known, IdsOf, IInv, LocalOK, Clean, File, Days
      <4>3. QED
        BY <4>1, <4>2
    <3>3. QED
      BY <1>2, <3>1, <3>2 DEF Writes
  <2>3. QED
    BY <1>0, <2>1, <2>2 DEF QueuesPast, Days
<1>3. CASE Enqueue(v)
  <2>1. input[v] # None /\ UNCHANGED today /\ input[v].op \in {"entry", "delete"}
        /\ input[v].record \in Record
    BY <1>3 DEF Enqueue, hubVars, IInv, BoxOK
  <2>2. input'[v] = None
    BY <1>3 DEF Enqueue, IInv, BoxOK
  <2>3. /\ outEntries'[v] \subseteq outEntries[v] \cup {input[v].record}
        /\ outDeletes'[v] \subseteq outDeletes[v] \cup {input[v].record}
    BY <1>3, <2>1 DEF Enqueue, IInv, BoxOK, QueuedEntries, QueuedDeletes, Queued
  <2>4. QED
    BY <2>1, <2>2, <2>3 DEF QueuesPast
<1>4. CASE Sends(v) \/ Acknowledge(v)
  <2>1. /\ outEntries \in [Devices -> SUBSET Record] /\ outDeletes \in [Devices -> SUBSET Record]
        /\ UNCHANGED <<today, input>>
    BY <1>4 DEF Sends, SendPending, Acknowledge, hubVars, IInv, BoxOK
  <2>2. outEntries'[v] \subseteq outEntries[v] /\ outDeletes'[v] \subseteq outDeletes[v]
    <3>1. CASE Sends(v)
      BY <2>1, <3>1 DEF Sends, SendPending, Current
    <3>2. CASE Acknowledge(v)
      BY <2>1, <3>2 DEF Acknowledge
    <3>3. QED
      BY <1>4, <3>1, <3>2
  <2>3. QED
    BY <2>1, <2>2 DEF QueuesPast
<1>5. CASE CrashClient(v)
  <2>1. UNCHANGED <<outEntries, outDeletes, today>> /\ input'[v] = None
    BY <1>5 DEF CrashClient, hubVars, IInv, BoxOK
  <2>2. QED
    BY <2>1 DEF QueuesPast
<1>6. QED
  BY <1>1, <1>2, <1>3, <1>4, <1>5, BoxMoves

\* What waits for an answer is of one day; what the hub notes as accepted it
\* has while that lasts, as rejected is of a day gone by, and once both
\* sections are done the deletes are tombstones.
PushAnswer == [stage : {"answer"}, accepted : SUBSET Ids, rejected : SUBSET Ids, delta : Delta]
OfOneDay(m, day) == \E d \in Days : d <= day /\ \A r \in m.entries \cup m.deletes : DateOf[r.id] = d
ToldTrue(m, day, files) ==
    /\ \A id \in m.accepted : /\ DateOf[id] <= day
                              /\ DateOf[id] = day => id \in Known(files[day])
    /\ \A id \in m.rejected : DateOf[id] < day
Underway(m, day, files) ==
    /\ OfOneDay(m, day)
    /\ m.accepted \subseteq IdsOf(m.entries) \cup IdsOf(m.deletes)
    /\ m.at = "state" => \A r \in m.deletes : DateOf[r.id] = day => r.id \in files[day].tombs
Exchange(m, day, files) ==
    /\ ToldTrue(m, day, files)
    /\ m \in PushAnswer \/ (m \in Push /\ Underway(m, day, files))
Exchanged ==
    \A v \in Devices : sync[v].phase = "pushing" => Exchange(net[v]["sync"], today, hub)

LEMMA ExchangeStays ==
    ASSUME IInv, IInv', FlowInv, [Next]_vars, NEW m, Exchange(m, today, hub)
    PROVE  Exchange(m, today', hub')
<1>1. today \in Nat /\ today' \in Nat /\ today <= today' /\ today \in Days
  BY DayMoves DEF IInv, ClocksOK, Days
<1>2. Known(hub[today]) \subseteq Known(hub'[today]) /\ hub[today].tombs \subseteq hub'[today].tombs
  BY <1>1, HubGrows DEF FlowInv, Grown
<1>3. \A id \in Ids : DateOf[id] \in Nat
  BY DateAssumption DEF Days
<1>4. m.accepted \subseteq Ids /\ m.rejected \subseteq Ids
  BY DEF Exchange, PushAnswer, Push
<1>5. ToldTrue(m, today', hub')
  BY <1>1, <1>2, <1>3, <1>4 DEF Exchange, ToldTrue
<1>6. ASSUME m \in Push, Underway(m, today, hub) PROVE Underway(m, today', hub')
  <2>1. OfOneDay(m, today')
    BY <1>1, <1>6 DEF Underway, OfOneDay, Days
  <2>2. \A r \in m.deletes : DateOf[r.id] = today' => today' = today
    BY <1>1, <1>6 DEF Underway, OfOneDay, Days
  <2>3. QED
    BY <1>2, <1>6, <2>1, <2>2 DEF Underway
<1>7. QED
  BY <1>5, <1>6 DEF Exchange

\* A section is served: it tells what it has done.
LEMMA ServedTold ==
    ASSUME IInv, FlowInv, [Next]_vars, NEW m \in Push, m \in Pushes, HubPush(m),
           Exchange(m, today, hub)
    PROVE  UNCHANGED today /\ Exchange(Served(m), today, hub')
<1> DEFINE n == Served(m)
<1>1. today \in Days /\ UNCHANGED today /\ hub \in [Days -> File]
      /\ hub' = [hub EXCEPT ![Reading(m)] = Effect(m)] /\ m.at # "state"
  BY DEF HubPush, IInv, ClocksOK, HubOK
<1>2. /\ n \in Push /\ n.entries = m.entries /\ n.deletes = m.deletes
      /\ n.at = IF m.at = "append" /\ m.deletes # {} THEN "delete" ELSE "state"
      /\ n.accepted = m.accepted \cup (IF Refused(m) = {} THEN IdsOf(Section(m)) ELSE {})
      /\ n.rejected = m.rejected \cup Refused(m)
  BY SectionServed DEF Served, Push, IInv
<1>3. Underway(m, today, hub) /\ ToldTrue(m, today, hub)
  BY DEF Exchange, Push, PushAnswer
<1> HIDE DEF n
<1>4. /\ m.path = None => Reading(m) = today
      /\ m.path # None => Reading(m) < today /\ Reading(m) = m.path /\ Refused(m) = {}
  BY DEF Reading, Refused, FlowInv, LatePast, Overtaken
<1>5. /\ Reading(m) \in Days /\ Section(m) \in SUBSET Record
      /\ Refused(m) = {} => IdsOf(Section(m)) \subseteq Known(Effect(m))
      /\ Deletes(m) => IdsOf(m.deletes) \subseteq Effect(m).tombs
      /\ \A id : id \in Refused(m) <=> id \in IdsOf(Section(m)) /\ DateOf[id] # Reading(m)
  BY SectionServed, SectionTells DEF IInv
<1>6. Reading(m) = today => hub'[today] = Effect(m)
  BY <1>1
<1>7. Known(hub[today]) \subseteq Known(hub'[today])
  BY <1>1, HubGrows DEF FlowInv, Grown, Days
<1>8. \A id \in n.accepted : DateOf[id] <= today /\ (DateOf[id] = today => id \in Known(hub'[today]))
  <2> SUFFICES ASSUME NEW id \in IdsOf(Section(m)), Refused(m) = {}
               PROVE  DateOf[id] <= today /\ (DateOf[id] = today => id \in Known(hub'[today]))
    BY <1>2, <1>3, <1>7 DEF ToldTrue
  <2>1. DateOf[id] = Reading(m) /\ id \in Known(Effect(m))
    BY <1>5
  <2>2. QED
    BY <1>1, <1>4, <1>5, <1>6, <2>1 DEF Days
<1>9. IdsOf(Section(m)) \subseteq IdsOf(m.entries) \cup IdsOf(m.deletes)
  BY DEF Section
<1>10. \A id \in n.rejected : DateOf[id] < today
  <2> SUFFICES ASSUME NEW id \in Refused(m) PROVE DateOf[id] < today
    BY <1>2, <1>3 DEF ToldTrue
  <2>1. DateOf[id] # today /\ id \in IdsOf(m.entries) \cup IdsOf(m.deletes)
    BY <1>4, <1>5, <1>9
  <2>2. QED
    BY <1>1, <1>3, <2>1 DEF Underway, OfOneDay, IdsOf, Days
<1>11. ASSUME n.at = "state", NEW r \in m.deletes, DateOf[r.id] = today
       PROVE  r.id \in hub'[today].tombs
  <2>1. m.at = "delete" /\ Section(m) = m.deletes
    BY <1>1, <1>2, <1>11 DEF Push, Section
  <2>2. \A q \in m.deletes : DateOf[q.id] = today
    BY <1>3, <1>11 DEF Underway, OfOneDay
  <2>3. Reading(m) = today
    BY <1>1, <1>4, <1>5, <1>11, <2>1 DEF IdsOf, Days
  <2>4. Deletes(m)
    BY <1>5, <2>1, <2>2, <2>3 DEF Deletes, IdsOf
  <2>5. QED
    BY <1>5, <1>6, <2>3, <2>4 DEF IdsOf
<1>12. ToldTrue(n, today, hub')
  BY <1>8, <1>10 DEF ToldTrue
<1>13. Underway(n, today, hub')
  BY <1>2, <1>3, <1>9, <1>11 DEF Underway, OfOneDay
<1>14. QED
  BY <1>1, <1>2, <1>12, <1>13 DEF Exchange, n

LEMMA ExchangeStep ==
    ASSUME ClocksAgree, IInv, IInv', OneClock, FlowInv, Exchanged, [Next]_vars
    PROVE  Exchanged'
<1> SUFFICES ASSUME NEW v \in Devices, sync'[v].phase = "pushing"
             PROVE  Exchange(net'[v]["sync"], today', hub')
  BY DEF Exchanged
<1> DEFINE m == net[v]["sync"]
<1>0. net \in [Devices -> [Lines -> Message]] /\ "sync" \in Lines
  BY SimpleMessages DEF IInv, LinesOK
<1>1. ASSUME sync[v].phase = "pushing" PROVE Exchange(m, today, hub) /\ Exchange(m, today', hub')
  BY <1>1, ExchangeStays DEF Exchanged
<1>2. CASE sync[v].phase = "pushing" /\ UNCHANGED net[v]["sync"]
  BY <1>1, <1>2
<1>3. CASE sync[v].phase = "pushing" /\ AnswerPull(v)
  <2>1. m.stage = "sent" /\ m.kind = "pull"
    BY <1>3 DEF AnswerPull
  <2>2. QED
    BY <1>1, <1>3, <2>1 DEF Exchange, Push, PushAnswer
<1>4. CASE sync[v].phase = "pushing" /\ ServePush(v)
  <2>1. m \in Push /\ m \in Pushes /\ HubPush(m)
    BY <1>4, OnSyncLine DEF ServePush, IInv, Pushes
  <2>2. net'[v]["sync"] = Served(m)
    BY <1>0, <1>4 DEF ServePush
  <2> HIDE DEF m
  <2>3. QED
    BY <1>1, <1>4, <2>1, <2>2, ServedTold
<1>5. CASE sync[v].phase = "pushing" /\ Overtakes(v)
  <2>1. m \in Push /\ today \in Days /\ net'[v]["sync"] = [m EXCEPT !.path = today]
    BY <1>5, OnSyncLine DEF Overtakes, IInv, ClocksOK
  <2> HIDE DEF m
  <2>2. Exchange(m, today', hub') /\ m \notin PushAnswer
    BY <1>1, <1>5, <2>1 DEF Push, PushAnswer
  <2> DEFINE n == [m EXCEPT !.path = today]
  <2>3. /\ n \in Push /\ n.entries = m.entries /\ n.deletes = m.deletes /\ n.at = m.at
        /\ n.accepted = m.accepted /\ n.rejected = m.rejected
    BY <2>1 DEF Push
  <2> HIDE DEF n
  <2>4. Exchange(n, today', hub')
    BY <2>2, <2>3 DEF Exchange, ToldTrue, Underway, OfOneDay
  <2>5. QED
    BY <2>1, <2>4 DEF n
<1>6. CASE sync[v].phase = "pushing" /\ AnswerPush(v)
  <2> DEFINE a == [stage |-> "answer", accepted |-> m.accepted, rejected |-> m.rejected,
                   delta |-> FullState]
  <2>1. m \in Push /\ net'[v]["sync"] = a
    BY <1>0, <1>6, OnSyncLine DEF AnswerPush, IInv
  <2>2. FullState \in Delta
    BY FullStateIsDelta DEF IInv
  <2>3. ToldTrue(m, today', hub') /\ m.accepted \in SUBSET Ids /\ m.rejected \in SUBSET Ids
    BY <1>1, <1>6, <2>1 DEF Exchange, Push
  <2>4. a \in PushAnswer /\ a.accepted = m.accepted /\ a.rejected = m.rejected
    BY <2>2, <2>3 DEF PushAnswer
  <2> HIDE DEF a, m
  <2>5. QED
    BY <2>1, <2>3, <2>4 DEF Exchange, ToldTrue
<1>7. CASE Sends(v) /\ net'[v]["sync"] = Batch(v)
  <2>1. /\ Batch(v) \in Push /\ Batch(v).accepted = {} /\ Batch(v).rejected = {}
        /\ Batch(v).at # "state"
    BY DEF Batch, Push, Current, IInv, BoxOK
  <2>2. \A r \in Batch(v).entries \cup Batch(v).deletes : DateOf[r.id] = today
    BY DEF Batch, Current, OneClock
  <2>3. UNCHANGED today
    BY <1>7 DEF Sends, SendPending, hubVars
  <2>4. OfOneDay(Batch(v), today)
    BY <2>2 DEF OfOneDay, IInv, ClocksOK, Days
  <2>5. QED
    BY <1>7, <2>1, <2>3, <2>4 DEF Exchange, ToldTrue, Underway
<1>8. QED
  BY <1>2, <1>3, <1>4, <1>5, <1>6, <1>7, PushingMoves

\* What an entry leaves the outbox for.
LEMMA EntriesDrop ==
    ASSUME IInv, OneClock, QueuesPast, Exchanged, [Next]_vars, NEW v \in Devices,
           NEW r \in outEntries[v], r \notin outEntries'[v]
    PROVE  DateOf[r.id] < today \/ r.id \in Known(hub[DateOf[r.id]])
<1>0. /\ outEntries \in [Devices -> SUBSET Record] /\ clock[v] = today /\ today \in Days
      /\ DateOf[r.id] \in Days /\ DateOf[r.id] <= today
  BY DateAssumption DEF IInv, BoxOK, ClocksOK, OneClock, QueuesPast, Record
<1>1. CASE Sends(v)
  BY <1>0, <1>1 DEF Sends, SendPending, Current, Days
<1>2. CASE Acknowledge(v)
  <2> DEFINE m == net[v]["sync"]
  <2>1. sync[v].phase = "pushing" /\ m.stage = "answer"
    BY <1>2 DEF Acknowledge
  <2>2. ToldTrue(m, today, hub)
    BY <2>1 DEF Exchanged, Exchange
  <2>3. r.id \in m.accepted \cup m.rejected
    BY <1>0, <1>2 DEF Acknowledge, Settled
  <2>4. QED
    BY <1>0, <2>2, <2>3 DEF ToldTrue, Days
<1>3. CASE Enqueue(v)
  <2>1. input[v].op \in {"entry", "delete"}
    BY <1>3 DEF Enqueue, IInv, BoxOK
  <2>2. QED
    BY <1>0, <1>3, <2>1 DEF Enqueue, QueuedEntries, Queued
<1>4. CASE Writes(v) \/ CrashClient(v)
  BY <1>4 DEF Writes, WriteRecord, DeleteLatest, CrashClient
<1>5. QED
  BY <1>1, <1>2, <1>3, <1>4, BoxMoves

QueueInv == OneClock /\ QueuesPast /\ Exchanged

LEMMA AlwaysQueues == ClocksAgree /\ Spec => []QueueInv
<1> SUFFICES ASSUME ClocksAgree PROVE Spec => []QueueInv
  OBVIOUS
<1>1. Init => QueueInv
  BY DEF Init, QueueInv, OneClock, QueuesPast, Exchanged, IdleSync
<1>2. IInv /\ FlowInv /\ QueueInv /\ [Next]_vars => QueueInv'
  <2>1. IInv /\ [Next]_vars => IInv'
    BY NextIInv
  <2>2. QED
    BY <2>1, DayMoves, QueuesStep, ExchangeStep DEF QueueInv, IInv
<1>3. QED
  BY <1>1, <1>2, AlwaysIInv, AlwaysFlow, PTL DEF Spec

\* When the devices' clocks are the hub's, an entry leaves an outbox only when
\* its day is over or the hub has it: whatever is lost, retried or queued
\* while an answer is awaited (sync.send_pending).
THEOREM EntriesLeaveStored == ClocksAgree /\ Spec => EntriesKeptUntilStored
<1> SUFFICES ASSUME ClocksAgree PROVE Spec => EntriesKeptUntilStored
  OBVIOUS
<1>1. ASSUME IInv, QueueInv, [Next]_vars
      PROVE  [\A v \in Devices : \A r \in outEntries[v] \ outEntries'[v] :
                \/ DateOf[r.id] < clock[v]
                \/ r.id \in Known(hub[DateOf[r.id]])]_vars
  BY <1>1, EntriesDrop DEF QueueInv, OneClock
<1>2. QED
  BY <1>1, AlwaysIInv, AlwaysQueues, PTL DEF Spec, EntriesKeptUntilStored

-----------------------------------------------------------------------------
(* --------------------------- deletes arrive ----------------------------- *)

NoDeleteInFlight == DeleteInFlight = FALSE

\* While an answer is awaited no delete is queued for an entry on its way
\* unless the delete is on its way too; and what the answer accepts of a
\* queued delete is a tombstone while its day lasts.
DeleteTold(r, m, day, files) ==
    /\ m \in Push /\ r.id \in IdsOf(m.entries) => r.id \in IdsOf(m.deletes)
    /\ m.stage = "answer" /\ r.id \in m.accepted /\ DateOf[r.id] = day =>
         r.id \in files[day].tombs
DeletesTold ==
    \A v \in Devices : sync[v].phase = "pushing" =>
        \A r \in outDeletes[v] : DeleteTold(r, net[v]["sync"], today, hub)

LEMMA DeletesStep ==
    ASSUME NoDeleteInFlight, IInv, FlowInv, OneClock, Exchanged, DeletesTold, [Next]_vars
    PROVE  DeletesTold'
<1> SUFFICES ASSUME NEW v \in Devices, sync'[v].phase = "pushing", NEW r \in outDeletes'[v]
             PROVE  DeleteTold(r, net'[v]["sync"], today', hub')
  BY DEF DeletesTold
<1> DEFINE m == net[v]["sync"]
<1>0. /\ net \in [Devices -> [Lines -> Message]] /\ "sync" \in Lines
      /\ outDeletes \in [Devices -> SUBSET Record] /\ sync \in [Devices -> Sync]
      /\ today \in Days
  BY SimpleMessages DEF IInv, LinesOK, BoxOK, SyncOK, ClocksOK
<1>1. CASE sync[v].phase = "pushing" /\ UNCHANGED net[v]["sync"]
  <2>1. ~Sends(v) /\ ~Acknowledge(v)
    BY <1>0, <1>1 DEF Sends, SendPending, Acknowledge, AfterPush, Sync
  <2>2. CASE r \in outDeletes[v]
    <3>1. DeleteTold(r, m, today, hub) /\ ToldTrue(m, today, hub)
      BY <1>1, <2>2 DEF DeletesTold, Exchanged, Exchange
    <3>2. hub[today].tombs \subseteq hub'[today].tombs /\ today' \in {today, today + 1}
      BY <1>0, HubGrows, DayMoves DEF FlowInv, Grown, IInv, Days
    <3>3. r.id \in m.accepted /\ DateOf[r.id] = today' => today' = today
      BY <1>0, <3>1, <3>2 DEF ToldTrue, Days
    <3>4. QED
      BY <1>1, <3>1, <3>2, <3>3 DEF DeleteTold
  <2>3. CASE r \notin outDeletes[v]
    <3>1. Enqueue(v)
      BY <2>1, <2>3, BoxMoves DEF Writes, WriteRecord, DeleteLatest, CrashClient
    <3>2. input[v].op = "delete" /\ r = input[v].record
      <4>1. input[v].op \in {"entry", "delete"}
        BY <3>1 DEF Enqueue, IInv, BoxOK
      <4>2. QED
        BY <1>0, <2>3, <3>1, <4>1 DEF Enqueue, QueuedDeletes, Queued
    <3>3. r.id \notin InFlight(v)
      BY <3>1, <3>2 DEF Enqueue, NoDeleteInFlight
    <3>4. QED
      BY <1>1, <3>3 DEF InFlight, DeleteTold, Push
  <2>4. QED
    BY <2>2, <2>3
<1>2. CASE sync[v].phase = "pushing" /\ AnswerPull(v)
  <2>1. m.stage = "sent" /\ m.kind = "pull"
    BY <1>2 DEF AnswerPull
  <2>2. QED
    BY <1>2, <2>1 DEF Exchanged, Exchange, Push, PushAnswer
<1>3. CASE sync[v].phase = "pushing" /\ (ServePush(v) \/ Overtakes(v))
  <2>1. m \in Push /\ net'[v]["sync"] \in {Served(m), [m EXCEPT !.path = today]}
    BY <1>0, <1>3, OnSyncLine DEF ServePush, Overtakes, IInv
  <2>2. r \in outDeletes[v]
    BY <1>3 DEF ServePush, Overtakes, Midnight, devVars
  <2> HIDE DEF m
  <2>3. /\ net'[v]["sync"].entries = m.entries /\ net'[v]["sync"].deletes = m.deletes
        /\ net'[v]["sync"].stage # "answer"
    BY <2>1 DEF Served, Push
  <2>4. QED
    BY <1>3, <2>1, <2>2, <2>3 DEF DeletesTold, DeleteTold, m
<1>4. CASE sync[v].phase = "pushing" /\ AnswerPush(v)
  <2>1. /\ m \in Push /\ m.at = "state" /\ r \in outDeletes[v] /\ UNCHANGED <<today, hub>>
        /\ net'[v]["sync"] = [stage |-> "answer", accepted |-> m.accepted,
                              rejected |-> m.rejected, delta |-> FullState]
    BY <1>0, <1>4, OnSyncLine DEF AnswerPush, IInv, devVars, hubVars
  <2> HIDE DEF m
  <2>2. Underway(m, today, hub) /\ DeleteTold(r, m, today, hub)
    BY <1>4, <2>1 DEF Exchanged, Exchange, Push, PushAnswer, DeletesTold, m
  <2>3. ASSUME r.id \in m.accepted, DateOf[r.id] = today PROVE r.id \in hub'[today].tombs
    <3>1. r.id \in IdsOf(m.deletes)
      BY <2>1, <2>2, <2>3 DEF Underway, DeleteTold
    <3>2. QED
      BY <2>1, <2>2, <2>3, <3>1 DEF Underway, IdsOf
  <2>4. net'[v]["sync"] \notin Push /\ net'[v]["sync"].accepted = m.accepted
    BY <2>1 DEF Push
  <2>5. QED
    BY <2>1, <2>3, <2>4 DEF DeleteTold
<1>5. CASE Sends(v) /\ net'[v]["sync"] = Batch(v)
  <2>1. outDeletes'[v] = Batch(v).deletes /\ Batch(v).stage # "answer"
    BY <1>0, <1>5 DEF Sends, SendPending, Batch
  <2>2. QED
    BY <1>5, <2>1 DEF DeleteTold, IdsOf
<1>6. QED
  BY <1>1, <1>2, <1>3, <1>4, <1>5, PushingMoves

\* What a delete leaves the outbox for.
LEMMA DeletesDrop ==
    ASSUME IInv, OneClock, QueuesPast, Exchanged, DeletesTold, [Next]_vars,
           NEW v \in Devices, NEW r \in outDeletes[v], r \notin outDeletes'[v]
    PROVE  DateOf[r.id] < today \/ r.id \in hub[DateOf[r.id]].tombs
<1>0. /\ outDeletes \in [Devices -> SUBSET Record] /\ clock[v] = today /\ today \in Days
      /\ DateOf[r.id] \in Days /\ DateOf[r.id] <= today
  BY DateAssumption DEF IInv, BoxOK, ClocksOK, OneClock, QueuesPast, Record
<1>1. CASE Sends(v)
  BY <1>0, <1>1 DEF Sends, SendPending, Current, Days
<1>2. CASE Acknowledge(v)
  <2> DEFINE m == net[v]["sync"]
  <2>1. sync[v].phase = "pushing" /\ m.stage = "answer"
    BY <1>2 DEF Acknowledge
  <2>2. ToldTrue(m, today, hub) /\ DeleteTold(r, m, today, hub)
    BY <2>1 DEF Exchanged, Exchange, DeletesTold
  <2>3. r.id \in m.accepted \cup m.rejected
    BY <1>0, <1>2 DEF Acknowledge, Settled
  <2>4. QED
    BY <1>0, <2>1, <2>2, <2>3 DEF ToldTrue, DeleteTold, Days
<1>3. CASE Enqueue(v)
  <2>1. input[v].op \in {"entry", "delete"}
    BY <1>3 DEF Enqueue, IInv, BoxOK
  <2>2. QED
    BY <1>0, <1>3, <2>1 DEF Enqueue, QueuedDeletes, Queued
<1>4. CASE Writes(v) \/ CrashClient(v)
  BY <1>4 DEF Writes, WriteRecord, DeleteLatest, CrashClient
<1>5. QED
  BY <1>1, <1>2, <1>3, <1>4, BoxMoves

LEMMA AlwaysTold == ClocksAgree /\ NoDeleteInFlight /\ Spec => []DeletesTold
<1> SUFFICES ASSUME ClocksAgree, NoDeleteInFlight PROVE Spec => []DeletesTold
  OBVIOUS
<1>1. Init => DeletesTold
  BY DEF Init, DeletesTold, IdleSync
<1>2. IInv /\ FlowInv /\ QueueInv /\ DeletesTold /\ [Next]_vars => DeletesTold'
  BY DeletesStep DEF QueueInv
<1>3. QED
  BY <1>1, <1>2, AlwaysIInv, AlwaysFlow, AlwaysQueues, PTL DEF Spec

\* The same of a delete, when none is queued while its entry is on its way:
\* then the answer for the entry takes the delete with it (run LostDelete).
THEOREM DeletesLeaveStored ==
    ClocksAgree /\ NoDeleteInFlight /\ Spec => DeletesKeptUntilStored
<1> SUFFICES ASSUME ClocksAgree, NoDeleteInFlight PROVE Spec => DeletesKeptUntilStored
  OBVIOUS
<1>1. ASSUME IInv, QueueInv, DeletesTold, [Next]_vars
      PROVE  [\A v \in Devices : \A r \in outDeletes[v] \ outDeletes'[v] :
                \/ DateOf[r.id] < clock[v]
                \/ r.id \in hub[DateOf[r.id]].tombs]_vars
  BY <1>1, DeletesDrop DEF QueueInv, OneClock
<1>2. QED
  BY <1>1, AlwaysIInv, AlwaysQueues, AlwaysTold, PTL DEF Spec, DeletesKeptUntilStored

-----------------------------------------------------------------------------
(* ---------------- nothing is between file and outbox for long ----------- *)

NoCrashes == Crashes = FALSE

\* Nobody has written in a file of a day to come.
NoFuture ==
    \A d \in Days : d > today =>
        hub[d] = EmptyFile /\ \A v \in Devices : local[v][d] = EmptyFile

LEMMA FutureStep ==
    ASSUME IInv, IInv', FlowInv, OneClock, NoFuture, [Next]_vars
    PROVE  NoFuture'
<1> SUFFICES ASSUME NEW d \in Days, d > today'
             PROVE  hub'[d] = EmptyFile /\ \A v \in Devices : local'[v][d] = EmptyFile
  BY DEF NoFuture
<1>1. today \in Days /\ d > today /\ d # today
  BY DayMoves DEF IInv, ClocksOK, Days
<1>2. hub[d] = EmptyFile /\ hub'[d] = EmptyFile
  BY <1>1, HubGrows DEF NoFuture, FlowInv
<1>3. ASSUME NEW v \in Devices PROVE local'[v][d] = EmptyFile
  <2>1. local[v][d] = EmptyFile /\ clock[v] # d
    BY <1>1 DEF NoFuture, OneClock
  <2>2. QED
    BY <1>2, <2>1, FileMoves
<1>4. QED
  BY <1>2, <1>3

LEMMA UsedMoves ==
    ASSUME [Next]_vars, NEW v \in Devices, NEW r, <<v, r>> \in used'
    PROVE  <<v, r>> \in used \/ WriteRecord(v, r)
<1>1. CASE \/ UNCHANGED vars \/ ServeGhost \/ Midnight
           \/ \E q \in Reports : GenerateReport(q)
           \/ \E d \in Days : OwnerStep(d)
  BY <1>1 DEF vars, ServeGhost, Midnight, GenerateReport, OwnerStep, Summarise, Import
<1>2. ASSUME NEW w \in Devices, InputStep(w)
      PROVE  <<v, r>> \in used \/ WriteRecord(v, r)
  <2>1. ASSUME NEW q \in Record, WriteRecord(w, q)
        PROVE  <<v, r>> \in used \/ WriteRecord(v, r)
    <3>1. used' = used \cup {<<w, q>>}
      BY <2>1 DEF WriteRecord
    <3>2. <<v, r>> \in used \/ (v = w /\ r = q)
      BY <3>1
    <3>3. QED
      BY <2>1, <3>2
  <2>2. CASE DeleteLatest(w) \/ Enqueue(w)
    BY <2>2 DEF DeleteLatest, Enqueue
  <2>3. QED
    BY <1>2, <2>1, <2>2 DEF InputStep
<1>3. ASSUME NEW w \in Devices, PushStep(w) \/ PullStep(w) \/ HubStep(w)
      PROVE  UNCHANGED used
  BY <1>3 DEF PushStep, Flush, FullSync, SendPending, Acknowledge, MergePush, PullStep,
              SendPull, MergePull, SendPoll, MergePoll, HubStep, ServePush, AnswerPush, AnswerPull,
              AnswerPoll
<1>4. ASSUME NEW w \in Devices, HistoryStep(w) \/ ReportStep(w) \/ CutStep(w)
      PROVE  UNCHANGED used
  BY <1>4 DEF HistoryStep, StartHistory, GetList, FetchFile, FetchTrash, PruneFiles,
              SkipFile, LoseList, ReportStep, MirrorStep, ListReports, FetchReport,
              PruneReports, LoseReports, SkipReport, CutStep, LoseSync, LosePoll, CrashClient
<1>5. QED
  BY <1>1, <1>2, <1>3, <1>4, Steps

\* A record of its own that a device shows is on the hub, queued, or in the
\* hands of the thread that has just written it.
RecordHeld(v, r) ==
    \/ r.id \in Known(hub[today]) \cup IdsOf(outEntries[v])
    \/ input[v] # None /\ input[v].op = "entry" /\ input[v].record = r
RecordsHeld ==
    \A v \in Devices : \A r \in local[v][today].entries : <<v, r>> \in used => RecordHeld(v, r)

\* It stays so.
LEMMA HeldOn ==
    ASSUME NoCrashes, IInv, FlowInv, QueueInv, [Next]_vars, UNCHANGED today,
           NEW v \in Devices, NEW r \in Record, DateOf[r.id] = today, RecordHeld(v, r)
    PROVE  RecordHeld(v, r)'
<1>0. /\ today \in Days /\ clock[v] = today /\ Known(hub[today]) \subseteq Known(hub'[today])
      /\ outEntries \in [Devices -> SUBSET Record]
  BY HubGrows DEF IInv, ClocksOK, QueueInv, OneClock, FlowInv, Grown, BoxOK, Days
<1>1. CASE r.id \in Known(hub[today])
  BY <1>0, <1>1 DEF RecordHeld
<1>2. CASE r.id \in IdsOf(outEntries[v])
  <2>1. PICK q \in outEntries[v] : q.id = r.id
    BY <1>2 DEF IdsOf
  <2>2. CASE q \in outEntries'[v]
    BY <2>1, <2>2 DEF RecordHeld, IdsOf
  <2>3. CASE q \notin outEntries'[v]
    <3>1. DateOf[q.id] < today \/ q.id \in Known(hub[DateOf[q.id]])
      BY <2>3, EntriesDrop DEF QueueInv
    <3>2. r.id \in Known(hub[today])
      BY <1>0, <2>1, <3>1 DEF Days
    <3>3. QED
      BY <1>0, <3>2 DEF RecordHeld
  <2>4. QED
    BY <2>2, <2>3
<1>3. CASE input[v] # None /\ input[v].op = "entry" /\ input[v].record = r
  <2>1. CASE UNCHANGED input[v]
    BY <1>3, <2>1 DEF RecordHeld
  <2>2. CASE Enqueue(v)
    <3>1. outEntries' = [outEntries EXCEPT ![v] = QueuedEntries(v, r)]
      BY <1>3, <2>2 DEF Enqueue
    <3>2. r.id \in IdsOf(outEntries'[v])
      BY <1>0, <3>1 DEF QueuedEntries, Queued, IdsOf
    <3>3. QED
      BY <3>2 DEF RecordHeld
  <2>3. ~Writes(v) /\ ~CrashClient(v)
    BY <1>3 DEF Writes, WriteRecord, DeleteLatest, CrashClient, NoCrashes
  <2>4. Sends(v) \/ Acknowledge(v) => UNCHANGED input[v]
    BY DEF Sends, SendPending, Acknowledge
  <2>5. QED
    BY <2>1, <2>2, <2>3, <2>4, BoxMoves
<1>4. QED
  BY <1>1, <1>2, <1>3 DEF RecordHeld

LEMMA RecordsStep ==
    ASSUME ClocksAgree, NoCrashes, IInv, IInv', FlowInv, FlowInv', QueueInv, NoFuture, RecordsHeld,
           [Next]_vars
    PROVE  RecordsHeld'
<1> SUFFICES ASSUME NEW v \in Devices, NEW r \in local'[v][today'].entries, <<v, r>> \in used'
             PROVE  RecordHeld(v, r)'
  BY DEF RecordsHeld
<1>0. today \in Days /\ today' \in Days /\ clock[v] = today
  BY DEF IInv, ClocksOK, QueueInv, OneClock
<1>1. r \in Record /\ DateOf[r.id] = today'
  <2>1. Clean(local'[v][today']) /\ Filed(local'[v][today'], today')
    BY <1>0 DEF IInv, LocalOK, FlowInv, LocalFiled, Days
  <2>2. QED
    BY <2>1 DEF Clean, File, Filed, Known, IdsOf
<1>2. CASE Midnight
  <2>1. today' = today + 1 /\ UNCHANGED local
    BY <1>2 DEF Midnight, HubMidnight, ClocksAgree
  <2>2. local[v][today'] = EmptyFile
    BY <1>0, <2>1 DEF NoFuture, Days
  <2>3. QED
    BY <2>1, <2>2 DEF EmptyFile
<1>3. CASE ~Midnight
  <2>0. UNCHANGED today
    BY <1>3, DayMoves DEF IInv
  <2>1. CASE WriteRecord(v, r)
    <3>1. input'[v] = [op |-> "entry", record |-> r]
      BY <2>1 DEF WriteRecord, IInv, BoxOK
    <3>2. input'[v] # None
      BY <1>1, <3>1, NoneAssumption
    <3>3. QED
      BY <3>1, <3>2 DEF RecordHeld
  <2>2. CASE r \in local[v][today].entries /\ <<v, r>> \in used
    <3>1. RecordHeld(v, r)
      BY <2>2 DEF RecordsHeld
    <3>2. QED
      BY <1>1, <2>0, <3>1, HeldOn
  <2>3. CASE r.id \in Known(hub[today])
    <3>1. RecordHeld(v, r)
      BY <2>3 DEF RecordHeld
    <3>2. QED
      BY <1>1, <2>0, <3>1, HeldOn
  <2>4. ASSUME NEW q \in Record, WriteRecord(v, q),
               local'[v][today] = [local[v][today] EXCEPT !.entries = @ \cup {q}]
        PROVE  r \in local[v][today].entries \/ WriteRecord(v, r)
    BY <1>0, <2>0, <2>4, WrittenFiled DEF IInv, LocalOK
  <2>5. ASSUME NEW q \in local[v][today].entries,
               local'[v][today] = WithDeletes(local[v][today], {q})
        PROVE  r \in local[v][today].entries
    <3>1. Clean(local[v][today]) /\ {q} \in SUBSET Record
      BY <1>0 DEF IInv, LocalOK, Clean, File
    <3>2. QED
      BY <2>0, <2>5, <3>1, DeletedFiled
  <2>6. ASSUME NEW delta \in Delta, Pending(v, delta), delta.label = today,
               local'[v][today] = Merged(local[v][today], delta.file)
        PROVE  r \in local[v][today].entries \/ r.id \in Known(hub[today])
    <3>1. Clean(delta.file) /\ Grown(delta.file, hub[today])
      BY <2>6 DEF FlowInv, AnswersTrue, DeltaTrue
    <3>2. Clean(local[v][today])
      BY <1>0 DEF IInv, LocalOK
    <3>3. r \in local[v][today].entries \/ r \in delta.file.entries
      BY <2>0, <2>6, <3>1, <3>2, MergedFiled
    <3>4. QED
      BY <3>1, <3>3 DEF Grown, Known, IdsOf
  <2>7. ASSUME local'[v][today] = hub[today] \/ local'[v][today] = EmptyFile
        PROVE  r.id \in Known(hub[today])
    BY <2>0, <2>7 DEF EmptyFile, Known, IdsOf
  <2>8. r \in local[v][today].entries \/ r.id \in Known(hub[today]) \/ WriteRecord(v, r)
    BY <1>0, <2>0, <2>4, <2>5, <2>6, <2>7, FileMoves
  <2>9. QED
    BY <2>1, <2>2, <2>3, <2>8, UsedMoves
<1>4. QED
  BY <1>2, <1>3

LEMMA AlwaysNoFuture == ClocksAgree /\ Spec => []NoFuture
<1> SUFFICES ASSUME ClocksAgree PROVE Spec => []NoFuture
  OBVIOUS
<1>1. Init => NoFuture
  BY DEF Init, NoFuture
<1>2. IInv /\ FlowInv /\ QueueInv /\ NoFuture /\ [Next]_vars => NoFuture'
  <2>1. IInv /\ [Next]_vars => IInv'
    BY NextIInv
  <2>2. QED
    BY <2>1, FutureStep DEF QueueInv
<1>3. QED
  BY <1>1, <1>2, AlwaysIInv, AlwaysFlow, AlwaysQueues, PTL DEF Spec

\* A record a device shows as today's is on the hub, queued, or on its way to
\* the queue, with any number of devices, late or lost answers and retries, as
\* long as no client process dies between file and outbox (client/cli.py,
\* journal.append_record, sync.enqueue, sync.send_pending).
THEOREM RecordsNotForgotten == ClocksAgree /\ NoCrashes /\ Spec => []NothingForgotten
<1> SUFFICES ASSUME ClocksAgree, NoCrashes PROVE Spec => []NothingForgotten
  OBVIOUS
<1>1. Init => RecordsHeld
  BY DEF Init, RecordsHeld, EmptyFile
<1>2. IInv /\ FlowInv /\ QueueInv /\ NoFuture /\ RecordsHeld /\ [Next]_vars => RecordsHeld'
  <2>1. IInv /\ [Next]_vars => IInv'
    BY NextIInv
  <2>2. IInv /\ FlowInv /\ [Next]_vars => FlowInv'
    BY <2>1, FlowStep
  <2>3. QED
    BY <2>1, <2>2, RecordsStep
<1>3. RecordsHeld => NothingForgotten
  BY DEF RecordsHeld, RecordHeld, NothingForgotten
<1>4. QED
  BY <1>1, <1>2, <1>3, AlwaysIInv, AlwaysFlow, AlwaysQueues, AlwaysNoFuture, PTL DEF Spec

\* A tombstone that a device has is on the hub, queued, or in the hands of the
\* thread that has just deleted.
TombHeld(v, id) ==
    \/ id \in hub[today].tombs \cup IdsOf(outDeletes[v])
    \/ input[v] # None /\ input[v].op = "delete" /\ input[v].record.id = id
TombsHeld == \A v \in Devices : \A id \in local[v][today].tombs : TombHeld(v, id)

LEMMA TombHeldOn ==
    ASSUME NoCrashes, IInv, FlowInv, QueueInv, DeletesTold, [Next]_vars, UNCHANGED today,
           NEW v \in Devices, NEW id \in Ids, DateOf[id] = today, TombHeld(v, id)
    PROVE  TombHeld(v, id)'
<1>0. /\ today \in Days /\ hub[today].tombs \subseteq hub'[today].tombs
      /\ outDeletes \in [Devices -> SUBSET Record]
  BY HubGrows DEF IInv, ClocksOK, FlowInv, Grown, BoxOK, Days
<1>1. CASE id \in hub[today].tombs
  BY <1>0, <1>1 DEF TombHeld
<1>2. CASE id \in IdsOf(outDeletes[v])
  <2>1. PICK q \in outDeletes[v] : q.id = id
    BY <1>2 DEF IdsOf
  <2>2. CASE q \in outDeletes'[v]
    BY <2>1, <2>2 DEF TombHeld, IdsOf
  <2>3. CASE q \notin outDeletes'[v]
    <3>1. DateOf[q.id] < today \/ q.id \in hub[DateOf[q.id]].tombs
      BY <2>3, DeletesDrop DEF QueueInv
    <3>2. id \in hub[today].tombs
      BY <1>0, <2>1, <3>1 DEF Days
    <3>3. QED
      BY <1>0, <3>2 DEF TombHeld
  <2>4. QED
    BY <2>2, <2>3
<1>3. CASE input[v] # None /\ input[v].op = "delete" /\ input[v].record.id = id
  <2>1. CASE UNCHANGED input[v]
    BY <1>3, <2>1 DEF TombHeld
  <2>2. CASE Enqueue(v)
    <3>1. outDeletes' = [outDeletes EXCEPT ![v] = QueuedDeletes(v, input[v].record)]
      BY <1>3, <2>2 DEF Enqueue
    <3>2. id \in IdsOf(outDeletes'[v])
      BY <1>0, <1>3, <3>1 DEF QueuedDeletes, Queued, IdsOf
    <3>3. QED
      BY <3>2 DEF TombHeld
  <2>3. ~Writes(v) /\ ~CrashClient(v)
    BY <1>3 DEF Writes, WriteRecord, DeleteLatest, CrashClient, NoCrashes
  <2>4. Sends(v) \/ Acknowledge(v) => UNCHANGED input[v]
    BY DEF Sends, SendPending, Acknowledge
  <2>5. QED
    BY <2>1, <2>2, <2>3, <2>4, BoxMoves
<1>4. QED
  BY <1>1, <1>2, <1>3 DEF TombHeld

LEMMA TombsStep ==
    ASSUME ClocksAgree, NoCrashes, IInv, IInv', FlowInv, FlowInv', QueueInv, DeletesTold,
           NoFuture, TombsHeld, [Next]_vars
    PROVE  TombsHeld'
<1> SUFFICES ASSUME NEW v \in Devices, NEW id \in local'[v][today'].tombs
             PROVE  TombHeld(v, id)'
  BY DEF TombsHeld
<1>0. today \in Days /\ today' \in Days /\ clock[v] = today
  BY DEF IInv, ClocksOK, QueueInv, OneClock
<1>1. id \in Ids /\ DateOf[id] = today'
  <2>1. Clean(local'[v][today']) /\ Filed(local'[v][today'], today')
    BY <1>0 DEF IInv, LocalOK, FlowInv, LocalFiled, Days
  <2>2. QED
    BY <2>1 DEF Clean, File, Filed, Known
<1>2. CASE Midnight
  <2>1. today' = today + 1 /\ UNCHANGED local
    BY <1>2 DEF Midnight, HubMidnight, ClocksAgree
  <2>2. local[v][today'] = EmptyFile
    BY <1>0, <2>1 DEF NoFuture, Days
  <2>3. QED
    BY <2>1, <2>2 DEF EmptyFile
<1>3. CASE ~Midnight
  <2>0. UNCHANGED today /\ Clean(local[v][today])
    BY <1>0, <1>3, DayMoves DEF IInv, LocalOK
  <2>1. CASE id \in local[v][today].tombs
    BY <1>1, <2>0, <2>1, TombHeldOn DEF TombsHeld
  <2>2. CASE id \in hub[today].tombs
    <3>1. TombHeld(v, id)
      BY <2>2 DEF TombHeld
    <3>2. QED
      BY <1>1, <2>0, <3>1, TombHeldOn
  <2>3. ASSUME NEW q \in Record,
               local'[v][today] = [local[v][today] EXCEPT !.entries = @ \cup {q}]
        PROVE  id \in local[v][today].tombs
    BY <2>0, <2>3, WrittenFiled
  <2>4. ASSUME NEW q \in local[v][today].entries,
               input'[v] = [op |-> "delete", record |-> q],
               local'[v][today] = WithDeletes(local[v][today], {q})
        PROVE  id \in local[v][today].tombs \/ TombHeld(v, id)'
    <3>1. q \in Record /\ {q} \in SUBSET Record
      BY <2>0 DEF Clean, File
    <3>2. id \in local[v][today].tombs \/ id = q.id
      BY <2>0, <2>4, <3>1, DeletedFiled DEF IdsOf
    <3>3. input'[v] # None
      BY <2>4, <3>1, NoneAssumption
    <3>4. QED
      BY <2>4, <3>2, <3>3 DEF TombHeld
  <2>5. ASSUME NEW delta \in Delta, Pending(v, delta), delta.label = today,
               local'[v][today] = Merged(local[v][today], delta.file)
        PROVE  id \in local[v][today].tombs \/ id \in hub[today].tombs
    <3>1. Clean(delta.file) /\ Grown(delta.file, hub[today])
      BY <2>5 DEF FlowInv, AnswersTrue, DeltaTrue
    <3>2. id \in local[v][today].tombs \/ id \in delta.file.tombs
      BY <2>0, <2>5, <3>1, MergedFiled
    <3>3. QED
      BY <3>1, <3>2 DEF Grown
  <2>6. ASSUME local'[v][today] = hub[today] \/ local'[v][today] = EmptyFile
        PROVE  id \in hub[today].tombs
    BY <2>0, <2>6 DEF EmptyFile
  <2>7. id \in local[v][today].tombs \/ id \in hub[today].tombs \/ TombHeld(v, id)'
    BY <1>0, <2>0, <2>3, <2>4, <2>5, <2>6, FileMoves
  <2>8. QED
    BY <2>1, <2>2, <2>7
<1>4. QED
  BY <1>2, <1>3

\* A deletion the user was told of is on the hub, queued, or on its way to the
\* queue: no answer, retry or merge loses it, as long as no client process
\* dies in between and none is queued while its entry is on its way
\* (journal.delete_record, sync.enqueue_delete, sync.send_pending).
THEOREM DeletionsNotForgotten ==
    ClocksAgree /\ NoCrashes /\ NoDeleteInFlight /\ Spec => []DeletionsTravel
<1> SUFFICES ASSUME ClocksAgree, NoCrashes, NoDeleteInFlight PROVE Spec => []DeletionsTravel
  OBVIOUS
<1>1. Init => TombsHeld
  BY DaysAssumption DEF Init, TombsHeld, EmptyFile, Days
<1>2. IInv /\ FlowInv /\ QueueInv /\ NoFuture /\ DeletesTold /\ TombsHeld /\ [Next]_vars
        => TombsHeld'
  <2>1. IInv /\ [Next]_vars => IInv'
    BY NextIInv
  <2>2. IInv /\ FlowInv /\ [Next]_vars => FlowInv'
    BY <2>1, FlowStep
  <2>3. QED
    BY <2>1, <2>2, TombsStep
<1>3. TombsHeld => DeletionsTravel
  <2> SUFFICES ASSUME TombsHeld, NEW v \in Devices, clock[v] = today,
                      NEW id \in local[v][clock[v]].tombs
               PROVE  \/ id \in hub[today].tombs \cup IdsOf(outDeletes[v])
                      \/ input[v] # None /\ input[v].record.id = id
    BY DEF DeletionsTravel
  <2>1. TombHeld(v, id)
    BY DEF TombsHeld
  <2>2. QED
    BY <2>1 DEF TombHeld
<1>4. QED
  BY <1>1, <1>2, <1>3, AlwaysIInv, AlwaysFlow, AlwaysQueues, AlwaysNoFuture, AlwaysTold,
     PTL DEF Spec

-----------------------------------------------------------------------------
(* ------------------- the token is not ahead of the data ----------------- *)

\* What a file says of a day, another has too.
Covers(g, f, day) ==
    \A id \in Known(f) :
        /\ DateOf[id] <= day
        /\ DateOf[id] = day => id \in Known(g) /\ (id \in f.tombs => id \in g.tombs)

\* A device has what its token stands for, what it has asked about, and what
\* it is told is not new.
TokensHeld ==
    \A v \in Devices :
        /\ tok[v] \in File => Covers(local[v][today], tok[v], today)
        /\ net[v]["poll"].stage = "sent" /\ net[v]["poll"].after \in File =>
             Covers(local[v][today], net[v]["poll"].after, today)
        /\ \A delta \in Delta : Pending(v, delta) /\ ~delta.fresh =>
             Covers(local[v][today], delta.file, today)

LEMMA CoversOn ==
    ASSUME IInv, IInv', SparesToday, OneClock, [Next]_vars, NEW v \in Devices,
           NEW f \in File, Covers(local[v][today], f, today)
    PROVE  Covers(local'[v][today'], f, today')
<1>1. Grown(local[v][today], local'[v][today])
  BY LocalInv DEF TodaysGrow, OneClock
<1>2. \A id \in Known(f) : DateOf[id] \in Days
  BY DateAssumption DEF File, Known, IdsOf, Record
<1>3. today \in Days /\ today' \in {today, today + 1}
  BY DayMoves DEF IInv, ClocksOK
<1>4. CASE today' = today
  BY <1>1, <1>4 DEF Covers, Grown
<1>5. CASE today' = today + 1
  BY <1>2, <1>3, <1>5 DEF Covers, Days
<1>6. QED
  BY <1>3, <1>4, <1>5

LEMMA TokMoves ==
    ASSUME IInv, [Next]_vars, NEW v \in Devices
    PROVE  UNCHANGED tok[v] \/ Merges(v)
<1>0. tok \in [Devices -> File \cup {None}]
  BY DEF IInv, BoxOK
<1>1. CASE \/ UNCHANGED vars \/ ServeGhost \/ Midnight
           \/ \E r \in Reports : GenerateReport(r)
           \/ \E d \in Days : OwnerStep(d)
  BY <1>1 DEF vars, ServeGhost, Midnight, GenerateReport, OwnerStep, Summarise, Import, devVars
<1>2. ASSUME NEW w \in Devices, ReportStep(w) \/ HubStep(w) \/ CutStep(w) PROVE UNCHANGED tok
  BY <1>2 DEF ReportStep, MirrorStep, ListReports, FetchReport, PruneReports, LoseReports,
              SkipReport, HubStep, ServePush, AnswerPush, AnswerPull, AnswerPoll, CutStep, LoseSync,
              LosePoll, CrashClient, devVars
<1>3. ASSUME NEW w \in Devices, InputStep(w) \/ HistoryStep(w) PROVE UNCHANGED tok
  BY <1>3 DEF InputStep, WriteRecord, DeleteLatest, Enqueue, HistoryStep, StartHistory,
              GetList, FetchFile, FetchTrash, PruneFiles, SkipFile, LoseList, devVars
<1>4. ASSUME NEW w \in Devices, NEW delta \in Delta, Pending(w, delta), ApplyDelta(w, delta)
      PROVE  UNCHANGED tok[v] \/ Merges(v)
  BY <1>0, <1>4 DEF ApplyDelta, Merges
<1>5. ASSUME NEW w \in Devices, PushStep(w) PROVE UNCHANGED tok[v] \/ Merges(v)
  <2>1. CASE Flush(w) \/ FullSync(w) \/ Acknowledge(w)
    BY <2>1 DEF Flush, FullSync, SendPending, Acknowledge
  <2>2. CASE MergePush(w)
    BY <1>4, <2>2 DEF MergePush, Pending, IInv, SyncOK
  <2>3. QED
    BY <1>5, <2>1, <2>2 DEF PushStep
<1>6. ASSUME NEW w \in Devices, PullStep(w) PROVE UNCHANGED tok[v] \/ Merges(v)
  <2>1. CASE SendPull(w) \/ SendPoll(w)
    BY <2>1 DEF SendPull, SendPoll, devVars
  <2>2. CASE MergePull(w)
    BY <1>4, <2>2, AnswersAreDeltas, SimpleMessages DEF MergePull, Pending, IInv
  <2>3. CASE MergePoll(w)
    BY <1>4, <2>3, AnswersAreDeltas, SimpleMessages DEF MergePoll, Pending, IInv
  <2>4. QED
    BY <1>6, <2>1, <2>2, <2>3 DEF PullStep
<1>7. QED
  BY <1>1, <1>2, <1>3, <1>5, <1>6, Steps

\* The token a merge leaves behind is of an answer that has been merged.
LEMMA TokenMerged ==
    ASSUME IInv, IInv', SparesToday, OneClock, FlowInv, TokensHeld, [Next]_vars,
           NEW v \in Devices, Merges(v)
    PROVE  Covers(local'[v][today'], tok'[v], today')
<1>1. PICK delta \in Delta : Pending(v, delta) /\ ApplyDelta(v, delta)
  BY DEF Merges
<1>2. DeltaTrue(delta, today, hub) /\ delta.label \in Days /\ delta.file \in File
  BY <1>1 DEF FlowInv, AnswersTrue, Delta
<1>3. tok'[v] = delta.file
  BY <1>1 DEF ApplyDelta, TokenOf, IInv, BoxOK
<1>4. today \in Days /\ clock[v] = today
  BY DEF IInv, ClocksOK, OneClock
<1>5. CASE delta.label # today
  <2>1. \A id \in Known(delta.file) : DateOf[id] = delta.label
    BY <1>2 DEF DeltaTrue, Filed
  <2>2. Covers(local[v][today], delta.file, today)
    BY <1>2, <1>4, <1>5, <2>1 DEF DeltaTrue, Covers, Days
  <2>3. QED
    BY <1>2, <1>3, <2>2, CoversOn
<1>6. CASE delta.label = today /\ ~delta.fresh
  <2>1. Covers(local[v][today], delta.file, today)
    BY <1>1, <1>6 DEF TokensHeld
  <2>2. QED
    BY <1>2, <1>3, <2>1, CoversOn
<1>7. CASE delta.label = today /\ delta.fresh
  <2> DEFINE g == Merged(local[v][today], delta.file)
  <2>1. local' = [local EXCEPT ![v][today] = g]
    BY <1>1, <1>4, <1>7 DEF ApplyDelta
  <2>2. local'[v][today] = g
    BY <1>4, <2>1 DEF IInv, LocalOK
  <2>3. Clean(local[v][today]) /\ Clean(delta.file)
    BY <1>2, <1>4 DEF IInv, LocalOK, DeltaTrue
  <2>4. Known(delta.file) \subseteq Known(g) /\ delta.file.tombs \subseteq g.tombs
    BY <2>3, MergedFiled
  <2>5. \A id \in Known(delta.file) : DateOf[id] = today
    BY <1>2, <1>7 DEF DeltaTrue, Filed
  <2>6. today' \in {today, today + 1}
    BY DayMoves DEF IInv
  <2>7. today' = today => Covers(local'[v][today'], tok'[v], today')
    BY <1>3, <1>4, <2>2, <2>4, <2>5 DEF Covers, Days
  <2>8. today' = today + 1 => Covers(local'[v][today'], tok'[v], today')
    BY <1>3, <1>4, <2>5 DEF Covers, Days
  <2>9. QED
    BY <2>6, <2>7, <2>8
<1>8. QED
  BY <1>5, <1>6, <1>7

LEMMA TokensStep ==
    ASSUME IInv, IInv', SparesToday, OneClock, FlowInv, TokensHeld, [Next]_vars
    PROVE  TokensHeld'
<1> SUFFICES ASSUME NEW v \in Devices
             PROVE  /\ tok'[v] \in File => Covers(local'[v][today'], tok'[v], today')
                    /\ net'[v]["poll"].stage = "sent" /\ net'[v]["poll"].after \in File =>
                         Covers(local'[v][today'], net'[v]["poll"].after, today')
                    /\ \A delta \in Delta : Pending(v, delta)' /\ ~delta.fresh =>
                         Covers(local'[v][today'], delta.file, today')
  BY DEF TokensHeld
<1>0. net \in [Devices -> [Lines -> Message]] /\ "poll" \in Lines
  BY SimpleMessages DEF IInv, LinesOK
<1>1. tok'[v] \in File => Covers(local'[v][today'], tok'[v], today')
  <2>1. CASE UNCHANGED tok[v]
    BY <2>1, CoversOn DEF TokensHeld
  <2>2. QED
    BY <2>1, TokMoves, TokenMerged
<1>2. ASSUME net'[v]["poll"].stage = "sent", net'[v]["poll"].after \in File
      PROVE  Covers(local'[v][today'], net'[v]["poll"].after, today')
  <2>1. CASE UNCHANGED net[v]["poll"]
    BY <1>2, <2>1, CoversOn DEF TokensHeld
  <2>2. CASE SendPoll(v)
    <3>1. net'[v]["poll"].after = tok[v]
      BY <1>0, <2>2 DEF SendPoll
    <3>2. QED
      BY <1>2, <3>1, CoversOn DEF TokensHeld
  <2>3. ~AnswerPoll(v) /\ net'[v]["poll"] # NoMsg
    BY <1>0, <1>2 DEF AnswerPoll, NoMsg
  <2>4. QED
    BY <1>0, <2>1, <2>2, <2>3, NetMoves
<1>3. ASSUME NEW delta \in Delta, Pending(v, delta)', ~delta.fresh
      PROVE  Covers(local'[v][today'], delta.file, today')
  <2>1. delta.file \in File
    BY DEF Delta
  <2>2. Covers(local[v][today], delta.file, today)
    <3>1. \/ Pending(v, delta)
          \/ net[v]["poll"].stage = "sent" /\ net[v]["poll"].after = delta.file
      BY <1>3, PendingMoves
    <3>2. QED
      BY <1>3, <2>1, <3>1 DEF TokensHeld
  <2>3. QED
    BY <2>1, <2>2, CoversOn
<1>4. QED
  BY <1>1, <1>2, <1>3

\* When the devices' clocks are the hub's and history files are not compared
\* across midnight, a device whose token is the hub's has all the hub has: told
\* "nothing new" it misses nothing, crashes and lost answers included
\* (sync._apply_delta, sync.save_state, Store.wait_for_change).
THEOREM TokenHonest == ClocksAgree /\ NoHistoryAtMidnight /\ Spec => []TokenIsSound
<1> SUFFICES ASSUME ClocksAgree, NoHistoryAtMidnight PROVE Spec => []TokenIsSound
  OBVIOUS
<1>1. Init => TokensHeld
  <2> SUFFICES ASSUME Init PROVE TokensHeld
    OBVIOUS
  <2>1. \A v \in Devices : tok[v] = None /\ net[v]["poll"] = NoMsg /\ \A delta : ~Pending(v, delta)
    BY SimpleMessages DEF Init, Pending, NoMsg, IdleSync
  <2>2. QED
    BY <2>1, NoneAssumption DEF TokensHeld, NoMsg
<1>2. IInv /\ SparesToday /\ FlowInv /\ QueueInv /\ TokensHeld /\ [Next]_vars => TokensHeld'
  <2>1. IInv /\ [Next]_vars => IInv'
    BY NextIInv
  <2>2. QED
    BY <2>1, TokensStep DEF QueueInv
<1>3. IInv /\ FlowInv /\ TokensHeld => TokenIsSound
  <2> SUFFICES ASSUME IInv, FlowInv, TokensHeld, NEW v \in Devices, tok[v] = hub[today]
               PROVE  /\ hub[today].tombs \subseteq local[v][today].tombs
                      /\ Known(hub[today]) \subseteq Known(local[v][today])
    BY DEF TokenIsSound
  <2>1. hub[today] \in File /\ Filed(hub[today], today)
    BY DEF IInv, ClocksOK, HubOK, FlowInv, HubFiled, Days
  <2>2. Covers(local[v][today], hub[today], today)
    BY <2>1 DEF TokensHeld
  <2>3. QED
    BY <2>1, <2>2 DEF Covers, Filed, Known
<1>4. QED
  BY <1>1, <1>2, <1>3, AlwaysIInv, AlwaysSpares, AlwaysFlow, AlwaysQueues, PTL DEF Spec

-----------------------------------------------------------------------------
(* -------------------- finished days are taken over ---------------------- *)

\* While the list is worked through, what a finished day's file was when it
\* was listed, and what it is now, are among what it has been since; and such a
\* file is on the device, or ahead on the list, unless it was not listed or a
\* fetch has failed.
Taken(v, d) == \/ d \in sync[v].answer.todo
               \/ local[v][d] \in since[v][d]
               \/ sync[v].answer.files[d] = EmptyFile
DayListed(v, d) == /\ sync[v].answer.files[d] \in since[v][d]
                   /\ hub[d] \in since[v][d]
                   /\ faults = 0 => Taken(v, d)
ListTrue ==
    \A v \in Devices :
        /\ InHistory(v) => sync[v].answer.skip <= today
        /\ Browsing(v) =>
             /\ sync[v].phase = "prune" /\ faults = 0 => sync[v].answer.todo = {}
             /\ \A d \in Days : d < sync[v].answer.skip => DayListed(v, d)

LEMMA Watched ==
    ASSUME [Next]_vars, NEW v \in Devices, NEW d \in Days, Browsing(v)'
    PROVE  /\ hub'[d] \in since'[v][d] \/ UNCHANGED vars
           /\ Browsing(v) => since[v][d] \subseteq since'[v][d]
<1>1. CASE UNCHANGED vars
  BY <1>1 DEF vars
<1>2. CASE Next
  <2>1. since'[v] = [e \in Days |-> {hub'[e]} \cup (IF Browsing(v) THEN since[v][e] ELSE {})]
    BY <1>2 DEF Next, Watch
  <2>2. QED
    BY <2>1
<1>3. QED
  BY <1>1, <1>2

\* How a thread comes to compare history files, and goes on.
LEMMA HistoryPhases ==
    ASSUME IInv, [Next]_vars, NEW v \in Devices,
           sync'[v].phase \in {"listing", "fetch", "prune"}
    PROVE  \/ UNCHANGED sync[v]
           \/ sync'[v].phase = "listing" /\ StartHistory(v)
           \/ sync'[v].phase = "fetch" /\ (GetList(v) \/ FetchFile(v) \/ SkipFile(v))
           \/ sync'[v].phase = "prune" /\ (FetchTrash(v) \/ SkipFile(v))
<1>0. sync[v] \in Sync /\ sync \in [Devices -> Sync]
  BY DEF IInv, SyncOK
<1>1. CASE Sends(v)
  BY <1>0, <1>1 DEF Sends, SendPending, AfterPush, Sync
<1>2. CASE Acknowledge(v)
  BY <1>0, <1>2 DEF Acknowledge, AfterPush, Sync
<1>3. CASE MergePush(v)
  BY <1>0, <1>3 DEF MergePush, AfterPush, Sync
<1>4. CASE SendPull(v) \/ MergePull(v)
  BY <1>0, <1>4 DEF SendPull, MergePull, Phase, Sync
<1>5. CASE PruneFiles(v) \/ LoseList(v)
  BY <1>0, <1>5 DEF PruneFiles, LoseList, Sync
<1>6. CASE StartHistory(v) \/ GetList(v)
  BY <1>0, <1>6 DEF StartHistory, GetList, Sync
<1>7. CASE FetchFile(v) \/ FetchTrash(v)
  BY <1>0, <1>7 DEF FetchFile, FetchTrash, Phase, Sync
<1>8. CASE SkipFile(v)
  BY <1>0, <1>8 DEF SkipFile, Phase, Sync
<1>9. CASE sync'[v] = IdleSync
  BY <1>9 DEF IdleSync
<1>10. QED
  BY <1>1, <1>2, <1>3, <1>4, <1>5, <1>6, <1>7, <1>8, <1>9, SyncMoves DEF HistoryStep

LEMMA ListStep ==
    ASSUME IInv, OneClock, ListTrue, [Next]_vars
    PROVE  ListTrue'
<1>0. /\ sync \in [Devices -> Sync] /\ local \in [Devices -> [Days -> File]]
      /\ today \in Days /\ today' \in {today, today + 1}
      /\ faults \in Nat /\ (faults' = 0 => UNCHANGED faults)
  BY FaultsCount, DayMoves DEF IInv, SyncOK, LocalOK, ClocksOK, CountsOK
<1> SUFFICES ASSUME NEW v \in Devices, InHistory(v)'
             PROVE  /\ sync'[v].answer.skip <= today'
                    /\ Browsing(v)' =>
                         /\ sync'[v].phase = "prune" /\ faults' = 0 => sync'[v].answer.todo = {}
                         /\ \A d \in Days : d < sync'[v].answer.skip => DayListed(v, d)'
  BY DEF ListTrue, InHistory, Browsing
<1> DEFINE s == sync[v].answer
<1>1. InHistory(v) => s.skip \in Days /\ s.skip <= today /\ s.skip <= today'
  BY <1>0 DEF IInv, SyncOK, Listing, InHistory, ListTrue, Days
<1>2. ASSUME Browsing(v), Browsing(v)', NEW d \in Days, d < s.skip
      PROVE  /\ s.files[d] \in since'[v][d] /\ hub'[d] \in since'[v][d]
             /\ since[v][d] \subseteq since'[v][d]
             /\ hub[d] \in since[v][d]
             /\ faults = 0 => Taken(v, d)
  <2>1. DayListed(v, d)
    BY <1>2 DEF ListTrue
  <2>2. CASE UNCHANGED vars
    BY <2>1, <2>2 DEF DayListed, vars, hubVars
  <2>3. QED
    BY <1>2, <2>1, <2>2, Watched DEF DayListed
<1>3. CASE UNCHANGED sync[v]
  <2>1. ~PruneFiles(v)
    <3>1. PruneFiles(v) => sync'[v].phase = "reports"
      BY <1>0 DEF PruneFiles, Sync
    <3>2. QED
      BY <3>1 DEF InHistory
  <2>2. InHistory(v) /\ (Browsing(v)' => Browsing(v))
    BY <1>3 DEF InHistory, Browsing
  <2>3. ASSUME Browsing(v)', NEW d \in Days, d < s.skip PROVE DayListed(v, d)'
    <3>1. d # clock[v]
      BY <1>0, <1>1, <2>2, <2>3 DEF OneClock, Days
    <3>2. local'[v][d] \in {local[v][d], hub[d]}
      BY <2>1, <3>1, FileMoves
    <3>3. QED
      BY <1>0, <1>2, <1>3, <2>2, <2>3, <3>2 DEF DayListed, Taken
  <2>4. sync[v].phase = "prune" /\ faults' = 0 => s.todo = {}
    BY <1>0 DEF ListTrue, Browsing
  <2>5. QED
    BY <1>1, <1>3, <2>2, <2>3, <2>4
<1>4. CASE sync'[v].phase = "listing" /\ StartHistory(v)
  <2>1. sync'[v].answer = [skip |-> clock[v]]
    BY <1>0, <1>4 DEF StartHistory, Sync
  <2>2. QED
    BY <1>0, <1>4, <2>1 DEF OneClock, Days, Browsing
<1>5. CASE sync'[v].phase = "fetch" /\ GetList(v)
  <2>1. /\ sync'[v].answer = [skip |-> s.skip, files |-> hub, trash |-> hubTrash,
                              todo |-> {d \in Days \ {s.skip} : hub[d] # EmptyFile}]
        /\ sync[v].phase = "listing" /\ UNCHANGED hub
    BY <1>0, <1>5 DEF GetList, Sync, hubVars
  <2>2. s.skip \in Days /\ s.skip <= today' /\ Browsing(v)' /\ ~Browsing(v)
    BY <1>1, <1>5, <2>1 DEF InHistory, Browsing
  <2>3. \A d \in Days : hub[d] \in since'[v][d]
    BY <2>1, <2>2, Watched DEF vars, thrVars, Browsing
  <2>4. ASSUME NEW d \in Days, d < s.skip PROVE DayListed(v, d)'
    <3>1. d # s.skip
      BY <2>2, <2>4 DEF Days
    <3>2. QED
      BY <2>1, <2>3, <3>1 DEF DayListed, Taken
  <2>5. QED
    BY <1>5, <2>1, <2>2, <2>4
<1>6. CASE sync'[v].phase = "fetch" /\ FetchFile(v)
  <2>1. PICK e \in s.todo :
          /\ local' = IF SameAsListed(v, e) THEN local ELSE [local EXCEPT ![v][e] = hub[e]]
          /\ sync' = [sync EXCEPT ![v].answer.todo = s.todo \ {e}]
    BY <1>6 DEF FetchFile, First
  <2>2. sync[v].phase = "fetch" /\ Browsing(v) /\ Browsing(v)' /\ InHistory(v)
    BY <1>6 DEF FetchFile, Browsing, InHistory
  <2>3. s \in Listing
    BY <2>2 DEF IInv, SyncOK
  <2>4. /\ sync'[v].answer.skip = s.skip /\ sync'[v].answer.files = s.files
        /\ sync'[v].answer.todo = s.todo \ {e}
    BY <1>0, <2>1, <2>3 DEF Sync, Listing
  <2>5. ASSUME NEW d \in Days, d < s.skip PROVE DayListed(v, d)'
    <3>1. CASE d = e
      <4>1. local'[v][e] \in {s.files[e], hub[e]}
        BY <1>0, <2>1, <3>1 DEF SameAsListed
      <4>2. QED
        BY <1>2, <2>2, <2>4, <2>5, <3>1, <4>1 DEF DayListed, Taken
    <3>2. CASE d # e
      <4>1. local'[v][d] = local[v][d]
        BY <1>0, <2>1, <3>2
      <4>2. QED
        BY <1>0, <1>2, <2>2, <2>4, <2>5, <3>2, <4>1 DEF DayListed, Taken
    <3>3. QED
      BY <3>1, <3>2
  <2>6. QED
    BY <1>1, <1>6, <2>2, <2>4, <2>5
<1>7. CASE sync'[v].phase = "prune" /\ FetchTrash(v)
  <2>1. /\ sync'[v].answer = s /\ sync[v].phase = "fetch" /\ s.todo = {}
        /\ UNCHANGED local
    BY <1>0, <1>7 DEF FetchTrash, Phase, Sync
  <2>2. Browsing(v) /\ Browsing(v)' /\ InHistory(v)
    BY <1>7, <2>1 DEF Browsing, InHistory
  <2>3. ASSUME NEW d \in Days, d < s.skip PROVE DayListed(v, d)'
    BY <1>0, <1>2, <2>1, <2>2, <2>3 DEF DayListed, Taken
  <2>4. QED
    BY <1>1, <2>1, <2>2, <2>3
<1>8. CASE SkipFile(v)
  <2>1. faults' = faults + 1 /\ sync[v].phase = "fetch"
    BY <1>8 DEF SkipFile
  <2>2. s \in Listing
    BY <2>1 DEF IInv, SyncOK
  <2>3. sync'[v].answer.skip = s.skip /\ sync'[v].answer.files = s.files
    BY <1>0, <1>8, <2>2 DEF SkipFile, Phase, Sync, Listing
  <2>4. Browsing(v) /\ InHistory(v) /\ faults' # 0
    BY <1>0, <2>1 DEF Browsing, InHistory
  <2>5. ASSUME Browsing(v)', NEW d \in Days, d < s.skip PROVE DayListed(v, d)'
    BY <1>2, <2>3, <2>4, <2>5 DEF DayListed
  <2>6. QED
    BY <1>1, <2>3, <2>4, <2>5
<1>9. QED
  BY <1>3, <1>4, <1>5, <1>6, <1>7, <1>8, HistoryPhases DEF InHistory

\* Only the last step of a full synchronisation goes on from the comparison.
LEMMA PruneEnds ==
    ASSUME IInv, [Next]_vars, NEW v \in Devices,
           sync[v].phase = "prune", sync'[v].phase = "reports"
    PROVE  PruneFiles(v)
<1>0. sync[v] \in Sync /\ sync \in [Devices -> Sync]
  BY DEF IInv, SyncOK
<1>1. CASE Sends(v) \/ Acknowledge(v) \/ MergePush(v) \/ SendPull(v) \/ MergePull(v)
  BY <1>1 DEF Sends, SendPending, Acknowledge, MergePush, SendPull, MergePull
<1>2. CASE StartHistory(v) \/ GetList(v) \/ FetchFile(v) \/ FetchTrash(v) \/ SkipFile(v)
           \/ LoseList(v)
  BY <1>2 DEF StartHistory, GetList, FetchFile, FetchTrash, SkipFile, LoseList
<1>3. QED
  BY <1>1, <1>2, SyncMoves DEF HistoryStep, IdleSync

\* A full synchronisation in which no fetch failed leaves each day before the
\* one it spared with a file the hub has had since the list, whatever summary,
\* import or late write comes between list and download, and though midnight
\* may fall in between (sync.sync_history_files), with one clock.
THEOREM FinishedDaysTaken == ClocksAgree /\ Spec => HistoryTaken
<1> SUFFICES ASSUME ClocksAgree PROVE Spec => HistoryTaken
  OBVIOUS
<1>1. Init => ListTrue
  BY DEF Init, ListTrue, IdleSync, InHistory, Browsing
<1>2. IInv /\ OneClock /\ ListTrue /\ [Next]_vars => ListTrue'
  BY ListStep
<1>3. IInv /\ ListTrue /\ [Next]_vars
        => [\A v \in Devices :
              sync[v].phase = "prune" /\ sync'[v].phase = "reports" /\ faults = 0 =>
                \A d \in Days : d < sync[v].answer.skip => local'[v][d] \in since[v][d]]_vars
  <2> SUFFICES ASSUME IInv, ListTrue, [Next]_vars, NEW v \in Devices,
                      sync[v].phase = "prune", sync'[v].phase = "reports", faults = 0,
                      NEW d \in Days, d < sync[v].answer.skip
               PROVE  local'[v][d] \in since[v][d]
    OBVIOUS
  <2>1. /\ DayListed(v, d) /\ sync[v].answer.todo = {} /\ sync[v].answer.skip \in Days
    BY DEF ListTrue, Browsing, IInv, SyncOK, Listing
  <2>2. d # sync[v].answer.skip
    BY <2>1 DEF Days
  <2>3. local' = [local EXCEPT ![v] = [e \in Days |-> IF e \in Extra(v) THEN EmptyFile ELSE @[e]]]
    BY PruneEnds DEF PruneFiles
  <2>4. local'[v][d] = IF d \in Extra(v) THEN EmptyFile ELSE local[v][d]
    BY <2>3 DEF IInv, LocalOK
  <2>5. QED
    BY <2>1, <2>2, <2>4 DEF DayListed, Taken, Extra
<1>4. Spec => []OneClock
  BY AlwaysQueues, PTL DEF QueueInv
<1>5. QED
  BY <1>1, <1>2, <1>3, <1>4, AlwaysIInv, PTL DEF Spec, HistoryTaken
=============================================================================
