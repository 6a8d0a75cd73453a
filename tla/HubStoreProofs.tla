--------------------------- MODULE HubStoreProofs ---------------------------
(***************************************************************************)
(* Machine-checked proofs about HubStore, for every set of ids, bodies,    *)
(* threads and requests and every number of days, with midnight and        *)
(* crashes anywhere.                                                       *)
(***************************************************************************)
EXTENDS HubStore, TLAPS

(***************************************************************************)
(* Type correctness.                                                       *)
(***************************************************************************)

\* The initial store is well typed: Store.__init__ on a data directory that
\* has no files yet.
LEMMA TypeInit == Init => TypeOK
<1>. SUFFICES ASSUME Init PROVE TypeOK
  OBVIOUS
<1>1. 0 \in Days
  BY DaysAssumption DEF Days
<1>2. NoView \in Token
  BY DEF NoView, Token
<1>. QED
  BY <1>1, <1>2 DEF Init, TypeOK, PcValues

\* What RequestsAssumption gives of one request: its lists are records, each
\* id at most once.
LEMMA RequestType ==
    ASSUME NEW q \in Requests
    PROVE  /\ q \in Request
           /\ q.entries \in SUBSET Record
           /\ q.deletes \in SUBSET Record
           /\ UniqueIds(q.entries)
           /\ UniqueIds(q.deletes)
BY RequestsAssumption DEF Request

\* The ids of records are ids.
LEMMA IdsOfType ==
    ASSUME NEW R \in SUBSET Record
    PROVE  IdsOf(R) \in SUBSET Ids
BY DEF IdsOf, Record

\* The blocks of a day file, and so its token, have the type of a token.
LEMMA ContentType == TypeOK => Content(today) \in Token
BY DEF TypeOK, Content, Token

\* An empty file is one too.
LEMMA NoViewType == NoView \in Token
BY DEF NoView, Token

\* Every step of a handler, midnight and a crash keep the types and let a
\* busy worker serve a known request only.
THEOREM TypeStep == TypeOK /\ JobKnown /\ [Next]_vars => TypeOK' /\ JobKnown'
<1>. SUFFICES ASSUME TypeOK, JobKnown, [Next]_vars
              PROVE  TypeOK' /\ JobKnown'
  OBVIOUS
<1>. USE DEF files, workers, Goto, PcValues
<1>1. ASSUME NEW w \in Workers, NEW q \in Requests, Accept(w, q)
      PROVE  TypeOK' /\ JobKnown'
  <2>1. q.kind \in {"push", "pull", "longpoll"}
    BY RequestType DEF Request
  <2>2. TypeOK'
    BY <1>1, <2>1 DEF Accept, TypeOK
  <2>3. JobKnown'
    BY <1>1, <2>1 DEF Accept, TypeOK, JobKnown, Busy
  <2>. QED BY <2>2, <2>3
<1>2. ASSUME NEW w \in Workers, AppendCheck(w)
      PROVE  TypeOK' /\ JobKnown'
  <2>1. job[w] \in Requests
    BY <1>2 DEF AppendCheck, JobKnown, Busy
  <2>2. Expired(job[w].entries, today) \in SUBSET Ids
    BY <2>1, RequestType, IdsOfType DEF Expired
  <2>3. TypeOK'
    BY <1>2, <2>2 DEF AppendCheck, TypeOK
  <2>4. JobKnown'
    BY <1>2, <2>1 DEF AppendCheck, TypeOK, JobKnown, Busy
  <2>. QED BY <2>3, <2>4
<1>3. ASSUME NEW w \in Workers, AppendRead(w)
      PROVE  TypeOK' /\ JobKnown'
  <2>1. TypeOK'
    BY <1>3, ContentType DEF TodayPath, AppendRead, TypeOK
  <2>2. JobKnown'
    BY <1>3 DEF TodayPath, AppendRead, TypeOK, JobKnown, Busy
  <2>. QED BY <2>1, <2>2
<1>4. ASSUME NEW w \in Workers, AppendWrite(w)
      PROVE  TypeOK' /\ JobKnown'
  <2>1. job[w] \in Requests
    BY <1>4 DEF AppendWrite, JobKnown, Busy
  <2>2. /\ job[w].entries \in SUBSET Record
        /\ IdsOf(job[w].entries) \in SUBSET Ids
    BY <2>1, RequestType, IdsOfType
  <2>3. view[w].entries \in SUBSET Record /\ view[w].tombs \in SUBSET Ids
    BY DEF TypeOK, Token
  <2>4. Added(w) \in SUBSET Record
    BY <2>2 DEF Added
  <2>5. entries' \in [Days -> SUBSET Record] /\ tombs' \in [Days -> SUBSET Ids]
    BY <1>4, <2>3, <2>4 DEF AppendWrite, TypeOK
  <2>6. 0 \in Days
    BY DaysAssumption DEF Days
  <2>7. TypeOK'
    BY <1>4, <2>2, <2>5, <2>6, NoViewType DEF AppendWrite, TypeOK
  <2>8. JobKnown'
    BY <1>4, <2>1 DEF AppendWrite, TypeOK, JobKnown, Busy
  <2>. QED BY <2>7, <2>8
<1>4t. ASSUME NEW w \in Workers, AppendTarget(w)
       PROVE  TypeOK' /\ JobKnown'
  <2>1. job[w] \in Requests
    BY <1>4t DEF AppendTarget, JobKnown, Busy
  <2>2. IdsOf(job[w].entries) \in SUBSET Ids
    BY <2>1, RequestType, IdsOfType
  <2>3. TypeOK'
    BY <1>4t, <2>2, NoViewType DEF AppendTarget, TodayPath, TypeOK
  <2>4. JobKnown'
    BY <1>4t, <2>1 DEF AppendTarget, TypeOK, JobKnown, Busy
  <2>. QED BY <2>3, <2>4
<1>5. ASSUME NEW w \in Workers, DeleteCheck(w)
      PROVE  TypeOK' /\ JobKnown'
  <2>1. job[w] \in Requests
    BY <1>5 DEF DeleteCheck, JobKnown, Busy
  <2>2. Expired(job[w].deletes, today) \in SUBSET Ids
    BY <2>1, RequestType, IdsOfType DEF Expired
  <2>3. TypeOK'
    BY <1>5, <2>2 DEF DeleteCheck, TypeOK
  <2>4. JobKnown'
    BY <1>5, <2>1 DEF DeleteCheck, TypeOK, JobKnown, Busy
  <2>. QED BY <2>3, <2>4
<1>6. ASSUME NEW w \in Workers, DeleteRead(w)
      PROVE  TypeOK' /\ JobKnown'
  <2>1. TypeOK'
    BY <1>6, ContentType DEF TodayPath, DeleteRead, TypeOK
  <2>2. JobKnown'
    BY <1>6 DEF DeleteRead, TypeOK, JobKnown, Busy
  <2>. QED BY <2>1, <2>2
<1>7. ASSUME NEW w \in Workers, DeleteWrite(w)
      PROVE  TypeOK' /\ JobKnown'
  <2>1. job[w] \in Requests
    BY <1>7 DEF DeleteWrite, JobKnown, Busy
  <2>2. /\ job[w].deletes \in SUBSET Record
        /\ IdsOf(job[w].deletes) \in SUBSET Ids
    BY <2>1, RequestType, IdsOfType
  <2>3. view[w].entries \in SUBSET Record /\ view[w].tombs \in SUBSET Ids
    BY DEF TypeOK, Token
  <2>4. /\ Fresh(w) \in SUBSET Record
        /\ IdsOf(Fresh(w)) \in SUBSET Ids
        /\ Removed(w) \in SUBSET Record
    BY <2>2, <2>3, IdsOfType DEF Fresh, Removed
  <2>5. entries' \in [Days -> SUBSET Record] /\ tombs' \in [Days -> SUBSET Ids]
    BY <1>7, <2>3, <2>4 DEF AllTombs, DeleteWrite, TypeOK
  <2>6. 0 \in Days
    BY DaysAssumption DEF Days
  <2>7. TypeOK'
    BY <1>7, <2>2, <2>4, <2>5, <2>6, NoViewType DEF DeleteWrite, TypeOK
  <2>8. JobKnown'
    BY <1>7, <2>1 DEF DeleteWrite, TypeOK, JobKnown, Busy
  <2>. QED BY <2>7, <2>8
<1>7t. ASSUME NEW w \in Workers, DeleteTarget(w)
       PROVE  TypeOK' /\ JobKnown'
  <2>1. job[w] \in Requests
    BY <1>7t DEF DeleteTarget, JobKnown, Busy
  <2>2. TypeOK'
    BY <1>7t, NoViewType DEF DeleteTarget, TodayPath, TypeOK
  <2>3. JobKnown'
    BY <1>7t, <2>1 DEF DeleteTarget, TypeOK, JobKnown, Busy
  <2>. QED BY <2>2, <2>3
<1>8. ASSUME NEW w \in Workers, WriteTrash(w)
      PROVE  TypeOK' /\ JobKnown'
  <2>1. TypeOK'
    BY <1>8 DEF WriteTrash, TypeOK
  <2>2. JobKnown'
    BY <1>8 DEF WriteTrash, TypeOK, JobKnown, Busy
  <2>. QED BY <2>1, <2>2
<1>9. ASSUME NEW w \in Workers, Label(w)
      PROVE  TypeOK' /\ JobKnown'
  BY <1>9 DEF Label, TypeOK, JobKnown, Busy
<1>10. ASSUME NEW w \in Workers, State(w)
       PROVE  TypeOK' /\ JobKnown'
  <2>1. Snapshot(w) \in Reply /\ Refusal(w) \in Reply
    BY ContentType DEF Snapshot, Refusal, Reply, TypeOK
  <2>2. TypeOK'
    BY <1>10, <2>1 DEF State, TypeOK
  <2>3. JobKnown'
    BY <1>10 DEF State, TypeOK, JobKnown, Busy
  <2>. QED BY <2>2, <2>3
<1>11. ASSUME NEW w \in Workers, Poll(w)
       PROVE  TypeOK' /\ JobKnown'
  BY <1>11 DEF Poll, TypeOK, JobKnown, Busy
<1>12. ASSUME NEW w \in Workers, Wake(w)
       PROVE  TypeOK' /\ JobKnown'
  <2>1. Unchanged(w) \in Reply
    BY ContentType DEF Unchanged, Reply, TypeOK
  <2>2. TypeOK'
    BY <1>12, <2>1 DEF Wake, TypeOK
  <2>3. JobKnown'
    BY <1>12 DEF Wake, TypeOK, JobKnown, Busy
  <2>. QED BY <2>2, <2>3
<1>13. ASSUME NEW w \in Workers, Finish(w)
       PROVE  TypeOK' /\ JobKnown'
  <2>1. 0 \in Days
    BY DaysAssumption DEF Days
  <2>2. TypeOK'
    BY <1>13, <2>1 DEF Finish, TypeOK
  <2>3. JobKnown'
    BY <1>13 DEF Finish, TypeOK, JobKnown, Busy
  <2>. QED BY <2>2, <2>3
<1>14. CASE Midnight
  <2>1. today + 1 \in Days
    BY <1>14, DaysAssumption DEF Midnight, TypeOK, Days
  <2>2. TypeOK'
    BY <1>14, <2>1 DEF Midnight, TypeOK
  <2>3. JobKnown'
    BY <1>14 DEF Midnight, JobKnown, Busy
  <2>. QED BY <2>2, <2>3
<1>15. CASE Crash
  <2>1. 0 \in Days
    BY DaysAssumption DEF Days
  <2>2. TypeOK'
    BY <1>15, <2>1, NoViewType DEF Crash, TypeOK
  <2>3. JobKnown'
    BY <1>15 DEF Crash, TypeOK, JobKnown, Busy
  <2>. QED BY <2>2, <2>3
<1>16. CASE UNCHANGED vars
  BY <1>16 DEF vars, TypeOK, JobKnown, Busy
<1>. QED
  BY <1>1, <1>2, <1>3, <1>4, <1>4t, <1>5, <1>6, <1>7, <1>7t, <1>8, <1>9, <1>10, <1>11,
     <1>12, <1>13, <1>14, <1>15, <1>16 DEF Next, Step

\* The hub's state keeps its type: Store and the handlers of server.py.
THEOREM TypeCorrect == Spec => []TypeOK
<1>1. Init => TypeOK /\ JobKnown
  BY TypeInit DEF Init, JobKnown, Busy
<1>2. TypeOK /\ JobKnown /\ [Next]_vars => (TypeOK /\ JobKnown)'
  BY TypeStep
<1>. QED
  BY <1>1, <1>2, PTL DEF Spec

(***************************************************************************)
(* The locks and the merge.  IInv is inductive relative to TypeOK.         *)
(***************************************************************************)

\* Nothing is written, locked or parsed at the start.
LEMMA InvInit == Init => IInv
<1>. SUFFICES ASSUME Init PROVE IInv
  OBVIOUS
<1>1. \A d \in Days : Content(d) = NoView
  BY DEF Init, Content, NoView
<1>2. JobKnown /\ MergerHoldsLock /\ ViewIsSound
  BY DEF Init, JobKnown, Busy, MergerHoldsLock, ViewIsSound, Merging, Replacing
<1>3. OneBlockPerId
  BY DEF Init, OneBlockPerId, UniqueIds, IdsOf
<1>. QED
  BY <1>1, <1>2, <1>3 DEF IInv, FutureIsEmpty

\* What ViewIsSound says of one worker.
ViewOK(w) == /\ Target(w) <= today
             /\ Content(Target(w)) \in {view[w], NoView}
             /\ UniqueIds(view[w].entries)
             /\ IdsOf(view[w].entries) \cap view[w].tombs = {}

\* A path is a day, whoever holds it.
LEMMA TargetType == ASSUME TypeOK, NEW w \in Workers PROVE Target(w) \in Days
BY DEF TypeOK, Target

\* Nobody is about to replace a file: no finished day is open.
LEMMA NoWriterNoLate ==
    ASSUME \A w \in Workers : pc[w] \notin Replacing
    PROVE  Late = {}
BY DEF Late

\* Whoever is about to replace a file is alone in that, so Late is its day, if
\* that day is over.
LEMMA OneWriterLate ==
    ASSUME TypeOK, MergerHoldsLock, NEW w \in Workers, pc[w] \in Replacing
    PROVE  Late = {path[w]} \cap {d \in Days : d < today}
<1>1. \A u \in Workers : pc[u] \in Replacing => u = w
  BY DEF MergerHoldsLock
<1>. QED BY <1>1 DEF Late

\* Steps of w that write no day file: nothing parsed goes stale, no lock is
\* stolen, no finished day is opened or closed.
LEMMA QuietKeepsMerge ==
    ASSUME TypeOK, IInv, UNCHANGED <<today, entries, tombs>>,
           NEW w \in Workers,
           \A v \in Workers \ {w} :
               pc'[v] = pc[v] /\ view'[v] = view[v] /\ path'[v] = path[v],
           pc[w] \notin Replacing,
           pc'[w] \in Merging \cup Replacing \cup {"trash"} => lock' = w,
           pc'[w] \in Merging => view'[w] = Content(today),
           pc'[w] \in Replacing => /\ pc[w] \in Merging
                                   /\ view'[w] = view[w] /\ path'[w] = today,
           lock = lock' \/ lock \in {Free, w}
    PROVE  /\ OneBlockPerId' /\ FutureIsEmpty' /\ MergerHoldsLock' /\ ViewIsSound'
           /\ UNCHANGED Late
<1>1. OneBlockPerId' /\ FutureIsEmpty'
  BY DEF IInv, OneBlockPerId, FutureIsEmpty, Content
<1>2. \A d \in Days : Content(d)' = Content(d)
  BY DEF Content
<1>3. MergerHoldsLock'
  BY SentinelAssumption DEF IInv, MergerHoldsLock
<1>4. today \in Days /\ today <= today
  BY DaysAssumption DEF TypeOK, Days
<1>5. ASSUME NEW v \in Workers, pc'[v] \in Merging \cup Replacing
      PROVE  ViewOK(v)'
  <2>1. CASE v = w /\ pc'[v] \in Merging
    <3>1. Target(v)' = today
      BY <2>1 DEF Target, Merging, Replacing
    <3>2. Content(Target(v))' = Content(today)
      BY <3>1 DEF Content
    <3>3. view'[v] = Content(today)
      BY <2>1
    <3>. QED
      BY <1>4, <3>1, <3>2, <3>3 DEF IInv, OneBlockPerId, Content, ViewOK, UniqueIds, IdsOf
  <2>2. CASE v = w /\ pc'[v] \in Replacing
    <3>1. Target(v)' = today /\ Target(v) = today /\ view'[v] = view[v]
      BY <2>2 DEF Target, Merging, Replacing
    <3>2. Content(Target(v))' = Content(Target(v))
      BY <3>1 DEF Content
    <3>. QED
      BY <1>4, <2>2, <3>1, <3>2 DEF IInv, ViewIsSound, ViewOK, UniqueIds, IdsOf
  <2>3. CASE v # w
    <3>1. Target(v)' = Target(v) /\ view'[v] = view[v] /\ pc'[v] = pc[v]
      BY <2>3 DEF Target
    <3>2. Content(Target(v))' = Content(Target(v))
      BY <3>1 DEF Content
    <3>. QED
      BY <1>5, <3>1, <3>2 DEF IInv, ViewIsSound, ViewOK, UniqueIds, IdsOf
  <2>. QED BY <1>5, <2>1, <2>2, <2>3
<1>6. ViewIsSound'
  BY <1>5 DEF ViewIsSound, ViewOK, UniqueIds, IdsOf
<1>7. UNCHANGED Late
  <2>1. ~(today < today)
    BY <1>4, DaysAssumption DEF Days
  <2>2. Late' \subseteq Late
    BY <2>1 DEF Late
  <2>3. Late \subseteq Late'
    BY DEF Late
  <2>. QED BY <2>2, <2>3
<1>. QED BY <1>1, <1>3, <1>6, <1>7

\* The one step that writes a day file: what w parsed, extended, put where w
\* asked for before.
LEMMA MergeKeeps ==
    ASSUME TypeOK, IInv, NEW w \in Workers,
           pc[w] \in Replacing,
           NEW E \in SUBSET Record, NEW T \in SUBSET Ids,
           UniqueIds(E), IdsOf(E) \cap T = {},
           view[w].tombs \subseteq T,
           \A r \in view[w].entries : r \in E \/ r.id \in T,
           entries' = [entries EXCEPT ![path[w]] = E],
           tombs' = [tombs EXCEPT ![path[w]] = T],
           today' = today,
           \A v \in Workers \ {w} : pc'[v] = pc[v] /\ view'[v] = view[v],
           pc'[w] \notin Merging \cup Replacing,
           pc'[w] = "trash" => lock' = w
    PROVE  /\ OneBlockPerId' /\ FutureIsEmpty' /\ MergerHoldsLock' /\ ViewIsSound'
           /\ Log!Write \/ Log!WriteLate
<1>. DEFINE d == path[w]
<1>1. d \in Days /\ today \in Days /\ d <= today /\ Target(w) = d
  BY DEF TypeOK, IInv, ViewIsSound, Target
<1>2. /\ lock = w
      /\ \A v \in Workers \ {w} : pc[v] \notin Merging \cup Replacing \cup {"trash"}
  BY DEF IInv, MergerHoldsLock
<1>3. OneBlockPerId'
  <2>1. \A e \in Days : /\ UniqueIds(entries'[e])
                        /\ IdsOf(entries'[e]) \cap tombs'[e] = {}
    BY <1>1 DEF TypeOK, IInv, OneBlockPerId
  <2>. QED BY <2>1 DEF OneBlockPerId, UniqueIds, IdsOf
<1>4. FutureIsEmpty'
  BY <1>1, DaysAssumption DEF TypeOK, IInv, FutureIsEmpty, Content, Days
<1>5. /\ \A v \in Workers : pc'[v] \notin Merging \cup Replacing
      /\ MergerHoldsLock' /\ ViewIsSound'
  BY <1>2 DEF MergerHoldsLock, ViewIsSound
<1>6. Log!Change(d)
  <2>1. Content(d) \in {view[w], NoView}
    BY <1>1 DEF IInv, ViewIsSound
  <2>2. tombs[d] \subseteq T
    BY <2>1 DEF Content, NoView
  <2>3. \A r \in entries[d] : r \in E \/ r.id \in T
    BY <2>1 DEF Content, NoView
  <2>4. \A r \in E : r.id \notin T
    BY DEF IdsOf
  <2>5. \A r, q \in E : r.id = q.id => r = q
    BY DEF UniqueIds
  <2>6. E \in SUBSET Log!Record /\ T \in SUBSET Ids
    BY DEF Record, Log!Record
  <2>. QED BY <2>2, <2>3, <2>4, <2>5, <2>6 DEF Log!Change
<1>7. Late' = {}
  BY <1>5 DEF Late
<1>8. CASE d = today
  <2>1. Late = {}
    BY <1>1, <1>8, OneWriterLate, DaysAssumption DEF IInv, Days
  <2>. QED BY <1>3, <1>4, <1>5, <1>6, <1>7, <1>8, <2>1 DEF Log!Write
<1>9. CASE d # today
  <2>1. d < today
    BY <1>1, <1>9, DaysAssumption DEF Days
  <2>2. d \in Late
    BY <1>1, <2>1, OneWriterLate DEF IInv
  <2>. QED BY <1>3, <1>4, <1>5, <1>6, <1>7, <2>2 DEF Log!WriteLate
<1>. QED BY <1>8, <1>9

\* append_entries adds to the blocks it parsed.
LEMMA AppendMerge ==
    ASSUME TypeOK, IInv, NEW w \in Workers, AppendWrite(w)
    PROVE  /\ OneBlockPerId' /\ FutureIsEmpty' /\ MergerHoldsLock' /\ ViewIsSound'
           /\ Log!Write \/ Log!WriteLate
<1>. USE DEF files, workers, Goto
<1>. DEFINE E == view[w].entries \cup Added(w)
            T == view[w].tombs
<1>1. pc[w] = "appendWrite" /\ job[w] \in Requests
  BY DEF AppendWrite, IInv, JobKnown, Busy
<1>2. /\ \A v \in Workers \ {w} : pc'[v] = pc[v] /\ view'[v] = view[v]
      /\ pc'[w] = "delete"
  BY DEF AppendWrite, TypeOK
<1>3. /\ job[w].entries \in SUBSET Record
      /\ UniqueIds(job[w].entries)
  BY <1>1, RequestType
<1>4. view[w].entries \in SUBSET Record /\ T \in SUBSET Ids
  BY DEF TypeOK, Token
<1>5. /\ UniqueIds(view[w].entries)
      /\ IdsOf(view[w].entries) \cap T = {}
  BY <1>1 DEF IInv, ViewIsSound, Replacing
<1>6. E \in SUBSET Record
  BY <1>3, <1>4 DEF Added
<1>7. UniqueIds(E)
  BY <1>3, <1>5 DEF UniqueIds, Added, IdsOf
<1>8. IdsOf(E) \cap T = {}
  BY <1>5 DEF IdsOf, Added
<1>9. /\ entries' = [entries EXCEPT ![path[w]] = E]
      /\ tombs' = [tombs EXCEPT ![path[w]] = T]
      /\ today' = today
  BY DEF AppendWrite
<1>10. pc[w] \in Replacing /\ pc'[w] \notin Merging \cup Replacing
  BY <1>1, <1>2 DEF Merging, Replacing
<1>. QED
  BY <1>2, <1>4, <1>6, <1>7, <1>8, <1>9, <1>10, MergeKeeps

\* apply_deletes turns blocks it parsed into tombstones.
LEMMA DeleteMerge ==
    ASSUME TypeOK, IInv, NEW w \in Workers, DeleteWrite(w)
    PROVE  /\ OneBlockPerId' /\ FutureIsEmpty' /\ MergerHoldsLock' /\ ViewIsSound'
           /\ Log!Write \/ Log!WriteLate
<1>. USE DEF files, workers, Goto
<1>. DEFINE E == {r \in view[w].entries : r.id \notin IdsOf(Fresh(w))}
            T == view[w].tombs \cup IdsOf(Fresh(w))
<1>1. /\ pc[w] = "deleteWrite" /\ job[w] \in Requests
      /\ pc[w] \in Replacing /\ lock = w
  BY DEF DeleteWrite, IInv, MergerHoldsLock, JobKnown, Busy, Replacing
<1>2. /\ \A v \in Workers \ {w} : pc'[v] = pc[v] /\ view'[v] = view[v]
      /\ pc'[w] \in {"label", "trash"}
      /\ pc'[w] = "trash" => lock' = w
  BY <1>1 DEF DeleteWrite, TypeOK
<1>3. job[w].deletes \in SUBSET Record
  BY <1>1, RequestType
<1>4. view[w].entries \in SUBSET Record /\ view[w].tombs \in SUBSET Ids
  BY DEF TypeOK, Token
<1>5. /\ UniqueIds(view[w].entries)
      /\ IdsOf(view[w].entries) \cap view[w].tombs = {}
  BY <1>1 DEF IInv, ViewIsSound
<1>6. E \in SUBSET Record
  BY <1>4
<1>7. T \in SUBSET Ids
  BY <1>3, <1>4, IdsOfType DEF Fresh
<1>8. UniqueIds(E)
  BY <1>5 DEF UniqueIds
<1>9. IdsOf(E) \cap T = {}
  BY <1>5 DEF IdsOf
<1>10. /\ entries' = [entries EXCEPT ![path[w]] = E]
       /\ tombs' = [tombs EXCEPT ![path[w]] = T]
       /\ today' = today
  BY DEF AllTombs, DeleteWrite
<1>11. view[w].tombs \subseteq T /\ \A r \in view[w].entries : r \in E \/ r.id \in T
  OBVIOUS
<1>12. pc'[w] \notin Merging \cup Replacing
  BY <1>2 DEF Merging, Replacing
<1>. QED
  BY <1>1, <1>2, <1>6, <1>7, <1>8, <1>9, <1>10, <1>11, <1>12, MergeKeeps

\* Midnight opens a file nobody has written; the file of the day that ends
\* stays open for the one handler that has its path.
LEMMA MidnightKeeps ==
    ASSUME TypeOK, IInv, Midnight
    PROVE  /\ OneBlockPerId' /\ FutureIsEmpty' /\ MergerHoldsLock' /\ ViewIsSound'
           /\ Log!NextDay
<1>. USE DEF files, workers
<1>1. today \in Days /\ today + 1 \in Days /\ today + 1 > today /\ today' = today + 1
  BY DaysAssumption DEF Midnight, TypeOK, Days
<1>2. \A d \in Days : Content(d)' = Content(d)
  BY DEF Midnight, Content
<1>3. OneBlockPerId' /\ MergerHoldsLock'
  BY DEF Midnight, IInv, OneBlockPerId, MergerHoldsLock, UniqueIds, IdsOf
<1>4. FutureIsEmpty'
  BY DaysAssumption DEF Midnight, TypeOK, IInv, FutureIsEmpty, Content, Days
<1>5. Content(today)' = NoView
  BY <1>1, <1>2 DEF IInv, FutureIsEmpty, Content
<1>6. ASSUME NEW w \in Workers, pc'[w] \in Merging \cup Replacing
      PROVE  ViewOK(w)'
  <2>1. /\ Target(w) \in Days /\ Target(w) <= today
        /\ Content(Target(w)) \in {view[w], NoView}
        /\ UniqueIds(view[w].entries)
        /\ IdsOf(view[w].entries) \cap view[w].tombs = {}
    BY <1>6, TargetType DEF Midnight, IInv, ViewIsSound
  <2>2. CASE pc[w] \in Replacing
    <3>1. Target(w)' = Target(w) /\ Target(w) <= today'
      BY <1>1, <2>1, <2>2, DaysAssumption DEF Midnight, Target, Days
    <3>2. Content(Target(w))' = Content(Target(w))
      BY <2>1, <3>1, <1>2 DEF Content
    <3>. QED
      BY <2>1, <3>1, <3>2 DEF Midnight, ViewOK, UniqueIds, IdsOf
  <2>3. CASE pc[w] \notin Replacing
    <3>1. Target(w)' = today'
      BY <2>3 DEF Midnight, Target
    <3>2. today' <= today'
      BY <1>1, DaysAssumption DEF Days
    <3>3. Content(Target(w))' = NoView
      BY <1>5, <3>1 DEF Content
    <3>. QED
      BY <2>1, <3>1, <3>2, <3>3 DEF Midnight, ViewOK, UniqueIds, IdsOf
  <2>. QED BY <2>2, <2>3
<1>7. ViewIsSound'
  BY <1>6 DEF ViewIsSound, ViewOK, UniqueIds, IdsOf
<1>8. UNCHANGED Late \/ (Late = {} /\ Late' = {today})
  <2>1. CASE \E w \in Workers : pc[w] \in Replacing
    <3>1. PICK w \in Workers : pc[w] \in Replacing
      BY <2>1
    <3>2. path[w] \in Days /\ path[w] <= today
      BY <3>1 DEF TypeOK, IInv, ViewIsSound, Target
    <3>3. /\ \A u \in Workers : pc[u] \in Replacing => u = w
          /\ UNCHANGED <<pc, path>>
      BY <3>1 DEF IInv, MergerHoldsLock, Midnight
    <3>4. /\ Late = {path[w]} \cap {d \in Days : d < today}
          /\ Late' = {path[w]} \cap {d \in Days : d < today + 1}
      BY <1>1, <3>1, <3>3 DEF Late
    <3>. QED BY <1>1, <3>2, <3>4, DaysAssumption DEF Days
  <2>2. CASE \A w \in Workers : pc[w] \notin Replacing
    BY <2>2 DEF Midnight, Late
  <2>. QED BY <2>1, <2>2
<1>9. Log!NextDay
  BY <1>8 DEF Midnight, Log!NextDay
<1>. QED BY <1>3, <1>4, <1>7, <1>9

\* What a step leaves of the diary when it is no step of the log.
Stutter == UNCHANGED <<today, entries, tombs, Late>>

\* One step of the store: the invariant survives, and the diary moves as the
\* abstract log does.
LEMMA InvStep ==
    TypeOK /\ IInv /\ [Next]_vars
        => /\ OneBlockPerId' /\ FutureIsEmpty' /\ MergerHoldsLock' /\ ViewIsSound'
           /\ Log!Next \/ Stutter
<1>. SUFFICES ASSUME TypeOK, IInv, [Next]_vars
              PROVE  /\ OneBlockPerId' /\ FutureIsEmpty' /\ MergerHoldsLock' /\ ViewIsSound'
                     /\ Log!Next \/ Stutter
  OBVIOUS
<1>. DEFINE Goal == /\ OneBlockPerId' /\ FutureIsEmpty' /\ MergerHoldsLock' /\ ViewIsSound'
                    /\ Log!Next \/ Stutter
<1>. USE DEF files, workers, Goto
<1>0. ASSUME NEW w \in Workers, UNCHANGED <<today, entries, tombs>>,
             \A v \in Workers \ {w} :
                 pc'[v] = pc[v] /\ view'[v] = view[v] /\ path'[v] = path[v],
             pc[w] \notin Replacing,
             pc'[w] \notin Merging \cup Replacing \cup {"trash"},
             lock = lock' \/ lock \in {Free, w}
      PROVE  Goal
  <2>1. /\ OneBlockPerId' /\ FutureIsEmpty' /\ MergerHoldsLock' /\ ViewIsSound'
        /\ UNCHANGED Late
    BY <1>0, QuietKeepsMerge
  <2>. QED BY <1>0, <2>1 DEF Stutter
<1>1. ASSUME NEW w \in Workers, NEW q \in Requests, Accept(w, q)
      PROVE  Goal
  <2>1. q.kind \in {"push", "pull", "longpoll"}
    BY RequestType DEF Request
  <2>2. pc[w] = "idle" /\ pc'[w] \in {"append", "label", "poll"}
    BY <1>1, <2>1 DEF Accept, TypeOK
  <2>3. /\ UNCHANGED <<today, entries, tombs>>
        /\ \A v \in Workers \ {w} :
               pc'[v] = pc[v] /\ view'[v] = view[v] /\ path'[v] = path[v]
        /\ lock = lock'
    BY <1>1 DEF Accept, TypeOK
  <2>. QED BY <1>0, <2>2, <2>3 DEF Merging, Replacing
<1>2. ASSUME NEW w \in Workers, AppendCheck(w) \/ DeleteCheck(w)
      PROVE  Goal
  <2>1. /\ pc[w] \in {"append", "delete"}
        /\ pc'[w] \in {"appendRead", "delete", "deleteRead", "label"}
    BY <1>2 DEF AppendCheck, DeleteCheck, TypeOK
  <2>2. /\ UNCHANGED <<today, entries, tombs>>
        /\ \A v \in Workers \ {w} :
               pc'[v] = pc[v] /\ view'[v] = view[v] /\ path'[v] = path[v]
        /\ lock = lock'
    BY <1>2 DEF AppendCheck, DeleteCheck, TypeOK
  <2>. QED BY <1>0, <2>1, <2>2 DEF Merging, Replacing
<1>3. ASSUME NEW w \in Workers, AppendRead(w) \/ DeleteRead(w)
      PROVE  Goal
  <2>1. lock = Free /\ lock' = w /\ view'[w] = Content(today)
    BY <1>3 DEF TodayPath, AppendRead, DeleteRead, TypeOK
  <2>2. /\ pc[w] \in {"appendRead", "deleteRead"}
        /\ pc'[w] \in {"appendTarget", "deleteTarget"}
    BY <1>3 DEF AppendRead, DeleteRead, TypeOK
  <2>3. /\ UNCHANGED <<today, entries, tombs>>
        /\ \A v \in Workers \ {w} :
               pc'[v] = pc[v] /\ view'[v] = view[v] /\ path'[v] = path[v]
    BY <1>3 DEF AppendRead, DeleteRead, TypeOK
  <2>4. /\ OneBlockPerId' /\ FutureIsEmpty' /\ MergerHoldsLock' /\ ViewIsSound'
        /\ UNCHANGED Late
    BY <2>1, <2>2, <2>3, QuietKeepsMerge DEF Merging, Replacing
  <2>. QED BY <2>3, <2>4 DEF Stutter
<1>4. ASSUME NEW w \in Workers, AppendTarget(w) \/ DeleteTarget(w)
      PROVE  Goal
  <2>1. /\ pc[w] \in {"appendTarget", "deleteTarget"}
        /\ lock = w
    BY <1>4 DEF AppendTarget, DeleteTarget, IInv, MergerHoldsLock, Merging
  <2>2. /\ UNCHANGED <<today, entries, tombs>>
        /\ \A v \in Workers \ {w} :
               pc'[v] = pc[v] /\ view'[v] = view[v] /\ path'[v] = path[v]
    BY <1>4 DEF AppendTarget, DeleteTarget, TypeOK
  <2>3. \/ pc'[w] \in {"delete", "label"}
        \/ /\ pc'[w] \in Replacing
           /\ lock' = lock /\ view'[w] = view[w] /\ path'[w] = today
    BY <1>4 DEF AppendTarget, DeleteTarget, TodayPath, TypeOK, Replacing
  <2>4. CASE pc'[w] \in {"delete", "label"}
    BY <1>0, <2>1, <2>2, <2>4 DEF Merging, Replacing
  <2>5. CASE /\ pc'[w] \in Replacing
             /\ lock' = lock /\ view'[w] = view[w] /\ path'[w] = today
    <3>1. /\ OneBlockPerId' /\ FutureIsEmpty' /\ MergerHoldsLock' /\ ViewIsSound'
          /\ UNCHANGED Late
      BY <2>1, <2>2, <2>5, QuietKeepsMerge DEF Merging, Replacing
    <3>. QED BY <2>2, <3>1 DEF Stutter
  <2>. QED BY <2>3, <2>4, <2>5
<1>5. ASSUME NEW w \in Workers, WriteTrash(w)
      PROVE  Goal
  <2>1. lock = w /\ pc[w] = "trash"
    BY <1>5 DEF WriteTrash, IInv, MergerHoldsLock
  <2>2. pc'[w] = "label"
    BY <1>5 DEF WriteTrash, TypeOK
  <2>3. /\ UNCHANGED <<today, entries, tombs>>
        /\ \A v \in Workers \ {w} :
               pc'[v] = pc[v] /\ view'[v] = view[v] /\ path'[v] = path[v]
    BY <1>5 DEF WriteTrash, TypeOK
  <2>. QED BY <1>0, <2>1, <2>2, <2>3 DEF Merging, Replacing
<1>6. ASSUME NEW w \in Workers,
             Label(w) \/ State(w) \/ Poll(w) \/ Wake(w) \/ Finish(w)
      PROVE  Goal
  <2>1. /\ pc[w] \in {"label", "state", "poll", "waiting", "reply"}
        /\ pc'[w] \in {"state", "reply", "label", "waiting", "idle"}
    BY <1>6 DEF Label, State, Poll, Wake, Finish, TypeOK
  <2>2. lock = lock' \/ lock \in {Free, w}
    BY <1>6 DEF Label, State, Poll, Wake, Finish
  <2>3. /\ UNCHANGED <<today, entries, tombs>>
        /\ \A v \in Workers \ {w} :
               pc'[v] = pc[v] /\ view'[v] = view[v] /\ path'[v] = path[v]
    BY <1>6 DEF Label, State, Poll, Wake, Finish, TypeOK
  <2>. QED BY <1>0, <2>1, <2>2, <2>3 DEF Merging, Replacing
<1>7. ASSUME NEW w \in Workers, AppendWrite(w) \/ DeleteWrite(w)
      PROVE  Goal
  BY <1>7, AppendMerge, DeleteMerge DEF Log!Next
<1>8. CASE Midnight
  BY <1>8, MidnightKeeps DEF Log!Next
<1>9. CASE Crash
  <2>1. UNCHANGED <<today, entries, tombs>>
    BY <1>9 DEF Crash
  <2>2. \A w \in Workers : pc'[w] = "idle"
    BY <1>9 DEF Crash
  <2>3. OneBlockPerId' /\ FutureIsEmpty'
    BY <2>1 DEF IInv, OneBlockPerId, FutureIsEmpty, Content
  <2>4. MergerHoldsLock' /\ ViewIsSound' /\ Late' = {}
    BY <2>2 DEF MergerHoldsLock, ViewIsSound, Late, Merging, Replacing
  <2>5. Log!GiveUp \/ Stutter
    BY <2>1, <2>4 DEF Log!GiveUp, Stutter
  <2>. QED BY <2>3, <2>4, <2>5 DEF Log!Next
<1>10. CASE UNCHANGED vars
  BY <1>10 DEF vars, IInv, OneBlockPerId, FutureIsEmpty, Content, Stutter, Late,
               MergerHoldsLock, ViewIsSound, Target, UniqueIds, IdsOf
<1>. QED
  BY <1>1, <1>2, <1>3, <1>4, <1>5, <1>6, <1>7, <1>8, <1>9, <1>10 DEF Next, Step

\* The inductive invariant: the two locks make read-merge-write atomic.
THEOREM InvCorrect == Spec => [](TypeOK /\ IInv)
<1>1. Init => TypeOK /\ IInv
  BY TypeInit, InvInit
<1>2. TypeOK /\ IInv /\ [Next]_vars => (TypeOK /\ IInv)'
  BY TypeStep, InvStep DEF IInv
<1>. QED
  BY <1>1, <1>2, PTL DEF Spec

(***************************************************************************)
(* What a reader of the diary relies on.                                   *)
(***************************************************************************)

\* No day file of the hub ever holds two blocks of one id.
THEOREM BlocksUnique == Spec => []OneBlockPerId
<1>1. IInv => OneBlockPerId
  BY DEF IInv
<1>. QED
  BY <1>1, InvCorrect, PTL

\* The store implements the abstract diary: under every interleaving of
\* handlers, midnights and crashes each step changes at most the current
\* day's log, or once the log a handler had the path of at midnight, and only
\* as DayLog allows.
THEOREM StoreImplementsDayLog == Spec => ImplementsDayLog
<1>1. Init => Log!Init
  BY DaysAssumption DEF Init, Log!Init, Days, Log!Days, Late, Replacing
<1>2. TypeOK /\ IInv /\ [Next]_vars => [Log!Next]_(Log!vars)
  BY InvStep DEF Log!vars, Stutter
<1>. QED
  BY <1>1, <1>2, InvCorrect, PTL DEF Spec, ImplementsDayLog, Log!Spec

\* Tombstones are for ever and an entry leaves only by one: append_entries
\* and apply_deletes never lose or revive an entry.
THEOREM NoResurrection == Spec => NeverResurrected
<1>. DEFINE A == \A d \in Days :
          /\ tombs[d] \subseteq tombs'[d]
          /\ \A r \in entries[d] : r \in entries'[d] \/ r.id \in tombs'[d]
          /\ \A r \in entries'[d] : r.id \notin tombs[d]
<1>1. TypeOK /\ IInv /\ [Next]_vars => [A]_vars
  <2>. SUFFICES ASSUME TypeOK, IInv, [Next]_vars PROVE A
    OBVIOUS
  <2>1. CASE \E d \in Days : Log!Change(d)
    BY <2>1 DEF Log!Change, TypeOK, IInv, OneBlockPerId, IdsOf
  <2>2. CASE UNCHANGED <<entries, tombs>>
    BY <2>2 DEF TypeOK, IInv, OneBlockPerId, IdsOf
  <2>3. today \in Days /\ Late \subseteq Days /\ ~Log!Import
    BY DEF TypeOK, Late, Log!Import
  <2>. QED
    BY <2>1, <2>2, <2>3, InvStep
       DEF Log!Next, Log!Write, Log!WriteLate, Log!GiveUp, Log!NextDay, Stutter
<1>. QED
  BY <1>1, InvCorrect, PTL DEF Spec, NeverResurrected

\* A finished day is closed once the handler is gone that asked for its path
\* before midnight, and that one writes the file once: whatever later pushes,
\* midnights and crashes do.
THEOREM PastFrozen == Spec => PastIsFrozen
<1>. DEFINE A == \A d \in Days : d < today =>
          /\ d \notin Late => Content(d)' = Content(d) /\ d \notin Late'
          /\ Content(d)' # Content(d) => d \notin Late'
<1>1. TypeOK /\ IInv /\ [Next]_vars => [A]_vars
  <2>. SUFFICES ASSUME TypeOK, IInv, [Next]_vars, NEW d \in Days, d < today
                PROVE  /\ d \notin Late => Content(d)' = Content(d) /\ d \notin Late'
                       /\ Content(d)' # Content(d) => d \notin Late'
    OBVIOUS
  <2>1. d # today /\ ~Log!Import
    BY DaysAssumption DEF TypeOK, Days, Log!Import
  <2>2. CASE Log!Write
    BY <2>1, <2>2 DEF Log!Write, Log!Change, Content, TypeOK
  <2>3. CASE Log!WriteLate
    BY <2>3 DEF Log!WriteLate, Log!Change, Content, TypeOK
  <2>4. CASE Log!GiveUp \/ Log!NextDay \/ Stutter
    BY <2>1, <2>4 DEF Log!GiveUp, Log!NextDay, Stutter, Content
  <2>. QED
    BY <2>1, <2>2, <2>3, <2>4, InvStep DEF Log!Next
<1>. QED
  BY <1>1, InvCorrect, PTL DEF Spec, PastIsFrozen
=============================================================================
