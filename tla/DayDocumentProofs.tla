-------------------------- MODULE DayDocumentProofs --------------------------
(***************************************************************************)
(* For any requests, imports, retry limits and number of threads: requests *)
(* and the summary never undo each other on the file of a day, as long as  *)
(* reads succeed and imports keep out of the critical sections.            *)
(***************************************************************************)
EXTENDS DayDocument, TLAPS

USE DayDocumentAssumption

\* What departs from the lock in the code, and is excluded here.
Disciplined == ~UnlockedRace /\ ~ReadFails

Inside(h) == pc[h] # "idle"

\* One thread has the lock; what it read is what the file holds; before the
\* day is over there is no summary, and after it no request reads the file.
OneInside == /\ \A h, g \in Handlers : Inside(h) /\ Inside(g) => h = g
             /\ auto = "writing" => \A h \in Handlers : ~Inside(h)
Fresh == /\ \A h \in Handlers : Inside(h) => view[h] = file /\ job[h] # NoJob
         /\ auto = "writing" => /\ seen = [file EXCEPT !.of = file.entries]
                                /\ file.exists /\ file.head # "absent"
Order == /\ auto # "idle" => past
         /\ file.head = "summary" => past /\ \A h \in Handlers : ~Inside(h)

\* A run that is on has runs left, nobody runs while the hub is down, and the
\* file a starting hub is about to remove is still without records.
Running == /\ auto # "idle" => failed < MaxRuns
           /\ ~up => auto = "idle" /\ \A h \in Handlers : ~Inside(h)
           /\ purge => ~up /\ NoBlocks(file)

IInv == TypeOK /\ OneInside /\ Fresh /\ Order /\ Running /\ SummaryIsOfTheDay

-----------------------------------------------------------------------------
LEMMA MissingIsFile == Missing \in File
  BY DEF Missing, File

\* A merge keeps the region and gives a file.
LEMMA MergeIsFile ==
    ASSUME NEW f \in File,
           NEW j \in [do : {"append", "delete"}, records : Batches]
    PROVE  /\ Merge(f, j) \in File
           /\ Merge(f, j).head = f.head
           /\ Merge(f, j).exists
<1>1. j.records \subseteq UNION Batches
  OBVIOUS
<1>2. IdsOf(j.records) \subseteq IdsOf(UNION Batches)
  BY <1>1 DEF IdsOf
<1>3. WithEntries(f, j.records) = [f EXCEPT !.entries = WithEntries(f, j.records).entries]
      /\ WithEntries(f, j.records).entries \subseteq UNION Batches
  BY <1>1 DEF WithEntries, File
<1>4. /\ WithDeletes(f, j.records)
           = [f EXCEPT !.entries = WithDeletes(f, j.records).entries,
                       !.tombs   = WithDeletes(f, j.records).tombs]
      /\ WithDeletes(f, j.records).entries \subseteq UNION Batches
      /\ WithDeletes(f, j.records).tombs \subseteq IdsOf(UNION Batches)
  BY <1>2 DEF WithDeletes, File
<1>5. CASE j.do = "append"
  BY <1>3, <1>5 DEF Merge, File
<1>6. CASE j.do # "append"
  BY <1>4, <1>6 DEF Merge, File
<1>7. QED
  BY <1>5, <1>6

LEMMA InitIInv == Init => IInv
<1> SUFFICES ASSUME Init PROVE IInv
  OBVIOUS
<1>1. file \in File /\ file.head # "summary"
  <2>1. Missing.head # "summary"
    BY DEF Missing
  <2>2. \A f \in Imports : f \in File /\ f.head # "summary"
    OBVIOUS
  <2>3. QED
    BY <2>1, <2>2, MissingIsFile DEF Init
<1>2. TypeOK
  <2>1. job \in [Handlers -> {NoJob}]
    BY DEF Init
  <2>2. asks \in 0 .. MaxAnswers - 1 /\ failed \in 0 .. MaxRuns /\ age \in 0 .. 2
    BY DEF Init
  <2>3. QED
    BY <1>1, <2>1, <2>2, MissingIsFile DEF Init, TypeOK
<1>3. OneInside /\ Fresh /\ Order /\ Running /\ SummaryIsOfTheDay
  BY <1>1 DEF Init, OneInside, Fresh, Order, Running, SummaryIsOfTheDay, Inside
<1>4. QED
  BY <1>2, <1>3 DEF IInv

LEMMA ReadIInv ==
    ASSUME Disciplined, IInv, NEW h \in Handlers, Read(h)
    PROVE  IInv'
<1> USE DEF Disciplined, IInv
<1>1. PICK d \in {"append", "delete"}, B \in Batches :
         job' = [job EXCEPT ![h] = [do |-> d, records |-> B]]
  BY DEF Read
<1>2. TypeOK'
  BY <1>1 DEF TypeOK, Read, task
<1>3. OneInside'
  BY DEF TypeOK, OneInside, Inside, Held, Read, task
<1>4. Fresh'
  BY <1>1 DEF TypeOK, Fresh, Inside, Held, NoJob, Read, task
<1>5. Order' /\ Running' /\ SummaryIsOfTheDay'
  BY DEF TypeOK, Order, Running, SummaryIsOfTheDay, Inside, Read, task, past
<1>6. QED
  BY <1>2, <1>3, <1>4, <1>5

LEMMA PathIInv ==
    ASSUME IInv, NEW h \in Handlers, Path(h)
    PROVE  IInv'
<1> USE DEF IInv
<1>1. TypeOK'
  BY MissingIsFile DEF TypeOK, Path, Leave, task
<1>2. OneInside'
  BY DEF TypeOK, OneInside, Inside, Path, Leave, task
<1>3. Fresh'
  BY DEF TypeOK, Fresh, Inside, Path, Leave, task
<1>4. Order' /\ Running' /\ SummaryIsOfTheDay'
  BY DEF TypeOK, Order, Running, SummaryIsOfTheDay, Inside, Path, Leave, task, past
<1>5. QED
  BY <1>1, <1>2, <1>3, <1>4

\* A request merges into the file as it is, which has no summary yet.
LEMMA WriteMerges ==
    ASSUME IInv, NEW h \in Handlers, Write(h)
    PROVE  /\ job[h] \in [do : {"append", "delete"}, records : Batches]
           /\ file' = Merge(file, job[h])
           /\ file' \in File
           /\ file'.head # "summary"
<1>1. Inside(h) /\ view[h] = file /\ job[h] # NoJob
  BY DEF IInv, Fresh, Inside, Write
<1>2. job[h] \in [do : {"append", "delete"}, records : Batches]
  BY <1>1 DEF IInv, TypeOK
<1>3. file' = Merge(file, job[h])
  BY <1>1 DEF Write
<1>4. file.head # "summary"
  BY <1>1 DEF IInv, Order
<1>5. QED
  BY <1>2, <1>3, <1>4, MergeIsFile DEF IInv, TypeOK

LEMMA WriteIInv ==
    ASSUME IInv, NEW h \in Handlers, Write(h)
    PROVE  IInv'
<1> USE DEF IInv
<1>1. TypeOK'
  BY WriteMerges, MissingIsFile DEF TypeOK, Write, Leave, task
<1>2. OneInside'
  BY DEF TypeOK, OneInside, Inside, Write, Leave, task
<1>3. Fresh'
  BY DEF TypeOK, OneInside, Fresh, Inside, Write, Leave, task
<1>4. Order' /\ Running' /\ SummaryIsOfTheDay'
  BY WriteMerges DEF TypeOK, Order, Running, Inside, SummaryIsOfTheDay, Write, Leave, task, past
<1>5. QED
  BY <1>1, <1>2, <1>3, <1>4

\* A model call leads to an answer, to another call within the limit, or to
\* the end of the run.
LEMMA AnswerEffect ==
    Answer => /\ auto = "asking"
              /\ \/ auto' = "answered" /\ UNCHANGED <<seen, asks, failed>>
                 \/ /\ asks + 1 < MaxAnswers /\ asks' = asks + 1
                    /\ UNCHANGED <<auto, seen, failed>>
                 \/ GiveUp
  BY DEF Answer

\* The steps of the summary that leave the file alone.
LEMMA SummaryIInv ==
    ASSUME IInv, Due \/ Look \/ Answer \/ Lock
    PROVE  IInv'
<1> USE DEF IInv
<1>0. UNCHANGED <<age, file, up, purge, pc, job, view>>
  BY DEF Due, Look, Answer, Lock, hub
<1>1. auto' # "idle" => past /\ up /\ failed' < MaxRuns
  BY AnswerEffect DEF TypeOK, Due, Look, Lock, Order, Running, GiveUp, Idle, past
<1>2. TypeOK'
  <2>1. [file EXCEPT !.of = seen.entries] \in File
    BY DEF TypeOK, File
  <2>2. CASE Due
    BY <1>0, <2>2 DEF TypeOK, Due
  <2>3. CASE Look
    BY <1>0, <2>3, MissingIsFile DEF TypeOK, Running, Look, GiveUp, Idle
  <2>4. CASE Answer
    BY <1>0, <2>4, AnswerEffect, MissingIsFile DEF TypeOK, Running, GiveUp, Idle
  <2>5. CASE Lock
    BY <1>0, <2>1, <2>5, MissingIsFile DEF TypeOK, Running, Lock, GiveUp, Idle
  <2>6. QED
    BY <2>2, <2>3, <2>4, <2>5
<1>3. auto' = "writing" => /\ \A h \in Handlers : ~Inside(h)
                           /\ seen' = [file EXCEPT !.of = file.entries]
                           /\ file.exists /\ file.head # "absent"
  BY AnswerEffect DEF Due, Look, Lock, GiveUp, Idle, Summarisable, Held, Inside
<1>4. OneInside' /\ Fresh'
  BY <1>0, <1>3 DEF OneInside, Fresh, Inside
<1>5. Order' /\ Running' /\ SummaryIsOfTheDay'
  <2>1. ~up => auto' = "idle"
    BY <1>1
  <2>2. QED
    BY <1>0, <1>1, <2>1 DEF Order, Running, SummaryIsOfTheDay, Inside, past
<1>6. QED
  BY <1>2, <1>4, <1>5

\* The summary is put over the file as it is.
LEMMA PutSummarises ==
    ASSUME IInv, Put
    PROVE  /\ past /\ file.exists /\ file.head # "absent"
           /\ file' = [file EXCEPT !.head = "summary", !.of = file.entries]
  BY DEF IInv, TypeOK, File, Fresh, Order, Put

LEMMA PutIInv ==
    ASSUME IInv, Put
    PROVE  IInv'
<1> USE DEF IInv
<1>1. file' \in File /\ file'.of = file'.entries
  <2>1. file \in File
    BY DEF TypeOK
  <2>2. file' = [file EXCEPT !.head = "summary", !.of = file.entries]
    BY PutSummarises
  <2>3. QED
    BY <2>1, <2>2 DEF File
<1>2. TypeOK'
  BY <1>1, MissingIsFile DEF TypeOK, Put, Idle, hub
<1>3. OneInside' /\ Fresh' /\ Order' /\ Running' /\ SummaryIsOfTheDay'
  BY <1>1, PutSummarises DEF OneInside, Fresh, Order, Running, SummaryIsOfTheDay, Inside,
     Put, Idle, hub, past
<1>4. QED
  BY <1>2, <1>3

LEMMA ImportIInv ==
    ASSUME Disciplined, IInv, NEW f \in Imports, Import(f)
    PROVE  IInv'
  BY DEF Disciplined, IInv, TypeOK, OneInside, Fresh, Order, Running, SummaryIsOfTheDay,
     Inside, Held, Import, hub, task, past

LEMMA RestIInv ==
    ASSUME IInv, Midnight \/ Stop \/ Start \/ Unlink
    PROVE  IInv'
<1> USE DEF IInv
<1>1. CASE Midnight
  BY <1>1 DEF TypeOK, OneInside, Fresh, Order, Running, SummaryIsOfTheDay, Inside,
     Midnight, hub, task, past
<1>2. CASE Stop
  <2>1. TypeOK'
    <3>1. job' \in [Handlers -> {NoJob}] /\ view' \in [Handlers -> File]
      BY <1>2, MissingIsFile DEF Stop
    <3>2. asks' \in 0 .. MaxAnswers - 1
      BY <1>2 DEF Stop, Idle
    <3>3. QED
      BY <1>2, <3>1, <3>2, MissingIsFile DEF TypeOK, Stop, Idle
  <2>2. OneInside' /\ Fresh' /\ Order' /\ Running' /\ SummaryIsOfTheDay'
    BY <1>2 DEF OneInside, Fresh, Order, Running, SummaryIsOfTheDay, Inside, Stop, Idle, past
  <2>3. QED
    BY <2>1, <2>2
<1>3. CASE Start
  BY <1>3 DEF TypeOK, OneInside, Fresh, Order, Running, SummaryIsOfTheDay, Inside,
     Start, task, past
<1>4. CASE Unlink
  BY <1>4, MissingIsFile DEF TypeOK, OneInside, Fresh, Order, Running,
     SummaryIsOfTheDay, Inside, Unlink, Missing, task, past
<1>5. QED
  BY <1>1, <1>2, <1>3, <1>4

LEMMA NextIInv == Disciplined /\ IInv /\ [Next]_vars => IInv'
<1> SUFFICES ASSUME Disciplined, IInv, [Next]_vars PROVE IInv'
  OBVIOUS
<1>1. ASSUME NEW h \in Handlers, Read(h) \/ Path(h) \/ Write(h) PROVE IInv'
  BY <1>1, ReadIInv, PathIInv, WriteIInv
<1>2. CASE Summary
  BY <1>2, SummaryIInv, PutIInv DEF Summary
<1>3. ASSUME NEW f \in Imports, Import(f) PROVE IInv'
  BY <1>3, ImportIInv
<1>4. CASE Midnight \/ Stop \/ Start \/ Unlink
  BY <1>4, RestIInv
<1>5. CASE UNCHANGED vars
  BY <1>5 DEF vars, hub, task, IInv, TypeOK, OneInside, Fresh, Order, Running,
     SummaryIsOfTheDay, Inside, past
<1>6. QED
  BY <1>1, <1>2, <1>3, <1>4, <1>5 DEF Next

LEMMA Inductive ==
    ASSUME Disciplined
    PROVE  Spec => []IInv
<1>1. IInv /\ [Next]_vars => IInv'
  BY NextIInv
<1>2. QED
  BY InitIInv, <1>1, PTL DEF Spec

-----------------------------------------------------------------------------
\* The types of the state, for any requests, imports and limits.
THEOREM DocumentTypes ==
    ASSUME Disciplined
    PROVE  Spec => []TypeOK
<1>1. IInv => TypeOK
  BY DEF IInv
<1>2. QED
  BY Inductive, <1>1, PTL

\* A summary never stands over records it was not made of: the hash of what
\* was read minutes ago is compared under the lock the requests hold
\* (ai/journal.py:46-54).
THEOREM SummaryIsHonest ==
    ASSUME Disciplined
    PROVE  Spec => []SummaryIsOfTheDay
<1>1. IInv => SummaryIsOfTheDay
  BY DEF IInv
<1>2. QED
  BY Inductive, <1>1, PTL

-----------------------------------------------------------------------------
LEMMA SameMissing == Book!Missing = Missing
  BY DEF Book!Missing, Missing

\* Requests are Enter and Erase of the day book.
LEMMA WriteIsOneChange ==
    ASSUME IInv, NEW h \in Handlers, Write(h)
    PROVE  Book!Next
<1>1. /\ job[h] \in [do : {"append", "delete"}, records : Batches]
      /\ file' = Merge(file, job[h])
  BY WriteMerges
<1>2. past' = past
  BY DEF Write, past
<1>3. CASE job[h].do = "append"
  <2>1. Book!Enter(job[h].records)
    BY <1>1, <1>3 DEF Merge, Book!Enter, Book!WithEntries, WithEntries,
       Book!Known, Known, Book!IdsOf, IdsOf
  <2>2. QED
    BY <1>1, <1>2, <2>1 DEF Book!Next
<1>4. CASE job[h].do # "append"
  <2>1. Book!Erase(job[h].records)
    BY <1>1, <1>4 DEF Merge, Book!Erase, Book!WithDeletes, WithDeletes,
       Book!IdsOf, IdsOf
  <2>2. QED
    BY <1>1, <1>2, <2>1 DEF Book!Next
<1>5. QED
  BY <1>3, <1>4

\* The purge at the start of the hub removes a file without records.
LEMMA UnlinkIsRemove ==
    ASSUME IInv, Unlink
    PROVE  Book!Next
<1>1. NoBlocks(file) /\ file' = Missing /\ past' = past
  BY DEF IInv, Running, Unlink, past
<1>2. Book!Remove
  BY <1>1, SameMissing DEF NoBlocks, Book!Remove
<1>3. QED
  BY <1>1, <1>2 DEF Book!Next

\* Whatever threads, crashes, midnight and imports do, the file changes as a
\* day book does: one whole change at a time.
THEOREM DocumentImplements ==
    ASSUME Disciplined
    PROVE  Spec => ImplementsDayBook
<1>1. Init => Book!Init
  BY SameMissing DEF Init, Book!Init, past
<1>2. IInv /\ [Next]_vars => [Book!Next]_(Book!vars)
  <2> SUFFICES ASSUME IInv, [Next]_vars PROVE [Book!Next]_(Book!vars)
    OBVIOUS
  <2>1. ASSUME NEW h \in Handlers, Read(h) \/ Path(h)
        PROVE  UNCHANGED Book!vars
    BY <2>1 DEF Read, Path, Book!vars, past
  <2>2. ASSUME NEW h \in Handlers, Write(h) PROVE Book!Next
    BY <2>2, WriteIsOneChange
  <2>3. CASE Due \/ Look \/ Answer \/ Lock \/ Stop \/ Start
    BY <2>3 DEF Due, Look, Answer, Lock, Stop, Start, Book!vars, past
  <2>4. CASE Put
    <3>1. Book!Summarise
      BY <2>4, PutSummarises DEF Book!Summarise
    <3>2. past' = past
      BY <2>4 DEF Put, past
    <3>3. QED
      BY <3>1, <3>2 DEF Book!Next
  <2>5. ASSUME NEW f \in Imports, Import(f) PROVE Book!Next
    BY <2>5 DEF Import, Book!Import, Book!Next, past
  <2>6. CASE Midnight
    BY <2>6 DEF Midnight, Book!NextDay, Book!Next, Book!vars, IInv, TypeOK, past
  <2>7. CASE Unlink
    BY <2>7, UnlinkIsRemove
  <2>8. CASE UNCHANGED vars
    BY <2>8 DEF vars, Book!vars, past
  <2>9. QED
    BY <2>1, <2>2, <2>3, <2>4, <2>5, <2>6, <2>7, <2>8 DEF Next, Summary
<1>3. QED
  BY <1>1, <1>2, Inductive, PTL DEF Spec, Book!Spec, ImplementsDayBook
=============================================================================
