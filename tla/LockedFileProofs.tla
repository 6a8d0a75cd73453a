--------------------------- MODULE LockedFileProofs --------------------------
(***************************************************************************)
(* For any threads, processes and changes, a file whose lock is a file of  *)
(* its own changes one whole change at a time.                             *)
(***************************************************************************)
EXTENDS LockedFile, TLAPS

USE LockedFileAssumption

\* The lock's path keeps naming one inode, so all the threads past their
\* open have the same one open: that is what makes the lock a lock.
OneInode == inode = 0 /\ \A t \in Threads : fd[t] = 0

IInv == TypeOK /\ OneInode /\ Exclusive /\ ViewIsFresh

-----------------------------------------------------------------------------
LEMMA InitIInv == Init => IInv
  BY DEF Init, IInv, TypeOK, OneInode, Exclusive, ViewIsFresh, Inside, PCs

\* A thread that is not past flock moves without a change to the file.
LEMMA OutsideIInv ==
    ASSUME IInv, NEW t \in Threads, Ask(t) \/ Open(t) \/ Acquire(t) \/ Release(t)
    PROVE  IInv'
<1>1. TypeOK' /\ OneInode'
  BY DEF IInv, TypeOK, OneInode, PCs, Ask, Open, Acquire, Release, Step
<1>2. Exclusive'
  BY DEF IInv, TypeOK, OneInode, Exclusive, Inside, Ask, Open, Acquire, Release, Step
<1>3. ViewIsFresh'
  BY DEF IInv, TypeOK, ViewIsFresh, Ask, Open, Acquire, Release, Step
<1>4. QED
  BY <1>1, <1>2, <1>3 DEF IInv

LEMMA ReadIInv ==
    ASSUME IInv, NEW t \in Threads, Read(t)
    PROVE  IInv'
<1>1. TypeOK' /\ OneInode'
  BY DEF IInv, TypeOK, OneInode, PCs, Read, Step
<1>2. Exclusive'
  BY DEF IInv, TypeOK, Exclusive, Inside, Read, Step
<1>3. ViewIsFresh'
  BY DEF IInv, TypeOK, ViewIsFresh, Read, Step
<1>4. QED
  BY <1>1, <1>2, <1>3 DEF IInv

\* The change is applied to the content the thread still sees.
LEMMA WriteApplies ==
    ASSUME IInv, NEW t \in Threads, Write(t)
    PROVE  /\ op[t] \in Ops
           /\ content' = Apply[op[t]][content]
           /\ content' \in Contents
<1>1. op[t] \in Ops /\ pc[t] = "read"
  BY DEF IInv, TypeOK, Write, Step
<1>2. content' = Apply[op[t]][content]
  BY <1>1 DEF IInv, ViewIsFresh, Write
<1>3. QED
  BY <1>1, <1>2 DEF IInv, TypeOK

LEMMA WriteIInv ==
    ASSUME LockBeside, IInv, NEW t \in Threads, Write(t)
    PROVE  IInv'
<1>1. TypeOK' /\ OneInode'
  BY WriteApplies DEF IInv, TypeOK, OneInode, PCs, Write, Step
<1>2. Exclusive'
  BY DEF IInv, TypeOK, Exclusive, Inside, Write, Step
<1>3. ViewIsFresh'
  <2>1. \A u \in Threads : pc'[u] # "read"
    BY DEF IInv, TypeOK, Exclusive, Inside, Write, Step
  <2>2. QED
    BY <2>1 DEF ViewIsFresh
<1>4. QED
  BY <1>1, <1>2, <1>3 DEF IInv

LEMMA DiesIInv ==
    ASSUME IInv, NEW p \in Processes, Dies(p)
    PROVE  IInv'
<1>1. TypeOK' /\ OneInode'
  BY DEF IInv, TypeOK, OneInode, PCs, Dies
<1>2. Exclusive'
  BY DEF IInv, TypeOK, Exclusive, Inside, Dies
<1>3. ViewIsFresh'
  BY DEF IInv, TypeOK, ViewIsFresh, Dies
<1>4. QED
  BY <1>1, <1>2, <1>3 DEF IInv

LEMMA NextIInv == LockBeside /\ IInv /\ [Next]_vars => IInv'
<1> SUFFICES ASSUME LockBeside, IInv, [Next]_vars PROVE IInv'
  OBVIOUS
<1>1. ASSUME NEW t \in Threads, Ask(t) \/ Work(t) PROVE IInv'
  BY <1>1, OutsideIInv, ReadIInv, WriteIInv DEF Work
<1>2. ASSUME NEW p \in Processes, Dies(p) PROVE IInv'
  BY <1>2, DiesIInv
<1>3. CASE UNCHANGED vars
  BY <1>3 DEF vars, IInv, TypeOK, OneInode, Exclusive, ViewIsFresh, Inside
<1>4. QED
  BY <1>1, <1>2, <1>3 DEF Next

LEMMA Inductive ==
    ASSUME LockBeside
    PROVE  Spec => []IInv
<1>1. IInv /\ [Next]_vars => IInv'
  BY NextIInv
<1>2. QED
  BY InitIInv, <1>1, PTL DEF Spec

-----------------------------------------------------------------------------
\* The types of the state, for every number of threads and processes.
THEOREM LockedTypes ==
    ASSUME LockBeside
    PROVE  Spec => []TypeOK
<1>1. IInv => TypeOK
  BY DEF IInv
<1>2. QED
  BY Inductive, <1>1, PTL

\* file_lock.py:19, for the lock file that is never replaced: however many
\* threads open, wait, change and die, at most one is past flock.
THEOREM LockIsExclusive ==
    ASSUME LockBeside
    PROVE  Spec => []Exclusive
<1>1. IInv => Exclusive
  BY DEF IInv
<1>2. QED
  BY Inductive, <1>1, PTL

\* What a thread read under the lock is still there when it writes.
THEOREM ReadStaysFresh ==
    ASSUME LockBeside
    PROVE  Spec => []ViewIsFresh
<1>1. IInv => ViewIsFresh
  BY DEF IInv
<1>2. QED
  BY Inductive, <1>1, PTL

-----------------------------------------------------------------------------
LEMMA ChangeStep ==
    ASSUME IInv, NEW t \in Threads, Ask(t) \/ Work(t)
    PROVE  [File!Next]_(File!vars)
<1> DEFINE pend == [u \in Threads |-> IF pc[u] = "written" THEN Done ELSE op[u]]
<1>1. CASE Ask(t)
  <2>1. PICK o \in Does[t] : op' = [op EXCEPT ![t] = o]
    BY <1>1 DEF Ask
  <2>2. o \in Ops
    BY <2>1
  <2>3. pend[t] = NoOp /\ pend' = [pend EXCEPT ![t] = o]
    BY <1>1, <2>1 DEF Ask, Step, IInv, TypeOK
  <2>4. File!Ask(t)
    BY <1>1, <2>2, <2>3 DEF File!Ask, Ask
  <2>5. QED
    BY <2>4 DEF File!Next
<1>2. CASE Open(t) \/ Acquire(t) \/ Read(t)
  <2>1. pend' = pend
    BY <1>2 DEF Open, Acquire, Read, Step, IInv, TypeOK
  <2>2. content' = content
    BY <1>2 DEF Open, Acquire, Read
  <2>3. QED
    BY <2>1, <2>2 DEF File!vars
<1>3. CASE Write(t)
  <2>1. op[t] \in Ops /\ content' = Apply[op[t]][content]
    BY <1>3, WriteApplies
  <2>2. pend[t] = op[t] /\ pend' = [pend EXCEPT ![t] = Done]
    BY <1>3 DEF Write, Step, IInv, TypeOK
  <2>3. File!Run(t)
    BY <2>1, <2>2 DEF File!Run
  <2>4. QED
    BY <2>3 DEF File!Next
<1>4. CASE Release(t)
  <2>1. pend[t] = Done /\ pend' = [pend EXCEPT ![t] = NoOp]
    BY <1>4 DEF Release, Step, IInv, TypeOK
  <2>2. File!Return(t)
    BY <1>4, <2>1 DEF File!Return, Release
  <2>3. QED
    BY <2>2 DEF File!Next
<1>5. QED
  BY <1>1, <1>2, <1>3, <1>4 DEF Work

LEMMA DeathStep ==
    ASSUME IInv, NEW p \in Processes, Dies(p)
    PROVE  [File!Next]_(File!vars)
<1> DEFINE pend == [u \in Threads |-> IF pc[u] = "written" THEN Done ELSE op[u]]
<1>1. pend' = [t \in Threads |-> IF t \in p THEN NoOp ELSE pend[t]]
  BY DEF Dies
<1>2. File!Abort(p)
  BY <1>1 DEF File!Abort, Dies
<1>3. QED
  BY <1>2 DEF File!Next

LEMMA InitFile == Init => File!Init
  BY DEF Init, File!Init

\* The threads of the client under their lock are the atomic file: every
\* change takes effect in one instant, whoever else is at work or dies.
THEOREM FileImplements ==
    ASSUME LockBeside
    PROVE  Spec => ImplementsAtomicFile
<1>1. IInv /\ [Next]_vars => [File!Next]_(File!vars)
  <2> SUFFICES ASSUME IInv, [Next]_vars PROVE [File!Next]_(File!vars)
    OBVIOUS
  <2>1. CASE UNCHANGED vars
    BY <2>1 DEF vars, File!vars
  <2>2. QED
    BY <2>1, ChangeStep, DeathStep DEF Next
<1>2. QED
  BY InitFile, Inductive, <1>1, PTL DEF Spec, File!Spec, ImplementsAtomicFile
=============================================================================
