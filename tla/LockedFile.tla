------------------------------ MODULE LockedFile -----------------------------
(***************************************************************************)
(* Threads of the client changing one file under file_lock (file_lock.py,  *)
(* atomic_write.py): Records/<day>.md under Records/.journal.lock          *)
(* (journal.py), outbox.json and state.json under themselves               *)
(* (sync.py).  The lock belongs to the inode a thread opened, not to the   *)
(* path: os.replace gives the path a new inode, so a lock taken on the     *)
(* very file that is replaced does not stop a thread that opens it later.  *)
(***************************************************************************)
EXTENDS Integers

CONSTANTS Threads,     \* the input thread, the push thread, the poll thread
          Processes,   \* the sets of threads that die together
          Contents,    \* what the file may hold
          Ops,         \* the changes the code makes to it
          Apply,       \* Apply[o][c]: the content change o leaves of c
          Appends,     \* the changes written with open("a"), nothing read
          Does,        \* Does[t]: the changes thread t makes
          LockBeside,  \* the lock is a file of its own, never replaced
          MaxInode,    \* bound on the replacements of the lock file
          NoOp, Done,
          Nothing      \* a thread that has read nothing

ASSUME LockedFileAssumption ==
    /\ Apply \in [Ops -> [Contents -> Contents]]
    /\ Appends \subseteq Ops
    /\ Does \in [Threads -> SUBSET Ops]
    /\ Processes \subseteq SUBSET Threads
    /\ LockBeside \in BOOLEAN
    /\ MaxInode \in Nat
    /\ Nothing \notin Contents
    /\ NoOp \notin Ops /\ Done \notin Ops /\ Done # NoOp

VARIABLES content,   \* what the path holds
          inode,     \* the inode the lock's path names
          pc,        \* where thread t stands
          op,        \* the change t is making
          fd,        \* the inode of the lock t opened
          view       \* what t read

vars == <<content, inode, pc, op, fd, view>>

PCs == {"idle", "asked", "opened", "locked", "read", "written"}
Inside(t) == pc[t] \in {"locked", "read", "written"}

Init == /\ content \in Contents
        /\ inode = 0
        /\ pc = [t \in Threads |-> "idle"]
        /\ op = [t \in Threads |-> NoOp]
        /\ fd = [t \in Threads |-> 0]
        /\ view = [t \in Threads |-> Nothing]

Step(t, from, to) == pc[t] = from /\ pc' = [pc EXCEPT ![t] = to]

\* A thread enters append_record, apply_delta, delete_record, ...
Ask(t) == /\ Step(t, "idle", "asked")
          /\ \E o \in Does[t] : op' = [op EXCEPT ![t] = o]
          /\ UNCHANGED <<content, inode, fd, view>>

\* open(path, "a+") of the lock file.
Open(t) == /\ Step(t, "asked", "opened")
           /\ fd' = [fd EXCEPT ![t] = inode]
           /\ UNCHANGED <<content, inode, op, view>>

\* flock(LOCK_EX) returns: nobody holds the inode this thread has open.
Acquire(t) == /\ Step(t, "opened", "locked")
              /\ \A u \in Threads : Inside(u) => fd[u] # fd[t]
              /\ UNCHANGED <<content, inode, op, fd, view>>

\* A bug: a function called under the lock takes it again.
ReadNested(t) == /\ Step(t, "locked", "read")
                 /\ \A u \in Threads : Inside(u) => fd[u] # fd[t]
                 /\ view' = [view EXCEPT ![t] = content]
                 /\ UNCHANGED <<content, inode, op, fd>>
\* path.read_text, or json.load of the queue.
Read(t) == /\ Step(t, "locked", "read")
           /\ view' = [view EXCEPT ![t] = content]
           /\ UNCHANGED <<content, inode, op, fd>>

\* atomic_write's os.replace, or the append of a block.
Write(t) ==
    /\ Step(t, "read", "written")
    /\ content' = Apply[op[t]][IF op[t] \in Appends THEN content ELSE view[t]]
    /\ IF LockBeside \/ op[t] \in Appends
       THEN UNCHANGED inode
       ELSE inode < MaxInode /\ inode' = inode + 1
    /\ view' = [view EXCEPT ![t] = Nothing]
    /\ UNCHANGED <<op, fd>>

\* The finally of file_lock.
Release(t) == /\ Step(t, "written", "idle")
              /\ op' = [op EXCEPT ![t] = NoOp]
              /\ UNCHANGED <<content, inode, fd, view>>

\* A bug: the file is written in place, a death leaves part of it.
DiesWriting(p) ==
    /\ \E t \in p : pc[t] # "idle"
    /\ pc' = [t \in Threads |-> IF t \in p THEN "idle" ELSE pc[t]]
    /\ op' = [t \in Threads |-> IF t \in p THEN NoOp ELSE op[t]]
    /\ \/ (\E t \in p : pc[t] = "read") /\ content' \in Contents
       \/ UNCHANGED content
    /\ view' = [t \in Threads |-> IF t \in p THEN Nothing ELSE view[t]]
    /\ UNCHANGED <<inode, fd>>
\* A process ends anywhere; the kernel gives its locks back.
Dies(p) ==
    /\ \E t \in p : pc[t] # "idle"
    /\ pc' = [t \in Threads |-> IF t \in p THEN "idle" ELSE pc[t]]
    /\ op' = [t \in Threads |-> IF t \in p THEN NoOp ELSE op[t]]
    /\ view' = [t \in Threads |-> IF t \in p THEN Nothing ELSE view[t]]
    /\ UNCHANGED <<content, inode, fd>>

Work(t) == Open(t) \/ Acquire(t) \/ Read(t) \/ Write(t) \/ Release(t)

Next == \/ \E t \in Threads : Ask(t) \/ Work(t)
        \/ \E p \in Processes : Dies(p)

Spec == Init /\ [][Next]_vars

\* A thread that can go on does; who gets the lock among those waiting is
\* the kernel's choice, and nothing makes a thread ask.
Fairness == \A t \in Threads : WF_vars(Work(t))
FairSpec == Spec /\ Fairness
-----------------------------------------------------------------------------
TypeOK == /\ content \in Contents
          /\ inode \in 0 .. MaxInode
          /\ pc \in [Threads -> PCs]
          /\ op \in [Threads -> Ops \cup {NoOp}]
          /\ fd \in [Threads -> 0 .. MaxInode]
          /\ view \in [Threads -> Contents \cup {Nothing}]
          /\ \A t \in Threads : op[t] \in Ops <=> pc[t] # "idle"
          /\ \A t \in Threads : view[t] \in Contents <=> pc[t] = "read"

\* file_lock.py:19: the lock of a path is exclusive.  Of the threads that
\* open, replace and close the file in any order, and whose processes die
\* in any of these steps, at most one is past flock.
Exclusive == \A t, u \in Threads : Inside(t) /\ Inside(u) => t = u

\* A thread between its read and its write still has the current content.
ViewIsFresh == \A t \in Threads :
    pc[t] = "read" /\ op[t] \notin Appends => view[t] = content

\* Every change is atomic: the threads together do what one thread applying
\* the changes one after the other would do (journal.py:84-86, the reason
\* given for the lock: append_record and apply_delta run in two threads).
File == INSTANCE AtomicFile WITH
          pending <- [t \in Threads |-> IF pc[t] = "written" THEN Done
                                                            ELSE op[t]]
ImplementsAtomicFile == File!Spec

\* While a thread waits for the lock, some thread gets its change done, unless
\* processes die for ever: nobody holds the lock for ever and no two threads
\* wait for each other, whatever died with the lock before.
SomeoneGetsThrough ==
    <>[][\A p \in Processes : ~Dies(p)]_vars =>
        \A t \in Threads : pc[t] = "opened" ~>
            (pc[t] # "opened" \/ \E u \in Threads : pc[u] = "written")
=============================================================================
