------------------------------ MODULE AtomicFile -----------------------------
(***************************************************************************)
(* What file_lock promises the code that works on one file under it: each  *)
(* change a thread asks for takes effect at one instant, on the content    *)
(* that is there at that instant, or not at all when its process dies      *)
(* first.                                                                  *)
(***************************************************************************)
CONSTANTS Threads,
          Processes,   \* the sets of threads that die together
          Contents,
          Ops,
          Apply,       \* Apply[o][c]: the change o makes to c
          NoOp, Done   \* no change asked for; the change is made

VARIABLES content,   \* what the file holds
          pending    \* pending[t]: the change t asked for, Done or NoOp

vars == <<content, pending>>

Init == /\ content \in Contents
        /\ pending = [t \in Threads |-> NoOp]

Ask(t) == /\ pending[t] = NoOp
          /\ \E o \in Ops : pending' = [pending EXCEPT ![t] = o]
          /\ UNCHANGED content

Run(t) == /\ pending[t] \in Ops
          /\ content' = Apply[pending[t]][content]
          /\ pending' = [pending EXCEPT ![t] = Done]

Return(t) == /\ pending[t] = Done
             /\ pending' = [pending EXCEPT ![t] = NoOp]
             /\ UNCHANGED content

Abort(p) == /\ pending' = [t \in Threads |-> IF t \in p THEN NoOp ELSE pending[t]]
            /\ UNCHANGED content

Next == \/ \E t \in Threads : Ask(t) \/ Run(t) \/ Return(t)
        \/ \E p \in Processes : Abort(p)

Spec == Init /\ [][Next]_vars
=============================================================================
