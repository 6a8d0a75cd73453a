------------------------------- MODULE DayBook -------------------------------
(***************************************************************************)
(* What the hub promises about the file of one day: records come and go    *)
(* one request at a time, under the header that is there; the summary is   *)
(* put in after the day, over records that do not change in that step, and *)
(* tells of exactly those; only an import replaces the file, and only a    *)
(* file without any record is ever removed.                                *)
(***************************************************************************)
EXTENDS DayFile

CONSTANTS Batches,   \* the sets of records a request carries
          Imports    \* the files somebody may import

VARIABLES past,      \* is the day over?
          file       \* the day file

vars == <<past, file>>

Missing == [exists |-> FALSE, entries |-> {}, tombs |-> {}, head |-> "default", of |-> {}]

Init == /\ past = FALSE
        /\ file \in Imports \cup {Missing}

Enter(B) == file' = [WithEntries(file, B) EXCEPT !.exists = TRUE]
Erase(B) == file' = [WithDeletes(file, B) EXCEPT !.exists = TRUE]
Summarise == /\ past /\ file.exists
             /\ file.head # "absent"
             /\ file' = [file EXCEPT !.head = "summary", !.of = file.entries]
Import(f) == file' = f
Remove == /\ file.entries = {} /\ file.tombs = {}
          /\ file' = Missing

NextDay == past' = TRUE /\ UNCHANGED file

Next == \/ NextDay
        \/ /\ UNCHANGED past
           /\ \/ \E B \in Batches : Enter(B) \/ Erase(B)
              \/ \E f \in Imports : Import(f)
              \/ Summarise \/ Remove

Spec == Init /\ [][Next]_vars
=============================================================================
