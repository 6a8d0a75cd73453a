------------------------------- MODULE DayLog -------------------------------
(***************************************************************************)
(* What the hub promises about the diary, whatever the devices send and    *)
(* whenever midnight falls: one log per day, of which only the current     *)
(* day's may change, and that of the day before by the one write that was  *)
(* under way at midnight; an entry's body is never replaced; an entry      *)
(* leaves the log only by a tombstone; a tombstone stays.  The owner may   *)
(* import another log in place of a finished one.                          *)
(***************************************************************************)
EXTENDS Integers

CONSTANTS Ids,      \* entry ids (millisecond timestamps)
          Bodies,   \* what a record may say
          LastDay,  \* bound on the days explored
          Imports   \* the logs that may be imported

Days == 0 .. LastDay
Record == [id : Ids, body : Bodies]

VARIABLES day,      \* the current day, UTC+8
          live,     \* live[d]: the entries of day d
          dead,     \* dead[d]: the ids tombstoned on day d
          late      \* the finished days a write is still under way for

vars == <<day, live, dead, late>>

Init == /\ day \in Days
        /\ live = [d \in Days |-> {}]
        /\ dead = [d \in Days |-> {}]
        /\ late = {}

IdsOf(records) == {r.id : r \in records}

\* One atomic change of the log of day d.
Change(d) == \E records \in SUBSET Record, ids \in SUBSET Ids :
    /\ dead[d] \subseteq ids
    /\ \A r \in live[d] : r \in records \/ r.id \in ids
    /\ \A r \in records : r.id \notin ids
    /\ \A r, q \in records : r.id = q.id => r = q
    /\ live' = [live EXCEPT ![d] = records]
    /\ dead' = [dead EXCEPT ![d] = ids]

Write == Change(day) /\ UNCHANGED <<day, late>>

\* The write of before midnight lands, or comes to nothing.
WriteLate == \E d \in late : Change(d) /\ late' = {} /\ UNCHANGED day
GiveUp == late # {} /\ late' = {} /\ UNCHANGED <<day, live, dead>>

\* Of all writers one at most is under way when the day changes.
NextDay == /\ day < LastDay
           /\ day' = day + 1
           /\ \/ UNCHANGED late
              \/ late = {} /\ late' = {day}
           /\ UNCHANGED <<live, dead>>

Import == \E d \in Days, log \in Imports :
    /\ d < day
    /\ live' = [live EXCEPT ![d] = log.entries]
    /\ dead' = [dead EXCEPT ![d] = log.tombs]
    /\ UNCHANGED <<day, late>>

Next == Write \/ WriteLate \/ GiveUp \/ NextDay \/ Import

Spec == Init /\ [][Next]_vars
=============================================================================
