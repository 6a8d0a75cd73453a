---------------------------- MODULE MCDiarySync -----------------------------
(***************************************************************************)
(* Constants of DiarySync for TLC.                                         *)
(***************************************************************************)
EXTENDS DiarySync, TLC

CONSTANTS p, q, x

R(i, t) == [id |-> i, body |-> t]

\* All ids are of one day.
OneDay == [i \in Ids |-> 0]
\* Only p writes, either device may delete.
OneWriter == {<<p, R(1, x)>>}
\* p writes twice.
TwoByP == {<<p, R(1, x)>>, <<p, R(2, x)>>}
\* Who deletes what: all of it, q alone, or q all and p the second.
ByAll == Devices \X Ids
OnlyQ == {q} \X Ids
ByAllButOne == ByAll \ {<<p, 1>>}
\* The first record alone, as some older copy of its day has it.
OldCopy == {[entries |-> {R(1, x)}, tombs |-> {}, head |-> "default"]}
\* Two days, a record on each.
LastIdLastDay == [i \in Ids |-> IF i = 2 THEN LastDay ELSE 0]
=============================================================================
