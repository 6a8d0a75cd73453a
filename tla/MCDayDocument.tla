---------------------------- MODULE MCDayDocument ----------------------------
(* Constants of DayDocument for TLC: two requests of one or two records.   *)
EXTENDS DayDocument

CONSTANTS h1, h2

R(i) == [id |-> i, body |-> "x"]
MCBatches == {{R(1)}, {R(1), R(2)}, {R(3)}}

\* A file of an older program without a region, and an empty placeholder.
Imported(es, head) ==
    [exists |-> TRUE, entries |-> es, tombs |-> {}, head |-> head, of |-> {}]
MCImports == {Imported({R(2)}, "absent"), Imported({}, "default"),
              Imported({R(1)}, "foreign")}
=============================================================================
