----------------------------- MODULE MCLockedFile ----------------------------
(* A day file of a device: the input thread writes, deletes and syncs, the *)
(* poll thread merges answers of the hub, a second client process of the   *)
(* same user deletes.                                                      *)
EXTENDS LockedFile, DayFile

CONSTANTS input, poll, other

MCThreads == {input, poll, other}
MCProcesses == {{input, poll}, {other}}

R(id) == [id |-> id, body |-> "a"]
Answer(es, ts) == [entries |-> es, tombs |-> ts]

MCContents == [entries : SUBSET {R(1), R(2)}, tombs : SUBSET {1, 2}]
MCOps == [do : {"append", "delete"}, id : {1, 2}]
         \cup [do : {"merge"}, answer : {Answer({R(1)}, {}), Answer({R(2)}, {1})}]
MCAppends == [do : {"append"}, id : {1, 2}]

MCApply == [o \in MCOps |-> [c \in MCContents |->
    CASE o.do = "append" -> [c EXCEPT !.entries = @ \cup {R(o.id)}]
      [] o.do = "delete" -> IF o.id \in IdsOf(c.entries)
                            THEN WithDeletes(c, {R(o.id)}) ELSE c
      [] o.do = "merge"  -> Merged(c, o.answer)]]

MCDoes == [t \in MCThreads |->
    {o \in MCOps : CASE t = input -> TRUE
                     [] t = poll  -> o.do = "merge"
                     [] t = other -> o.do = "delete"}]
=============================================================================
