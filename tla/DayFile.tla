------------------------------- MODULE DayFile ------------------------------
(***************************************************************************)
(* What is done to the blocks of one day file: by the hub when it merges a *)
(* push (store.py), by a device when it writes, deletes and merges an      *)
(* answer (client/journal.py).  A file is its entry blocks, its tombstone  *)
(* blocks and its header, of which only counts whether the day's summary   *)
(* is in it; block order is left out.                                      *)
(***************************************************************************)
EXTENDS Integers

EmptyFile == [entries |-> {}, tombs |-> {}, head |-> "default"]

IdsOf(records) == {r.id : r \in records}
Known(file) == IdsOf(file.entries) \cup file.tombs

\* Store.append_entries: only ids the file does not know are added.
WithEntries(file, records) ==
    [file EXCEPT !.entries = @ \cup {r \in records : r.id \notin Known(file)}]

\* A bug: the block goes and leaves no tombstone.
BlockOutOnly(file, records) ==
    [file EXCEPT !.entries = {r \in @ : r.id \notin IdsOf(records)}]
\* Store.apply_deletes and journal.delete_record: block out, tombstone in.
WithDeletes(file, records) ==
    LET fresh == IdsOf(records) \ file.tombs
    IN  [file EXCEPT !.entries = {r \in @ : r.id \notin fresh},
                     !.tombs   = @ \cup fresh]

\* The bodies that go to the trash: the file's own, else the one sent along.
BodiesOf(file, records) ==
    LET fresh == {r \in records : r.id \notin file.tombs}
    IN  {r \in file.entries : r.id \in IdsOf(fresh)}
        \cup {r \in fresh : r.id \notin IdsOf(file.entries)}

\* Bugs: the answer's tombstones stay unwritten; the device's own tombstones are
\* not looked at.
MergedEntries(file, answer) ==
    [file EXCEPT !.entries = {r \in @ : r.id \notin IdsOf(answer.entries)} \cup answer.entries]
MergedOverTombs(file, answer) ==
    [file EXCEPT !.entries = {r \in @ : r.id \notin IdsOf(answer.entries) \cup answer.tombs}
                             \cup answer.entries,
                 !.tombs   = @ \cup answer.tombs]
\* journal.apply_delta: the hub's block wins, but never over a local
\* tombstone; the hub's tombstones take local blocks out.
Merged(file, answer) ==
    LET fresh == answer.tombs \ file.tombs
        won   == {r \in answer.entries : r.id \notin file.tombs}
    IN  [file EXCEPT !.entries = {r \in @ : r.id \notin fresh \cup IdsOf(won)}
                                 \cup {r \in won : r.id \notin fresh},
                     !.tombs   = @ \cup fresh]

\* The local bodies apply_delta moves to the local trash.
Displaced(file, answer) ==
    {r \in file.entries : r.id \in answer.tombs \ file.tombs}

\* A bug: the trash file is written anew.
TrashRewritten(bin, records) == IF records = {} THEN bin ELSE records
\* Both trash files keep the first body they saw of an id.
WithTrash(bin, records) == bin \cup {r \in records : r.id \notin IdsOf(bin)}
=============================================================================
