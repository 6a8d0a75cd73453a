----------------------------- MODULE MCHubStore -----------------------------
(***************************************************************************)
(* Constants of HubStore for TLC.                                          *)
(***************************************************************************)
EXTENDS HubStore, TLC

CONSTANTS a, b, c, x, y

\* a and c are written on day 0, b on the last day.
MCDateOf == a :> 0 @@ c :> 0 @@ b :> LastDay

Ax == [id |-> a, body |-> x]
Ay == [id |-> a, body |-> y]
Bx == [id |-> b, body |-> x]
Cx == [id |-> c, body |-> x]

Push(es, ds) == [kind |-> "push", entries |-> es, deletes |-> ds, after |-> NoToken]
Pull == [kind |-> "pull", entries |-> {}, deletes |-> {}, after |-> NoToken]
LongPoll(token) == [kind |-> "longpoll", entries |-> {}, deletes |-> {}, after |-> token]

EmptyFile == [entries |-> {}, tombs |-> {}]
HasAx == [entries |-> {Ax}, tombs |-> {}]

\* a from two devices of the same millisecond, a batch over two days, deletes
\* with the body the deleting device knows, an entry and its own delete.
MCRequests == {Push({Ax}, {}), Push({Ay, Cx}, {}), Push({Ax, Bx}, {}),
               Push({Bx}, {Ay}), Push({Cx}, {Ax, Cx}), Push({}, {Bx}),
               LongPoll(EmptyFile), LongPoll(HasAx), Pull}

\* Fewer, for the run in which midnight and crashes may come anywhere.
MCRaceRequests == {Push({Ax}, {}), Push({Ay, Cx}, {}), Push({Cx}, {Ax, Cx}),
                   Push({Bx}, {Ay}), LongPoll(HasAx)}
=============================================================================
