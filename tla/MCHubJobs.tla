----------------------------- MODULE MCHubJobs ------------------------------
(***************************************************************************)
(* Constants of HubJobs for TLC: the weekly report next to the backup.     *)
(***************************************************************************)
EXTENDS HubJobs, TLC

CONSTANT weekly

WeeklyOnly == <<weekly>>
RetryOnce == [t \in Tasks |-> 1]
=============================================================================
