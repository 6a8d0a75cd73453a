---------------------------- MODULE MCAutomation ----------------------------
(***************************************************************************)
(* Constants of Automation for TLC.                                        *)
(***************************************************************************)
EXTENDS Automation, TLC

CONSTANTS daily, weekly

BothTasks == <<daily, weekly>>
DailyOnce == [t \in Tasks |-> IF t = daily THEN 0 ELSE 1]
=============================================================================
