------------------------------- MODULE Backup -------------------------------
(***************************************************************************)
(* The weekly backup of the hub (server/hub/backup.py and deploy/          *)
(* backup.sh, which it runs as a child process): a snapshot file that is   *)
(* written bit by bit, the rotation of old snapshots, and the date that is *)
(* saved last.  One thread runs it; HubJobs says when.                     *)
(***************************************************************************)
EXTENDS Integers, Sequences

CONSTANTS
    Every,      \* BACKUP_INTERVAL_DAYS, in ticks
    Keep        \* snapshots the rotation leaves

VARIABLES
    dueIn,      \* .backup-state.json: ticks until the next backup is due
    shots,      \* the snapshot files, newest first: is it whole?
    job,        \* the child process, or what is left to do after it
    jobAge      \* ticks since the job began

Init ==
    /\ dueIn = 0
    /\ shots = <<>>
    /\ job = "none"
    /\ jobAge = 0

\* run_backup_if_due finds the last success too recent.
NotDue ==
    /\ job = "none"
    /\ dueIn > 0
    /\ UNCHANGED <<dueIn, shots, job, jobAge>>

\* A bug: every snapshot has the same file name.
StartTarOver ==
    /\ job = "none"
    /\ dueIn = 0
    /\ job' = "tar"
    /\ jobAge' = 0
    /\ shots' = <<FALSE>> \o SubSeq(shots, 2, Len(shots))
    /\ UNCHANGED dueIn
\* tar opens a new file; a file of an earlier failure stays where it is.
StartTar ==
    /\ job = "none"
    /\ dueIn = 0
    /\ job' = "tar"
    /\ jobAge' = 0
    /\ shots' = <<FALSE>> \o shots
    /\ UNCHANGED dueIn

\* A bug: the rotation keeps the oldest.
KeptOldest(files) ==
    IF Len(files) > Keep THEN SubSeq(files, Len(files) - Keep + 1, Len(files)) ELSE files
\* The KEEP newest files, whole or not.
Kept(files) == IF Len(files) > Keep THEN SubSeq(files, 1, Keep) ELSE files

\* tar exits 0, the script rotates.
FinishTar ==
    /\ job = "tar"
    /\ job' = "save"
    /\ shots' = Kept([shots EXCEPT ![1] = TRUE])
    /\ UNCHANGED <<dueIn, jobAge>>

\* tar exits with an error, for one because a file changed as it was read;
\* set -e leaves the file and skips the rotation.  The date stays as it was.
TarFails ==
    /\ job = "tar"
    /\ job' = "none"
    /\ jobAge' = 0
    /\ \E whole \in BOOLEAN : shots' = [shots EXCEPT ![1] = whole]
    /\ UNCHANGED dueIn

\* The date saved is the one the job began at.
SaveDate ==
    /\ job = "save"
    /\ job' = "none"
    /\ jobAge' = 0
    /\ dueIn' = Every - jobAge
    /\ UNCHANGED shots

\* The hub dies, its child with it.
Killed ==
    /\ job' = "none"
    /\ jobAge' = 0
    /\ UNCHANGED <<dueIn, shots>>

Pass ==
    /\ dueIn' = IF dueIn > 0 THEN dueIn - 1 ELSE 0
    /\ jobAge' = IF job # "none" /\ jobAge < Every THEN jobAge + 1 ELSE jobAge
    /\ UNCHANGED <<shots, job>>
=============================================================================
