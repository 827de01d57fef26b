---------------------------- MODULE StoreBackup ----------------------------
(***************************************************************************)
(* Backups of the composed stores (runtime/backup.py) while the runtime    *)
(* goes on writing: several attempts, in one process or several, at one    *)
(* destination, any of which may fail or die between two steps.            *)
(***************************************************************************)
EXTENDS SqlNull, Naturals

CONSTANTS
  Backups,      \* calls of create_backup
  MaxCommits    \* bound: transactions of the live stores

ASSUME BackupAssumption == MaxCommits \in Nat

VARIABLES
  live,          \* the live database: how many transactions it holds, and is it sound?
  destination,   \* the file at the destination, or NULL
  temporary,     \* the temporary file of each backup, or NULL
  progress,      \* how far each backup is
  since          \* the transactions that were live when a backup began

backupVars == <<live, destination, temporary, progress, since>>

Versions == 0..MaxCommits

\* A copy holds the transactions of one moment; any other file is not a copy of
\* anything: the one that was at the destination before, or one half written.
CopyOf(database) == [database EXCEPT !.kind = "copy"]
Earlier == [kind |-> "earlier", version |-> 0, sound |-> FALSE]
Partial == [kind |-> "partial", version |-> 0, sound |-> FALSE]

BackupsInit ==
  /\ live = [kind |-> "live", version |-> 0, sound |-> TRUE]
  /\ destination \in {NULL, Earlier}
  /\ temporary = [b \in Backups |-> NULL]
  /\ progress = [b \in Backups |-> "new"]
  /\ since = [b \in Backups |-> 0]

On(b, now, next) == progress[b] = now /\ progress' = [progress EXCEPT ![b] = next]

Holds(b, file) == temporary' = [temporary EXCEPT ![b] = file]

\* The health check and the checks of the two paths; a refusal changes nothing.
CheckBackup(b) ==
  /\ live.sound
  /\ On(b, "new", "checked")
  /\ since' = [since EXCEPT ![b] = live.version]
  /\ UNCHANGED <<live, destination, temporary>>

RefuseBackup(b) ==
  /\ On(b, "new", "refused")
  /\ UNCHANGED <<live, destination, temporary, since>>

CreateTemporary(b) ==
  /\ On(b, "checked", "empty")
  /\ Holds(b, Partial)
  /\ UNCHANGED <<live, destination, since>>

\* backup_to copies the transactions of one moment in one read transaction.
CopyStore(b) ==
  /\ On(b, "empty", "copied")
  /\ Holds(b, CopyOf(live))
  /\ UNCHANGED <<live, destination, since>>

\* Fault: the copy is taken as it is.
UnvalidatedIsValid(file) == TRUE

\* validate_backup.
Valid(file) == file.kind = "copy" /\ file.sound

ValidateCopy(b) ==
  /\ On(b, "copied", "valid")
  /\ Valid(temporary[b])
  /\ UNCHANGED <<live, destination, temporary, since>>

ReplaceDestination(b) ==
  /\ On(b, "valid", "done")
  /\ destination' = temporary[b]
  /\ Holds(b, NULL)
  /\ UNCHANGED <<live, since>>

\* Any step may raise; the temporary file is removed, unless that fails too or the
\* process has ended.
FailBackup(b) ==
  /\ progress[b] \in {"checked", "empty", "copied", "valid"}
  /\ \/ On(b, progress[b], "failed") /\ Holds(b, NULL)
     \/ On(b, progress[b], "uncleaned") /\ UNCHANGED temporary
  /\ UNCHANGED <<live, destination, since>>

\* The runtime (external to a backup): it writes on, and its file may be damaged.
CommitLive ==
  /\ live.version < MaxCommits
  /\ live' = [live EXCEPT !.version = @ + 1]
  /\ UNCHANGED <<destination, temporary, progress, since>>

DamageLive ==
  /\ live.sound
  /\ live' = [live EXCEPT !.sound = FALSE]
  /\ UNCHANGED <<destination, temporary, progress, since>>

BackupsNext ==
  \/ CommitLive \/ DamageLive
  \/ \E b \in Backups :
       \/ CheckBackup(b) \/ RefuseBackup(b) \/ CreateTemporary(b) \/ CopyStore(b)
       \/ ValidateCopy(b) \/ ReplaceDestination(b) \/ FailBackup(b)

BackupsSpec == BackupsInit /\ [][BackupsNext]_backupVars

-----------------------------------------------------------------------------
(* Properties *)

Files == [kind : {"copy"}, version : Versions, sound : BOOLEAN] \cup {Earlier, Partial}

BackupsTypeOK ==
  /\ live \in [kind : {"live"}, version : Versions, sound : BOOLEAN]
  /\ destination \in Files \cup {NULL}
  /\ temporary \in [Backups -> Files \cup {NULL}]
  /\ progress \in [Backups -> {"new", "refused", "checked", "empty", "copied", "valid", "done",
                               "failed", "uncleaned"}]
  /\ since \in [Backups -> Versions]

\* The destination always holds what it held before any backup or a sound copy of
\* one moment, whatever fails, dies or is damaged; once a backup is done, that copy is
\* no older than the beginning of one of those that are; and only a backup that died or could not
\* clean up leaves a temporary file.
DestinationIsWhole ==
  /\ destination \in {NULL, Earlier} \/ (destination.kind = "copy" /\ destination.sound)
  /\ (\E b \in Backups : progress[b] = "done") =>
       \E b \in Backups : progress[b] = "done" /\ destination.version >= since[b]
  /\ \A b \in Backups :
       progress[b] \in {"new", "refused", "done", "failed"} => temporary[b] = NULL
=============================================================================
