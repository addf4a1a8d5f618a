-------------------------------- MODULE Backup --------------------------------
(***************************************************************************)
(* The nightly dump, its verification and retention, dumps taken by hand,  *)
(* restores, and crashes between any two commands of the script.           *)
(*                                                                         *)
(* A file is named after the second its dump was begun in; no two dumps    *)
(* are begun in one second, so here they are numbered.  A run takes less   *)
(* than a day.  pg_dump, mv, pg_restore and find are external: each of     *)
(* them may fail, whatever the file is like, and the process may die at    *)
(* any point.                                                              *)
(*                                                                         *)
(* Sources: src/deploy/backup.sh, src/deploy/restore.sh                    *)
(***************************************************************************)
EXTENDS Integers

CONSTANTS
    Runs,      \* the loop, and runs by hand with --once
    KeepDays,  \* BACKUP_KEEP_DAYS
    MaxDay,    \* bound on time
    MaxDumps   \* bound on the dumps begun

\* What is assumed of the constants; MCRecords has it checked.
BackupAssumption == KeepDays \in Nat /\ MaxDay \in Nat /\ MaxDumps \in Nat

VARIABLES
    day,
    begun,     \* the number of dumps begun
    database,  \* is it whole, being restored, or what a failed restore left
    files,     \* the contents of BACKUP_DIR
    run        \* where each run of the script is, and of what it took its dump

backupVars == <<day, begun, database, files, run>>

\* of: the database when pg_dump took its snapshot; done: pg_dump came to its
\* end; sound: pg_restore --list can read the file.
File == [no: 1 .. MaxDumps, day: 0 .. MaxDay, name: {"part", "dump"},
         of: {"whole", "partial"}, done: BOOLEAN, sound: BOOLEAN]

Run == [at: {"asleep", "dumping", "verifying", "pruning"},
        no: 0 .. MaxDumps, of: {"whole", "partial"}]

BackupTypeOK ==
    /\ day \in 0 .. MaxDay
    /\ begun \in 0 .. MaxDumps
    /\ database \in {"whole", "restoring", "broken"}
    /\ files \subseteq File
    /\ run \in [Runs -> Run]

\* What restore.sh lists.
Offered == {f \in files : f.name = "dump"}

InitBackup ==
    /\ day = 0
    /\ begun = 0
    /\ database = "whole"
    /\ files = {}
    /\ run = [r \in Runs |-> [at |-> "asleep", no |-> 0, of |-> "whole"]]

-----------------------------------------------------------------------------
(* take_backup, one command at a time *)

Goes(r, from, to) ==
    /\ run[r].at = from
    /\ run' = [run EXCEPT ![r].at = to]
    /\ UNCHANGED <<day, begun, database>>

Target(r, sound) == [no |-> run[r].no, day |-> day, name |-> "dump", of |-> run[r].of,
                     done |-> TRUE, sound |-> sound]

PartName_InPlace == "dump"
PartName == "part"
Part(no, of) == [no |-> no, day |-> day, name |-> PartName, of |-> of,
                 done |-> FALSE, sound |-> FALSE]

\* The name, to the second
Stamp == begun + 1

StartDump(r) ==
    LET of == IF database = "whole" THEN "whole" ELSE "partial" IN
    /\ run[r].at = "asleep"
    /\ begun < MaxDumps
    /\ begun' = begun + 1
    /\ run' = [run EXCEPT ![r] = [at |-> "dumping", no |-> Stamp, of |-> of]]
    /\ files' = files \cup {Part(Stamp, of)}
    /\ UNCHANGED <<day, database>>

\* pg_dump reports success, and the file gets its name.
Rename(r) ==
    /\ Goes(r, "dumping", "verifying")
    /\ \E sound \in BOOLEAN :
          files' = (files \ {Part(run[r].no, run[r].of)}) \cup {Target(r, sound)}

\* mv fails.  In the loop, where take_backup is called on the left of a ||, set -e
\* is off: the script goes on to verify a file that is not there.  By hand it ends,
\* as in Crash.
RenameFails(r) ==
    /\ Goes(r, "dumping", "verifying")
    /\ UNCHANGED files

DumpFails(r) ==
    /\ Goes(r, "dumping", "asleep")
    /\ files' = files \ {Part(run[r].no, run[r].of)}

Verify(r) ==
    /\ Target(r, TRUE) \in files
    /\ Goes(r, "verifying", "pruning")
    /\ UNCHANGED files

\* pg_restore --list fails, because the file is not sound or for a reason of its
\* own, and the file is removed, if it is there.
VerifyFails(r) ==
    /\ Goes(r, "verifying", "asleep")
    /\ files' = files \ {Target(r, sound) : sound \in BOOLEAN}

PruneFrom_Unverified == "verifying"
PruneFrom == "pruning"
\* find -mtime +KEEP_DAYS -delete, which may delete a part of what it looks for
Prune(r) ==
    /\ Goes(r, PruneFrom, "asleep")
    /\ \E deleted \in SUBSET {f \in files : f.name = "dump" /\ day - f.day > KeepDays} :
          files' = files \ deleted

\* The process or the machine dies; what is on the disk stays.
Crash(r) ==
    /\ run[r].at # "asleep"
    /\ run' = [run EXCEPT ![r].at = "asleep"]
    /\ UNCHANGED <<day, begun, database, files>>

NextDay ==
    /\ day < MaxDay
    /\ \A r \in Runs : run[r].at = "asleep"
    /\ day' = day + 1
    /\ UNCHANGED <<begun, database, files, run>>

-----------------------------------------------------------------------------
(* restore.sh: objects are dropped and created one by one; nobody stops the *)
(* loop meanwhile. *)

Good(f) == f.name = "dump" /\ f.done /\ f.sound /\ f.of = "whole"

BeginRestore(f) ==
    /\ database' = IF Good(f) THEN "restoring" ELSE "broken"
    /\ UNCHANGED <<day, begun, files, run>>

EndRestore ==
    /\ database = "restoring"
    /\ database' \in {"whole", "broken"}
    /\ UNCHANGED <<day, begun, files, run>>

NextBackup ==
    \/ \E r \in Runs :
          \/ StartDump(r) \/ Rename(r) \/ RenameFails(r) \/ DumpFails(r)
          \/ Verify(r) \/ VerifyFails(r) \/ Prune(r) \/ Crash(r)
    \/ NextDay
    \/ \E f \in Offered : BeginRestore(f)
    \/ EndRestore

SpecBackup == InitBackup /\ [][NextBackup]_backupVars

-----------------------------------------------------------------------------
(* Properties *)

\* "A dump interrupted half-way can never be mistaken for a complete one":
\* wherever a run is cut off, what restore.sh offers was written to its end.
OfferedAreFinished == \A f \in Offered : f.done

\* A good dump that no run is about to remove should pg_restore fail on it: a
\* dump is held for good once it was verified, or its run was cut off before that.
Settled(f) ==
    /\ Good(f)
    /\ \A r \in Runs : run[r].at = "verifying" => run[r].no # f.no

Held == \E f \in files : Settled(f)

\* "A run of failures can never delete the last good backup along the way": once a
\* good dump is held one is held after every step, whatever fails, crashes or runs at
\* the same time.  There is one way out: the retention trusts any dump that pg_restore
\* can list, and deletes the last good one when its own run took a dump of a database
\* in the middle of a restore, or left behind by one that failed.
LastGoodIsKept ==
    [][Held => \/ Held'
               \/ \E r \in Runs : /\ run[r].at = "pruning" /\ run[r].of = "partial"
                                  /\ run'[r] # run[r]]_backupVars

==============================================================================
