----------------------------- MODULE BackupProofs -----------------------------
(***************************************************************************)
(* Proofs about Backup, for any number of runs of the script, of dumps and *)
(* of days kept.                                                           *)
(***************************************************************************)
EXTENDS Backup, TLAPS

\* Dumps are numbered as they are begun, and no two runs write one dump.
Numbers ==
    /\ \A f \in files : f.no <= begun
    /\ \A r \in Runs : run[r].at # "asleep" => run[r].no \in 1 .. begun
    /\ \A r, s \in Runs :
          r # s /\ run[r].at # "asleep" /\ run[s].at # "asleep" => run[r].no # run[s].no

\* A run that is still dumping has no dump on the disk, and one that came as far
\* as pruning has its own verified dump of today there.
RunsHaveDumps ==
    \A r \in Runs :
        /\ run[r].at = "dumping" => \A f \in Offered : f.no # run[r].no
        /\ run[r].at = "pruning" => Target(r, TRUE) \in files

Inv == BackupTypeOK /\ OfferedAreFinished /\ Numbers /\ RunsHaveDumps

\* What a run's dump is called, before and after it is complete.
LEMMA Names ==
    ASSUME NEW r \in Runs, NEW sound \in BOOLEAN
    PROVE  /\ Target(r, sound).name = "dump" /\ Target(r, sound).done
           /\ Target(r, sound).sound = sound /\ Target(r, sound).day = day
           /\ Target(r, sound).of = run[r].of /\ Target(r, sound).no = run[r].no
BY DEF Target

LEMMA PartNames ==
    ASSUME NEW no, NEW of
    PROVE  Part(no, of).name = "part" /\ Part(no, of).no = no
BY DEF Part, PartName

\* What moving on does to the runs.
LEMMA GoesOn ==
    ASSUME BackupAssumption, Inv, NEW r \in Runs, NEW from \in {"dumping", "verifying", "pruning"},
           NEW to \in {"asleep", "verifying", "pruning"}, Goes(r, from, to)
    PROVE  /\ day' = day /\ begun' = begun /\ database' = database
           /\ run' \in [Runs -> Run] /\ run[r].at = from
           /\ run'[r].at = to /\ run'[r].no = run[r].no /\ run'[r].of = run[r].of
           /\ \A s \in Runs : s # r => run'[s] = run[s]
           /\ run[r].no \in 1 .. begun /\ begun \in 0 .. MaxDumps
           /\ \A sound \in BOOLEAN : Target(r, sound) \in File
<1>1. /\ BackupTypeOK /\ Numbers /\ run[r].at = from /\ run' = [run EXCEPT ![r].at = to]
      /\ UNCHANGED <<day, begun, database>>
  BY DEF Goes, Inv
<1>2. run[r].no \in 1 .. begun
  BY <1>1 DEF Numbers
<1>3. run[r].no \in 1 .. MaxDumps
  BY <1>1, <1>2 DEF BackupTypeOK, BackupAssumption
<1>4. run'[r].at = to /\ run'[r].no = run[r].no /\ run'[r].of = run[r].of
  BY <1>1 DEF BackupTypeOK, Run
<1>5. run' \in [Runs -> Run] /\ \A s \in Runs : s # r => run'[s] = run[s]
  BY <1>1 DEF BackupTypeOK, Run
<1>6. \A sound \in BOOLEAN : Target(r, sound) \in File
  BY <1>1, <1>3 DEF BackupTypeOK, Run, Target, File
<1> QED BY <1>1, <1>2, <1>4, <1>5, <1>6 DEF BackupTypeOK

\* Files may come and go, as long as no number is new, every run that prunes keeps
\* its dump, and none that is dumping has one.
LEMMA FilesChange ==
    ASSUME BackupAssumption, Inv, NEW r \in Runs, NEW from \in {"dumping", "verifying", "pruning"},
           NEW to \in {"asleep", "verifying", "pruning"}, Goes(r, from, to),
           files' \subseteq File,
           \A f \in files' \ files : f.done /\ f.no = run[r].no,
           \A s \in Runs : s # r /\ run[s].at = "pruning" => Target(s, TRUE) \in files',
           to = "pruning" => Target(r, TRUE) \in files'
    PROVE  Inv'
<1>1. /\ day' = day /\ begun' = begun /\ database' = database
      /\ run' \in [Runs -> Run] /\ run[r].at = from
      /\ run'[r].at = to /\ run'[r].no = run[r].no /\ run'[r].of = run[r].of
      /\ \A s \in Runs : s # r => run'[s] = run[s]
      /\ run[r].no \in 1 .. begun /\ begun \in 0 .. MaxDumps
  BY GoesOn
<1>2. BackupTypeOK'
  BY <1>1 DEF Inv, BackupTypeOK
<1>3. OfferedAreFinished'
  BY DEF Inv, OfferedAreFinished, Offered
<1>4. \A f \in files' : f.no <= begun
  BY <1>1 DEF Inv, Numbers
<1>5. \A s \in Runs : /\ run'[s].no = run[s].no
                      /\ run'[s].at # "asleep" => run[s].at # "asleep"
  BY <1>1
<1>6. Numbers'
  BY <1>1, <1>4, <1>5 DEF Inv, Numbers
<1>7. ASSUME NEW s \in Runs
      PROVE  /\ run'[s].at = "dumping" => \A f \in Offered' : f.no # run'[s].no
             /\ run'[s].at = "pruning" => Target(s, TRUE)' \in files'
  <2>1. Target(s, TRUE)' = Target(s, TRUE)
    BY <1>1 DEF Target
  <2>2. CASE s = r
    BY <1>1, <2>1, <2>2
  <2>3. CASE s # r
    <3>1. run'[s] = run[s] /\ run[r].at # "asleep"
      BY <1>1, <2>3
    <3>2. run[s].at = "dumping" => \A f \in Offered' : f.no # run[s].no
      BY <2>3, <3>1 DEF Inv, Numbers, RunsHaveDumps, Offered
    <3> QED BY <2>1, <2>3, <3>1, <3>2
  <2> QED BY <2>2, <2>3
<1>8. RunsHaveDumps'
  BY <1>7 DEF RunsHaveDumps
<1> QED BY <1>2, <1>3, <1>6, <1>8 DEF Inv

LEMMA StartDumpStep ==
    ASSUME BackupAssumption, Inv, NEW r \in Runs, StartDump(r)
    PROVE  Inv'
<1> DEFINE of == IF database = "whole" THEN "whole" ELSE "partial"
           taken == [at |-> "dumping", no |-> Stamp, of |-> of]
<1>1. /\ run' = [run EXCEPT ![r] = taken] /\ files' = files \cup {Part(Stamp, of)}
      /\ day' = day /\ database' = database /\ begun' = begun + 1 /\ begun < MaxDumps
      /\ BackupTypeOK /\ run[r].at = "asleep"
  BY DEF StartDump, Inv
<1>2. Stamp \in 1 .. MaxDumps /\ Stamp = begun' /\ begun \in Nat /\ begun' \in 0 .. MaxDumps
  BY <1>1 DEF Stamp, BackupTypeOK, BackupAssumption
<1>3. /\ taken \in Run /\ Part(Stamp, of) \in File
      /\ Part(Stamp, of).name = "part" /\ Part(Stamp, of).no = Stamp
  BY <1>1, <1>2 DEF Run, Part, PartName, File, BackupTypeOK, BackupAssumption
<1>4. run'[r] = taken /\ \A s \in Runs : s # r => run'[s] = run[s]
  BY <1>1 DEF BackupTypeOK
<1>5. BackupTypeOK'
  BY <1>1, <1>2, <1>3 DEF BackupTypeOK
<1>6. OfferedAreFinished' /\ Offered' = Offered
  BY <1>1, <1>3 DEF Inv, OfferedAreFinished, Offered
<1>7. \A f \in files : f.no \in Int /\ f.no <= begun
  BY <1>1 DEF Inv, Numbers, BackupTypeOK, File
<1>8. Numbers'
  <2>1. \A f \in files' : f.no <= begun'
    BY <1>1, <1>2, <1>3, <1>7
  <2>2. \A s \in Runs : s # r /\ run'[s].at # "asleep" => run'[s].no \in 1 .. begun
    BY <1>4 DEF Inv, Numbers
  <2>3. run'[r].no = begun + 1
    BY <1>1, <1>2, <1>4
  <2>4. \A s \in Runs : run'[s].at # "asleep" => run'[s].no \in 1 .. begun'
    BY <1>1, <1>2, <2>2, <2>3
  <2>5. ASSUME NEW s \in Runs, NEW t \in Runs, s # t,
               run'[s].at # "asleep", run'[t].at # "asleep"
        PROVE  run'[s].no # run'[t].no
    <3>1. CASE s = r
      BY <1>2, <2>2, <2>3, <2>5, <3>1
    <3>2. CASE t = r
      BY <1>2, <2>2, <2>3, <2>5, <3>2
    <3>3. CASE s # r /\ t # r
      BY <1>4, <2>5, <3>3 DEF Inv, Numbers
    <3> QED BY <3>1, <3>2, <3>3
  <2> QED BY <2>1, <2>4, <2>5 DEF Numbers
<1>9. RunsHaveDumps'
  <2>1. ASSUME NEW s \in Runs, s # r
        PROVE  /\ run'[s].at = "dumping" => \A f \in Offered' : f.no # run'[s].no
               /\ run'[s].at = "pruning" => Target(s, TRUE)' \in files'
    BY <1>1, <1>4, <1>6, <2>1 DEF Inv, RunsHaveDumps, Target
  <2>2. run'[r].at = "dumping" /\ run'[r].no = Stamp
    BY <1>4
  <2>3. \A f \in Offered' : f.no # Stamp
    BY <1>1, <1>2, <1>6, <1>7 DEF Offered
  <2> QED BY <2>1, <2>2, <2>3 DEF RunsHaveDumps
<1> QED BY <1>5, <1>6, <1>8, <1>9 DEF Inv

\* No run's verified dump is another's file.
LEMMA Apart ==
    ASSUME BackupAssumption, Inv, NEW r \in Runs, run[r].at # "asleep",
           NEW s \in Runs, run[s].at = "pruning", s # r
    PROVE  Target(s, TRUE).no # run[r].no
<1>1. Target(s, TRUE).no = run[s].no
  BY Names
<1> QED BY <1>1 DEF Inv, Numbers

LEMMA RenameStep ==
    ASSUME BackupAssumption, Inv, NEW r \in Runs, Rename(r)
    PROVE  Inv'
<1>1. Goes(r, "dumping", "verifying")
  BY DEF Rename
<1>2. PICK sound \in BOOLEAN :
          files' = (files \ {Part(run[r].no, run[r].of)}) \cup {Target(r, sound)}
  BY DEF Rename
<1>3. ASSUME NEW s \in Runs, s # r, run[s].at = "pruning"
      PROVE  Target(s, TRUE) \in files'
  <2>1. Target(s, TRUE) \in files /\ Target(s, TRUE).name = "dump"
    BY <1>3, Names DEF Inv, RunsHaveDumps
  <2>2. Part(run[r].no, run[r].of).name = "part"
    BY PartNames
  <2> QED BY <1>2, <2>1, <2>2
<1>4. Target(r, sound) \in File /\ Target(r, sound).done /\ Target(r, sound).no = run[r].no
  BY <1>1, GoesOn, Names
<1>5. files' \subseteq File /\ \A f \in files' \ files : f.done /\ f.no = run[r].no
  BY <1>2, <1>4 DEF Inv, BackupTypeOK
<1> QED BY <1>1, <1>3, <1>5, FilesChange

LEMMA RenameFailsStep ==
    ASSUME BackupAssumption, Inv, NEW r \in Runs, RenameFails(r)
    PROVE  Inv'
<1>1. Goes(r, "dumping", "verifying") /\ files' = files
  BY DEF RenameFails
<1>2. files' \subseteq File
  BY <1>1 DEF Inv, BackupTypeOK
<1> QED BY <1>1, <1>2, FilesChange DEF Inv, RunsHaveDumps

LEMMA DumpFailsStep ==
    ASSUME BackupAssumption, Inv, NEW r \in Runs, DumpFails(r)
    PROVE  Inv'
<1>1. Goes(r, "dumping", "asleep") /\ files' = files \ {Part(run[r].no, run[r].of)}
  BY DEF DumpFails
<1>2. ASSUME NEW s \in Runs, s # r, run[s].at = "pruning"
      PROVE  Target(s, TRUE) \in files'
  <2>1. Target(s, TRUE) \in files /\ Target(s, TRUE).name = "dump"
    BY <1>2, Names DEF Inv, RunsHaveDumps
  <2>2. Part(run[r].no, run[r].of).name = "part"
    BY PartNames
  <2> QED BY <1>1, <2>1, <2>2
<1>3. files' \subseteq File /\ files' \ files = {}
  BY <1>1 DEF Inv, BackupTypeOK
<1> QED BY <1>1, <1>2, <1>3, FilesChange

LEMMA VerifyStep ==
    ASSUME BackupAssumption, Inv, NEW r \in Runs, Verify(r)
    PROVE  Inv'
<1>1. Goes(r, "verifying", "pruning") /\ files' = files /\ Target(r, TRUE) \in files
  BY DEF Verify
<1>2. files' \subseteq File
  BY <1>1 DEF Inv, BackupTypeOK
<1> QED BY <1>1, <1>2, FilesChange DEF Inv, RunsHaveDumps

LEMMA VerifyFailsStep ==
    ASSUME BackupAssumption, Inv, NEW r \in Runs, VerifyFails(r)
    PROVE  Inv'
<1>1. /\ Goes(r, "verifying", "asleep") /\ run[r].at = "verifying"
      /\ files' = files \ {Target(r, sound) : sound \in BOOLEAN}
  BY DEF VerifyFails, Goes
<1>2. ASSUME NEW s \in Runs, s # r, run[s].at = "pruning"
      PROVE  Target(s, TRUE) \in files'
  <2>1. Target(s, TRUE) \in files
    BY <1>2 DEF Inv, RunsHaveDumps
  <2>2. Target(s, TRUE).no # run[r].no
    BY <1>1, <1>2, Apart
  <2>3. \A sound \in BOOLEAN : Target(r, sound) # Target(s, TRUE)
    BY <2>2, Names
  <2> QED BY <1>1, <2>1, <2>3
<1>3. files' \subseteq File /\ files' \ files = {}
  BY <1>1 DEF Inv, BackupTypeOK
<1> QED BY <1>1, <1>2, <1>3, FilesChange

LEMMA PruneStep ==
    ASSUME BackupAssumption, Inv, NEW r \in Runs, Prune(r)
    PROVE  Inv'
<1>1. Goes(r, "pruning", "asleep")
  BY DEF Prune, PruneFrom
<1>2. PICK deleted \in SUBSET {f \in files : f.name = "dump" /\ day - f.day > KeepDays} :
          files' = files \ deleted
  BY DEF Prune
<1>3. ~ day - day > KeepDays
  BY DEF BackupAssumption, Inv, BackupTypeOK
<1>4. ASSUME NEW s \in Runs, s # r, run[s].at = "pruning"
      PROVE  Target(s, TRUE) \in files'
  <2>1. Target(s, TRUE) \in files /\ Target(s, TRUE).day = day
    BY <1>4, Names DEF Inv, RunsHaveDumps
  <2> QED BY <1>2, <1>3, <2>1
<1>5. files' \subseteq File /\ files' \ files = {}
  BY <1>2 DEF Inv, BackupTypeOK
<1> QED BY <1>1, <1>4, <1>5, FilesChange

LEMMA CrashStep ==
    ASSUME BackupAssumption, Inv, NEW r \in Runs, Crash(r)
    PROVE  Inv'
<1>1. /\ run' = [run EXCEPT ![r].at = "asleep"] /\ day' = day /\ begun' = begun
      /\ database' = database /\ files' = files /\ BackupTypeOK
  BY DEF Crash, Inv
<1>2. /\ run'[r].at = "asleep" /\ run' \in [Runs -> Run]
      /\ \A s \in Runs : s # r => run'[s] = run[s]
  BY <1>1 DEF BackupTypeOK, Run
<1>3. BackupTypeOK' /\ OfferedAreFinished'
  BY <1>1, <1>2 DEF Inv, BackupTypeOK, OfferedAreFinished, Offered
<1>4. Numbers'
  BY <1>1, <1>2 DEF Inv, Numbers
<1>5. RunsHaveDumps'
  BY <1>1, <1>2 DEF Inv, RunsHaveDumps, Target, Offered
<1> QED BY <1>3, <1>4, <1>5 DEF Inv

LEMMA NextDayStep ==
    ASSUME BackupAssumption, Inv, NextDay
    PROVE  Inv'
<1>1. day' \in 0 .. MaxDay
  BY DEF NextDay, Inv, BackupTypeOK, BackupAssumption
<1>2. BackupTypeOK' /\ OfferedAreFinished' /\ Numbers'
  BY <1>1 DEF NextDay, Inv, BackupTypeOK, OfferedAreFinished, Offered, Numbers
<1>3. RunsHaveDumps'
  BY DEF NextDay, RunsHaveDumps
<1> QED BY <1>2, <1>3 DEF Inv

LEMMA RestoreStep ==
    ASSUME BackupAssumption, Inv, (\E f \in Offered : BeginRestore(f)) \/ EndRestore
    PROVE  Inv'
<1>1. /\ day' = day /\ begun' = begun /\ files' = files /\ run' = run
      /\ database' \in {"whole", "restoring", "broken"}
  BY DEF BeginRestore, EndRestore
<1>2. BackupTypeOK' /\ OfferedAreFinished' /\ Numbers' /\ RunsHaveDumps'
  BY <1>1 DEF Inv, BackupTypeOK, OfferedAreFinished, Offered, Numbers, RunsHaveDumps, Target
<1> QED BY <1>2 DEF Inv

-----------------------------------------------------------------------------
(* Theorems.  What is assumed of the constants is a hypothesis. *)

LEMMA InitInv ==
    ASSUME BackupAssumption, InitBackup
    PROVE  Inv
<1>1. 0 \in 0 .. MaxDumps /\ 0 \in 0 .. MaxDay
  BY DEF BackupAssumption
<1>2. \A r \in Runs : run[r].at = "asleep"
  BY DEF InitBackup
<1>3. BackupTypeOK
  BY <1>1 DEF InitBackup, BackupTypeOK, Run
<1> QED BY <1>2, <1>3 DEF InitBackup, Inv, OfferedAreFinished, Offered, Numbers,
   RunsHaveDumps

LEMMA NextInv ==
    ASSUME BackupAssumption, Inv, [NextBackup]_backupVars
    PROVE  Inv'
<1>1. CASE UNCHANGED backupVars
  BY <1>1 DEF backupVars, Inv, BackupTypeOK, OfferedAreFinished, Offered, Numbers,
     RunsHaveDumps, Target
<1> QED BY <1>1, StartDumpStep, RenameStep, RenameFailsStep, DumpFailsStep, VerifyStep, VerifyFailsStep,
           PruneStep, CrashStep, NextDayStep, RestoreStep DEF NextBackup

LEMMA SpecInv ==
    ASSUME BackupAssumption
    PROVE  SpecBackup => []Inv
<1>1. InitBackup => Inv
  BY InitInv
<1>2. Inv /\ [NextBackup]_backupVars => Inv'
  BY NextInv
<1> QED BY <1>1, <1>2, PTL DEF SpecBackup

\* The files, the runs and the database have their types (backup.sh).
THEOREM Typing ==
    ASSUME BackupAssumption
    PROVE  SpecBackup => []BackupTypeOK
<1>1. Inv => BackupTypeOK
  BY DEF Inv
<1> QED BY <1>1, SpecInv, PTL

\* Wherever runs of the script are cut off, and however many there are at once,
\* no file that restore.sh offers was left half-way (take_backup).
THEOREM OfferedDumpsAreFinished ==
    ASSUME BackupAssumption
    PROVE  SpecBackup => []OfferedAreFinished
<1>1. Inv => OfferedAreFinished
  BY DEF Inv
<1> QED BY <1>1, SpecInv, PTL

\* Once a good dump is held one is held after every step, but for the retention
\* of a run whose own dump is of a database that was not whole: a run that deletes
\* old dumps has just verified one of today, and whatever fails removes only the
\* file of its own run (take_backup).
THEOREM TheLastGoodDumpIsKept ==
    ASSUME BackupAssumption
    PROVE  SpecBackup => LastGoodIsKept
<1> DEFINE Betrayed == \E r \in Runs : /\ run[r].at = "pruning" /\ run[r].of = "partial"
                                       /\ run'[r] # run[r]
           A == Held => Held' \/ Betrayed
\* A dump stays held that stays on the disk and that no run begins to verify.
<1>1. ASSUME NEW f \in files', Settled(f),
             \A s \in Runs : run'[s].at = "verifying" =>
                 run'[s].no # f.no \/ (run[s].at = "verifying" /\ run'[s].no = run[s].no)
      PROVE  Held'
  <2>1. Good(f) /\ \A s \in Runs : run[s].at = "verifying" => run[s].no # f.no
    BY <1>1 DEF Settled
  <2>2. \A s \in Runs : run'[s].at = "verifying" => run'[s].no # f.no
    BY <1>1, <2>1
  <2> QED BY <2>1, <2>2 DEF Held, Settled, Good
<1>2. ASSUME Inv, [NextBackup]_backupVars
      PROVE  [A]_backupVars
  <2>1. ASSUME NEW r \in Runs, Rename(r) \/ RenameFails(r), NEW f \in files, Settled(f)
        PROVE  Held'
    <3>1. /\ Goes(r, "dumping", "verifying")
          /\ files \ {Part(run[r].no, run[r].of)} \subseteq files'
      BY <2>1 DEF Rename, RenameFails
    <3>2. Good(f) /\ f.no # run[r].no
      <4>1. Good(f) /\ f \in Offered
        BY <2>1 DEF Settled, Good, Offered
      <4>2. run[r].at = "dumping"
        BY <3>1 DEF Goes
      <4> QED BY <1>2, <4>1, <4>2 DEF Inv, RunsHaveDumps
    <3>3. f \in files'
      BY <2>1, <3>1, <3>2, PartNames DEF Good
    <3>4. run'[r].no = run[r].no /\ \A s \in Runs : s # r => run'[s] = run[s]
      BY <1>2, <3>1, GoesOn
    <3> QED BY <1>1, <2>1, <3>2, <3>3, <3>4
  <2>2. ASSUME NEW r \in Runs, DumpFails(r) \/ VerifyFails(r), NEW f \in files, Settled(f)
        PROVE  Held'
    <3>1. /\ \/ Goes(r, "dumping", "asleep")
             \/ Goes(r, "verifying", "asleep") /\ run[r].at = "verifying"
          /\ \/ files' = files \ {Part(run[r].no, run[r].of)}
             \/ /\ files' = files \ {Target(r, sound) : sound \in BOOLEAN}
                /\ run[r].at = "verifying"
      BY <2>2 DEF DumpFails, VerifyFails, Goes
    <3>2. /\ Good(f) /\ Part(run[r].no, run[r].of).name = "part"
          /\ run[r].at = "verifying" => run[r].no # f.no
      BY <2>2, PartNames DEF Settled
    <3>3. \A sound \in BOOLEAN : Target(r, sound).no = run[r].no
      BY Names
    <3>4. f \in files'
      BY <2>2, <3>1, <3>2, <3>3 DEF Good
    <3>5. run'[r].at = "asleep" /\ \A s \in Runs : s # r => run'[s] = run[s]
      BY <1>2, <3>1, GoesOn
    <3> QED BY <1>1, <2>2, <3>4, <3>5
  <2>3. ASSUME NEW r \in Runs, Prune(r)
        PROVE  A
    <3>1. Goes(r, "pruning", "asleep") /\ run[r].at = "pruning" /\ Target(r, TRUE) \in files
      BY <1>2, <2>3 DEF Prune, PruneFrom, Goes, Inv, RunsHaveDumps
    <3>2. PICK deleted \in SUBSET {f \in files : f.name = "dump" /\ day - f.day > KeepDays} :
              files' = files \ deleted
      BY <2>3 DEF Prune
    <3>3. ~ day - day > KeepDays
      BY <1>2 DEF BackupAssumption, Inv, BackupTypeOK
    <3>4. Target(r, TRUE) \in files' /\ Target(r, TRUE).no = run[r].no
      BY <3>1, <3>2, <3>3, Names
    <3>5. run'[r].at = "asleep" /\ \A s \in Runs : s # r => run'[s] = run[s]
      BY <1>2, <3>1, GoesOn
    <3>6. CASE run[r].of = "partial"
      BY <3>1, <3>5, <3>6
    <3>7. CASE run[r].of # "partial"
      <4>1. run[r].of = "whole"
        BY <1>2, <3>7 DEF Inv, BackupTypeOK, Run
      <4>2. Good(Target(r, TRUE))
        BY <4>1, Names DEF Good
      <4>3. \A s \in Runs : run[s].at = "verifying" => run[s].no # run[r].no
        BY <1>2, <3>1 DEF Inv, Numbers
      <4>4. Settled(Target(r, TRUE))
        BY <3>4, <4>2, <4>3 DEF Settled
      <4>5. \A s \in Runs : run'[s].at = "verifying" => run'[s].no # Target(r, TRUE).no
        BY <3>4, <3>5, <4>3
      <4> QED BY <1>1, <3>4, <4>4, <4>5
    <3> QED BY <3>6, <3>7
  <2>4. ASSUME NEW r \in Runs, Verify(r) \/ StartDump(r) \/ Crash(r), NEW f \in files, Settled(f)
        PROVE  Held'
    <3>1. f \in files'
      BY <2>4 DEF Verify, StartDump, Crash
    <3>2. \A s \in Runs : run'[s].at = "verifying" => run'[s] = run[s]
      <4>1. CASE Verify(r)
        <5>1. Goes(r, "verifying", "pruning")
          BY <4>1 DEF Verify
        <5> QED BY <1>2, <5>1, GoesOn
      <4>2. CASE StartDump(r) \/ Crash(r)
        <5>1. run \in [Runs -> Run]
          BY <1>2 DEF Inv, BackupTypeOK
        <5>2. \A s \in Runs : s # r => run'[s] = run[s]
          BY <4>2, <5>1 DEF StartDump, Crash
        <5>3. run'[r].at # "verifying"
          BY <4>2, <5>1 DEF StartDump, Crash, Run
        <5> QED BY <5>2, <5>3
      <4> QED BY <2>4, <4>1, <4>2
    <3> QED BY <1>1, <2>4, <3>1, <3>2
  <2>5. ASSUME NextDay \/ EndRestore \/ (\E f \in Offered : BeginRestore(f)),
               NEW f \in files, Settled(f)
        PROVE  Held'
    <3>1. files' = files /\ run' = run
      BY <2>5 DEF NextDay, EndRestore, BeginRestore
    <3> QED BY <1>1, <2>5, <3>1
  <2>6. ASSUME NextBackup, Held
        PROVE  Held' \/ Betrayed
    <3>1. PICK f \in files : Settled(f)
      BY <2>6 DEF Held
    <3> QED BY <2>1, <2>2, <2>3, <2>4, <2>5, <2>6, <3>1 DEF NextBackup
  <2> QED BY <1>2, <2>6
<1> QED BY <1>2, SpecInv, PTL DEF SpecBackup, LastGoodIsKept

=============================================================================
