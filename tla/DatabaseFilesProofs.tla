------------------------- MODULE DatabaseFilesProofs ------------------------
(***************************************************************************)
(* What the files of the database keep for any number of schema versions,  *)
(* commits, failing migrations, faults and crashes: their types, that the  *)
(* application runs on all that was committed, and that committed rows     *)
(* survive while it is down.                                               *)
(***************************************************************************)
EXTENDS DatabaseFiles, TLAPS

(* Where the rows are, place by place *)

\* The files an interrupted restore set aside, or those it has yet to touch.
Original == IF Exists(staged.main) THEN staged.main ELSE main
OriginalLog == IF Exists(staged.wal) THEN staged.wal ELSE wal

Recovering == {"recover", "put_back_main", "put_back_wal", "remove_temp"}
Restored == {"validate", "delete_main", "delete_wal"}
Restoring == {"undo", "copy", "copying", "stage", "replace"} \cup Restored \cup Recovering
Calm == {"checkpoint", "migrate", "undo", "copy", "ready", "close", "overwrite", "overwriting"}
Opened == {"checkpoint", "migrate", "undo", "ready"}

\* What every file may hold: only a new database is empty, and no log is.
FilesInv ==
  /\ TypeOK
  /\ staged \in [main : Files, wal : Files]
  /\ \A f \in {main, staged.main} : f.rows = 0 => f \in {Absent, Blank}
  /\ \A f \in {wal, staged.wal} : Exists(f) => f.rows >= 1
  /\ saved.rows = 0 => saved = Absent

\* What is on the disk at each step of an initialization.
StartInv ==
  /\ at = "connected" => Exists(main)
  /\ at \in Calm => ~Stale
  /\ at \in Opened => Current.rows >= 1
  /\ at \in {"checkpoint", "migrate"} => Current.version < Latest
  /\ at = "checkpoint" => Current.version = began
  /\ at = "ready" => Current.version = Latest
  /\ at = "migrate" /\ ~guarded => began = 0 /\ Current.rows <= 1
  /\ at \in {"down", "refused", "connected"} /\ tidy => ~Stale
  /\ at = "refused" /\ tidy /\ (began > 0 \/ Current.rows > 1) => Current.version = began

\* What is on the disk at each step of a restore and of its recovery.
RestoreInv ==
  /\ at \in Restoring => guarded
  /\ at = "connected" => ~guarded
  /\ at \in {"migrate"} \cup Restoring /\ guarded => backup.rows >= 1 /\ backup.version = began
  /\ replaced => at \notin {"connected", "checkpoint", "migrate", "undo", "copy", "copying", "stage", "replace"}
  /\ at \in {"copy", "copying"} => Exists(main)
  /\ at = "copying" => ~Exists(staged.main) /\ ~Exists(staged.wal)
  /\ at \in {"stage", "replace"} =>
       /\ temp.rows = backup.rows /\ temp.version = backup.version
       /\ Exists(main) <=> ~Exists(staged.main)
       /\ ~(Exists(wal) /\ Exists(staged.wal))
  /\ at = "replace" => ~Exists(main) /\ ~Exists(wal)
  /\ at \in Restored =>
       ~Exists(wal) /\ ~Exists(temp) /\ main.rows = backup.rows /\ main.version = backup.version
  /\ at = "validate" => Exists(staged.main)
  /\ at = "recover" /\ replaced => Exists(staged.main) /\ ~Exists(wal)
  /\ at = "delete_wal" /\ tidy => ~Exists(staged.main)
  /\ at \in Recovering => ~tidy

\* What the GUI's restore knows of the backup it copies.
OverwriteInv ==
  /\ at \in {"close", "overwrite", "overwriting"} => Exists(saved)
  /\ at = "overwriting" => torn /\ promised = saved.rows

\* The promised rows are there for the next start, or for the user to put together.
Survives ==
  /\ promised # 0
  /\ IF Stale THEN \E pair \in Leftovers : Content(pair[1], pair[2]).rows = promised
     ELSE Current.rows = promised \/ (promised = 1 /\ Current.rows = 0)

\* Where they are, whatever place the process dies at.
KeptInv ==
  /\ Survives
  /\ at \in (Opened \cup {"close", "overwrite"}) => Current.rows = promised
  /\ at \in {"validate"} \cup (Restoring \ Restored) => Content(Original, OriginalLog).rows = promised
  /\ at \in {"migrate"} \cup (Restoring \ Recovering) /\ guarded => backup.rows = promised

SafeInv == FilesInv /\ StartInv /\ RestoreInv /\ OverwriteInv /\ (~torn => KeptInv)

----------------------------------------------------------------------------
(* Files *)

LEMMA FileKinds ==
  /\ Absent \in Files /\ Blank \in Files /\ Fresh \in Files /\ Garbage \in Files
  /\ ~Exists(Absent) /\ Exists(Blank) /\ Exists(Fresh) /\ Exists(Garbage)
  /\ Absent.rows = 0 /\ Blank.rows = 0 /\ Fresh.rows = 1 /\ Garbage.rows = -1
  /\ Fresh.version = 0 /\ Blank # Fresh
  BY DatabaseFilesAssumption DEF Absent, Blank, Fresh, Garbage, Files, Exists

LEMMA Fields ==
  ASSUME NEW f \in Files
  PROVE  f.file \in {0, 1} /\ f.version \in 0..Latest /\ f.rows \in -1..MaxRows
  BY DEF Files

\* What is read is the database, its log, or nothing of either.
LEMMA ContentFacts ==
  ASSUME NEW m \in Files, NEW w \in Files
  PROVE  /\ Content(m, w) \in Files
         /\ Content(m, Absent) = m
         /\ m.rows = 0 => Content(m, w) = m
         /\ m.rows # 0 /\ Exists(w) /\ w.file = m.file => Content(m, w) = w
         /\ Content(m, w) \in {m, w, Garbage}
         /\ Content(m, w).rows >= 1 => m.rows # 0 /\ Exists(m) /\ Content(m, w).file = m.file
  <1>1. Content(m, w) \in {m, w, Garbage} BY DEF Content
  <1>2. Content(m, Absent) = m BY FileKinds DEF Content
  <1>3. Content(m, w).rows >= 1 => m.rows # 0 /\ Exists(m) /\ Content(m, w).file = m.file
    <2> SUFFICES ASSUME Content(m, w).rows >= 1
                 PROVE  m.rows # 0 /\ Exists(m) /\ Content(m, w).file = m.file OBVIOUS
    <2>1. Content(m, w) # Garbage BY FileKinds
    <2>2. m.rows # 0 BY DEF Content
    <2>3. Exists(m) BY <2>2, FileKinds DEF Exists
    <2>4. Content(m, w).file = m.file BY <2>1, <2>2 DEF Content
    <2> QED BY <2>2, <2>3, <2>4
  <1> QED BY <1>1, <1>2, <1>3, FileKinds DEF Content

LEMMA CopyFacts ==
  ASSUME NEW d \in Files, NEW e \in Files
  PROVE  /\ Copy(d, e) \in Files
         /\ Copy(d, e).rows = d.rows /\ Copy(d, e).version = d.version
  <1>1. 1 - e.file \in {0, 1} BY Fields
  <1> QED BY <1>1 DEF Copy, Files

\* Another version or other rows of the same file.
LEMMA EditFacts ==
  ASSUME NEW f \in Files
  PROVE  /\ f.version < Latest => [f EXCEPT !.version = @ + 1] \in Files
         /\ f.rows < MaxRows => [f EXCEPT !.rows = @ + 1] \in Files
         /\ [f EXCEPT !.version = @ + 1].file = f.file /\ [f EXCEPT !.version = @ + 1].rows = f.rows
         /\ [f EXCEPT !.version = @ + 1].version = f.version + 1
         /\ [f EXCEPT !.rows = @ + 1].file = f.file /\ [f EXCEPT !.rows = @ + 1].rows = f.rows + 1
         /\ [f EXCEPT !.rows = @ + 1].version = f.version
  <1>1. f.version < Latest => f.version + 1 \in 0..Latest BY Fields, DatabaseFilesAssumption
  <1>2. f.rows < MaxRows => f.rows + 1 \in -1..MaxRows BY Fields, DatabaseFilesAssumption
  <1> QED BY <1>1, <1>2 DEF Files

\* A step that leaves the disk alone changes nothing that is read from it.
LEMMA DiskSame ==
  ASSUME UNCHANGED disk
  PROVE  UNCHANGED <<main, wal, backup, temp, staged, saved, Current, Stale, Leftovers, Original, OriginalLog>>
  BY DEF disk, Current, Stale, Leftovers, Original, OriginalLog

\* What files hold when a step writes to some of them.
LEMMA DiskFacts ==
  ASSUME FilesInv
  PROVE  /\ main \in Files /\ wal \in Files /\ backup \in Files /\ temp \in Files /\ saved \in Files
         /\ staged.main \in Files /\ staged.wal \in Files /\ Current \in Files
         /\ faults \in Nat /\ failures \in Nat
  BY ContentFacts DEF FilesInv, TypeOK, Current

LEMMA FaultTypes ==
  ASSUME FilesInv, Fault
  PROVE  /\ faults' \in 0..MaxFaults /\ failures' \in 0..MaxFailures /\ promised' \in -1..MaxRows
         /\ began' \in 0..Latest /\ tidy' = FALSE /\ torn' \in BOOLEAN
  BY DatabaseFilesAssumption DEF FilesInv, TypeOK, Fault

\* The variables that hold no file.
RestTypes ==
  /\ at \in {"down", "refused", "connected", "checkpoint", "migrate", "undo", "copy",
             "copying", "stage", "replace", "validate", "delete_main", "delete_wal",
             "recover", "put_back_main", "put_back_wal", "remove_temp", "ready",
             "close", "overwrite", "overwriting"}
  /\ {replaced, guarded, tidy, torn} \subseteq BOOLEAN
  /\ promised \in -1..MaxRows /\ began \in 0..Latest
  /\ failures \in 0..MaxFailures /\ faults \in 0..MaxFaults

\* The files, when two or three of them are written.
DiskTypes ==
  /\ main \in Files /\ wal \in Files /\ backup \in Files /\ temp \in Files /\ saved \in Files
  /\ staged \in [main : Files, wal : Files]
  /\ \A f \in {main, staged.main} : f.rows = 0 => f \in {Absent, Blank}
  /\ \A f \in {wal, staged.wal} : Exists(f) => f.rows >= 1
  /\ saved.rows = 0 => saved = Absent

LEMMA FilesSplit == FilesInv <=> RestTypes /\ DiskTypes
  BY DEF FilesInv, RestTypes, DiskTypes, TypeOK

LEMMA RestStep == SafeInv /\ [Next]_vars => RestTypes'
  <1> SUFFICES ASSUME SafeInv, [Next]_vars PROVE RestTypes' OBVIOUS
  <1>a. FilesInv /\ RestTypes BY FilesSplit DEF SafeInv
  <1> USE DEF RestTypes, Go, Same, disk, memory, history, counts
  <1>1. CASE Connect BY <1>a, <1>1 DEF Connect
  <1>2. CASE Refuse BY <1>a, <1>2 DEF Refuse
  <1>3. CASE Begin
    <2>1. Content(main', wal') \in Files
      BY <1>a, <1>3, DiskFacts, FileKinds, ContentFacts DEF Begin
    <2>2. began' \in 0..Latest BY <1>3, <2>1, Fields DEF Begin
    <2>3. at' \in {"refused", "ready", "migrate", "checkpoint"} BY <1>3 DEF Begin
    <2> QED BY <1>a, <1>3, <2>2, <2>3 DEF Begin
  <1>40. CASE ForeignKeysFail BY <1>a, <1>40, DatabaseFilesAssumption DEF ForeignKeysFail
  <1>4. CASE Backup BY <1>a, <1>4 DEF Backup
  <1>5. CASE Migrate BY <1>a, <1>5 DEF Migrate
  <1>6. CASE MigrationFails BY <1>a, <1>6, DatabaseFilesAssumption DEF MigrationFails
  <1>7. CASE CloseForRestore BY <1>a, <1>7 DEF CloseForRestore, CloseConnection
  <1>8. CASE BeginCopy BY <1>a, <1>8 DEF BeginCopy
  <1>9. CASE EndCopy BY <1>a, <1>9 DEF EndCopy
  <1>10. CASE Stage BY <1>a, <1>10 DEF Stage
  <1>11. CASE Replace BY <1>a, <1>11 DEF Replace
  <1>12. CASE Validate BY <1>a, <1>12 DEF Validate
  <1>13. CASE DeleteMain BY <1>a, <1>13 DEF DeleteMain, Delete
  <1>14. CASE DeleteWal BY <1>a, <1>14 DEF DeleteWal, Delete
  <1>15. CASE RemoveCurrent BY <1>a, <1>15 DEF RemoveCurrent
  <1>16. CASE PutBackMain BY <1>a, <1>16 DEF PutBackMain
  <1>17. CASE PutBackWal BY <1>a, <1>17 DEF PutBackWal
  <1>18. CASE RemoveTemp BY <1>a, <1>18 DEF RemoveTemp
  <1>19. CASE LogStays BY <1>a, <1>19, FaultTypes DEF LogStays
  <1>20. CASE RestoreStepFails BY <1>a, <1>20, FaultTypes DEF RestoreStepFails
  <1>21. CASE CleanupFails
    <2>1. at' \in {"delete_wal", "refused", "put_back_main", "put_back_wal", "remove_temp"}
          /\ UNCHANGED <<replaced, guarded>>
      BY <1>21 DEF CleanupFails
    <2> QED BY <1>a, <1>21, <2>1, FaultTypes DEF CleanupFails
  <1>22. CASE Commit
    <2>1. promised' \in -1..MaxRows
      <3>1. Current.rows \in -1..MaxRows BY <1>a, DiskFacts, Fields
      <3> QED BY <1>22, <3>1, DatabaseFilesAssumption DEF Commit
    <2> QED BY <1>a, <1>22, <2>1 DEF Commit
  <1>23. CASE Checkpoint BY <1>a, <1>23 DEF Checkpoint
  <1>24. CASE SaveBackup BY <1>a, <1>24 DEF SaveBackup
  <1>25. CASE ChooseBackup BY <1>a, <1>25 DEF ChooseBackup
  <1>26. CASE CloseForCopy BY <1>a, <1>26 DEF CloseForCopy, CloseConnection
  <1>27. CASE BeginOverwrite
    <2>1. promised' \in -1..MaxRows BY <1>a, <1>27, DiskFacts, Fields DEF BeginOverwrite
    <2> QED BY <1>a, <1>27, <2>1 DEF BeginOverwrite
  <1>28. CASE EndOverwrite BY <1>a, <1>28 DEF EndOverwrite, Exists
  <1>29. CASE Exit BY <1>a, <1>29 DEF Exit, CloseConnection
  <1>30. CASE Crash BY <1>a, <1>30, FaultTypes DEF Crash
  <1>31. CASE Resolve BY <1>a, <1>31 DEF Resolve
  <1>32. CASE UNCHANGED vars BY <1>a, <1>32 DEF vars
  <1> QED BY <1>1, <1>2, <1>3, <1>4, <1>5, <1>6, <1>7, <1>8, <1>9, <1>10, <1>11, <1>12, <1>13, <1>14,
             <1>15, <1>16, <1>17, <1>18, <1>19, <1>20, <1>21, <1>22, <1>23, <1>24, <1>25, <1>26, <1>27,
             <1>28, <1>29, <1>30, <1>31, <1>32, <1>40 DEF Next, Restore, Use

\* What closing a connection or a checkpoint puts into the database.
LEMMA CurrentKind ==
  ASSUME FilesInv
  PROVE  Current.rows = 0 => Current \in {Absent, Blank}
  <1>1. CASE main.rows = 0 BY <1>1, DiskFacts, ContentFacts DEF FilesInv, Current
  <1>2. CASE main.rows # 0 /\ ~Exists(wal) BY <1>2 DEF Current, Content
  <1>3. CASE main.rows # 0 /\ Exists(wal)
    <2>1. Current \in {wal, Garbage} BY <1>3 DEF Current, Content
    <2>2. wal.rows >= 1 BY <1>3 DEF FilesInv
    <2> QED BY <2>1, <2>2, DiskFacts, Fields, FileKinds
  <1> QED BY <1>1, <1>2, <1>3

LEMMA FoldLog ==
  ASSUME FilesInv, main' = Current, wal' = Absent
  PROVE  /\ main' \in Files /\ wal' \in Files /\ ~Exists(wal')
         /\ main'.rows = 0 => main' \in {Absent, Blank}
         /\ Current' = Current
  BY CurrentKind, DiskFacts, FileKinds, ContentFacts DEF Current

\* Writing through the connection.
LEMMA WriteLog ==
  ASSUME FilesInv, Current.rows >= 1, NEW w \in Files, w.file = Current.file, w.rows >= 1,
         UNCHANGED main, wal' = w
  PROVE  Current' = w /\ Exists(wal')
  <1>1. Exists(w) BY FileKinds, Fields DEF Exists
  <1>2. main.rows # 0 /\ Current.file = main.file BY DiskFacts, ContentFacts DEF Current
  <1> QED BY <1>1, <1>2, DiskFacts, ContentFacts DEF Current

LEMMA DiskStep == SafeInv /\ [Next]_vars => DiskTypes'
  <1> SUFFICES ASSUME SafeInv, [Next]_vars PROVE DiskTypes' OBVIOUS
  <1>a. FilesInv /\ DiskTypes BY FilesSplit DEF SafeInv
  <1>b. StartInv /\ RestoreInv /\ OverwriteInv BY DEF SafeInv
  <1> USE DEF DiskTypes, disk
  <1>1. CASE Connect BY <1>a, <1>1, FileKinds DEF Connect
  <1>3. CASE Begin BY <1>a, <1>3, FileKinds DEF Begin
  <1>4. CASE Backup BY <1>a, <1>4, FoldLog, DiskFacts DEF Backup
  <1>5. CASE Migrate
    <2>1. Current.rows >= 1 /\ Current.version < Latest BY <1>b, <1>5 DEF Migrate, StartInv, Opened
    <2>2. wal' \in Files /\ wal'.rows = Current.rows
      BY <1>a, <1>5, <2>1, DiskFacts, EditFacts DEF Migrate
    <2> QED BY <1>a, <1>5, <2>1, <2>2 DEF Migrate
  <1>7. CASE CloseForRestore BY <1>a, <1>7, FoldLog DEF CloseForRestore, CloseConnection
  <1>8. CASE BeginCopy BY <1>a, <1>8, FileKinds DEF BeginCopy
  <1>9. CASE EndCopy BY <1>a, <1>9, CopyFacts DEF EndCopy
  <1>10. CASE Stage BY <1>a, <1>10, FileKinds DEF Stage
  <1>11. CASE Replace
    <2>1. temp.rows # 0
      <3>1. guarded /\ backup.rows >= 1 /\ temp.rows = backup.rows
        BY <1>b, <1>11 DEF Replace, RestoreInv, Restoring
      <3> QED BY <1>a, <3>1, DiskFacts, Fields
    <2> QED BY <1>a, <1>11, <2>1, FileKinds DEF Replace
  <1>13. CASE DeleteMain BY <1>a, <1>13, FileKinds DEF DeleteMain, Delete
  <1>14. CASE DeleteWal BY <1>a, <1>14, FileKinds DEF DeleteWal, Delete
  <1>15. CASE RemoveCurrent BY <1>a, <1>15, FileKinds DEF RemoveCurrent
  <1>16. CASE PutBackMain BY <1>a, <1>16, FileKinds DEF PutBackMain
  <1>17. CASE PutBackWal BY <1>a, <1>17, FileKinds DEF PutBackWal
  <1>18. CASE RemoveTemp BY <1>a, <1>18, FileKinds DEF RemoveTemp
  <1>22. CASE Commit
    <2>1. Current.rows >= 1 /\ Current.rows < MaxRows BY <1>b, <1>22 DEF Commit, StartInv, Opened
    <2>2. wal' \in Files /\ wal'.rows = Current.rows + 1
      BY <1>a, <1>22, <2>1, DiskFacts, EditFacts DEF Commit
    <2>3. wal'.rows >= 1 BY <1>a, <2>1, <2>2, DiskFacts, Fields
    <2> QED BY <1>a, <1>22, <2>2, <2>3 DEF Commit
  <1>23. CASE Checkpoint BY <1>a, <1>23, FoldLog DEF Checkpoint
  <1>24. CASE SaveBackup
    <2>1. main.rows # 0
      <3>1. Current.rows >= 1 BY <1>b, <1>24 DEF SaveBackup, StartInv, Opened
      <3> QED BY <1>a, <3>1, DiskFacts, ContentFacts DEF Current
    <2> QED BY <1>a, <1>24, <2>1 DEF SaveBackup
  <1>26. CASE CloseForCopy BY <1>a, <1>26, FoldLog DEF CloseForCopy, CloseConnection
  <1>27. CASE BeginOverwrite BY <1>a, <1>27, FileKinds DEF BeginOverwrite
  <1>28. CASE EndOverwrite
    <2>1. saved.rows # 0 BY <1>a, <1>b, <1>28 DEF EndOverwrite, OverwriteInv, Exists
    <2>2. main' \in Files /\ main'.rows = saved.rows BY <1>a, <1>28, CopyFacts DEF EndOverwrite
    <2> QED BY <1>a, <1>28, <2>1, <2>2 DEF EndOverwrite
  <1>29. CASE Exit BY <1>a, <1>29, FoldLog DEF Exit, CloseConnection
  <1>31. CASE Resolve
    <2>1. PICK pair \in Leftovers : main' = pair[1] /\ wal' = pair[2] BY <1>31 DEF Resolve
    <2>2. main' \in {main, staged.main} /\ wal' \in {wal, staged.wal, Absent} BY <2>1 DEF Leftovers
    <2>3. /\ temp' = Absent /\ staged' = [main |-> Absent, wal |-> Absent]
          /\ UNCHANGED <<backup, saved>>
      BY <1>31 DEF Resolve
    <2> QED BY <1>a, <2>2, <2>3, FileKinds
  <1>32. CASE UNCHANGED disk BY <1>a, <1>32
  <1>33. CASE Refuse \/ ForeignKeysFail \/ MigrationFails \/ Validate \/ LogStays \/ RestoreStepFails \/ CleanupFails
              \/ ChooseBackup \/ Crash \/ UNCHANGED vars
    <2>1. UNCHANGED disk
      BY <1>33 DEF Refuse, ForeignKeysFail, MigrationFails, Validate, LogStays, RestoreStepFails, CleanupFails,
           ChooseBackup, Crash, vars
    <2> QED BY <1>32, <2>1
  <1> QED BY <1>1, <1>3, <1>4, <1>5, <1>7, <1>8, <1>9, <1>10, <1>11, <1>13, <1>14,
             <1>15, <1>16, <1>17, <1>18, <1>22, <1>23, <1>24, <1>26, <1>27,
             <1>28, <1>29, <1>31, <1>33 DEF Next, Restore, Use

----------------------------------------------------------------------------
(* Initialization *)

\* The next place, and whether a step was a fault.
LEMMA FaultPlace == Fault => tidy' = FALSE /\ UNCHANGED <<promised, began, torn>>
  BY DEF Fault

LEMMA StartStep == SafeInv /\ [Next]_vars => StartInv'
  <1> SUFFICES ASSUME SafeInv, [Next]_vars PROVE StartInv' OBVIOUS
  <1>a. FilesInv /\ DiskTypes BY FilesSplit DEF SafeInv
  <1>b. StartInv /\ RestoreInv /\ OverwriteInv BY DEF SafeInv
  <1>c. began \in Nat /\ Latest \in Nat \ {0} /\ tidy \in BOOLEAN /\ guarded \in BOOLEAN
    BY <1>a, DatabaseFilesAssumption DEF FilesInv, TypeOK
  <1> USE DEF StartInv, Go, Same, Calm, Opened, history, memory
  <1>1. CASE Connect
    <2>1. Exists(main') /\ Stale' = Stale BY <1>1, FileKinds DEF Connect, Stale
    <2> QED BY <1>b, <1>1, <2>1 DEF Connect
  <1>2. CASE Refuse BY <1>b, <1>2, DiskSame DEF Refuse
  <1>3. CASE Begin
    <2>0. /\ main' = (IF main = Blank THEN Fresh ELSE main)
          /\ wal' = (IF main = Blank THEN Absent ELSE wal)
          /\ at = "connected" /\ ~Stale /\ UNCHANGED <<temp, staged>>
      BY <1>3 DEF Begin
    <2>6. main' \in Files /\ wal' \in Files BY <1>a, <2>0, FileKinds DEF DiskTypes
    <2>1. /\ Stale' = Stale /\ ~Stale /\ began' = Current'.version
          /\ main' \in Files /\ wal' \in Files /\ Current' \in Files
      <3>1. Stale' = Stale /\ ~Stale BY <2>0 DEF Stale
      <3>2. began' = Current'.version BY <1>3 DEF Begin, Current
      <3>3. Current' \in Files BY <2>6, ContentFacts DEF Current
      <3> QED BY <2>6, <3>1, <3>2, <3>3
    <2>2. main'.rows # 0
      <3>1. Exists(main) BY <1>b, <2>0
      <3>2. CASE main = Blank BY <2>0, <3>2, FileKinds
      <3>3. CASE main # Blank BY <1>a, <2>0, <3>1, <3>3 DEF Exists, DiskTypes
      <3> QED BY <3>2, <3>3
    <2>3. Current'.rows # 0
      <3>1. Exists(wal') => wal'.rows >= 1 BY <1>a, <2>0, FileKinds DEF DiskTypes
      <3>2. Current' = main' \/ (Exists(wal') /\ Current' = wal') \/ Current' = Garbage
        BY DEF Current, Content
      <3> QED BY <2>1, <2>2, <3>1, <3>2, FileKinds, Fields
    <2>4. /\ at' = (IF Current'.rows = -1 THEN "refused"
                    ELSE IF began' = Latest THEN "ready"
                    ELSE IF HasUserSchema(Current') THEN "checkpoint" ELSE "migrate")
          /\ UNCHANGED guarded
      BY <1>3 DEF Begin, Current
    <2>5. Current'.rows \in -1..MaxRows /\ Current'.version \in 0..Latest BY <2>1, Fields
    <2> QED BY <1>c, <2>1, <2>3, <2>4, <2>5 DEF HasUserSchema
  <1>40. CASE ForeignKeysFail BY <1>b, <1>40, DiskSame DEF ForeignKeysFail
  <1>4. CASE Backup
    <2>1. Current' = Current /\ Stale' = Stale BY <1>a, <1>4, FoldLog DEF Backup, Stale
    <2> QED BY <1>b, <1>4, <2>1 DEF Backup
  <1>5. CASE Migrate
    <2>1. Current.rows >= 1 /\ Current.version < Latest BY <1>b, <1>5 DEF Migrate
    <2>2. /\ wal' \in Files /\ wal'.file = Current.file /\ wal'.rows = Current.rows
          /\ wal'.version = Current.version + 1
      BY <1>a, <1>5, <2>1, DiskFacts, EditFacts DEF Migrate
    <2>3. Current' = wal' BY <1>a, <1>5, <2>1, <2>2, WriteLog DEF Migrate
    <2>4. Stale' = Stale BY <1>5 DEF Migrate, Stale
    <2>5. Current.version \in Nat BY <1>a, DiskFacts, Fields
    <2>6. /\ at = "migrate" /\ UNCHANGED <<guarded, tidy, began>>
          /\ at' = IF Current.version + 1 = Latest THEN "ready" ELSE "migrate"
      BY <1>5 DEF Migrate
    <2>7. Current'.rows = Current.rows /\ Current'.version = Current.version + 1
      BY <2>1, <2>2, <2>3
    <2> QED BY <1>b, <1>c, <2>1, <2>4, <2>5, <2>6, <2>7
  <1>6. CASE MigrationFails
    <2>1. Current.rows \in -1..MaxRows BY <1>a, DiskFacts, Fields
    <2> QED BY <1>b, <1>6, <2>1, DiskSame DEF MigrationFails, history
  <1>7. CASE CloseForRestore
    <2>1. Current' = Current /\ Stale' = Stale
      BY <1>a, <1>7, FoldLog DEF CloseForRestore, CloseConnection, Stale
    <2> QED BY <1>b, <1>7, <2>1 DEF CloseForRestore, CloseConnection
  <1>8. CASE BeginCopy \/ EndCopy \/ Stage \/ Replace \/ Validate \/ DeleteMain
             \/ RemoveCurrent \/ PutBackMain \/ PutBackWal
    <2>1. at' \in {"copying", "stage", "replace", "validate", "delete_main", "delete_wal",
                   "put_back_main", "put_back_wal", "remove_temp"}
      BY <1>8 DEF BeginCopy, EndCopy, Stage, Replace, Validate, DeleteMain, Delete,
           RemoveCurrent, PutBackMain, PutBackWal
    <2> QED BY <2>1
  <1>9. CASE DeleteWal
    <2>1. Exists(wal) = FALSE /\ Exists(temp) = FALSE /\ main.version = began /\ (tidy => ~Exists(staged.main))
      BY <1>b, <1>9 DEF DeleteWal, Delete, RestoreInv, Restored, Restoring
    <2>2. UNCHANGED <<main, wal, temp, tidy, began>> /\ staged' = [staged EXCEPT !["wal"] = Absent]
          /\ at' = "refused"
      BY <1>9 DEF DeleteWal, Delete, history
    <2>3. staged'.main = staged.main /\ staged'.wal = Absent BY <1>a, <2>2 DEF DiskTypes
    <2>4. Current' = main BY <2>1, <2>2 DEF Current, Content
    <2>5. tidy => ~Stale' BY <2>1, <2>2, <2>3, FileKinds DEF Stale
    <2> QED BY <2>1, <2>2, <2>4, <2>5
  <1>10. CASE RemoveTemp
    <2>1. ~tidy' /\ at' = "refused"
      BY <1>b, <1>10 DEF RemoveTemp, RestoreInv, Recovering, history
    <2> QED BY <2>1
  <1>11. CASE LogStays
    <2>1. at' \in {"copy", "overwrite"} BY <1>11 DEF LogStays
    <2>2. ~Stale' BY <1>b, <1>11, DiskSame DEF LogStays
    <2> QED BY <2>1, <2>2
  <1>12. CASE RestoreStepFails BY <1>12 DEF RestoreStepFails
  <1>13. CASE CleanupFails
    <2>1. at' \in {"delete_wal", "refused", "put_back_main", "put_back_wal", "remove_temp"}
      BY <1>13 DEF CleanupFails
    <2>2. tidy' = FALSE BY <1>13, FaultPlace DEF CleanupFails
    <2> QED BY <2>1, <2>2
  <1>14. CASE Commit
    <2>1. Current.rows >= 1 /\ Current.rows < MaxRows /\ Current.version = Latest
      BY <1>b, <1>14 DEF Commit
    <2>0. Current.rows \in Int BY <1>a, DiskFacts, Fields
    <2>2. /\ wal' \in Files /\ wal'.file = Current.file /\ wal'.rows = Current.rows + 1
          /\ wal'.version = Current.version
      BY <1>a, <1>14, <2>1, DiskFacts, EditFacts DEF Commit
    <2>5. wal'.rows >= 1 BY <2>0, <2>1, <2>2
    <2>3. Current' = wal' BY <1>a, <1>14, <2>1, <2>2, <2>5, WriteLog DEF Commit
    <2>4. Stale' = Stale /\ at' = "ready" /\ at = "ready" BY <1>14 DEF Commit, Stale, memory
    <2> QED BY <1>b, <2>1, <2>2, <2>3, <2>4, <2>5
  <1>15. CASE Checkpoint
    <2>1. Current' = Current /\ Stale' = Stale BY <1>a, <1>15, FoldLog DEF Checkpoint, Stale
    <2> QED BY <1>b, <1>15, <2>1 DEF Checkpoint, memory
  <1>16. CASE SaveBackup
    <2>1. Current' = Current /\ Stale' = Stale BY <1>16 DEF SaveBackup, Current, Stale
    <2> QED BY <1>b, <1>16, <2>1 DEF SaveBackup, memory
  <1>17. CASE ChooseBackup BY <1>b, <1>17, DiskSame DEF ChooseBackup
  <1>18. CASE CloseForCopy
    <2>1. Stale' = Stale BY <1>18 DEF CloseForCopy, CloseConnection, Stale
    <2> QED BY <1>b, <1>18, <2>1 DEF CloseForCopy, CloseConnection
  <1>19. CASE BeginOverwrite
    <2>1. Stale' = Stale BY <1>19 DEF BeginOverwrite, Stale
    <2> QED BY <1>b, <1>19, <2>1 DEF BeginOverwrite
  <1>20. CASE EndOverwrite
    <2>1. Stale' = Stale BY <1>20 DEF EndOverwrite, Stale
    <2>2. Exists(main')
      <3>1. saved.rows # 0 BY <1>a, <1>b, <1>20 DEF EndOverwrite, OverwriteInv, Exists, DiskTypes
      <3>2. main'.rows = saved.rows BY <1>a, <1>20, DiskFacts, CopyFacts DEF EndOverwrite
      <3> QED BY <3>1, <3>2, FileKinds DEF Exists
    <2> QED BY <1>b, <1>20, <2>1, <2>2 DEF EndOverwrite
  <1>21. CASE Exit
    <2>1. Stale' = Stale BY <1>21 DEF Exit, CloseConnection, Stale
    <2> QED BY <1>b, <1>21, <2>1 DEF Exit, CloseConnection
  <1>22. CASE Crash
    <2>1. at' = "down" /\ tidy' = FALSE BY <1>22, FaultPlace DEF Crash
    <2> QED BY <2>1
  <1>23. CASE Resolve
    <2>1. at' = "down" /\ ~Stale' BY <1>23, FileKinds DEF Resolve, Stale
    <2> QED BY <2>1
  <1>24. CASE UNCHANGED vars BY <1>b, <1>24, DiskSame DEF vars, memory, history
  <1> QED BY <1>1, <1>2, <1>3, <1>4, <1>5, <1>6, <1>7, <1>8, <1>9, <1>10, <1>11, <1>12, <1>13, <1>14,
             <1>15, <1>16, <1>17, <1>18, <1>19, <1>20, <1>21, <1>22, <1>23, <1>24, <1>40 DEF Next, Restore, Use

----------------------------------------------------------------------------
(* Restore *)

LEMMA RestoreStep == SafeInv /\ [Next]_vars => RestoreInv'
  <1> SUFFICES ASSUME SafeInv, [Next]_vars PROVE RestoreInv' OBVIOUS
  <1>a. FilesInv /\ DiskTypes BY FilesSplit DEF SafeInv
  <1>b. StartInv /\ RestoreInv /\ OverwriteInv BY DEF SafeInv
  <1>c. guarded \in BOOLEAN /\ replaced \in BOOLEAN /\ tidy \in BOOLEAN BY <1>a DEF FilesInv, TypeOK
  <1> USE DEF RestoreInv, Go, Same, Restoring, Restored, Recovering, history, memory
  <1>1. CASE Connect BY <1>1 DEF Connect
  <1>2. CASE Refuse BY <1>b, <1>2, DiskSame DEF Refuse
  <1>3. CASE Begin
    <2>1. at' \in {"refused", "ready", "migrate", "checkpoint"} /\ UNCHANGED <<replaced, guarded>>
          /\ at = "connected"
      BY <1>3 DEF Begin
    <2> QED BY <1>b, <2>1
  <1>40. CASE ForeignKeysFail BY <1>b, <1>40 DEF ForeignKeysFail
  <1>4. CASE Backup
    <2>1. Current.rows >= 1 /\ Current.version = began /\ backup' = Current
      BY <1>b, <1>4 DEF Backup, StartInv, Opened
    <2> QED BY <1>b, <1>4, <2>1 DEF Backup
  <1>5. CASE Migrate BY <1>b, <1>5 DEF Migrate
  <1>6. CASE MigrationFails BY <1>b, <1>6, DiskSame DEF MigrationFails
  <1>7. CASE CloseForRestore
    <2>1. Current.rows >= 1 BY <1>b, <1>7 DEF CloseForRestore, StartInv, Opened
    <2>2. Exists(main') BY <1>7, <2>1, FileKinds DEF CloseForRestore, CloseConnection, Exists
    <2> QED BY <1>b, <1>7, <2>2 DEF CloseForRestore, CloseConnection
  <1>8. CASE BeginCopy
    <2>1. ~Exists(staged.main) /\ ~Exists(staged.wal) BY <1>b, <1>8 DEF BeginCopy, StartInv, Calm, Stale
    <2> QED BY <1>b, <1>8, <2>1 DEF BeginCopy
  <1>9. CASE EndCopy
    <2>1. temp'.rows = backup.rows /\ temp'.version = backup.version
      BY <1>a, <1>9, DiskFacts, CopyFacts DEF EndCopy
    <2> QED BY <1>b, <1>9, <2>1 DEF EndCopy
  <1>10. CASE Stage
    <2>1. /\ at = "stage" /\ at' \in {"stage", "replace"}
          /\ UNCHANGED <<replaced, guarded, tidy, began, backup, temp>>
      BY <1>10 DEF Stage
    <2>2. /\ Exists(main)' <=> ~Exists(staged.main)'
          /\ ~(Exists(wal)' /\ Exists(staged.wal)')
          /\ at' = "replace" => ~Exists(main)' /\ ~Exists(wal)'
      <3>1. CASE /\ Exists(main)
                 /\ staged' = [staged EXCEPT !.main = main] /\ main' = Absent
                 /\ Go("stage") /\ UNCHANGED wal
        <4>1. staged'.main = main /\ staged'.wal = staged.wal BY <1>a, <3>1 DEF DiskTypes
        <4> QED BY <1>b, <2>1, <3>1, <4>1, FileKinds
      <3>2. CASE /\ ~Exists(main) /\ Exists(wal)
                 /\ staged' = [staged EXCEPT !.wal = wal] /\ wal' = Absent
                 /\ Go("stage") /\ UNCHANGED main
        <4>1. staged'.main = staged.main /\ staged'.wal = wal BY <1>a, <3>2 DEF DiskTypes
        <4> QED BY <1>b, <2>1, <3>2, <4>1, FileKinds
      <3>3. CASE ~Exists(main) /\ ~Exists(wal) /\ UNCHANGED <<main, wal, staged>>
        BY <1>b, <2>1, <3>3
      <3> QED BY <1>10, <3>1, <3>2, <3>3 DEF Stage
    <2> QED BY <1>b, <2>1, <2>2
  <1>11. CASE Replace
    <2>1. ~Exists(wal') /\ ~Exists(temp') /\ main' = temp /\ Exists(staged'.main)
      BY <1>b, <1>11, FileKinds DEF Replace
    <2> QED BY <1>b, <1>11, <2>1 DEF Replace
  <1>12. CASE Validate BY <1>b, <1>12, DiskSame DEF Validate
  <1>13. CASE DeleteMain
    <2>1. UNCHANGED <<main, wal, backup, temp, saved, history, counts, replaced, guarded>>
          /\ at = "delete_main" /\ at' = "delete_wal" /\ staged' = [staged EXCEPT !["main"] = Absent]
      BY <1>13 DEF DeleteMain, Delete
    <2>2. ~Exists(staged'.main) BY <1>a, <2>1, FileKinds DEF DiskTypes
    <2> QED BY <1>b, <2>1, <2>2
  <1>14. CASE DeleteWal \/ RemoveTemp
    <2>1. at' = "refused" BY <1>14 DEF DeleteWal, Delete, RemoveTemp
    <2> QED BY <2>1
  <1>15. CASE RemoveCurrent BY <1>b, <1>15 DEF RemoveCurrent
  <1>16. CASE PutBackMain BY <1>b, <1>16 DEF PutBackMain
  <1>17. CASE PutBackWal BY <1>b, <1>17 DEF PutBackWal
  <1>18. CASE LogStays
    <2>1. UNCHANGED <<replaced, guarded, main, wal, staged, backup, temp, began, Current>>
          /\ \/ at = "undo" /\ at' = "copy"
             \/ at = "close" /\ at' = "overwrite"
      BY <1>18, DiskSame, FaultPlace DEF LogStays
    <2>2. at = "undo" => Exists(main)
      BY <1>a, <1>b, DiskFacts, ContentFacts DEF StartInv, Opened, Current
    <2> QED BY <1>b, <2>1, <2>2
  <1>19. CASE RestoreStepFails
    <2>1. /\ UNCHANGED <<replaced, guarded, main, wal, staged, backup, temp, began>>
          /\ tidy' = FALSE /\ at' = "recover"
          /\ at \in {"copy", "copying", "stage", "replace", "validate"}
      BY <1>19, DiskSame, FaultPlace DEF RestoreStepFails
    <2> QED BY <1>b, <2>1
  <1>20. CASE CleanupFails
    <2>1. /\ UNCHANGED <<replaced, guarded, main, wal, staged, backup, temp, began>>
          /\ tidy' = FALSE
          /\ \/ at = "delete_main" /\ at' = "delete_wal"
             \/ at = "delete_wal" /\ at' = "refused"
             \/ at = "recover" /\ at' = "put_back_main"
             \/ at = "put_back_main" /\ at' = "put_back_wal"
             \/ at = "put_back_wal" /\ at' = "remove_temp"
             \/ at = "remove_temp" /\ at' = "refused"
      BY <1>20, DiskSame, FaultPlace DEF CleanupFails
    <2> QED BY <1>b, <2>1
  <1>21. CASE Commit \/ Checkpoint \/ SaveBackup \/ ChooseBackup \/ CloseForCopy \/ BeginOverwrite
              \/ Exit \/ Crash \/ Resolve
    <2>1. at' \in {"ready", "close", "overwrite", "overwriting", "down"}
      BY <1>21 DEF Commit, Checkpoint, SaveBackup, ChooseBackup, CloseForCopy, BeginOverwrite,
           Exit, Crash, Resolve, CloseConnection
    <2> QED BY <2>1
  <1>22. CASE EndOverwrite
    <2>1. at' = "connected" /\ replaced' = FALSE /\ guarded' = FALSE BY <1>22 DEF EndOverwrite
    <2> QED BY <2>1
  <1>23. CASE UNCHANGED vars BY <1>b, <1>23, DiskSame DEF vars
  <1> QED BY <1>1, <1>2, <1>3, <1>4, <1>5, <1>6, <1>7, <1>8, <1>9, <1>10, <1>11, <1>12, <1>13, <1>14,
             <1>15, <1>16, <1>17, <1>18, <1>19, <1>20, <1>21, <1>22, <1>23, <1>40 DEF Next, Restore, Use

\* The GUI's restore: only choosing a backup, and writing one, matter.
LEMMA OverwriteStep == SafeInv /\ [Next]_vars => OverwriteInv'
  <1> SUFFICES ASSUME SafeInv, [Next]_vars PROVE OverwriteInv' OBVIOUS
  <1>b. OverwriteInv BY DEF SafeInv
  <1> USE DEF OverwriteInv, Go, Same, history, memory
  <1>1. CASE LogStays BY <1>b, <1>1, DiskSame, FaultPlace DEF LogStays
  <1>2. CASE ChooseBackup BY <1>b, <1>2, DiskSame DEF ChooseBackup
  <1>3. CASE CloseForCopy BY <1>b, <1>3 DEF CloseForCopy, CloseConnection
  <1>4. CASE BeginOverwrite BY <1>b, <1>4 DEF BeginOverwrite
  <1>5. CASE UNCHANGED vars BY <1>b, <1>5 DEF vars, disk
  <1>6. CASE ~(LogStays \/ ChooseBackup \/ CloseForCopy \/ BeginOverwrite \/ UNCHANGED vars)
    <2>1. at' \notin {"close", "overwrite", "overwriting"}
      BY <1>6 DEF Next, Restore, Use, Connect, Refuse, Begin, ForeignKeysFail, Backup, Migrate, MigrationFails,
           CloseForRestore, BeginCopy, EndCopy, Stage, Replace, Validate, DeleteMain, DeleteWal, Delete,
           RemoveCurrent, PutBackMain, PutBackWal, RemoveTemp, RestoreStepFails, CleanupFails,
           Commit, Checkpoint, SaveBackup, EndOverwrite, Exit, Crash, Resolve, CloseConnection
    <2> QED BY <2>1
  <1> QED BY <1>1, <1>2, <1>3, <1>4, <1>5, <1>6

----------------------------------------------------------------------------
(* Rows *)

\* What was set aside, with what was not, makes up a database that has the rows.
LEMMA OriginalSurvives ==
  ASSUME promised # 0, Content(Original, OriginalLog).rows = promised
  PROVE  Survives
  <1>1. <<Original, OriginalLog>> \in Leftovers BY DEF Original, OriginalLog, Leftovers
  <1>2. ~Stale => Current = Content(Original, OriginalLog) BY DEF Stale, Current, Original, OriginalLog
  <1> QED BY <1>1, <1>2 DEF Survives

\* So does a database without a log.
LEMMA MainSurvives ==
  ASSUME promised # 0, main \in Files, main.rows = promised, ~Exists(wal)
  PROVE  Survives
  <1>1. <<main, Absent>> \in Leftovers BY DEF Leftovers
  <1>2. Content(main, Absent) = main BY FileKinds, ContentFacts
  <1>3. Current = main BY DEF Current, Content
  <1> QED BY <1>1, <1>2, <1>3 DEF Survives

LEMMA CurrentSurvives ==
  ASSUME promised # 0, Current.rows = promised, ~Stale
  PROVE  Survives
  BY DEF Survives

LEMMA CalmOriginal == ~Stale => Content(Original, OriginalLog) = Current
  BY DEF Stale, Original, OriginalLog, Current

LEMMA RowsStay == SafeInv /\ [Next]_vars /\ ~torn' => KeptInv'
  <1> SUFFICES ASSUME SafeInv, [Next]_vars, ~torn' PROVE KeptInv' OBVIOUS
  <1>a. FilesInv /\ DiskTypes BY FilesSplit DEF SafeInv
  <1>b. StartInv /\ RestoreInv /\ OverwriteInv BY DEF SafeInv
  <1>k. ~torn => KeptInv BY DEF SafeInv
  <1>f. (FilesInv <=> RestTypes /\ DiskTypes)' BY FilesSplit, PTL
  <1>e. FilesInv' /\ DiskTypes' BY <1>f, RestStep, DiskStep
  <1>s. StartInv' /\ RestoreInv' BY StartStep, RestoreStep
  <1>p. promised \in Int BY <1>a DEF FilesInv, TypeOK
  <1> USE DEF KeptInv, Go, Same, Restoring, Restored, Recovering, Opened, Calm, history, memory
  <1>0. ASSUME ~torn, UNCHANGED <<disk, promised>>,
               at' \in {"down", "refused", "connected"}
        PROVE  KeptInv'
    BY <1>0, <1>k, DiskSame DEF Survives
  <1>1. CASE Connect
    <2>1. /\ main' = (IF Exists(main) THEN main ELSE Blank) /\ at' = "connected" /\ ~torn
          /\ Stale' = Stale /\ UNCHANGED <<wal, staged, promised>>
      BY <1>1 DEF Connect, Stale
    <2>2. CASE Stale
      <3>1. PICK pair \in Leftovers : Content(pair[1], pair[2]).rows = promised
        BY <1>k, <2>1, <2>2 DEF Survives
      <3>2. pair[1] # Absent
        BY <1>k, <2>1, <3>1, FileKinds DEF Content, Survives
      <3>3. pair \in Leftovers' BY <2>1, <3>2 DEF Leftovers, Exists
      <3> QED BY <1>k, <2>1, <2>2, <3>1, <3>3 DEF Survives
    <2>3. CASE ~Stale
      <3>1. CASE Exists(main) BY <1>k, <2>1, <2>3, <3>1 DEF Survives, Current
      <3>2. CASE ~Exists(main)
        <4>1. Current = Absent /\ Current' = Blank
          BY <2>1, <3>2, FileKinds DEF Current, Content, Exists
        <4> QED BY <1>k, <2>1, <2>3, <4>1, FileKinds DEF Survives
      <3> QED BY <3>1, <3>2
    <2> QED BY <2>2, <2>3
  <1>2. CASE Refuse BY <1>0, <1>2 DEF Refuse
  <1>3. CASE Begin
    <2>1. /\ main' = (IF main = Blank THEN Fresh ELSE main)
          /\ wal' = (IF main = Blank THEN Absent ELSE wal)
          /\ at = "connected" /\ ~Stale /\ Stale' = Stale /\ ~torn /\ UNCHANGED <<promised, guarded, backup>>
          /\ at' \in {"refused", "ready", "migrate", "checkpoint"}
      BY <1>3 DEF Begin, Stale
    <2>2. Current'.rows = promised
      <3>1. CASE main = Blank
        <4>1. Current.rows = 0 BY <3>1, FileKinds DEF Current, Content
        <4>2. Current' = Fresh BY <2>1, <3>1, FileKinds DEF Current, Content
        <4> QED BY <1>k, <2>1, <4>1, <4>2, FileKinds DEF Survives
      <3>2. CASE main # Blank
        <4>1. Current' = Current BY <2>1, <3>2 DEF Current
        <4>2. Exists(main) BY <1>b, <2>1 DEF StartInv
        <4>3. Current.rows # 0 BY <1>a, <3>2, <4>2, CurrentKind, DiskFacts, ContentFacts, FileKinds
                 DEF Exists, Current, DiskTypes, Content
        <4> QED BY <1>k, <2>1, <4>1, <4>3 DEF Survives
      <3> QED BY <3>1, <3>2
    <2>3. promised' # 0 /\ Current'.rows = promised' /\ ~Stale' BY <1>k, <2>1, <2>2 DEF Survives
    <2> QED BY <1>b, <2>1, <2>3 DEF Survives, RestoreInv
  <1>40. CASE ForeignKeysFail BY <1>0, <1>40 DEF ForeignKeysFail
  <1>4. CASE Backup
    <2>1. Current' = Current /\ backup' = Current BY <1>a, <1>4, FoldLog DEF Backup
    <2>3. ~Stale' BY <1>b, <1>4 DEF Backup, Stale, StartInv
    <2>2. at' = "migrate" /\ ~torn /\ promised' = promised /\ at = "checkpoint" BY <1>4 DEF Backup
    <2> QED BY <1>k, <2>1, <2>2, <2>3 DEF Survives
  <1>5. CASE Migrate
    <2>1. Current.rows >= 1 /\ Current.version < Latest BY <1>b, <1>5 DEF Migrate, StartInv
    <2>2. wal' \in Files /\ wal'.file = Current.file /\ wal'.rows = Current.rows
      BY <1>a, <1>5, <2>1, DiskFacts, EditFacts DEF Migrate
    <2>3. Current' = wal' BY <1>a, <1>5, <2>1, <2>2, WriteLog DEF Migrate
    <2>4. ~Stale' BY <1>b, <1>5 DEF Migrate, Stale, StartInv
    <2>5. /\ at' \in {"ready", "migrate"} /\ at = "migrate" /\ ~torn
          /\ UNCHANGED <<promised, guarded, backup>>
      BY <1>5 DEF Migrate
    <2> QED BY <1>k, <2>2, <2>3, <2>4, <2>5 DEF Survives
  <1>6. CASE MigrationFails
    <2>1. /\ at' \in {"undo", "refused"} /\ at = "migrate" /\ ~torn /\ ~Stale
          /\ UNCHANGED <<disk, promised, guarded>> /\ (at' = "undo" => guarded)
      BY <1>b, <1>6 DEF MigrationFails, StartInv
    <2>2. Content(Original, OriginalLog).rows = promised BY <1>k, <2>1, CalmOriginal
    <2> QED BY <1>k, <2>1, <2>2, DiskSame DEF Survives
  <1>7. CASE CloseForRestore
    <2>1. Current' = Current /\ Stale' = Stale /\ UNCHANGED <<promised, guarded, backup>>
          /\ at = "undo" /\ at' = "copy" /\ ~torn /\ ~Stale
      BY <1>a, <1>b, <1>7, FoldLog DEF CloseForRestore, CloseConnection, Stale, StartInv
    <2>2. (~Stale => Content(Original, OriginalLog) = Current)' BY CalmOriginal, PTL
    <2> QED BY <1>k, <2>1, <2>2 DEF Survives
  <1>8. ASSUME ~torn', ~torn, UNCHANGED <<promised, guarded, backup, Original, OriginalLog>>,
               at \in {"validate"} \cup (Restoring \ Restored),
               at' \in (Restoring \ (Restored \cup {"undo"})) \cup {"validate", "refused"},
               guarded \/ at' = "refused",
               at' \in Restoring \ Recovering => at \in Restoring \ Recovering
        PROVE  KeptInv'
    <2>1. promised' # 0 /\ Content(Original', OriginalLog').rows = promised'
      BY <1>k, <1>8 DEF Survives
    <2>2. (promised # 0 /\ Content(Original, OriginalLog).rows = promised => Survives)'
      BY OriginalSurvives, PTL
    <2> QED BY <1>k, <1>8, <2>1, <2>2
  <1>9. CASE BeginCopy \/ EndCopy
    <2>1. UNCHANGED <<main, wal, staged, promised, torn, guarded, backup>>
          /\ at \in {"copy", "copying"} /\ at' \in {"copying", "stage"}
      BY <1>9 DEF BeginCopy, EndCopy
    <2>2. UNCHANGED <<Original, OriginalLog>> BY <2>1 DEF Original, OriginalLog
    <2> QED BY <1>8, <1>b, <2>1, <2>2 DEF RestoreInv
  <1>10. CASE Stage
    <2>1. UNCHANGED <<promised, torn, guarded, backup>> /\ at = "stage" /\ at' \in {"stage", "replace"}
      BY <1>10 DEF Stage
    <2>2. UNCHANGED <<Original, OriginalLog>>
      <3> USE DEF Original, OriginalLog
      <3>1. CASE /\ Exists(main)
                 /\ staged' = [staged EXCEPT !.main = main] /\ main' = Absent
                 /\ UNCHANGED wal
        <4>1. staged'.main = main /\ staged'.wal = staged.wal BY <1>a, <3>1 DEF DiskTypes
        <4> QED BY <1>b, <2>1, <3>1, <4>1 DEF RestoreInv
      <3>2. CASE /\ ~Exists(main) /\ Exists(wal)
                 /\ staged' = [staged EXCEPT !.wal = wal] /\ wal' = Absent
                 /\ UNCHANGED main
        <4>1. staged'.main = staged.main /\ staged'.wal = wal BY <1>a, <3>2 DEF DiskTypes
        <4> QED BY <1>b, <2>1, <3>2, <4>1 DEF RestoreInv
      <3>3. CASE UNCHANGED <<main, wal, staged>> BY <3>3
      <3> QED BY <1>10, <3>1, <3>2, <3>3 DEF Stage
    <2> QED BY <1>8, <1>b, <2>1, <2>2 DEF RestoreInv
  <1>11. CASE Replace
    <2>1. UNCHANGED <<wal, staged, promised, torn, guarded, backup>> /\ at = "replace" /\ at' = "validate"
      BY <1>11 DEF Replace
    <2>2. UNCHANGED <<Original, OriginalLog>>
      BY <1>b, <2>1 DEF Original, OriginalLog, RestoreInv
    <2> QED BY <1>8, <1>b, <2>1, <2>2 DEF RestoreInv
  <1>12. CASE Validate
    <2>1. UNCHANGED <<disk, promised, torn, guarded>> /\ at = "validate" /\ at' = "delete_main"
      BY <1>12 DEF Validate
    <2> QED BY <1>k, <1>b, <2>1, DiskSame DEF Survives, RestoreInv
  <1>13. CASE DeleteMain \/ DeleteWal
    <2>1. UNCHANGED <<main, wal, backup, promised, torn, guarded>> /\ at \in {"delete_main", "delete_wal"}
          /\ at' \in {"delete_wal", "refused"}
      BY <1>13 DEF DeleteMain, DeleteWal, Delete
    <2>2. ~Exists(wal') /\ main'.rows = promised' /\ main' \in Files /\ promised' # 0
      BY <1>a, <1>b, <1>k, <2>1 DEF RestoreInv, Survives, DiskTypes
    <2>3. (promised # 0 /\ main \in Files /\ main.rows = promised /\ ~Exists(wal) => Survives)'
      BY MainSurvives, PTL
    <2> QED BY <1>k, <1>b, <2>1, <2>2, <2>3 DEF RestoreInv
  <1>14. CASE RemoveCurrent
    <2>1. UNCHANGED <<staged, promised, torn, guarded, backup>> /\ at = "recover" /\ at' = "put_back_main"
      BY <1>14 DEF RemoveCurrent
    <2>2. UNCHANGED <<main, wal>> BY <1>b, <1>14 DEF RemoveCurrent, RestoreInv, Exists
    <2>3. UNCHANGED <<Original, OriginalLog>> BY <2>1, <2>2 DEF Original, OriginalLog
    <2> QED BY <1>8, <1>b, <2>1, <2>3 DEF RestoreInv
  <1>15. CASE PutBackMain
    <2>1. UNCHANGED <<wal, promised, torn, guarded, backup>> /\ at = "put_back_main" /\ at' = "put_back_wal"
          /\ staged' = [staged EXCEPT !.main = Absent]
          /\ main' = IF Exists(staged.main) THEN staged.main ELSE main
      BY <1>15 DEF PutBackMain
    <2>2. staged'.main = Absent /\ staged'.wal = staged.wal BY <1>a, <2>1 DEF DiskTypes
    <2>3. UNCHANGED <<Original, OriginalLog>> BY <2>1, <2>2, FileKinds DEF Original, OriginalLog
    <2> QED BY <1>8, <1>b, <2>1, <2>3 DEF RestoreInv
  <1>16. CASE PutBackWal
    <2>1. UNCHANGED <<main, promised, torn, guarded, backup>> /\ at = "put_back_wal" /\ at' = "remove_temp"
          /\ staged' = [staged EXCEPT !.wal = Absent]
          /\ wal' = IF Exists(staged.wal) THEN staged.wal ELSE wal
      BY <1>16 DEF PutBackWal
    <2>2. staged'.wal = Absent /\ staged'.main = staged.main BY <1>a, <2>1 DEF DiskTypes
    <2>3. UNCHANGED <<Original, OriginalLog>> BY <2>1, <2>2, FileKinds DEF Original, OriginalLog
    <2> QED BY <1>8, <1>b, <2>1, <2>3 DEF RestoreInv
  <1>17. CASE RemoveTemp
    <2>1. UNCHANGED <<main, wal, staged, promised, torn, guarded, backup>>
          /\ at = "remove_temp" /\ at' = "refused"
      BY <1>17 DEF RemoveTemp
    <2>2. UNCHANGED <<Original, OriginalLog>> BY <2>1 DEF Original, OriginalLog
    <2> QED BY <1>8, <2>1, <2>2
  <1>18. CASE LogStays
    <2>1. UNCHANGED <<disk, promised, torn, guarded>>
          /\ \/ at = "undo" /\ at' = "copy"
             \/ at = "close" /\ at' = "overwrite"
      BY <1>18, FaultPlace DEF LogStays
    <2> QED BY <1>k, <2>1, DiskSame DEF Survives
  <1>19. CASE RestoreStepFails
    <2>1. UNCHANGED <<disk, promised, torn, guarded>> /\ at' = "recover"
          /\ at \in {"copy", "copying", "stage", "replace", "validate"}
      BY <1>19, FaultPlace DEF RestoreStepFails
    <2> QED BY <1>k, <2>1, DiskSame DEF Survives
  <1>20. CASE CleanupFails
    <2>1. /\ UNCHANGED <<disk, promised, torn, guarded>>
          /\ \/ at = "delete_main" /\ at' = "delete_wal"
             \/ at = "delete_wal" /\ at' = "refused"
             \/ at = "recover" /\ at' = "put_back_main"
             \/ at = "put_back_main" /\ at' = "put_back_wal"
             \/ at = "put_back_wal" /\ at' = "remove_temp"
             \/ at = "remove_temp" /\ at' = "refused"
      BY <1>20, FaultPlace DEF CleanupFails
    <2> QED BY <1>k, <2>1, DiskSame DEF Survives
  <1>21. CASE Commit
    <2>1. Current.rows >= 1 /\ Current.rows < MaxRows /\ ~Stale BY <1>b, <1>21 DEF Commit, StartInv
    <2>2. Current.rows \in Int BY <1>a, DiskFacts, Fields
    <2>3. wal' \in Files /\ wal'.file = Current.file /\ wal'.rows = Current.rows + 1
      BY <1>a, <1>21, <2>1, DiskFacts, EditFacts DEF Commit
    <2>4. wal'.rows >= 1 BY <2>1, <2>2, <2>3
    <2>5. Current' = wal' BY <1>a, <1>21, <2>1, <2>3, <2>4, WriteLog DEF Commit
    <2>6. Stale' = Stale /\ at' = "ready" /\ promised' = Current.rows + 1 BY <1>21 DEF Commit, Stale
    <2>7. promised' # 0 BY <2>1, <2>2, <2>6
    <2> QED BY <2>1, <2>3, <2>5, <2>6, <2>7 DEF Survives
  <1>22. CASE Checkpoint \/ SaveBackup \/ ChooseBackup \/ CloseForCopy \/ Exit
    <2>1. /\ at \in {"ready", "close"} /\ at' \in {"ready", "close", "overwrite", "down"}
          /\ UNCHANGED <<promised, torn>>
      BY <1>22 DEF Checkpoint, SaveBackup, ChooseBackup, CloseForCopy, Exit, CloseConnection
    <2>2. Stale' = Stale
      BY <1>22 DEF Checkpoint, SaveBackup, ChooseBackup, CloseForCopy, Exit, CloseConnection, Stale, disk
    <2>3. Current' = Current
      <3>1. CASE Checkpoint \/ CloseForCopy \/ Exit
        BY <1>a, <3>1, FoldLog DEF Checkpoint, CloseForCopy, Exit, CloseConnection
      <3>2. CASE SaveBackup \/ ChooseBackup BY <3>2 DEF SaveBackup, ChooseBackup, Current, disk
      <3> QED BY <1>22, <3>1, <3>2
    <2>4. ~Stale BY <1>b, <2>1 DEF StartInv
    <2> QED BY <1>k, <2>1, <2>2, <2>3, <2>4 DEF Survives
  <1>23. CASE BeginOverwrite BY <1>23 DEF BeginOverwrite
  <1>24. CASE EndOverwrite
    <2>1. /\ ~Exists(wal') /\ at' = "connected" /\ guarded' = FALSE /\ main' = Copy(saved, saved)
          /\ at = "overwriting" /\ UNCHANGED <<promised, saved>>
      BY <1>24 DEF EndOverwrite
    <2>2. main'.rows = promised' /\ promised' # 0
      <3>1. saved.rows # 0 /\ promised = saved.rows BY <1>a, <1>b, <2>1 DEF OverwriteInv, Exists, DiskTypes
      <3> QED BY <1>a, <2>1, <3>1, DiskFacts, CopyFacts
    <2>3. (promised # 0 /\ main \in Files /\ main.rows = promised /\ ~Exists(wal) => Survives)'
      BY MainSurvives, PTL
    <2> QED BY <1>e, <2>1, <2>2, <2>3 DEF DiskTypes
  <1>25. CASE Crash BY <1>0, <1>25, FaultPlace DEF Crash
  <1>26. CASE Resolve
    <2>1. PICK pair \in Leftovers :
            Content(pair[1], pair[2]).rows = promised /\ main' = pair[1] /\ wal' = pair[2]
      BY <1>26 DEF Resolve
    <2>2. /\ temp' = Absent /\ staged' = [main |-> Absent, wal |-> Absent] /\ at' = "down"
          /\ UNCHANGED <<promised, torn>>
      BY <1>26 DEF Resolve
    <2>3. ~Stale' BY <2>2, FileKinds DEF Stale
    <2>4. Current'.rows = promised' BY <2>1, <2>2 DEF Current
    <2> QED BY <1>k, <2>2, <2>3, <2>4 DEF Survives
  <1>27. CASE UNCHANGED vars BY <1>k, <1>27, DiskSame DEF vars, Survives
  <1> QED BY <1>1, <1>2, <1>3, <1>4, <1>5, <1>6, <1>7, <1>9, <1>10, <1>11, <1>12, <1>13, <1>14,
             <1>15, <1>16, <1>17, <1>18, <1>19, <1>20, <1>21, <1>22, <1>23, <1>24, <1>25, <1>26, <1>27,
             <1>40 DEF Next, Restore, Use

LEMMA SafeInit == Init => SafeInv
  <1> SUFFICES ASSUME Init PROVE SafeInv OBVIOUS
  <1>1. /\ main = Absent \/ \E v \in 0..Latest : main = [file |-> 0, version |-> v, rows |-> 2]
        /\ wal = Absent /\ backup = Absent /\ temp = Absent /\ saved = Absent
        /\ staged = [main |-> Absent, wal |-> Absent]
        /\ at = "down" /\ replaced = FALSE /\ guarded = FALSE /\ torn = FALSE /\ tidy = TRUE
        /\ failures = 0 /\ faults = 0
    BY DEF Init
  <1>2. main \in Files /\ (main = Absent \/ main.rows = 2) BY <1>1, FileKinds, DatabaseFilesAssumption DEF Files
  <1>3. promised = (IF Exists(main) THEN 2 ELSE 1) /\ began = main.version BY DEF Init
  <1>4. RestTypes
    <2>1. began \in 0..Latest BY <1>2, <1>3, Fields
    <2>2. promised \in -1..MaxRows /\ failures \in 0..MaxFailures /\ faults \in 0..MaxFaults
      BY <1>1, <1>3, DatabaseFilesAssumption
    <2> QED BY <1>1, <2>1, <2>2 DEF RestTypes
  <1>5. DiskTypes BY <1>1, <1>2, FileKinds DEF DiskTypes
  <1>6. ~Stale BY <1>1, FileKinds DEF Stale
  <1>7. Current = main BY <1>1, FileKinds DEF Current, Content
  <1>8. Survives BY <1>2, <1>3, <1>6, <1>7, FileKinds DEF Survives, Exists
  <1>9. StartInv BY <1>1, <1>6 DEF StartInv, Calm, Opened
  <1>10. RestoreInv BY <1>1 DEF RestoreInv, Restoring, Restored, Recovering
  <1>11. OverwriteInv BY <1>1 DEF OverwriteInv
  <1>12. KeptInv BY <1>1, <1>8 DEF KeptInv, Opened, Restoring, Restored, Recovering
  <1> QED BY <1>4, <1>5, <1>9, <1>10, <1>11, <1>12, FilesSplit DEF SafeInv

LEMMA SafeStep == SafeInv /\ [Next]_vars => SafeInv'
  <1>1. (FilesInv <=> RestTypes /\ DiskTypes)' BY FilesSplit, PTL
  <1> QED BY <1>1, RestStep, DiskStep, StartStep, RestoreStep, OverwriteStep, RowsStay DEF SafeInv

LEMMA Safety == Spec => []SafeInv
  BY SafeInit, SafeStep, PTL DEF Spec

\* Every variable keeps its type (Database and its files).
THEOREM FilesTypeCorrect == Spec => []TypeOK
  <1>1. SafeInv => TypeOK BY DEF SafeInv, FilesInv
  <1> QED BY <1>1, Safety, PTL

\* The application never runs on less than what was committed, wherever an earlier
\* start, its migration, its restore or the recovery of its restore was cut off or
\* failed (initialize, _restore_backup, _recover_failed_restore).
THEOREM ApplicationRunsOnWhole == Spec => []RunsOnWhole
  <1>1. SafeInv => RunsOnWhole BY DEF SafeInv, StartInv, KeptInv, Opened, RunsOnWhole
  <1> QED BY <1>1, Safety, PTL

\* While the application is down its committed rows are in the database or in files
\* that make up one, and a start that failed without a fault of the disk has put
\* everything back (_detect_stale_restore_files, _recover_failed_restore).
THEOREM CommittedRowsSurvive == Spec => []RowsSurvive
  <1>1. SafeInv => RowsSurvive
    BY DEF SafeInv, StartInv, KeptInv, Survives, RowsSurvive
  <1> QED BY <1>1, Safety, PTL
=============================================================================
