--------------------------- MODULE DatabaseFiles ----------------------------
(***************************************************************************)
(* The files of the database: Database.initialize migrates the schema,     *)
(* behind a backup that it restores by renames when a migration fails; the *)
(* GUI saves a backup of its own by a copy and restores it by another.     *)
(* The process may die between any two steps, and file operations fail.    *)
(*                                                                         *)
(* A file holds a schema version and the rows of some commit, by number;   *)
(* file tells a database from the one that replaces it, since a write-     *)
(* ahead log belongs to one of them only.  Left out: the -shm and -journal *)
(* files and other processes that have the database open.                  *)
(*                                                                         *)
(* An operator Name_Variant is a plausible mistake in Name, used by        *)
(* nothing: it shows which property would catch it.                        *)
(***************************************************************************)
EXTENDS Integers

CONSTANTS
  Latest,      \* latest_schema_version
  MaxRows,     \* bound on commits
  MaxFailures, \* bound on failing migrations
  MaxFaults    \* bound on failing file operations and crashes

ASSUME DatabaseFilesAssumption ==
  /\ Latest \in Nat \ {0} /\ MaxRows \in Nat /\ MaxRows >= 2
  /\ MaxFailures \in Nat /\ MaxFaults \in Nat

VARIABLES
  main,     \* the database file
  wal,      \* its -wal file
  backup,   \* the backup of the initialization under way
  temp,     \* the .restore. file
  staged,   \* the .rollback. files of main and wal
  saved,    \* the GUI's backup
  at,       \* where the process is
  replaced, \* _restore_backup: restore_replaced_target
  guarded,  \* initialize: there is a backup_path
  promised, \* the rows of the last commit, or of the backup the user chose
  began,    \* history: the schema version the initialization found
  tidy,     \* history: no fault since the initialization began
  torn,     \* history: the GUI's restore was interrupted
  failures, faults

disk == <<main, wal, backup, temp, staged, saved>>
memory == <<at, replaced, guarded>>
history == <<promised, began, tidy, torn>>
counts == <<failures, faults>>
vars == <<disk, memory, history, counts>>

\* rows: -1 unreadable, 0 none, not even a database, 1 none of the user's
Absent == [file |-> 0, version |-> 0, rows |-> 0]
Blank == [file |-> 1, version |-> 0, rows |-> 0]
Fresh == [file |-> 1, version |-> 0, rows |-> 1]
Garbage == [file |-> 0, version |-> 0, rows |-> -1]
Exists(f) == f # Absent

\* A copy of database d that is to replace database e
Copy(d, e) == [d EXCEPT !.file = 1 - e.file]

\* What a connection reads; the log of an empty file is thrown away
Content(m, w) ==
  IF ~Exists(w) \/ m.rows = 0 THEN m ELSE IF w.file = m.file THEN w ELSE Garbage

Current == Content(main, wal)

\* _has_user_schema: a version, or tables from before versions were recorded
HasUserSchema(f) == f.version > 0 \/ f.rows > 1

Init ==
  /\ main \in {Absent} \cup {[file |-> 0, version |-> v, rows |-> 2] : v \in 0..Latest}
  /\ wal = Absent /\ backup = Absent /\ temp = Absent /\ saved = Absent
  /\ staged = [main |-> Absent, wal |-> Absent]
  /\ at = "down" /\ replaced = FALSE /\ guarded = FALSE
  /\ promised = IF Exists(main) THEN 2 ELSE 1
  /\ began = main.version /\ tidy = TRUE /\ torn = FALSE
  /\ failures = 0 /\ faults = 0

Go(place) == at' = place /\ UNCHANGED <<replaced, guarded>>

Fault ==
  /\ faults < MaxFaults /\ faults' = faults + 1
  /\ tidy' = FALSE
  /\ UNCHANGED <<failures, promised, began, torn>>

Same == UNCHANGED <<history, counts>>

----------------------------------------------------------------------------
(* initialize *)

Stale_RestoreOnly == Exists(temp)

\* _detect_stale_restore_files
Stale == Exists(temp) \/ Exists(staged.main) \/ Exists(staged.wal)

\* Database.__init__ connects, which creates a missing file
Connect ==
  /\ at \in {"down", "refused"}
  /\ main' = IF Exists(main) THEN main ELSE Blank
  /\ at' = "connected" /\ replaced' = FALSE /\ guarded' = FALSE
  /\ UNCHANGED <<wal, backup, temp, staged, saved, history, counts>>

Refuse ==
  /\ at = "connected" /\ Stale
  /\ Go("refused")
  /\ UNCHANGED <<disk, history, counts>>

\* _enable_wal, which throws away the log of an empty file, and the version
Begin ==
  /\ at = "connected" /\ ~Stale
  /\ main' = IF main = Blank THEN Fresh ELSE main
  /\ wal' = IF main = Blank THEN Absent ELSE wal
  /\ began' = Content(main', wal').version
  /\ Go(IF Content(main', wal').rows = -1 THEN "refused"
        ELSE IF began' = Latest THEN "ready"
        ELSE IF HasUserSchema(Content(main', wal')) THEN "checkpoint" ELSE "migrate")
  /\ tidy' = TRUE
  /\ UNCHANGED <<backup, temp, staged, saved, promised, torn, counts>>

\* Rows at the latest version refer to missing ones: the start ends without a backup.
ForeignKeysFail ==
  /\ at = "connected" /\ ~Stale
  /\ Current.version = Latest
  /\ Go("refused")
  /\ began' = Latest /\ tidy' = TRUE
  /\ UNCHANGED <<disk, promised, torn, counts>>

\* _checkpoint_wal_for_migration and _create_backup
Backup ==
  /\ at = "checkpoint"
  /\ main' = Current /\ wal' = Absent /\ backup' = Current
  /\ at' = "migrate" /\ guarded' = TRUE /\ UNCHANGED replaced
  /\ UNCHANGED <<temp, staged, saved, history, counts>>

\* The loop runs once too often
Migrate_OneMore ==
  /\ at = "migrate"
  /\ wal' = [Current EXCEPT !.version = @ + 1]
  /\ Go(IF Current.version = Latest THEN "ready" ELSE "migrate")
  /\ UNCHANGED <<main, backup, temp, staged, saved, history, counts>>

\* One migration, with its version, in one transaction
Migrate ==
  /\ at = "migrate"
  /\ wal' = [Current EXCEPT !.version = @ + 1]
  /\ Go(IF Current.version + 1 = Latest THEN "ready" ELSE "migrate")
  /\ UNCHANGED <<main, backup, temp, staged, saved, history, counts>>

MigrationFails ==
  /\ at = "migrate" /\ failures < MaxFailures
  /\ failures' = failures + 1
  /\ Go(IF guarded THEN "undo" ELSE "refused")
  /\ UNCHANGED <<disk, history, faults>>

----------------------------------------------------------------------------
(* _restore_backup *)

\* Closing the connection moves the log into the database
CloseConnection(next) ==
  /\ main' = Current /\ wal' = Absent
  /\ Go(next)
  /\ UNCHANGED <<backup, temp, staged, saved>>

CloseForRestore == at = "undo" /\ CloseConnection("copy") /\ Same

\* ... unless its checkpoint fails
LogStays ==
  /\ at \in {"undo", "close"}
  /\ Fault
  /\ Go(IF at = "undo" THEN "copy" ELSE "overwrite")
  /\ UNCHANGED disk

BeginCopy ==
  /\ at = "copy"
  /\ temp' = Garbage
  /\ Go("copying")
  /\ UNCHANGED <<main, wal, backup, staged, saved, history, counts>>

EndCopy ==
  /\ at = "copying"
  /\ temp' = Copy(backup, main)
  /\ Go("stage")
  /\ UNCHANGED <<main, wal, backup, staged, saved, history, counts>>

\* _stage_current_database_files, a file at a time
Stage ==
  /\ at = "stage"
  /\ \/ /\ Exists(main)
        /\ staged' = [staged EXCEPT !.main = main] /\ main' = Absent
        /\ Go("stage") /\ UNCHANGED wal
     \/ /\ ~Exists(main) /\ Exists(wal)
        /\ staged' = [staged EXCEPT !.wal = wal] /\ wal' = Absent
        /\ Go("stage") /\ UNCHANGED main
     \/ /\ ~Exists(main) /\ ~Exists(wal)
        /\ Go("replace") /\ UNCHANGED <<main, wal, staged>>
  /\ UNCHANGED <<backup, temp, saved, history, counts>>

Replace ==
  /\ at = "replace"
  /\ main' = temp /\ temp' = Absent
  /\ at' = "validate" /\ replaced' = TRUE /\ UNCHANGED guarded
  /\ UNCHANGED <<wal, backup, staged, saved, history, counts>>

\* The replaced file is validated and opened
Validate ==
  /\ at = "validate"
  /\ Go("delete_main")
  /\ UNCHANGED <<disk, history, counts>>

RestoreStepFails ==
  /\ at \in {"copy", "copying", "stage", "replace", "validate"}
  /\ Fault
  /\ Go("recover")
  /\ UNCHANGED disk

\* _delete_rollback_files; the error of the migration is raised in the end
Delete(which, place, next) ==
  /\ at = place
  /\ staged' = [staged EXCEPT ![which] = Absent]
  /\ Go(next)
  /\ UNCHANGED <<main, wal, backup, temp, saved, history, counts>>

DeleteMain == Delete("main", "delete_main", "delete_wal")
DeleteWal == Delete("wal", "delete_wal", "refused")

\* What is there is taken for what the restore has put there
RemoveCurrent_Always ==
  /\ at = "recover"
  /\ wal' = IF ~Exists(staged.wal) THEN Absent ELSE wal
  /\ main' = IF ~Exists(staged.main) THEN Absent ELSE main
  /\ Go("put_back_main")
  /\ UNCHANGED <<backup, temp, staged, saved, history, counts>>

\* _recover_failed_restore: what the restore has put there ...
RemoveCurrent ==
  /\ at = "recover"
  /\ wal' = IF replaced /\ ~Exists(staged.wal) THEN Absent ELSE wal
  /\ main' = IF replaced /\ ~Exists(staged.main) THEN Absent ELSE main
  /\ Go("put_back_main")
  /\ UNCHANGED <<backup, temp, staged, saved, history, counts>>

\* ... and the files that were moved away
PutBackMain ==
  /\ at = "put_back_main"
  /\ main' = IF Exists(staged.main) THEN staged.main ELSE main
  /\ staged' = [staged EXCEPT !.main = Absent]
  /\ Go("put_back_wal")
  /\ UNCHANGED <<wal, backup, temp, saved, history, counts>>

PutBackWal ==
  /\ at = "put_back_wal"
  /\ wal' = IF Exists(staged.wal) THEN staged.wal ELSE wal
  /\ staged' = [staged EXCEPT !.wal = Absent]
  /\ Go("remove_temp")
  /\ UNCHANGED <<main, backup, temp, saved, history, counts>>

RemoveTemp ==
  /\ at = "remove_temp"
  /\ temp' = Absent
  /\ Go("refused")
  /\ UNCHANGED <<main, wal, backup, staged, saved, history, counts>>

\* A file cannot be removed or moved: the others are dealt with all the same
CleanupFails ==
  /\ \E step \in {<<"delete_main", "delete_wal">>, <<"delete_wal", "refused">>,
                  <<"recover", "put_back_main">>, <<"put_back_main", "put_back_wal">>,
                  <<"put_back_wal", "remove_temp">>, <<"remove_temp", "refused">>} :
       at = step[1] /\ Go(step[2])
  /\ Fault
  /\ UNCHANGED disk

----------------------------------------------------------------------------
(* The running application *)

Commit ==
  /\ at = "ready" /\ Current.rows < MaxRows
  /\ wal' = [Current EXCEPT !.rows = @ + 1]
  /\ promised' = Current.rows + 1
  /\ UNCHANGED <<main, backup, temp, staged, saved, memory, began, tidy, torn, counts>>

Checkpoint ==
  /\ at = "ready" /\ Exists(wal)
  /\ main' = Current /\ wal' = Absent
  /\ UNCHANGED <<backup, temp, staged, saved, memory, history, counts>>

\* backup_database copies the database without its log
SaveBackup ==
  /\ at = "ready"
  /\ saved' = main
  /\ UNCHANGED <<main, wal, backup, temp, staged, memory, history, counts>>

\* restore_database: close, copy over the database, reopen
ChooseBackup ==
  /\ at = "ready" /\ Exists(saved)
  /\ Go("close")
  /\ UNCHANGED <<disk, history, counts>>

CloseForCopy == at = "close" /\ CloseConnection("overwrite") /\ Same

BeginOverwrite ==
  /\ at = "overwrite"
  /\ main' = Garbage
  /\ promised' = saved.rows /\ torn' = TRUE
  /\ Go("overwriting")
  /\ UNCHANGED <<wal, backup, temp, staged, saved, began, tidy, counts>>

\* A log that was left is taken for that of the copy: torn stays
EndOverwrite ==
  /\ at = "overwriting"
  /\ main' = Copy(saved, saved)
  /\ torn' = Exists(wal)
  /\ at' = "connected" /\ replaced' = FALSE /\ guarded' = FALSE
  /\ UNCHANGED <<wal, backup, temp, staged, saved, promised, began, tidy, counts>>

Exit == at = "ready" /\ CloseConnection("down") /\ Same

Crash ==
  /\ at \notin {"down", "refused"}
  /\ Fault
  /\ Go("down")
  /\ UNCHANGED disk

\* The files a user can make of what an interrupted restore has left
Leftovers == {main, staged.main} \X {wal, staged.wal, Absent}

Resolve ==
  /\ at \in {"down", "refused"} /\ Stale
  /\ \E pair \in Leftovers :
       /\ Content(pair[1], pair[2]).rows = promised
       /\ main' = pair[1] /\ wal' = pair[2]
  /\ temp' = Absent /\ staged' = [main |-> Absent, wal |-> Absent]
  /\ Go("down")
  /\ UNCHANGED <<backup, saved, history, counts>>

----------------------------------------------------------------------------
Restore ==
  \/ CloseForRestore \/ BeginCopy \/ EndCopy \/ Stage \/ Replace \/ Validate
  \/ DeleteMain \/ DeleteWal
  \/ RemoveCurrent \/ PutBackMain \/ PutBackWal \/ RemoveTemp

Use == Commit \/ Checkpoint \/ SaveBackup \/ ChooseBackup \/ CloseForCopy
         \/ BeginOverwrite \/ EndOverwrite \/ Exit

Next ==
  \/ Connect \/ Refuse \/ Begin \/ ForeignKeysFail \/ Backup \/ Migrate \/ MigrationFails
  \/ Restore \/ LogStays \/ RestoreStepFails \/ CleanupFails
  \/ Use \/ Crash \/ Resolve

Spec == Init /\ [][Next]_vars

----------------------------------------------------------------------------
(* Properties *)

Files == [file : {0, 1}, version : 0..Latest, rows : -1..MaxRows]

\* Every variable keeps its type (Database and its files).
TypeOK ==
  /\ {main, wal, backup, temp, saved, staged.main, staged.wal} \subseteq Files
  /\ at \in {"down", "refused", "connected", "checkpoint", "migrate", "undo", "copy",
             "copying", "stage", "replace", "validate", "delete_main", "delete_wal",
             "recover", "put_back_main", "put_back_wal", "remove_temp", "ready",
             "close", "overwrite", "overwriting"}
  /\ {replaced, guarded, tidy, torn} \subseteq BOOLEAN
  /\ promised \in -1..MaxRows /\ began \in 0..Latest
  /\ failures \in 0..MaxFailures /\ faults \in 0..MaxFaults

\* The application never runs on less than what was committed, wherever an
\* earlier start, its migration, its restore or the recovery of its restore was
\* cut off or failed (initialize, _restore_backup, _recover_failed_restore).
RunsOnWhole == at = "ready" /\ ~torn => Current.rows = promised /\ Current.version = Latest

\* While the application is down its committed rows are in the database, or,
\* with stale files in the way, in files that make up a database that has them.
\* A start that failed without any fault of the disk has put back the rows and
\* the schema it found, and leaves nothing that would stop the next one.
RowsSurvive ==
  at \in {"down", "refused"} /\ ~torn /\ promised > 1 =>
    /\ IF Stale THEN \E pair \in Leftovers : Content(pair[1], pair[2]).rows = promised
       ELSE Current.rows = promised
    /\ at = "refused" /\ tidy => ~Stale /\ Current.version = began
=============================================================================
