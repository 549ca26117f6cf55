---------------------------- MODULE DataMigrate ----------------------------
(***************************************************************************)
(* `optix data migrate` (datahome/migrate.go) next to the programs that    *)
(* write the source and those that may open the destination, and the       *)
(* choice of a database (datahome/paths.go, cli/data.go).  A file is what  *)
(* a reader would find in it: how many commits of the source, and whether  *)
(* the bytes are all there.  Any step may fail; the process may be killed  *)
(* and the machine may lose power, which keeps only what was synced.       *)
(***************************************************************************)
EXTENDS Naturals

CONSTANT MaxCommits             \* bound of the model

NoFile == [by |-> "nobody", commits |-> 0, whole |-> FALSE, durable |-> FALSE]

VARIABLES
    commits,        \* committed in the source (its WAL included)
    target,         \* the file at the destination
    sidecar,        \* is there a -wal, -shm or -journal file beside it
    backup, pending,    \* the two files of the staging directory
    pc, before,     \* ... of Migrate: its next step, commits when it began
    foreign         \* history: another program made the destination

vars == <<commits, target, sidecar, backup, pending, pc, before, foreign>>

Init ==
    /\ commits = 1 /\ target = NoFile /\ backup = NoFile /\ pending = NoFile
    /\ sidecar \in BOOLEAN /\ pc = "start" /\ before = 0 /\ foreign = FALSE

(* A step of Migrate: it goes on, or returns an error and removes the       *)
(* staging directory.                                                       *)
Fail ==
    /\ pc' = "failed" /\ backup' = NoFile /\ pending' = NoFile
    /\ UNCHANGED <<commits, target, sidecar, before, foreign>>

Check ==
    /\ pc = "start"
    /\ \/ /\ target = NoFile /\ ~sidecar
          /\ pc' = "snapshot" /\ before' = commits
          /\ UNCHANGED <<commits, target, sidecar, backup, pending, foreign>>
       \/ Fail

(* VACUUM INTO and the integrity check of what it wrote.                    *)
Snapshot ==
    /\ pc = "snapshot"
    /\ \/ /\ backup' = [by |-> "migrate", commits |-> commits, whole |-> TRUE, durable |-> FALSE]
          /\ pc' = "copy"
          /\ UNCHANGED <<commits, target, sidecar, pending, before, foreign>>
       \/ Fail

(* The copy, which may differ from what was read, is synced.                *)
Copy ==
    /\ pc = "copy"
    /\ \/ /\ \E whole \in BOOLEAN :
                pending' = [by |-> "migrate", commits |-> backup.commits,
                            whole |-> whole, durable |-> TRUE]
          /\ pc' = "compare"
          /\ UNCHANGED <<commits, target, sidecar, backup, before, foreign>>
       \/ Fail

TakenAsEqual == TRUE                    \* mutant: no checksum of the copy
ChecksumsAgree == pending.whole

Compare ==
    /\ pc = "compare"
    /\ \/ /\ ChecksumsAgree
          /\ backup' = [backup EXCEPT !.durable = TRUE]     \* in.Sync()
          /\ pc' = "link"
          /\ UNCHANGED <<commits, target, sidecar, pending, before, foreign>>
       \/ Fail

(* os.Link does not replace anything.  It ignores sidecars that appeared    *)
(* since Check.                                                             *)
Publish ==
    /\ pc = "link"
    /\ \/ /\ target = NoFile
          /\ target' = [pending EXCEPT !.durable = FALSE]
          /\ pending' = NoFile /\ pc' = "sync"
          /\ UNCHANGED <<commits, sidecar, backup, before, foreign>>
       \/ Fail

(* The directory is synced, or the error is returned WITH the backup.       *)
SyncDir ==
    /\ pc = "sync"
    /\ \/ /\ target' = [target EXCEPT !.durable = TRUE]
          /\ pc' = "done"
       \/ UNCHANGED target /\ pc' = "unsure"
    /\ UNCHANGED <<commits, sidecar, backup, pending, before, foreign>>

Migrate == Check \/ Snapshot \/ Copy \/ Compare \/ Publish \/ SyncDir

-----------------------------------------------------------------------------
Running == pc \in {"start", "snapshot", "copy", "compare", "link", "sync"}

Kill ==
    /\ Running /\ pc' = "killed"
    /\ UNCHANGED <<commits, target, sidecar, backup, pending, before, foreign>>

(* What was not synced may be gone; bytes that were synced stay.  The entry *)
(* of the backup in its own directory is never synced.                      *)
PowerLoss ==
    /\ pc' = "killed"
    /\ target' \in {target} \cup IF target.durable \/ foreign THEN {} ELSE {NoFile}
    /\ backup' \in {[backup EXCEPT !.whole = @ /\ backup.durable], NoFile}
    /\ pending' \in {pending, NoFile}
    /\ UNCHANGED <<commits, sidecar, before, foreign>>

Commit ==
    /\ commits < MaxCommits /\ commits' = commits + 1
    /\ UNCHANGED <<target, sidecar, backup, pending, pc, before, foreign>>

(* Resolve: an explicit choice wins; the default is refused while a legacy  *)
(* database exists, whether or not the default one does.                    *)
Resolve(explicit, legacy) ==
    IF explicit # "none" THEN explicit
    ELSE IF legacy THEN "refused" ELSE "default"

(* Another program opens the destination: only when it is told to, since    *)
(* the source, which Migrate keeps, is a legacy database.  It makes the     *)
(* database if there is none, and its sidecars.                             *)
OtherOpens ==
    \E explicit \in {"none", "target"} :
        /\ Resolve(explicit, TRUE) \notin {"refused"}
        /\ sidecar' = TRUE
        /\ IF target = NoFile
           THEN /\ foreign' = TRUE
                /\ target' = [by |-> "other", commits |-> 0, whole |-> TRUE, durable |-> FALSE]
           ELSE UNCHANGED <<foreign, target>>
        /\ UNCHANGED <<commits, backup, pending, pc, before>>

Next == Migrate \/ Kill \/ PowerLoss \/ Commit \/ OtherOpens

Spec == Init /\ [][Next]_vars

-----------------------------------------------------------------------------
TypeOK ==
    /\ commits \in 1 .. MaxCommits /\ before \in 0 .. commits
    /\ sidecar \in BOOLEAN /\ foreign \in BOOLEAN
    /\ target.by \in {"nobody", "migrate", "other"}

(* Whatever fails, and wherever the process or the machine stops: a file    *)
(* that Migrate published is whole and has all that was committed when it   *)
(* began, never stands in the place of another program's database, and is   *)
(* there or not as Migrate says; who is told of a success has the backup.   *)
MigrationLosesNothing ==
    /\ target.by = "migrate" => target.whole /\ target.commits >= before
    /\ foreign => target.by = "other"
    /\ pc = "failed" => target.by # "migrate"
    /\ pc \in {"done", "unsure"} =>
          target.by = "migrate" /\ backup.whole /\ backup.commits = target.commits

=============================================================================
