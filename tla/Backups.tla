------------------------------- MODULE Backups -------------------------------
(***************************************************************************)
(* Backups of one app (src/src/daemon/backup/): create_backup_multi        *)
(* archives its files once, pushes the archive to one storage after the    *)
(* other and rotates each; restore_backup clears the files and unpacks an  *)
(* archive; the scheduler, the API and the command line call both without  *)
(* a lock.                                                                 *)
(*                                                                         *)
(* A part of the app is `repository`, `data`, the settings or the compose  *)
(* override; what it holds is the number of the change that wrote it, 0    *)
(* for nothing.  A backup is named by the second it starts in.             *)
(***************************************************************************)
EXTENDS Naturals, FiniteSets, Sequences, SequencesExt

CONSTANTS
  Tasks,           \* calls that may be under way at the same time
  Parts,           \* the parts of the app, in the order they are archived
  Targets,         \* the lists of storages a backup may be asked for
  Filters,         \* the parts a backup may be asked to take
  Keeps,           \* keep-N policies, 0 for none
  MaxSecond,       \* bound: seconds in which a backup may start
  MaxAppChanges,   \* bound: changes of the app's files
  MaxBackupCalls,  \* bound: calls made
  MaxLosses        \* bound: failures and deaths of the daemon

BackupsAssumption ==
  /\ Len(Parts) \in Nat \ {0} /\ IsInjective(Parts)
  /\ Targets \subseteq Seq({"local", "s3"}) \ {<<>>}
  /\ Filters \subseteq SUBSET (1..Len(Parts))
  /\ Keeps \cup {MaxSecond, MaxAppChanges, MaxBackupCalls, MaxLosses} \subseteq Nat

VARIABLES
  app,       \* the app's files, by part
  up,        \* the app runs
  archives,  \* by storage and name: what is there
  reported,  \* backups reported good and not removed since
  task,      \* by call: where it stands
  asked,     \* by second: local copies asked for under that name
  used       \* bounds: changes, calls and failures so far; deletions by hand

backupsVars == <<app, up, archives, reported, task, asked, used>>

Storages == {"local", "s3"}
Names == 1..MaxSecond
Part == 1..Len(Parts)
PartFiles == [Part -> 0..MaxAppChanges]
Empty == [p \in Part |-> 0]

(* whole: all of the archive is there.  mixed: two calls wrote to it.      *)
Archive == [there : BOOLEAN, whole : BOOLEAN, mixed : BOOLEAN, files : PartFiles]
NoArchive == [there |-> FALSE, whole |-> FALSE, mixed |-> FALSE, files |-> Empty]

(* alone: nobody else wrote to the app's files since the call cleared them.*)
Task ==
  [at : {"idle", "archive", "push", "copy", "rotate", "prune",
         "pull", "clear", "unpack", "restored", "start"},
   name : 0..MaxSecond, files : PartFiles, whole : BOOLEAN, part : 1..Len(Parts) + 1,
   only : SUBSET Part, todo : Seq(Storages), keep : Keeps \cup {0}, extra : SUBSET Names,
   was : BOOLEAN, alone : BOOLEAN]
IdleTask ==
  [at |-> "idle", name |-> 0, files |-> Empty, whole |-> TRUE, part |-> 1,
   only |-> Part, todo |-> <<>>, keep |-> 0, extra |-> {},
   was |-> FALSE, alone |-> TRUE]

BackupsTypeOK ==
  /\ app \in PartFiles /\ up \in BOOLEAN
  /\ archives \in [Storages -> [Names -> Archive]]
  /\ reported \subseteq Storages \X Names
  /\ task \in [Tasks -> Task]
  /\ asked \in [Names -> Nat]
  /\ used \in [changes : 0..MaxAppChanges, calls : 0..MaxBackupCalls,
               fails : 0..MaxLosses, byHand : SUBSET Storages]

BackupsInit ==
  /\ app = [p \in Part |-> 0] /\ up = TRUE
  /\ archives = [s \in Storages |-> [n \in Names |-> NoArchive]]
  /\ reported = {}
  /\ task = [t \in Tasks |-> IdleTask]
  /\ asked = [n \in Names |-> 0]
  /\ used = [changes |-> 0, calls |-> 0, fails |-> 0, byHand |-> {}]

-----------------------------------------------------------------------------
(* The app and the other operations change its files, start and stop it.   *)

Restoring(t) == task[t].at \in {"clear", "unpack", "restored"}
Disturbed(S) == [t \in Tasks |-> IF t \in S /\ Restoring(t) THEN [task[t] EXCEPT !.alone = FALSE]
                                 ELSE task[t]]

Disturb == used.changes < MaxAppChanges /\ used' = [used EXCEPT !.changes = @ + 1]
ChangePart(p) ==
  /\ Disturb
  /\ app' = [app EXCEPT ![p] = used.changes + 1]
  /\ task' = Disturbed(Tasks)
  /\ UNCHANGED <<up, archives, reported, asked>>
AppStartsOrStops ==
  /\ Disturb
  /\ up' = ~up
  /\ UNCHANGED <<app, archives, reported, task, asked>>

Called(t) == task[t].at = "idle" /\ used.calls < MaxBackupCalls
Call == used' = [used EXCEPT !.calls = @ + 1]
Fail == used.fails < MaxLosses /\ used' = [used EXCEPT !.fails = @ + 1]
Go(t, at) == task' = [task EXCEPT ![t].at = at]
EndCall(t) == task' = [task EXCEPT ![t] = IdleTask]

-----------------------------------------------------------------------------
(* create_backup_multi                                                     *)

(* The filter may leave parts of the app out; a list may name a storage    *)
(* twice.                                                                  *)
LocalCopies(todo) == Cardinality({i \in 1..Len(todo) : todo[i] = "local"})
Create(t, name, todo, keep, only) ==
  /\ Called(t) /\ Call
  /\ task' = [task EXCEPT ![t] = [IdleTask EXCEPT !.at = "archive", !.name = name,
                                  !.todo = todo, !.keep = keep, !.only = only]]
  /\ asked' = [asked EXCEPT ![name] = @ + LocalCopies(todo)]
  /\ UNCHANGED <<app, up, archives, reported>>

(* One part after the other, while the app may be writing.                 *)
ArchivePart(t) ==
  /\ task[t].at = "archive" /\ task[t].part <= Len(Parts)
  /\ LET p == task[t].part
     IN task' = [task EXCEPT ![t].part = p + 1,
                             ![t].files[p] = IF p \in task[t].only THEN app[p] ELSE 0,
                             ![t].at = IF p = Len(Parts) THEN "push" ELSE "archive"]
  /\ UNCHANGED <<app, up, archives, reported, asked, used>>
BuildFails(t) ==
  /\ task[t].at = "archive" /\ Fail
  /\ EndCall(t)
  /\ UNCHANGED <<app, up, archives, reported, asked>>

(* One storage after the other; a failure there does not stop the rest.    *)
Storage(t) == Head(task[t].todo)
ToNext(t) ==
  task' = [task EXCEPT ![t] =
    IF Len(@.todo) = 1 THEN IdleTask
    ELSE [@ EXCEPT !.at = "push", !.todo = Tail(task[t].todo), !.extra = {}]]
Pushed(t) == IF task[t].keep = 0 THEN ToNext(t) ELSE Go(t, "rotate")

Complete(t) == [there |-> TRUE, whole |-> TRUE, mixed |-> FALSE, files |-> task[t].files]
PutArchive(t, archive) == archives' = [archives EXCEPT ![Storage(t)][task[t].name] = archive]
Report(t) == reported' = reported \cup {<<Storage(t), task[t].name>>}

(* S3 shows an object once its single request, or the completion of its    *)
(* parts, succeeded; a completion that answers 200 with an error has not.  *)
PutS3(t) ==
  /\ task[t].at = "push" /\ Storage(t) = "s3"
  /\ \/ PutArchive(t, Complete(t)) /\ Report(t) /\ Pushed(t) /\ UNCHANGED used
     \/ Fail /\ ToNext(t) /\ UNCHANGED <<archives, reported>>
     \/ Fail /\ PutArchive(t, Complete(t)) /\ ToNext(t) /\ UNCHANGED reported
  /\ UNCHANGED <<app, up, asked>>

(* The local storage is copied to under the archive's own name.            *)
Copying(s, n) == {t \in Tasks : task[t].at = "copy" /\ Storage(t) = s /\ task[t].name = n}
OpenLocal(t) ==
  /\ task[t].at = "push" /\ Storage(t) = "local"
  /\ PutArchive(t, [NoArchive EXCEPT !.there = TRUE,
                                     !.mixed = Copying("local", task[t].name) # {}])
  /\ Go(t, "copy")
  /\ UNCHANGED <<app, up, reported, asked, used>>
CopyEnds(t) ==
  /\ task[t].at = "copy"
  /\ LET a == archives["local"][task[t].name]
     IN IF a.there
          THEN /\ PutArchive(t, [Complete(t) EXCEPT !.whole = ~a.mixed, !.mixed = a.mixed])
               /\ Report(t)
          ELSE UNCHANGED <<archives, reported>>
  /\ Pushed(t)
  /\ UNCHANGED <<app, up, asked, used>>
PushFails(t) ==
  /\ task[t].at \in {"push", "copy"} /\ Fail
  /\ ToNext(t)
  /\ UNCHANGED <<app, up, archives, reported, asked>>

-----------------------------------------------------------------------------
(* prune: the oldest beyond keep, one by one; a failure costs nothing      *)

Listed(s) == {n \in Names : archives[s][n].there}
(* Mutant: the backup just made is not counted.                            *)
BeyondOthers(names, keep) == {n \in names : Cardinality({m \in names : m > n}) >= keep - 1}
Beyond(names, keep) == {n \in names : Cardinality({m \in names : m > n}) >= keep}
RotateStorage(t) ==
  /\ task[t].at = "rotate"
  /\ \/ /\ task' = [task EXCEPT ![t].at = "prune",
                                ![t].extra = Beyond(Listed(Storage(t)), task[t].keep)]
        /\ UNCHANGED used
     \/ Fail /\ ToNext(t)
  /\ UNCHANGED <<app, up, archives, reported, asked>>

Removed(s, n) ==
  /\ archives' = [archives EXCEPT ![s][n] = NoArchive]
  /\ reported' = reported \ {<<s, n>>}
PruneOne(t, n) ==
  /\ task[t].at = "prune" /\ n \in task[t].extra
  /\ task' = [task EXCEPT ![t].extra = @ \ {n}]
  /\ \/ Removed(Storage(t), n) /\ UNCHANGED used
     \/ Fail /\ UNCHANGED <<archives, reported>>
  /\ UNCHANGED <<app, up, asked>>
Rotated(t) ==
  /\ task[t].at = "prune" /\ task[t].extra = {}
  /\ ToNext(t)
  /\ UNCHANGED <<app, up, archives, reported, asked, used>>

DeleteBackup(s, n) ==
  /\ used.calls < MaxBackupCalls /\ archives[s][n].there
  /\ used' = [used EXCEPT !.calls = @ + 1, !.byHand = @ \cup {s}]
  /\ Removed(s, n)
  /\ UNCHANGED <<app, up, task, asked>>

-----------------------------------------------------------------------------
(* backup_restore and restore_backup                                       *)

(* A running app is refused or stopped; nothing keeps it stopped.          *)
RestoreBackup(t, s, n) ==
  /\ Called(t) /\ Call
  /\ task' = [task EXCEPT ![t] = [IdleTask EXCEPT !.at = "pull", !.name = n, !.was = up,
                                                  !.todo = <<s>>]]
  /\ up' = FALSE
  /\ UNCHANGED <<app, archives, reported, asked>>

Pull(t) ==
  /\ task[t].at = "pull"
  /\ LET a == archives[Storage(t)][task[t].name]
     IN IF a.there
          THEN task' = [task EXCEPT ![t].files = a.files, ![t].whole = a.whole,
                                    ![t].at = "clear", ![t].alone = TRUE]
          ELSE Go(t, "start")
  /\ UNCHANGED <<app, up, archives, reported, asked, used>>

(* Mutant: what the archive brings is not cleared first, so that what it   *)
(* does not bring stays.                                                   *)
ClearedForArchive(t) == IF task[t].files[task[t].part] = 0 THEN app[task[t].part] ELSE 0
Cleared(t) == 0
Clear(t) ==
  /\ task[t].at = "clear"
  /\ LET p == task[t].part
     IN /\ app' = [app EXCEPT ![p] = Cleared(t)]
        /\ task' = [Disturbed(Tasks \ {t}) EXCEPT ![t].part = IF p = Len(Parts) THEN 1 ELSE p + 1,
                                        ![t].at = IF p = Len(Parts) THEN "unpack" ELSE "clear"]
  /\ UNCHANGED <<up, archives, reported, asked, used>>

(* An archive that is not whole ends in an error somewhere.                *)
Unpack(t) ==
  /\ task[t].at = "unpack"
  /\ LET p == task[t].part
     IN /\ task[t].whole \/ p < Len(Parts)
        /\ app' = [app EXCEPT ![p] = IF task[t].files[p] = 0 THEN @ ELSE task[t].files[p]]
        /\ task' = [Disturbed(Tasks \ {t}) EXCEPT ![t].part = p + 1,
                                        ![t].at = IF p = Len(Parts) THEN "restored" ELSE "unpack"]
  /\ UNCHANGED <<up, archives, reported, asked, used>>
RestoreFails(t) ==
  /\ \/ task[t].at \in {"pull", "clear", "unpack"} /\ Fail
     \/ task[t].at = "unpack" /\ ~task[t].whole /\ UNCHANGED used
  /\ Go(t, "start")
  /\ UNCHANGED <<app, up, archives, reported, asked>>

(* An app that ran is started again, restored or not; or it fails to.      *)
StartAgain(t) ==
  /\ task[t].at \in {"restored", "start"}
  /\ \/ up' = (up \/ task[t].was) /\ UNCHANGED used
     \/ task[t].was /\ Fail /\ UNCHANGED up
  /\ EndCall(t)
  /\ UNCHANGED <<app, archives, reported, asked>>

(* The daemon dies: what it was writing stays as it is.                    *)
DaemonDies ==
  /\ Fail
  /\ task' = [t \in Tasks |-> IdleTask]
  /\ UNCHANGED <<app, up, archives, reported, asked>>

-----------------------------------------------------------------------------
BackupsNext ==
  \/ \E p \in Part : ChangePart(p)
  \/ AppStartsOrStops \/ DaemonDies
  \/ \E s \in Storages, n \in Names : DeleteBackup(s, n)
  \/ \E t \in Tasks :
       \/ \E n \in Names, todo \in Targets, keep \in Keeps, only \in Filters :
            Create(t, n, todo, keep, only)
       \/ ArchivePart(t) \/ BuildFails(t) \/ PutS3(t) \/ OpenLocal(t) \/ CopyEnds(t)
       \/ PushFails(t) \/ RotateStorage(t) \/ (\E n \in Names : PruneOne(t, n)) \/ Rotated(t)
       \/ \E s \in Storages, n \in Names : RestoreBackup(t, s, n)
       \/ Pull(t) \/ Clear(t) \/ Unpack(t) \/ RestoreFails(t) \/ StartAgain(t)

BackupsSpec == BackupsInit /\ [][BackupsNext]_backupsVars

-----------------------------------------------------------------------------
(* Properties                                                              *)

(* A backup that was reported good, and that neither a rotation nor a hand *)
(* removed, is there and whole; on the local storage, as long as nothing   *)
(* else was to be copied to it under the name of the same second.          *)
ReportedIsThere ==
  \A b \in reported :
    b[1] = "s3" \/ asked[b[2]] = 1 => archives[b[1]][b[2]].whole

(* A rotation never takes the last backup: where one was reported good and *)
(* none deleted by hand, a whole one is left, unless an interrupted copy   *)
(* lies on the local storage and counts as one of the N.                   *)
TornCopy(s) == \E n \in Names : archives[s][n].there /\ ~archives[s][n].whole
LeavesOne ==
  [][\A s \in Storages :
       (\E b \in reported : b[1] = s) /\ s \notin used'.byHand =>
         (\E n \in Names : archives[s][n].whole)' \/ TornCopy(s)']_backupsVars

(* What was backed up can be restored: both of the above.                  *)
BackupsAreKept == []ReportedIsThere /\ LeavesOne

(* "The result is exactly the backed-up snapshot, not a merge with whatever*)
(* was there before": also after restores that failed or died half way.    *)
RestoredIsSnapshot ==
  \A t \in Tasks : task[t].at = "restored" /\ task[t].alone => app = task[t].files
=============================================================================
