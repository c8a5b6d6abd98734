------------------------------ MODULE AppIndex ------------------------------
(***************************************************************************)
(* The database of installed apps (src/src/daemon/apps/index/): a copy of  *)
(* every app's state files with a stamp of each, kept current by the       *)
(* writers themselves, by a watcher, by a verify every minute, and by full *)
(* rebuilds, in the daemon and in a command line beside it.                *)
(*                                                                         *)
(* Apps are read, compared and stored one by one: the model has one.  A    *)
(* file is its stamp, the number of the change that wrote it; 0 is no      *)
(* file.                                                                   *)
(***************************************************************************)
EXTENDS Naturals, FiniteSets

CONSTANTS
  Daemon,          \* workers of the daemon: its writers and its verify
  Cli,             \* workers of a command line that runs beside it
  Watching,        \* the inotify watcher runs
  HandBreaks,      \* a hand may leave a meta.json that cannot be used
  MaxFileChanges,  \* bound: changes of the app's files
  MaxRebuilds,     \* bound: rebuilds asked for
  MaxKills         \* bound: command lines killed

Nobody == "nobody"
Watcher == "watcher"

IndexAssumption ==
  /\ Daemon \cap Cli = {} /\ {Nobody, Watcher} \cap (Daemon \cup Cli) = {}
  /\ {Watching, HandBreaks} \subseteq BOOLEAN
  /\ {MaxFileChanges, MaxRebuilds, MaxKills} \subseteq Nat

VARIABLES
  files,     \* the app's files: what the index is a copy of
  row,       \* the app's rows, as committed
  writing,   \* the worker inside a write transaction; Nobody for none
  worker,    \* by worker: where it stands and what it has read
  broken,    \* by process: the stamps of an app that could not be used
  dirty,     \* the watcher has an event of the app
  spent      \* bounds: changes, rebuilds and kills so far

indexVars == <<files, row, writing, worker, broken, dirty, spent>>

Workers == Daemon \cup Cli \cup {Watcher}
ProcessOf(w) == IF w \in Cli THEN "cli" ELSE "daemon"

Stamp == 0..MaxFileChanges
Stamps == [meta : Stamp, settings : Stamp, git : Stamp]
NoStamps == [meta |-> 0, settings |-> 0, git |-> 0]

(* usable: what meta.json holds parses and names the app.                  *)
Files == [at : Stamps, usable : BOOLEAN]
Row == [at : Stamps, commit : Stamp]
NoRow == [at |-> NoStamps, commit |-> 0]
Worker == [at : {"idle", "compare", "begin", "meta", "settings", "git", "commit",
                 "unusable", "store", "remember"},
           read : Stamps, commit : Stamp, stored : Stamps, rebuild : BOOLEAN, listed : BOOLEAN]
IdleWorker == [at |-> "idle", read |-> NoStamps, commit |-> 0, stored |-> NoStamps,
               rebuild |-> FALSE, listed |-> TRUE]

IndexTypeOK ==
  /\ files \in Files /\ row \in Row
  /\ writing \in Workers \cup {Nobody}
  /\ worker \in [Workers -> Worker]
  /\ broken \in [{"daemon", "cli"} -> Stamps]
  /\ dirty \in BOOLEAN
  /\ spent \in [changes : Stamp, rebuilds : 0..MaxRebuilds, kills : 0..MaxKills]

IndexInit ==
  /\ files = [at |-> NoStamps, usable |-> TRUE]
  /\ row = NoRow
  /\ writing = Nobody
  /\ worker = [w \in Workers |-> IdleWorker]
  /\ broken = [p \in {"daemon", "cli"} |-> NoStamps]
  /\ dirty = FALSE
  /\ spent = [changes |-> 0, rebuilds |-> 0, kills |-> 0]

-----------------------------------------------------------------------------
(* Changes of the files.  `stamps` sees an app where there is a meta.json. *)

Seen == IF files.at.meta = 0 THEN NoStamps ELSE files.at

ChangeFiles(new, usable) ==
  /\ spent.changes < MaxFileChanges
  /\ files' = [at |-> new, usable |-> usable]
  /\ spent' = [spent EXCEPT !.changes = @ + 1]
  /\ dirty' = Watching

NextStamp == spent.changes + 1
Rewrite(usable) ==
  \/ ChangeFiles([files.at EXCEPT !.meta = NextStamp], usable)
  \/ /\ files.at.meta # 0
     /\ \/ ChangeFiles([files.at EXCEPT !.settings = NextStamp], files.usable)
        \/ ChangeFiles([files.at EXCEPT !.git = NextStamp], files.usable)
        \/ ChangeFiles(NoStamps, TRUE)

(* By hand, by git, by a restore: nobody tells the index.                  *)
ChangedByHand ==
  /\ \E usable \in {TRUE, ~HandBreaks} : Rewrite(usable)
  /\ UNCHANGED <<row, writing, worker, broken>>

(* The daemon's and the command line's writers go on to sync_app.          *)
SaveAndSync(w) ==
  /\ w # Watcher /\ worker[w].at = "idle"
  /\ Rewrite(TRUE)
  /\ worker' = [worker EXCEPT ![w] = [IdleWorker EXCEPT !.at = "begin"]]
  /\ UNCHANGED <<row, writing, broken>>

-----------------------------------------------------------------------------
(* sync_app and rebuild: the files are read inside the write transaction.  *)

Step(w, at) == worker' = [worker EXCEPT ![w].at = at]

(* Mutant: the files are read without the transaction.                     *)
BeginAnyhow(w) ==
  /\ worker[w].at = "begin"
  /\ writing' = w
  /\ Step(w, "meta")
  /\ UNCHANGED <<files, row, broken, dirty, spent>>
BeginWrite(w) ==
  /\ worker[w].at = "begin" /\ writing = Nobody
  /\ writing' = w
  /\ Step(w, "meta")
  /\ UNCHANGED <<files, row, broken, dirty, spent>>

(* A rebuild reads only the apps it listed before its transaction.         *)
ReadMeta(w) ==
  /\ worker[w].at = "meta"
  /\ worker' = [worker EXCEPT
       ![w].read = [NoStamps EXCEPT !.meta = IF worker[w].listed THEN files.at.meta ELSE 0],
       ![w].at = IF files.at.meta = 0 \/ ~worker[w].listed THEN "store"
                 ELSE IF files.usable THEN "settings" ELSE "unusable"]
  /\ UNCHANGED <<files, row, writing, broken, dirty, spent>>
ReadSettings(w) ==
  /\ worker[w].at = "settings"
  /\ worker' = [worker EXCEPT ![w].read.settings = files.at.settings, ![w].at = "git"]
  /\ UNCHANGED <<files, row, writing, broken, dirty, spent>>
ReadGit(w) ==
  /\ worker[w].at = "git"
  /\ worker' = [worker EXCEPT ![w].read.git = files.at.git, ![w].at = "commit"]
  /\ UNCHANGED <<files, row, writing, broken, dirty, spent>>

(* The commit is resolved again only when the stamp moved.                 *)
CommitKnown(w) == ~worker[w].rebuild /\ row.at.meta # 0 /\ row.at.git = worker[w].read.git
(* Mutant: the stored commit is kept.                                      *)
CommitKept(w) == IF row.at.meta # 0 THEN row.commit ELSE files.at.git
CommitFor(w) == IF CommitKnown(w) THEN row.commit ELSE files.at.git
Resolve(w) ==
  /\ worker[w].at = "commit"
  /\ worker' = [worker EXCEPT ![w].commit = CommitFor(w), ![w].at = "store"]
  /\ UNCHANGED <<files, row, writing, broken, dirty, spent>>

(* The stamps by which a later verify knows the unusable app again are     *)
(* taken after its meta.json was read.                                     *)
NoteUnusable(w) ==
  /\ worker[w].at = "unusable"
  /\ worker' = [worker EXCEPT ![w].read = NoStamps, ![w].stored = Seen,
                              ![w].at = IF worker[w].rebuild THEN "store" ELSE "remember"]
  /\ UNCHANGED <<files, row, writing, broken, dirty, spent>>
Remember(w) ==
  /\ worker[w].at = "remember"
  /\ broken' = [broken EXCEPT ![ProcessOf(w)] = worker[w].stored]
  /\ IF worker[w].rebuild THEN worker' = [worker EXCEPT ![w] = IdleWorker]
     ELSE Step(w, "store")
  /\ UNCHANGED <<files, row, writing, dirty, spent>>

(* Rows are replaced or removed, and the transaction commits.  A rebuild   *)
(* replaces the whole list of unusable apps after that.                    *)
Store(w) ==
  /\ worker[w].at = "store"
  /\ row' = IF worker[w].read.meta = 0 THEN NoRow
            ELSE [at |-> worker[w].read, commit |-> worker[w].commit]
  /\ broken' = IF worker[w].read.meta = 0 \/ worker[w].rebuild THEN broken
               ELSE [broken EXCEPT ![ProcessOf(w)] = NoStamps]
  /\ writing' = Nobody
  /\ IF worker[w].rebuild THEN Step(w, "remember")
     ELSE worker' = [worker EXCEPT ![w] = IdleWorker]
  /\ UNCHANGED <<files, dirty, spent>>

Rebuild(w) ==
  /\ w # Watcher /\ worker[w].at = "idle" /\ spent.rebuilds < MaxRebuilds
  /\ spent' = [spent EXCEPT !.rebuilds = @ + 1]
  /\ worker' = [worker EXCEPT ![w] = [IdleWorker EXCEPT !.at = "begin", !.rebuild = TRUE,
                                                        !.listed = files.at.meta # 0]]
  /\ UNCHANGED <<files, row, writing, broken, dirty>>

-----------------------------------------------------------------------------
(* verify, and the watcher's sync_if_stale                                 *)

Verify(w) ==
  /\ w # Watcher /\ worker[w].at = "idle"
  /\ worker' = [worker EXCEPT ![w] = [IdleWorker EXCEPT !.at = "compare", !.stored = row.at]]
  /\ UNCHANGED <<files, row, writing, broken, dirty, spent>>

RowFits(w) == worker[w].stored = Seen
KnownBroken(w) == /\ broken[ProcessOf(w)] = Seen /\ Seen # NoStamps
                  /\ worker[w].stored = NoStamps
Compare(w) ==
  /\ worker[w].at = "compare"
  /\ worker' = [worker EXCEPT ![w] =
       IF RowFits(w) \/ KnownBroken(w) THEN IdleWorker
       ELSE [IdleWorker EXCEPT !.at = "begin"]]
  /\ UNCHANGED <<files, row, writing, broken, dirty, spent>>

(* The events are taken before the app is looked at.                       *)
Watch ==
  /\ worker[Watcher].at = "idle" /\ dirty
  /\ dirty' = FALSE
  /\ worker' = [worker EXCEPT ![Watcher] =
       IF Seen = row.at THEN IdleWorker ELSE [IdleWorker EXCEPT !.at = "begin"]]
  /\ UNCHANGED <<files, row, writing, broken, spent>>

(* The queue overflowed: the events are gone, every app is verified.       *)
Overflow ==
  /\ worker[Watcher].at = "idle" /\ dirty
  /\ dirty' = FALSE
  /\ worker' = [worker EXCEPT ![Watcher] =
       [IdleWorker EXCEPT !.at = "compare", !.stored = row.at]]
  /\ UNCHANGED <<files, row, writing, broken, spent>>

(* A command line dies: its transaction is rolled back.                    *)
Kill(w) ==
  /\ w \in Cli /\ worker[w].at # "idle" /\ spent.kills < MaxKills
  /\ spent' = [spent EXCEPT !.kills = @ + 1]
  /\ worker' = [worker EXCEPT ![w] = IdleWorker]
  /\ writing' = IF writing = w THEN Nobody ELSE writing
  /\ UNCHANGED <<files, row, broken, dirty>>

-----------------------------------------------------------------------------
IndexWork(w) ==
  \/ BeginWrite(w) \/ ReadMeta(w) \/ ReadSettings(w) \/ ReadGit(w) \/ Resolve(w)
  \/ NoteUnusable(w) \/ Remember(w) \/ Store(w) \/ Compare(w)
IndexNext ==
  \/ ChangedByHand \/ Watch \/ Overflow
  \/ \E w \in Workers : IndexWork(w) \/ SaveAndSync(w) \/ Rebuild(w) \/ Verify(w) \/ Kill(w)

IndexSpec == IndexInit /\ [][IndexNext]_indexVars

(* Threads run, and the daemon verifies every minute.                      *)
IndexFairness ==
  /\ \A w \in Workers : WF_indexVars(IndexWork(w))
  /\ \E w \in Daemon : WF_indexVars(Verify(w))
  /\ WF_indexVars(Watch)
IndexFairSpec == IndexSpec /\ IndexFairness

-----------------------------------------------------------------------------
(* Properties                                                              *)

(* "Two concurrent syncs can never store an older copy over a newer one":  *)
(* no file of a stored app goes back to an earlier change.                 *)
NeverOlder ==
  [][row.at.meta # 0 /\ row'.at.meta # 0 =>
       /\ row'.at.meta >= row.at.meta
       /\ row'.at.settings >= row.at.settings \/ row'.at.settings = 0
       /\ row'.at.git >= row.at.git \/ row'.at.git = 0]_indexVars

(* The index is always brought in line: when the files stop changing, what *)
(* it holds becomes what they hold, whatever was lost on the way.          *)
InLine == row = IF files.at.meta # 0 /\ files.usable
                  THEN [at |-> files.at, commit |-> files.at.git]
                  ELSE NoRow
CatchesUp == <>[]InLine
=============================================================================
