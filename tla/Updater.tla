------------------------------- MODULE Updater -------------------------------
(***************************************************************************)
(* asc-updater (src/src/updater/installer.rs): a process of its own that   *)
(* replaces the daemon's binary, keeps the one it replaced, and swaps them *)
(* on a rollback.  The timer and root may run it at the same time: it      *)
(* takes no lock.                                                          *)
(*                                                                         *)
(* A binary is its version and whether all of it is there.                 *)
(***************************************************************************)
EXTENDS Naturals, FiniteSets

CONSTANTS
  Updaters,     \* processes that may run at the same time
  Alone,        \* only one of them runs at a time
  MaxVersion,   \* bound: versions released
  MaxRuns,      \* bound: runs of the updater
  MaxDeaths     \* bound: steps that fail, and processes that die

UpdaterAssumption == Alone \in BOOLEAN /\ {MaxVersion, MaxRuns, MaxDeaths} \subseteq Nat

VARIABLES
  latest,     \* the channel's latest release
  installed,  \* <install_dir>/asc
  previous,   \* updater/asc.previous
  temp,       \* <install_dir>/.asc.tmp
  daemon,     \* the version the service runs; 0 while it cannot start
  updater,    \* by process: where it stands
  runs        \* bounds: runs and deaths so far

updaterVars == <<latest, installed, previous, temp, daemon, updater, runs>>

Version == 0..MaxVersion
Binary == [v : Version, whole : BOOLEAN]
NoBinary == [v |-> 0, whole |-> FALSE]
Whole(v) == [v |-> v, whole |-> TRUE]
Torn(v) == [v |-> v, whole |-> FALSE]

(* new: the binary to install.  old: what was installed when it was read.  *)
Updater ==
  [at : {"idle", "fetch", "save", "saving", "write", "writing", "replace",
         "keep", "keeping", "restart"},
   op : {"none", "update", "install", "rollback"}, new : Binary, old : Binary]
IdleUpdater == [at |-> "idle", op |-> "none", new |-> NoBinary, old |-> NoBinary]

UpdaterTypeOK ==
  /\ latest \in Version /\ daemon \in Version
  /\ {installed, previous, temp} \subseteq Binary
  /\ updater \in [Updaters -> Updater]
  /\ runs \in [count : 0..MaxRuns, deaths : 0..MaxDeaths]

UpdaterInit ==
  /\ latest = 1 /\ daemon = 1
  /\ installed = Whole(1) /\ previous = NoBinary /\ temp = NoBinary
  /\ updater = [u \in Updaters |-> IdleUpdater]
  /\ runs = [count |-> 0, deaths |-> 0]

Release ==
  /\ latest < MaxVersion
  /\ latest' = latest + 1
  /\ UNCHANGED <<installed, previous, temp, daemon, updater, runs>>

-----------------------------------------------------------------------------
Begin(u, call) ==
  /\ updater[u].at = "idle" /\ runs.count < MaxRuns
  /\ Alone => \A w \in Updaters : updater[w].at = "idle"
  /\ runs' = [runs EXCEPT !.count = @ + 1]
  /\ updater' = [updater EXCEPT ![u] = call]
  /\ UNCHANGED <<latest, installed, previous, temp, daemon>>

(* An update asks the installed binary for its version: one that cannot    *)
(* run is refused.  Rollback and install do not ask.                       *)
Update(u) ==
  /\ installed.whole /\ latest > installed.v
  /\ Begin(u, [IdleUpdater EXCEPT !.at = "fetch", !.op = "update", !.new = Whole(latest),
                              !.old = installed])
Install(u) ==
  Begin(u, [IdleUpdater EXCEPT !.at = "fetch", !.op = "install", !.new = Whole(latest)])
Rollback(u) ==
  /\ previous.v # 0
  /\ Begin(u, [at |-> "write", op |-> "rollback", new |-> previous, old |-> installed])

At(u, step) == updater[u].at = step
Goto(u, step) == updater' = [updater EXCEPT ![u].at = step]

(* The checksum is verified before anything is touched.                    *)
Fetch(u) ==
  /\ At(u, "fetch")
  /\ Goto(u, IF updater[u].op = "update" /\ installed.v # 0 THEN "save" ELSE "write")
  /\ UNCHANGED <<latest, installed, previous, temp, daemon, runs>>

(* fs::copy truncates what it writes to.                                   *)
Save(u) ==
  /\ At(u, "save")
  /\ previous' = Torn(installed.v)
  /\ updater' = [updater EXCEPT ![u].at = "saving", ![u].old = installed]
  /\ UNCHANGED <<latest, installed, temp, daemon, runs>>
Saved(u) ==
  /\ At(u, "saving")
  /\ previous' = updater[u].old
  /\ Goto(u, "write")
  /\ UNCHANGED <<latest, installed, temp, daemon, runs>>

(* write_binary: a temporary beside the target, renamed over it.           *)
(* Mutant: the target itself is written.                                   *)
WriteInPlace(u) ==
  /\ At(u, "write")
  /\ installed' = Torn(updater[u].new.v) /\ temp' = Torn(updater[u].new.v)
  /\ Goto(u, "writing")
  /\ UNCHANGED <<latest, previous, daemon, runs>>
Write(u) ==
  /\ At(u, "write")
  /\ temp' = Torn(updater[u].new.v)
  /\ Goto(u, "writing")
  /\ UNCHANGED <<latest, installed, previous, daemon, runs>>
Written(u) ==
  /\ At(u, "writing")
  /\ temp' = updater[u].new
  /\ Goto(u, "replace")
  /\ UNCHANGED <<latest, installed, previous, daemon, runs>>
Replace(u) ==
  /\ At(u, "replace") /\ temp.v # 0
  /\ installed' = temp /\ temp' = NoBinary
  /\ Goto(u, IF updater[u].op = "rollback" THEN "keep" ELSE "restart")
  /\ UNCHANGED <<latest, previous, daemon, runs>>

(* A rollback keeps what it replaced, so that it can be rolled back.       *)
Keep(u) ==
  /\ At(u, "keep")
  /\ \/ /\ updater[u].old.v # 0
        /\ previous' = Torn(updater[u].old.v)
        /\ Goto(u, "keeping")
     \/ /\ updater[u].old.v = 0
        /\ previous' = NoBinary
        /\ Goto(u, "restart")
  /\ UNCHANGED <<latest, installed, temp, daemon, runs>>
Kept(u) ==
  /\ At(u, "keeping")
  /\ previous' = updater[u].old
  /\ Goto(u, "restart")
  /\ UNCHANGED <<latest, installed, temp, daemon, runs>>

(* A restart that fails is a warning.                                      *)
RestartService(u) ==
  /\ At(u, "restart")
  /\ \/ daemon' = (IF installed.whole THEN installed.v ELSE 0) /\ UNCHANGED runs
     \/ runs.deaths < MaxDeaths /\ runs' = [runs EXCEPT !.deaths = @ + 1] /\ UNCHANGED daemon
  /\ updater' = [updater EXCEPT ![u] = IdleUpdater]
  /\ UNCHANGED <<latest, installed, previous, temp>>

(* A step fails, the process is killed or the node loses power.            *)
Ends(u) ==
  /\ ~At(u, "idle")
  /\ \/ At(u, "replace") /\ temp.v = 0 /\ UNCHANGED runs
     \/ runs.deaths < MaxDeaths /\ runs' = [runs EXCEPT !.deaths = @ + 1]
  /\ updater' = [updater EXCEPT ![u] = IdleUpdater]
  /\ UNCHANGED <<latest, installed, previous, temp, daemon>>

UpdaterNext ==
  \/ Release
  \/ \E u \in Updaters :
       \/ Update(u) \/ Install(u) \/ Rollback(u) \/ Fetch(u) \/ Save(u) \/ Saved(u)
       \/ Write(u) \/ Written(u) \/ Replace(u) \/ Keep(u) \/ Kept(u)
        \/ RestartService(u) \/ Ends(u)

UpdaterSpec == UpdaterInit /\ [][UpdaterNext]_updaterVars

-----------------------------------------------------------------------------
(* Properties                                                              *)

(* "Write a binary atomically": whenever an update is cut off, the daemon  *)
(* can still be started; only a rollback to a copy that was cut off itself *)
(* installs less than a whole binary.                                      *)
InstallsWhole ==
  [][installed' # installed =>
       installed'.whole \/ \E u \in Updaters : updater[u].op = "rollback"]_updaterVars

(* "Keeping the old binary for rollback": at every step of an update the   *)
(* binary it replaces is whole on disk, where it was or where a rollback   *)
(* finds it.                                                               *)
KeepsTheReplaced ==
  \A u \in Updaters :
    updater[u].op = "update" /\ updater[u].old.whole => updater[u].old \in {installed, previous}
UpdatesAreSafe == InstallsWhole /\ []KeepsTheReplaced
=============================================================================
