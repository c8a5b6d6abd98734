--------------------------- MODULE AppOperations ---------------------------
(***************************************************************************)
(* The operations on one installed docker app: start, stop, kill, restart, *)
(* rename, remove (daemon/apps/mod.rs), upgrade (daemon/pkg/upgrade.rs),   *)
(* rebuild (daemon/pkg/rebuild.rs), the scheduler's update job             *)
(* (daemon/scheduler/jobs.rs) and the start-up pass `reconcile`.  Every    *)
(* call is a thread of its own: the API runs each on a blocking thread and *)
(* the CLI may run one in its own process.  They meet on the app's         *)
(* directory (repository, repository.new, repository.old and meta.json),    *)
(* on its container, and on the operation lock `.asc/op.lock`, which       *)
(* upgrade and rebuild take and the others do not.                         *)
(*                                                                         *)
(* A version stands for everything the repository at that version fixes:   *)
(* its commit, its manifest and the image its container is created from.   *)
(***************************************************************************)
EXTENDS Naturals, FiniteSets

CONSTANTS Ops,         \* the threads that may serve a call at the same time
          Nobody,      \* the value of a lock that is free
          None,        \* an absent directory, container or meta.json
          MaxVersion,  \* the versions upstream ever publishes
          MaxCalls,    \* calls a behaviour makes
          MaxFaults,   \* failures a behaviour suffers
          MaxEvents,   \* calls and failures together
          Kinds,       \* the calls that are made
          FaultKinds,  \* the failures that happen
          Asks         \* versions with a required setup question unanswered

AllKinds == {"start", "stop", "kill", "restart", "rename", "remove",
             "upgrade", "rebuild", "update"}
AllFaults == {"clone", "aside", "movein", "teardown", "provision", "putback",
              "image", "start", "stop", "remove", "crash"}
Versions == 1 .. MaxVersion

ASSUME VersionAssumption == MaxVersion \in Nat \ {0} /\ None \notin Versions
ASSUME BoundAssumption == {MaxCalls, MaxFaults, MaxEvents} \subseteq Nat
ASSUME KindAssumption == Kinds \subseteq AllKinds /\ FaultKinds \subseteq AllFaults
ASSUME OpAssumption == Nobody \notin Ops

VARIABLES disk,      \* the version in each of the three repository directories
          box,       \* the container: the version it was created from, running
          meta,      \* meta.json
          lock,      \* who holds the flock on `.asc/op.lock`
          upstream,  \* the newest version published
          moving,    \* the app follows a branch (or an untagged repository)
          op,        \* each thread: its call, its step and its local values
          booting,   \* the daemon restarted and has not reconciled yet
          calls,     \* calls made so far
          faults,    \* failures so far, and of which kinds
          met        \* kinds of calls that ever ran beside another (history)

world == <<disk, box, meta>>
env == <<upstream, moving, booting, calls, met>>
vars == <<disk, box, meta, lock, upstream, moving, op, booting, calls, faults, met>>

Dirs == [repo : Versions \cup {None}, new : Versions \cup {None},
         old : Versions \cup {None}]
Boxes == [of : Versions, running : BOOLEAN]
Metas == [version : Versions, name : {"given", "renamed"},
          wanted : {"running", "stopped"}, skipped : BOOLEAN]
ASSUME NoneAssumption == None \notin Boxes \cup Metas

Steps == {"idle", "read", "check", "apply", "create", "keep", "run", "halt", "note",
          "unload", "delete", "lock", "look", "pull", "guard", "clone", "aside",
          "movein", "teardown", "provision", "undo", "putback", "again", "drop",
          "record", "revive", "reload", "image", "recreate", "renew", "resave",
          "rerun"}

Thread == [kind : AllKinds \cup {"reconcile"},
           doing : AllKinds \cup {"reconcile"},
           pc : Steps, mine : Metas \cup {None}, force : BOOLEAN, was : BOOLEAN,
           fresh : BOOLEAN, aim : Versions \cup {None}, ok : BOOLEAN]

Resting == [kind |-> "start", doing |-> "start", pc |-> "idle", mine |-> None,
            force |-> FALSE, was |-> FALSE, fresh |-> FALSE, aim |-> None,
            ok |-> TRUE]

TypeOK ==
  /\ disk \in Dirs /\ box \in Boxes \cup {None} /\ meta \in Metas \cup {None}
  /\ lock \in Ops \cup {Nobody}
  /\ upstream \in Versions /\ moving \in BOOLEAN /\ booting \in BOOLEAN
  /\ op \in [Ops -> Thread]
  /\ calls \in 0 .. MaxCalls
  /\ faults \in [count : 0 .. MaxFaults, kinds : SUBSET AllFaults]
  /\ met \in SUBSET (AllKinds \cup {"reconcile"})

Init ==
  \E w \in {"running", "stopped"} :
    /\ disk = [repo |-> 1, new |-> None, old |-> None]
    /\ box = [of |-> 1, running |-> w = "running"]
    /\ meta = [version |-> 1, name |-> "given", wanted |-> w, skipped |-> 1 \in Asks]
    /\ lock = Nobody
    /\ upstream = 1
    /\ moving \in BOOLEAN
    /\ op = [o \in Ops |-> Resting]
    /\ booting = FALSE
    /\ calls = 0
    /\ faults = [count |-> 0, kinds |-> {}]
    /\ met = {}

-----------------------------------------------------------------------------
(* Helpers *)

Running == box # None /\ box.running
Active == {o \in Ops : op[o].pc # "idle"}
At(o, step) == op[o].pc = step
Become(o, thread) == op' = [op EXCEPT ![o] = thread]
Goto(o, step) == Become(o, [op[o] EXCEPT !.pc = step])

Fault(kind) ==
  /\ kind \in FaultKinds
  /\ faults.count < MaxFaults /\ calls + faults.count < MaxEvents
  /\ faults' = [count |-> faults.count + 1, kinds |-> faults.kinds \cup {kind}]

(* Mutant: a failed upgrade ends the update, the app stays stopped.         *)
ThenOnSuccess(o, ok) ==
  CASE op[o].kind = "update" /\ op[o].doing = "stop" /\ ok -> "upgrade"
    [] op[o].kind = "update" /\ op[o].doing = "upgrade" /\ op[o].was /\ ok -> "start"
    [] OTHER -> "none"

(* What the scheduler's update does after one of its parts: it upgrades     *)
(* once the app is stopped and starts the app again whatever the upgrade    *)
(* did.  Every other call has one part.                                     *)
Then(o, ok) ==
  CASE op[o].kind = "update" /\ op[o].doing = "stop" /\ ok -> "upgrade"
    [] op[o].kind = "update" /\ op[o].doing = "upgrade" /\ op[o].was -> "start"
    [] OTHER -> "none"

(* Mutant: a call that never took the lock drops it.                        *)
UnlockAny(o) == o \in Ops /\ lock' = Nobody

(* The part of the call that holds the lock ends, and with it the lock.     *)
Unlock(o) == lock' = IF lock = o THEN Nobody ELSE lock

Cleared(o, ok) ==
  [op[o] EXCEPT !.ok = @ /\ ok, !.mine = None, !.aim = None, !.fresh = FALSE]

Finish(o, ok) ==
  Become(o, IF Then(o, ok) = "none"
            THEN [Cleared(o, ok) EXCEPT !.pc = "idle"]
            ELSE [Cleared(o, ok) EXCEPT !.pc = "read", !.doing = Then(o, ok)])

End(o, ok) == Finish(o, ok) /\ Unlock(o) /\ UNCHANGED env

(* `store.save`: the thread's own copy replaces meta.json as a whole.        *)
Save(copy) == meta' = copy

-----------------------------------------------------------------------------
(* Calls *)

Call(o, k, force) ==
  /\ At(o, "idle") /\ k \in Kinds /\ meta # None
  /\ calls < MaxCalls /\ calls + faults.count < MaxEvents
  /\ force => k \in {"start", "restart"}
  /\ Become(o, [Resting EXCEPT !.kind = k, !.doing = k, !.pc = "read",
                               !.force = force])
  /\ calls' = calls + 1
  /\ met' = IF Active = {} THEN met
            ELSE met \cup {k} \cup {op[p].kind : p \in Active}
  /\ UNCHANGED <<world, lock, upstream, moving, booting, faults>>

FirstStep ==
  [start |-> "check", stop |-> "check", kill |-> "check", restart |-> "check",
   rename |-> "note", remove |-> "unload", upgrade |-> "lock", rebuild |-> "lock",
   update |-> "look", reconcile |-> "check"]

(* get_authorized: meta.json as it is now, or the end of the call.           *)
Read(o) ==
  /\ At(o, "read")
  /\ IF meta = None
     THEN End(o, FALSE) /\ UNCHANGED <<world, faults>>
     ELSE /\ Become(o, [op[o] EXCEPT !.mine = meta,
                                     !.pc = FirstStep[op[o].doing]])
          /\ UNCHANGED <<world, lock, env, faults>>

-----------------------------------------------------------------------------
(* start, restart, reconcile: the container is brought in line with the     *)
(* repository before it is started                                          *)

(* ensure_setup_complete *)
SetupRefuses(o) ==
  disk.repo \in Asks /\ ~op[o].force /\ ~op[o].mine.skipped

SetupKept(o) == IF disk.repo = None THEN op[o].mine.skipped ELSE disk.repo \in Asks

SetUp(o, step) ==
  [op[o] EXCEPT !.pc = step,
                !.fresh = SetupKept(o) # op[o].mine.skipped,
                !.mine = [@ EXCEPT !.skipped = SetupKept(o)]]

CheckStart(o) ==
  /\ At(o, "check") /\ op[o].doing = "start"
  /\ IF Running
     THEN Goto(o, "note") /\ UNCHANGED <<lock, env>>
     ELSE \/ SetupRefuses(o) /\ End(o, FALSE)
          \/ /\ ~SetupRefuses(o)
             /\ Become(o, SetUp(o, "apply"))
             /\ UNCHANGED <<lock, env>>
  /\ UNCHANGED <<world, faults>>

CheckRestart(o) ==
  /\ At(o, "check") /\ op[o].doing = "restart"
  /\ \/ SetupRefuses(o) /\ End(o, FALSE)
     \/ /\ ~SetupRefuses(o)
        /\ Become(o, SetUp(o, "halt"))
        /\ UNCHANGED <<lock, env>>
  /\ UNCHANGED <<world, faults>>

(* Mutant: the container is started without being looked at.                *)
CheckReconcileAsIs(o) ==
  /\ At(o, "check") /\ op[o].doing = "reconcile"
  /\ IF op[o].mine.wanted = "running" /\ ~Running
     THEN Goto(o, "run") /\ UNCHANGED <<lock, env>>
     ELSE End(o, TRUE)
  /\ UNCHANGED <<world, faults>>

CheckReconcile(o) ==
  /\ At(o, "check") /\ op[o].doing = "reconcile"
  /\ IF op[o].mine.wanted = "running" /\ ~Running
     THEN Goto(o, "apply") /\ UNCHANGED <<lock, env>>
     ELSE End(o, TRUE)
  /\ UNCHANGED <<world, faults>>

(* refresh::apply_settings: a container that is missing or was created from *)
(* something else than the repository now says is removed, to be created    *)
(* again; without a readable repository the container is started as it is.  *)
InLine == disk.repo = None \/ (box # None /\ box.of = disk.repo)

Apply(o) ==
  /\ At(o, "apply")
  /\ \/ /\ InLine
        /\ Goto(o, "run")
        /\ UNCHANGED <<box, lock, env, faults>>
     \/ /\ ~InLine
        /\ box' = None
        /\ Goto(o, "create")
        /\ UNCHANGED <<lock, env, faults>>
     \/ ~InLine /\ Fault("remove") /\ End(o, FALSE) /\ UNCHANGED box
  /\ UNCHANGED <<disk, meta>>

(* Mutant: the directory it is created from is not looked for.              *)
CanCreateAnyhow == box = None

(* provision: an existing container of that name is a conflict.             *)
CanCreate == box = None /\ disk.repo # None
NewBox == box' = [of |-> disk.repo, running |-> FALSE]

Create(o) ==
  /\ At(o, "create")
  /\ \/ /\ CanCreate
        /\ NewBox
        /\ Become(o, [op[o] EXCEPT !.fresh = TRUE,
                     !.pc = IF op[o].doing = "reconcile" THEN "keep" ELSE "run"])
        /\ UNCHANGED <<disk, meta, lock, env, faults>>
     \/ /\ End(o, FALSE)
        /\ IF CanCreate THEN Fault("provision") ELSE UNCHANGED faults
        /\ UNCHANGED world

Keep(o) ==
  /\ At(o, "keep")
  /\ Save(op[o].mine)
  /\ Goto(o, "run")
  /\ UNCHANGED <<disk, box, lock, env, faults>>

Run(o) ==
  /\ At(o, "run")
  /\ \/ /\ box # None
        /\ box' = [box EXCEPT !.running = TRUE]
        /\ IF op[o].doing = "reconcile" THEN End(o, TRUE)
           ELSE Goto(o, "note") /\ UNCHANGED <<lock, env>>
        /\ UNCHANGED <<disk, meta, faults>>
     \/ /\ End(o, FALSE)
        /\ IF box # None THEN Fault("start") ELSE UNCHANGED faults
        /\ UNCHANGED world

(* stop, kill: and the container part of a restart                          *)
CheckStop(o) ==
  /\ At(o, "check") /\ op[o].doing \in {"stop", "kill"}
  /\ Goto(o, IF Running THEN "halt" ELSE "note")
  /\ UNCHANGED <<world, lock, env, faults>>

Stopped == IF box = None THEN None ELSE [box EXCEPT !.running = FALSE]

Halt(o) ==
  /\ At(o, "halt")
  /\ \/ /\ box # None \/ op[o].doing = "kill"
        /\ box' = Stopped
        /\ Goto(o, IF op[o].doing = "restart" THEN "apply" ELSE "note")
        /\ UNCHANGED <<disk, meta, lock, env, faults>>
     \/ /\ End(o, FALSE)
        /\ IF box # None THEN Fault("stop") ELSE op[o].doing # "kill" /\ UNCHANGED faults
        /\ UNCHANGED world

(* The last step of start, stop, kill, restart and rename: meta.json is      *)
(* written from the copy read at the beginning, if anything in it changed.  *)
Wanted(o) == CASE op[o].doing \in {"start", "restart"} -> "running"
               [] op[o].doing \in {"stop", "kill"} -> "stopped"
               [] OTHER -> op[o].mine.wanted

Note(o) ==
  /\ At(o, "note")
  /\ LET mine == op[o].mine
         copy == [mine EXCEPT !.wanted = Wanted(o),
                              !.name = IF op[o].doing = "rename" THEN "renamed" ELSE @]
     IN  IF op[o].fresh \/ copy # mine \/ op[o].doing = "rename"
         THEN Save(copy) ELSE UNCHANGED meta
  /\ End(o, TRUE)
  /\ UNCHANGED <<disk, box, faults>>

(* remove: the container, then the app's directory and the lock file in it. *)
Unload(o) ==
  /\ At(o, "unload")
  /\ \/ box' = None /\ Goto(o, "delete") /\ UNCHANGED <<lock, env, faults>>
     \/ Fault("remove") /\ End(o, FALSE) /\ UNCHANGED box
  /\ UNCHANGED <<disk, meta>>

Delete(o) ==
  /\ At(o, "delete")
  /\ disk' = [repo |-> None, new |-> None, old |-> None]
  /\ meta' = None
  /\ lock' = Nobody
  /\ Finish(o, TRUE)
  /\ UNCHANGED <<box, env, faults>>

-----------------------------------------------------------------------------
(* The operation lock *)

(* flock(LOCK_EX | LOCK_NB): taken, or the call is refused at once.         *)
Acquire(o) ==
  /\ At(o, "lock")
  /\ IF lock = Nobody
     THEN /\ lock' = o
          /\ Goto(o, IF op[o].doing = "rebuild" THEN "look" ELSE "guard")
          /\ UNCHANGED env
     ELSE End(o, FALSE)
  /\ UNCHANGED <<world, faults>>

-----------------------------------------------------------------------------
(* upgrade_locked *)

(* The end of upgrade_locked: an upgrade of its own ends with it, a rebuild *)
(* goes on, or starts the app it stopped and passes the error on.           *)
UpgradeEnds(o, ok) ==
  IF op[o].kind # "rebuild" THEN End(o, ok)
  ELSE IF ~ok /\ ~op[o].was THEN End(o, FALSE)
  ELSE /\ Become(o, [op[o] EXCEPT !.doing = "rebuild",
                                  !.pc = IF ok THEN "reload" ELSE "revive"])
       /\ UNCHANGED <<lock, env>>

(* A running app is refused; an app at the newest tag has nothing to do;    *)
(* otherwise the leftovers of an interrupted upgrade are removed.           *)
Guard(o) ==
  /\ At(o, "guard")
  /\ \/ /\ meta = None \/ Running
        /\ UpgradeEnds(o, FALSE)
        /\ UNCHANGED disk
     \/ /\ meta # None /\ ~Running
        /\ ~moving /\ op[o].mine.version = upstream
        /\ UpgradeEnds(o, TRUE)
        /\ UNCHANGED disk
     \/ /\ meta # None /\ ~Running
        /\ moving \/ op[o].mine.version # upstream
        /\ disk' = [disk EXCEPT !.new = None, !.old = None]
        /\ Goto(o, "clone")
        /\ UNCHANGED <<lock, env>>
  /\ UNCHANGED <<box, meta, faults>>

(* The clone beside the installed version and every check made on it; a     *)
(* moving ref that still is at the installed commit ends the upgrade.       *)
Clone(o) ==
  /\ At(o, "clone")
  /\ \/ /\ ~(moving /\ disk.repo = upstream)
        /\ disk' = [disk EXCEPT !.new = upstream]
        /\ Become(o, [op[o] EXCEPT !.pc = "aside", !.aim = upstream])
        /\ UNCHANGED <<lock, env, faults>>
     \/ /\ moving /\ disk.repo = upstream
        /\ UpgradeEnds(o, TRUE)
        /\ UNCHANGED <<disk, faults>>
     \/ /\ Fault("clone")
        /\ UpgradeEnds(o, FALSE)
        /\ UNCHANGED disk
  /\ UNCHANGED <<box, meta>>

(* rename(repository, repository.old)                                       *)
MoveAside(o) ==
  /\ At(o, "aside")
  /\ \/ /\ disk.repo # None /\ disk.old = None
        /\ disk' = [disk EXCEPT !.repo = None, !.old = disk.repo]
        /\ Goto(o, "movein")
        /\ UNCHANGED <<lock, env, faults>>
     \/ /\ IF disk.repo # None /\ disk.old = None THEN Fault("aside") ELSE UNCHANGED faults
        /\ disk' = [disk EXCEPT !.new = None]
        /\ UpgradeEnds(o, FALSE)
  /\ UNCHANGED <<box, meta>>

(* Mutant: the old version is deleted as soon as the new one is in place.   *)
MoveInAndDrop(o) ==
  /\ At(o, "movein")
  /\ \/ /\ disk.new # None
        /\ disk' = [repo |-> disk.new, new |-> None, old |-> None]
        /\ Goto(o, "teardown")
        /\ UNCHANGED <<lock, env, faults>>
     \/ /\ IF disk.new # None THEN Fault("movein") ELSE UNCHANGED faults
        /\ disk' = [repo |-> disk.old, new |-> None, old |-> None]
        /\ UpgradeEnds(o, FALSE)
  /\ UNCHANGED <<box, meta>>

(* rename(repository.new, repository), undone when it fails; a failing undo *)
(* is ignored.                                                              *)
MoveIn(o) ==
  /\ At(o, "movein")
  /\ \/ /\ disk.new # None
        /\ disk' = [disk EXCEPT !.repo = disk.new, !.new = None]
        /\ Goto(o, "teardown")
        /\ UNCHANGED <<lock, env, faults>>
     \/ /\ IF disk.new # None THEN Fault("movein") ELSE UNCHANGED faults
        /\ disk' = [repo |-> disk.old, new |-> None, old |-> None]
        /\ UpgradeEnds(o, FALSE)
     \/ /\ Fault("putback")
        /\ disk' = [disk EXCEPT !.new = None]
        /\ UpgradeEnds(o, FALSE)
  /\ UNCHANGED <<box, meta>>

(* teardown_runtime; its failure is not rolled back                         *)
Teardown(o) ==
  /\ At(o, "teardown")
  /\ \/ /\ box' = None
        /\ Goto(o, "provision")
        /\ UNCHANGED <<lock, env, faults>>
     \/ /\ Fault("teardown")
        /\ UpgradeEnds(o, FALSE)
        /\ UNCHANGED box
  /\ UNCHANGED <<disk, meta>>

(* Mutant: a failure is reported without a rollback.                        *)
ProvisionOrGiveUp(o) ==
  /\ At(o, "provision")
  /\ \/ /\ CanCreate
        /\ NewBox
        /\ Goto(o, "drop")
        /\ UNCHANGED <<lock, env, faults>>
     \/ /\ IF CanCreate THEN Fault("provision") ELSE UNCHANGED faults
        /\ UpgradeEnds(o, FALSE)
        /\ UNCHANGED box
  /\ UNCHANGED <<disk, meta>>

Provision(o) ==
  /\ At(o, "provision")
  /\ \/ /\ CanCreate
        /\ NewBox
        /\ Goto(o, "drop")
        /\ UNCHANGED <<lock, env, faults>>
     \/ /\ disk.repo # None
        /\ IF CanCreate THEN Fault("provision") ELSE UNCHANGED faults
        /\ Goto(o, "undo")
        /\ UNCHANGED <<box, lock, env>>
     \/ /\ disk.repo = None
        /\ UpgradeEnds(o, FALSE)
        /\ UNCHANGED <<box, faults>>
  /\ UNCHANGED <<disk, meta>>

(* rollback: the new version is deleted, the old one moved back and the     *)
(* container created from it, each best effort                              *)
Undo(o) ==
  /\ At(o, "undo")
  /\ disk' = [disk EXCEPT !.repo = None]
  /\ Goto(o, "putback")
  /\ UNCHANGED <<box, meta, lock, env, faults>>

PutBack(o) ==
  /\ At(o, "putback")
  /\ \/ /\ disk.old # None
        /\ disk' = [disk EXCEPT !.repo = disk.old, !.old = None]
        /\ Goto(o, "again")
        /\ UNCHANGED <<lock, env, faults>>
     \/ /\ IF disk.old # None THEN Fault("putback") ELSE UNCHANGED faults
        /\ UpgradeEnds(o, FALSE)
        /\ UNCHANGED disk
  /\ UNCHANGED <<box, meta>>

ProvisionAgain(o) ==
  /\ At(o, "again")
  /\ \/ CanCreate /\ NewBox /\ UNCHANGED faults
     \/ /\ IF CanCreate THEN Fault("provision") ELSE UNCHANGED faults
        /\ UNCHANGED box
  /\ UpgradeEnds(o, FALSE)
  /\ UNCHANGED <<disk, meta>>

Drop(o) ==
  /\ At(o, "drop")
  /\ disk' = [disk EXCEPT !.old = None]
  /\ Goto(o, "record")
  /\ UNCHANGED <<box, meta, lock, env, faults>>

(* The copy read before the lock was taken, with the new version in it.     *)
Record(o) ==
  /\ At(o, "record")
  /\ Save([op[o].mine EXCEPT !.version = op[o].aim])
  /\ UpgradeEnds(o, TRUE)
  /\ UNCHANGED <<disk, box, faults>>

-----------------------------------------------------------------------------
(* rebuild_docker *)

(* Whether the app runs, and whether the ref it follows has moved: then a   *)
(* running app is stopped and upgraded first.                               *)
Look(o) ==
  /\ At(o, "look") /\ op[o].doing = "rebuild"
  /\ \/ meta = None /\ End(o, FALSE)
     \/ /\ meta # None
        /\ \E pull \in BOOLEAN :
             LET moved == pull /\ moving /\ disk.repo # upstream
             IN  Become(o, [op[o] EXCEPT
                    !.was = Running,
                    !.doing = IF moved /\ ~Running THEN "upgrade" ELSE @,
                    !.pc = IF ~moved THEN "image" ELSE IF Running THEN "pull" ELSE "guard"])
        /\ UNCHANGED <<lock, env>>
  /\ UNCHANGED <<world, faults>>

HaltForPull(o) ==
  /\ At(o, "pull")
  /\ \/ /\ box # None
        /\ box' = Stopped
        /\ Become(o, [op[o] EXCEPT !.pc = "guard", !.doing = "upgrade"])
        /\ UNCHANGED <<lock, env, faults>>
     \/ /\ End(o, FALSE)
        /\ IF box # None THEN Fault("stop") ELSE UNCHANGED faults
        /\ UNCHANGED box
  /\ UNCHANGED <<disk, meta>>

Revive(o) ==
  /\ At(o, "revive")
  /\ \/ /\ box # None /\ meta # None
        /\ box' = [box EXCEPT !.running = TRUE]
        /\ UNCHANGED faults
     \/ /\ IF box # None /\ meta # None THEN Fault("start") ELSE UNCHANGED faults
        /\ UNCHANGED box
  /\ End(o, FALSE)
  /\ UNCHANGED <<disk, meta>>

Reload(o) ==
  /\ At(o, "reload")
  /\ IF meta = None THEN End(o, FALSE)
     ELSE /\ Become(o, [op[o] EXCEPT !.mine = meta, !.pc = "image"])
          /\ UNCHANGED <<lock, env>>
  /\ UNCHANGED <<world, faults>>

(* The image is pulled or built; this may fail, or the caller cancel.       *)
Image(o) ==
  /\ At(o, "image")
  /\ \/ /\ disk.repo # None
        /\ Goto(o, "recreate")
        /\ UNCHANGED <<lock, env, faults>>
     \/ /\ IF disk.repo # None THEN Fault("image") ELSE UNCHANGED faults
        /\ End(o, FALSE)
  /\ UNCHANGED world

Recreate(o) ==
  /\ At(o, "recreate")
  /\ \/ /\ disk.repo # None
        /\ box' = None
        /\ Goto(o, "renew")
        /\ UNCHANGED <<lock, env, faults>>
     \/ /\ IF disk.repo # None THEN Fault("remove") ELSE UNCHANGED faults
        /\ End(o, FALSE)
        /\ UNCHANGED box
  /\ UNCHANGED <<disk, meta>>

Renew(o) ==
  /\ At(o, "renew")
  /\ \/ CanCreate /\ NewBox /\ Goto(o, "resave") /\ UNCHANGED <<lock, env, faults>>
     \/ /\ IF CanCreate THEN Fault("provision") ELSE UNCHANGED faults
        /\ End(o, FALSE)
        /\ UNCHANGED box
  /\ UNCHANGED <<disk, meta>>

Resave(o) ==
  /\ At(o, "resave")
  /\ Save(op[o].mine)
  /\ IF op[o].was THEN Goto(o, "rerun") /\ UNCHANGED <<lock, env>> ELSE End(o, TRUE)
  /\ UNCHANGED <<disk, box, faults>>

Rerun(o) ==
  /\ At(o, "rerun")
  /\ \/ box # None /\ box' = [box EXCEPT !.running = TRUE] /\ End(o, TRUE) /\ UNCHANGED faults
     \/ /\ IF box # None THEN Fault("start") ELSE UNCHANGED faults
        /\ End(o, FALSE)
        /\ UNCHANGED box
  /\ UNCHANGED <<disk, meta>>

-----------------------------------------------------------------------------
(* The scheduler's update, the daemon and the world around it *)

LookFirst(o) ==
  /\ At(o, "look") /\ op[o].doing = "update"
  /\ Become(o, [op[o] EXCEPT !.was = Running, !.pc = "read",
                             !.doing = IF Running THEN "stop" ELSE "upgrade"])
  /\ UNCHANGED <<world, lock, env, faults>>

(* Every process that runs an operation ends where it is, the kernel drops  *)
(* their locks, and the daemon is started again.  Containers go on running. *)
Crash ==
  /\ Active # {}
  /\ Fault("crash")
  /\ op' = [o \in Ops |-> Resting]
  /\ lock' = Nobody
  /\ booting' = TRUE
  /\ UNCHANGED <<world, upstream, moving, calls, met>>

StartDaemon(o) ==
  /\ booting /\ At(o, "idle")
  /\ booting' = FALSE
  /\ Become(o, [Resting EXCEPT !.kind = "reconcile", !.doing = "reconcile",
                               !.pc = "read"])
  /\ met' = IF Active = {} THEN met
            ELSE met \cup {"reconcile"} \cup {op[p].kind : p \in Active}
  /\ UNCHANGED <<world, lock, upstream, moving, calls, faults>>

Publish ==
  /\ upstream < MaxVersion
  /\ upstream' = upstream + 1
  /\ UNCHANGED <<world, lock, moving, op, booting, calls, faults, met>>

Step(o) ==
  \/ Read(o) \/ CheckStart(o) \/ CheckRestart(o) \/ CheckReconcile(o)
  \/ Apply(o) \/ Create(o) \/ Keep(o) \/ Run(o) \/ CheckStop(o) \/ Halt(o)
  \/ Note(o) \/ Unload(o) \/ Delete(o) \/ Acquire(o)
  \/ Guard(o) \/ Clone(o) \/ MoveAside(o) \/ MoveIn(o) \/ Teardown(o)
  \/ Provision(o) \/ Undo(o) \/ PutBack(o) \/ ProvisionAgain(o) \/ Drop(o)
  \/ Record(o)
  \/ Look(o) \/ HaltForPull(o) \/ Revive(o) \/ Reload(o) \/ Image(o)
  \/ Recreate(o) \/ Renew(o) \/ Resave(o) \/ Rerun(o)
  \/ LookFirst(o)

Next ==
  \/ \E o \in Ops : Step(o)
  \/ \E o \in Ops, k \in Kinds, force \in BOOLEAN : Call(o, k, force)
  \/ \E o \in Ops : StartDaemon(o)
  \/ Crash
  \/ Publish

Spec == Init /\ [][Next]_vars

-----------------------------------------------------------------------------
(* Properties *)

LockedSteps == {"guard", "clone", "aside", "movein", "teardown", "provision", "undo",
                "putback", "again", "drop", "record", "pull", "revive", "reload",
                "image", "recreate", "renew", "resave", "rerun"}
Holds(o) == op[o].pc \in LockedSteps \/ (op[o].pc = "look" /\ op[o].doing = "rebuild")

(* The operation lock is held by exactly the upgrade or rebuild that is     *)
(* between its acquisition and its end: two never run together, whatever    *)
(* else does, and an ended or crashed one never blocks the next.  Removing  *)
(* the app deletes the lock file itself, so it is left out.                 *)
LockIsExact ==
  "remove" \notin met => \A o \in Ops : (lock = o) <=> Holds(o)

Idle == Active = {}
Alone == met = {}
RolledBack == {"clone", "aside", "movein", "provision", "image", "start", "stop", "remove"}

(* When the calls came one after the other, then between two of them the    *)
(* repository, meta.json and the container are of one version and no         *)
(* leftover directory is there, whichever step of an upgrade or rebuild     *)
(* failed: a failed upgrade put the previous version back.  The failures    *)
(* that are not rolled back are left out: a crash, the container's removal  *)
(* in an upgrade, and moving the old repository back.                       *)
OneVersion ==
  Alone /\ Idle /\ faults.kinds \subseteq RolledBack /\ meta # None =>
    /\ disk = [repo |-> meta.version, new |-> None, old |-> None]
    /\ box # None => box.of = meta.version

(* While the app has a repository, no step of any operation, failing or     *)
(* crashing at any point and running beside any other, leaves it without a  *)
(* copy of one in `repository` or `repository.old`.  Only removing the app  *)
(* does.                                                                    *)
KeepsACopy ==
  [][disk.repo # None /\ "remove" \notin met' /\ meta' # None
       => disk'.repo # None \/ disk'.old # None]_vars

Ends(o) == ~At(o, "idle") /\ op'[o].pc = "idle"
UpgradeFaults == {"clone", "aside", "movein", "teardown", "provision"}

(* A rebuild that succeeds leaves a running app running and a stopped one   *)
(* stopped, even when it stopped the app to update its source.  The         *)
(* scheduler's update brings a running app back, and leaves it wanted,      *)
(* also when its upgrade was refused or failed at any one step; unless the  *)
(* version asks a new setup question.                                       *)
StateKept ==
  [][\A o \in Ops : Ends(o) /\ met' = {} /\ meta' # None =>
       /\ op'[o].kind = "rebuild" /\ op'[o].ok => Running' = op[o].was
       /\ /\ op'[o].kind = "update" /\ op[o].was
          /\ faults'.kinds \subseteq UpgradeFaults /\ faults'.count < 2
          /\ disk'.repo \in Asks => meta'.skipped
          => Running' /\ meta'.wanted = "running"]_vars

(* Whatever operation the daemon died in, at whatever step, its next start  *)
(* brings a wanted app back: unless the repository is gone, or a call to    *)
(* docker fails again in that very step.                                    *)
ReconcileRestores ==
  [][\A o \in Ops : Ends(o) /\ op'[o].kind = "reconcile" /\ met' = {}
                    /\ faults' = faults /\ disk.repo # None
                    /\ meta # None /\ meta.wanted = "running" => Running']_vars

(* What upgrade.rs promises of a crash: the leftovers of an interrupted     *)
(* upgrade do not fail the next, so the repository it is to move aside is   *)
(* there.                                                                   *)
LeftoversDoNotFail == \A o \in Ops : At(o, "aside") => disk.repo # None

(* What rebuild.rs and upgrade.rs promise of the lock: operations that hold *)
(* it for their whole run never interleave, so meta.json names the version   *)
(* that is installed once they are done.                                    *)
NeverInterleave == Idle /\ meta # None => meta.version = disk.repo
=============================================================================
