---------------------------- MODULE Installation ----------------------------
(***************************************************************************)
(* Installing a package (src/src/daemon/pkg/install.rs) beside the removal *)
(* of apps: a directory, a clone, a container and, last, the meta.json     *)
(* that makes it an app.  Any step may fail or be cancelled, and the       *)
(* daemon may die at any of them.                                          *)
(*                                                                         *)
(* The package is one app, or a stack of it and what it needs: Order is    *)
(* the stack's install order, its last app the wanted one.  What a step    *)
(* made is named by the run of the installer that made it; 0 is nothing.   *)
(***************************************************************************)
EXTENDS Naturals, Sequences, FiniteSets

CONSTANTS
  Installers,   \* installs that may run at the same time
  Removers,     \* removals that may run at the same time
  Order,        \* the apps of the stack, dependencies first
  SaveFails,    \* meta.json may fail to be written
  MaxCopies,    \* bound: instances of one package
  MaxInstalls,  \* bound: installs asked for
  MaxSetbacks,  \* bound: steps that fail, cancellations, deaths
  MaxRemovals   \* bound: removals asked for

InstallAssumption ==
  /\ Order \in Seq({Order[k] : k \in DOMAIN Order}) /\ Order # <<>>
  /\ SaveFails \in BOOLEAN
  /\ {MaxCopies, MaxInstalls, MaxSetbacks, MaxRemovals} \subseteq Nat

VARIABLES
  place,      \* by id: the app's directory
  box,        \* by id: the container asc-<id>
  probe,      \* the daemon's clone of the stack
  installer,  \* by request: where it stands
  remover,    \* by removal: where it stands
  leaving,    \* ids whose removal has begun
  dead,       \* runs that were cut off before their clean-up
  tally       \* bounds: runs, failures and removals so far

installVars == <<place, box, probe, installer, remover, leaving, dead, tally>>

Apps == {Order[k] : k \in DOMAIN Order}
Wanted == Order[Len(Order)]
Id == Apps \X (1..MaxCopies)
Run == 0..MaxInstalls
NoId == <<Wanted, 0>>

Place == [by : Run, repo : Run, meta : Run]
NoPlace == [by |-> 0, repo |-> 0, meta |-> 0]
There(id) == place[id].by # 0
(* create_dir_all leaves a directory that is there to who made it.         *)
Made(id, run) == IF There(id) THEN place ELSE [place EXCEPT ![id].by = run]
Installer == [at : {"idle", "probe", "member", "create", "clone", "check", "image",
                    "container", "save", "undo", "leave"},
              run : Run, todo : {SubSeq(Order, k, Len(Order)) : k \in 1..(Len(Order) + 1)},
              id : Id \cup {NoId}, stack : BOOLEAN]
IdleInstaller == [at |-> "idle", run |-> 0, todo |-> <<>>, id |-> NoId, stack |-> FALSE]
Remover == [at : {"idle", "container", "directory"}, id : Id \cup {NoId}]
IdleRemover == [at |-> "idle", id |-> NoId]

InstallTypeOK ==
  /\ place \in [Id -> Place] /\ box \in [Id -> Run] /\ probe \in Run
  /\ installer \in [Installers -> Installer] /\ remover \in [Removers -> Remover]
  /\ leaving \subseteq Id /\ dead \subseteq Run
  /\ tally \in [runs : Run, fails : 0..MaxSetbacks, removals : 0..MaxRemovals]

InstallInit ==
  /\ place = [id \in Id |-> NoPlace] /\ box = [id \in Id |-> 0] /\ probe = 0
  /\ installer = [i \in Installers |-> IdleInstaller]
  /\ remover = [m \in Removers |-> IdleRemover]
  /\ leaving = {} /\ dead = {}
  /\ tally = [runs |-> 0, fails |-> 0, removals |-> 0]

InstallerAt(i, at) == installer[i].at = at
InstallerGoes(i, at) == installer' = [installer EXCEPT ![i].at = at]
MayFail == tally.fails < MaxSetbacks
Fails == MayFail /\ tally' = [tally EXCEPT !.fails = @ + 1]

-----------------------------------------------------------------------------
(* The installer                                                           *)

Ask(i) ==
  /\ InstallerAt(i, "idle") /\ tally.runs < MaxInstalls
  /\ tally' = [tally EXCEPT !.runs = @ + 1]
  /\ \E stack \in BOOLEAN :
       installer' = [installer EXCEPT ![i] =
         [at |-> IF stack THEN "probe" ELSE "member", run |-> tally.runs + 1,
          todo |-> IF stack THEN Order ELSE <<Wanted>>, id |-> NoId, stack |-> stack]]
  /\ UNCHANGED <<place, box, probe, remover, leaving, dead>>

(* The one clone of the whole stack, into a directory named after the      *)
(* process and the package; licence, manifest and names are checked on it. *)
Probe(i) ==
  /\ InstallerAt(i, "probe")
  /\ \/ probe' = installer[i].run /\ InstallerGoes(i, "member") /\ UNCHANGED tally
     \/ probe' \in {0, installer[i].run} /\ Fails /\ InstallerGoes(i, "leave")
  /\ UNCHANGED <<place, box, remover, leaving, dead>>

Installed(id) == place[id].meta # 0

(* Mutant: only installed apps take an id.                                 *)
FreeOfApps(id) == ~Installed(id)
Free(id) == ~There(id)

(* instance_id: the package's name, or the first free one with a number.   *)
NextId(app) ==
  {id \in Id : /\ id[1] = app /\ Free(id)
               /\ \A n \in 1..(id[2] - 1) : ~Free(<<app, n>>)}

(* A dependency that is installed under its own name is shared.            *)
Shared(i) == LET app == Head(installer[i].todo)
             IN  app # Wanted /\ Installed(<<app, 1>>)
Skip(i) ==
  /\ InstallerAt(i, "member") /\ installer[i].todo # <<>> /\ Shared(i)
  /\ installer' = [installer EXCEPT ![i].todo = Tail(@)]
  /\ UNCHANGED <<place, box, probe, remover, leaving, dead, tally>>
Choose(i) ==
  /\ InstallerAt(i, "member") /\ installer[i].todo # <<>> /\ ~Shared(i)
  /\ \E id \in NextId(Head(installer[i].todo)) :
       installer' = [installer EXCEPT ![i].id = id, ![i].at = "create"]
  /\ UNCHANGED <<place, box, probe, remover, leaving, dead, tally>>
AllInstalled(i) ==
  /\ InstallerAt(i, "member") /\ installer[i].todo = <<>>
  /\ InstallerGoes(i, "leave")
  /\ UNCHANGED <<place, box, probe, remover, leaving, dead, tally>>

CreateDir(i) ==
  /\ InstallerAt(i, "create")
  /\ place' = Made(installer[i].id, installer[i].run)
  /\ InstallerGoes(i, "clone")
  /\ UNCHANGED <<box, probe, remover, leaving, dead, tally>>

(* A stack's app copies the stack's clone; git refuses a directory that    *)
(* holds anything.                                                         *)
Clone(i) ==
  LET id == installer[i].id  run == installer[i].run IN
  /\ InstallerAt(i, "clone")
  /\ \/ /\ IF installer[i].stack THEN probe = run ELSE place[id].repo = 0
        /\ place' = [Made(id, run) EXCEPT ![id].repo = run]
        /\ InstallerGoes(i, "check") /\ UNCHANGED tally
     \/ /\ IF installer[i].stack THEN probe # run ELSE place[id].repo # 0
        /\ InstallerGoes(i, "undo") /\ UNCHANGED <<place, tally>>
     \/ /\ Fails /\ place' \in {place, [Made(id, run) EXCEPT ![id].repo = run]}
        /\ InstallerGoes(i, "undo")
  /\ UNCHANGED <<box, probe, remover, leaving, dead>>

(* Cancellation, manifest, licence, policy, resources; then the settings.  *)
Check(i) ==
  /\ InstallerAt(i, "check")
  /\ \/ InstallerGoes(i, "image") /\ UNCHANGED tally
     \/ Fails /\ InstallerGoes(i, "undo")
  /\ UNCHANGED <<place, box, probe, remover, leaving, dead>>

(* The image is pulled or built; the cancellation is looked at again.      *)
Image(i) ==
  /\ InstallerAt(i, "image")
  /\ \/ InstallerGoes(i, "container") /\ UNCHANGED tally
     \/ Fails /\ InstallerGoes(i, "undo")
  /\ UNCHANGED <<place, box, probe, remover, leaving, dead>>

(* The Engine refuses a name that is taken.                                *)
Container(i) ==
  LET id == installer[i].id IN
  /\ InstallerAt(i, "container")
  /\ \/ /\ box[id] = 0
        /\ box' = [box EXCEPT ![id] = installer[i].run]
        /\ InstallerGoes(i, "save") /\ UNCHANGED tally
     \/ box[id] # 0 /\ InstallerGoes(i, "undo") /\ UNCHANGED <<box, tally>>
     \/ Fails /\ InstallerGoes(i, "undo") /\ UNCHANGED box
  /\ UNCHANGED <<place, probe, remover, leaving, dead>>

SaveMeta(i) ==
  LET id == installer[i].id IN
  /\ InstallerAt(i, "save")
  /\ \/ /\ place' = [Made(id, installer[i].run) EXCEPT ![id].meta = installer[i].run]
        /\ installer' = [installer EXCEPT ![i].at = "member", ![i].id = NoId,
                                          ![i].todo = Tail(@)]
        /\ UNCHANGED tally
     \/ SaveFails /\ Fails /\ InstallerGoes(i, "undo") /\ UNCHANGED place
  /\ UNCHANGED <<box, probe, remover, leaving, dead>>

(* The guards are dropped: a failed app's directory, then the stack's      *)
(* clone.                                                                  *)
Undo(i) ==
  /\ InstallerAt(i, "undo")
  /\ place' = [place EXCEPT ![installer[i].id] = NoPlace]
  /\ InstallerGoes(i, "leave")
  /\ UNCHANGED <<box, probe, remover, leaving, dead, tally>>
Leave(i) ==
  /\ InstallerAt(i, "leave")
  /\ probe' = IF installer[i].stack THEN 0 ELSE probe
  /\ installer' = [installer EXCEPT ![i] = IdleInstaller]
  /\ UNCHANGED <<place, box, remover, leaving, dead, tally>>

Work(i) ==
  \/ Probe(i) \/ Skip(i) \/ Choose(i) \/ AllInstalled(i) \/ CreateDir(i) \/ Clone(i)
  \/ Check(i) \/ Image(i) \/ Container(i) \/ SaveMeta(i) \/ Undo(i) \/ Leave(i)

-----------------------------------------------------------------------------
(* Removal takes no lock: the container first, the directory last.         *)

AskRemoval(m) ==
  /\ remover[m].at = "idle" /\ tally.removals < MaxRemovals
  /\ \E id \in Id :
       /\ Installed(id)
       /\ remover' = [remover EXCEPT ![m] = [at |-> "container", id |-> id]]
       /\ leaving' = leaving \cup {id}
  /\ tally' = [tally EXCEPT !.removals = @ + 1]
  /\ UNCHANGED <<place, box, probe, installer, dead>>

RemoveContainer(m) ==
  /\ remover[m].at = "container"
  /\ \/ /\ box' = [box EXCEPT ![remover[m].id] = 0]
        /\ remover' = [remover EXCEPT ![m].at = "directory"]
        /\ UNCHANGED tally
     \/ Fails /\ remover' = [remover EXCEPT ![m] = IdleRemover] /\ UNCHANGED box
  /\ UNCHANGED <<place, probe, installer, leaving, dead>>

(* A removal that fails half way may have taken meta.json already.         *)
RemoveDirectory(m) ==
  LET id == remover[m].id IN
  /\ remover[m].at = "directory"
  /\ \/ /\ place' = [place EXCEPT ![id] = NoPlace] /\ leaving' = leaving \ {id}
        /\ UNCHANGED tally
     \/ /\ place' \in {place, [place EXCEPT ![id].meta = 0], [place EXCEPT ![id].repo = 0]}
        /\ Fails /\ UNCHANGED leaving
  /\ remover' = [remover EXCEPT ![m] = IdleRemover]
  /\ UNCHANGED <<box, probe, installer, dead>>

Removal(m) == RemoveContainer(m) \/ RemoveDirectory(m)

(* The daemon dies; the next one's clones go by another process id.        *)
Dies ==
  /\ Fails
  /\ dead' = dead \cup ({installer[i].run : i \in Installers} \ {0})
  /\ installer' = [i \in Installers |-> IdleInstaller]
  /\ remover' = [m \in Removers |-> IdleRemover]
  /\ probe' = 0
  /\ UNCHANGED <<place, box, leaving>>

InstallNext ==
  \/ \E i \in Installers : Ask(i) \/ Work(i)
  \/ \E m \in Removers : AskRemoval(m) \/ Removal(m)
  \/ Dies

InstallSpec == InstallInit /\ [][InstallNext]_installVars

-----------------------------------------------------------------------------
(* Properties                                                              *)

(* "Each app installs atomically": an app has the clone and the container  *)
(* its own install made.                                                   *)
AppsAreWhole ==
  \A id \in Id : Installed(id) /\ id \notin leaving =>
    place[id].repo = place[id].meta /\ box[id] = place[id].meta

(* "The half-made app directory is removed": what is there without an app  *)
(* belongs to an install that is at it, was killed at it, or to a removal  *)
(* that failed.                                                            *)
NothingHalfMade ==
  \A id \in Id : There(id) /\ ~Installed(id) /\ id \notin leaving =>
    \/ \E i \in Installers : installer[i].id = id
    \/ place[id].by \in dead

(* No install meets a container of the past: a container never outlives    *)
(* the directory that keeps its id taken.                                  *)
NoContainerInTheWay ==
  /\ \A id \in Id : box[id] # 0 => There(id)
  /\ \A i \in Installers : InstallerAt(i, "container") => box[installer[i].id] = 0

(* The three of them: no install, failed or not, and no removal of an app  *)
(* of the same name takes anything of an installed app away.               *)
InstallsAreAtomic == AppsAreWhole /\ NothingHalfMade /\ NoContainerInTheWay
=============================================================================
