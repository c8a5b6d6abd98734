----------------------------- MODULE Apps_proofs -----------------------------
(***************************************************************************)
(* What there is of the apps.  One install beside one removal leaves whole *)
(* apps or none; the index of apps never goes back to an older copy; a     *)
(* backup that was reported good stays, and a restore brings exactly what  *)
(* it holds; an app that is a process runs once at most and app.pid says   *)
(* where: for any number of workers, calls, changes, failures and deaths.  *)
(***************************************************************************)
EXTENDS Installation, AppIndex, Backups, ProcessApps, FiniteSetTheorems,
        SequenceTheorems, TLAPS

-----------------------------------------------------------------------------
(* Installs and removals                                                   *)

-----------------------------------------------------------------------------
(* Type correctness                                                        *)

Rests == {SubSeq(Order, k, Len(Order)) : k \in 1..(Len(Order) + 1)}

LEMMA Stacks ==
  ASSUME InstallAssumption
  PROVE  /\ Order \in Rests /\ <<Wanted>> \in Rests /\ <<>> \in Rests
         /\ \A todo \in Rests : todo # <<>> => Tail(todo) \in Rests
<1> DEFINE n == Len(Order)
<1>1. Order \in Seq(Apps) /\ n \in Nat /\ n # 0 /\ DOMAIN Order = 1..n
  BY LenProperties, EmptySeq DEF InstallAssumption, Apps
<1>2. Order \in Rests
  <2>1. Order = SubSeq(Order, 1, n) /\ 1 \in 1..(n + 1)
    BY <1>1
  <2> QED
    BY <2>1 DEF Rests
<1>3. <<Wanted>> \in Rests
  <2>1. <<Wanted>> = SubSeq(Order, n, n) /\ n \in 1..(n + 1)
    BY <1>1 DEF Wanted
  <2> QED
    BY <2>1 DEF Rests
<1>4. <<>> \in Rests
  <2>1. <<>> = SubSeq(Order, n + 1, n) /\ n + 1 \in 1..(n + 1)
    BY <1>1
  <2> QED
    BY <2>1 DEF Rests
<1>5. ASSUME NEW todo \in Rests, todo # <<>>
      PROVE  Tail(todo) \in Rests
  <2>1. PICK k \in 1..(n + 1) : todo = SubSeq(Order, k, n)
    BY DEF Rests
  <2>2. Tail(todo) = SubSeq(Order, k + 1, n) /\ k + 1 \in 1..(n + 1)
    BY <1>1, <1>5, <2>1
  <2> QED
    BY <2>2 DEF Rests
<1> QED
  BY <1>2, <1>3, <1>4, <1>5

(* The types, by the names the proofs use.                                 *)
Stage == {"idle", "probe", "member", "create", "clone", "check", "image",
          "container", "save", "undo", "leave"}
Named == Id \cup {NoId}
Tally == [runs : Run, fails : 0..MaxSetbacks, removals : 0..MaxRemovals]
AnInstaller == [at : Stage, run : Run, todo : Rests, id : Named, stack : BOOLEAN]

LEMMA InstallNames ==
  ASSUME InstallAssumption
  PROVE  /\ Installer = AnInstaller
         /\ IdleInstaller \in AnInstaller /\ IdleRemover \in Remover
         /\ 0 \in Run /\ MaxInstalls \in Nat /\ MaxSetbacks \in Nat /\ MaxRemovals \in Nat
<1>1. Installer = AnInstaller
  BY DEF Installer, AnInstaller, Stage, Named, Rests
<1>2. 0 \in Run /\ MaxInstalls \in Nat /\ MaxSetbacks \in Nat /\ MaxRemovals \in Nat
  BY DEF Run, InstallAssumption
<1>3. IdleInstaller \in AnInstaller
  BY <1>2, Stacks DEF IdleInstaller, AnInstaller, Stage, Named
<1>4. IdleRemover \in Remover
  BY DEF IdleRemover, Remover
<1> QED
  BY <1>1, <1>2, <1>3, <1>4

TypeParts ==
  /\ place \in [Id -> Place] /\ box \in [Id -> Run] /\ probe \in Run
  /\ installer \in [Installers -> AnInstaller] /\ remover \in [Removers -> Remover]
  /\ leaving \subseteq Id /\ dead \subseteq Run /\ tally \in Tally

LEMMA Typed == InstallAssumption => (InstallTypeOK <=> TypeParts)
BY InstallNames DEF InstallTypeOK, TypeParts, Tally

(* What the installer of a step becomes. *)
Others(i) == \A j \in Installers : j # i => installer'[j] = installer[j]

LEMMA GoesType ==
  ASSUME TypeParts, NEW i \in Installers, NEW at \in Stage, InstallerGoes(i, at)
  PROVE  /\ installer' \in [Installers -> AnInstaller] /\ Others(i)
         /\ installer'[i].at = at /\ installer'[i].run = installer[i].run
         /\ installer'[i].id = installer[i].id /\ installer'[i].todo = installer[i].todo
         /\ installer'[i].stack = installer[i].stack
BY DEF TypeParts, InstallerGoes, AnInstaller, Others

LEMMA FailsType ==
  ASSUME InstallAssumption, TypeParts, Fails
  PROVE  tally' \in Tally
BY InstallNames DEF Fails, MayFail, TypeParts, Tally

LEMMA MadeType ==
  ASSUME InstallAssumption, TypeParts, NEW id \in Id, NEW run \in Run
  PROVE  /\ Made(id, run) \in [Id -> Place]
         /\ [Made(id, run) EXCEPT ![id].repo = run] \in [Id -> Place]
         /\ [Made(id, run) EXCEPT ![id].meta = run] \in [Id -> Place]
         /\ [place EXCEPT ![id] = NoPlace] \in [Id -> Place]
<1>1. Made(id, run) \in [Id -> Place]
  BY DEF Made, TypeParts, Place
<1>2. NoPlace \in Place
  BY InstallNames DEF NoPlace, Place
<1> QED
  BY <1>1, <1>2 DEF TypeParts, Place

(* An install that is between its directory and its record has an id.      *)
Placed == {"create", "clone", "check", "image", "container", "save", "undo"}
Owns(x) == x.at \in Placed => x.id \in Id /\ x.todo # <<>>
IdsInv ==
  /\ \A i \in Installers : Owns(installer[i])
  /\ \A m \in Removers : remover[m].at # "idle" => remover[m].id \in Id
TInv == TypeParts /\ IdsInv

LEMMA InitTInv == InstallAssumption /\ InstallInit => TInv
<1> SUFFICES ASSUME InstallAssumption, InstallInit PROVE TInv
  OBVIOUS
<1>1. NoPlace \in Place
  BY InstallNames DEF NoPlace, Place
<1>2. TypeParts
  BY <1>1, InstallNames DEF InstallInit, TypeParts, Tally
<1>3. IdsInv
  BY DEF IdsInv, Owns, InstallInit, IdleInstaller, IdleRemover, Placed
<1> QED
  BY <1>2, <1>3 DEF TInv

LEMMA IdsKept ==
  ASSUME IdsInv, NEW i \in Installers, Others(i), Owns(installer'[i]), UNCHANGED remover
  PROVE  IdsInv'
BY DEF IdsInv, Others

LEMMA NextTInv == InstallAssumption /\ TInv /\ [InstallNext]_installVars => TInv'
<1> SUFFICES ASSUME InstallAssumption, TInv, [InstallNext]_installVars
             PROVE  TInv'
  OBVIOUS
<1> USE InstallNames
<1>0. TypeParts /\ IdsInv
  BY DEF TInv
<1>1. ASSUME NEW i \in Installers, Ask(i) PROVE TInv'
  <2>1. PICK stack \in BOOLEAN :
          installer' = [installer EXCEPT ![i] =
            [at |-> IF stack THEN "probe" ELSE "member", run |-> tally.runs + 1,
             todo |-> IF stack THEN Order ELSE <<Wanted>>, id |-> NoId, stack |-> stack]]
    BY <1>1 DEF Ask
  <2>2. tally.runs + 1 \in Run
    BY <1>0, <1>1 DEF Ask, TypeParts, Tally, Run
  <2>3. installer' \in [Installers -> AnInstaller]
    BY <1>0, <2>1, <2>2, Stacks DEF TypeParts, AnInstaller, Stage, Named
  <2>4. tally' \in Tally
    BY <1>0, <1>1, <2>2 DEF Ask, TypeParts, Tally
  <2>5. IdsInv'
    <3>1. Others(i) /\ installer'[i].at \in {"probe", "member"}
      BY <1>0, <2>1 DEF TypeParts, Others
    <3> QED
      BY <1>0, <1>1, <3>1, IdsKept DEF Ask, Owns, Placed
  <2> QED
    BY <1>0, <1>1, <2>3, <2>4, <2>5 DEF Ask, TypeParts, TInv
<1>2. ASSUME NEW i \in Installers, Work(i) PROVE TInv'
  <2> DEFINE id == installer[i].id
             run == installer[i].run
  <2>0. run \in Run /\ installer[i] \in AnInstaller /\ id \in Named
    BY <1>0 DEF TypeParts, AnInstaller
  <2>1. CASE Probe(i)
    <3>1. \E at \in {"member", "leave"} : InstallerGoes(i, at)
      BY <2>1 DEF Probe
    <3>2. installer' \in [Installers -> AnInstaller]
      BY <1>0, <3>1, GoesType DEF Stage
    <3>3. probe' \in Run /\ tally' \in Tally
      BY <1>0, <2>0, <2>1, FailsType DEF Probe, TypeParts
    <3>4. IdsInv'
      BY <1>0, <2>1, <3>1, GoesType, IdsKept DEF Probe, Stage, Owns, Placed
    <3> QED
      BY <1>0, <2>1, <3>2, <3>3, <3>4 DEF Probe, TypeParts, TInv
  <2>2. CASE Skip(i)
    <3>1. Tail(installer[i].todo) \in Rests
      BY <2>0, <2>2, Stacks DEF Skip, AnInstaller
    <3>2. installer' \in [Installers -> AnInstaller]
      BY <1>0, <2>2, <3>1 DEF Skip, TypeParts, AnInstaller
    <3>3. IdsInv'
      <4>1. Others(i) /\ installer'[i].at = "member"
        BY <1>0, <2>2 DEF Skip, InstallerAt, TypeParts, AnInstaller, Others
      <4> QED
        BY <1>0, <2>2, <4>1, IdsKept DEF Skip, Owns, Placed
    <3> QED
      BY <1>0, <2>2, <3>2, <3>3 DEF Skip, TypeParts, TInv
  <2>3. CASE Choose(i)
    <3>1. PICK to \in Id : installer' = [installer EXCEPT ![i].id = to, ![i].at = "create"]
      BY <2>3 DEF Choose, NextId
    <3>2. installer' \in [Installers -> AnInstaller]
      <4>1. [installer[i] EXCEPT !.id = to, !.at = "create"] \in AnInstaller
        BY <2>0 DEF AnInstaller, Stage, Named
      <4> QED
        BY <1>0, <3>1, <4>1 DEF TypeParts
    <3>3. IdsInv'
      <4>1. Others(i) /\ installer'[i].id = to /\ installer'[i].todo # <<>>
        BY <1>0, <2>3, <3>1 DEF Choose, TypeParts, AnInstaller, Others
      <4> QED
        BY <1>0, <2>3, <4>1, IdsKept DEF Choose, Owns
    <3> QED
      BY <1>0, <2>3, <3>2, <3>3 DEF Choose, TypeParts, TInv
  <2>4. CASE AllInstalled(i)
    <3>1. installer' \in [Installers -> AnInstaller]
      BY <1>0, <2>4, GoesType DEF AllInstalled, Stage
    <3>2. IdsInv'
      BY <1>0, <2>4, GoesType, IdsKept DEF AllInstalled, Stage, Owns, Placed
    <3> QED
      BY <1>0, <2>4, <3>1, <3>2 DEF AllInstalled, TypeParts, TInv
  <2>5. CASE CreateDir(i)
    <3>1. id \in Id
      BY <1>0, <2>5 DEF CreateDir, InstallerAt, IdsInv, Owns, Placed
    <3>2. place' \in [Id -> Place]
      BY <1>0, <2>0, <2>5, <3>1, MadeType DEF CreateDir
    <3>3. installer' \in [Installers -> AnInstaller]
      BY <1>0, <2>5, GoesType DEF CreateDir, Stage
    <3>4. IdsInv'
      BY <1>0, <2>5, GoesType, IdsKept DEF CreateDir, InstallerAt, IdsInv, Stage, Owns, Placed
    <3> QED
      BY <1>0, <2>5, <3>2, <3>3, <3>4 DEF CreateDir, TypeParts, TInv
  <2>6. CASE Clone(i)
    <3>1. id \in Id /\ \E at \in {"check", "undo"} : InstallerGoes(i, at)
      BY <1>0, <2>6 DEF Clone, InstallerAt, IdsInv, Owns, Placed
    <3>2. place' \in {place, [Made(id, run) EXCEPT ![id].repo = run]} /\ tally' \in Tally
      BY <1>0, <2>6, FailsType DEF Clone, TypeParts
    <3>3. place' \in [Id -> Place]
      <4>1. [Made(id, run) EXCEPT ![id].repo = run] \in [Id -> Place]
        BY <1>0, <2>0, <3>1, MadeType
      <4> QED
        BY <1>0, <3>2, <4>1 DEF TypeParts
    <3>4. installer' \in [Installers -> AnInstaller]
      BY <1>0, <3>1, GoesType DEF Stage
    <3>5. IdsInv'
      BY <1>0, <2>6, <3>1, GoesType, IdsKept
      DEF Clone, InstallerAt, IdsInv, Stage, Owns, Placed
    <3> QED
      BY <1>0, <2>6, <3>2, <3>3, <3>4, <3>5 DEF Clone, TypeParts, TInv
  <2>7. CASE Check(i) \/ Image(i) \/ Container(i)
    <3>1. id \in Id /\ \E at \in {"image", "container", "save", "undo"} : InstallerGoes(i, at)
      BY <1>0, <2>7 DEF Check, Image, Container, InstallerAt, IdsInv, Owns, Placed
    <3>2. box' \in [Id -> Run] /\ tally' \in Tally
      BY <1>0, <2>0, <2>7, FailsType DEF Check, Image, Container, TypeParts
    <3>3. installer' \in [Installers -> AnInstaller]
      BY <1>0, <3>1, GoesType DEF Stage
    <3>4. IdsInv'
      BY <1>0, <2>7, <3>1, GoesType, IdsKept
      DEF Check, Image, Container, InstallerAt, IdsInv, Stage, Owns, Placed
    <3> QED
      BY <1>0, <2>7, <3>2, <3>3, <3>4 DEF Check, Image, Container, TypeParts, TInv
  <2>8. CASE SaveMeta(i)
    <3>1. id \in Id
      BY <1>0, <2>8 DEF SaveMeta, InstallerAt, IdsInv, Owns, Placed
    <3>2. CASE /\ place' = [Made(id, run) EXCEPT ![id].meta = run]
               /\ installer' = [installer EXCEPT ![i].at = "member", ![i].id = NoId,
                                                 ![i].todo = Tail(@)]
               /\ UNCHANGED tally
      <4>1. place' \in [Id -> Place]
        BY <1>0, <2>0, <3>1, <3>2, MadeType
      <4>2. installer' \in [Installers -> AnInstaller]
        <5>0. installer[i].todo # <<>> /\ installer[i].todo \in Rests
          BY <1>0, <2>0, <2>8 DEF SaveMeta, InstallerAt, IdsInv, Owns, Placed, AnInstaller
        <5>1. Tail(installer[i].todo) \in Rests
          BY <5>0, Stacks
        <5>2. [installer[i] EXCEPT !.at = "member", !.id = NoId,
                                   !.todo = Tail(@)] \in AnInstaller
          BY <2>0, <5>1 DEF AnInstaller, Stage, Named
        <5> QED
          BY <1>0, <3>2, <5>2 DEF TypeParts
      <4>3. IdsInv'
        <5>1. Others(i) /\ installer'[i].at = "member"
          BY <1>0, <3>2 DEF TypeParts, AnInstaller, Others
        <5> QED
          BY <1>0, <2>8, <5>1, IdsKept DEF SaveMeta, Owns, Placed
      <4> QED
        BY <1>0, <2>8, <3>2, <4>1, <4>2, <4>3 DEF SaveMeta, TypeParts, TInv
    <3>3. CASE Fails /\ InstallerGoes(i, "undo") /\ UNCHANGED place
      <4>1. installer' \in [Installers -> AnInstaller] /\ tally' \in Tally
        BY <1>0, <3>3, GoesType, FailsType DEF Stage
      <4>2. IdsInv'
        BY <1>0, <2>8, <3>3, GoesType, IdsKept
        DEF SaveMeta, InstallerAt, IdsInv, Stage, Owns, Placed
      <4> QED
        BY <1>0, <2>8, <3>3, <4>1, <4>2 DEF SaveMeta, TypeParts, TInv
    <3> QED
      BY <2>8, <3>2, <3>3 DEF SaveMeta
  <2>9. CASE Undo(i)
    <3>1. id \in Id
      BY <1>0, <2>9 DEF Undo, InstallerAt, IdsInv, Owns, Placed
    <3>2. place' \in [Id -> Place]
      <4>1. [place EXCEPT ![id] = NoPlace] \in [Id -> Place]
        BY <1>0, <2>0, <3>1, MadeType
      <4> QED
        BY <2>9, <4>1 DEF Undo
    <3>3. installer' \in [Installers -> AnInstaller]
      BY <1>0, <2>9, GoesType DEF Undo, Stage
    <3>4. IdsInv'
      BY <1>0, <2>9, GoesType, IdsKept DEF Undo, Stage, Owns, Placed
    <3> QED
      BY <1>0, <2>9, <3>2, <3>3, <3>4 DEF Undo, TypeParts, TInv
  <2>10. CASE Leave(i)
    <3>1. installer' \in [Installers -> AnInstaller] /\ probe' \in Run
      BY <1>0, <2>10 DEF Leave, TypeParts
    <3>2. IdsInv'
      <4>1. Others(i) /\ installer'[i] = IdleInstaller
        BY <1>0, <2>10 DEF Leave, TypeParts, Others
      <4> QED
        BY <1>0, <2>10, <4>1, IdsKept DEF Leave, IdleInstaller, Owns, Placed
    <3> QED
      BY <1>0, <2>10, <3>1, <3>2 DEF Leave, TypeParts, TInv
  <2> QED
    BY <1>2, <2>1, <2>2, <2>3, <2>4, <2>5, <2>6, <2>7, <2>8, <2>9, <2>10 DEF Work
<1>3. ASSUME NEW m \in Removers, AskRemoval(m) PROVE TInv'
  <2>1. tally' \in Tally
    BY <1>0, <1>3 DEF AskRemoval, TypeParts, Tally
  <2> QED
    BY <1>0, <1>3, <2>1 DEF AskRemoval, TypeParts, TInv, IdsInv, Remover
<1>4. ASSUME NEW m \in Removers, RemoveContainer(m) PROVE TInv'
  <2>1. tally' \in Tally /\ box' \in [Id -> Run]
    BY <1>0, <1>4, FailsType DEF RemoveContainer, TypeParts
  <2>2. remover' \in [Removers -> Remover] /\ IdsInv'
    BY <1>0, <1>4 DEF RemoveContainer, TypeParts, IdsInv, Remover, IdleRemover
  <2> QED
    BY <1>0, <1>4, <2>1, <2>2 DEF RemoveContainer, TypeParts, TInv
<1>5. ASSUME NEW m \in Removers, RemoveDirectory(m) PROVE TInv'
  <2> DEFINE id == remover[m].id
  <2>1. id \in Id
    BY <1>0, <1>5 DEF RemoveDirectory, IdsInv
  <2>2. place' \in [Id -> Place]
    BY <1>0, <1>5, <2>1 DEF RemoveDirectory, TypeParts, Place, NoPlace
  <2>3. remover' \in [Removers -> Remover] /\ leaving' \subseteq Id /\ tally' \in Tally
    BY <1>0, <1>5, FailsType DEF RemoveDirectory, TypeParts
  <2>4. IdsInv'
    BY <1>0, <1>5 DEF RemoveDirectory, TypeParts, IdsInv, IdleRemover
  <2> QED
    BY <1>0, <1>5, <2>2, <2>3, <2>4 DEF RemoveDirectory, TypeParts, TInv
<1>6. CASE Dies
  <2>1. installer' \in [Installers -> AnInstaller] /\ remover' \in [Removers -> Remover]
    BY <1>6 DEF Dies
  <2>2. dead' \subseteq Run
    BY <1>0, <1>6 DEF Dies, TypeParts, AnInstaller
  <2>3. IdsInv'
    BY <1>6 DEF Dies, IdsInv, Owns, IdleInstaller, IdleRemover, Placed
  <2> QED
    BY <1>0, <1>6, <2>1, <2>2, <2>3, FailsType DEF Dies, TypeParts, TInv
<1>7. CASE UNCHANGED installVars
  BY <1>0, <1>7 DEF installVars, TypeParts, TInv, IdsInv
<1> QED
  BY <1>1, <1>2, <1>3, <1>4, <1>5, <1>6, <1>7 DEF InstallNext, Removal

(* Every variable keeps its type: an install never goes on with an app     *)
(* that is not left of its stack.                                          *)
THEOREM InstallTypeCorrect == ASSUME InstallAssumption PROVE InstallSpec => []InstallTypeOK
<1>1. InstallAssumption => (TInv => InstallTypeOK)
  BY Typed DEF TInv
<1> QED
  BY <1>1, InitTInv, NextTInv, PTL DEF InstallSpec

-----------------------------------------------------------------------------
(* Atomicity                                                               *)

One ==
  /\ \A i, j \in Installers : i = j
  /\ \A m, n \in Removers : m = n
  /\ ~SaveFails

(* What an install has made so far is in its directory, which nobody       *)
(* removes, and no container is in its way.                                *)
Filled == {"check", "image", "container", "save"}
Stands(x) ==
  /\ x.at # "idle" => x.run # 0
  /\ x.at \in {"idle", "probe", "member"} => x.id = NoId
  /\ x.at \in Placed =>
       /\ x.id \notin leaving
       /\ box[x.id] = IF x.at = "save" THEN x.run ELSE 0
  /\ x.at = "create" => place[x.id] = NoPlace
  /\ x.at = "clone" => place[x.id] = [by |-> x.run, repo |-> 0, meta |-> 0]
  /\ x.at \in Filled => place[x.id] = [by |-> x.run, repo |-> x.run, meta |-> 0]
  /\ x.at = "undo" => place[x.id].by = x.run /\ place[x.id].meta = 0
  /\ x.at = "leave" /\ x.id \in Id => ~There(x.id)

Removes(x) ==
  /\ x.at # "idle" => x.id \in leaving
  /\ x.at = "directory" => box[x.id] = 0

(* What holds for an id, whoever is at it.                                 *)
Apart(id) == ~There(id) => place[id] = NoPlace /\ box[id] = 0 /\ id \notin leaving
Whole(id) == Installed(id) /\ id \notin leaving =>
               place[id].repo = place[id].meta /\ box[id] = place[id].meta
Known(id) == There(id) /\ ~Installed(id) /\ id \notin leaving =>
               (\E i \in Installers : installer[i].id = id) \/ place[id].by \in dead
Sound(id) == Apart(id) /\ Whole(id) /\ Known(id)

AInv ==
  /\ TInv
  /\ \A i \in Installers : Stands(installer[i])
  /\ \A m \in Removers : Removes(remover[m])
  /\ \A id \in Id : Sound(id)

LEMMA Nowhere == InstallAssumption => NoId \notin Id
BY DEF NoId, Id, InstallAssumption

LEMMA AtomicAll == InstallAssumption /\ AInv => InstallsAreAtomic
<1> SUFFICES ASSUME InstallAssumption, AInv PROVE InstallsAreAtomic
  OBVIOUS
<1>1. AppsAreWhole
  BY DEF AInv, Sound, Whole, AppsAreWhole
<1>2. NothingHalfMade
  BY DEF AInv, Sound, Known, NothingHalfMade
<1>3. \A id \in Id : box[id] # 0 => There(id)
  BY DEF AInv, Sound, Apart
<1>4. \A i \in Installers : InstallerAt(i, "container") => box[installer[i].id] = 0
  BY DEF AInv, Stands, InstallerAt, Placed
<1> QED
  BY <1>1, <1>2, <1>3, <1>4 DEF InstallsAreAtomic, NoContainerInTheWay

(* A step of the install changes only what is under its id.                *)
LEMMA InstallFrame ==
  ASSUME InstallAssumption, One, AInv, TInv', NEW i \in Installers,
         NEW id, id = installer[i].id,
         UNCHANGED <<remover, leaving, dead>>,
         \A other \in Id : other # id =>
           place'[other] = place[other] /\ box'[other] = box[other],
         id \in Id => (id \notin leaving \/ UNCHANGED box) /\ Sound(id)',
         Stands(installer[i])'
  PROVE  AInv'
<1>1. ASSUME NEW m \in Removers PROVE Removes(remover[m])'
  <2>1. Removes(remover[m]) /\ (remover[m].at # "idle" => remover[m].id \in Id)
    BY DEF AInv, TInv, IdsInv
  <2>2. remover[m].at # "idle" => box'[remover[m].id] = box[remover[m].id]
    BY <2>1 DEF Removes
  <2> QED
    BY <2>1, <2>2 DEF Removes
<1>2. ASSUME NEW other \in Id, other # id PROVE Sound(other)'
  <2>1. Sound(other) /\ place'[other] = place[other] /\ box'[other] = box[other]
    BY <1>2 DEF AInv
  <2>2. \A j \in Installers : j = i
    BY DEF One
  <2>3. Apart(other)' /\ Whole(other)'
    BY <2>1 DEF Sound, Apart, Whole, There, Installed
  <2>4. Known(other)'
    BY <1>2, <2>1, <2>2 DEF Sound, Known, There, Installed
  <2> QED
    BY <2>3, <2>4 DEF Sound
<1>3. \A j \in Installers : Stands(installer[j])'
  BY DEF One
<1> QED
  BY <1>1, <1>2, <1>3 DEF AInv

(* A removal changes only what is under its id, which no install has.      *)
LEMMA RemovalFrame ==
  ASSUME InstallAssumption, One, AInv, TInv', NEW m \in Removers, NEW id \in Id,
         UNCHANGED <<installer, dead>>,
         id \in leaving \/ Installed(id),
         leaving' \in {leaving, leaving \cup {id}, leaving \ {id}},
         \A other \in Id : other # id =>
           place'[other] = place[other] /\ box'[other] = box[other],
         Removes(remover[m])',
         Sound(id)'
  PROVE  AInv'
<1>1. ASSUME NEW i \in Installers PROVE Stands(installer[i])'
  <2> DEFINE x == installer[i]
  <2>1. Stands(x) /\ Sound(id) /\ (x.at \in Placed => x.id \in Id)
    BY DEF AInv, TInv, IdsInv, Owns
  <2>2. place[id] = NoPlace => ~There(id) /\ ~Installed(id)
    BY DEF NoPlace, There, Installed
  <2>3. x.at \in Placed => x.id # id
    <3>1. x.at \in Placed => x.id \notin leaving /\ ~Installed(x.id)
      BY <2>1 DEF Stands, Placed, Filled, Installed, NoPlace
    <3> QED
      BY <3>1
  <2>4. x.at = "leave" => x.id # id
    BY <2>1, <2>2 DEF Stands, Sound, Apart
  <2>5. x.at \in Placed => /\ place'[x.id] = place[x.id] /\ box'[x.id] = box[x.id]
                           /\ x.id \notin leaving'
    BY <2>1, <2>3 DEF Stands
  <2>6. x.at = "leave" /\ x.id \in Id => place'[x.id] = place[x.id]
    BY <2>4
  <2> QED
    BY <2>1, <2>5, <2>6 DEF Stands, Placed, Filled, There
<1>2. ASSUME NEW other \in Id, other # id PROVE Sound(other)'
  <2>1. Sound(other) /\ place'[other] = place[other] /\ box'[other] = box[other]
        /\ (other \in leaving' <=> other \in leaving)
    BY <1>2 DEF AInv
  <2> QED
    BY <2>1 DEF Sound, Apart, Whole, Known, There, Installed
<1>3. \A n \in Removers : Removes(remover[n])'
  BY DEF One
<1> QED
  BY <1>1, <1>2, <1>3 DEF AInv

(* Where an install is before it has an id, and after it gave it up.       *)
LEMMA AsksAtomic ==
  ASSUME InstallAssumption, One, AInv, TInv', NEW i \in Installers,
         Ask(i) \/ Probe(i) \/ Skip(i) \/ Choose(i) \/ AllInstalled(i) \/ Leave(i)
  PROVE  AInv'
<1> DEFINE x == installer[i]
<1>0. PICK id : id = x.id
  OBVIOUS
<1> USE <1>0
<1>1. TypeParts /\ Stands(x) /\ UNCHANGED <<place, box, remover, leaving, dead>>
  BY DEF AInv, TInv, Ask, Probe, Skip, Choose, AllInstalled, Leave
<1>2. id \in Id => Sound(id)'
  <2>1. CASE Leave(i)
    <3>1. id \in Id => ~There(id) /\ Sound(id)
      BY <1>1, <2>1 DEF AInv, Leave, InstallerAt, Stands
    <3> QED
      BY <1>1, <3>1 DEF Sound, Apart, Whole, Known, There, Installed
  <2>2. CASE ~Leave(i)
    <3>1. id = NoId
      BY <1>1, <2>2 DEF Stands, InstallerAt, Ask, Probe, Skip, Choose, AllInstalled
    <3> QED
      BY <3>1, Nowhere
  <2> QED
    BY <2>1, <2>2
<1>3. Stands(installer[i])'
  <2>1. CASE Ask(i)
    <3>1. /\ installer'[i].run = tally.runs + 1 /\ installer'[i].id = NoId
          /\ installer'[i].at \in {"probe", "member"}
      BY <1>1, <2>1 DEF Ask, TypeParts
    <3>2. tally.runs \in Nat
      BY <1>1, InstallNames DEF TypeParts, Tally, Run
    <3> QED
      BY <3>1, <3>2 DEF Stands, Placed, Filled
  <2>2. CASE Probe(i) \/ AllInstalled(i)
    <3>1. x.at \in {"probe", "member"} /\ \E at \in {"member", "leave"} : InstallerGoes(i, at)
      BY <2>2 DEF Probe, AllInstalled, InstallerAt
    <3>2. /\ installer'[i].run = x.run /\ installer'[i].id = NoId
          /\ installer'[i].at \in {"member", "leave"}
      BY <1>1, <3>1, GoesType DEF Stands, Stage
    <3> QED
      BY <1>1, <3>1, <3>2, Nowhere DEF Stands, Placed, Filled
  <2>3. CASE Skip(i)
    <3>1. /\ installer'[i].run = x.run /\ installer'[i].id = x.id /\ installer'[i].at = x.at
          /\ x.at = "member"
      BY <1>1, <2>3 DEF Skip, InstallerAt, TypeParts, AnInstaller
    <3> QED
      BY <1>1, <3>1 DEF Stands, Placed, Filled
  <2>4. CASE Choose(i)
    <3>1. PICK to \in Id : ~There(to) /\ installer' = [installer EXCEPT ![i].id = to,
                                                                        ![i].at = "create"]
      BY <2>4 DEF Choose, NextId, Free
    <3>2. installer'[i].run = x.run /\ installer'[i].id = to /\ installer'[i].at = "create"
      BY <1>1, <3>1 DEF TypeParts, AnInstaller
    <3>3. x.run # 0
      BY <1>1, <2>4 DEF Stands, Choose, InstallerAt
    <3>4. Sound(to)
      BY DEF AInv
    <3>5. place[to] = NoPlace /\ box[to] = 0 /\ to \notin leaving
      BY <3>1, <3>4 DEF Sound, Apart
    <3> QED
      BY <1>1, <3>2, <3>3, <3>5 DEF Stands, Placed, Filled
  <2>5. CASE Leave(i)
    <3>1. installer'[i] = IdleInstaller
      BY <1>1, <2>5 DEF Leave, TypeParts
    <3> QED
      BY <3>1 DEF Stands, IdleInstaller, Placed, Filled
  <2> QED
    BY <2>1, <2>2, <2>3, <2>4, <2>5
<1> QED
  BY <1>1, <1>2, <1>3, InstallFrame

(* Where it has one.                                                       *)
LEMMA WorkAtomic ==
  ASSUME InstallAssumption, One, AInv, TInv', NEW i \in Installers,
         \/ CreateDir(i) \/ Clone(i) \/ Check(i) \/ Image(i) \/ Container(i)
         \/ SaveMeta(i) \/ Undo(i)
  PROVE  AInv'
<1> DEFINE x == installer[i]
           new == installer'[i]
<1>0. PICK id, run : id = x.id /\ run = x.run
  OBVIOUS
<1> USE <1>0
<1>1. /\ TypeParts /\ Stands(x) /\ x \in AnInstaller /\ run # 0
      /\ x.at \in Placed /\ id \in Id /\ id \notin leaving
      /\ UNCHANGED <<remover, leaving, dead>>
  <2>1. TypeParts /\ Stands(x) /\ x \in AnInstaller
    BY DEF AInv, TInv, TypeParts
  <2>2. x.at \in Placed /\ UNCHANGED <<remover, leaving, dead>>
    BY DEF CreateDir, Clone, Check, Image, Container, SaveMeta, Undo, InstallerAt, Placed
  <2> QED
    BY <2>1, <2>2 DEF AInv, TInv, IdsInv, Owns, Stands, Placed
<1>2. /\ place[id] \in Place /\ NoPlace \in Place
      /\ place[id].by \in {0, run} /\ There(id) => place[id].by = run
      /\ Sound(id)
  BY <1>1, InstallNames DEF TypeParts, Stands, Placed, Filled, NoPlace, Place, There, AInv
<1>3. SUFFICES /\ \A other \in Id : other # id =>
                    place'[other] = place[other] /\ box'[other] = box[other]
               /\ Stands(installer[i])'
               /\ Sound(id)'
  BY <1>1, InstallFrame
<1>4. CASE CreateDir(i)
  <2>1. place' = [place EXCEPT ![id].by = run] /\ box' = box /\ place[id] = NoPlace
        /\ box[id] = 0
    BY <1>1, <1>4 DEF CreateDir, InstallerAt, Stands, Made, There, NoPlace, Placed
  <2>2. place'[id] = [by |-> run, repo |-> 0, meta |-> 0]
    BY <1>1, <2>1 DEF TypeParts, NoPlace
  <2>3. new.at = "clone" /\ new.run = run /\ new.id = id
    BY <1>1, <1>4, GoesType DEF CreateDir, Stage
  <2>4. Stands(installer[i])'
    BY <1>1, <2>1, <2>2, <2>3 DEF Stands, Placed, Filled
  <2>5. Sound(id)'
    BY <1>1, <2>2, <2>3 DEF Sound, Apart, Whole, Known, There, Installed
  <2> QED
    BY <1>1, <2>1, <2>4, <2>5 DEF TypeParts
<1>5. CASE Clone(i)
  <2>1. place[id] = [by |-> run, repo |-> 0, meta |-> 0] /\ box' = box /\ box[id] = 0
    BY <1>1, <1>5 DEF Clone, InstallerAt, Stands, Placed
  <2>2. \/ place' = [place EXCEPT ![id].repo = run] /\ InstallerGoes(i, "check")
        \/ /\ place' \in {place, [place EXCEPT ![id].repo = run]}
           /\ InstallerGoes(i, "undo")
    BY <1>1, <1>5, <2>1 DEF Clone, Made, There
  <2>3. /\ place'[id].by = run /\ place'[id].meta = 0
        /\ \A other \in Id : other # id => place'[other] = place[other]
    BY <1>1, <2>1, <2>2 DEF TypeParts
  <2>4. new.at \in {"check", "undo"} /\ new.run = run /\ new.id = id
    BY <1>1, <2>2, GoesType DEF Stage
  <2>5. new.at = "check" => place'[id] = [by |-> run, repo |-> run, meta |-> 0]
    <3>1. CASE InstallerGoes(i, "undo")
      BY <1>1, <3>1, GoesType DEF Stage
    <3>2. CASE place' = [place EXCEPT ![id].repo = run]
      BY <1>1, <2>1, <3>2 DEF TypeParts
    <3> QED
      BY <2>2, <3>1, <3>2
  <2>6. Stands(installer[i])'
    BY <1>1, <2>1, <2>3, <2>4, <2>5 DEF Stands, Placed, Filled
  <2>7. Sound(id)'
    BY <1>1, <2>3, <2>4 DEF Sound, Apart, Whole, Known, There, Installed
  <2> QED
    BY <2>1, <2>3, <2>6, <2>7
<1>6. CASE Check(i) \/ Image(i)
  <2>1. place' = place /\ box' = box /\ x.at \in {"check", "image"}
        /\ \E at \in {"image", "container", "undo"} : InstallerGoes(i, at)
    BY <1>6 DEF Check, Image, InstallerAt
  <2>2. place[id] = [by |-> run, repo |-> run, meta |-> 0] /\ box[id] = 0
    BY <1>1, <2>1 DEF Stands, Filled, Placed
  <2>3. new.at \in {"image", "container", "undo"} /\ new.run = run /\ new.id = id
    BY <1>1, <2>1, GoesType DEF Stage
  <2>4. Stands(installer[i])'
    BY <1>1, <2>1, <2>2, <2>3 DEF Stands, Placed, Filled
  <2>5. Sound(id)'
    BY <1>1, <2>1, <2>2, <2>3 DEF Sound, Apart, Whole, Known, There, Installed
  <2> QED
    BY <2>1, <2>4, <2>5
<1>7. CASE Container(i)
  <2>1. /\ place' = place /\ place[id] = [by |-> run, repo |-> run, meta |-> 0] /\ box[id] = 0
        /\ \/ box' = [box EXCEPT ![id] = run] /\ InstallerGoes(i, "save")
           \/ box' = box /\ InstallerGoes(i, "undo")
    BY <1>1, <1>7 DEF Container, InstallerAt, Stands, Filled, Placed
  <2>2. /\ new.run = run /\ new.id = id
        /\ \/ new.at = "save" /\ box'[id] = run
           \/ new.at = "undo" /\ box'[id] = 0
    BY <1>1, <2>1, GoesType DEF Stage, TypeParts
  <2>3. Stands(installer[i])'
    BY <1>1, <2>1, <2>2 DEF Stands, Placed, Filled
  <2>4. Sound(id)'
    BY <1>1, <2>1, <2>2 DEF Sound, Apart, Whole, Known, There, Installed
  <2> QED
    BY <1>1, <2>1, <2>3, <2>4 DEF TypeParts
<1>8. CASE SaveMeta(i)
  <2>1. place[id] = [by |-> run, repo |-> run, meta |-> 0] /\ box' = box /\ box[id] = run
    BY <1>1, <1>8 DEF SaveMeta, InstallerAt, Stands, Filled, Placed
  <2>2. /\ place' = [place EXCEPT ![id].meta = run]
        /\ installer' = [installer EXCEPT ![i].at = "member", ![i].id = NoId,
                                          ![i].todo = Tail(@)]
    <3>1. ~SaveFails
      BY DEF One
    <3>2. Made(id, run) = place
      BY <1>1, <2>1 DEF Made, There
    <3> QED
      BY <1>8, <3>1, <3>2 DEF SaveMeta
  <2>3. place'[id] = [by |-> run, repo |-> run, meta |-> run]
    <3>1. place'[id] = [place[id] EXCEPT !.meta = run]
      BY <1>1, <2>2 DEF TypeParts
    <3> QED
      BY <2>1, <3>1
  <2>4. new.at = "member" /\ new.id = NoId /\ new.run = run
    BY <1>1, <2>2 DEF TypeParts, AnInstaller
  <2>5. Stands(installer[i])'
    BY <1>1, <2>4 DEF Stands, Placed, Filled
  <2>6. Sound(id)'
    BY <1>1, <2>1, <2>3 DEF Sound, Apart, Whole, Known, There, Installed
  <2> QED
    BY <1>1, <2>1, <2>2, <2>5, <2>6 DEF TypeParts
<1>9. CASE Undo(i)
  <2>1. place' = [place EXCEPT ![id] = NoPlace] /\ box' = box /\ box[id] = 0
    BY <1>1, <1>9 DEF Undo, InstallerAt, Stands, Placed
  <2>2. new.at = "leave" /\ new.run = run /\ new.id = id
    BY <1>1, <1>9, GoesType DEF Undo, Stage
  <2>3. place'[id] = NoPlace
    BY <1>1, <2>1 DEF TypeParts
  <2>4. Stands(installer[i])'
    BY <1>1, <2>2, <2>3 DEF Stands, Placed, Filled, There, NoPlace
  <2>5. Sound(id)'
    BY <1>1, <2>1, <2>3 DEF Sound, Apart, Whole, Known, There, Installed, NoPlace
  <2> QED
    BY <1>1, <2>1, <2>4, <2>5 DEF TypeParts
<1> QED
  BY <1>4, <1>5, <1>6, <1>7, <1>8, <1>9

LEMMA RemovalAtomic ==
  ASSUME InstallAssumption, One, AInv, TInv', NEW m \in Removers,
         AskRemoval(m) \/ RemoveContainer(m) \/ RemoveDirectory(m)
  PROVE  AInv'
<1>1. TypeParts /\ Removes(remover[m]) /\ UNCHANGED <<installer, dead>>
  BY DEF AInv, TInv, AskRemoval, RemoveContainer, RemoveDirectory
<1>2. CASE AskRemoval(m)
  <2>1. PICK id \in Id :
          /\ Installed(id) /\ leaving' = leaving \cup {id}
          /\ remover' = [remover EXCEPT ![m] = [at |-> "container", id |-> id]]
    BY <1>2 DEF AskRemoval
  <2>2. Removes(remover[m])'
    BY <1>1, <2>1 DEF TypeParts, Removes
  <2>3. Sound(id) /\ There(id)
    BY <2>1 DEF AInv, Sound, Apart, There, Installed, NoPlace
  <2>4. Sound(id)'
    BY <1>2, <2>1, <2>3 DEF AskRemoval, Sound, Apart, Whole, Known, There, Installed
  <2> QED
    BY <1>1, <1>2, <2>1, <2>2, <2>4, RemovalFrame DEF AskRemoval
<1>3. CASE RemoveContainer(m)
  <2>0. PICK id : id = remover[m].id
    OBVIOUS
  <2> USE <2>0
  <2>1. id \in Id /\ id \in leaving /\ Sound(id)
    BY <1>1, <1>3 DEF RemoveContainer, AInv, TInv, IdsInv, Removes
  <2>2. /\ place' = place /\ leaving' = leaving
        /\ \/ /\ box' = [box EXCEPT ![id] = 0]
              /\ remover' = [remover EXCEPT ![m].at = "directory"]
           \/ box' = box /\ remover' = [remover EXCEPT ![m] = IdleRemover]
    BY <1>3 DEF RemoveContainer
  <2>3. box'[id] \in {0, box[id]} /\ \A other \in Id : other # id => box'[other] = box[other]
    BY <1>1, <2>1, <2>2 DEF TypeParts
  <2>4. Removes(remover[m])'
    BY <1>1, <2>1, <2>2 DEF TypeParts, Removes, Remover, IdleRemover
  <2>5. Sound(id)'
    BY <2>1, <2>2, <2>3 DEF Sound, Apart, Whole, Known, There, Installed
  <2> QED
    BY <1>1, <2>1, <2>2, <2>3, <2>4, <2>5, RemovalFrame
<1>4. CASE RemoveDirectory(m)
  <2>0. PICK id : id = remover[m].id
    OBVIOUS
  <2> USE <2>0
  <2>1. id \in Id /\ id \in leaving /\ box[id] = 0 /\ Sound(id) /\ There(id)
    BY <1>1, <1>4 DEF RemoveDirectory, AInv, TInv, IdsInv, Removes, Sound, Apart
  <2>2. /\ box' = box /\ remover' = [remover EXCEPT ![m] = IdleRemover]
        /\ \/ place' = [place EXCEPT ![id] = NoPlace] /\ leaving' = leaving \ {id}
           \/ /\ place' \in {place, [place EXCEPT ![id].meta = 0],
                             [place EXCEPT ![id].repo = 0]}
              /\ leaving' = leaving
    BY <1>4 DEF RemoveDirectory
  <2>3. /\ \/ place'[id] = NoPlace /\ leaving' = leaving \ {id}
           \/ place'[id].by = place[id].by /\ leaving' = leaving
        /\ \A other \in Id : other # id => place'[other] = place[other]
    BY <1>1, <2>1, <2>2 DEF TypeParts, Place
  <2>4. Removes(remover[m])'
    BY <1>1, <2>2 DEF TypeParts, Removes, IdleRemover
  <2>5. Sound(id)'
    BY <2>1, <2>2, <2>3 DEF Sound, Apart, Whole, Known, There, Installed, NoPlace
  <2> QED
    BY <1>1, <2>1, <2>2, <2>3, <2>4, <2>5, RemovalFrame
<1> QED
  BY <1>2, <1>3, <1>4

LEMMA DiesAtomic ==
  ASSUME InstallAssumption, AInv, TInv', Dies
  PROVE  AInv'
<1>1. \A i \in Installers : Stands(installer[i])'
  BY DEF Dies, Stands, IdleInstaller, Placed, Filled
<1>2. \A m \in Removers : Removes(remover[m])'
  BY DEF Dies, Removes, IdleRemover
<1>3. ASSUME NEW id \in Id PROVE Sound(id)'
  <2>1. Sound(id) /\ UNCHANGED <<place, box, leaving>> /\ dead \subseteq dead'
    BY DEF AInv, Dies
  <2>2. ASSUME NEW i \in Installers, installer[i].id = id, There(id), ~Installed(id)
        PROVE  place[id].by \in dead'
    <3>1. Stands(installer[i]) /\ TypeParts
      BY DEF AInv, TInv
    <3>2. installer[i].at \in Placed
      BY <2>2, <3>1, Nowhere DEF Stands, TypeParts, AnInstaller, Stage, Placed
    <3>3. place[id].by = installer[i].run /\ installer[i].run # 0
      BY <2>2, <3>1, <3>2 DEF Stands, Placed, Filled, There, NoPlace
    <3> QED
      BY <3>3 DEF Dies
  <2> QED
    BY <2>1, <2>2 DEF Sound, Apart, Whole, Known, There, Installed
<1> QED
  BY <1>1, <1>2, <1>3 DEF AInv

LEMMA NextAtomic ==
  InstallAssumption /\ One /\ AInv /\ [InstallNext]_installVars => AInv'
<1> SUFFICES ASSUME InstallAssumption, One, AInv, [InstallNext]_installVars
             PROVE  AInv'
  OBVIOUS
<1>1. TInv'
  BY NextTInv DEF AInv
<1>2. CASE UNCHANGED installVars
  BY <1>1, <1>2 DEF installVars, AInv, Stands, Removes, Sound, Apart, Whole, Known, There,
     Installed
<1>3. CASE InstallNext
  BY <1>1, <1>3, AsksAtomic, WorkAtomic, RemovalAtomic, DiesAtomic
  DEF InstallNext, Work, Removal
<1> QED
  BY <1>2, <1>3

LEMMA InitAtomic == InstallAssumption /\ InstallInit => AInv
<1> SUFFICES ASSUME InstallAssumption, InstallInit PROVE AInv
  OBVIOUS
<1>1. \A i \in Installers : Stands(installer[i])
  BY DEF InstallInit, Stands, IdleInstaller, Placed, Filled
<1>2. \A m \in Removers : Removes(remover[m])
  BY DEF InstallInit, Removes, IdleRemover
<1>3. \A id \in Id : Sound(id)
  BY DEF InstallInit, Sound, Apart, Whole, Known, There, Installed, NoPlace
<1> QED
  BY <1>1, <1>2, <1>3, InitTInv DEF AInv

(* With one install and one removal at a time and a meta.json that can be  *)
(* written: whatever step fails, is cancelled or dies, an app has the      *)
(* clone and the container of its own install, what is there without being *)
(* an app has an owner, and no container of the past is in the way.        *)
THEOREM InstallsAtomic ==
  ASSUME InstallAssumption, One
  PROVE  InstallSpec => []InstallsAreAtomic
<1>1. AInv => InstallsAreAtomic
  BY AtomicAll
<1> QED
  BY <1>1, InitAtomic, NextAtomic, PTL DEF InstallSpec

-----------------------------------------------------------------------------
(* The index of apps                                                       *)

(* A worker between the begin of its transaction and the end of it.        *)
Inside(x) ==
  \/ x.at \in {"meta", "settings", "git", "commit", "unusable", "store"}
  \/ x.at = "remember" /\ ~x.rebuild
OneWrites == \A w \in Workers : Inside(worker[w]) => writing = w

(* Stamps are given in order, so what was read at any time is not newer    *)
(* than a file that is there now.                                          *)
Behind(old, new) == new = 0 \/ old <= new
NotNewer(s, now) ==
  Behind(s.meta, now.meta) /\ Behind(s.settings, now.settings) /\ Behind(s.git, now.git)
Given(s, n) == s.meta <= n /\ s.settings <= n /\ s.git <= n
CopyInv ==
  /\ Given(files.at, spent.changes)
  /\ Given(row.at, spent.changes) /\ NotNewer(row.at, files.at)
  /\ \A w \in Workers : /\ Given(worker[w].read, spent.changes)
                        /\ NotNewer(worker[w].read, files.at)

(* What a worker read inside its transaction is not older than the rows.   *)
Read == {"settings", "git", "commit", "unusable", "store"}
ReadInv ==
  \A w \in Workers :
    worker[w].at \in Read \/ (worker[w].at = "remember" /\ ~worker[w].rebuild) =>
      NotNewer(row.at, worker[w].read)

IndexInv == IndexTypeOK /\ OneWrites /\ CopyInv /\ ReadInv

Spent == [changes : Stamp, rebuilds : 0..MaxRebuilds, kills : 0..MaxKills]

LEMMA StampTypes ==
  ASSUME IndexAssumption
  PROVE  /\ Stamp \subseteq Nat /\ 0 \in Stamp
         /\ NoStamps \in Stamps /\ NoStamps.meta = 0 /\ NoStamps.settings = 0
         /\ NoStamps.git = 0
         /\ \A m \in Stamp : [NoStamps EXCEPT !.meta = m] \in Stamps
         /\ Nobody \notin Workers
<1>1. MaxFileChanges \in Nat
  BY DEF IndexAssumption
<1>2. Stamp \subseteq Nat /\ 0 \in Stamp
  BY <1>1 DEF Stamp
<1>3. /\ NoStamps \in Stamps /\ NoStamps.meta = 0 /\ NoStamps.settings = 0
      /\ NoStamps.git = 0
      /\ \A m \in Stamp : [NoStamps EXCEPT !.meta = m] \in Stamps
  BY <1>2 DEF NoStamps, Stamps
<1>4. Nobody \notin Workers
  BY DEF Workers, Nobody, Watcher, IndexAssumption
<1> QED
  BY <1>2, <1>3, <1>4

LEMMA IdleTypes ==
  ASSUME IndexAssumption
  PROVE  /\ IdleWorker \in Worker /\ IdleWorker.at = "idle" /\ IdleWorker.read = NoStamps
         /\ ~Inside(IdleWorker)
         /\ \A s \in Stamps : \A at \in {"begin", "compare"} :
              /\ [IdleWorker EXCEPT !.at = at, !.stored = s] \in Worker
              /\ [IdleWorker EXCEPT !.at = at, !.stored = s].read = NoStamps
              /\ [IdleWorker EXCEPT !.at = at, !.stored = s].at = at
         /\ [IdleWorker EXCEPT !.at = "begin"] \in Worker
         /\ [IdleWorker EXCEPT !.at = "begin"].read = NoStamps
         /\ [IdleWorker EXCEPT !.at = "begin"].at = "begin"
         /\ \A l \in BOOLEAN :
              LET x == [IdleWorker EXCEPT !.at = "begin", !.rebuild = TRUE, !.listed = l]
              IN  x \in Worker /\ x.read = NoStamps /\ x.at = "begin"
BY StampTypes DEF IdleWorker, Worker, Inside

-----------------------------------------------------------------------------
(* One worker moves on, and the files and the rows stay.                   *)

ReadsAhead(x) ==
  x.at \in Read \/ (x.at = "remember" /\ ~x.rebuild) => NotNewer(row.at, x.read)

Turns(w, x) ==
  /\ worker' = [worker EXCEPT ![w] = x]
  /\ x \in Worker /\ Given(x.read, spent.changes) /\ NotNewer(x.read, files.at)
  /\ ReadsAhead(x)
  /\ Inside(x) => writing' = w
  /\ \/ writing' = writing \/ writing = Nobody
     \/ writing = w /\ writing' = Nobody

LEMMA TurnKeeps ==
  ASSUME IndexAssumption, IndexInv, NEW w \in Workers, NEW x, Turns(w, x),
         UNCHANGED <<files, row>>, spent' \in Spent, spent'.changes = spent.changes,
         broken' \in [{"daemon", "cli"} -> Stamps], dirty' \in BOOLEAN,
         writing' \in Workers \cup {Nobody}
  PROVE  IndexInv'
<1>1. /\ worker \in [Workers -> Worker] /\ worker' = [worker EXCEPT ![w] = x]
      /\ x \in Worker
  BY DEF IndexInv, IndexTypeOK, Turns
<1>2. /\ worker' \in [Workers -> Worker] /\ worker'[w] = x
      /\ \A v \in Workers : v # w => worker'[v] = worker[v]
  BY <1>1
<1>3. IndexTypeOK'
  BY <1>2 DEF IndexInv, IndexTypeOK, Spent
<1>4. OneWrites'
  <2> SUFFICES ASSUME NEW v \in Workers, Inside(worker'[v]) PROVE writing' = v
    BY DEF OneWrites
  <2>1. CASE v = w
    BY <1>2, <2>1 DEF Turns
  <2>2. CASE v # w
    <3>1. writing = v
      BY <1>2, <2>2 DEF IndexInv, OneWrites
    <3> QED
      BY <2>2, <3>1, StampTypes DEF Turns
  <2> QED
    BY <2>1, <2>2
<1>5. CopyInv'
  <2>1. \A v \in Workers : /\ Given(worker'[v].read, spent.changes)
                           /\ NotNewer(worker'[v].read, files.at)
    BY <1>2 DEF IndexInv, CopyInv, Turns
  <2> QED
    BY <2>1 DEF IndexInv, CopyInv, Given, NotNewer, Behind
<1>6. ReadInv'
  <2>1. \A v \in Workers : ReadsAhead(worker'[v])
    BY <1>2 DEF IndexInv, ReadInv, ReadsAhead, Turns
  <2> QED
    BY <2>1 DEF ReadInv, ReadsAhead, NotNewer, Behind
<1> QED
  BY <1>3, <1>4, <1>5, <1>6 DEF IndexInv

(* Where nothing was read yet, there is nothing to compare.                *)
LEMMA NothingRead ==
  ASSUME IndexAssumption, IndexInv
  PROVE  /\ Given(NoStamps, spent.changes) /\ NotNewer(NoStamps, files.at)
         /\ NotNewer(row.at, NoStamps)
<1>1. /\ spent.changes \in Nat /\ files.at.meta \in Nat /\ files.at.settings \in Nat
      /\ files.at.git \in Nat
  BY StampTypes DEF IndexInv, IndexTypeOK, Files, Stamps
<1> QED
  BY <1>1, StampTypes DEF Given, NotNewer, Behind

Places ==
  {"idle", "compare", "begin", "meta", "settings", "git", "commit", "unusable", "store",
   "remember"}

LEMMA WorkerSteps ==
  ASSUME NEW x \in Worker, NEW at \in Places
  PROVE  /\ [x EXCEPT !.at = at] \in Worker
         /\ [x EXCEPT !.at = at].at = at /\ [x EXCEPT !.at = at].read = x.read
         /\ [x EXCEPT !.at = at].rebuild = x.rebuild
<1>1. /\ [x EXCEPT !.at = at].at = at /\ [x EXCEPT !.at = at].read = x.read
      /\ [x EXCEPT !.at = at].rebuild = x.rebuild
  BY DEF Worker
<1>2. [x EXCEPT !.at = at] \in Worker
  BY DEF Worker, Places
<1> QED
  BY <1>1, <1>2

LEMMA WorkerTypes ==
  ASSUME IndexTypeOK, NEW w \in Workers
  PROVE  /\ worker[w] \in Worker /\ worker[w].read \in Stamps
         /\ worker[w].stored \in Stamps /\ worker[w].commit \in Stamp
         /\ files.at \in Stamps /\ row.at \in Stamps /\ row.commit \in Stamp
         /\ files.at.meta \in Stamp /\ files.at.settings \in Stamp
         /\ files.at.git \in Stamp
<1>1. worker[w] \in Worker /\ files \in Files /\ row \in Row
  BY DEF IndexTypeOK
<1>2. /\ worker[w].read \in Stamps /\ worker[w].stored \in Stamps
      /\ worker[w].commit \in Stamp
  BY <1>1 DEF Worker
<1>3. files.at \in Stamps /\ row.at \in Stamps /\ row.commit \in Stamp
  BY <1>1 DEF Files, Row
<1> QED
  BY <1>1, <1>2, <1>3 DEF Stamps

-----------------------------------------------------------------------------
(* The transaction                                                         *)

LEMMA BeginKeeps ==
  ASSUME IndexAssumption, IndexInv, NEW w \in Workers, BeginWrite(w)
  PROVE  IndexInv'
<1> DEFINE x == [worker[w] EXCEPT !.at = "meta"]
<1>0. IndexTypeOK
  BY DEF IndexInv
<1>1. /\ worker[w].at = "begin" /\ writing = Nobody /\ writing' = w
      /\ UNCHANGED <<files, row, broken, dirty, spent>>
      /\ worker' = [worker EXCEPT ![w].at = "meta"]
  BY DEF BeginWrite, Step
<1>w. worker[w] \in Worker /\ "meta" \in Places
  BY <1>0, WorkerTypes DEF Places
<1>2. x \in Worker /\ x.at = "meta" /\ x.read = worker[w].read
  BY <1>w, WorkerSteps
<1>3. worker' = [worker EXCEPT ![w] = x]
  BY <1>0, <1>1 DEF IndexTypeOK
<1>4. Turns(w, x)
  BY <1>1, <1>2, <1>3 DEF Turns, ReadsAhead, Read, IndexInv, CopyInv
<1> HIDE DEF x
<1> QED
  BY <1>0, <1>1, <1>4, TurnKeeps DEF IndexTypeOK, Spent

LEMMA ReadMetaKeeps ==
  ASSUME IndexAssumption, IndexInv, NEW w \in Workers, ReadMeta(w)
  PROVE  IndexInv'
<1> DEFINE m == IF worker[w].listed THEN files.at.meta ELSE 0
           at == IF files.at.meta = 0 \/ ~worker[w].listed THEN "store"
                 ELSE IF files.usable THEN "settings" ELSE "unusable"
           r == [NoStamps EXCEPT !.meta = m]
           x == [worker[w] EXCEPT !.read = r, !.at = at]
<1>0. IndexTypeOK
  BY DEF IndexInv
<1>1. /\ worker[w].at = "meta" /\ UNCHANGED <<files, row, writing, broken, dirty, spent>>
      /\ worker' = [worker EXCEPT ![w].read = r, ![w].at = at]
  BY DEF ReadMeta
<1>2. writing = w
  BY <1>1 DEF IndexInv, OneWrites, Inside
<1>3. m \in Stamp /\ (m = 0 \/ m = files.at.meta) /\ r \in Stamps
      /\ r.meta = m /\ r.settings = 0 /\ r.git = 0
  BY <1>0, WorkerTypes, StampTypes DEF Stamps, NoStamps
<1>a. at \in Places
  BY DEF Places
<1>w. worker[w] \in Worker
  BY <1>0, WorkerTypes
<1>4. x \in Worker /\ x.read = r
  <2> HIDE DEF r, at
  <2> QED
    BY <1>3, <1>a, <1>w DEF Worker, Places
<1>5. worker' = [worker EXCEPT ![w] = x]
  BY <1>0, <1>1 DEF IndexTypeOK
<1>6. /\ row.at.meta \in Nat /\ files.at.meta \in Nat /\ files.at.settings \in Nat
      /\ files.at.git \in Nat /\ spent.changes \in Nat
  BY <1>0, StampTypes, WorkerTypes DEF IndexTypeOK, Stamps
<1>7. Given(r, spent.changes) /\ NotNewer(r, files.at) /\ NotNewer(row.at, r)
  BY <1>3, <1>6 DEF IndexInv, CopyInv, Given, NotNewer, Behind
<1>8. Turns(w, x)
  <2> HIDE DEF r, m, at
  <2> QED
    BY <1>1, <1>2, <1>4, <1>5, <1>7 DEF Turns, ReadsAhead
<1> HIDE DEF x, r, m, at
<1> QED
  BY <1>0, <1>1, <1>8, TurnKeeps DEF IndexTypeOK, Spent

LEMMA ReadRestKeeps ==
  ASSUME IndexAssumption, IndexInv, NEW w \in Workers, ReadSettings(w) \/ ReadGit(w)
  PROVE  IndexInv'
<1>0. IndexTypeOK
  BY DEF IndexInv
<1>1. /\ worker[w].at \in {"settings", "git"}
      /\ UNCHANGED <<files, row, writing, broken, dirty, spent>>
  BY DEF ReadSettings, ReadGit
<1>2. writing = w /\ NotNewer(row.at, worker[w].read)
  BY <1>1 DEF IndexInv, OneWrites, Inside, ReadInv, Read
<1>3. PICK r \in Stamps, at \in {"git", "commit"} :
        /\ worker' = [worker EXCEPT ![w].read = r, ![w].at = at]
        /\ r.meta = worker[w].read.meta
        /\ r.settings \in {worker[w].read.settings, files.at.settings}
        /\ r.git \in {worker[w].read.git, files.at.git}
  <2>1. CASE ReadSettings(w)
    <3> DEFINE r == [worker[w].read EXCEPT !.settings = files.at.settings]
    <3>1. /\ r \in Stamps /\ r.meta = worker[w].read.meta
          /\ r.settings = files.at.settings /\ r.git = worker[w].read.git
      BY <1>0, WorkerTypes DEF Stamps
    <3>2. worker' = [worker EXCEPT ![w].read = r, ![w].at = "git"]
      BY <1>0, <2>1, WorkerTypes DEF ReadSettings, IndexTypeOK, Worker
    <3> QED
      BY <3>1, <3>2
  <2>2. CASE ReadGit(w)
    <3> DEFINE r == [worker[w].read EXCEPT !.git = files.at.git]
    <3>1. /\ r \in Stamps /\ r.meta = worker[w].read.meta
          /\ r.settings = worker[w].read.settings /\ r.git = files.at.git
      BY <1>0, WorkerTypes DEF Stamps
    <3>2. worker' = [worker EXCEPT ![w].read = r, ![w].at = "commit"]
      BY <1>0, <2>2, WorkerTypes DEF ReadGit, IndexTypeOK, Worker
    <3> QED
      BY <3>1, <3>2
  <2> QED
    BY <2>1, <2>2
<1> DEFINE x == [worker[w] EXCEPT !.read = r, !.at = at]
<1>w. worker[w] \in Worker /\ at \in Places
  BY <1>0, WorkerTypes DEF Places
<1>4. x \in Worker /\ x.read = r
  BY <1>3, <1>w DEF Worker, Places
<1>5. worker' = [worker EXCEPT ![w] = x]
  BY <1>0, <1>3 DEF IndexTypeOK
<1>6. /\ row.at.settings \in Nat /\ files.at.settings \in Nat /\ row.at.git \in Nat
      /\ files.at.git \in Nat /\ spent.changes \in Nat
  BY <1>0, StampTypes, WorkerTypes DEF IndexTypeOK, Stamps
<1>7. Given(r, spent.changes) /\ NotNewer(r, files.at) /\ NotNewer(row.at, r)
  BY <1>2, <1>3, <1>6 DEF IndexInv, CopyInv, Given, NotNewer, Behind
<1>8. Turns(w, x)
  BY <1>1, <1>2, <1>4, <1>5, <1>7 DEF Turns, ReadsAhead
<1> HIDE DEF x
<1> QED
  BY <1>0, <1>1, <1>8, TurnKeeps DEF IndexTypeOK, Spent

LEMMA ResolveKeeps ==
  ASSUME IndexAssumption, IndexInv, NEW w \in Workers, Resolve(w) \/ NoteUnusable(w)
  PROVE  IndexInv'
<1>0. IndexTypeOK
  BY DEF IndexInv
<1>1. /\ worker[w].at \in {"commit", "unusable"}
      /\ UNCHANGED <<files, row, writing, broken, dirty, spent>>
  BY DEF Resolve, NoteUnusable
<1>2. writing = w /\ NotNewer(row.at, worker[w].read)
  BY <1>1 DEF IndexInv, OneWrites, Inside, ReadInv, Read
<1>3. /\ Given(worker[w].read, spent.changes) /\ NotNewer(worker[w].read, files.at)
  BY DEF IndexInv, CopyInv
<1>w. worker[w] \in Worker
  BY <1>0, WorkerTypes
<1>4. PICK x \in Worker : /\ worker' = [worker EXCEPT ![w] = x]
                          /\ x.read \in {NoStamps, worker[w].read}
  <2>1. CASE Resolve(w)
    <3> DEFINE x == [worker[w] EXCEPT !.commit = CommitFor(w), !.at = "store"]
    <3>1. CommitFor(w) \in Stamp
      BY <1>0, WorkerTypes DEF CommitFor
    <3>2. x \in Worker /\ x.read = worker[w].read
      BY <1>w, <3>1 DEF Worker
    <3>3. worker' = [worker EXCEPT ![w] = x]
      BY <1>0, <2>1 DEF Resolve, IndexTypeOK
    <3> HIDE DEF x
    <3> QED
      BY <3>2, <3>3
  <2>2. CASE NoteUnusable(w)
    <3> DEFINE at == IF worker[w].rebuild THEN "store" ELSE "remember"
               x == [worker[w] EXCEPT !.read = NoStamps, !.stored = Seen, !.at = at]
    <3>1. Seen \in Stamps /\ NoStamps \in Stamps
      BY <1>0, WorkerTypes, StampTypes DEF Seen
    <3>2. x \in Worker /\ x.read = NoStamps
      BY <1>w, <3>1 DEF Worker
    <3>3. worker' = [worker EXCEPT ![w] = x]
      BY <1>0, <2>2 DEF NoteUnusable, IndexTypeOK
    <3> HIDE DEF x
    <3> QED
      BY <3>2, <3>3
  <2> QED
    BY <2>1, <2>2
<1>5. Turns(w, x)
  BY <1>1, <1>2, <1>3, <1>4, NothingRead DEF Turns, ReadsAhead
<1> QED
  BY <1>0, <1>1, <1>5, TurnKeeps DEF IndexTypeOK, Spent

LEMMA RememberKeeps ==
  ASSUME IndexAssumption, IndexInv, NEW w \in Workers, Remember(w)
  PROVE  IndexInv'
<1> DEFINE x == IF worker[w].rebuild THEN IdleWorker ELSE [worker[w] EXCEPT !.at = "store"]
<1>0. IndexTypeOK
  BY DEF IndexInv
<1>w. worker[w] \in Worker /\ "store" \in Places
  BY <1>0, WorkerTypes DEF Places
<1>1. /\ worker[w].at = "remember" /\ UNCHANGED <<files, row, writing, dirty, spent>>
      /\ broken' = [broken EXCEPT ![ProcessOf(w)] = worker[w].stored]
      /\ worker' = [worker EXCEPT ![w] = x]
  BY <1>0 DEF Remember, Step, IndexTypeOK
<1>2. broken' \in [{"daemon", "cli"} -> Stamps]
  BY <1>0, <1>1, WorkerTypes DEF IndexTypeOK, ProcessOf
<1>3. Turns(w, x)
  <2>1. CASE worker[w].rebuild
    BY <1>1, <2>1, IdleTypes, NothingRead DEF Turns, ReadsAhead, Read
  <2>2. CASE ~worker[w].rebuild
    <3>1. x \in Worker /\ x.read = worker[w].read
      BY <1>w, <2>2, WorkerSteps
    <3>2. writing = w /\ NotNewer(row.at, worker[w].read)
      BY <1>1, <2>2 DEF IndexInv, OneWrites, Inside, ReadInv
    <3>3. Given(worker[w].read, spent.changes) /\ NotNewer(worker[w].read, files.at)
      BY DEF IndexInv, CopyInv
    <3> HIDE DEF x
    <3> QED
      BY <1>1, <3>1, <3>2, <3>3 DEF Turns, ReadsAhead
  <2> QED
    BY <2>1, <2>2
<1> HIDE DEF x
<1> QED
  BY <1>0, <1>1, <1>2, <1>3, TurnKeeps DEF IndexTypeOK, Spent

(* The rows become what was read, and nobody else is inside.               *)
StoresLater ==
  row.at.meta # 0 /\ row'.at.meta # 0 =>
    /\ row.at.meta <= row'.at.meta
    /\ Behind(row.at.settings, row'.at.settings) /\ Behind(row.at.git, row'.at.git)

LEMMA StoreKeeps ==
  ASSUME IndexAssumption, IndexInv, NEW w \in Workers, Store(w)
  PROVE  IndexInv' /\ StoresLater
<1> DEFINE x == IF worker[w].rebuild THEN [worker[w] EXCEPT !.at = "remember"] ELSE IdleWorker
<1>0. IndexTypeOK
  BY DEF IndexInv
<1>w. worker[w] \in Worker /\ "remember" \in Places
  BY <1>0, WorkerTypes DEF Places
<1>1. /\ worker[w].at = "store" /\ UNCHANGED <<files, dirty, spent>> /\ writing' = Nobody
      /\ row' = IF worker[w].read.meta = 0 THEN NoRow
                ELSE [at |-> worker[w].read, commit |-> worker[w].commit]
      /\ broken' \in {broken, [broken EXCEPT ![ProcessOf(w)] = NoStamps]}
      /\ worker' = [worker EXCEPT ![w] = x]
  BY <1>0 DEF Store, Step, IndexTypeOK
<1>2. writing = w /\ NotNewer(row.at, worker[w].read)
  BY <1>1 DEF IndexInv, OneWrites, Inside, ReadInv, Read
<1>3. x \in Worker /\ ~Inside(x) /\ x.read \in {worker[w].read, NoStamps}
  <2>1. CASE worker[w].rebuild
    <3>1. x \in Worker /\ x.at = "remember" /\ x.read = worker[w].read /\ x.rebuild
      BY <1>w, <2>1, WorkerSteps
    <3> HIDE DEF x
    <3> QED
      BY <3>1 DEF Inside
  <2>2. CASE ~worker[w].rebuild
    BY <2>2, IdleTypes
  <2> QED
    BY <2>1, <2>2
<1> HIDE DEF x
<1>4. /\ worker' \in [Workers -> Worker] /\ worker'[w] = x
      /\ \A v \in Workers : v # w => worker'[v] = worker[v]
  BY <1>0, <1>1, <1>3 DEF IndexTypeOK
<1>5. row'.at \in {NoStamps, worker[w].read} /\ row' \in Row
  BY <1>0, <1>1, WorkerTypes, StampTypes DEF NoRow, Row
<1>6. IndexTypeOK'
  <2>1. broken' \in [{"daemon", "cli"} -> Stamps]
    BY <1>0, <1>1, StampTypes DEF IndexTypeOK, ProcessOf
  <2> QED
    BY <1>0, <1>1, <1>4, <1>5, <2>1 DEF IndexTypeOK
<1>7. \A v \in Workers : ~Inside(worker'[v])
  <2>1. \A v \in Workers : v # w => ~Inside(worker[v])
    BY <1>2 DEF IndexInv, OneWrites
  <2> QED
    BY <1>3, <1>4, <2>1
<1>8. OneWrites'
  BY <1>7 DEF OneWrites
<1>9. ReadInv'
  BY <1>7 DEF ReadInv, Inside, Read
<1>10. /\ Given(worker[w].read, spent.changes) /\ NotNewer(worker[w].read, files.at)
       /\ \A v \in Workers : /\ Given(worker[v].read, spent.changes)
                             /\ NotNewer(worker[v].read, files.at)
  BY DEF IndexInv, CopyInv
<1>11. /\ Given(row'.at, spent.changes) /\ NotNewer(row'.at, files.at)
       /\ \A v \in Workers : /\ Given(worker'[v].read, spent.changes)
                             /\ NotNewer(worker'[v].read, files.at)
  BY <1>3, <1>4, <1>5, <1>10, NothingRead
<1>12. CopyInv'
  BY <1>1, <1>11 DEF IndexInv, CopyInv, Given, NotNewer, Behind
<1>13. StoresLater
  <2> SUFFICES ASSUME row'.at.meta # 0 PROVE StoresLater
    BY DEF StoresLater
  <2>1. row'.at = worker[w].read
    BY <1>1, <1>5, StampTypes
  <2> QED
    BY <1>2, <2>1 DEF StoresLater, NotNewer, Behind
<1> QED
  BY <1>6, <1>8, <1>9, <1>12, <1>13 DEF IndexInv

-----------------------------------------------------------------------------
(* What begins a transaction, and what ends one                            *)

LEMMA StartKeeps ==
  ASSUME IndexAssumption, IndexInv, NEW w \in Workers,
         Rebuild(w) \/ Verify(w) \/ Compare(w) \/ Kill(w)
  PROVE  IndexInv'
<1>0. IndexTypeOK
  BY DEF IndexInv
<1>1. /\ UNCHANGED <<files, row, broken, dirty>> /\ spent' \in Spent
      /\ spent'.changes = spent.changes
      /\ writing' = writing \/ (writing = w /\ writing' = Nobody)
  <2>1. spent \in Spent /\ MaxRebuilds \in Nat /\ MaxKills \in Nat
    BY <1>0 DEF IndexTypeOK, Spent, IndexAssumption
  <2>2. CASE Rebuild(w)
    BY <2>1, <2>2 DEF Rebuild, Spent
  <2>3. CASE Verify(w) \/ Compare(w)
    BY <2>1, <2>3 DEF Verify, Compare
  <2>4. CASE Kill(w)
    BY <2>1, <2>4 DEF Kill, Spent
  <2> QED
    BY <2>2, <2>3, <2>4
<1>2. PICK x \in Worker : /\ worker' = [worker EXCEPT ![w] = x]
                          /\ x.read = NoStamps /\ x.at \in {"idle", "begin", "compare"}
  <2>1. row.at \in Stamps /\ (files.at.meta # 0) \in BOOLEAN
    BY <1>0, WorkerTypes
  <2>2. CASE Rebuild(w)
    BY <2>1, <2>2, IdleTypes DEF Rebuild
  <2>3. CASE Verify(w)
    <3> DEFINE y == [IdleWorker EXCEPT !.at = "compare", !.stored = row.at]
    <3>1. y \in Worker /\ y.read = NoStamps /\ y.at = "compare"
      BY <2>1, IdleTypes
    <3>2. worker' = [worker EXCEPT ![w] = y]
      BY <2>3 DEF Verify
    <3> HIDE DEF y
    <3> QED
      BY <3>1, <3>2
  <2>4. CASE Compare(w)
    BY <2>4, IdleTypes DEF Compare
  <2>5. CASE Kill(w)
    BY <2>5, IdleTypes DEF Kill
  <2> QED
    BY <2>2, <2>3, <2>4, <2>5
<1>3. Turns(w, x)
  BY <1>1, <1>2, NothingRead DEF Turns, ReadsAhead, Read, Inside
<1>4. writing' \in Workers \cup {Nobody}
  BY <1>0, <1>1 DEF IndexTypeOK
<1> QED
  BY <1>0, <1>1, <1>3, <1>4, TurnKeeps DEF IndexTypeOK

LEMMA WatchKeeps ==
  ASSUME IndexAssumption, IndexInv, Watch \/ Overflow
  PROVE  IndexInv'
<1>0. IndexTypeOK /\ Watcher \in Workers
  BY DEF IndexInv, Workers
<1>1. UNCHANGED <<files, row, writing, broken, spent>> /\ dirty' = FALSE
  BY DEF Watch, Overflow
<1>2. PICK x \in Worker : /\ worker' = [worker EXCEPT ![Watcher] = x]
                          /\ x.read = NoStamps /\ x.at \in {"idle", "begin", "compare"}
  <2>1. row.at \in Stamps
    BY <1>0, WorkerTypes
  <2>2. CASE Watch
    BY <2>2, IdleTypes DEF Watch
  <2>3. CASE Overflow
    <3> DEFINE y == [IdleWorker EXCEPT !.at = "compare", !.stored = row.at]
    <3>1. y \in Worker /\ y.read = NoStamps /\ y.at = "compare"
      BY <2>1, IdleTypes
    <3>2. worker' = [worker EXCEPT ![Watcher] = y]
      BY <2>3 DEF Overflow
    <3> HIDE DEF y
    <3> QED
      BY <3>1, <3>2
  <2> QED
    BY <2>2, <2>3
<1>3. Turns(Watcher, x)
  BY <1>1, <1>2, NothingRead DEF Turns, ReadsAhead, Read, Inside
<1> QED
  BY <1>0, <1>1, <1>3, TurnKeeps DEF IndexTypeOK, Spent

-----------------------------------------------------------------------------
(* The files change                                                        *)

LEMMA ChangeSteps ==
  ASSUME IndexAssumption, IndexInv, NEW usable \in BOOLEAN, Rewrite(usable)
  PROVE  /\ files' \in Files /\ spent' \in Spent /\ dirty' \in BOOLEAN
         /\ Given(files'.at, spent'.changes)
         /\ \A s \in Stamps :
              Given(s, spent.changes) /\ NotNewer(s, files.at) =>
                Given(s, spent'.changes) /\ NotNewer(s, files'.at)
<1>0. /\ files.at \in Stamps /\ files.usable \in BOOLEAN /\ spent \in Spent
      /\ Given(files.at, spent.changes) /\ MaxFileChanges \in Nat
  BY DEF IndexInv, IndexTypeOK, Files, CopyInv, Spent, IndexAssumption
<1> DEFINE Rewritten == {[files.at EXCEPT !.meta = NextStamp],
                         [files.at EXCEPT !.settings = NextStamp],
                         [files.at EXCEPT !.git = NextStamp], NoStamps}
<1>1. PICK new \in Rewritten, u \in BOOLEAN : ChangeFiles(new, u)
  <2>1. /\ [files.at EXCEPT !.meta = NextStamp] \in Rewritten
        /\ [files.at EXCEPT !.settings = NextStamp] \in Rewritten
        /\ [files.at EXCEPT !.git = NextStamp] \in Rewritten
        /\ NoStamps \in Rewritten
    OBVIOUS
  <2>2. \/ ChangeFiles([files.at EXCEPT !.meta = NextStamp], usable)
        \/ ChangeFiles([files.at EXCEPT !.settings = NextStamp], files.usable)
        \/ ChangeFiles([files.at EXCEPT !.git = NextStamp], files.usable)
        \/ ChangeFiles(NoStamps, TRUE)
    BY DEF Rewrite
  <2> HIDE DEF Rewritten
  <2> QED
    BY <1>0, <2>1, <2>2
<1>2. /\ spent.changes < MaxFileChanges /\ files' = [at |-> new, usable |-> u]
      /\ spent' = [spent EXCEPT !.changes = @ + 1] /\ dirty' = Watching
  BY <1>1 DEF ChangeFiles
<1>3. /\ spent.changes \in Nat /\ NextStamp \in Stamp /\ spent'.changes = spent.changes + 1
      /\ NextStamp = spent.changes + 1 /\ spent' \in Spent
  BY <1>0, <1>2 DEF Spent, Stamp, NextStamp
<1>4. new \in Stamps
  BY <1>0, <1>1, <1>3, StampTypes DEF Stamps
<1>5. /\ new.meta \in {files.at.meta, NextStamp, 0}
      /\ new.settings \in {files.at.settings, NextStamp, 0}
      /\ new.git \in {files.at.git, NextStamp, 0}
  BY <1>0, <1>1, StampTypes DEF Stamps
<1>6. \A s \in Stamps : s.meta \in Nat /\ s.settings \in Nat /\ s.git \in Nat
  BY StampTypes DEF Stamps
<1>7. Given(new, spent.changes + 1)
  BY <1>0, <1>3, <1>5, <1>6 DEF Given
<1>8. ASSUME NEW s \in Stamps, Given(s, spent.changes), NotNewer(s, files.at)
      PROVE  Given(s, spent.changes + 1) /\ NotNewer(s, new)
  <2>1. Given(s, spent.changes + 1)
    BY <1>3, <1>6, <1>8 DEF Given
  <2>2. Behind(s.meta, new.meta)
    BY <1>0, <1>3, <1>5, <1>6, <1>8 DEF Given, NotNewer, Behind
  <2>3. Behind(s.settings, new.settings)
    BY <1>0, <1>3, <1>5, <1>6, <1>8 DEF Given, NotNewer, Behind
  <2>4. Behind(s.git, new.git)
    BY <1>0, <1>3, <1>5, <1>6, <1>8 DEF Given, NotNewer, Behind
  <2> QED
    BY <2>1, <2>2, <2>3, <2>4 DEF NotNewer
<1>9. files' \in Files /\ dirty' \in BOOLEAN
  BY <1>1, <1>2, <1>4 DEF Files, IndexAssumption
<1> QED
  BY <1>2, <1>3, <1>7, <1>8, <1>9

LEMMA ChangeKeeps ==
  ASSUME IndexAssumption, IndexInv, NEW usable \in BOOLEAN, Rewrite(usable),
         UNCHANGED <<row, writing, broken>>,
         worker' \in [Workers -> Worker],
         \A v \in Workers :
           \/ worker'[v] = worker[v]
           \/ worker'[v].at = "begin" /\ worker'[v].read = NoStamps
  PROVE  IndexInv'
<1>0. IndexTypeOK
  BY DEF IndexInv
<1>1. IndexTypeOK'
  BY <1>0, ChangeSteps DEF IndexTypeOK, Spent
<1>2. OneWrites'
  BY DEF IndexInv, OneWrites, Inside
<1>3. ReadInv'
  <2> SUFFICES ASSUME NEW v \in Workers,
                      worker'[v].at \in Read
                        \/ (worker'[v].at = "remember" /\ ~worker'[v].rebuild)
               PROVE  NotNewer(row.at, worker'[v].read)
    BY DEF ReadInv, NotNewer, Behind
  <2>1. worker'[v] = worker[v]
    BY DEF Read
  <2> QED
    BY <2>1 DEF IndexInv, ReadInv
<1>4. CopyInv'
  <2>1. Given(row.at, spent'.changes) /\ NotNewer(row.at, files'.at)
    <3>1. row.at \in Stamps /\ Given(row.at, spent.changes) /\ NotNewer(row.at, files.at)
      BY <1>0 DEF IndexInv, CopyInv, IndexTypeOK, Row
    <3> QED
      BY <3>1, ChangeSteps
  <2>2. ASSUME NEW v \in Workers
        PROVE  /\ Given(worker'[v].read, spent'.changes)
               /\ NotNewer(worker'[v].read, files'.at)
    <3>1. /\ NoStamps \in Stamps /\ Given(NoStamps, spent.changes)
          /\ NotNewer(NoStamps, files.at)
      BY NothingRead, StampTypes
    <3>2. /\ worker[v].read \in Stamps /\ Given(worker[v].read, spent.changes)
          /\ NotNewer(worker[v].read, files.at)
      BY <1>0, WorkerTypes DEF IndexInv, CopyInv
    <3>3. worker'[v].read \in {worker[v].read, NoStamps}
      OBVIOUS
    <3> QED
      BY <3>1, <3>2, <3>3, ChangeSteps
  <2> QED
    BY <2>1, <2>2, ChangeSteps DEF CopyInv, Given, NotNewer, Behind
<1> QED
  BY <1>1, <1>2, <1>3, <1>4 DEF IndexInv

-----------------------------------------------------------------------------
(* Theorems                                                                *)

LEMMA InitIndex ==
  ASSUME IndexAssumption, IndexInit
  PROVE  IndexInv
<1>1. IndexTypeOK
  <2>1. files \in Files /\ row \in Row
    BY StampTypes DEF IndexInit, Files, Row, NoRow
  <2>2. spent \in [changes : Stamp, rebuilds : 0..MaxRebuilds, kills : 0..MaxKills]
    BY StampTypes DEF IndexInit, IndexAssumption
  <2>3. worker \in [Workers -> Worker] /\ broken \in [{"daemon", "cli"} -> Stamps]
    BY IdleTypes, StampTypes DEF IndexInit
  <2> QED
    BY <2>1, <2>2, <2>3 DEF IndexInit, IndexTypeOK
<1>2. \A w \in Workers : worker[w] = IdleWorker
  BY DEF IndexInit
<1>3. OneWrites /\ ReadInv
  BY <1>2, IdleTypes DEF OneWrites, ReadInv, Read
<1>4. CopyInv
  <2>1. files.at = NoStamps /\ row.at = NoStamps /\ spent.changes = 0
    BY DEF IndexInit, NoRow
  <2>2. Given(NoStamps, 0) /\ NotNewer(NoStamps, NoStamps)
    BY StampTypes DEF Given, NotNewer, Behind
  <2>3. \A w \in Workers : worker[w].read = NoStamps
    BY <1>2, IdleTypes
  <2> QED
    BY <2>1, <2>2, <2>3 DEF CopyInv
<1> QED
  BY <1>1, <1>3, <1>4 DEF IndexInv

LEMMA NextIndex ==
  ASSUME IndexAssumption, IndexInv, [IndexNext]_indexVars
  PROVE  IndexInv'
<1>1. CASE ChangedByHand
  <2>1. PICK usable \in BOOLEAN : Rewrite(usable)
    BY <1>1 DEF ChangedByHand, IndexAssumption
  <2>2. UNCHANGED <<row, writing, worker, broken>>
    BY <1>1 DEF ChangedByHand
  <2> QED
    BY <2>1, <2>2, ChangeKeeps DEF IndexInv, IndexTypeOK
<1>2. CASE Watch \/ Overflow
  BY <1>2, WatchKeeps
<1>3. ASSUME NEW w \in Workers, IndexWork(w) PROVE IndexInv'
  BY <1>3, BeginKeeps, ReadMetaKeeps, ReadRestKeeps, ResolveKeeps, RememberKeeps, StoreKeeps,
     StartKeeps
  DEF IndexWork
<1>4. ASSUME NEW w \in Workers, SaveAndSync(w) PROVE IndexInv'
  <2> DEFINE x == [IdleWorker EXCEPT !.at = "begin"]
  <2>1. /\ worker' = [worker EXCEPT ![w] = x]
        /\ UNCHANGED <<row, writing, broken>> /\ Rewrite(TRUE)
    BY <1>4 DEF SaveAndSync
  <2>2. x \in Worker /\ x.read = NoStamps /\ x.at = "begin"
    BY IdleTypes
  <2> HIDE DEF x
  <2>3. /\ worker' \in [Workers -> Worker]
        /\ \A v \in Workers : \/ worker'[v] = worker[v]
                              \/ worker'[v].at = "begin" /\ worker'[v].read = NoStamps
    BY <2>1, <2>2 DEF IndexInv, IndexTypeOK
  <2> QED
    BY <2>1, <2>3, ChangeKeeps
<1>5. ASSUME NEW w \in Workers, Rebuild(w) \/ Verify(w) \/ Kill(w) PROVE IndexInv'
  BY <1>5, StartKeeps
<1>6. CASE UNCHANGED indexVars
  BY <1>6 DEF indexVars, IndexInv, IndexTypeOK, OneWrites, CopyInv, ReadInv, Given, NotNewer,
              Behind
<1> QED
  BY <1>1, <1>2, <1>3, <1>4, <1>5, <1>6 DEF IndexNext

(* The rows, the files, the workers and what they have read keep their     *)
(* types, for any workers, changes, rebuilds and kills.                    *)
THEOREM IndexTypeCorrect ==
  ASSUME IndexAssumption
  PROVE  IndexSpec => []IndexTypeOK
<1>1. IndexInv => IndexTypeOK
  BY DEF IndexInv
<1> QED
  BY <1>1, InitIndex, NextIndex, PTL DEF IndexSpec

(* "Two concurrent syncs can never store an older copy over a newer one",  *)
(* for any number of workers of the daemon and of command lines, whatever  *)
(* changes the files meanwhile.                                            *)
THEOREM IndexNeverOlder ==
  ASSUME IndexAssumption
  PROVE  IndexSpec => NeverOlder
<1> DEFINE Later ==
      row.at.meta # 0 /\ row'.at.meta # 0 =>
        /\ row'.at.meta >= row.at.meta
        /\ row'.at.settings >= row.at.settings \/ row'.at.settings = 0
        /\ row'.at.git >= row.at.git \/ row'.at.git = 0
<1>1. ASSUME IndexInv, [IndexNext]_indexVars PROVE [Later]_indexVars
  <2>0. row.at \in Stamps /\ row'.at \in Stamps
    BY <1>1, NextIndex DEF IndexInv, IndexTypeOK, Row
  <2>n. /\ row.at.meta \in Nat /\ row.at.settings \in Nat /\ row.at.git \in Nat
        /\ row'.at.meta \in Nat /\ row'.at.settings \in Nat /\ row'.at.git \in Nat
    BY <2>0, StampTypes DEF Stamps
  <2>1. CASE row' = row
    BY <2>n, <2>1
  <2>2. ASSUME NEW w \in Workers, Store(w) PROVE Later
    BY <1>1, <2>2, <2>n, StoreKeeps DEF StoresLater, Behind
  <2>3. CASE row' # row /\ IndexNext
    <3>1. \E w \in Workers : Store(w)
      BY <2>3
      DEF IndexNext, IndexWork, ChangedByHand, Watch, Overflow, SaveAndSync, Rebuild, Verify,
          Kill, BeginWrite, ReadMeta, ReadSettings, ReadGit, Resolve, NoteUnusable, Remember,
          Compare
    <3> QED
      BY <2>2, <3>1
  <2> QED
    BY <1>1, <2>1, <2>3 DEF indexVars
<1> QED
  BY <1>1, InitIndex, NextIndex, PTL DEF IndexSpec, NeverOlder

-----------------------------------------------------------------------------
(* Backups: types, and where a call stands                                 *)

Storing == {"archive", "push", "copy", "rotate", "prune"}

(* A backup has a storage left and a name; the local copy is of the local  *)
(* storage; only a backup with a keep-N policy comes to rotate.  A restore *)
(* has a part left to clear or to unpack.                                  *)
CallFits(x) ==
  /\ x.at \in Storing => x.todo # <<>> /\ x.name \in Names
  /\ x.at = "copy" => x.todo[1] = "local"
  /\ x.at \in {"rotate", "prune"} => x.keep > 0
  /\ x.at \in {"archive", "clear", "unpack"} => x.part <= Len(Parts)
  /\ x.at = "pull" => x.todo # <<>> /\ x.name \in Names /\ x.part = 1
CallsFit == BackupsTypeOK /\ \A t \in Tasks : CallFits(task[t])

(* The copies to the local storage a backup has still to make, by place in *)
(* its list.                                                               *)
Copies(x) ==
  {i \in 1..Len(x.todo) :
     /\ x.at \in Storing /\ x.todo[i] = "local"
     /\ i > 1 \/ x.at \in {"archive", "push", "copy"}}

(* A call goes on: it has no copies to make but those it had, or but those *)
(* after the first place.                                                  *)
Follows(x, y) ==
  \E k \in {0, 1} : \A i \in Copies(y) : y.name = x.name /\ i + k \in Copies(x)
Passes(x, y) ==
  \E k \in {0, 1} : \A i \in Copies(y) : y.name = x.name /\ i + k \in Copies(x) \ {1}

(* A backup nobody else copies under the name of is not mixed, one backup  *)
(* at most has still to copy it, and once it was reported it is whole and  *)
(* will not be copied again.  An object of S3 is whole when it is there.   *)
NoneToCopy(n) == \A t \in Tasks : task[t].name = n => Copies(task[t]) = {}
OneToCopy(n) ==
  \A t, u \in Tasks : task[t].name = n /\ task[u].name = n =>
    \A i \in Copies(task[t]), j \in Copies(task[u]) : t = u /\ i = j
Kept(n) ==
  /\ asked[n] = 0 => <<"local", n>> \notin reported /\ NoneToCopy(n)
  /\ asked[n] <= 1 =>
       /\ ~archives["local"][n].mixed /\ OneToCopy(n)
       /\ <<"local", n>> \in reported => archives["local"][n].whole /\ NoneToCopy(n)
  /\ <<"s3", n>> \in reported => archives["s3"][n].whole

(* Where one was reported and none removed by hand, one is there; and what *)
(* a rotation is about to remove has a later one there.                    *)
LaterThere(s, n) == \E m \in Names : m > n /\ archives[s][m].there
Spares(x) ==
  x.at = "prune" /\ x.todo[1] \notin used.byHand => \A n \in x.extra : LaterThere(x.todo[1], n)
OneThere(s) == s \notin used.byHand => \E n \in Names : archives[s][n].there

(* What a restore nobody disturbed has done so far.                        *)
SoFar(x, contents) ==
  x.alone =>
    /\ x.at = "clear" => \A q \in Part : q < x.part => contents[q] = 0
    /\ x.at = "unpack" =>
         \A q \in Part : contents[q] = IF q < x.part THEN x.files[q] ELSE 0
    /\ x.at = "restored" => \A q \in Part : contents[q] = x.files[q]

BackupsInv ==
  /\ CallsFit
  /\ \A t \in Tasks : SoFar(task[t], app) /\ Spares(task[t])
  /\ \A n \in Names : Kept(n)
  /\ \A b \in reported : OneThere(b[1])

(* A step takes the last one of a storage by hand only.                    *)
LastStays ==
  \A s \in Storages : s \notin used'.byHand =>
    \A m \in Names : archives[s][m].there => \E n \in Names : n >= m /\ archives'[s][n].there

LEMMA BackupsInvImplies ==
  ASSUME BackupsAssumption, BackupsInv
  PROVE  BackupsTypeOK /\ RestoredIsSnapshot /\ ReportedIsThere
<1>1. BackupsTypeOK
  BY DEF BackupsInv, CallsFit
<1>2. RestoredIsSnapshot
  <2> SUFFICES ASSUME NEW t \in Tasks, task[t].at = "restored", task[t].alone
               PROVE  app = task[t].files
    BY DEF RestoredIsSnapshot
  <2>1. \A q \in Part : app[q] = task[t].files[q]
    BY DEF BackupsInv, SoFar
  <2>2. app \in PartFiles /\ task[t].files \in PartFiles
    BY <1>1 DEF BackupsTypeOK, Task
  <2> QED
    BY <2>1, <2>2 DEF PartFiles
<1>3. ReportedIsThere
  <2> SUFFICES ASSUME NEW b \in reported, b[1] = "s3" \/ asked[b[2]] = 1
               PROVE  archives[b[1]][b[2]].whole
    BY DEF ReportedIsThere
  <2>1. b[1] \in {"local", "s3"} /\ b[2] \in Names /\ b = <<b[1], b[2]>>
    BY <1>1 DEF BackupsTypeOK, Storages
  <2>2. Kept(b[2])
    BY <2>1 DEF BackupsInv
  <2>3. CASE b[1] = "s3"
    BY <2>1, <2>2, <2>3 DEF Kept
  <2>4. CASE b[1] = "local"
    BY <2>1, <2>2, <2>4 DEF Kept
  <2> QED
    BY <2>1, <2>3, <2>4
<1> QED
  BY <1>1, <1>2, <1>3

LEMMA LastStaysImplies ==
  ASSUME BackupsAssumption, BackupsInv, LastStays, used.byHand \subseteq used'.byHand
  PROVE  \A s \in Storages :
           (\E b \in reported : b[1] = s) /\ s \notin used'.byHand =>
             (\E n \in Names : archives[s][n].whole)' \/ TornCopy(s)'
<1> SUFFICES ASSUME NEW s \in Storages, NEW b \in reported, b[1] = s, s \notin used'.byHand
             PROVE  (\E n \in Names : archives[s][n].whole)' \/ TornCopy(s)'
  OBVIOUS
<1>1. \E m \in Names : archives[s][m].there
  BY DEF BackupsInv, OneThere
<1>2. PICK n \in Names : archives'[s][n].there
  BY <1>1 DEF LastStays
<1> QED
  BY <1>2 DEF TornCopy

(* What the constants say.                                                 *)
LEMMA BackupsConstants ==
  ASSUME BackupsAssumption
  PROVE  /\ MaxSecond \in Nat /\ MaxAppChanges \in Nat /\ MaxBackupCalls \in Nat
         /\ MaxLosses \in Nat /\ Len(Parts) \in Nat
         /\ \A todo \in Targets : todo \in Seq(Storages) /\ todo # <<>>
         /\ \A keep \in Keeps : keep \in Nat
         /\ \A only \in Filters : only \in SUBSET Part
         /\ Empty \in PartFiles /\ NoArchive \in Archive
<1> USE DEF BackupsAssumption
<1>1. /\ MaxSecond \in Nat /\ MaxAppChanges \in Nat /\ MaxBackupCalls \in Nat
      /\ MaxLosses \in Nat /\ \A keep \in Keeps : keep \in Nat
  OBVIOUS
<1>2. \A todo \in Targets : todo \in Seq(Storages) /\ todo # <<>>
  BY DEF Storages
<1>3. \A only \in Filters : only \in SUBSET Part
  BY DEF Part
<1>4. Len(Parts) \in Nat
  OBVIOUS
<1>5. Empty \in PartFiles
  BY <1>1 DEF Empty, PartFiles
<1> QED
  BY <1>1, <1>2, <1>3, <1>4, <1>5 DEF NoArchive, Archive

LEMMA IdleFits ==
  ASSUME BackupsAssumption
  PROVE  /\ IdleTask \in Task /\ IdleTask.at = "idle" /\ CallFits(IdleTask)
         /\ Copies(IdleTask) = {}
<1>1. IdleTask \in Task
  <2>1. /\ 0 \in 0..MaxSecond /\ 1 \in 1..Len(Parts) + 1 /\ Empty \in PartFiles
    BY BackupsConstants
  <2>2. Part \in SUBSET Part /\ <<>> \in Seq(Storages) /\ {} \in SUBSET Names
    OBVIOUS
  <2> QED
    BY <2>1, <2>2 DEF IdleTask, Task
<1>2. IdleTask.at = "idle"
  BY DEF IdleTask
<1> QED
  BY <1>1, <1>2 DEF CallFits, Copies, Storing

LEMMA BackupsInvInit == BackupsAssumption /\ BackupsInit => BackupsInv
<1> SUFFICES ASSUME BackupsAssumption, BackupsInit PROVE BackupsInv
  OBVIOUS
<1> USE DEF BackupsInit
<1>1. /\ IdleTask \in Task /\ IdleTask.at = "idle" /\ CallFits(IdleTask)
      /\ Copies(IdleTask) = {}
  BY IdleFits
<1>2. BackupsTypeOK
  <2>1. app \in PartFiles /\ NoArchive \in Archive
    BY BackupsConstants DEF Empty
  <2>2. used \in [changes : 0..MaxAppChanges, calls : 0..MaxBackupCalls,
                  fails : 0..MaxLosses, byHand : SUBSET Storages]
    BY BackupsConstants
  <2> QED
    BY <1>1, <2>1, <2>2 DEF BackupsTypeOK
<1>3. CallsFit
  BY <1>1, <1>2 DEF CallsFit
<1>4. \A t \in Tasks : SoFar(task[t], app) /\ Spares(task[t])
  BY <1>1 DEF SoFar, Spares
<1>5. \A n \in Names : Kept(n)
  <2> SUFFICES ASSUME NEW n \in Names PROVE Kept(n)
    OBVIOUS
  <2>1. ~archives["local"][n].mixed
    BY DEF NoArchive, Storages
  <2> QED
    BY <1>1, <2>1 DEF Kept, NoneToCopy, OneToCopy
<1> QED
  BY <1>3, <1>4, <1>5 DEF BackupsInv
-----------------------------------------------------------------------------
(* Backups: what a step must keep                                          *)

LEMMA OneStays ==
  ASSUME BackupsAssumption, BackupsInv, LastStays, used.byHand \subseteq used'.byHand,
         NEW s \in Storages, s \notin used'.byHand
  PROVE  /\ OneThere(s) => OneThere(s)'
         /\ \A n \in Names : LaterThere(s, n) => LaterThere(s, n)'
<1>1. ASSUME NEW m \in Names, archives[s][m].there
      PROVE  \E n \in Names : n >= m /\ archives'[s][n].there
  BY <1>1 DEF LastStays
<1>2. OneThere(s) => OneThere(s)'
  BY <1>1 DEF OneThere
<1>3. ASSUME NEW n \in Names, LaterThere(s, n) PROVE LaterThere(s, n)'
  <2>1. PICK m \in Names : m > n /\ archives[s][m].there
    BY <1>3 DEF LaterThere
  <2>2. PICK k \in Names : k >= m /\ archives'[s][k].there
    BY <1>1, <2>1
  <2>3. k > n
    BY <2>1, <2>2, BackupsConstants DEF Names
  <2> QED
    BY <2>2, <2>3 DEF LaterThere
<1> QED
  BY <1>2, <1>3

(* A step keeps the invariant when the calls fit, no restore is undone, no *)
(* rotation is about to take a last one, and the last ones stay.           *)
SparesStill(t) ==
  task'[t].at = "prune" =>
    \/ Spares(task[t])'
    \/ task[t].at = "prune" /\ task'[t].todo = task[t].todo /\ task'[t].extra \subseteq task[t].extra
LEMMA BackupsInvKept ==
  ASSUME BackupsAssumption, BackupsInv, BackupsTypeOK', LastStays,
         used.byHand \subseteq used'.byHand,
         \A t \in Tasks : CallFits(task'[t]) /\ SoFar(task'[t], app') /\ SparesStill(t),
         \A n \in Names : Kept(n)',
         \A b \in reported' : b \in reported \/ archives'[b[1]][b[2]].there
  PROVE  BackupsInv'
<1>1. CallsFit'
  BY DEF CallsFit
<1>2. ASSUME NEW t \in Tasks PROVE Spares(task[t])'
  <2>1. CASE task'[t].at # "prune" \/ Spares(task[t])'
    BY <2>1 DEF Spares
  <2>2. CASE /\ task'[t].at = "prune" /\ task[t].at = "prune" /\ task'[t].todo = task[t].todo
             /\ task'[t].extra \subseteq task[t].extra /\ task[t].todo[1] \notin used'.byHand
    <3>1. task[t].todo[1] \in Storages /\ task[t].extra \subseteq Names
      <4>1. CallFits(task[t]) /\ task[t] \in Task
        BY DEF BackupsInv, CallsFit, BackupsTypeOK
      <4> QED
        BY <2>2, <4>1 DEF CallFits, Storing, Task
    <3>2. \A n \in task[t].extra : LaterThere(task[t].todo[1], n)
      BY <2>2 DEF BackupsInv, Spares
    <3>3. \A n \in task[t].extra : LaterThere(task[t].todo[1], n)'
      <4> SUFFICES ASSUME NEW n \in task[t].extra PROVE LaterThere(task[t].todo[1], n)'
        OBVIOUS
      <4>1. PICK s \in Storages : s = task[t].todo[1]
        BY <3>1
      <4>2. LaterThere(s, n)'
        BY <2>2, <3>1, <3>2, <4>1, OneStays
      <4> QED
        BY <4>1, <4>2, <2>2 DEF LaterThere
    <3> QED
      BY <2>2, <3>3 DEF Spares
  <2>3. CASE task'[t].todo = task[t].todo /\ task[t].todo[1] \in used'.byHand
    BY <2>3 DEF Spares
  <2> QED
    BY <2>1, <2>2, <2>3 DEF SparesStill
<1>3. ASSUME NEW b \in reported' PROVE OneThere(b[1])'
  <2>1. b[1] \in Storages /\ b[2] \in Names
    BY DEF BackupsTypeOK
  <2>2. CASE b \in reported /\ b[1] \notin used'.byHand
    <3>1. OneThere(b[1])
      BY <2>2 DEF BackupsInv
    <3> QED
      BY <2>1, <2>2, <3>1, OneStays
  <2>3. CASE archives'[b[1]][b[2]].there
    BY <2>1, <2>3 DEF OneThere
  <2>4. CASE b[1] \in used'.byHand
    BY <2>4 DEF OneThere
  <2> QED
    BY <2>2, <2>3, <2>4
<1>4. (\A t \in Tasks : SoFar(task[t], app))'
  OBVIOUS
<1> QED
  BY <1>1, <1>2, <1>3, <1>4 DEF BackupsInv

(* No call copies under a name that did not.                               *)
LEMMA CopiesFollow ==
  ASSUME BackupsAssumption, BackupsInv, NEW n \in Names,
         \A t \in Tasks : task'[t].name = n => Follows(task[t], task'[t])
  PROVE  /\ NoneToCopy(n) => NoneToCopy(n)'
         /\ OneToCopy(n) => OneToCopy(n)'
<1>1. NoneToCopy(n) => NoneToCopy(n)'
  BY DEF NoneToCopy, Follows
<1>2. OneToCopy(n) => OneToCopy(n)'
  <2> SUFFICES ASSUME OneToCopy(n), NEW t \in Tasks, NEW u \in Tasks,
                      task'[t].name = n, task'[u].name = n,
                      NEW i \in Copies(task'[t]), NEW j \in Copies(task'[u])
               PROVE  t = u /\ i = j
    BY DEF OneToCopy
  <2>1. PICK k \in {0, 1} : \A m \in Copies(task'[t]) :
          task'[t].name = task[t].name /\ m + k \in Copies(task[t])
    BY DEF Follows
  <2>2. PICK l \in {0, 1} : \A m \in Copies(task'[u]) :
          task'[u].name = task[u].name /\ m + l \in Copies(task[u])
    BY DEF Follows
  <2>3. t = u
    BY <2>1, <2>2 DEF OneToCopy
  <2>4. i + k = j + k
    BY <2>1, <2>3 DEF OneToCopy
  <2>5. i \in Int /\ j \in Int
    BY DEF Copies
  <2> QED
    BY <2>3, <2>4, <2>5
<1> QED
  BY <1>1, <1>2

LEMMA KeptStays ==
  ASSUME BackupsAssumption, BackupsInv, NEW n \in Names, asked'[n] = asked[n],
         \A t \in Tasks : task'[t].name = n => Follows(task[t], task'[t]),
         \/ archives'["local"][n] = archives["local"][n]
         \/ ~archives'["local"][n].mixed /\ <<"local", n>> \notin reported',
         <<"local", n>> \in reported' => <<"local", n>> \in reported,
         <<"s3", n>> \in reported' => archives'["s3"][n].whole
  PROVE  Kept(n)'
<1>1. Kept(n) /\ asked[n] \in Nat
  BY DEF BackupsInv, CallsFit, BackupsTypeOK
<1> QED
  BY <1>1, CopiesFollow DEF Kept

Bounds ==
  [changes : 0..MaxAppChanges, calls : 0..MaxBackupCalls, fails : 0..MaxLosses,
   byHand : SUBSET Storages]
BoundsGo ==
  \/ Disturb \/ Fail
  \/ used.calls < MaxBackupCalls /\ Call
  \/ UNCHANGED used
LEMMA BoundsHold ==
  ASSUME BackupsAssumption, used \in Bounds,
         BoundsGo
  PROVE  used' \in Bounds /\ used'.byHand = used.byHand
<1> USE BackupsConstants
<1>1. CASE Disturb
  BY <1>1 DEF Bounds, Disturb
<1>2. CASE Fail
  BY <1>2 DEF Bounds, Fail
<1>3. CASE used.calls < MaxBackupCalls /\ Call
  BY <1>3 DEF Bounds, Call
<1> QED
  BY <1>1, <1>2, <1>3 DEF BoundsGo

(* One call moves, and no restore and no rotation is touched.              *)
Moves(t, y) == y \in Task /\ CallFits(y) /\ task' = [task EXCEPT ![t] = y]
Mild(y) == y.at \notin {"clear", "unpack", "restored", "prune"}
CallsKept ==
  /\ task' \in [Tasks -> Task]
  /\ \A t \in Tasks : CallFits(task'[t]) /\ SoFar(task'[t], app') /\ SparesStill(t)
LEMMA MildMove ==
  ASSUME BackupsAssumption, BackupsInv, app' = app,
         NEW t \in Tasks, NEW y, Moves(t, y), Mild(y)
  PROVE  CallsKept
<1>1. task \in [Tasks -> Task] /\ \A u \in Tasks : CallFits(task[u]) /\ SoFar(task[u], app)
  BY DEF BackupsInv, CallsFit, BackupsTypeOK
<1>2. task' \in [Tasks -> Task] /\ task'[t] = y /\ \A u \in Tasks : u # t => task'[u] = task[u]
  BY <1>1 DEF Moves
<1>3. CallFits(y) /\ SoFar(y, app') /\ SparesStill(t)
  BY <1>2 DEF Moves, Mild, SoFar, SparesStill
<1>4. \A u \in Tasks : u # t => SparesStill(u)
  BY <1>2 DEF SparesStill
<1> QED
  BY <1>1, <1>2, <1>3, <1>4 DEF CallsKept

LEMMA OthersFollow ==
  ASSUME NEW t \in Tasks, NEW y, task \in [Tasks -> Task], task' = [task EXCEPT ![t] = y],
         Follows(task[t], y)
  PROVE  \A u \in Tasks : Follows(task[u], task'[u])
<1>1. \A u \in Tasks : u # t => task'[u] = task[u]
  OBVIOUS
<1>2. \A x : \A i \in Copies(x) : i + 0 \in Copies(x)
  BY DEF Copies
<1>3. \A u \in Tasks : Follows(task[u], task[u])
  BY <1>2 DEF Follows
<1> QED
  BY <1>1, <1>3

(* A step that leaves the storages alone.                                  *)
LEMMA StoragesAlone ==
  ASSUME BackupsAssumption, BackupsInv, UNCHANGED <<archives, reported, asked>>,
         app' \in PartFiles, up' \in BOOLEAN,
         BoundsGo,
         CallsKept, \A t \in Tasks : Follows(task[t], task'[t])
  PROVE  BackupsInv' /\ LastStays /\ used.byHand \subseteq used'.byHand
<1>1. BackupsTypeOK
  BY DEF BackupsInv, CallsFit
<1>2. used' \in Bounds /\ used.byHand = used'.byHand
  BY <1>1, BoundsHold DEF BackupsTypeOK, Bounds
<1>3. BackupsTypeOK'
  BY <1>1, <1>2 DEF BackupsTypeOK, Bounds, CallsKept
<1>4. LastStays
  BY BackupsConstants DEF LastStays, Names
<1>5. \A n \in Names : Kept(n)'
  <2> SUFFICES ASSUME NEW n \in Names PROVE Kept(n)'
    OBVIOUS
  <2>1. <<"s3", n>> \in reported => archives["s3"][n].whole
    BY DEF BackupsInv, Kept
  <2> QED
    BY <2>1, KeptStays
<1> QED
  BY <1>2, <1>3, <1>4, <1>5, BackupsInvKept DEF CallsKept

LEMMA MildStep ==
  ASSUME BackupsAssumption, BackupsInv, UNCHANGED <<app, archives, reported, asked>>,
         up' \in BOOLEAN,
         BoundsGo,
         NEW t \in Tasks, NEW y, Moves(t, y), Mild(y), Follows(task[t], y)
  PROVE  BackupsInv' /\ LastStays /\ used.byHand \subseteq used'.byHand
<1>1. CallsKept
  BY MildMove
<1>2. \A u \in Tasks : Follows(task[u], task'[u])
  BY OthersFollow DEF BackupsInv, CallsFit, BackupsTypeOK, Moves
<1>3. app' \in PartFiles
  BY DEF BackupsInv, CallsFit, BackupsTypeOK
<1> QED
  BY <1>1, <1>2, <1>3, StoragesAlone

(* What a call goes on to.                                                 *)
LEMMA TaskFits ==
  ASSUME BackupsAssumption, BackupsInv, NEW t \in Tasks
  PROVE  /\ task \in [Tasks -> Task] /\ task[t] \in Task /\ CallFits(task[t])
         /\ task[t].at \in Storing => /\ task[t].todo \in Seq(Storages) /\ task[t].todo # <<>>
                                      /\ task[t].name \in Names
                                      /\ Storage(t) = task[t].todo[1] /\ Storage(t) \in Storages
<1>1. task \in [Tasks -> Task] /\ task[t] \in Task /\ CallFits(task[t])
  BY DEF BackupsInv, CallsFit, BackupsTypeOK
<1>2. task[t].todo \in Seq(Storages)
  BY <1>1 DEF Task
<1> QED
  BY <1>1, <1>2 DEF CallFits, Storage

LEMMA PassesFollows ==
  ASSUME NEW x, NEW y, Passes(x, y)
  PROVE  Follows(x, y)
BY DEF Passes, Follows

LEMMA NoCopiesFollow ==
  ASSUME NEW x, NEW y, Copies(y) = {}
  PROVE  Passes(x, y) /\ Follows(x, y)
BY DEF Passes, Follows

LEMMA CallEnds ==
  ASSUME BackupsAssumption, NEW t \in Tasks, EndCall(t)
  PROVE  \E y : Moves(t, y) /\ Mild(y) /\ Passes(task[t], y)
<1>1. PICK y : y = IdleTask
  OBVIOUS
<1>2. Moves(t, y) /\ Mild(y)
  BY <1>1, IdleFits DEF Moves, Mild, EndCall
<1>3. Passes(task[t], y)
  BY <1>1, IdleFits, NoCopiesFollow
<1> QED
  BY <1>2, <1>3

LEMMA NextStorage ==
  ASSUME BackupsAssumption, BackupsInv, NEW t \in Tasks, task[t].at \in Storing, ToNext(t)
  PROVE  \E y : Moves(t, y) /\ Mild(y) /\ Passes(task[t], y)
<1> DEFINE x == task[t]
<1>1. /\ x \in Task /\ CallFits(x) /\ x.todo \in Seq(Storages) /\ x.todo # <<>>
      /\ x.name \in Names
  BY TaskFits
<1>2. CASE Len(x.todo) = 1
  BY <1>2, CallEnds DEF ToNext, EndCall
<1>3. CASE Len(x.todo) # 1
  <2>1. PICK rest : rest = Tail(x.todo)
    OBVIOUS
  <2>2. /\ rest \in Seq(Storages) /\ Len(rest) = Len(x.todo) - 1 /\ rest # <<>>
        /\ \A i \in 1..Len(rest) : rest[i] = x.todo[i + 1]
    <3>1. PICK s \in Seq(Storages) : s = x.todo /\ s # <<>> /\ Len(s) # 1
      BY <1>1, <1>3
    <3>2. Len(s) \in Nat /\ Len(s) >= 2
      <4>1. Len(s) \in Nat /\ Len(s) # 1
        BY <3>1
      <4>2. Len(s) # 0
        BY <3>1, EmptySeq
      <4>3. \A n \in Nat : n # 0 /\ n # 1 => n >= 2
        OBVIOUS
      <4> QED
        BY ONLY <4>1, <4>2, <4>3
    <3>3. Tail(s) \in Seq(Storages) /\ Len(Tail(s)) = Len(s) - 1
      BY <3>1
    <3>4. \A i \in 1..Len(s) - 1 : Tail(s)[i] = s[i + 1]
      BY <3>1
    <3>5. Tail(s) # <<>>
      BY <3>2, <3>3
    <3> QED
      BY <2>1, <3>1, <3>3, <3>4, <3>5
  <2>3. PICK y : y = [x EXCEPT !.at = "push", !.todo = rest, !.extra = {}]
    OBVIOUS
  <2>4. task' = [task EXCEPT ![t] = y]
    BY <1>3, <2>1, <2>3 DEF ToNext
  <2>5. /\ y \in Task /\ y.at = "push" /\ y.todo = rest /\ y.name = x.name
    BY <1>1, <2>2, <2>3 DEF Task
  <2>6. CallFits(y) /\ Mild(y)
    BY <1>1, <2>2, <2>5 DEF CallFits, Storing, Mild
  <2>7. ASSUME NEW i \in Copies(y) PROVE i + 1 \in Copies(x) \ {1}
    <3>1. i \in 1..Len(rest) /\ rest[i] = "local"
      BY <2>5 DEF Copies
    <3>2. i + 1 \in 1..Len(x.todo) /\ x.todo[i + 1] = "local" /\ i + 1 > 1
      BY <1>1, <2>2, <3>1
    <3> QED
      BY <3>2 DEF Copies
  <2>8. Passes(x, y)
    BY <2>5, <2>7 DEF Passes
  <2> QED
    BY <2>4, <2>5, <2>6, <2>8 DEF Moves
<1> QED
  BY <1>2, <1>3

LEMMA PushedGoes ==
  ASSUME BackupsAssumption, BackupsInv, NEW t \in Tasks, task[t].at \in {"push", "copy"},
         Pushed(t)
  PROVE  \E y : Moves(t, y) /\ Mild(y) /\ Passes(task[t], y)
<1> DEFINE x == task[t]
<1>1. task[t].at \in Storing
  BY DEF Storing
<1>2. /\ task \in [Tasks -> Task] /\ x \in Task /\ CallFits(x) /\ x.todo # <<>>
      /\ x.name \in Names
  BY <1>1, TaskFits
<1>3. CASE x.keep = 0
  BY <1>1, <1>3, NextStorage DEF Pushed
<1>4. CASE x.keep # 0
  <2>1. PICK y : y = [x EXCEPT !.at = "rotate"]
    OBVIOUS
  <2>2. task' = [task EXCEPT ![t] = y]
    BY <1>4, <2>1 DEF Pushed, Go
  <2>3. /\ y \in Task /\ y.at = "rotate" /\ y.todo = x.todo /\ y.name = x.name
        /\ y.keep = x.keep
    BY <1>2, <2>1 DEF Task
  <2>4. x.keep \in Nat
    BY <1>2, BackupsConstants DEF Task
  <2>5. x.keep > 0
    BY <1>4, <2>4
  <2>6. CallFits(y) /\ Mild(y)
    BY <1>2, <2>3, <2>5 DEF CallFits, Storing, Mild
  <2>7. \A i \in Copies(y) : i + 0 \in Copies(x) \ {1}
    BY <2>3, <1>1 DEF Copies
  <2>8. Passes(x, y)
    BY <2>3, <2>7 DEF Passes
  <2> QED
    BY <2>2, <2>3, <2>6, <2>8 DEF Moves
<1> QED
  BY <1>3, <1>4

-----------------------------------------------------------------------------
(* Backups: the steps that leave the storages alone                        *)

Preserved == BackupsInv' /\ LastStays /\ used.byHand \subseteq used'.byHand

LEMMA EndStep ==
  ASSUME BackupsAssumption, BackupsInv, UNCHANGED <<app, archives, reported, asked>>,
         up' \in BOOLEAN, BoundsGo, NEW t \in Tasks, EndCall(t)
  PROVE  Preserved
<1>1. PICK y : Moves(t, y) /\ Mild(y) /\ Passes(task[t], y)
  BY CallEnds
<1> QED
  BY <1>1, PassesFollows, MildStep DEF Preserved

LEMMA NextStep ==
  ASSUME BackupsAssumption, BackupsInv, UNCHANGED <<app, up, archives, reported, asked>>,
         BoundsGo, NEW t \in Tasks, task[t].at \in Storing, ToNext(t)
  PROVE  Preserved
<1>1. PICK y : Moves(t, y) /\ Mild(y) /\ Passes(task[t], y)
  BY NextStorage
<1>2. up' \in BOOLEAN
  BY DEF BackupsInv, CallsFit, BackupsTypeOK
<1> QED
  BY <1>1, <1>2, PassesFollows, MildStep DEF Preserved

LEMMA ArchiveStep ==
  ASSUME BackupsAssumption, BackupsInv, NEW t \in Tasks, ArchivePart(t)
  PROVE  Preserved
<1> DEFINE x == task[t]
<1>1. /\ x \in Task /\ CallFits(x) /\ x.at = "archive" /\ x.part <= Len(Parts)
      /\ app \in PartFiles /\ up' \in BOOLEAN
  BY TaskFits DEF ArchivePart, BackupsInv, CallsFit, BackupsTypeOK
<1>2. PICK p : p = x.part
  OBVIOUS
<1>3. p \in Part /\ x.files \in PartFiles /\ Len(Parts) \in Nat
  BY <1>1, <1>2, BackupsConstants DEF Task, Part
<1>4. PICK filled : filled = [x.files EXCEPT ![p] = IF p \in x.only THEN app[p] ELSE 0]
  OBVIOUS
<1>5. filled \in PartFiles
  <2>1. app[p] \in 0..MaxAppChanges /\ 0 \in 0..MaxAppChanges
    BY <1>1, <1>3, BackupsConstants DEF PartFiles
  <2> QED
    BY <1>3, <1>4, <2>1 DEF PartFiles
<1>6. PICK at : at = IF p = Len(Parts) THEN "push" ELSE "archive"
  OBVIOUS
<1>7. PICK y : y = [x EXCEPT !.part = p + 1, !.files = filled, !.at = at]
  OBVIOUS
<1>8. task' = [task EXCEPT ![t] = y]
  BY <1>1, <1>2, <1>4, <1>6, <1>7, TaskFits DEF ArchivePart, Task
<1>9. p + 1 \in 1..Len(Parts) + 1
  BY <1>3 DEF Part
<1>10. /\ y \in Task /\ y.at = at /\ y.part = p + 1 /\ y.todo = x.todo /\ y.name = x.name
  BY <1>1, <1>5, <1>6, <1>7, <1>9 DEF Task
<1>11. at = "archive" => p + 1 <= Len(Parts)
  BY <1>3, <1>6 DEF Part
<1>12. CallFits(y) /\ Mild(y)
  BY <1>1, <1>6, <1>10, <1>11 DEF CallFits, Storing, Mild
<1>13. \A i \in Copies(y) : i + 0 \in Copies(x)
  BY <1>1, <1>10 DEF Copies, Storing
<1>14. Follows(x, y)
  BY <1>10, <1>13 DEF Follows
<1> QED
  BY <1>1, <1>8, <1>10, <1>12, <1>14, MildStep DEF ArchivePart, Moves, BoundsGo, Preserved

LEMMA RestoreStarts ==
  ASSUME BackupsAssumption, BackupsInv, NEW t \in Tasks, NEW s \in Storages, NEW n \in Names,
         RestoreBackup(t, s, n)
  PROVE  Preserved
<1>1. PICK y : y = [IdleTask EXCEPT !.at = "pull", !.name = n, !.was = up, !.todo = <<s>>]
  OBVIOUS
<1>2. task' = [task EXCEPT ![t] = y]
  BY <1>1 DEF RestoreBackup
<1>3. n \in 0..MaxSecond /\ up \in BOOLEAN /\ <<s>> \in Seq(Storages) /\ <<s>> # <<>>
  BY BackupsConstants DEF Names, BackupsInv, CallsFit, BackupsTypeOK
<1>4. IdleTask.part = 1
  BY DEF IdleTask
<1>5. y \in Task /\ y.at = "pull" /\ y.name = n /\ y.todo = <<s>> /\ y.part = 1
  BY <1>1, <1>3, <1>4, IdleFits DEF Task
<1>6. CallFits(y) /\ Mild(y) /\ Copies(y) = {}
  BY <1>3, <1>5 DEF CallFits, Mild, Copies, Storing
<1> QED
  BY <1>2, <1>5, <1>6, NoCopiesFollow, MildStep
  DEF RestoreBackup, Moves, BoundsGo, Called, Preserved

LEMMA StartStep ==
  ASSUME BackupsAssumption, BackupsInv, UNCHANGED <<app, up, archives, reported, asked>>,
         BoundsGo, NEW t \in Tasks, Go(t, "start")
  PROVE  Preserved
<1>1. PICK y : y = [task[t] EXCEPT !.at = "start"]
  OBVIOUS
<1>2. task' = [task EXCEPT ![t] = y]
  BY <1>1 DEF Go
<1>3. y \in Task /\ y.at = "start"
  <2>1. task[t] \in Task
    BY TaskFits
  <2> QED
    BY <1>1, <2>1 DEF Task
<1>4. CallFits(y) /\ Mild(y) /\ Copies(y) = {} /\ up' \in BOOLEAN
  BY <1>3 DEF CallFits, Mild, Copies, Storing, BackupsInv, CallsFit, BackupsTypeOK
<1> QED
  BY <1>2, <1>3, <1>4, NoCopiesFollow, MildStep DEF Moves, Preserved

LEMMA DaemonDeath ==
  ASSUME BackupsAssumption, BackupsInv, DaemonDies
  PROVE  Preserved
<1>1. \A t \in Tasks : task'[t] = IdleTask
  BY DEF DaemonDies
<1>2. task' \in [Tasks -> Task]
  BY IdleFits DEF DaemonDies
<1>3. \A t \in Tasks : CallFits(task'[t]) /\ SoFar(task'[t], app') /\ SparesStill(t)
  BY <1>1, IdleFits DEF SoFar, SparesStill
<1>4. \A t \in Tasks : Follows(task[t], task'[t])
  BY <1>1, IdleFits, NoCopiesFollow
<1>5. app' \in PartFiles /\ up' \in BOOLEAN
  BY DEF DaemonDies, BackupsInv, CallsFit, BackupsTypeOK
<1> QED
  BY <1>2, <1>3, <1>4, <1>5, StoragesAlone DEF DaemonDies, CallsKept, BoundsGo, Preserved

LEMMA AppSwitches ==
  ASSUME BackupsAssumption, BackupsInv, AppStartsOrStops
  PROVE  Preserved
<1>1. /\ task' = task /\ task \in [Tasks -> Task] /\ app' = app
      /\ app' \in PartFiles /\ up' \in BOOLEAN
  BY DEF AppStartsOrStops, BackupsInv, CallsFit, BackupsTypeOK
<1>2. \A t \in Tasks : CallFits(task'[t]) /\ SoFar(task'[t], app') /\ SparesStill(t)
  BY <1>1 DEF BackupsInv, CallsFit, SparesStill
<1>3. \A x : \A i \in Copies(x) : i + 0 \in Copies(x)
  BY DEF Copies
<1>4. \A t \in Tasks : Follows(task[t], task'[t])
  BY <1>1, <1>3 DEF Follows
<1> QED
  BY <1>1, <1>2, <1>4, StoragesAlone DEF AppStartsOrStops, CallsKept, BoundsGo, Preserved

-----------------------------------------------------------------------------
(* Backups: the steps that change the app's files                          *)

LEMMA DisturbedFits ==
  ASSUME BackupsAssumption, BackupsInv, NEW S \in SUBSET Tasks
  PROVE  /\ Disturbed(S) \in [Tasks -> Task]
         /\ \A u \in S : \A contents : SoFar(Disturbed(S)[u], contents)
         /\ \A u \in Tasks \ S : Disturbed(S)[u] = task[u]
         /\ \A u \in Tasks :
              /\ CallFits(Disturbed(S)[u]) /\ Follows(task[u], Disturbed(S)[u])
              /\ Disturbed(S)[u].at = "prune" => Disturbed(S)[u] = task[u]
<1> DEFINE d(u) == [task[u] EXCEPT !.alone = FALSE]
<1>1. \A u \in Tasks : task[u] \in Task /\ CallFits(task[u])
  BY TaskFits
<1>2. \A u \in Tasks : Disturbed(S)[u] = IF u \in S /\ Restoring(u) THEN d(u) ELSE task[u]
  BY DEF Disturbed
<1>3. ASSUME NEW u \in Tasks, Restoring(u)
      PROVE  /\ d(u) \in Task /\ d(u).alone = FALSE /\ d(u).at = task[u].at
             /\ CallFits(d(u)) /\ Copies(d(u)) = {} /\ d(u).at # "prune"
  <2>1. /\ d(u) \in Task /\ d(u).alone = FALSE /\ d(u).at = task[u].at
        /\ d(u).at \in {"clear", "unpack", "restored"} /\ d(u).part = task[u].part
    <3>1. PICK x \in Task : x = task[u]
      BY <1>1
    <3>2. x.at \in {"clear", "unpack", "restored"}
      BY <1>3, <3>1 DEF Restoring
    <3>3. /\ [x EXCEPT !.alone = FALSE] \in Task
          /\ [x EXCEPT !.alone = FALSE].alone = FALSE
          /\ [x EXCEPT !.alone = FALSE].at = x.at
          /\ [x EXCEPT !.alone = FALSE].part = x.part
      BY DEF Task
    <3> QED
      BY <3>1, <3>2, <3>3
  <2>2. task[u].at \in {"clear", "unpack"} => task[u].part <= Len(Parts)
    BY <1>1, <1>3 DEF CallFits
  <2>3. CallFits(d(u))
    BY <2>1, <2>2 DEF CallFits, Storing
  <2> QED
    BY <2>1, <2>3 DEF Copies, Storing
<1>4. Disturbed(S) \in [Tasks -> Task]
  BY <1>1, <1>2, <1>3 DEF Disturbed
<1>5. ASSUME NEW u \in S, NEW contents PROVE SoFar(Disturbed(S)[u], contents)
  <2>1. CASE Restoring(u)
    BY <1>2, <1>3, <2>1 DEF SoFar
  <2>2. CASE ~Restoring(u)
    BY <1>2, <2>2 DEF SoFar, Restoring
  <2> QED
    BY <2>1, <2>2
<1>6. \A x : \A i \in Copies(x) : i + 0 \in Copies(x)
  BY DEF Copies
<1>7. \A x : Follows(x, x)
  BY <1>6 DEF Follows
<1>8. ASSUME NEW u \in Tasks
      PROVE  /\ CallFits(Disturbed(S)[u]) /\ Follows(task[u], Disturbed(S)[u])
             /\ Disturbed(S)[u].at = "prune" => Disturbed(S)[u] = task[u]
  <2>1. CASE u \in S /\ Restoring(u)
    <3>1. Disturbed(S)[u] = d(u)
      BY <1>2, <2>1
    <3>2. CallFits(d(u)) /\ Copies(d(u)) = {} /\ d(u).at # "prune"
      BY <1>3, <2>1
    <3>3. Follows(task[u], d(u))
      BY <3>2, NoCopiesFollow
    <3> QED
      BY <3>1, <3>2, <3>3
  <2>2. CASE ~(u \in S /\ Restoring(u))
    BY <1>1, <1>2, <1>7, <2>2
  <2> QED
    BY <2>1, <2>2
<1> QED
  BY <1>2, <1>4, <1>5, <1>8

LEMMA ChangeStep ==
  ASSUME BackupsAssumption, BackupsInv, NEW p \in Part, ChangePart(p)
  PROVE  Preserved
<1>1. PICK d : d = Disturbed(Tasks)
  OBVIOUS
<1>2. /\ d \in [Tasks -> Task] /\ \A u \in Tasks : \A contents : SoFar(d[u], contents)
      /\ \A u \in Tasks : CallFits(d[u]) /\ Follows(task[u], d[u])
      /\ \A u \in Tasks : d[u].at = "prune" => d[u] = task[u]
  BY <1>1, DisturbedFits
<1>3. task' = d
  BY <1>1 DEF ChangePart
<1>4. CallsKept
  BY <1>2, <1>3 DEF CallsKept, SparesStill
<1>5. \A u \in Tasks : Follows(task[u], task'[u])
  BY <1>2, <1>3
<1>6. app' \in PartFiles /\ up' \in BOOLEAN
  <2>1. app \in PartFiles /\ used.changes \in 0..MaxAppChanges /\ up \in BOOLEAN
    BY DEF BackupsInv, CallsFit, BackupsTypeOK
  <2>2. used.changes + 1 \in 0..MaxAppChanges
    BY <2>1, BackupsConstants DEF ChangePart, Disturb
  <2>3. app' = [app EXCEPT ![p] = used.changes + 1] /\ up' = up
    BY DEF ChangePart
  <2> QED
    BY <2>1, <2>2, <2>3 DEF PartFiles
<1> QED
  BY <1>4, <1>5, <1>6, StoragesAlone DEF ChangePart, BoundsGo, Preserved

(* The step of a restore: it disturbs the others, and goes on itself.      *)
LEMMA RestoreGoes ==
  ASSUME BackupsAssumption, BackupsInv, UNCHANGED <<up, archives, reported, asked, used>>,
         app' \in PartFiles, NEW t \in Tasks, NEW y, y \in Task, CallFits(y), SoFar(y, app'),
         Copies(y) = {}, y.at # "prune",
         task' = [Disturbed(Tasks \ {t}) EXCEPT ![t] = y]
  PROVE  Preserved
<1>1. PICK d : d = Disturbed(Tasks \ {t})
  OBVIOUS
<1>2. /\ d \in [Tasks -> Task] /\ \A u \in Tasks \ {t} : \A contents : SoFar(d[u], contents)
      /\ \A u \in Tasks : CallFits(d[u]) /\ Follows(task[u], d[u])
      /\ \A u \in Tasks : d[u].at = "prune" => d[u] = task[u]
  BY <1>1, DisturbedFits
<1>3. /\ task' \in [Tasks -> Task] /\ task'[t] = y
      /\ \A u \in Tasks \ {t} : task'[u] = d[u]
  BY <1>1, <1>2
<1>4. CallFits(task'[t]) /\ SoFar(task'[t], app') /\ SparesStill(t) /\ Follows(task[t], task'[t])
  BY <1>3, NoCopiesFollow DEF SparesStill
<1>5. ASSUME NEW u \in Tasks \ {t}
      PROVE  CallFits(task'[u]) /\ SoFar(task'[u], app') /\ SparesStill(u) /\ Follows(task[u], task'[u])
  BY <1>2, <1>3, <1>5 DEF SparesStill
<1>6. CallsKept
  BY <1>3, <1>4, <1>5 DEF CallsKept
<1>7. \A u \in Tasks : Follows(task[u], task'[u])
  BY <1>4, <1>5
<1>8. up' \in BOOLEAN
  BY DEF BackupsInv, CallsFit, BackupsTypeOK
<1> QED
  BY <1>6, <1>7, <1>8, StoragesAlone DEF BoundsGo, Preserved

LEMMA PullStep ==
  ASSUME BackupsAssumption, BackupsInv, NEW t \in Tasks, Pull(t)
  PROVE  Preserved
<1> DEFINE x == task[t]
<1>1. /\ task \in [Tasks -> Task] /\ x \in Task /\ CallFits(x) /\ x.at = "pull"
      /\ app \in PartFiles /\ up \in BOOLEAN /\ archives \in [Storages -> [Names -> Archive]]
  BY TaskFits DEF Pull, BackupsInv, CallsFit, BackupsTypeOK
<1>2. PICK a : a = archives[Storage(t)][x.name]
  OBVIOUS
<1>3. a \in Archive
  <2>1. x.todo \in Seq(Storages) /\ x.todo # <<>> /\ x.name \in Names
    BY <1>1 DEF CallFits, Task
  <2>2. Storage(t) \in Storages
    BY <2>1 DEF Storage
  <2> QED
    BY <1>1, <1>2, <2>1, <2>2
<1>4. CASE a.there
  <2>1. PICK y : y = [x EXCEPT !.files = a.files, !.whole = a.whole, !.at = "clear", !.alone = TRUE]
    OBVIOUS
  <2>2. task' = [task EXCEPT ![t] = y]
    BY <1>1, <1>2, <1>4, <2>1 DEF Pull, Task
  <2>3. a.files \in PartFiles /\ a.whole \in BOOLEAN
    BY <1>3 DEF Archive
  <2>4. y \in Task /\ y.at = "clear" /\ y.part = 1
    BY <1>1, <2>1, <2>3 DEF Task, CallFits
  <2>5. 1 <= Len(Parts)
    BY DEF BackupsAssumption
  <2>6. CallFits(y) /\ Copies(y) = {}
    BY <2>4, <2>5 DEF CallFits, Copies, Storing
  <2>7. SoFar(y, app)
    BY <2>4 DEF SoFar, Part
  <2>8. task' \in [Tasks -> Task] /\ task'[t] = y /\ \A u \in Tasks \ {t} : task'[u] = task[u]
    BY <1>1, <2>2, <2>4
  <2>9. app' = app
    BY DEF Pull
  <2>10. \A u \in Tasks : CallFits(task'[u]) /\ SoFar(task'[u], app') /\ SparesStill(u)
    <3>1. CallFits(task'[t]) /\ SoFar(task'[t], app') /\ SparesStill(t)
      BY <2>4, <2>6, <2>7, <2>8, <2>9 DEF SparesStill
    <3>2. ASSUME NEW u \in Tasks \ {t}
          PROVE  CallFits(task'[u]) /\ SoFar(task'[u], app') /\ SparesStill(u)
      BY <2>8, <2>9 DEF BackupsInv, CallsFit, SparesStill
    <3> QED
      BY <3>1, <3>2
  <2>11. \A u \in Tasks : Follows(task[u], task'[u])
    BY <1>1, <2>2, <2>6, NoCopiesFollow, OthersFollow
  <2>12. CallsKept
    BY <2>8, <2>10 DEF CallsKept
  <2> QED
    BY <1>1, <2>9, <2>11, <2>12, StoragesAlone DEF Pull, BoundsGo, Preserved
<1>5. CASE ~a.there
  BY <1>2, <1>5, StartStep DEF Pull, BoundsGo
<1> QED
  BY <1>4, <1>5

LEMMA ClearStep ==
  ASSUME BackupsAssumption, BackupsInv, NEW t \in Tasks, Clear(t)
  PROVE  Preserved
<1> DEFINE x == task[t]
<1>1. /\ x \in Task /\ CallFits(x) /\ x.at = "clear" /\ app \in PartFiles /\ SoFar(x, app)
  BY TaskFits DEF Clear, BackupsInv, CallsFit, BackupsTypeOK
<1>2. PICK p : p = x.part
  OBVIOUS
<1>3. p \in Part /\ p \in Nat /\ Len(Parts) \in Nat /\ p <= Len(Parts) /\ 1 <= Len(Parts)
  BY <1>1, <1>2, BackupsConstants DEF Task, Part, CallFits, BackupsAssumption
<1>4. PICK part, at : part = (IF p = Len(Parts) THEN 1 ELSE p + 1)
                      /\ at = (IF p = Len(Parts) THEN "unpack" ELSE "clear")
  OBVIOUS
<1>5. part \in 1..Len(Parts) /\ part \in 1..Len(Parts) + 1
  BY <1>3, <1>4
<1>6. PICK y : y = [x EXCEPT !.part = part, !.at = at]
  OBVIOUS
<1>7. PICK d : d = Disturbed(Tasks \ {t})
  OBVIOUS
<1>8. d[t] = x /\ d \in [Tasks -> Task]
  BY <1>7, DisturbedFits
<1>9. task' = [d EXCEPT ![t].part = part, ![t].at = at] /\ app' = [app EXCEPT ![p] = 0]
  BY <1>2, <1>4, <1>7 DEF Clear, Cleared
<1>10. task' = [d EXCEPT ![t] = y]
  BY <1>1, <1>6, <1>8, <1>9 DEF Task
<1>11. y \in Task /\ y.at = at /\ y.part = part /\ y.alone = x.alone /\ y.files = x.files
  BY <1>1, <1>4, <1>5, <1>6 DEF Task
<1>12. at \in {"unpack", "clear"}
  BY <1>4
<1>13. CallFits(y) /\ Copies(y) = {} /\ y.at # "prune"
  <2>1. part <= Len(Parts)
    BY <1>3, <1>5
  <2> QED
    BY <1>11, <1>12, <2>1 DEF CallFits, Copies, Storing
<1>14. app' \in PartFiles
  <2>1. 0 \in 0..MaxAppChanges
    BY BackupsConstants
  <2> QED
    BY <1>1, <1>3, <1>9, <2>1 DEF PartFiles
<1>15. SoFar(y, app')
  <2> SUFFICES ASSUME y.alone
               PROVE  /\ at = "clear" => \A q \in Part : q < part => app'[q] = 0
                      /\ at = "unpack" =>
                           \A q \in Part : app'[q] = IF q < part THEN y.files[q] ELSE 0
    BY <1>11, <1>12 DEF SoFar
  <2>1. \A q \in Part : q < p => app[q] = 0
    BY <1>1, <1>2, <1>11 DEF SoFar
  <2>2. \A q \in Part : q <= p => app'[q] = 0
    <3> SUFFICES ASSUME NEW q \in Part, q <= p PROVE app'[q] = 0
      OBVIOUS
    <3>1. q < p \/ q = p
      BY <1>3 DEF Part
    <3> QED
      BY <1>1, <1>3, <1>9, <2>1, <3>1 DEF PartFiles
  <2>3. CASE p = Len(Parts)
    <3>1. \A q \in Part : q <= p /\ ~(q < part)
      BY <1>3, <1>4, <2>3 DEF Part
    <3> QED
      BY <1>4, <2>2, <2>3, <3>1
  <2>4. CASE p # Len(Parts)
    <3>1. \A q \in Part : q < part => q <= p
      BY <1>3, <1>4, <2>4 DEF Part
    <3> QED
      BY <1>4, <2>2, <2>4, <3>1
  <2> QED
    BY <2>3, <2>4
<1> QED
  BY <1>7, <1>10, <1>11, <1>13, <1>14, <1>15, RestoreGoes DEF Clear

LEMMA UnpackStep ==
  ASSUME BackupsAssumption, BackupsInv, NEW t \in Tasks, Unpack(t)
  PROVE  Preserved
<1> DEFINE x == task[t]
<1>1. /\ x \in Task /\ CallFits(x) /\ x.at = "unpack" /\ app \in PartFiles /\ SoFar(x, app)
  BY TaskFits DEF Unpack, BackupsInv, CallsFit, BackupsTypeOK
<1>2. PICK p, f : p = x.part /\ f = x.files
  OBVIOUS
<1>3. /\ p \in Part /\ p \in Nat /\ Len(Parts) \in Nat /\ p <= Len(Parts)
      /\ f \in PartFiles
  BY <1>1, <1>2, BackupsConstants DEF Task, Part, CallFits
<1>4. PICK at : at = IF p = Len(Parts) THEN "restored" ELSE "unpack"
  OBVIOUS
<1>5. p + 1 \in 1..Len(Parts) + 1
  BY <1>3
<1>6. PICK y : y = [x EXCEPT !.part = p + 1, !.at = at]
  OBVIOUS
<1>7. PICK d : d = Disturbed(Tasks \ {t})
  OBVIOUS
<1>8. d[t] = x /\ d \in [Tasks -> Task]
  BY <1>7, DisturbedFits
<1>9. /\ task' = [d EXCEPT ![t].part = p + 1, ![t].at = at]
      /\ app' = [app EXCEPT ![p] = IF f[p] = 0 THEN app[p] ELSE f[p]]
  BY <1>2, <1>4, <1>7 DEF Unpack
<1>10. task' = [d EXCEPT ![t] = y]
  BY <1>1, <1>6, <1>8, <1>9 DEF Task
<1>11. y \in Task /\ y.at = at /\ y.part = p + 1 /\ y.alone = x.alone /\ y.files = f
  BY <1>1, <1>2, <1>4, <1>5, <1>6 DEF Task
<1>12. at \in {"unpack", "restored"}
  BY <1>4
<1>13. CallFits(y) /\ Copies(y) = {} /\ y.at # "prune"
  <2>1. at = "unpack" => p + 1 <= Len(Parts)
    BY <1>3, <1>4
  <2> QED
    BY <1>11, <1>12, <2>1 DEF CallFits, Copies, Storing
<1>14. app' \in PartFiles /\ \A q \in Part : app'[q] = IF q = p /\ f[p] # 0 THEN f[p] ELSE app[q]
  BY <1>1, <1>3, <1>9 DEF PartFiles
<1>15. SoFar(y, app')
  <2> SUFFICES ASSUME y.alone
               PROVE  /\ at = "unpack" =>
                           \A q \in Part : app'[q] = IF q < p + 1 THEN f[q] ELSE 0
                      /\ at = "restored" => \A q \in Part : app'[q] = f[q]
    BY <1>11, <1>12 DEF SoFar
  <2>1. \A q \in Part : app[q] = IF q < p THEN f[q] ELSE 0
    BY <1>1, <1>2, <1>11 DEF SoFar
  <2>2. \A q \in Part : app'[q] = IF q < p + 1 THEN f[q] ELSE 0
    <3> SUFFICES ASSUME NEW q \in Part PROVE app'[q] = IF q < p + 1 THEN f[q] ELSE 0
      OBVIOUS
    <3>1. CASE q < p
      <4>1. q < p + 1 /\ q # p
        BY <1>3, <3>1 DEF Part
      <4> QED
        BY <1>14, <2>1, <3>1, <4>1
    <3>2. CASE q = p
      <4>1. q < p + 1 /\ ~(q < p)
        BY <1>3, <3>2 DEF Part
      <4> QED
        BY <1>14, <2>1, <3>2, <4>1
    <3>3. CASE ~(q < p) /\ q # p
      <4>1. ~(q < p + 1)
        BY <1>3, <3>3 DEF Part
      <4> QED
        BY <1>14, <2>1, <3>3, <4>1
    <3> QED
      BY <3>1, <3>2, <3>3
  <2>3. at = "restored" => \A q \in Part : q < p + 1
    BY <1>3, <1>4 DEF Part
  <2> QED
    BY <2>2, <2>3
<1> QED
  BY <1>7, <1>10, <1>11, <1>13, <1>14, <1>15, RestoreGoes DEF Unpack

-----------------------------------------------------------------------------
(* Backups: the steps that change what the storages hold                   *)

(* What every such step has in common: the files are left alone.           *)
LEMMA StoragesStep ==
  ASSUME BackupsAssumption, BackupsInv, UNCHANGED <<app, up>>, BoundsGo,
         archives' \in [Storages -> [Names -> Archive]],
         reported' \subseteq Storages \X Names, asked' \in [Names -> Nat],
         CallsKept, LastStays, \A n \in Names : Kept(n)',
         \A b \in reported' : b \in reported \/ archives'[b[1]][b[2]].there
  PROVE  Preserved
<1>1. BackupsTypeOK
  BY DEF BackupsInv, CallsFit
<1>2. used' \in Bounds /\ used.byHand = used'.byHand
  BY <1>1, BoundsHold DEF BackupsTypeOK, Bounds
<1>3. BackupsTypeOK'
  BY <1>1, <1>2 DEF BackupsTypeOK, Bounds, CallsKept
<1> QED
  BY <1>2, <1>3, BackupsInvKept DEF CallsKept, Preserved

(* An archive is put where it may replace one.                             *)
LEMMA PutTakesNothing ==
  ASSUME BackupsAssumption, BackupsInv, NEW t \in Tasks, task[t].at \in Storing,
         NEW a \in Archive, a.there, PutArchive(t, a)
  PROVE  /\ archives' \in [Storages -> [Names -> Archive]] /\ LastStays
         /\ archives'[Storage(t)][task[t].name] = a
         /\ \A s \in Storages, n \in Names :
              <<s, n>> # <<Storage(t), task[t].name>> => archives'[s][n] = archives[s][n]
<1>1. PICK s, n : s = Storage(t) /\ n = task[t].name
  OBVIOUS
<1>2. s \in Storages /\ n \in Names
  BY <1>1, TaskFits
<1>3. archives \in [Storages -> [Names -> Archive]]
  BY DEF BackupsInv, CallsFit, BackupsTypeOK
<1>4. archives' = [archives EXCEPT ![s] = [archives[s] EXCEPT ![n] = a]]
  BY <1>1, <1>2, <1>3 DEF PutArchive
<1>5. archives' \in [Storages -> [Names -> Archive]]
  <2>1. [archives[s] EXCEPT ![n] = a] \in [Names -> Archive]
    BY <1>2, <1>3
  <2> QED
    BY <1>3, <1>4, <2>1
<1>6. archives'[s][n] = a
  BY <1>2, <1>3, <1>4
<1>7. \A r \in Storages, m \in Names : <<r, m>> # <<s, n>> => archives'[r][m] = archives[r][m]
  BY <1>2, <1>3, <1>4
<1>8. LastStays
  <2> SUFFICES ASSUME NEW r \in Storages, NEW m \in Names, archives[r][m].there
               PROVE  m >= m /\ archives'[r][m].there
    BY DEF LastStays
  <2>1. m >= m
    BY BackupsConstants DEF Names
  <2> QED
    BY <1>6, <1>7, <2>1
<1> QED
  BY <1>1, <1>5, <1>6, <1>7, <1>8

LEMMA ReportTypes ==
  ASSUME BackupsAssumption, BackupsInv, NEW t \in Tasks, task[t].at \in Storing
  PROVE  /\ reported \subseteq Storages \X Names /\ asked \in [Names -> Nat]
         /\ <<Storage(t), task[t].name>> \in Storages \X Names
BY TaskFits DEF BackupsInv, CallsFit, BackupsTypeOK

LEMMA S3Step ==
  ASSUME BackupsAssumption, BackupsInv, NEW t \in Tasks, PutS3(t)
  PROVE  Preserved
<1> DEFINE x == task[t]
<1>1. x.at = "push" /\ x.at \in Storing /\ Storage(t) = "s3" /\ x \in Task
  BY TaskFits DEF PutS3, Storing
<1>2. CASE Fail /\ ToNext(t) /\ UNCHANGED <<archives, reported>>
  BY <1>1, <1>2, NextStep DEF PutS3, BoundsGo
<1>3. CASE /\ PutArchive(t, Complete(t)) /\ BoundsGo
           /\ \/ Report(t) /\ Pushed(t)
              \/ UNCHANGED reported /\ ToNext(t)
  <2>1. PICK y : Moves(t, y) /\ Mild(y) /\ Passes(task[t], y)
    BY <1>1, <1>3, PushedGoes, NextStorage
  <2>2. app' = app /\ up' = up /\ asked' = asked
    BY DEF PutS3
  <2>3. CallsKept
    BY <2>1, <2>2, MildMove
  <2>4. \A u \in Tasks : Follows(task[u], task'[u])
    BY <2>1, PassesFollows, OthersFollow, TaskFits DEF Moves
  <2>5. PICK a : a = Complete(t)
    OBVIOUS
  <2>6. a \in Archive /\ a.there /\ a.whole
    BY <1>1, <2>5 DEF Complete, Archive, Task
  <2>7. PICK n \in Names : n = x.name
    BY <1>1, TaskFits
  <2>8. /\ archives' \in [Storages -> [Names -> Archive]] /\ LastStays
        /\ archives'["s3"][n] = a
        /\ \A s \in Storages, m \in Names : <<s, m>> # <<"s3", n>> => archives'[s][m] = archives[s][m]
    BY <1>1, <1>3, <2>5, <2>6, <2>7, PutTakesNothing
  <2>9. /\ \A b \in reported' : b \in reported \/ b = <<"s3", n>>
        /\ reported' \subseteq Storages \X Names /\ asked' \in [Names -> Nat]
    BY <1>1, <1>3, <2>2, <2>7, ReportTypes DEF Report
  <2>10. ASSUME NEW m \in Names PROVE Kept(m)'
    <3>1. archives'["local"][m] = archives["local"][m]
      BY <2>8 DEF Storages
    <3>2. <<"local", m>> \in reported' => <<"local", m>> \in reported
      BY <2>9
    <3>3. <<"s3", m>> \in reported' => archives'["s3"][m].whole
      <4>1. CASE m = n
        BY <2>6, <2>8, <4>1
      <4>2. CASE m # n
        <5>1. Kept(m)
          BY DEF BackupsInv
        <5> QED
          BY <2>8, <2>9, <4>2, <5>1 DEF Kept, Storages
      <4> QED
        BY <4>1, <4>2
    <3> QED
      BY <2>2, <2>4, <3>1, <3>2, <3>3, KeptStays
  <2>11. \A b \in reported' : b \in reported \/ archives'[b[1]][b[2]].there
    BY <2>6, <2>8, <2>9
  <2> QED
    BY <1>3, <2>2, <2>3, <2>8, <2>9, <2>10, <2>11, StoragesStep
<1> QED
  BY <1>2, <1>3 DEF PutS3, BoundsGo

(* A backup is about to be copied: nobody else copies it.                  *)
LEMMA AboutToCopy ==
  ASSUME BackupsAssumption, BackupsInv, NEW t \in Tasks, task[t].at \in {"push", "copy"},
         Storage(t) = "local", NEW n \in Names, n = task[t].name
  PROVE  /\ 1 \in Copies(task[t])
         /\ ~NoneToCopy(n) /\ asked[n] # 0
         /\ asked[n] <= 1 => OneToCopy(n) /\ <<"local", n>> \notin reported
<1>1. task[t].todo \in Seq(Storages) /\ task[t].todo # <<>> /\ task[t].todo[1] = "local"
  BY TaskFits DEF Storing
<1>2. 1 \in 1..Len(task[t].todo)
  BY <1>1
<1>3. 1 \in Copies(task[t])
  BY <1>1, <1>2 DEF Copies, Storing
<1>4. ~NoneToCopy(n)
  BY <1>3 DEF NoneToCopy
<1>5. Kept(n)
  BY DEF BackupsInv
<1> QED
  BY <1>3, <1>4, <1>5 DEF Kept

LEMMA OpenStep ==
  ASSUME BackupsAssumption, BackupsInv, NEW t \in Tasks, OpenLocal(t)
  PROVE  Preserved
<1> DEFINE x == task[t]
<1>1. x.at = "push" /\ x.at \in Storing /\ Storage(t) = "local" /\ x \in Task /\ CallFits(x)
  BY TaskFits DEF OpenLocal, Storing
<1>2. PICK n \in Names : n = x.name
  BY <1>1, TaskFits
<1>3. PICK m \in BOOLEAN : m = (Copying("local", n) # {})
  OBVIOUS
<1>4. PICK a : a = [NoArchive EXCEPT !.there = TRUE, !.mixed = m]
  OBVIOUS
<1>5. a \in Archive /\ a.there /\ a.mixed = m
  BY <1>3, <1>4, BackupsConstants DEF Archive
<1>6. PICK y : y = [x EXCEPT !.at = "copy"]
  OBVIOUS
<1>7. /\ task' = [task EXCEPT ![t] = y] /\ UNCHANGED <<app, up, reported, asked, used>>
      /\ PutArchive(t, a)
  BY <1>2, <1>3, <1>4, <1>6 DEF OpenLocal, Go
<1>8. y \in Task /\ y.at = "copy" /\ y.todo = x.todo /\ y.name = x.name
  BY <1>1, <1>6 DEF Task
<1>9. x.todo[1] = "local"
  BY <1>1, TaskFits
<1>10. CallFits(y) /\ Mild(y)
  BY <1>1, <1>8, <1>9 DEF CallFits, Mild, Storing
<1>11. \A i \in Copies(y) : i + 0 \in Copies(x)
  BY <1>1, <1>8 DEF Copies
<1>12. Follows(x, y)
  BY <1>8, <1>11 DEF Follows
<1>13. CallsKept
  BY <1>7, <1>8, <1>10, MildMove DEF Moves
<1>14. \A u \in Tasks : Follows(task[u], task'[u])
  BY <1>7, <1>12, OthersFollow, TaskFits
<1>15. /\ archives' \in [Storages -> [Names -> Archive]] /\ LastStays
       /\ archives'["local"][n] = a
       /\ \A s \in Storages, k \in Names : <<s, k>> # <<"local", n>> => archives'[s][k] = archives[s][k]
  BY <1>1, <1>2, <1>5, <1>7, PutTakesNothing
<1>16. ASSUME NEW k \in Names PROVE Kept(k)'
  <2>1. Kept(k) /\ asked[k] \in Nat
    BY DEF BackupsInv, CallsFit, BackupsTypeOK
  <2>2. archives'["s3"][k] = archives["s3"][k]
    BY <1>15 DEF Storages
  <2>3. CASE k # n
    <3>1. archives'["local"][k] = archives["local"][k]
      BY <1>15, <2>3 DEF Storages
    <3> QED
      BY <1>7, <1>14, <2>1, <2>2, <3>1, KeptStays DEF Kept
  <2>4. CASE k = n
    <3>1. /\ 1 \in Copies(x) /\ asked[n] # 0
          /\ asked[n] <= 1 => OneToCopy(n) /\ <<"local", n>> \notin reported
      BY <1>1, <1>2, AboutToCopy
    <3>2. ASSUME OneToCopy(n) PROVE m = FALSE
      <4> SUFFICES ASSUME NEW u \in Copying("local", n) PROVE FALSE
        BY <1>3
      <4>1. u \in Tasks /\ task[u].at = "copy" /\ Storage(u) = "local" /\ n = task[u].name
        BY DEF Copying
      <4>2. 1 \in Copies(task[u])
        BY <4>1, AboutToCopy
      <4>3. u = t
        BY <1>2, <3>1, <3>2, <4>1, <4>2 DEF OneToCopy
      <4> QED
        BY <1>1, <4>1, <4>3
    <3>3. asked[n] <= 1 => OneToCopy(n)' /\ <<"local", n>> \notin reported' /\ ~archives'["local"][n].mixed
      BY <1>5, <1>7, <1>14, <1>15, <3>1, <3>2, CopiesFollow
    <3>4. <<"s3", n>> \in reported' => archives'["s3"][n].whole
      BY <1>7, <2>1, <2>2, <2>4 DEF Kept
    <3> QED
      BY <1>7, <2>4, <3>1, <3>3, <3>4 DEF Kept
  <2> QED
    BY <2>3, <2>4
<1> QED
  BY <1>1, <1>7, <1>13, <1>15, <1>16, ReportTypes, StoragesStep DEF BoundsGo

LEMMA CopyStep ==
  ASSUME BackupsAssumption, BackupsInv, NEW t \in Tasks, CopyEnds(t)
  PROVE  Preserved
<1> DEFINE x == task[t]
<1>1. x.at = "copy" /\ x.at \in Storing /\ Storage(t) = "local" /\ x \in Task
  BY TaskFits DEF CopyEnds, Storing, CallFits
<1>2. PICK n \in Names : n = x.name
  BY <1>1, TaskFits
<1>3. PICK y : Moves(t, y) /\ Mild(y) /\ Passes(x, y)
  BY <1>1, PushedGoes DEF CopyEnds
<1>4. PICK a : a = archives["local"][n]
  OBVIOUS
<1>5. a \in Archive
  BY <1>2, <1>4 DEF BackupsInv, CallsFit, BackupsTypeOK, Storages
<1>6. CASE ~a.there
  <2>1. UNCHANGED <<app, up, archives, reported, asked, used>>
    BY <1>2, <1>4, <1>6 DEF CopyEnds
  <2> QED
    BY <1>3, <2>1, PassesFollows, MildStep
    DEF BoundsGo, Preserved, BackupsInv, CallsFit, BackupsTypeOK
<1>7. CASE a.there
  <2>1. PICK c : c = [Complete(t) EXCEPT !.whole = ~a.mixed, !.mixed = a.mixed]
    OBVIOUS
  <2>2. c \in Archive /\ c.there /\ c.mixed = a.mixed /\ (~a.mixed => c.whole)
    BY <1>1, <1>5, <2>1 DEF Complete, Archive, Task
  <2>3. /\ PutArchive(t, c) /\ reported' = reported \cup {<<"local", n>>}
        /\ UNCHANGED <<app, up, asked, used>>
    BY <1>1, <1>2, <1>4, <1>7, <2>1 DEF CopyEnds, Report
  <2>4. CallsKept
    BY <1>3, <2>3, MildMove
  <2>5. \A u \in Tasks : Follows(task[u], task'[u])
    BY <1>3, PassesFollows, OthersFollow, TaskFits DEF Moves
  <2>6. /\ archives' \in [Storages -> [Names -> Archive]] /\ LastStays
        /\ archives'["local"][n] = c
        /\ \A s \in Storages, k \in Names : <<s, k>> # <<"local", n>> => archives'[s][k] = archives[s][k]
    BY <1>1, <1>2, <2>2, <2>3, PutTakesNothing
  <2>7. ASSUME NEW k \in Names PROVE Kept(k)'
    <3>1. Kept(k) /\ asked[k] \in Nat
      BY DEF BackupsInv, CallsFit, BackupsTypeOK
    <3>2. archives'["s3"][k] = archives["s3"][k] /\ (<<"s3", k>> \in reported' => <<"s3", k>> \in reported)
      BY <2>3, <2>6 DEF Storages
    <3>3. CASE k # n
      <4>1. archives'["local"][k] = archives["local"][k]
        BY <2>6, <3>3 DEF Storages
      <4>2. <<"local", k>> \in reported' => <<"local", k>> \in reported
        BY <2>3, <3>3
      <4> QED
        BY <2>3, <2>5, <3>1, <3>2, <4>1, <4>2, KeptStays DEF Kept
    <3>4. CASE k = n
      <4>1. /\ 1 \in Copies(x) /\ asked[n] # 0 /\ (asked[n] <= 1 => OneToCopy(n))
        BY <1>1, <1>2, AboutToCopy
      <4>2. ASSUME OneToCopy(n) PROVE NoneToCopy(n)'
        <5> SUFFICES ASSUME NEW u \in Tasks, task'[u].name = n, NEW i \in Copies(task'[u])
                     PROVE  FALSE
          BY DEF NoneToCopy
        <5>1. CASE u = t
          <6>1. task'[u] = y
            BY <1>3, <5>1, TaskFits DEF Moves
          <6>2. PICK j : j \in {0, 1} /\ i + j \in Copies(x) \ {1}
            BY <1>3, <6>1 DEF Passes
          <6> QED
            BY <1>2, <4>1, <4>2, <6>2 DEF OneToCopy
        <5>2. CASE u # t
          <6>1. task'[u] = task[u]
            BY <1>3, <5>2, TaskFits DEF Moves
          <6> QED
            BY <1>2, <4>1, <4>2, <5>2, <6>1 DEF OneToCopy
        <5> QED
          BY <5>1, <5>2
      <4>3. asked[n] <= 1 => /\ OneToCopy(n)' /\ NoneToCopy(n)'
                             /\ ~archives'["local"][n].mixed /\ archives'["local"][n].whole
        BY <1>4, <2>2, <2>5, <2>6, <3>1, <3>4, <4>1, <4>2, CopiesFollow DEF Kept
      <4>4. <<"s3", n>> \in reported' => archives'["s3"][n].whole
        BY <3>1, <3>2, <3>4 DEF Kept
      <4> QED
        BY <2>3, <3>4, <4>1, <4>3, <4>4 DEF Kept
    <3> QED
      BY <3>3, <3>4
  <2>8. \A b \in reported' : b \in reported \/ archives'[b[1]][b[2]].there
    BY <2>2, <2>3, <2>6
  <2>9. reported' \subseteq Storages \X Names /\ asked' \in [Names -> Nat]
    BY <1>1, <1>2, <2>3, ReportTypes
  <2> QED
    BY <2>3, <2>4, <2>6, <2>7, <2>8, <2>9, StoragesStep DEF BoundsGo
<1> QED
  BY <1>6, <1>7

(* What is beyond the last N of a storage, N > 0, has a later one there.   *)
LEMMA BeyondHasLater ==
  ASSUME BackupsAssumption, NEW s \in Storages, NEW keep \in Nat, keep > 0,
         NEW n \in Beyond(Listed(s), keep)
  PROVE  n \in Names /\ LaterThere(s, n)
<1>1. n \in Names /\ Cardinality({m \in Listed(s) : m > n}) >= keep
  BY DEF Beyond, Listed
<1>2. Cardinality({}) = 0
  BY FS_EmptySet
<1>3. {m \in Listed(s) : m > n} # {}
  <2> SUFFICES ASSUME {m \in Listed(s) : m > n} = {} PROVE FALSE
    OBVIOUS
  <2>1. 0 >= keep
    BY <1>1, <1>2
  <2> QED
    BY <2>1
<1> QED
  BY <1>1, <1>3 DEF Listed, LaterThere

LEMMA RotateStep ==
  ASSUME BackupsAssumption, BackupsInv, NEW t \in Tasks, RotateStorage(t)
  PROVE  Preserved
<1> DEFINE x == task[t]
<1>1. /\ x.at = "rotate" /\ x.at \in Storing /\ x \in Task /\ CallFits(x)
      /\ Storage(t) = x.todo[1] /\ Storage(t) \in Storages /\ task \in [Tasks -> Task]
  BY TaskFits DEF RotateStorage, Storing
<1>2. CASE Fail /\ ToNext(t)
  BY <1>1, <1>2, NextStep DEF RotateStorage, BoundsGo
<1>3. CASE /\ task' = [task EXCEPT ![t].at = "prune",
                                   ![t].extra = Beyond(Listed(Storage(t)), x.keep)]
           /\ UNCHANGED used
  <2>1. PICK s, extra : s \in Storages /\ s = Storage(t) /\ extra = Beyond(Listed(s), x.keep)
    BY <1>1
  <2>2. x.keep \in Nat /\ x.keep > 0
    BY <1>1, BackupsConstants DEF Task, CallFits
  <2>3. \A n \in extra : n \in Names /\ LaterThere(s, n)
    BY <2>1, <2>2, BeyondHasLater
  <2>4. PICK y : y = [x EXCEPT !.at = "prune", !.extra = extra]
    OBVIOUS
  <2>5. task' = [task EXCEPT ![t] = y]
    BY <1>1, <1>3, <2>1, <2>4 DEF Task
  <2>6. extra \in SUBSET Names
    BY <2>3
  <2>7. /\ y \in Task /\ y.at = "prune" /\ y.todo = x.todo /\ y.name = x.name
        /\ y.keep = x.keep /\ y.extra = extra
    BY <1>1, <2>4, <2>6 DEF Task
  <2>8. CallFits(y)
    BY <1>1, <2>2, <2>7 DEF CallFits, Storing
  <2>9. /\ task' \in [Tasks -> Task] /\ task'[t] = y
        /\ \A u \in Tasks \ {t} : task'[u] = task[u]
    BY <1>1, <2>5, <2>7
  <2>10. \A i \in Copies(y) : i + 0 \in Copies(x)
    BY <1>1, <2>7 DEF Copies
  <2>11. Follows(x, y)
    BY <2>7, <2>10 DEF Follows
  <2>12. \A u \in Tasks : Follows(task[u], task'[u])
    BY <1>1, <2>5, <2>11, OthersFollow
  <2>13. UNCHANGED <<app, up, archives, reported, asked, used>>
    BY <1>3 DEF RotateStorage
  <2>14. Spares(y)
    BY <1>1, <2>1, <2>3, <2>7 DEF Spares
  <2>15. SparesStill(t)
    <3>1. Spares(task[t])' <=> Spares(y)
      BY <2>9, <2>13 DEF Spares, LaterThere
    <3> QED
      BY <2>14, <3>1 DEF SparesStill
  <2>16. CallsKept
    <3>1. CallFits(task'[t]) /\ SoFar(task'[t], app')
      BY <2>7, <2>8, <2>9 DEF SoFar
    <3>2. ASSUME NEW u \in Tasks \ {t}
          PROVE  CallFits(task'[u]) /\ SoFar(task'[u], app') /\ SparesStill(u)
      BY <2>9, <2>13 DEF BackupsInv, CallsFit, SparesStill
    <3> QED
      BY <2>9, <2>15, <3>1, <3>2 DEF CallsKept
  <2>17. app' \in PartFiles /\ up' \in BOOLEAN
    BY <2>13 DEF BackupsInv, CallsFit, BackupsTypeOK
  <2> QED
    BY <2>12, <2>13, <2>16, <2>17, StoragesAlone DEF BoundsGo, Preserved
<1> QED
  BY <1>2, <1>3 DEF RotateStorage

(* One archive is removed: no other is, and it is no longer reported.      *)
LEMMA RemovedTakesOne ==
  ASSUME BackupsAssumption, BackupsInv, NEW s \in Storages, NEW n \in Names, Removed(s, n)
  PROVE  /\ archives' \in [Storages -> [Names -> Archive]]
         /\ archives'[s][n] = NoArchive
         /\ \A r \in Storages, m \in Names : <<r, m>> # <<s, n>> => archives'[r][m] = archives[r][m]
         /\ reported' = reported \ {<<s, n>>} /\ reported' \subseteq Storages \X Names
<1>1. archives \in [Storages -> [Names -> Archive]] /\ reported \subseteq Storages \X Names
  BY DEF BackupsInv, CallsFit, BackupsTypeOK
<1>2. archives' = [archives EXCEPT ![s] = [archives[s] EXCEPT ![n] = NoArchive]]
  BY <1>1 DEF Removed
<1>3. archives' \in [Storages -> [Names -> Archive]]
  <2>1. [archives[s] EXCEPT ![n] = NoArchive] \in [Names -> Archive]
    BY <1>1, BackupsConstants
  <2> QED
    BY <1>1, <1>2, <2>1
<1>4. archives'[s][n] = NoArchive
  BY <1>1, <1>2
<1>5. \A r \in Storages, m \in Names : <<r, m>> # <<s, n>> => archives'[r][m] = archives[r][m]
  BY <1>1, <1>2
<1> QED
  BY <1>1, <1>3, <1>4, <1>5 DEF Removed

LEMMA RemovedKept ==
  ASSUME BackupsAssumption, BackupsInv, NEW s \in Storages, NEW n \in Names, Removed(s, n),
         asked' = asked, \A t \in Tasks : Follows(task[t], task'[t])
  PROVE  \A m \in Names : Kept(m)'
<1> SUFFICES ASSUME NEW m \in Names PROVE Kept(m)'
  OBVIOUS
<1>1. Kept(m)
  BY DEF BackupsInv
<1>2. ~NoArchive.mixed
  BY DEF NoArchive
<1>3. \/ archives'["local"][m] = archives["local"][m]
      \/ ~archives'["local"][m].mixed /\ <<"local", m>> \notin reported'
  BY <1>2, RemovedTakesOne DEF Storages
<1>4. <<"s3", m>> \in reported' => archives'["s3"][m].whole
  <2>1. CASE <<s, n>> = <<"s3", m>>
    BY <2>1, RemovedTakesOne
  <2>2. CASE <<s, n>> # <<"s3", m>>
    BY <1>1, <2>2, RemovedTakesOne DEF Kept, Storages
  <2> QED
    BY <2>1, <2>2
<1>5. <<"local", m>> \in reported' => <<"local", m>> \in reported
  BY RemovedTakesOne
<1> QED
  BY <1>3, <1>4, <1>5, KeptStays

LEMMA PruneStep ==
  ASSUME BackupsAssumption, BackupsInv, NEW t \in Tasks, NEW n \in Names, PruneOne(t, n)
  PROVE  Preserved
<1> DEFINE x == task[t]
<1>1. /\ x.at = "prune" /\ x.at \in Storing /\ x \in Task /\ CallFits(x)
      /\ Storage(t) = x.todo[1] /\ Storage(t) \in Storages /\ task \in [Tasks -> Task]
  BY TaskFits DEF PruneOne, Storing
<1>2. PICK s \in Storages : s = Storage(t)
  BY <1>1
<1>3. PICK y : y = [x EXCEPT !.extra = @ \ {n}]
  OBVIOUS
<1>4. task' = [task EXCEPT ![t] = y] /\ UNCHANGED <<app, up, asked>>
  BY <1>1, <1>3 DEF PruneOne, Task
<1>5. /\ y \in Task /\ y.at = "prune" /\ y.todo = x.todo /\ y.name = x.name
      /\ y.keep = x.keep /\ y.extra = x.extra \ {n}
  BY <1>1, <1>3 DEF Task
<1>6. CallFits(y)
  BY <1>1, <1>5 DEF CallFits, Storing
<1>7. /\ task' \in [Tasks -> Task] /\ task'[t] = y
      /\ \A u \in Tasks \ {t} : task'[u] = task[u]
  BY <1>1, <1>4, <1>5
<1>8. \A i \in Copies(y) : i + 0 \in Copies(x)
  BY <1>1, <1>5 DEF Copies
<1>9. Follows(x, y)
  BY <1>5, <1>8 DEF Follows
<1>10. \A u \in Tasks : Follows(task[u], task'[u])
  BY <1>1, <1>4, <1>9, OthersFollow
<1>11. CallsKept
  <2>1. CallFits(task'[t]) /\ SoFar(task'[t], app') /\ SparesStill(t)
    BY <1>1, <1>5, <1>6, <1>7 DEF SoFar, SparesStill
  <2>2. ASSUME NEW u \in Tasks \ {t}
        PROVE  CallFits(task'[u]) /\ SoFar(task'[u], app') /\ SparesStill(u)
    BY <1>4, <1>7 DEF BackupsInv, CallsFit, SparesStill
  <2> QED
    BY <1>7, <2>1, <2>2 DEF CallsKept
<1>12. CASE Fail /\ UNCHANGED <<archives, reported>>
  <2>1. app' \in PartFiles /\ up' \in BOOLEAN
    BY <1>4 DEF BackupsInv, CallsFit, BackupsTypeOK
  <2> QED
    BY <1>4, <1>10, <1>11, <1>12, <2>1, StoragesAlone DEF BoundsGo, Preserved
<1>13. CASE Removed(s, n) /\ UNCHANGED used
  <2>1. \A m \in Names : Kept(m)'
    BY <1>4, <1>10, <1>13, RemovedKept
  <2>2. LastStays
    <3> SUFFICES ASSUME NEW r \in Storages, r \notin used'.byHand,
                        NEW m \in Names, archives[r][m].there
                 PROVE  \E k \in Names : k >= m /\ archives'[r][k].there
      BY DEF LastStays
    <3>1. CASE <<r, m>> # <<s, n>>
      <4>1. m >= m
        BY BackupsConstants DEF Names
      <4> QED
        BY <1>13, <3>1, <4>1, RemovedTakesOne
    <3>2. CASE r = s /\ m = n
      <4>1. Spares(x) /\ x.todo[1] \notin used.byHand /\ n \in x.extra
        BY <1>1, <1>2, <1>13, <3>2 DEF BackupsInv, PruneOne
      <4>2. LaterThere(s, n)
        BY <1>1, <1>2, <4>1 DEF Spares
      <4>3. PICK k \in Names : k > n /\ archives[s][k].there
        BY <4>2 DEF LaterThere
      <4>4. k >= m /\ k # n
        BY <3>2, <4>3, BackupsConstants DEF Names
      <4> QED
        BY <1>13, <3>2, <4>3, <4>4, RemovedTakesOne
    <3> QED
      BY <3>1, <3>2
  <2>3. asked' \in [Names -> Nat] /\ \A b \in reported' : b \in reported
    BY <1>1, <1>4, <1>13, ReportTypes, RemovedTakesOne
  <2> QED
    BY <1>4, <1>11, <1>13, <2>1, <2>2, <2>3, RemovedTakesOne, StoragesStep DEF BoundsGo
<1> QED
  BY <1>2, <1>12, <1>13 DEF PruneOne

LEMMA DeleteStep ==
  ASSUME BackupsAssumption, BackupsInv, NEW s \in Storages, NEW n \in Names, DeleteBackup(s, n)
  PROVE  Preserved
<1>1. /\ UNCHANGED <<app, up, task, asked>> /\ Removed(s, n) /\ used.calls < MaxBackupCalls
      /\ used' = [used EXCEPT !.calls = @ + 1, !.byHand = @ \cup {s}]
  BY DEF DeleteBackup
<1>2. BackupsTypeOK
  BY DEF BackupsInv, CallsFit
<1>3. used' \in Bounds /\ used'.byHand = used.byHand \cup {s}
  <2>1. used \in Bounds
    BY <1>2 DEF BackupsTypeOK, Bounds
  <2>2. used.calls + 1 \in 0..MaxBackupCalls
    BY <1>1, <2>1, BackupsConstants DEF Bounds
  <2> QED
    BY <1>1, <2>1, <2>2 DEF Bounds
<1>4. BackupsTypeOK'
  BY <1>1, <1>2, <1>3, RemovedTakesOne DEF BackupsTypeOK, Bounds
<1>5. LastStays
  <2> SUFFICES ASSUME NEW r \in Storages, r \notin used'.byHand,
                      NEW m \in Names, archives[r][m].there
               PROVE  m >= m /\ archives'[r][m].there
    BY DEF LastStays
  <2>1. m >= m
    BY BackupsConstants DEF Names
  <2>2. r # s
    BY <1>3
  <2> QED
    BY <1>1, <2>1, <2>2, RemovedTakesOne
<1>6. \A x : \A i \in Copies(x) : i + 0 \in Copies(x)
  BY DEF Copies
<1>7. \A t \in Tasks : Follows(task[t], task'[t])
  BY <1>1, <1>6 DEF Follows
<1>8. \A m \in Names : Kept(m)'
  BY <1>1, <1>7, RemovedKept
<1>9. \A t \in Tasks : CallFits(task'[t]) /\ SoFar(task'[t], app') /\ SparesStill(t)
  BY <1>1 DEF BackupsInv, CallsFit, SparesStill
<1>10. \A b \in reported' : b \in reported
  BY <1>1, RemovedTakesOne
<1> QED
  BY <1>3, <1>4, <1>5, <1>8, <1>9, <1>10, BackupsInvKept DEF Preserved

LEMMA CreateStep ==
  ASSUME BackupsAssumption, BackupsInv, NEW t \in Tasks, NEW n \in Names, NEW todo \in Targets,
         NEW keep \in Keeps, NEW only \in Filters, Create(t, n, todo, keep, only)
  PROVE  Preserved
<1> DEFINE L == {i \in 1..Len(todo) : todo[i] = "local"}
<1>1. todo \in Seq(Storages) /\ todo # <<>> /\ only \in SUBSET Part
  BY BackupsConstants
<1>2. PICK y : y = [IdleTask EXCEPT !.at = "archive", !.name = n, !.todo = todo,
                                    !.keep = keep, !.only = only]
  OBVIOUS
<1>3. /\ task' = [task EXCEPT ![t] = y] /\ UNCHANGED <<app, up, archives, reported>>
      /\ used.calls < MaxBackupCalls /\ Call
  BY <1>2 DEF Create, Called
<1>4. IdleTask.part = 1 /\ IdleTask \in Task
  BY IdleFits DEF IdleTask
<1>5. /\ y \in Task /\ y.at = "archive" /\ y.name = n /\ y.todo = todo /\ y.part = 1
  <2>1. n \in 0..MaxSecond
    BY BackupsConstants DEF Names
  <2> QED
    BY <1>1, <1>2, <1>4, <2>1 DEF Task
<1>6. CallFits(y) /\ Mild(y)
  <2>1. 1 <= Len(Parts)
    BY DEF BackupsAssumption
  <2> QED
    BY <1>1, <1>5, <2>1 DEF CallFits, Mild, Storing
<1>7. Copies(y) = L
  BY <1>5 DEF Copies, Storing
<1>8. CallsKept
  BY <1>3, <1>5, <1>6, MildMove DEF Moves
<1>9. task \in [Tasks -> Task] /\ asked \in [Names -> Nat] /\ reported \subseteq Storages \X Names
      /\ archives \in [Storages -> [Names -> Archive]]
  BY DEF BackupsInv, CallsFit, BackupsTypeOK
<1>10. task'[t] = y /\ \A u \in Tasks \ {t} : task'[u] = task[u]
  BY <1>3, <1>9
<1>11. LastStays
  BY <1>3, BackupsConstants DEF LastStays, Names
<1>12. PICK c : c = Cardinality(L)
  OBVIOUS
<1>13. IsFiniteSet(L) /\ c \in Nat
  <2>1. Len(todo) \in Nat
    BY <1>1
  <2>2. IsFiniteSet(1..Len(todo))
    BY <2>1, FS_Interval
  <2>3. L \subseteq 1..Len(todo)
    OBVIOUS
  <2>4. IsFiniteSet(L)
    BY <2>2, <2>3, FS_Subset
  <2> QED
    BY <1>12, <2>4, FS_CardinalityType
<1>14. asked' = [asked EXCEPT ![n] = asked[n] + c]
  BY <1>9, <1>12 DEF Create, LocalCopies
<1>15. asked[n] \in Nat /\ asked' \in [Names -> Nat]
  BY <1>9, <1>13, <1>14
<1>16. \A x : \A i \in Copies(x) : i + 0 \in Copies(x)
  BY DEF Copies
<1>17. \A u \in Tasks \ {t} : Follows(task[u], task'[u])
  BY <1>10, <1>16 DEF Follows
<1>18. ASSUME NEW m \in Names PROVE Kept(m)'
  <2>1. Kept(m)
    BY DEF BackupsInv
  <2>2. CASE m # n
    <3>1. \A u \in Tasks : task'[u].name = m => Follows(task[u], task'[u])
      BY <1>5, <1>10, <1>17, <2>2
    <3>2. asked'[m] = asked[m]
      BY <1>9, <1>14, <2>2
    <3> QED
      BY <1>3, <2>1, <3>1, <3>2, KeptStays DEF Kept
  <2>3. CASE m = n /\ c = 0
    <3>1. L = {}
      BY <1>12, <1>13, <2>3, FS_EmptySet
    <3>2. \A u \in Tasks : Follows(task[u], task'[u])
      BY <1>7, <1>10, <1>17, <3>1, NoCopiesFollow
    <3>3. asked'[m] = asked[m]
      BY <1>9, <1>14, <1>15, <2>3
    <3> QED
      BY <1>3, <2>1, <3>2, <3>3, KeptStays DEF Kept
  <2>4. CASE m = n /\ c # 0
    <3>1. asked'[n] = asked[n] + c
      BY <1>9, <1>14
    <3>2. asked'[n] # 0 /\ (asked'[n] <= 1 => asked[n] = 0 /\ c = 1)
      BY <1>13, <1>15, <2>4, <3>1
    <3>3. ASSUME asked[n] = 0, c = 1
          PROVE  /\ ~archives["local"][n].mixed /\ <<"local", n>> \notin reported
                 /\ OneToCopy(n)'
      <4>1. NoneToCopy(n) /\ ~archives["local"][n].mixed /\ <<"local", n>> \notin reported
        BY <2>1, <2>4, <3>3 DEF Kept
      <4>2. PICK k : L = {k}
        BY <1>12, <1>13, <3>3, FS_Singleton
      <4>3. ASSUME NEW u \in Tasks, task'[u].name = n, NEW i \in Copies(task'[u])
            PROVE  u = t /\ i = k
        <5>1. u = t
          BY <1>10, <4>1, <4>3 DEF NoneToCopy
        <5> QED
          BY <1>7, <1>10, <4>2, <4>3, <5>1
      <4>4. OneToCopy(n)'
        BY <4>3 DEF OneToCopy
      <4> QED
        BY <4>1, <4>4
    <3>4. <<"s3", n>> \in reported => archives["s3"][n].whole
      BY <2>1, <2>4 DEF Kept
    <3> QED
      BY <1>3, <2>4, <3>2, <3>3, <3>4 DEF Kept
  <2> QED
    BY <2>2, <2>3, <2>4
<1>19. /\ archives' \in [Storages -> [Names -> Archive]] /\ reported' \subseteq Storages \X Names
       /\ \A b \in reported' : b \in reported
  BY <1>3, <1>9
<1> QED
  BY <1>3, <1>8, <1>11, <1>15, <1>18, <1>19, StoragesStep DEF BoundsGo

-----------------------------------------------------------------------------
(* Backups: the theorems                                                   *)

LEMMA BackupsCallStep ==
  ASSUME BackupsAssumption, BackupsInv, NEW t \in Tasks,
         \/ ArchivePart(t) \/ BuildFails(t) \/ PutS3(t) \/ OpenLocal(t) \/ CopyEnds(t)
         \/ PushFails(t) \/ RotateStorage(t) \/ Rotated(t)
         \/ Pull(t) \/ Clear(t) \/ Unpack(t) \/ RestoreFails(t) \/ StartAgain(t)
  PROVE  Preserved
<1>1. up \in BOOLEAN /\ task[t].was \in BOOLEAN
  BY TaskFits DEF BackupsInv, CallsFit, BackupsTypeOK, Task
<1>2. CASE BuildFails(t)
  BY <1>1, <1>2, EndStep DEF BuildFails, BoundsGo
<1>3. CASE PushFails(t)
  BY <1>3, NextStep DEF PushFails, BoundsGo, Storing
<1>4. CASE Rotated(t)
  BY <1>4, NextStep DEF Rotated, BoundsGo, Storing
<1>5. CASE RestoreFails(t)
  BY <1>5, StartStep DEF RestoreFails, BoundsGo
<1>6. CASE StartAgain(t)
  <2>1. UNCHANGED <<app, archives, reported, asked>> /\ EndCall(t) /\ BoundsGo
    BY <1>6 DEF StartAgain, BoundsGo
  <2>2. up' \in BOOLEAN
    BY <1>1, <1>6 DEF StartAgain
  <2> QED
    BY <2>1, <2>2, EndStep
<1> QED
  BY <1>2, <1>3, <1>4, <1>5, <1>6, ArchiveStep, S3Step, OpenStep, CopyStep, RotateStep, PullStep,
     ClearStep, UnpackStep

LEMMA BackupsStep ==
  ASSUME BackupsAssumption, BackupsInv, [BackupsNext]_backupsVars
  PROVE  Preserved
<1>1. CASE UNCHANGED backupsVars
  <2>1. LastStays
    BY <1>1, BackupsConstants DEF backupsVars, LastStays, Names
  <2>2. BackupsInv'
    BY <1>1 DEF backupsVars, BackupsInv, CallsFit, BackupsTypeOK, SoFar, Spares, LaterThere, Kept,
                NoneToCopy, OneToCopy, OneThere
  <2> QED
    BY <1>1, <2>1, <2>2 DEF backupsVars, Preserved
<1>2. ASSUME NEW p \in Part, ChangePart(p) PROVE Preserved
  BY <1>2, ChangeStep
<1>3. CASE AppStartsOrStops \/ DaemonDies
  BY <1>3, AppSwitches, DaemonDeath
<1>4. ASSUME NEW s \in Storages, NEW n \in Names, DeleteBackup(s, n) PROVE Preserved
  BY <1>4, DeleteStep
<1>5. ASSUME NEW t \in Tasks, NEW n \in Names, NEW todo \in Targets, NEW keep \in Keeps,
             NEW only \in Filters, Create(t, n, todo, keep, only)
      PROVE  Preserved
  BY <1>5, CreateStep
<1>6. ASSUME NEW t \in Tasks, NEW n \in Names, PruneOne(t, n) PROVE Preserved
  BY <1>6, PruneStep
<1>7. ASSUME NEW t \in Tasks, NEW s \in Storages, NEW n \in Names, RestoreBackup(t, s, n)
      PROVE  Preserved
  BY <1>7, RestoreStarts
<1> QED
  BY <1>1, <1>2, <1>3, <1>4, <1>5, <1>6, <1>7, BackupsCallStep DEF BackupsNext

(* Every variable of the backups keeps its type.                           *)
THEOREM BackupsTypeCorrect ==
  ASSUME BackupsAssumption
  PROVE  BackupsSpec => []BackupsTypeOK
<1>1. BackupsInv => BackupsTypeOK
  BY DEF BackupsInv, CallsFit
<1>2. BackupsInv /\ [BackupsNext]_backupsVars => BackupsInv'
  BY BackupsStep DEF Preserved
<1> QED
  BY <1>1, <1>2, BackupsInvInit, PTL DEF BackupsSpec

(* A restore nobody disturbed ends with exactly the files of its archive,  *)
(* whatever the app held, and whatever restores failed before it.          *)
THEOREM SnapshotRestored ==
  ASSUME BackupsAssumption
  PROVE  BackupsSpec => []RestoredIsSnapshot
<1>1. BackupsInv => RestoredIsSnapshot
  BY BackupsInvImplies
<1>2. BackupsInv /\ [BackupsNext]_backupsVars => BackupsInv'
  BY BackupsStep DEF Preserved
<1> QED
  BY <1>1, <1>2, BackupsInvInit, PTL DEF BackupsSpec

(* What was reported good is there and whole, and a rotation never takes   *)
(* the last backup of a storage, for any lists of storages, policies and   *)
(* number of calls at once.                                                *)
THEOREM BackupsKept ==
  ASSUME BackupsAssumption
  PROVE  BackupsSpec => BackupsAreKept
<1>1. BackupsInv => ReportedIsThere
  BY BackupsInvImplies
<1>2. BackupsInv /\ [BackupsNext]_backupsVars => BackupsInv'
  BY BackupsStep DEF Preserved
<1>3. BackupsInv /\ [BackupsNext]_backupsVars =>
        \A s \in Storages :
          (\E b \in reported : b[1] = s) /\ s \notin used'.byHand =>
            (\E n \in Names : archives[s][n].whole)' \/ TornCopy(s)'
  BY BackupsStep, LastStaysImplies DEF Preserved
<1> QED
  BY <1>1, <1>2, <1>3, BackupsInvInit, PTL DEF BackupsSpec, BackupsAreKept, LeavesOne

-----------------------------------------------------------------------------
(* An app that is a process: it runs once at most, and app.pid says where  *)

(* Types, and where each kind of operation can be.                         *)
PlacedOp ==
  {x \in ProcessCall :
     /\ x.at = "look" => x.kind \notin {"restart", "remove"}
     /\ x.at \in {"signal", "wait", "unlink"} => x.kind \notin {"start", "reconcile"}
     /\ x.at \in {"spawn", "write"} => x.kind \in {"start", "restart", "reconcile"}
     /\ x.at = "save" => x.kind \notin {"remove", "reconcile"}
     /\ x.at = "delete" => x.kind = "remove"}
ProcessShapes == ProcessTypeOK /\ op \in [Ops -> PlacedOp]

(* No two operations overlapped but stops and kills.                       *)
Unmixed ==
  \A o, q \in Ops :
    o # q /\ op[o].at # "idle" /\ op[q].at # "idle" => {op[o].kind, op[q].kind} \subseteq {"stop", "kill"}

(* The app runs where app.pid says, but for the start that spawned it.     *)
Traced == \A p \in Live : pidfile = p \/ \E o \in Ops : op[o].at = "write"

(* What an operation may rely on while it goes: from the moment the driver *)
(* is done with the process until a new one is spawned, none runs.         *)
OpFits(x) ==
  /\ x.at # "idle" =>
       /\ present
       /\ x.seen = wanted \/ (x.kind \in {"stop", "kill"} /\ wanted = "Stopped")
  /\ x.at \in {"spawn", "unlink", "delete"} => Live = {}
  /\ x.at = "save" /\ x.kind \in {"stop", "kill"} => Live = {}
  /\ x.at \in {"wait", "write"} => Live \subseteq {x.pid}
  /\ x.at \in {"spawn", "write"} /\ x.kind = "reconcile" => x.seen = "Running"
OpsFit == \A o \in Ops : OpFits(op[o])

(* A running app is a wanted one, or is about to be.                       *)
Meant ==
  Live # {} =>
    \/ wanted = "Running" /\ present
    \/ \E o \in Ops : op[o].at \in {"write", "save"} /\ op[o].kind \in {"start", "restart"}

Undisturbed == met \intersect {"overlap", "unwritten"} = {}
ProcessInv ==
  /\ ProcessShapes
  /\ Undisturbed => Unmixed /\ Traced /\ OpsFit
  /\ met = {} => Meant

(* An operation that stands somewhere else, and is otherwise the same.     *)
Becomes(o, y) == op' = [op EXCEPT ![o] = y]
StandsAt(o, y, at, pid) ==
  /\ y \in ProcessCall /\ y.at = at /\ y.pid = pid
  /\ y.kind = op[o].kind /\ y.seen = op[o].seen
GoesTo(o, at) == \E y : Becomes(o, y) /\ StandsAt(o, y, at, op[o].pid)
Takes(o, at, pid) == \E y : Becomes(o, y) /\ StandsAt(o, y, at, pid)

LEMMA OpBasics ==
  ASSUME ProcessShapes, NEW o \in Ops
  PROVE  /\ op[o] \in PlacedOp /\ op[o] \in ProcessCall /\ op[o].pid \in 0..MaxPid
         /\ op[o].at = "look" => op[o].kind \notin {"restart", "remove"}
         /\ op[o].at \in {"signal", "wait", "unlink"} => op[o].kind \notin {"start", "reconcile"}
         /\ op[o].at \in {"spawn", "write"} => op[o].kind \in {"start", "restart", "reconcile"}
         /\ op[o].at = "save" => op[o].kind \notin {"remove", "reconcile"}
         /\ op[o].at = "delete" => op[o].kind = "remove"
         /\ op[o].kind \in Asked \union {"reconcile"}
<1>1. op[o] \in PlacedOp
  BY DEF ProcessShapes
<1> QED
  BY <1>1 DEF PlacedOp, ProcessCall

LEMMA OpGoes ==
  ASSUME ProcessShapes, NEW o \in Ops, NEW at \in OpPlaces
  PROVE  /\ Goto(o, at) => GoesTo(o, at)
         /\ \A pid \in 0..MaxPid :
              op' = [op EXCEPT ![o].at = at, ![o].pid = pid] => Takes(o, at, pid)
<1>1. PICK x : x = op[o]
  OBVIOUS
<1>2. x \in ProcessCall
  BY <1>1, OpBasics
<1>3. ASSUME Goto(o, at) PROVE GoesTo(o, at)
  <2>1. PICK y : y = [x EXCEPT !.at = at]
    OBVIOUS
  <2>2. y \in ProcessCall /\ y.at = at /\ y.pid = x.pid /\ y.kind = x.kind /\ y.seen = x.seen
    BY <1>2, <2>1 DEF ProcessCall
  <2>3. op' = [op EXCEPT ![o] = y]
    BY <1>1, <1>3, <2>1 DEF Goto
  <2> QED
    BY <1>1, <2>2, <2>3 DEF GoesTo, Becomes, StandsAt
<1>4. ASSUME NEW pid \in 0..MaxPid, op' = [op EXCEPT ![o].at = at, ![o].pid = pid]
      PROVE  Takes(o, at, pid)
  <2>1. PICK y : y = [x EXCEPT !.at = at, !.pid = pid]
    OBVIOUS
  <2>2. y \in ProcessCall /\ y.at = at /\ y.pid = pid /\ y.kind = x.kind /\ y.seen = x.seen
    BY <1>2, <2>1 DEF ProcessCall
  <2>3. op' = [op EXCEPT ![o] = y]
    BY <1>1, <1>4, <2>1 DEF ProcessShapes
  <2> QED
    BY <1>1, <2>2, <2>3 DEF Takes, Becomes, StandsAt
<1> QED
  BY <1>3, <1>4

LEMMA NoOpFits ==
  ASSUME ProcessAssumption
  PROVE  NoOp \in PlacedOp /\ NoOp.at = "idle" /\ OpFits(NoOp) /\ OpFits(NoOp)'
<1>1. NoOp.at = "idle" /\ NoOp.kind = "stop" /\ NoOp.pid = 0
  BY DEF NoOp, NoPid
<1>2. NoOp \in PlacedOp
  BY DEF ProcessAssumption, NoOp, PlacedOp, ProcessCall, Asked, OpPlaces, NoPid
<1> QED
  BY <1>1, <1>2 DEF OpFits

(* Where an operation may go to keep its type.                             *)
LEMMA GoesPlaced ==
  ASSUME ProcessShapes, NEW o \in Ops, NEW y, NEW at, NEW pid, Becomes(o, y), StandsAt(o, y, at, pid),
         \/ at \in {"signal", "wait", "unlink"} /\ op[o].kind \notin {"start", "reconcile"}
         \/ at \in {"spawn", "write"} /\ op[o].kind \in {"start", "restart", "reconcile"}
         \/ at = "save" /\ op[o].kind \notin {"remove", "reconcile"}
         \/ at = "delete" /\ op[o].kind = "remove"
  PROVE  op' \in [Ops -> PlacedOp] /\ op' \in [Ops -> ProcessCall]
<1>1. y \in PlacedOp
  BY DEF StandsAt, PlacedOp
<1>2. op' \in [Ops -> PlacedOp]
  BY <1>1 DEF Becomes, ProcessShapes
<1> QED
  BY <1>2 DEF PlacedOp

LEMMA Leaves ==
  ASSUME ProcessAssumption, ProcessShapes, NEW o \in Ops, Return(o)
  PROVE  op' \in [Ops -> PlacedOp] /\ op' \in [Ops -> ProcessCall] /\ Becomes(o, NoOp)
         /\ service' \in {service, "up"}
<1>1. op' \in [Ops -> PlacedOp] /\ Becomes(o, NoOp) /\ service' \in {service, "up"}
  BY NoOpFits DEF Return, ProcessShapes, Becomes
<1> QED
  BY <1>1 DEF PlacedOp

LEMMA ProcessShapesStep ==
  ASSUME ProcessAssumption, ProcessShapes, [ProcessNext]_processVars
  PROVE  ProcessShapes'
<1> DEFINE Counts == [calls : 0..MaxProcessCalls, exits : 0..MaxExits, downs : 0..MaxDowns,
                      fails : 0..MaxProcessFails]
           Ended(o) == op' \in [Ops -> PlacedOp] /\ op' \in [Ops -> ProcessCall]
<1>1. /\ process \in [Pids -> Process] /\ pidfile \in 0..EmptyFile
      /\ wanted \in {"Running", "Stopped"} /\ present \in BOOLEAN
      /\ service \in {"down", "recovering", "up"} /\ counts \in Counts
      /\ met \subseteq {"overlap", "unwritten", "unsaved"}
      /\ op \in [Ops -> PlacedOp] /\ op \in [Ops -> ProcessCall]
  BY DEF ProcessShapes, ProcessTypeOK
<1>2. ASSUME NEW o \in Ops, Return(o) PROVE Ended(o) /\ service' \in {"down", "recovering", "up"}
  BY <1>1, <1>2, Leaves
<1>3. ASSUME NEW o \in Ops, NEW at \in OpPlaces, Goto(o, at) \/ Return(o),
             \/ at \in {"signal", "wait", "unlink"} /\ op[o].kind \notin {"start", "reconcile"}
             \/ at \in {"spawn", "write"} /\ op[o].kind \in {"start", "restart", "reconcile"}
             \/ at = "save" /\ op[o].kind \notin {"remove", "reconcile"}
             \/ at = "delete" /\ op[o].kind = "remove"
      PROVE  Ended(o)
  <2>1. CASE Return(o)
    BY <1>2, <2>1
  <2>2. CASE Goto(o, at)
    <3>1. PICK y : Becomes(o, y) /\ StandsAt(o, y, at, op[o].pid)
      BY <2>2, OpGoes DEF GoesTo
    <3> QED
      BY <1>3, <3>1, GoesPlaced
  <2> QED
    BY <1>3, <2>1, <2>2
<1>4. ASSUME NEW o \in Ops, NEW pid \in 0..MaxPid, NEW at \in OpPlaces,
             op' = [op EXCEPT ![o].at = at, ![o].pid = pid],
             \/ at \in {"wait", "unlink"} /\ op[o].kind \notin {"start", "reconcile"}
             \/ at = "write" /\ op[o].kind \in {"start", "restart", "reconcile"}
      PROVE  Ended(o)
  <2>1. PICK y : Becomes(o, y) /\ StandsAt(o, y, at, pid)
    BY <1>4, OpGoes DEF Takes
  <2> QED
    BY <1>4, <2>1, GoesPlaced
<1>5. SystemFails \/ Happens \/ Downs => counts' \in Counts
  BY <1>1 DEF SystemFails, Happens, Downs, ProcessAssumption
<1>6. ASSUME NEW p PROVE Gone(p) \in [Pids -> Process]
  BY <1>1 DEF Gone, Process
<1>7. /\ NoPid \in 0..EmptyFile /\ EmptyFile \in 0..EmptyFile /\ 0..MaxPid \subseteq 0..EmptyFile
      /\ Pids \subseteq 0..MaxPid
  BY DEF ProcessAssumption, NoPid, EmptyFile, Pids
<1> HIDE DEF Counts, Ended
<1>8. ASSUME NEW o \in Ops, Look(o) PROVE ProcessShapes'
  <2>1. Ended(o)
    <3>1. op[o].at = "look" /\ {"save", "spawn", "signal"} \subseteq OpPlaces
      BY <1>8 DEF Look, OpPlaces
    <3>2. CASE op[o].kind = "start"
      BY <1>3, <1>8, <3>1, <3>2 DEF Look
    <3>3. CASE op[o].kind \in {"stop", "kill"}
      BY <1>3, <1>8, <3>1, <3>3 DEF Look
    <3>4. CASE op[o].kind = "reconcile"
      BY <1>2, <1>3, <1>8, <3>1, <3>4 DEF Look
    <3> QED
      BY <1>8, <3>2, <3>3, <3>4 DEF Look
  <2>2. service' \in {"down", "recovering", "up"}
    BY <1>1, <1>2, <1>8 DEF Look
  <2> QED
    BY <1>1, <1>8, <2>1, <2>2 DEF Look, ProcessShapes, ProcessTypeOK, Ended
<1>9. \A k : After(k) = (IF k = "restart" THEN "spawn" ELSE IF k = "remove" THEN "delete" ELSE "save")
  BY DEF After
<1>10. ASSUME NEW o \in Ops, Signal(o) PROVE ProcessShapes'
  <2>1. /\ op[o].at = "signal" /\ op[o].kind \notin {"start", "reconcile"}
        /\ {"save", "spawn", "delete", "unlink", "wait"} \subseteq OpPlaces
    BY <1>10, OpBasics DEF Signal, OpPlaces
  <2>2. Ended(o)
    <3>1. CASE Goto(o, After(op[o].kind))
      BY <1>3, <1>9, <2>1, <3>1
    <3>2. CASE pidfile \in Pids /\ \E at \in {"unlink", "wait"} :
                                     op' = [op EXCEPT ![o].at = at, ![o].pid = pidfile]
      BY <1>4, <1>7, <2>1, <3>2
    <3> QED
      BY <1>10, <3>1, <3>2 DEF Signal, Alive
  <2>3. process' \in [Pids -> Process]
    BY <1>1, <1>6, <1>10 DEF Signal
  <2> QED
    BY <1>1, <1>10, <2>2, <2>3 DEF Signal, ProcessShapes, ProcessTypeOK, Ended
<1>11. ASSUME NEW o \in Ops, WaitEnds(o) \/ WaitTimesOut(o) PROVE ProcessShapes'
  <2>1. op[o].at = "wait" /\ op[o].kind \notin {"start", "reconcile"} /\ Goto(o, "unlink")
    BY <1>11, OpBasics DEF WaitEnds, WaitTimesOut
  <2>2. Ended(o)
    BY <1>3, <2>1 DEF OpPlaces
  <2>3. process' \in [Pids -> Process]
    BY <1>1, <1>6, <1>11 DEF WaitEnds, WaitTimesOut
  <2> QED
    BY <1>1, <1>11, <2>2, <2>3 DEF WaitEnds, WaitTimesOut, ProcessShapes, ProcessTypeOK, Ended
<1>12. ASSUME NEW o \in Ops, Unlink(o) PROVE ProcessShapes'
  <2>1. /\ op[o].kind \notin {"start", "reconcile"} /\ Goto(o, After(op[o].kind))
        /\ {"save", "spawn", "delete"} \subseteq OpPlaces
    BY <1>12, OpBasics DEF Unlink, OpPlaces
  <2>2. Ended(o)
    BY <1>3, <1>9, <2>1
  <2> QED
    BY <1>1, <1>7, <1>12, <2>2 DEF Unlink, ProcessShapes, ProcessTypeOK, Ended
<1>13. ASSUME NEW o \in Ops, SpawnApp(o) PROVE ProcessShapes'
  <2>1. PICK p \in Pids :
          /\ process' = [process EXCEPT ![p] = IF op[o].ours THEN "child" ELSE "adopted"]
          /\ op' = [op EXCEPT ![o].at = "write", ![o].pid = p]
    BY <1>13 DEF SpawnApp
  <2>2. Ended(o)
    BY <1>4, <1>7, <1>13, <2>1, OpBasics DEF SpawnApp, OpPlaces
  <2>3. process' \in [Pids -> Process]
    BY <1>1, <2>1 DEF Process
  <2> QED
    BY <1>1, <1>13, <2>2, <2>3 DEF SpawnApp, ProcessShapes, ProcessTypeOK, Ended
<1>14. ASSUME NEW o \in Ops,
              SpawnFails(o) \/ Write(o) \/ WriteFails(o) \/ Save(o) \/ SavingFails(o) \/ Delete(o)
       PROVE  ProcessShapes'
  <2>1. Return(o) \/ (Write(o) /\ Goto(o, "save") /\ op[o].kind # "reconcile" /\ UNCHANGED service)
    BY <1>14 DEF SpawnFails, Write, WriteFails, Save, SavingFails, Delete
  <2>2. Ended(o)
    <3>1. CASE Return(o)
      BY <1>2, <3>1
    <3>2. CASE Write(o) /\ Goto(o, "save") /\ op[o].kind # "reconcile"
      <4>1. op[o].kind \in {"start", "restart", "reconcile"}
        BY <3>2, OpBasics DEF Write
      <4> QED
        BY <1>3, <3>2, <4>1 DEF OpPlaces
    <3> QED
      BY <2>1, <3>1, <3>2
  <2>3. service' \in {"down", "recovering", "up"}
    BY <1>1, <1>2, <2>1
  <2>4. pidfile' \in 0..EmptyFile
    <3>1. pidfile' \in {pidfile, op[o].pid, EmptyFile, NoPid}
      BY <1>14 DEF SpawnFails, Write, WriteFails, Save, SavingFails, Delete
    <3> QED
      BY <1>1, <1>7, <3>1, OpBasics
  <2>5. /\ counts' \in Counts /\ process' = process /\ met' \subseteq {"overlap", "unwritten", "unsaved"}
        /\ present' \in BOOLEAN /\ wanted' \in {"Running", "Stopped"}
    BY <1>1, <1>5, <1>14 DEF SpawnFails, Write, WriteFails, Save, SavingFails, Delete, Goal
  <2> QED
    BY <1>1, <2>2, <2>3, <2>4, <2>5 DEF ProcessShapes, ProcessTypeOK, Ended, Counts
<1>15. ASSUME NEW S \in SUBSET Ops, CutOff(S)
       PROVE  /\ op' \in [Ops -> PlacedOp] /\ op' \in [Ops -> ProcessCall]
              /\ met' \subseteq {"overlap", "unwritten", "unsaved"} /\ pidfile' \in 0..EmptyFile
  <2>1. op' \in [Ops -> PlacedOp] /\ NoOp \in ProcessCall
    BY <1>1, <1>15, NoOpFits DEF CutOff, PlacedOp
  <2>2. op' \in [Ops -> ProcessCall]
    BY <1>1, <1>15, <2>1 DEF CutOff
  <2> QED
    BY <1>1, <1>7, <1>15, <2>1, <2>2 DEF CutOff
<1>16. ASSUME NEW byUnit \in BOOLEAN, DaemonEnds(byUnit) PROVE ProcessShapes'
  <2>1. CutOff({o \in Ops : op[o].ours}) /\ {o \in Ops : op[o].ours} \in SUBSET Ops
    BY <1>16 DEF DaemonEnds
  <2>2. process' \in [Pids -> Process]
    BY <1>1, <1>16 DEF DaemonEnds, Process
  <2>3. /\ op' \in [Ops -> PlacedOp] /\ op' \in [Ops -> ProcessCall]
        /\ met' \subseteq {"overlap", "unwritten", "unsaved"} /\ pidfile' \in 0..EmptyFile
    BY <1>15, <2>1
  <2> QED
    BY <1>1, <1>5, <1>16, <2>2, <2>3 DEF DaemonEnds, ProcessShapes, ProcessTypeOK, Counts
<1>17. CASE Reboot
  <2>1. process' \in [Pids -> Process]
    BY <1>17 DEF Reboot, Process
  <2>2. /\ op' \in [Ops -> PlacedOp] /\ op' \in [Ops -> ProcessCall]
        /\ met' \subseteq {"overlap", "unwritten", "unsaved"} /\ pidfile' \in 0..EmptyFile
    BY <1>15, <1>17 DEF Reboot
  <2> QED
    BY <1>1, <1>5, <1>17, <2>1, <2>2 DEF Reboot, ProcessShapes, ProcessTypeOK, Counts
<1>18. ASSUME NEW o \in Ops, CommandEnds(o) PROVE ProcessShapes'
  <2>1. /\ op' \in [Ops -> PlacedOp] /\ op' \in [Ops -> ProcessCall]
        /\ met' \subseteq {"overlap", "unwritten", "unsaved"} /\ pidfile' \in 0..EmptyFile
    BY <1>15, <1>18 DEF CommandEnds
  <2> QED
    BY <1>1, <1>5, <1>18, <2>1 DEF CommandEnds, ProcessShapes, ProcessTypeOK, Counts
<1>19. ASSUME NEW o \in Ops, NEW kind \in Asked \union {"reconcile"}, NEW ours \in BOOLEAN, NEW at,
              at = IF kind \in {"restart", "remove"} THEN "signal" ELSE "look",
              op' = [op EXCEPT ![o] = [kind |-> kind, at |-> at, ours |-> ours, seen |-> wanted,
                                       pid |-> NoPid]]
       PROVE  op' \in [Ops -> PlacedOp] /\ op' \in [Ops -> ProcessCall]
  <2>1. [kind |-> kind, at |-> at, ours |-> ours, seen |-> wanted, pid |-> NoPid] \in PlacedOp
    BY <1>1, <1>19 DEF PlacedOp, ProcessCall, OpPlaces, NoPid, ProcessAssumption
  <2>2. PICK y \in PlacedOp : op' = [op EXCEPT ![o] = y]
    BY <1>19, <2>1
  <2>3. y \in ProcessCall
    BY DEF PlacedOp
  <2> QED
    BY <1>1, <2>2, <2>3
<1>20. ASSUME NEW o \in Ops, NEW kind \in Asked, BeginCall(o, kind) PROVE ProcessShapes'
  <2>1. op' \in [Ops -> PlacedOp] /\ op' \in [Ops -> ProcessCall]
    BY <1>19, <1>20 DEF BeginCall
  <2>2. counts' \in Counts /\ met' \subseteq {"overlap", "unwritten", "unsaved"}
    BY <1>1, <1>20 DEF BeginCall, Note, Counts, ProcessAssumption
  <2> QED
    BY <1>1, <1>20, <2>1, <2>2 DEF BeginCall, ProcessShapes, ProcessTypeOK, Counts
<1>21. ASSUME NEW o \in Ops, DaemonStarts(o) PROVE ProcessShapes'
  <2>1. op' \in [Ops -> PlacedOp] /\ op' \in [Ops -> ProcessCall]
    BY <1>1, <1>19, <1>21 DEF DaemonStarts
  <2>2. service' \in {"down", "recovering", "up"} /\ met' \subseteq {"overlap", "unwritten", "unsaved"}
    BY <1>1, <1>21 DEF DaemonStarts, Note
  <2> QED
    BY <1>1, <1>21, <2>1, <2>2 DEF DaemonStarts, ProcessShapes, ProcessTypeOK, Counts
<1>22. ASSUME NEW p \in Pids, Exit(p) \/ Reuse(p) PROVE ProcessShapes'
  <2>1. process' \in [Pids -> Process]
    BY <1>1, <1>6, <1>22 DEF Exit, Reuse, Process
  <2> QED
    BY <1>1, <1>5, <1>22, <2>1 DEF Exit, Reuse, ProcessShapes, ProcessTypeOK, Counts
<1>23. CASE UNCHANGED processVars
  BY <1>1, <1>23 DEF processVars, ProcessShapes, ProcessTypeOK, Counts
<1> QED
  BY <1>8, <1>10, <1>11, <1>12, <1>13, <1>14, <1>16, <1>17, <1>18, <1>20, <1>21, <1>22, <1>23
     DEF ProcessNext, ThreadStep

-----------------------------------------------------------------------------
(* An operation that is at work goes on or ends, and with the others, when *)
(* there are any, only stops and kills are at work.                        *)
LEMMA OneGoesOn ==
  ASSUME ProcessInv, ProcessShapes', NEW o \in Ops, NEW y, Becomes(o, y), op[o].at # "idle",
         y.at = "idle" \/ y.kind = op[o].kind,
         met \subseteq met',
         Undisturbed /\ Unmixed /\ Traced /\ OpFits(op[o]) =>
           /\ OpFits(y)' /\ Traced'
           /\ op[o].kind \in {"stop", "kill"} =>
                Live' \subseteq Live /\ wanted' \in {wanted, "Stopped"} /\ (present => present')
  PROVE  Undisturbed' => Unmixed' /\ Traced' /\ OpsFit'
<1> SUFFICES ASSUME Undisturbed' PROVE Unmixed' /\ Traced' /\ OpsFit'
  OBVIOUS
<1>1. Undisturbed /\ Unmixed /\ Traced /\ OpsFit
  BY DEF Undisturbed, ProcessInv
<1>2. op'[o] = y /\ \A q \in Ops \ {o} : op'[q] = op[q]
  BY DEF Becomes, ProcessInv, ProcessShapes
<1>3. /\ Traced' /\ OpFits(y)'
      /\ op[o].kind \in {"stop", "kill"} =>
           Live' \subseteq Live /\ wanted' \in {wanted, "Stopped"} /\ (present => present')
  BY <1>1 DEF OpsFit
<1>4. ASSUME NEW q \in Ops \ {o} PROVE OpFits(op[q])'
  <2>1. PICK x : x = op[q]
    OBVIOUS
  <2>2. OpFits(x)
    BY <1>1, <2>1 DEF OpsFit
  <2>3. x.at # "idle" => {op[o].kind, x.kind} \subseteq {"stop", "kill"}
    BY <1>1, <2>1 DEF Unmixed
  <2>4. x.at \in {"spawn", "write"} => x.kind \in {"start", "restart", "reconcile"}
    BY <2>1, OpBasics DEF ProcessInv
  <2>5. OpFits(x)'
    BY <1>3, <2>2, <2>3, <2>4 DEF OpFits
  <2> QED
    BY <1>2, <2>1, <2>5
<1>5. OpsFit'
  BY <1>2, <1>3, <1>4 DEF OpsFit
<1>6. Unmixed'
  BY <1>1, <1>2 DEF Unmixed
<1> QED
  BY <1>3, <1>5, <1>6

(* The app stays meant while nothing of what was meant changes.            *)
LEMMA StaysMeant ==
  ASSUME ProcessInv, NEW o \in Ops, NEW y, Becomes(o, y), met \subseteq met',
         Live' \subseteq Live, UNCHANGED <<wanted, present>>,
         op[o].at \in {"write", "save"} /\ op[o].kind \in {"start", "restart"} =>
           y.at \in {"write", "save"} /\ y.kind = op[o].kind
  PROVE  met' = {} => Meant'
<1> SUFFICES ASSUME met' = {}, Live' # {} PROVE Meant'
  BY DEF Meant
<1>1. Live # {} /\ Meant
  BY DEF ProcessInv
<1>2. op'[o] = y /\ \A q \in Ops \ {o} : op'[q] = op[q]
  BY DEF Becomes, ProcessInv, ProcessShapes
<1> QED
  BY <1>1, <1>2 DEF Meant

LEMMA LiveFacts ==
  ASSUME ProcessShapes
  PROVE  /\ Live \subseteq Pids
         /\ UNCHANGED process => Live' = Live
         /\ \A p : process' = Gone(p) => Live' \subseteq Live \ {p}
         /\ Live # {} /\ Traced /\ (\A o \in Ops : op[o].at # "write") =>
              pidfile \in Pids /\ Alive(pidfile) /\ Live = {pidfile}
<1>1. Live \subseteq Pids
  BY DEF Live
<1>2. UNCHANGED process => Live' = Live
  BY DEF Live
<1>3. ASSUME NEW p, process' = Gone(p) PROVE Live' \subseteq Live \ {p}
  BY <1>3 DEF Gone, Live, ProcessShapes, ProcessTypeOK
<1>4. ASSUME Live # {}, Traced, \A o \in Ops : op[o].at # "write"
      PROVE  pidfile \in Pids /\ Alive(pidfile) /\ Live = {pidfile}
  <2>1. \A p \in Live : pidfile = p
    BY <1>4 DEF Traced
  <2>2. pidfile \in Live /\ Live = {pidfile}
    BY <1>4, <2>1
  <2>3. Alive(pidfile)
    BY <2>2 DEF Live, Alive
  <2> QED
    BY <1>1, <2>2, <2>3
<1> QED
  BY <1>1, <1>2, <1>3, <1>4

(* Beside an operation that is at work no start is, unless it is that one. *)
LEMMA NobodyWrites ==
  ASSUME ProcessInv, Undisturbed, NEW o \in Ops, op[o].at \notin {"idle", "write"}
  PROVE  \A q \in Ops : op[q].at # "write"
<1> SUFFICES ASSUME NEW q \in Ops, op[q].at = "write" PROVE FALSE
  OBVIOUS
<1>1. op[q].kind \in {"start", "restart", "reconcile"} /\ q # o
  BY OpBasics DEF ProcessInv
<1>2. {op[o].kind, op[q].kind} \subseteq {"stop", "kill"}
  BY <1>1 DEF ProcessInv, Unmixed
<1> QED
  BY <1>1, <1>2

LEMMA LookKeeps ==
  ASSUME ProcessAssumption, ProcessInv, ProcessShapes', NEW o \in Ops, Look(o)
  PROVE  ProcessInv'
<1>1. /\ UNCHANGED <<process, pidfile, wanted, present, met>> /\ op[o].at = "look"
      /\ op[o].kind \notin {"restart", "remove"}
  BY OpBasics DEF Look, ProcessInv
<1>2. Live' = Live
  BY <1>1, LiveFacts DEF ProcessInv
<1>3. PICK y : /\ Becomes(o, y)
               /\ \/ y = NoOp /\ op[o].kind = "reconcile"
                  \/ /\ StandsAt(o, y, "save", op[o].pid) /\ op[o].kind \in {"stop", "kill"}
                     /\ ~Alive(pidfile)
                  \/ StandsAt(o, y, "save", op[o].pid) /\ op[o].kind = "start"
                  \/ StandsAt(o, y, "signal", op[o].pid) /\ op[o].kind \in {"stop", "kill"}
                  \/ /\ StandsAt(o, y, "spawn", op[o].pid) /\ ~Alive(pidfile)
                     /\ op[o].kind \in {"start", "reconcile"}
                     /\ op[o].kind = "reconcile" => op[o].seen # "Stopped"
  <2>1. {"save", "spawn", "signal"} \subseteq OpPlaces
    BY DEF OpPlaces
  <2>2. CASE Return(o) /\ op[o].kind = "reconcile"
    BY <2>2, Leaves DEF ProcessInv
  <2>3. ASSUME NEW at \in {"save", "spawn", "signal"}, Goto(o, at)
        PROVE  \E y : Becomes(o, y) /\ StandsAt(o, y, at, op[o].pid)
    BY <2>1, <2>3, OpGoes DEF GoesTo, ProcessInv
  <2>4. CASE op[o].kind = "start"
    <3>1. Goto(o, IF Alive(pidfile) THEN "save" ELSE "spawn")
      BY <2>4 DEF Look
    <3> QED
      BY <2>3, <2>4, <3>1
  <2>5. CASE op[o].kind \in {"stop", "kill"}
    <3>1. Goto(o, IF Alive(pidfile) THEN "signal" ELSE "save")
      BY <2>5 DEF Look
    <3> QED
      BY <2>3, <2>5, <3>1
  <2>6. CASE op[o].kind = "reconcile"
    <3>1. Return(o) \/ (~Alive(pidfile) /\ op[o].seen # "Stopped" /\ Goto(o, "spawn"))
      BY <2>6 DEF Look
    <3> QED
      BY <2>2, <2>3, <2>6, <3>1
  <2> QED
    BY <2>4, <2>5, <2>6 DEF Look
<1>4. y.at = "idle" \/ y.kind = op[o].kind
  BY <1>3, NoOpFits DEF StandsAt
<1>5. ASSUME Undisturbed, Unmixed, Traced, OpFits(op[o]) PROVE OpFits(y)' /\ Traced'
  <2>1. \A q \in Ops : op[q].at # "write"
    BY <1>1, <1>5, NobodyWrites
  <2>2. ~Alive(pidfile) => Live = {}
    BY <1>5, <2>1, LiveFacts DEF ProcessInv
  <2>3. Traced'
    BY <1>1, <1>2, <1>5, <2>1 DEF Traced
  <2>4. CASE y = NoOp
    BY <2>3, <2>4, NoOpFits
  <2>5. CASE y # NoOp
    <3>1. y.kind = op[o].kind /\ y.seen = op[o].seen /\ y.at \in {"save", "signal", "spawn"}
      BY <1>3, <2>5 DEF StandsAt
    <3>2. /\ y.at = "spawn" => Live = {} /\ (y.kind = "reconcile" => y.seen = "Running")
          /\ y.at = "save" /\ y.kind \in {"stop", "kill"} => Live = {}
      <4>1. op[o].seen \in {"Running", "Stopped"}
        <5>1. op[o] \in ProcessCall
          BY OpBasics DEF ProcessInv
        <5> QED
          BY <5>1 DEF ProcessCall
      <4> QED
        BY <1>3, <2>2, <2>5, <4>1 DEF StandsAt
    <3> QED
      BY <1>1, <1>2, <1>5, <2>3, <3>1, <3>2 DEF OpFits
  <2> QED
    BY <2>4, <2>5
<1>6. Undisturbed' => Unmixed' /\ Traced' /\ OpsFit'
  BY <1>1, <1>2, <1>3, <1>4, <1>5, OneGoesOn
<1>7. met' = {} => Meant'
  BY <1>1, <1>2, <1>3, StaysMeant
<1> QED
  BY <1>6, <1>7 DEF ProcessInv

LEMMA Signaled ==
  ASSUME ProcessAssumption, ProcessInv, NEW o \in Ops, Signal(o)
  PROVE  \E y :
    /\ Becomes(o, y)
    /\ \/ /\ StandsAt(o, y, After(op[o].kind), op[o].pid) /\ pidfile \notin Pids /\ UNCHANGED process
       \/ StandsAt(o, y, "unlink", pidfile) /\ ~Alive(pidfile) /\ UNCHANGED process
       \/ StandsAt(o, y, "unlink", pidfile) /\ process' = Gone(pidfile)
       \/ StandsAt(o, y, "wait", pidfile) /\ UNCHANGED process
<1>1. {"save", "spawn", "delete", "unlink", "wait"} \subseteq OpPlaces
  BY DEF OpPlaces
<1>2. Pids \subseteq 0..MaxPid /\ ProcessShapes
  BY DEF Pids, ProcessAssumption, ProcessInv
<1>3. ASSUME Goto(o, After(op[o].kind))
      PROVE  \E y : Becomes(o, y) /\ StandsAt(o, y, After(op[o].kind), op[o].pid)
  <2>1. After(op[o].kind) \in OpPlaces
    BY <1>1 DEF After
  <2> QED
    BY <1>2, <1>3, <2>1, OpGoes DEF GoesTo
<1>4. ASSUME NEW at \in {"unlink", "wait"}, pidfile \in Pids,
             op' = [op EXCEPT ![o].at = at, ![o].pid = pidfile]
      PROVE  \E y : Becomes(o, y) /\ StandsAt(o, y, at, pidfile)
  <2>1. PICK pid \in Pids : pid = pidfile
    BY <1>4
  <2> QED
    BY <1>1, <1>2, <1>4, <2>1, OpGoes DEF Takes
<1> QED
  BY <1>3, <1>4 DEF Signal, Alive

LEMMA SignalKeeps ==
  ASSUME ProcessAssumption, ProcessInv, ProcessShapes', NEW o \in Ops, Signal(o)
  PROVE  ProcessInv'
<1>1. /\ UNCHANGED <<pidfile, wanted, present, met>> /\ op[o].at = "signal"
      /\ op[o].kind \notin {"start", "reconcile"}
  BY OpBasics DEF Signal, ProcessInv
<1>2. PICK y :
    /\ Becomes(o, y)
    /\ \/ /\ StandsAt(o, y, After(op[o].kind), op[o].pid) /\ pidfile \notin Pids /\ UNCHANGED process
       \/ StandsAt(o, y, "unlink", pidfile) /\ ~Alive(pidfile) /\ UNCHANGED process
       \/ StandsAt(o, y, "unlink", pidfile) /\ process' = Gone(pidfile)
       \/ StandsAt(o, y, "wait", pidfile) /\ UNCHANGED process
  BY Signaled
<1>3. Live' \subseteq Live /\ (process' = Gone(pidfile) => Live' \subseteq Live \ {pidfile})
  BY <1>2, LiveFacts DEF ProcessInv
<1>4. /\ y.kind = op[o].kind /\ y.seen = op[o].seen
      /\ y.at \in {"save", "spawn", "delete", "unlink", "wait"}
  BY <1>2 DEF StandsAt, After
<1>5. ASSUME Undisturbed, Unmixed, Traced, OpFits(op[o]) PROVE OpFits(y)' /\ Traced'
  <2>1. \A q \in Ops : op[q].at # "write"
    BY <1>1, <1>5, NobodyWrites
  <2>2. Live \subseteq {pidfile} /\ (Live # {} => pidfile \in Pids /\ Alive(pidfile))
    BY <1>5, <2>1, LiveFacts DEF ProcessInv
  <2>3. Traced'
    BY <1>1, <1>3, <2>2 DEF Traced
  <2>4. y.at # "wait" => Live' = {}
    BY <1>2, <1>3, <2>2 DEF StandsAt
  <2>5. y.at = "wait" => Live' \subseteq {y.pid}
    BY <1>2, <1>3, <2>2, <1>4 DEF StandsAt, After
  <2> QED
    BY <1>1, <1>4, <1>5, <2>3, <2>4, <2>5 DEF OpFits
<1>6. Undisturbed' => Unmixed' /\ Traced' /\ OpsFit'
  BY <1>1, <1>2, <1>3, <1>4, <1>5, OneGoesOn
<1>7. met' = {} => Meant'
  BY <1>1, <1>2, <1>3, StaysMeant
<1> QED
  BY <1>6, <1>7 DEF ProcessInv

LEMMA WaitKeeps ==
  ASSUME ProcessAssumption, ProcessInv, ProcessShapes', NEW o \in Ops, WaitEnds(o) \/ WaitTimesOut(o)
  PROVE  ProcessInv'
<1>1. /\ UNCHANGED <<pidfile, wanted, present, met>> /\ op[o].at = "wait"
      /\ op[o].kind \notin {"start", "reconcile"} /\ Goto(o, "unlink")
  BY OpBasics DEF WaitEnds, WaitTimesOut, ProcessInv
<1>2. PICK y : Becomes(o, y) /\ StandsAt(o, y, "unlink", op[o].pid)
  BY <1>1, OpGoes DEF GoesTo, OpPlaces, ProcessInv
<1>3. Live' \subseteq Live /\ op[o].pid \notin Live'
  <2>1. CASE WaitEnds(o)
    BY <2>1, LiveFacts DEF WaitEnds, ProcessInv, Alive, Live
  <2>2. CASE WaitTimesOut(o)
    BY <2>2, LiveFacts DEF WaitTimesOut, ProcessInv
  <2> QED
    BY <2>1, <2>2
<1>4. y.kind = op[o].kind /\ y.seen = op[o].seen /\ y.at = "unlink"
  BY <1>2 DEF StandsAt
<1>5. ASSUME Undisturbed, Unmixed, Traced, OpFits(op[o]) PROVE OpFits(y)' /\ Traced'
  <2>1. Live' = {}
    BY <1>1, <1>3, <1>5 DEF OpFits
  <2> QED
    BY <1>1, <1>4, <1>5, <2>1 DEF OpFits, Traced
<1>6. Undisturbed' => Unmixed' /\ Traced' /\ OpsFit'
  BY <1>1, <1>2, <1>3, <1>4, <1>5, OneGoesOn
<1>7. met' = {} => Meant'
  BY <1>1, <1>2, <1>3, StaysMeant
<1> QED
  BY <1>6, <1>7 DEF ProcessInv

LEMMA UnlinkKeeps ==
  ASSUME ProcessAssumption, ProcessInv, ProcessShapes', NEW o \in Ops, Unlink(o)
  PROVE  ProcessInv'
<1>1. /\ UNCHANGED <<process, wanted, present, met>> /\ op[o].at = "unlink"
      /\ op[o].kind \notin {"start", "reconcile"} /\ Goto(o, After(op[o].kind))
  BY OpBasics DEF Unlink, ProcessInv
<1>2. PICK y : Becomes(o, y) /\ StandsAt(o, y, After(op[o].kind), op[o].pid)
  <2>1. After(op[o].kind) \in OpPlaces
    BY DEF After, OpPlaces
  <2> QED
    BY <1>1, <2>1, OpGoes DEF GoesTo, ProcessInv
<1>3. Live' = Live
  BY <1>1, LiveFacts DEF ProcessInv
<1>4. y.kind = op[o].kind /\ y.seen = op[o].seen /\ y.at \in {"save", "spawn", "delete"}
  BY <1>2 DEF StandsAt, After
<1>5. ASSUME Undisturbed, Unmixed, Traced, OpFits(op[o]) PROVE OpFits(y)' /\ Traced'
  <2>1. Live' = {}
    BY <1>1, <1>3, <1>5 DEF OpFits
  <2>2. y.kind # "reconcile"
    BY <1>1, <1>4
  <2> QED
    BY <1>1, <1>4, <1>5, <2>1, <2>2 DEF OpFits, Traced
<1>6. Undisturbed' => Unmixed' /\ Traced' /\ OpsFit'
  BY <1>1, <1>2, <1>3, <1>4, <1>5, OneGoesOn
<1>7. met' = {} => Meant'
  BY <1>1, <1>2, <1>3, StaysMeant
<1> QED
  BY <1>6, <1>7 DEF ProcessInv

LEMMA SpawnKeeps ==
  ASSUME ProcessAssumption, ProcessInv, ProcessShapes', NEW o \in Ops, SpawnApp(o)
  PROVE  ProcessInv'
<1>1. PICK p \in Pids :
        /\ process' = [process EXCEPT ![p] = IF op[o].ours THEN "child" ELSE "adopted"]
        /\ op' = [op EXCEPT ![o].at = "write", ![o].pid = p]
  BY DEF SpawnApp
<1>2. /\ UNCHANGED <<pidfile, wanted, present, met>> /\ op[o].at = "spawn"
      /\ op[o].kind \in {"start", "restart", "reconcile"}
  BY OpBasics DEF SpawnApp, ProcessInv
<1>3. PICK y : Becomes(o, y) /\ StandsAt(o, y, "write", p)
  <2>1. p \in 0..MaxPid /\ "write" \in OpPlaces /\ ProcessShapes
    BY DEF ProcessAssumption, ProcessInv, Pids, OpPlaces
  <2>2. Takes(o, "write", p)
    BY <1>1, <2>1, OpGoes
  <2> QED
    BY <2>2 DEF Takes
<1>4. Live' \subseteq Live \union {p}
  BY <1>1 DEF Live, ProcessInv, ProcessShapes, ProcessTypeOK
<1>5. y.kind = op[o].kind /\ y.seen = op[o].seen /\ y.at = "write" /\ y.pid = p
  BY <1>3 DEF StandsAt
<1>6. op'[o] = y
  BY <1>3 DEF Becomes, ProcessInv, ProcessShapes
<1>7. ASSUME Undisturbed, Unmixed, Traced, OpFits(op[o]) PROVE OpFits(y)' /\ Traced'
  <2>1. Live' \subseteq {p}
    BY <1>2, <1>4, <1>7 DEF OpFits
  <2> QED
    BY <1>2, <1>5, <1>6, <1>7, <2>1 DEF OpFits, Traced
<1>8. Undisturbed' => Unmixed' /\ Traced' /\ OpsFit'
  BY <1>2, <1>3, <1>5, <1>7, OneGoesOn
<1>9. met' = {} => Meant'
  <2> SUFFICES ASSUME met' = {} PROVE Meant'
    OBVIOUS
  <2>1. Undisturbed /\ OpFits(op[o])
    BY <1>2 DEF ProcessInv, Undisturbed, OpsFit
  <2>2. CASE op[o].kind = "reconcile"
    BY <1>2, <2>1, <2>2 DEF OpFits, Meant
  <2>3. CASE op[o].kind \in {"start", "restart"}
    BY <1>5, <1>6, <2>3 DEF Meant
  <2> QED
    BY <1>2, <2>2, <2>3
<1> QED
  BY <1>8, <1>9 DEF ProcessInv

LEMMA PidWriteKeeps ==
  ASSUME ProcessAssumption, ProcessInv, ProcessShapes', NEW o \in Ops, Write(o)
  PROVE  ProcessInv'
<1>1. /\ UNCHANGED <<process, wanted, present, met>> /\ op[o].at = "write"
      /\ op[o].kind \in {"start", "restart", "reconcile"} /\ pidfile' = op[o].pid
  BY OpBasics DEF Write, ProcessInv
<1>2. PICK y : /\ Becomes(o, y)
               /\ IF op[o].kind = "reconcile" THEN y = NoOp ELSE StandsAt(o, y, "save", op[o].pid)
  <2>1. CASE op[o].kind = "reconcile"
    BY <2>1, Leaves DEF Write, ProcessInv
  <2>2. CASE op[o].kind # "reconcile"
    BY <2>2, OpGoes DEF Write, GoesTo, OpPlaces, ProcessInv
  <2> QED
    BY <2>1, <2>2
<1>3. Live' = Live
  BY <1>1, LiveFacts DEF ProcessInv
<1>4. /\ y.at = "idle" \/ (y.kind = op[o].kind /\ y.seen = op[o].seen /\ y.at = "save")
      /\ y.at = "idle" <=> op[o].kind = "reconcile"
  BY <1>1, <1>2, NoOpFits DEF StandsAt
<1>5. ASSUME Undisturbed, Unmixed, Traced, OpFits(op[o]) PROVE OpFits(y)' /\ Traced'
  <2>1. Live \subseteq {op[o].pid}
    BY <1>1, <1>5 DEF OpFits
  <2> QED
    BY <1>1, <1>3, <1>4, <1>5, <2>1 DEF OpFits, Traced
<1>6. Undisturbed' => Unmixed' /\ Traced' /\ OpsFit'
  BY <1>1, <1>2, <1>4, <1>5, OneGoesOn
<1>7. met' = {} => Meant'
  <2> SUFFICES ASSUME met' = {} PROVE Meant'
    OBVIOUS
  <2>1. Undisturbed /\ OpFits(op[o])
    BY <1>1 DEF ProcessInv, Undisturbed, OpsFit
  <2>2. CASE op[o].kind = "reconcile"
    BY <1>1, <2>1, <2>2 DEF OpFits, Meant
  <2>3. CASE op[o].kind # "reconcile"
    BY <1>1, <1>2, <1>3, <1>4, <2>3, StaysMeant
  <2> QED
    BY <2>2, <2>3
<1> QED
  BY <1>6, <1>7 DEF ProcessInv

(* The ends of an operation.                                               *)
LEMMA EndKeeps ==
  ASSUME ProcessAssumption, ProcessInv, ProcessShapes', NEW o \in Ops,
         SpawnFails(o) \/ WriteFails(o) \/ Save(o) \/ SavingFails(o) \/ Delete(o)
  PROVE  ProcessInv'
<1>1. Becomes(o, NoOp) /\ process' = process /\ met \subseteq met' /\ op[o].at # "idle"
  BY Leaves DEF SpawnFails, WriteFails, Save, SavingFails, Delete, ProcessInv
<1>2. Live' = Live
  BY <1>1, LiveFacts DEF ProcessInv
<1>3. CASE WriteFails(o)
  BY <1>3 DEF WriteFails, ProcessInv, Undisturbed
<1>4. CASE ~WriteFails(o)
  <2>1. op[o].at \in {"spawn", "save", "delete"}
    BY <1>4 DEF SpawnFails, Save, SavingFails, Delete
  <2>2. op[o].at \in {"spawn", "delete"} \/ UNCHANGED pidfile
    BY <1>4 DEF SpawnFails, Save, SavingFails, Delete
  <2>3. op[o].kind \in {"stop", "kill"} => wanted' \in {wanted, "Stopped"} /\ (present => present')
    BY <1>4, OpBasics DEF SpawnFails, Save, SavingFails, Delete, Goal, ProcessInv
  <2>4. ASSUME Undisturbed, Unmixed, Traced, OpFits(op[o])
        PROVE  /\ OpFits(NoOp)' /\ Traced'
               /\ op[o].kind \in {"stop", "kill"} =>
                    Live' \subseteq Live /\ wanted' \in {wanted, "Stopped"} /\ (present => present')
    <3>1. \A q \in Ops : op[q].at # "write"
      BY <2>1, <2>4, NobodyWrites
    <3>2. op[o].at \in {"spawn", "delete"} => Live = {}
      BY <2>4 DEF OpFits
    <3>3. Traced'
      BY <1>2, <2>2, <2>4, <3>1, <3>2 DEF Traced
    <3> QED
      BY <1>2, <2>3, <3>3, NoOpFits
  <2>5. Undisturbed' => Unmixed' /\ Traced' /\ OpsFit'
    BY <1>1, <2>4, NoOpFits, OneGoesOn
  <2>6. met' = {} => Meant'
    <3> SUFFICES ASSUME met' = {}, Live # {} PROVE wanted' = "Running" /\ present'
      BY <1>2 DEF Meant
    <3>1. Undisturbed /\ OpFits(op[o])
      BY <1>1 DEF ProcessInv, Undisturbed, OpsFit
    <3>2. op[o].at = "save" /\ op[o].kind \notin {"stop", "kill"}
      BY <2>1, <3>1 DEF OpFits
    <3>3. op[o].kind \in {"start", "restart"}
      BY <3>2, OpBasics DEF ProcessInv, Asked
    <3>4. Save(o)
      BY <1>4, <3>2 DEF SpawnFails, SavingFails, Delete
    <3>5. present /\ op[o].seen = wanted
      BY <3>1, <3>2 DEF OpFits
    <3> QED
      BY <3>3, <3>4, <3>5 DEF Save, Goal
  <2> QED
    BY <2>5, <2>6 DEF ProcessInv
<1> QED
  BY <1>3, <1>4

(* Operations that are cut off, and processes that end.                    *)
LEMMA LessKeeps ==
  ASSUME ProcessAssumption, ProcessInv, ProcessShapes', UNCHANGED <<wanted, present>>,
         Live' \subseteq Live, met \subseteq met',
         \A q \in Ops : op'[q] = op[q] \/ op'[q] = NoOp,
         \A q \in Ops : op[q].at = "idle" \/ op'[q] = op[q]
                        \/ ("unsaved" \in met' /\ (op[q].at = "write" => "unwritten" \in met')),
         pidfile' = pidfile \/ "unwritten" \in met'
  PROVE  ProcessInv'
<1>1. ASSUME Undisturbed' PROVE Unmixed' /\ Traced' /\ OpsFit'
  <2>1. Undisturbed /\ Unmixed /\ Traced /\ OpsFit /\ pidfile' = pidfile
    BY <1>1 DEF Undisturbed, ProcessInv
  <2>2. Unmixed'
    BY <2>1, NoOpFits DEF Unmixed
  <2>3. Traced'
    <3>1. \A q \in Ops : op[q].at = "write" => op'[q] = op[q]
      BY <1>1 DEF Undisturbed
    <3> QED
      BY <2>1, <3>1 DEF Traced
  <2>4. OpsFit'
    <3>1. ASSUME NEW q \in Ops PROVE OpFits(op[q])'
      <4>1. PICK x : x = op[q]
        OBVIOUS
      <4>2. OpFits(x)'
        BY <2>1, <4>1 DEF OpsFit, OpFits
      <4> QED
        BY <4>1, <4>2, NoOpFits
    <3> QED
      BY <3>1 DEF OpsFit
  <2> QED
    BY <2>2, <2>3, <2>4
<1>2. ASSUME met' = {} PROVE Meant'
  <2>1. Meant /\ \A q \in Ops : op[q].at # "idle" => op'[q] = op[q]
    BY <1>2 DEF ProcessInv
  <2> QED
    BY <2>1 DEF Meant
<1> QED
  BY <1>1, <1>2 DEF ProcessInv

(* A call, or the recovery of a daemon that starts.                        *)
LEMMA NewOpKeeps ==
  ASSUME ProcessAssumption, ProcessInv, ProcessShapes', NEW o \in Ops, NEW y, Becomes(o, y),
         op[o].at = "idle", present, y.at \in {"look", "signal"}, y.seen = wanted, Note(y.kind),
         UNCHANGED <<process, pidfile, wanted, present>>
  PROVE  ProcessInv'
<1>1. op'[o] = y /\ \A q \in Ops \ {o} : op'[q] = op[q]
  BY DEF Becomes, ProcessInv, ProcessShapes
<1>2. Live' = Live /\ met \subseteq met'
  BY LiveFacts DEF Note, ProcessInv
<1>3. ASSUME Undisturbed' PROVE Unmixed' /\ Traced' /\ OpsFit'
  <2>1. Undisturbed /\ Unmixed /\ Traced /\ OpsFit
    BY <1>2, <1>3 DEF Undisturbed, ProcessInv
  <2>2. \A q \in Ops : op[q].at # "idle" => {y.kind, op[q].kind} \subseteq {"stop", "kill"}
    BY <1>3 DEF Undisturbed, Note, Overlaps
  <2>3. Unmixed'
    BY <1>1, <2>1, <2>2 DEF Unmixed
  <2>4. Traced'
    BY <1>1, <1>2, <2>1 DEF Traced
  <2>5. OpsFit'
    <3>1. OpFits(y)'
      BY <1>2 DEF OpFits
    <3>2. ASSUME NEW q \in Ops \ {o} PROVE OpFits(op[q])'
      <4>1. PICK x : x = op[q]
        OBVIOUS
      <4>2. OpFits(x)'
        BY <1>2, <2>1, <4>1 DEF OpsFit, OpFits
      <4> QED
        BY <1>1, <4>1, <4>2
    <3> QED
      BY <1>1, <3>1, <3>2 DEF OpsFit
  <2> QED
    BY <2>3, <2>4, <2>5
<1>4. ASSUME met' = {} PROVE Meant'
  <2>1. Meant
    BY <1>2, <1>4 DEF ProcessInv
  <2> QED
    BY <1>1, <1>2, <2>1 DEF Meant
<1> QED
  BY <1>3, <1>4 DEF ProcessInv

LEMMA ProcessInvStep ==
  ASSUME ProcessAssumption, ProcessInv, [ProcessNext]_processVars
  PROVE  ProcessInv'
<1>1. ProcessShapes' /\ ProcessShapes
  BY ProcessShapesStep DEF ProcessInv
<1>2. ASSUME NEW o \in Ops, ThreadStep(o) PROVE ProcessInv'
  BY <1>1, <1>2, LookKeeps, SignalKeeps, WaitKeeps, UnlinkKeeps, SpawnKeeps, PidWriteKeeps, EndKeeps
     DEF ThreadStep
<1>3. ASSUME NEW S \in SUBSET Ops, CutOff(S), Live' \subseteq Live, UNCHANGED <<wanted, present>>
      PROVE  ProcessInv'
  <2>1. /\ \A q \in Ops : op'[q] = op[q] \/ op'[q] = NoOp
        /\ \A q \in Ops : op'[q] = op[q] \/ q \in S
    BY <1>3 DEF CutOff
  <2>2. /\ met \subseteq met' /\ (pidfile' = pidfile \/ "unwritten" \in met')
        /\ \A q \in S : op[q].at # "idle" => "unsaved" \in met'
        /\ \A q \in S : op[q].at = "write" => "unwritten" \in met'
    BY <1>3 DEF CutOff
  <2> QED
    BY <1>1, <1>3, <2>1, <2>2, LessKeeps
<1>4. ASSUME NEW o \in Ops, CommandEnds(o) PROVE ProcessInv'
  <2>1. Live' = Live /\ CutOff({o}) /\ {o} \in SUBSET Ops
    BY <1>1, <1>4, LiveFacts DEF CommandEnds
  <2> QED
    BY <1>3, <1>4, <2>1 DEF CommandEnds
<1>5. ASSUME NEW byUnit \in BOOLEAN, DaemonEnds(byUnit) PROVE ProcessInv'
  <2>1. Live' \subseteq Live
    BY <1>5 DEF DaemonEnds, Live
  <2>2. CutOff({o \in Ops : op[o].ours}) /\ {o \in Ops : op[o].ours} \in SUBSET Ops
    BY <1>5 DEF DaemonEnds
  <2> QED
    BY <1>3, <1>5, <2>1, <2>2 DEF DaemonEnds
<1>6. CASE Reboot
  <2>1. Live' \subseteq Live
    BY <1>6 DEF Reboot, Live
  <2> QED
    BY <1>3, <1>6, <2>1 DEF Reboot
<1>7. ASSUME NEW p \in Pids, Exit(p) \/ Reuse(p) PROVE ProcessInv'
  <2>1. Live' \subseteq Live
    <3>1. CASE Exit(p)
      BY <1>1, <3>1, LiveFacts DEF Exit
    <3>2. CASE Reuse(p)
      BY <1>1, <3>2 DEF Reuse, Live, ProcessShapes, ProcessTypeOK
    <3> QED
      BY <1>7, <3>1, <3>2
  <2> QED
    BY <1>1, <1>7, <2>1, LessKeeps DEF Exit, Reuse
<1>8. ASSUME NEW o \in Ops, NEW kind \in Asked, BeginCall(o, kind) PROVE ProcessInv'
  <2>1. PICK y : y = [kind |-> kind, at |-> IF kind \in {"restart", "remove"} THEN "signal" ELSE "look",
                      ours |-> service = "up", seen |-> wanted, pid |-> NoPid]
    OBVIOUS
  <2>2. Becomes(o, y)
    BY <1>8, <2>1, Zenon DEF BeginCall, Becomes
  <2>3. y.kind = kind /\ y.at \in {"look", "signal"} /\ y.seen = wanted
    BY <2>1
  <2>4. /\ op[o].at = "idle" /\ present /\ Note(kind)
        /\ UNCHANGED <<process, pidfile, wanted, present>>
    BY <1>8 DEF BeginCall, FreeThread
  <2> QED
    BY <1>1, <2>2, <2>3, <2>4, NewOpKeeps
<1>9. ASSUME NEW o \in Ops, DaemonStarts(o) PROVE ProcessInv'
  <2>1. CASE present
    <3>1. PICK y : y = [kind |-> "reconcile", at |-> "look", ours |-> TRUE, seen |-> wanted, pid |-> NoPid]
      OBVIOUS
    <3>2. /\ Becomes(o, y) /\ op[o].at = "idle" /\ Note("reconcile")
          /\ UNCHANGED <<process, pidfile, wanted, present>>
      BY <1>9, <2>1, <3>1 DEF DaemonStarts, FreeThread, Becomes
    <3> QED
      BY <1>1, <2>1, <3>1, <3>2, NewOpKeeps
  <2>2. CASE ~present
    <3>1. Live' = Live /\ UNCHANGED <<op, met, pidfile, wanted, present>>
      BY <1>1, <1>9, <2>2, LiveFacts DEF DaemonStarts
    <3> QED
      BY <1>1, <3>1, LessKeeps
  <2> QED
    BY <2>1, <2>2
<1>10. CASE UNCHANGED processVars
  <2>1. Live' = Live /\ UNCHANGED <<op, met, pidfile, wanted, present>>
    BY <1>1, <1>10, LiveFacts DEF processVars
  <2> QED
    BY <1>1, <2>1, LessKeeps
<1> QED
  BY <1>2, <1>4, <1>5, <1>6, <1>7, <1>8, <1>9, <1>10 DEF ProcessNext

LEMMA ProcessInvInit ==
  ASSUME ProcessAssumption, ProcessInit
  PROVE  ProcessInv
<1>1. ProcessShapes
  <2>1. NoOp \in PlacedOp /\ NoOp \in ProcessCall
    BY NoOpFits DEF PlacedOp
  <2>2. /\ process \in [Pids -> Process] /\ pidfile \in 0..EmptyFile
        /\ wanted \in {"Running", "Stopped"} /\ present \in BOOLEAN
        /\ service \in {"down", "recovering", "up"} /\ met = {}
    BY DEF ProcessInit, ProcessAssumption, Process, NoPid, EmptyFile
  <2>3. op \in [Ops -> PlacedOp] /\ op \in [Ops -> ProcessCall]
    BY <2>1 DEF ProcessInit
  <2>4. counts \in [calls : 0..MaxProcessCalls, exits : 0..MaxExits, downs : 0..MaxDowns,
                    fails : 0..MaxProcessFails]
    BY DEF ProcessInit, ProcessAssumption
  <2> QED
    BY <2>2, <2>3, <2>4 DEF ProcessShapes, ProcessTypeOK
<1>2. Live = {} /\ \A o \in Ops : op[o] = NoOp
  BY DEF ProcessInit, Live
<1> QED
  BY <1>1, <1>2, NoOpFits DEF ProcessInv, Unmixed, Traced, OpsFit, Meant

LEMMA ProcessInvAlways ==
  ASSUME ProcessAssumption
  PROVE  ProcessSpec => []ProcessInv
<1>1. ProcessInit => ProcessInv
  BY ProcessInvInit
<1>2. ProcessInv /\ [ProcessNext]_processVars => ProcessInv'
  BY ProcessInvStep
<1> QED
  BY <1>1, <1>2, PTL DEF ProcessSpec

(* The operations of a process app, app.pid and meta.json keep their       *)
(* types, for any number of threads, pids and bounds (apps/process.rs).    *)
THEOREM ProcessTypeCorrect ==
  ASSUME ProcessAssumption
  PROVE  ProcessSpec => []ProcessTypeOK
<1>1. ProcessInv => ProcessTypeOK
  BY DEF ProcessInv, ProcessShapes
<1> QED
  BY <1>1, ProcessInvAlways, PTL

(* The app runs once at most and app.pid says where, or the start that     *)
(* spawned it is about to, unless two other operations overlapped or a pid *)
(* could not be written; an app that was stopped or removed does not run,  *)
(* unless an operation was cut off in between: however processes exit,     *)
(* pids are reused, stops and kills meet and the daemon restarts           *)
(* (ProcessDriver::start, stop, kill and the calls of AppManager around    *)
(* them).                                                                  *)
THEOREM ProcessesAreKnown ==
  ASSUME ProcessAssumption
  PROVE  ProcessSpec => []ProcessIsKnown
<1>1. ProcessInv => OneProcess
  <2> SUFFICES ASSUME ProcessInv, Undisturbed, NEW p \in Live
               PROVE  \/ pidfile = p /\ \A o \in Ops : op[o].at # "write"
                      \/ \E o \in Ops : op[o].at = "write" /\ op[o].pid = p /\ Live = {p}
    BY DEF OneProcess, Undisturbed
  <2>1. CASE \A o \in Ops : op[o].at # "write"
    BY <2>1 DEF ProcessInv, Traced
  <2>2. ASSUME NEW o \in Ops, op[o].at = "write"
        PROVE  op[o].pid = p /\ Live = {p}
    <3>1. Live \subseteq {op[o].pid}
      BY <2>2 DEF ProcessInv, OpsFit, OpFits
    <3> QED
      BY <3>1
  <2> QED
    BY <2>1, <2>2
<1>2. ProcessInv => StoppedIsStopped
  BY DEF ProcessInv, Meant, StoppedIsStopped, AtRest
<1>3. ProcessInv => ProcessIsKnown
  BY <1>1, <1>2 DEF ProcessIsKnown
<1> QED
  BY <1>3, ProcessInvAlways, PTL
=============================================================================
