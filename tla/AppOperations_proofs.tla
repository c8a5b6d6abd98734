------------------------ MODULE AppOperations_proofs ------------------------
(***************************************************************************)
(* Theorems about AppOperations, for every value of its constants: type    *)
(* correctness, the exactness of the operation lock, and that no step      *)
(* leaves an app without a copy of its repository.  The last two rest on   *)
(* StepShape, which says once what any step of a thread may do to the lock, *)
(* to the directories and to the other threads.  Then what operations leave *)
(* that run one after the other: one version, a running app running, and a *)
(* wanted app up after the next start.                                     *)
(***************************************************************************)
EXTENDS AppOperations, TLAPS

(* A thread past its first step has read meta.json, and one with a clone    *)
(* knows its version.                                                       *)
Aiming == {"aside", "movein", "teardown", "provision", "drop", "record"}
Formed(thread) ==
  /\ thread \in Thread
  /\ thread.pc \notin {"idle", "read"} => thread.mine \in Metas
  /\ thread.pc \in Aiming => thread.aim \in Versions

TInv == TypeOK /\ \A o \in Ops : Formed(op[o])

-----------------------------------------------------------------------------
(* Type correctness                                                         *)

LEMMA RestingType == Formed(Resting)
BY DEF Resting, Formed, Thread, AllKinds, Steps, Aiming

LEMMA InitType == Init => TInv
<1> SUFFICES ASSUME Init PROVE TInv
  OBVIOUS
<1>1. 1 \in Versions
  BY VersionAssumption DEF Versions
<1>2. op \in [Ops -> Thread] /\ \A o \in Ops : Formed(op[o])
  BY RestingType DEF Init, Formed
<1>3. disk \in Dirs /\ box \in Boxes /\ meta \in Metas
  BY <1>1 DEF Init, Dirs, Boxes, Metas
<1>4. faults \in [count : 0 .. MaxFaults, kinds : SUBSET AllFaults] /\ calls \in 0 .. MaxCalls
  BY BoundAssumption DEF Init
<1> QED
  BY <1>1, <1>2, <1>3, <1>4 DEF Init, TypeOK, TInv

LEMMA BecomeType ==
  ASSUME TInv, NEW o \in Ops, NEW thread, Formed(thread), Become(o, thread)
  PROVE  op' \in [Ops -> Thread] /\ \A p \in Ops : Formed(op'[p])
BY DEF TInv, TypeOK, Become, Formed

LEMMA GotoType ==
  ASSUME TInv, NEW o \in Ops, NEW step \in Steps, Goto(o, step),
         op[o].pc \notin {"idle", "read"},
         step \in Aiming => op[o].pc \in Aiming
  PROVE  op' \in [Ops -> Thread] /\ \A p \in Ops : Formed(op'[p])
<1>1. Formed([op[o] EXCEPT !.pc = step])
  BY DEF TInv, Formed, Thread
<1> QED
  BY <1>1, BecomeType DEF Goto

(* Records are handled apart from the type invariant, whose many sets the   *)
(* solver would otherwise expand.                                           *)
LEMMA ThreadType ==
  ASSUME TInv, NEW o \in Ops
  PROVE  op[o] \in Thread
BY DEF TInv, TypeOK

LEMMA ClearedThread ==
  ASSUME NEW t \in Thread, NEW fine \in BOOLEAN
  PROVE  [t EXCEPT !.ok = fine, !.mine = None, !.aim = None, !.fresh = FALSE] \in Thread
BY DEF Thread

LEMMA FinishType ==
  ASSUME TInv, NEW o \in Ops, NEW ok \in BOOLEAN, Finish(o, ok)
  PROVE  op' \in [Ops -> Thread] /\ \A p \in Ops : Formed(op'[p])
<1>1. Then(o, ok) \in {"upgrade", "start", "none"}
  BY DEF Then
<1>2. Cleared(o, ok) \in Thread
  <2>1. (op[o].ok /\ ok) \in BOOLEAN
    OBVIOUS
  <2> QED
    BY <2>1, ThreadType, ClearedThread DEF Cleared
<1>3. CASE Then(o, ok) = "none"
  <2>1. Formed([Cleared(o, ok) EXCEPT !.pc = "idle"])
    <3> HIDE DEF Cleared
    <3> QED
      BY <1>2 DEF Formed, Aiming, Thread, Steps
  <2> QED
    BY <1>3, <2>1, BecomeType DEF Finish
<1>4. CASE Then(o, ok) # "none"
  <2>1. Then(o, ok) \in AllKinds
    BY <1>1, <1>4 DEF AllKinds
  <2>2. Formed([Cleared(o, ok) EXCEPT !.pc = "read", !.doing = Then(o, ok)])
    <3>1. "read" \in Steps \ Aiming
      BY DEF Steps, Aiming
    <3> QED
      BY <1>2, <2>1, <3>1 DEF Formed, Thread
  <2> QED
    BY <1>4, <2>2, BecomeType DEF Finish
<1> QED
  BY <1>3, <1>4

(* What a step does to the threads and the lock, well typed.                *)
Moved ==
  /\ op' \in [Ops -> Thread] /\ \A p \in Ops : Formed(op'[p])
  /\ lock' \in Ops \cup {Nobody} /\ UNCHANGED env

LEMMA EndType ==
  ASSUME TInv, NEW o \in Ops, NEW ok \in BOOLEAN, End(o, ok)
  PROVE  Moved
BY FinishType DEF End, Unlock, TInv, TypeOK, Moved

LEMMA UpgradeEndsType ==
  ASSUME TInv, NEW o \in Ops, NEW ok \in BOOLEAN, UpgradeEnds(o, ok),
         op[o].pc \notin {"idle", "read"}
  PROVE  Moved
<1>1. CASE op[o].kind # "rebuild" \/ (~ok /\ ~op[o].was)
  <2>1. End(o, ok)
    BY <1>1 DEF UpgradeEnds
  <2> QED
    BY <2>1, EndType
<1>2. CASE ~(op[o].kind # "rebuild" \/ (~ok /\ ~op[o].was))
  <2> DEFINE step == IF ok THEN "reload" ELSE "revive"
             thread == [op[o] EXCEPT !.doing = "rebuild", !.pc = step]
  <2>1. step \in Steps \ Aiming /\ "rebuild" \in AllKinds
    BY DEF Steps, AllKinds, Aiming
  <2>2. Formed(thread)
    <3> HIDE DEF step
    <3> QED
      BY <2>1 DEF TInv, Formed, Thread
  <2>3. Become(o, thread) /\ UNCHANGED <<lock, env>>
    BY <1>2 DEF UpgradeEnds
  <2> QED
    BY <2>2, <2>3, BecomeType DEF TInv, TypeOK, Moved
<1> QED
  BY <1>1, <1>2

LEMMA FaultType ==
  ASSUME TInv, NEW kind, Fault(kind)
  PROVE  faults' \in [count : 0 .. MaxFaults, kinds : SUBSET AllFaults]
BY KindAssumption, BoundAssumption DEF TInv, TypeOK, Fault

LEMMA BoxType ==
  ASSUME TInv
  PROVE  /\ Stopped \in Boxes \cup {None}
         /\ CanCreate => [of |-> disk.repo, running |-> FALSE] \in Boxes
         /\ box # None => [box EXCEPT !.running = TRUE] \in Boxes
BY DEF TInv, TypeOK, Stopped, CanCreate, Boxes, Dirs

LEMMA UpdateType ==
  ASSUME TInv, NEW o \in Ops, NEW t, op[o].mine \in Metas,
         NEW kind \in AllKinds \cup {"reconcile"}, NEW step \in Steps,
         NEW mine \in Metas, NEW aim \in Versions \cup {None},
         NEW was \in BOOLEAN, NEW fresh \in BOOLEAN,
         step \in Aiming => aim \in Versions,
         t = [op[o] EXCEPT !.doing = kind, !.pc = step, !.mine = mine, !.aim = aim,
                           !.was = was, !.fresh = fresh]
  PROVE  Formed(t)
<1>1. op[o] \in Thread
  BY DEF TInv, TypeOK
<1>2. t.mine = mine /\ t.aim = aim /\ t.pc = step
  BY <1>1 DEF Thread
<1>3. t \in Thread
  BY <1>1 DEF Thread
<1> QED
  BY <1>2, <1>3 DEF Formed

LEMMA SetUpType ==
  ASSUME TInv, NEW o \in Ops, NEW step \in Steps \ Aiming,
         op[o].pc \notin {"idle", "read"}
  PROVE  Formed(SetUp(o, step))
<1>0. op[o] \in Thread /\ op[o].mine \in Metas
  BY DEF TInv, Formed
<1>1. SetupKept(o) \in BOOLEAN
  <2>1. op[o].mine.skipped \in BOOLEAN
    BY <1>0 DEF Metas
  <2>2. CASE disk.repo = None
    BY <2>1, <2>2 DEF SetupKept
  <2>3. CASE disk.repo # None
    BY <2>3 DEF SetupKept
  <2> QED
    BY <2>2, <2>3
<1>2. [op[o].mine EXCEPT !.skipped = SetupKept(o)] \in Metas
  BY <1>0, <1>1 DEF Metas
<1> QED
  BY <1>0, <1>2 DEF SetUp, Formed, Thread

LEMMA StepMoves ==
  ASSUME TInv, NEW o \in Ops, Step(o)
  PROVE  Moved
<1>1. CASE Read(o)
  <2>1. CASE meta = None
    BY <1>1, <2>1, EndType DEF Read, TInv
  <2>2. CASE meta # None
    <3>1. op[o].doing \in AllKinds \cup {"reconcile"} /\ meta \in Metas
      BY <2>2 DEF TInv, TypeOK, Thread
    <3>2. FirstStep[op[o].doing] \in Steps \ Aiming
      BY <3>1 DEF FirstStep, AllKinds, Steps, Aiming
    <3>3. Formed([op[o] EXCEPT !.mine = meta, !.pc = FirstStep[op[o].doing]])
      BY <3>1, <3>2 DEF TInv, Formed, Thread
    <3> QED
      BY <1>1, <2>2, <3>3, BecomeType DEF Read, Moved, TInv, TypeOK
  <2> QED
    BY <2>1, <2>2
<1>2. CASE CheckStart(o)
  <2>1. Formed(SetUp(o, "apply"))
    BY <1>2, SetUpType DEF CheckStart, At, Steps, Aiming
  <2> QED
    BY <1>2, <2>1, BecomeType, EndType, GotoType DEF CheckStart, At, Moved, TInv,
       TypeOK, Steps, Aiming
<1>3. CASE CheckRestart(o)
  <2>1. Formed(SetUp(o, "halt"))
    BY <1>3, SetUpType DEF CheckRestart, At, Steps, Aiming
  <2> QED
    BY <1>3, <2>1, BecomeType, EndType DEF CheckRestart, At, Moved, TInv, TypeOK, Steps,
       Aiming
<1>4. CASE CheckReconcile(o)
  BY <1>4, GotoType, EndType DEF CheckReconcile, At, Moved, TInv, TypeOK, Steps, Aiming
<1>5. CASE Apply(o)
  BY <1>5, GotoType, EndType DEF Apply, At, Moved, TInv, TypeOK, Steps, Aiming
<1>6. CASE Create(o)
  <2> DEFINE step == IF op[o].doing = "reconcile" THEN "keep" ELSE "run"
             thread == [op[o] EXCEPT !.fresh = TRUE, !.pc = step]
  <2>1. op[o] \in Thread /\ op[o].mine \in Metas
    BY <1>6 DEF Create, At, TInv, Formed
  <2>2. step \in Steps \ Aiming
    BY <2>1 DEF Steps, Aiming
  <2>3. Formed(thread)
    <3> HIDE DEF step
    <3> QED
      BY <2>1, <2>2 DEF Formed, Thread
  <2> QED
    BY <1>6, <2>3, BecomeType, EndType DEF Create, At, Moved, TInv, TypeOK
<1>7. CASE Keep(o)
  BY <1>7, GotoType DEF Keep, At, Moved, TInv, TypeOK, Steps, Aiming
<1>8. CASE Run(o)
  BY <1>8, GotoType, EndType DEF Run, At, Moved, TInv, TypeOK, Steps, Aiming
<1>9. CASE CheckStop(o)
  BY <1>9, GotoType DEF CheckStop, At, Moved, TInv, TypeOK, Steps, Aiming
<1>10. CASE Halt(o)
  BY <1>10, GotoType, EndType DEF Halt, At, Moved, TInv, TypeOK, Steps, Aiming
<1>11. CASE Note(o)
  BY <1>11, EndType DEF Note, At, Moved, TInv, TypeOK, Steps, Aiming
<1>12. CASE Unload(o)
  BY <1>12, GotoType, EndType DEF Unload, At, Moved, TInv, TypeOK, Steps, Aiming
<1>13. CASE Delete(o)
  BY <1>13, FinishType DEF Delete, At, Moved, TInv, TypeOK, Steps, Aiming
<1>14. CASE Acquire(o)
  BY <1>14, GotoType, EndType DEF Acquire, At, Moved, TInv, TypeOK, Steps, Aiming
<1>15. CASE Guard(o)
  BY <1>15, GotoType, UpgradeEndsType DEF Guard, At, Moved, TInv, TypeOK, Steps, Aiming
<1>16. CASE Clone(o)
  <2> DEFINE step == "aside"
             aim == upstream
             thread == [op[o] EXCEPT !.pc = step, !.aim = aim]
  <2>1. op[o] \in Thread /\ op[o].mine \in Metas
    BY <1>16 DEF Clone, At, TInv, Formed
  <2>2. step \in Steps /\ aim \in Versions
    BY <2>1 DEF Steps, TInv, TypeOK
  <2>3. Formed(thread)
    <3> HIDE DEF step, aim
    <3> QED
      BY <2>1, <2>2 DEF Formed, Thread
  <2> QED
    BY <1>16, <2>3, BecomeType, UpgradeEndsType DEF Clone, At, Moved, TInv, TypeOK
<1>17. CASE MoveAside(o)
  BY <1>17, GotoType, UpgradeEndsType DEF MoveAside, At, Moved, TInv, TypeOK, Steps,
     Aiming
<1>18. CASE MoveIn(o)
  BY <1>18, GotoType, UpgradeEndsType DEF MoveIn, At, Moved, TInv, TypeOK, Steps, Aiming
<1>19. CASE Teardown(o)
  BY <1>19, GotoType, UpgradeEndsType DEF Teardown, At, Moved, TInv, TypeOK, Steps, Aiming
<1>20. CASE Provision(o)
  BY <1>20, GotoType, UpgradeEndsType DEF Provision, At, Moved, TInv, TypeOK, Steps,
     Aiming
<1>21. CASE Undo(o)
  BY <1>21, GotoType DEF Undo, At, Moved, TInv, TypeOK, Steps, Aiming
<1>22. CASE PutBack(o)
  BY <1>22, GotoType, UpgradeEndsType DEF PutBack, At, Moved, TInv, TypeOK, Steps, Aiming
<1>23. CASE ProvisionAgain(o)
  BY <1>23, UpgradeEndsType DEF ProvisionAgain, At, Moved, TInv, TypeOK, Steps, Aiming
<1>24. CASE Drop(o)
  BY <1>24, GotoType DEF Drop, At, Moved, TInv, TypeOK, Steps, Aiming
<1>25. CASE Record(o)
  BY <1>25, UpgradeEndsType DEF Record, At, Moved, TInv, TypeOK, Steps, Aiming
<1>26. CASE Look(o)
  <2>1. op[o] \in Thread /\ op[o].mine \in Metas /\ Running \in BOOLEAN
    BY <1>26 DEF Look, At, TInv, TypeOK, Formed, Running, Boxes
  <2>2. CASE meta = None
    BY <1>26, <2>2, EndType DEF Look, TInv
  <2>3. ASSUME NEW pull \in BOOLEAN, meta # None,
               LET moved == pull /\ moving /\ disk.repo # upstream
               IN  Become(o, [op[o] EXCEPT
                     !.was = Running,
                     !.doing = IF moved /\ ~Running THEN "upgrade" ELSE @,
                     !.pc = IF ~moved THEN "image" ELSE IF Running THEN "pull" ELSE "guard"])
        PROVE  Moved
    <3> DEFINE moved == pull /\ moving /\ disk.repo # upstream
               kind == IF moved /\ ~Running THEN "upgrade" ELSE op[o].doing
               step == IF ~moved THEN "image" ELSE IF Running THEN "pull" ELSE "guard"
    <3>1. step \in Steps \ Aiming /\ kind \in AllKinds \cup {"reconcile"}
      BY <2>1 DEF Steps, Aiming, AllKinds, Thread
    <3>2. Become(o, [op[o] EXCEPT !.was = Running, !.doing = kind, !.pc = step])
      BY <2>1, <2>3 DEF Thread
    <3>3. Formed([op[o] EXCEPT !.was = Running, !.doing = kind, !.pc = step])
      <4> HIDE DEF step, kind
      <4> QED
        BY <2>1, <3>1 DEF Formed, Thread
    <3>4. UNCHANGED <<lock, env>>
      BY <1>26, <2>3 DEF Look
    <3> QED
      BY <3>2, <3>3, <3>4, BecomeType DEF Moved, TInv, TypeOK
  <2> QED
    BY <1>26, <2>2, <2>3 DEF Look
<1>27. CASE HaltForPull(o)
  <2> DEFINE step == "guard"
             kind == "upgrade"
             thread == [op[o] EXCEPT !.pc = step, !.doing = kind]
  <2>1. op[o] \in Thread /\ op[o].mine \in Metas
    BY <1>27 DEF HaltForPull, At, TInv, Formed
  <2>2. step \in Steps \ Aiming /\ kind \in AllKinds
    BY <2>1 DEF Steps, Aiming, AllKinds
  <2>3. Formed(thread)
    <3> HIDE DEF step, kind
    <3> QED
      BY <2>1, <2>2 DEF Formed, Thread
  <2> QED
    BY <1>27, <2>3, BecomeType, EndType DEF HaltForPull, At, Moved, TInv, TypeOK
<1>28. CASE Revive(o)
  BY <1>28, EndType DEF Revive, At, Moved, TInv, TypeOK, Steps, Aiming
<1>29. CASE Reload(o)
  <2> DEFINE step == "image"
             thread == [op[o] EXCEPT !.mine = meta, !.pc = step]
  <2>1. op[o] \in Thread /\ op[o].mine \in Metas
    BY <1>29 DEF Reload, At, TInv, Formed
  <2>2. step \in Steps \ Aiming
    BY <2>1 DEF Steps, Aiming
  <2>3. meta # None => Formed(thread)
    <3> HIDE DEF step
    <3> QED
      BY <2>1, <2>2 DEF Formed, Thread, TInv, TypeOK
  <2> QED
    BY <1>29, <2>3, BecomeType, EndType DEF Reload, At, Moved, TInv, TypeOK
<1>30. CASE Image(o)
  BY <1>30, GotoType, EndType DEF Image, At, Moved, TInv, TypeOK, Steps, Aiming
<1>31. CASE Recreate(o)
  BY <1>31, GotoType, EndType DEF Recreate, At, Moved, TInv, TypeOK, Steps, Aiming
<1>32. CASE Renew(o)
  BY <1>32, GotoType, EndType DEF Renew, At, Moved, TInv, TypeOK, Steps, Aiming
<1>33. CASE Resave(o)
  BY <1>33, GotoType, EndType DEF Resave, At, Moved, TInv, TypeOK, Steps, Aiming
<1>34. CASE Rerun(o)
  BY <1>34, EndType DEF Rerun, At, Moved, TInv, TypeOK, Steps, Aiming
<1>35. CASE LookFirst(o)
  <2> DEFINE was == Running
             step == "read"
             kind == IF Running THEN "stop" ELSE "upgrade"
             thread == [op[o] EXCEPT !.was = was, !.pc = step, !.doing = kind]
  <2>1. op[o] \in Thread /\ op[o].mine \in Metas
    BY <1>35 DEF LookFirst, At, TInv, Formed
  <2>2. was \in BOOLEAN /\ step \in Steps \ Aiming /\ kind \in AllKinds
    BY <2>1 DEF Running, Boxes, TInv, TypeOK, Steps, Aiming, AllKinds
  <2>3. Formed(thread)
    <3> HIDE DEF was, step, kind
    <3> QED
      BY <2>1, <2>2 DEF Formed, Thread
  <2> QED
    BY <1>35, <2>3, BecomeType, EndType DEF LookFirst, At, Moved, TInv, TypeOK
<1> QED
  BY <1>1, <1>2, <1>3, <1>4, <1>5, <1>6, <1>7, <1>8, <1>9, <1>10, <1>11, <1>12, <1>13,
     <1>14, <1>15, <1>16, <1>17, <1>18, <1>19, <1>20, <1>21, <1>22, <1>23, <1>24, <1>25,
     <1>26, <1>27, <1>28, <1>29, <1>30, <1>31, <1>32, <1>33, <1>34, <1>35 DEF Step

LEMMA StepWorld ==
  ASSUME TInv, NEW o \in Ops, Step(o)
  PROVE  disk' \in Dirs /\ box' \in Boxes \cup {None} /\ meta' \in Metas \cup {None}
<1>1. CASE Read(o)
  BY <1>1 DEF Read, world, TInv, TypeOK
<1>2. CASE CheckStart(o)
  BY <1>2 DEF CheckStart, world, TInv, TypeOK
<1>3. CASE CheckRestart(o)
  BY <1>3 DEF CheckRestart, world, TInv, TypeOK
<1>4. CASE CheckReconcile(o)
  BY <1>4 DEF CheckReconcile, world, TInv, TypeOK
<1>5. CASE Apply(o)
  BY <1>5, BoxType DEF Apply, TInv, TypeOK
<1>6. CASE Create(o)
  BY <1>6, BoxType DEF Create, NewBox, world, TInv, TypeOK
<1>7. CASE Keep(o)
  BY <1>7 DEF Keep, At, Save, TInv, TypeOK, Formed
<1>8. CASE Run(o)
  BY <1>8, BoxType DEF Run, world, TInv, TypeOK
<1>9. CASE CheckStop(o)
  BY <1>9 DEF CheckStop, world, TInv, TypeOK
<1>10. CASE Halt(o)
  BY <1>10, BoxType DEF Halt, world, TInv, TypeOK
<1>11. CASE Note(o)
  <2>1. op[o].mine \in Metas
    BY <1>11 DEF Note, At, TInv, Formed
  <2>2. Wanted(o) \in {"running", "stopped"}
    BY <2>1 DEF Wanted, Metas
  <2>3. [op[o].mine EXCEPT !.wanted = Wanted(o),
                !.name = IF op[o].doing = "rename" THEN "renamed" ELSE @] \in Metas
    BY <2>1, <2>2 DEF Metas
  <2> QED
    BY <1>11, <2>3 DEF Note, Save, TInv, TypeOK
<1>12. CASE Unload(o)
  BY <1>12, BoxType DEF Unload, TInv, TypeOK
<1>13. CASE Delete(o)
  BY <1>13 DEF Delete, Dirs, TInv, TypeOK
<1>14. CASE Acquire(o)
  BY <1>14 DEF Acquire, world, TInv, TypeOK
<1>15. CASE Guard(o)
  BY <1>15 DEF Guard, Dirs, TInv, TypeOK
<1>16. CASE Clone(o)
  BY <1>16 DEF Clone, Dirs, TInv, TypeOK
<1>17. CASE MoveAside(o)
  BY <1>17 DEF MoveAside, Dirs, TInv, TypeOK
<1>18. CASE MoveIn(o)
  <2>1. disk \in Dirs
    BY DEF TInv, TypeOK
  <2>2. /\ disk.new # None => [disk EXCEPT !.repo = disk.new, !.new = None] \in Dirs
        /\ [repo |-> disk.old, new |-> None, old |-> None] \in Dirs
        /\ [disk EXCEPT !.new = None] \in Dirs
    BY <2>1 DEF Dirs
  <2> QED
    BY <1>18, <2>2 DEF MoveIn, TInv, TypeOK
<1>19. CASE Teardown(o)
  BY <1>19, BoxType DEF Teardown, TInv, TypeOK
<1>20. CASE Provision(o)
  BY <1>20, BoxType DEF Provision, NewBox, TInv, TypeOK
<1>21. CASE Undo(o)
  BY <1>21 DEF Undo, Dirs, TInv, TypeOK
<1>22. CASE PutBack(o)
  BY <1>22 DEF PutBack, Dirs, TInv, TypeOK
<1>23. CASE ProvisionAgain(o)
  BY <1>23, BoxType DEF ProvisionAgain, NewBox, TInv, TypeOK
<1>24. CASE Drop(o)
  BY <1>24 DEF Drop, Dirs, TInv, TypeOK
<1>25. CASE Record(o)
  <2>1. op[o].mine \in Metas /\ op[o].aim \in Versions
    BY <1>25 DEF Record, At, TInv, Formed, Aiming
  <2>2. [op[o].mine EXCEPT !.version = op[o].aim] \in Metas
    BY <2>1 DEF Metas
  <2> QED
    BY <1>25, <2>2 DEF Record, Save, TInv, TypeOK
<1>26. CASE Look(o)
  BY <1>26 DEF Look, world, TInv, TypeOK
<1>27. CASE HaltForPull(o)
  BY <1>27, BoxType DEF HaltForPull, TInv, TypeOK
<1>28. CASE Revive(o)
  BY <1>28, BoxType DEF Revive, TInv, TypeOK
<1>29. CASE Reload(o)
  BY <1>29 DEF Reload, world, TInv, TypeOK
<1>30. CASE Image(o)
  BY <1>30 DEF Image, world, TInv, TypeOK
<1>31. CASE Recreate(o)
  BY <1>31, BoxType DEF Recreate, TInv, TypeOK
<1>32. CASE Renew(o)
  BY <1>32, BoxType DEF Renew, NewBox, TInv, TypeOK
<1>33. CASE Resave(o)
  BY <1>33 DEF Resave, At, Save, TInv, TypeOK, Formed
<1>34. CASE Rerun(o)
  BY <1>34, BoxType DEF Rerun, TInv, TypeOK
<1>35. CASE LookFirst(o)
  BY <1>35 DEF LookFirst, world, TInv, TypeOK
<1> QED
  BY <1>1, <1>2, <1>3, <1>4, <1>5, <1>6, <1>7, <1>8, <1>9, <1>10, <1>11, <1>12, <1>13,
     <1>14, <1>15, <1>16, <1>17, <1>18, <1>19, <1>20, <1>21, <1>22, <1>23, <1>24, <1>25,
     <1>26, <1>27, <1>28, <1>29, <1>30, <1>31, <1>32, <1>33, <1>34, <1>35 DEF Step

LEMMA StepFaults ==
  ASSUME TInv, NEW o \in Ops, Step(o)
  PROVE  faults' \in [count : 0 .. MaxFaults, kinds : SUBSET AllFaults]
<1>0. UNCHANGED faults => faults' \in [count : 0 .. MaxFaults, kinds : SUBSET AllFaults]
  BY DEF TInv, TypeOK
<1>1. UNCHANGED faults \/ \E kind \in AllFaults : Fault(kind)
  BY DEF Step, AllFaults, Read, CheckStart, CheckRestart, CheckReconcile, Apply, Create,
     Keep, Run, CheckStop, Halt, Note, Unload, Delete, Acquire, Guard, Clone, MoveAside,
     MoveIn, Teardown, Provision, Undo, PutBack, ProvisionAgain, Drop, Record, Look,
     HaltForPull, Revive, Reload, Image, Recreate, Renew, Resave, Rerun, LookFirst
<1> QED
  BY <1>0, <1>1, FaultType

LEMMA NextType == TInv /\ [Next]_vars => TInv'
<1> SUFFICES ASSUME TInv, [Next]_vars PROVE TInv'
  OBVIOUS
<1>1. ASSUME NEW o \in Ops, Step(o) PROVE TInv'
  BY <1>1, StepMoves, StepWorld, StepFaults DEF TInv, TypeOK, Moved, env
<1>2. ASSUME NEW o \in Ops, NEW k \in Kinds, NEW force \in BOOLEAN, Call(o, k, force)
      PROVE  TInv'
  <2>1. k \in AllKinds
    BY KindAssumption
  <2>2. Formed([Resting EXCEPT !.kind = k, !.doing = k, !.pc = "read", !.force = force])
    BY <2>1 DEF Formed, Resting, Thread, Steps, Aiming
  <2>3. op' \in [Ops -> Thread] /\ \A p \in Ops : Formed(op'[p])
    BY <1>2, <2>2, BecomeType DEF Call
  <2>4. met' \in SUBSET (AllKinds \cup {"reconcile"})
    BY <1>2, <2>1 DEF Call, Active, TInv, TypeOK, Thread
  <2>5. calls' \in 0 .. MaxCalls
    BY <1>2, BoundAssumption DEF Call, TInv, TypeOK
  <2> QED
    BY <1>2, <2>3, <2>4, <2>5 DEF Call, TInv, TypeOK, world
<1>3. ASSUME NEW o \in Ops, StartDaemon(o) PROVE TInv'
  <2>1. Formed([Resting EXCEPT !.kind = "reconcile", !.doing = "reconcile", !.pc = "read"])
    BY DEF Formed, Resting, Thread, Steps, Aiming
  <2>2. op' \in [Ops -> Thread] /\ \A p \in Ops : Formed(op'[p])
    BY <1>3, <2>1, BecomeType DEF StartDaemon
  <2>3. met' \in SUBSET (AllKinds \cup {"reconcile"})
    BY <1>3 DEF StartDaemon, Active, TInv, TypeOK, Thread
  <2> QED
    BY <1>3, <2>2, <2>3 DEF StartDaemon, TInv, TypeOK, world
<1>4. CASE Crash
  <2>1. op' \in [Ops -> Thread] /\ \A p \in Ops : Formed(op'[p])
    BY <1>4, RestingType DEF Crash, Formed
  <2> QED
    BY <1>4, <2>1, FaultType DEF Crash, TInv, TypeOK, world
<1>5. CASE Publish
  <2>1. upstream' \in Versions
    BY <1>5, VersionAssumption DEF Publish, Versions, TInv, TypeOK
  <2> QED
    BY <1>5, <2>1 DEF Publish, TInv, TypeOK, world
<1>6. CASE UNCHANGED vars
  BY <1>6 DEF vars, TInv, TypeOK
<1> QED
  BY <1>1, <1>2, <1>3, <1>4, <1>5, <1>6 DEF Next

(* Every variable keeps its type: no thread saves a meta.json it has not    *)
(* read, or a version it has not cloned.                                    *)
THEOREM TypeCorrect == Spec => []TypeOK
<1>1. TInv => TypeOK
  BY DEF TInv
<1> QED
  BY InitType, NextType, <1>1, PTL DEF Spec

-----------------------------------------------------------------------------
(* What a step of a thread may do                                           *)

Swapping == {"movein", "teardown", "provision", "undo"}
Deleting == {"unload", "delete"}

(* It leaves the other threads alone, stays the same kind of call, and with *)
(* the lock it either does nothing and stays on its side, or takes it when  *)
(* it is free, or gives it up and is outside; or it deletes the lock file.  *)
Shape(o) ==
  /\ op[o].pc # "idle"
  /\ \A p \in Ops \ {o} : op'[p] = op[p]
  /\ op'[o].kind = op[o].kind
  /\ met' = met
  /\ op'[o].doing = "remove" => op[o].doing = "remove"
  /\ op'[o].pc \in Deleting => /\ op'[o].doing = op[o].doing
                               /\ op[o].doing = "remove" \/ op[o].pc = "unload"
  /\ op'[o].pc \in Swapping => op[o].pc \in {"aside", "movein", "teardown", "provision"}
  /\ \/ lock' = lock /\ (Holds(o)' <=> Holds(o))
     \/ lock = Nobody /\ lock' = o /\ Holds(o)'
     \/ Unlock(o) /\ ~Holds(o)'
     \/ At(o, "delete") /\ lock' = Nobody /\ ~Holds(o)'

LEMMA BecomeFrame ==
  ASSUME TInv, NEW o \in Ops, NEW thread, Become(o, thread)
  PROVE  op'[o] = thread /\ \A p \in Ops \ {o} : op'[p] = op[p]
BY DEF TInv, TypeOK, Become

LEMMA GotoShape ==
  ASSUME TInv, NEW o \in Ops, NEW step \in Steps \ (Deleting \cup {"look"}), Goto(o, step),
         step \in LockedSteps <=> Holds(o), op[o].pc # "idle",
         step \in Swapping => op[o].pc \in {"aside", "movein", "teardown", "provision"},
         UNCHANGED <<lock, env>>
  PROVE  Shape(o) /\ op'[o].pc = step
<1>1. op'[o] = [op[o] EXCEPT !.pc = step] /\ \A p \in Ops \ {o} : op'[p] = op[p]
  BY BecomeFrame DEF Goto
<1>2. /\ op'[o].pc = step /\ op'[o].kind = op[o].kind /\ op'[o].doing = op[o].doing
  BY <1>1 DEF TInv, TypeOK, Thread
<1>3. Holds(o)' <=> Holds(o)
  BY <1>2 DEF Holds
<1> QED
  BY <1>1, <1>2, <1>3 DEF Shape, env

LEMMA BecomeShape ==
  ASSUME TInv, NEW o \in Ops, NEW t \in Thread, Become(o, t),
         t.kind = op[o].kind, t.doing = "remove" => op[o].doing = "remove",
         t.pc \in LockedSteps <=> Holds(o), op[o].pc # "idle",
         t.pc \notin Deleting \cup Swapping \cup {"look"},
         UNCHANGED <<lock, env>>
  PROVE  Shape(o) /\ op'[o].pc = t.pc
<1>1. op'[o] = t /\ \A p \in Ops \ {o} : op'[p] = op[p]
  BY BecomeFrame
<1>2. Holds(o)' <=> Holds(o)
  BY <1>1 DEF Holds
<1> QED
  BY <1>1, <1>2 DEF Shape, env

Outside == {"idle", "read"}

LEMMA FinishEffect ==
  ASSUME TInv, NEW o \in Ops, NEW ok \in BOOLEAN, Finish(o, ok)
  PROVE  /\ \A p \in Ops \ {o} : op'[p] = op[p]
         /\ op'[o].kind = op[o].kind /\ op'[o].pc \in Outside
         /\ op'[o].doing = "remove" => op[o].doing = "remove"
<1>1. Then(o, ok) \in {"upgrade", "start", "none"}
  BY DEF Then
<1>2. op[o] \in Thread
  BY DEF TInv, TypeOK
<1>3. /\ Cleared(o, ok) \in Thread
      /\ Cleared(o, ok).kind = op[o].kind /\ Cleared(o, ok).doing = op[o].doing
  BY <1>2 DEF Cleared, Thread
<1>4. CASE Then(o, ok) = "none"
  BY <1>3, <1>4, BecomeFrame DEF Finish, Outside, Thread
<1>5. CASE Then(o, ok) # "none"
  <2> DEFINE t == [Cleared(o, ok) EXCEPT !.pc = "read", !.doing = Then(o, ok)]
  <2>1. Then(o, ok) # "remove"
    BY <1>1
  <2>2. t.kind = op[o].kind /\ t.pc = "read" /\ t.doing = Then(o, ok)
    BY <1>3 DEF Thread
  <2>3. op'[o] = t /\ \A p \in Ops \ {o} : op'[p] = op[p]
    BY <1>5, BecomeFrame DEF Finish
  <2> QED
    BY <2>1, <2>2, <2>3 DEF Outside
<1> QED
  BY <1>4, <1>5

LEMMA EndShape ==
  ASSUME TInv, NEW o \in Ops, NEW ok \in BOOLEAN, End(o, ok), op[o].pc # "idle"
  PROVE  Shape(o) /\ op'[o].pc \notin Swapping
<1>1. Unlock(o) /\ UNCHANGED env /\ Finish(o, ok)
  BY DEF End
<1>2. op'[o].pc \notin Swapping \cup Deleting /\ ~Holds(o)'
  BY <1>1, FinishEffect DEF Outside, Swapping, Deleting, Holds, LockedSteps
<1> QED
  BY <1>1, <1>2, FinishEffect DEF Shape, env

LEMMA UpgradeEndsShape ==
  ASSUME TInv, NEW o \in Ops, NEW ok \in BOOLEAN, UpgradeEnds(o, ok),
         op[o].pc \in LockedSteps
  PROVE  Shape(o) /\ op'[o].pc \notin Swapping
<1>0. op[o].pc # "idle" /\ Holds(o)
  BY DEF LockedSteps, Holds
<1>1. CASE op[o].kind # "rebuild" \/ (~ok /\ ~op[o].was)
  BY <1>0, <1>1, EndShape DEF UpgradeEnds
<1>2. CASE ~(op[o].kind # "rebuild" \/ (~ok /\ ~op[o].was))
  <2> DEFINE step == IF ok THEN "reload" ELSE "revive"
             t == [op[o] EXCEPT !.doing = "rebuild", !.pc = step]
  <2>1. step \in LockedSteps /\ step \in Steps /\ step \notin Deleting \cup Swapping \cup {"look"}
    BY DEF LockedSteps, Steps, Deleting, Swapping
  <2>2. t \in Thread /\ t.kind = op[o].kind /\ t.doing = "rebuild" /\ t.pc = step
    <3>1. "rebuild" \in AllKinds
      BY DEF AllKinds
    <3>2. op[o] \in Thread
      BY ThreadType
    <3> HIDE DEF step
    <3> QED
      BY <2>1, <3>1, <3>2 DEF Thread
  <2>3. Become(o, t) /\ UNCHANGED <<lock, env>>
    BY <1>2 DEF UpgradeEnds
  <2> HIDE DEF t, step
  <2> QED
    BY <1>0, <2>1, <2>2, <2>3, BecomeShape
<1> QED
  BY <1>1, <1>2

LEMMA StepShape ==
  ASSUME TInv, NEW o \in Ops, Step(o)
  PROVE  Shape(o)
<1>0. op[o] \in Thread
  BY DEF TInv, TypeOK
<1>1. CASE Read(o)
  <2>1. CASE meta = None
    BY <1>1, <2>1, EndShape DEF Read, At
  <2>2. CASE meta # None
    <3> DEFINE t == [op[o] EXCEPT !.mine = meta, !.pc = FirstStep[op[o].doing]]
    <3>1. op'[o] = t /\ \A p \in Ops \ {o} : op'[p] = op[p]
      BY <1>1, <2>2, BecomeFrame DEF Read
    <3>2. /\ op'[o].pc = FirstStep[op[o].doing] /\ op'[o].kind = op[o].kind
          /\ op'[o].doing = op[o].doing
      BY <1>0, <3>1 DEF Thread
    <3>3. op[o].doing \in AllKinds \cup {"reconcile"}
      BY <1>0 DEF Thread
    <3>4. /\ FirstStep[op[o].doing] \in {"check", "note", "unload", "lock", "look"}
          /\ FirstStep[op[o].doing] = "look" => op[o].doing = "update"
          /\ FirstStep[op[o].doing] = "unload" => op[o].doing = "remove"
      BY <3>3 DEF FirstStep, AllKinds
    <3>5. ~Holds(o) /\ ~Holds(o)'
      BY <1>1, <3>2, <3>4 DEF Read, At, Holds, LockedSteps
    <3>6. UNCHANGED <<lock, env>>
      BY <1>1, <2>2 DEF Read
    <3> QED
      BY <1>1, <3>1, <3>2, <3>4, <3>5, <3>6 DEF Read, At, Shape, env, Deleting, Swapping
  <2> QED
    BY <2>1, <2>2
<1>2. CASE CheckStart(o)
  <2>1. Formed(SetUp(o, "apply"))
    BY <1>2, SetUpType DEF CheckStart, At, Steps, Aiming
  <2>2. /\ SetUp(o, "apply").kind = op[o].kind /\ SetUp(o, "apply").doing = op[o].doing
        /\ SetUp(o, "apply").pc = "apply"
    BY <1>0 DEF SetUp, Thread
  <2>3. ~Holds(o) /\ "apply" \notin LockedSteps \cup Deleting \cup Swapping \cup {"look"}
    BY <1>2 DEF CheckStart, At, Holds, LockedSteps, Deleting, Swapping
  <2>4. SetUp(o, "apply") \in Thread
    BY <2>1 DEF Formed
  <2>5. CASE Running
    BY <1>2, <2>5, GotoShape DEF CheckStart, At, Steps, Deleting, LockedSteps, Swapping,
       Holds
  <2> QED
    BY <1>2, <2>2, <2>3, <2>4, <2>5, BecomeShape, EndShape DEF CheckStart, At
<1>3. CASE CheckRestart(o)
  <2>1. Formed(SetUp(o, "halt"))
    BY <1>3, SetUpType DEF CheckRestart, At, Steps, Aiming
  <2>2. /\ SetUp(o, "halt").kind = op[o].kind /\ SetUp(o, "halt").doing = op[o].doing
        /\ SetUp(o, "halt").pc = "halt"
    BY <1>0 DEF SetUp, Thread
  <2>3. ~Holds(o) /\ "halt" \notin LockedSteps \cup Deleting \cup Swapping \cup {"look"}
    BY <1>3 DEF CheckRestart, At, Holds, LockedSteps, Deleting, Swapping
  <2>4. SetUp(o, "halt") \in Thread
    BY <2>1 DEF Formed
  <2> QED
    BY <1>3, <2>2, <2>3, <2>4, BecomeShape, EndShape DEF CheckRestart, At
<1>4. CASE CheckReconcile(o)
  BY <1>4, GotoShape, EndShape DEF CheckReconcile, At, Steps, Deleting, LockedSteps,
     Swapping, Holds
<1>5. CASE Apply(o)
  BY <1>5, GotoShape, EndShape DEF Apply, At, Steps, Deleting, LockedSteps, Swapping,
     Holds
<1>6. CASE Create(o)
  <2> DEFINE step == IF op[o].doing = "reconcile" THEN "keep" ELSE "run"
             t == [op[o] EXCEPT !.fresh = TRUE, !.pc = step]
  <2>1. step \in Steps
    BY <1>0 DEF Steps
  <2>2. /\ t \in Thread /\ t.kind = op[o].kind
      /\ t.pc = step /\ t.doing = op[o].doing
    <3> HIDE DEF step
    <3> QED
      BY <1>0, <2>1 DEF Thread
  <2>3. /\ op[o].pc # "idle" /\ (step \in LockedSteps <=> Holds(o))
        /\ step \notin Deleting \cup Swapping \cup {"look"}
    BY <1>6 DEF Create, At, Holds, LockedSteps, Deleting, Swapping
  <2> QED
    BY <1>6, <2>1, <2>2, <2>3, BecomeShape, EndShape DEF Create, At, LockedSteps
<1>7. CASE Keep(o)
  BY <1>7, GotoShape DEF Keep, At, Steps, Deleting, LockedSteps, Swapping, Holds
<1>8. CASE Run(o)
  BY <1>8, GotoShape, EndShape DEF Run, At, Steps, Deleting, LockedSteps, Swapping, Holds
<1>9. CASE CheckStop(o)
  BY <1>9, GotoShape DEF CheckStop, At, Steps, Deleting, LockedSteps, Swapping, Holds
<1>10. CASE Halt(o)
  BY <1>10, GotoShape, EndShape DEF Halt, At, Steps, Deleting, LockedSteps, Swapping,
     Holds
<1>11. CASE Note(o)
  BY <1>11, EndShape DEF Note, At, LockedSteps
<1>12. CASE Unload(o)
  <2>1. CASE End(o, FALSE)
    BY <1>12, <2>1, EndShape DEF Unload, At
  <2>2. CASE Goto(o, "delete") /\ UNCHANGED <<lock, env>>
    <3>1. op'[o] = [op[o] EXCEPT !.pc = "delete"] /\ \A p \in Ops \ {o} : op'[p] = op[p]
      BY <2>2, BecomeFrame DEF Goto
    <3>2. op'[o].pc = "delete" /\ op'[o].kind = op[o].kind /\ op'[o].doing = op[o].doing
      BY <1>0, <3>1 DEF Thread
    <3>3. ~Holds(o) /\ ~Holds(o)'
      BY <1>12, <3>2 DEF Unload, At, Holds, LockedSteps
    <3> QED
      BY <1>12, <2>2, <3>1, <3>2, <3>3 DEF Unload, At, Shape, env, Swapping
  <2> QED
    BY <1>12, <2>1, <2>2 DEF Unload
<1>13. CASE Delete(o)
  <2>1. op'[o].pc \notin Swapping \cup Deleting /\ ~Holds(o)'
    BY <1>13, FinishEffect DEF Delete, Outside, Swapping, Deleting, Holds, LockedSteps
  <2> QED
    BY <1>13, <2>1, FinishEffect DEF Delete, At, Shape, env
<1>14. CASE Acquire(o)
  <2>1. CASE lock # Nobody
    BY <1>14, <2>1, EndShape DEF Acquire, At
  <2>2. CASE lock = Nobody
    <3> DEFINE step == IF op[o].doing = "rebuild" THEN "look" ELSE "guard"
    <3>1. op'[o] = [op[o] EXCEPT !.pc = step] /\ \A p \in Ops \ {o} : op'[p] = op[p]
      BY <1>14, <2>2, BecomeFrame DEF Acquire, Goto
    <3>2. op'[o].pc = step /\ op'[o].kind = op[o].kind /\ op'[o].doing = op[o].doing
      BY <1>0, <3>1 DEF Thread
    <3>3. Holds(o)' /\ step \notin Swapping \cup Deleting
      BY <3>2 DEF Holds, LockedSteps, Swapping, Deleting
    <3> QED
      BY <1>14, <2>2, <3>1, <3>2, <3>3 DEF Acquire, At, Shape, env
  <2> QED
    BY <2>1, <2>2
<1>15. CASE Guard(o)
  BY <1>15, GotoShape, UpgradeEndsShape DEF Guard, At, Steps, Deleting, LockedSteps,
     Swapping, Holds
<1>16. CASE Clone(o)
  <2> DEFINE step == "aside"
             t == [op[o] EXCEPT !.pc = step, !.aim = upstream]
  <2>1. step \in Steps
    BY <1>0 DEF Steps
  <2>2. /\ t \in Thread /\ t.kind = op[o].kind
      /\ t.pc = step /\ t.doing = op[o].doing
    <3> HIDE DEF step
    <3> QED
      BY <1>0, <2>1 DEF Thread, TInv, TypeOK
  <2>3. /\ op[o].pc # "idle" /\ (step \in LockedSteps <=> Holds(o))
        /\ step \notin Deleting \cup Swapping \cup {"look"}
    BY <1>16 DEF Clone, At, Holds, LockedSteps, Deleting, Swapping
  <2> QED
    BY <1>16, <2>1, <2>2, <2>3, BecomeShape, UpgradeEndsShape DEF Clone, At, LockedSteps
<1>17. CASE MoveAside(o)
  BY <1>17, GotoShape, UpgradeEndsShape DEF MoveAside, At, Steps, Deleting, LockedSteps,
     Swapping, Holds
<1>18. CASE MoveIn(o)
  BY <1>18, GotoShape, UpgradeEndsShape DEF MoveIn, At, Steps, Deleting, LockedSteps,
     Swapping, Holds
<1>19. CASE Teardown(o)
  BY <1>19, GotoShape, UpgradeEndsShape DEF Teardown, At, Steps, Deleting, LockedSteps,
     Swapping, Holds
<1>20. CASE Provision(o)
  BY <1>20, GotoShape, UpgradeEndsShape DEF Provision, At, Steps, Deleting, LockedSteps,
     Swapping, Holds
<1>21. CASE Undo(o)
  BY <1>21, GotoShape DEF Undo, At, Steps, Deleting, LockedSteps, Swapping, Holds
<1>22. CASE PutBack(o)
  BY <1>22, GotoShape, UpgradeEndsShape DEF PutBack, At, Steps, Deleting, LockedSteps,
     Swapping, Holds
<1>23. CASE ProvisionAgain(o)
  BY <1>23, UpgradeEndsShape DEF ProvisionAgain, At, LockedSteps
<1>24. CASE Drop(o)
  BY <1>24, GotoShape DEF Drop, At, Steps, Deleting, LockedSteps, Swapping, Holds
<1>25. CASE Record(o)
  BY <1>25, UpgradeEndsShape DEF Record, At, LockedSteps
<1>26. CASE Look(o)
  <2>1. op[o].pc # "idle" /\ Holds(o) /\ Running \in BOOLEAN
    BY <1>26 DEF Look, At, Holds, Running, TInv, TypeOK, Boxes
  <2>2. CASE meta = None
    BY <1>26, <2>1, <2>2, EndShape DEF Look
  <2>3. ASSUME NEW pull \in BOOLEAN, meta # None,
               LET moved == pull /\ moving /\ disk.repo # upstream
               IN  Become(o, [op[o] EXCEPT
                     !.was = Running,
                     !.doing = IF moved /\ ~Running THEN "upgrade" ELSE @,
                     !.pc = IF ~moved THEN "image" ELSE IF Running THEN "pull" ELSE "guard"])
        PROVE  Shape(o)
    <3> DEFINE moved == pull /\ moving /\ disk.repo # upstream
               kind == IF moved /\ ~Running THEN "upgrade" ELSE op[o].doing
               step == IF ~moved THEN "image" ELSE IF Running THEN "pull" ELSE "guard"
               t == [op[o] EXCEPT !.was = Running, !.doing = kind, !.pc = step]
    <3>1. /\ step \in LockedSteps /\ step \in Steps
          /\ step \notin Deleting \cup Swapping \cup {"look"}
      BY DEF LockedSteps, Steps, Deleting, Swapping
    <3>2. kind \in AllKinds \cup {"reconcile"} /\ (kind = "remove" => op[o].doing = "remove")
      BY <1>0 DEF AllKinds, Thread
    <3>3. Become(o, t)
      BY <1>0, <2>3 DEF Thread
    <3>4. t \in Thread /\ t.kind = op[o].kind /\ t.doing = kind /\ t.pc = step
      <4> HIDE DEF step, kind
      <4> QED
        BY <1>0, <2>1, <3>1, <3>2 DEF Thread
    <3>5. UNCHANGED <<lock, env>>
      BY <1>26, <2>3 DEF Look
    <3> HIDE DEF t, step, kind
    <3> QED
      BY <2>1, <3>1, <3>2, <3>3, <3>4, <3>5, BecomeShape
  <2> QED
    BY <1>26, <2>2, <2>3 DEF Look
<1>27. CASE HaltForPull(o)
  <2> DEFINE step == "guard"
             kind == "upgrade"
             t == [op[o] EXCEPT !.pc = step, !.doing = kind]
  <2>1. step \in Steps /\ kind \in AllKinds
    BY <1>0 DEF Steps, AllKinds
  <2>2. /\ t \in Thread /\ t.kind = op[o].kind
      /\ t.pc = step /\ t.doing = kind
    <3> HIDE DEF step, kind
    <3> QED
      BY <1>0, <2>1 DEF Thread
  <2>3. /\ op[o].pc # "idle" /\ (step \in LockedSteps <=> Holds(o))
        /\ step \notin Deleting \cup Swapping \cup {"look"}
    BY <1>27 DEF HaltForPull, At, Holds, LockedSteps, Deleting, Swapping
  <2> QED
    BY <1>27, <2>1, <2>2, <2>3, BecomeShape, EndShape DEF HaltForPull, At, LockedSteps
<1>28. CASE Revive(o)
  BY <1>28, EndShape DEF Revive, At, LockedSteps
<1>29. CASE Reload(o)
  <2> DEFINE step == "image"
             t == [op[o] EXCEPT !.mine = meta, !.pc = step]
  <2>1. step \in Steps
    BY <1>0 DEF Steps
  <2>2. meta # None => /\ t \in Thread /\ t.kind = op[o].kind
                     /\ t.pc = step /\ t.doing = op[o].doing
    <3> HIDE DEF step
    <3> QED
      BY <1>0, <2>1 DEF Thread, TInv, TypeOK
  <2>3. /\ op[o].pc # "idle" /\ (step \in LockedSteps <=> Holds(o))
        /\ step \notin Deleting \cup Swapping \cup {"look"}
    BY <1>29 DEF Reload, At, Holds, LockedSteps, Deleting, Swapping
  <2> QED
    BY <1>29, <2>1, <2>2, <2>3, BecomeShape, EndShape DEF Reload, At, LockedSteps
<1>30. CASE Image(o)
  BY <1>30, GotoShape, EndShape DEF Image, At, Steps, Deleting, LockedSteps, Swapping,
     Holds
<1>31. CASE Recreate(o)
  BY <1>31, GotoShape, EndShape DEF Recreate, At, Steps, Deleting, LockedSteps,
     Swapping, Holds
<1>32. CASE Renew(o)
  BY <1>32, GotoShape, EndShape DEF Renew, At, Steps, Deleting, LockedSteps, Swapping,
     Holds
<1>33. CASE Resave(o)
  BY <1>33, GotoShape, EndShape DEF Resave, At, Steps, Deleting, LockedSteps, Swapping,
     Holds
<1>34. CASE Rerun(o)
  BY <1>34, EndShape DEF Rerun, At, LockedSteps
<1>35. CASE LookFirst(o)
  <2> DEFINE was == Running
             step == "read"
             kind == IF Running THEN "stop" ELSE "upgrade"
             t == [op[o] EXCEPT !.was = was, !.pc = step, !.doing = kind]
  <2>1. was \in BOOLEAN /\ step \in Steps /\ kind \in AllKinds \ {"remove"}
    BY <1>0 DEF TInv, TypeOK, Running, Boxes, Steps, AllKinds
  <2>2. /\ t \in Thread /\ t.kind = op[o].kind
      /\ t.pc = step /\ t.doing = kind
    <3> HIDE DEF was, step, kind
    <3> QED
      BY <1>0, <2>1 DEF Thread
  <2>3. /\ op[o].pc # "idle" /\ (step \in LockedSteps <=> Holds(o))
        /\ step \notin Deleting \cup Swapping \cup {"look"}
    BY <1>35 DEF LookFirst, At, Holds, LockedSteps, Deleting, Swapping
  <2> QED
    <3>1. t \in Thread /\ t.kind = op[o].kind /\ t.doing # "remove"
      BY <2>1, <2>2
    <3>2. (t.pc \in LockedSteps <=> Holds(o)) /\ t.pc \notin Deleting \cup Swapping \cup {"look"}
      BY <2>2, <2>3
    <3>3. Become(o, t) /\ UNCHANGED <<lock, env>> /\ op[o].pc # "idle"
      BY <1>35, <2>3 DEF LookFirst, env, world
    <3> HIDE DEF t, step, kind, was
    <3> QED
      BY <3>1, <3>2, <3>3, BecomeShape
<1> QED
  BY <1>1, <1>2, <1>3, <1>4, <1>5, <1>6, <1>7, <1>8, <1>9, <1>10, <1>11, <1>12, <1>13,
     <1>14, <1>15, <1>16, <1>17, <1>18, <1>19, <1>20, <1>21, <1>22, <1>23, <1>24, <1>25,
     <1>26, <1>27, <1>28, <1>29, <1>30, <1>31, <1>32, <1>33, <1>34, <1>35 DEF Step

-----------------------------------------------------------------------------
(* What a step of a thread may do to the directories: only a holder of the  *)
(* lock or a removal changes them; the old version is there when a swap     *)
(* begins and stays until it is over; and as long as it is, no step leaves  *)
(* the app without a repository.                                            *)
DiskShape(o) ==
  /\ disk' = disk \/ Holds(o) \/ At(o, "delete")
  /\ op'[o].pc \in Swapping
       => disk'.old # None \/ (op[o].pc \in Swapping /\ disk'.old = disk.old)
  /\ disk.repo # None /\ meta' # None /\ (op[o].pc \in Swapping => disk.old # None)
       => disk'.repo # None \/ disk'.old # None

LEMMA StepDisk ==
  ASSUME TInv, NEW o \in Ops, Step(o)
  PROVE  DiskShape(o)
<1>0. /\ disk \in Dirs
      /\ op'[o].pc \in Swapping => op[o].pc \in {"aside", "movein", "teardown", "provision"}
  BY StepShape DEF Shape, TInv, TypeOK
<1>1. CASE Read(o)
  BY <1>0, <1>1 DEF Read, At, DiskShape, Swapping, world
<1>2. CASE CheckStart(o)
  BY <1>0, <1>2 DEF CheckStart, At, DiskShape, Swapping, world
<1>3. CASE CheckRestart(o)
  BY <1>0, <1>3 DEF CheckRestart, At, DiskShape, Swapping, world
<1>4. CASE CheckReconcile(o)
  BY <1>0, <1>4 DEF CheckReconcile, At, DiskShape, Swapping, world
<1>5. CASE Apply(o)
  BY <1>0, <1>5 DEF Apply, At, DiskShape, Swapping
<1>6. CASE Create(o)
  BY <1>0, <1>6 DEF Create, At, DiskShape, Swapping, world
<1>7. CASE Keep(o)
  BY <1>0, <1>7 DEF Keep, At, DiskShape, Swapping
<1>8. CASE Run(o)
  BY <1>0, <1>8 DEF Run, At, DiskShape, Swapping, world
<1>9. CASE CheckStop(o)
  BY <1>0, <1>9 DEF CheckStop, At, DiskShape, Swapping, world
<1>10. CASE Halt(o)
  BY <1>0, <1>10 DEF Halt, At, DiskShape, Swapping, world
<1>11. CASE Note(o)
  BY <1>0, <1>11 DEF Note, At, DiskShape, Swapping
<1>12. CASE Unload(o)
  BY <1>0, <1>12 DEF Unload, At, DiskShape, Swapping
<1>13. CASE Delete(o)
  BY <1>0, <1>13 DEF Delete, At, DiskShape, Swapping, Dirs, Holds, LockedSteps
<1>14. CASE Acquire(o)
  BY <1>0, <1>14 DEF Acquire, At, DiskShape, Swapping, world
<1>15. CASE Guard(o)
  BY <1>0, <1>15 DEF Guard, At, DiskShape, Swapping, Dirs, Holds, LockedSteps
<1>16. CASE Clone(o)
  BY <1>0, <1>16 DEF Clone, At, DiskShape, Swapping, Dirs, Holds, LockedSteps
<1>17. CASE MoveAside(o)
  <2>1. CASE disk.repo # None /\ disk' = [disk EXCEPT !.repo = None, !.old = disk.repo]
    BY <1>0, <1>17, <2>1 DEF MoveAside, At, DiskShape, Dirs, Swapping, Holds, LockedSteps
  <2>2. CASE UpgradeEnds(o, FALSE) /\ disk' = [disk EXCEPT !.new = None]
    <3>1. op'[o].pc \notin Swapping
      BY <1>17, <2>2, UpgradeEndsShape DEF MoveAside, At, LockedSteps
    <3> QED
      BY <1>0, <1>17, <2>2, <3>1 DEF MoveAside, At, DiskShape, Dirs, Swapping, Holds,
         LockedSteps
  <2> QED
    BY <1>17, <2>1, <2>2 DEF MoveAside
<1>18. CASE MoveIn(o)
  <2>1. CASE disk.new # None /\ disk' = [disk EXCEPT !.repo = disk.new, !.new = None]
    BY <1>0, <1>18, <2>1 DEF MoveIn, At, DiskShape, Dirs, Swapping, Holds, LockedSteps
  <2>2. CASE UpgradeEnds(o, FALSE) /\ disk' = [repo |-> disk.old, new |-> None,
  old |-> None]
    <3>1. op'[o].pc \notin Swapping
      BY <1>18, <2>2, UpgradeEndsShape DEF MoveIn, At, LockedSteps
    <3> QED
      BY <1>0, <1>18, <2>2, <3>1 DEF MoveIn, At, DiskShape, Dirs, Swapping, Holds,
         LockedSteps
  <2>3. CASE disk' = [disk EXCEPT !.new = None]
    BY <1>0, <1>18, <2>3 DEF MoveIn, At, DiskShape, Dirs, Swapping, Holds, LockedSteps
  <2> QED
    BY <1>18, <2>1, <2>2, <2>3 DEF MoveIn
<1>19. CASE Teardown(o)
  BY <1>0, <1>19 DEF Teardown, At, DiskShape, Swapping
<1>20. CASE Provision(o)
  BY <1>0, <1>20 DEF Provision, At, DiskShape, Swapping
<1>21. CASE Undo(o)
  BY <1>0, <1>21 DEF Undo, At, DiskShape, Swapping, Dirs, Holds, LockedSteps
<1>22. CASE PutBack(o)
  BY <1>0, <1>22 DEF PutBack, At, DiskShape, Swapping, Dirs, Holds, LockedSteps
<1>23. CASE ProvisionAgain(o)
  BY <1>0, <1>23 DEF ProvisionAgain, At, DiskShape, Swapping
<1>24. CASE Drop(o)
  BY <1>0, <1>24 DEF Drop, At, DiskShape, Swapping, Dirs, Holds, LockedSteps
<1>25. CASE Record(o)
  BY <1>0, <1>25 DEF Record, At, DiskShape, Swapping
<1>26. CASE Look(o)
  BY <1>0, <1>26 DEF Look, At, DiskShape, Swapping, world
<1>27. CASE HaltForPull(o)
  BY <1>0, <1>27 DEF HaltForPull, At, DiskShape, Swapping
<1>28. CASE Revive(o)
  BY <1>0, <1>28 DEF Revive, At, DiskShape, Swapping
<1>29. CASE Reload(o)
  BY <1>0, <1>29 DEF Reload, At, DiskShape, Swapping, world
<1>30. CASE Image(o)
  BY <1>0, <1>30 DEF Image, At, DiskShape, Swapping, world
<1>31. CASE Recreate(o)
  BY <1>0, <1>31 DEF Recreate, At, DiskShape, Swapping
<1>32. CASE Renew(o)
  BY <1>0, <1>32 DEF Renew, At, DiskShape, Swapping
<1>33. CASE Resave(o)
  BY <1>0, <1>33 DEF Resave, At, DiskShape, Swapping
<1>34. CASE Rerun(o)
  BY <1>0, <1>34 DEF Rerun, At, DiskShape, Swapping
<1>35. CASE LookFirst(o)
  BY <1>0, <1>35 DEF LookFirst, At, DiskShape, Swapping, world
<1> QED
  BY <1>1, <1>2, <1>3, <1>4, <1>5, <1>6, <1>7, <1>8, <1>9, <1>10, <1>11, <1>12, <1>13,
     <1>14, <1>15, <1>16, <1>17, <1>18, <1>19, <1>20, <1>21, <1>22, <1>23, <1>24, <1>25,
     <1>26, <1>27, <1>28, <1>29, <1>30, <1>31, <1>32, <1>33, <1>34, <1>35 DEF Step

-----------------------------------------------------------------------------
(* The invariant: two threads that are active met, a removal is a thread of *)
(* that kind, the lock is exact, and while a version is being swapped in    *)
(* the old one is there.                                                    *)
MetInv == \A o, p \in Ops : o # p /\ op[o].pc # "idle" /\ op[p].pc # "idle"
                              => op[o].kind \in met
RemoveInv == \A o \in Ops : /\ op[o].doing = "remove" => op[o].kind = "remove"
                            /\ op[o].pc \in Deleting => op[o].doing = "remove"
OldInv == "remove" \notin met =>
            \A o \in Ops : op[o].pc \in Swapping => disk.old # None

IInv == TInv /\ MetInv /\ RemoveInv /\ LockIsExact /\ OldInv

LEMMA InitInv == Init => IInv
<1> SUFFICES ASSUME Init PROVE IInv
  OBVIOUS
<1>1. \A o \in Ops : op[o] = Resting
  BY DEF Init
<1>2. \A o \in Ops : ~Holds(o) /\ lock # o
  BY <1>1, OpAssumption DEF Holds, Resting, LockedSteps, Init
<1> QED
  BY <1>1, <1>2, InitType
     DEF IInv, MetInv, RemoveInv, LockIsExact, OldInv, Resting, Deleting, Swapping

LEMMA StepInv ==
  ASSUME IInv, NEW o \in Ops, Step(o)
  PROVE  MetInv' /\ RemoveInv' /\ LockIsExact' /\ OldInv'
<1>1. Shape(o) /\ DiskShape(o)
  BY StepShape, StepDisk DEF IInv
<1>2. \A p \in Ops \ {o} : (Holds(p)' <=> Holds(p)) /\ op'[p] = op[p]
  BY <1>1 DEF Shape, Holds
<1>3. \A p \in Ops : Holds(p) => op[p].pc # "idle"
  BY DEF Holds, LockedSteps
<1>4. ASSUME At(o, "delete"), "remove" \notin met
      PROVE  \A p \in Ops \ {o} : op[p].pc = "idle" /\ ~Holds(p)
  <2>1. op[o].kind = "remove" /\ op[o].pc # "idle"
    BY <1>4 DEF IInv, RemoveInv, At, Deleting
  <2> QED
    BY <1>3, <1>4, <2>1 DEF IInv, MetInv
<1>5. MetInv'
  BY <1>1 DEF IInv, MetInv, Shape
<1>6. RemoveInv'
  BY <1>1 DEF IInv, RemoveInv, Shape, Deleting
<1>7. LockIsExact'
  <2> SUFFICES ASSUME "remove" \notin met, NEW p \in Ops
               PROVE  (lock' = p) <=> Holds(p)'
    BY <1>1 DEF LockIsExact, Shape
  <2>1. \A q \in Ops : (lock = q) <=> Holds(q)
    BY DEF IInv, LockIsExact
  <2>2. CASE lock' = lock /\ (Holds(o)' <=> Holds(o))
    BY <1>2, <2>1, <2>2
  <2>3. CASE lock = Nobody /\ lock' = o /\ Holds(o)'
    BY <1>2, <2>1, <2>3, OpAssumption
  <2>4. CASE Unlock(o) /\ ~Holds(o)'
    BY <1>2, <2>1, <2>4, OpAssumption DEF Unlock
  <2>5. CASE At(o, "delete") /\ lock' = Nobody /\ ~Holds(o)'
    BY <1>2, <1>4, <2>5, OpAssumption
  <2> QED
    BY <1>1, <2>2, <2>3, <2>4, <2>5 DEF Shape
<1>8. OldInv'
  <2> SUFFICES ASSUME "remove" \notin met, NEW p \in Ops, op'[p].pc \in Swapping
               PROVE  disk'.old # None
    BY <1>1 DEF OldInv, Shape
  <2>1. \A q \in Ops : op[q].pc \in Swapping => disk.old # None
    BY DEF IInv, OldInv
  <2>2. CASE p = o
    BY <1>1, <2>1, <2>2 DEF DiskShape
  <2>3. CASE p # o
    <3>1. op[p].pc \in Swapping /\ disk.old # None
      BY <1>2, <2>1, <2>3
    <3>2. Holds(p)
      BY <3>1 DEF Holds, Swapping, LockedSteps
    <3>3. ~Holds(o) /\ ~At(o, "delete")
      BY <1>4, <2>3, <3>2 DEF IInv, LockIsExact
    <3> QED
      BY <1>1, <3>1, <3>3 DEF DiskShape
  <2> QED
    BY <2>2, <2>3
<1> QED
  BY <1>5, <1>6, <1>7, <1>8

LEMMA NextInv == IInv /\ [Next]_vars => IInv'
<1> SUFFICES ASSUME IInv, [Next]_vars PROVE IInv'
  OBVIOUS
<1>0. TInv'
  BY NextType DEF IInv
<1>1. ASSUME NEW o \in Ops, Step(o) PROVE IInv'
  BY <1>0, <1>1, StepInv DEF IInv
<1>2. ASSUME NEW o \in Ops, NEW k \in AllKinds \cup {"reconcile"}, NEW t,
             op[o].pc = "idle", Become(o, t),
             t.kind = k, t.doing = k, t.pc = "read",
             UNCHANGED <<disk, lock>>,
             met' = IF Active = {} THEN met
                    ELSE met \cup {k} \cup {op[p].kind : p \in Active}
      PROVE  IInv'
  <2>1. op'[o] = t /\ \A p \in Ops \ {o} : op'[p] = op[p]
    BY <1>2, BecomeFrame DEF IInv
  <2>2. MetInv'
    <3> SUFFICES ASSUME NEW p \in Ops, NEW q \in Ops, p # q,
                        op'[p].pc # "idle", op'[q].pc # "idle"
                 PROVE  op'[p].kind \in met'
      BY DEF MetInv
    <3>1. PICK r \in Active : r \in {p, q}
      BY <2>1 DEF Active
    <3>2. met' = met \cup {k} \cup {op[r1].kind : r1 \in Active}
      BY <1>2, <3>1
    <3>3. CASE p = o
      BY <1>2, <2>1, <3>2, <3>3
    <3>4. CASE p # o
      <4>1. p \in Active
        BY <2>1, <3>4 DEF Active
      <4> QED
        BY <2>1, <3>2, <3>4, <4>1
    <3> QED
      BY <3>3, <3>4
  <2>3. RemoveInv'
    BY <1>2, <2>1 DEF IInv, RemoveInv, Deleting
  <2>4. met \subseteq met'
    BY <1>2
  <2>5. \A p \in Ops : Holds(p)' <=> Holds(p)
    BY <1>2, <2>1 DEF Holds, LockedSteps
  <2>6. LockIsExact'
    BY <1>2, <2>4, <2>5 DEF IInv, LockIsExact
  <2>7. OldInv'
    BY <1>2, <2>1, <2>4 DEF IInv, OldInv, Swapping
  <2> QED
    BY <1>0, <2>2, <2>3, <2>6, <2>7 DEF IInv
<1>3. ASSUME NEW o \in Ops, NEW k \in Kinds, NEW force \in BOOLEAN, Call(o, k, force)
      PROVE  IInv'
  <2> DEFINE t == [Resting EXCEPT !.kind = k, !.doing = k, !.pc = "read", !.force = force]
  <2>1. t.kind = k /\ t.doing = k /\ t.pc = "read" /\ k \in AllKinds
    BY KindAssumption DEF Resting
  <2>2. op[o].pc = "idle" /\ Become(o, t) /\ UNCHANGED <<disk, lock>>
    BY <1>3 DEF Call, At, world
  <2>3. met' = IF Active = {} THEN met ELSE met \cup {k} \cup {op[p].kind : p \in Active}
    BY <1>3 DEF Call
  <2> HIDE DEF t
  <2> QED
    BY <1>2, <2>1, <2>2, <2>3
<1>4. ASSUME NEW o \in Ops, StartDaemon(o) PROVE IInv'
  <2> DEFINE t == [Resting EXCEPT !.kind = "reconcile", !.doing = "reconcile", !.pc = "read"]
  <2>1. t.kind = "reconcile" /\ t.doing = "reconcile" /\ t.pc = "read"
    BY DEF Resting
  <2>2. op[o].pc = "idle" /\ Become(o, t) /\ UNCHANGED <<disk, lock>>
    BY <1>4 DEF StartDaemon, At, world
  <2>3. met' = IF Active = {} THEN met
               ELSE met \cup {"reconcile"} \cup {op[p].kind : p \in Active}
    BY <1>4 DEF StartDaemon
  <2> HIDE DEF t
  <2> QED
    BY <1>2, <2>1, <2>2, <2>3
<1>5. CASE Crash
  <2>1. (\A o \in Ops : op'[o] = Resting) /\ lock' = Nobody /\ met' = met
    BY <1>5 DEF Crash
  <2>2. \A o \in Ops : ~Holds(o)' /\ lock' # o
    BY <2>1, OpAssumption DEF Holds, Resting, LockedSteps
  <2> QED
    BY <1>0, <2>1, <2>2
       DEF IInv, MetInv, RemoveInv, LockIsExact, OldInv, Resting, Deleting, Swapping
<1>6. CASE Publish \/ UNCHANGED vars
  <2>1. UNCHANGED <<disk, lock, op, met>>
    BY <1>6 DEF Publish, vars, world
  <2>2. \A o \in Ops : Holds(o)' <=> Holds(o)
    BY <2>1 DEF Holds
  <2> QED
    BY <1>0, <2>1, <2>2 DEF IInv, MetInv, RemoveInv, LockIsExact, OldInv
<1> QED
  BY <1>1, <1>3, <1>4, <1>5, <1>6 DEF Next

-----------------------------------------------------------------------------
(* The theorems                                                             *)

(* Whatever calls, failures and crashes there are, the lock is held by      *)
(* exactly the upgrade or rebuild between its acquisition and its end, so   *)
(* no two of them are ever at work on the app together.                     *)
THEOREM OperationsExclude == Spec => []LockIsExact
<1>1. IInv => LockIsExact
  BY DEF IInv
<1> QED
  BY InitInv, NextInv, <1>1, PTL DEF Spec

(* The step itself: from a state of the invariant none loses both copies.   *)
LEMMA CopyStep ==
  ASSUME IInv, [Next]_vars, disk.repo # None, "remove" \notin met', meta' # None
  PROVE  disk'.repo # None \/ disk'.old # None
<1>1. ASSUME NEW o \in Ops, Step(o) PROVE disk'.repo # None \/ disk'.old # None
  <2>1. Shape(o) /\ DiskShape(o)
    BY <1>1, StepShape, StepDisk DEF IInv
  <2>2. op[o].pc \in Swapping => disk.old # None
    BY <2>1 DEF Shape, IInv, OldInv
  <2> QED
    BY <2>1, <2>2 DEF DiskShape
<1>2. ASSUME NEW o \in Ops, NEW k \in Kinds, NEW force \in BOOLEAN, Call(o, k, force)
      PROVE  UNCHANGED disk
  BY <1>2 DEF Call, world
<1>3. ASSUME NEW o \in Ops, StartDaemon(o) PROVE UNCHANGED disk
  BY <1>3 DEF StartDaemon, world
<1>4. CASE Crash \/ Publish \/ UNCHANGED vars
  BY <1>4 DEF Crash, Publish, vars, world
<1> QED
  BY <1>1, <1>2, <1>3, <1>4 DEF Next

(* Unless the app is removed, no step of any operation, failing, crashing   *)
(* or running beside others, leaves an app that has a repository without a  *)
(* copy of one.                                                             *)
THEOREM ACopyIsKept == Spec => KeepsACopy
<1>1. IInv /\ [Next]_vars
        => [disk.repo # None /\ "remove" \notin met' /\ meta' # None
              => disk'.repo # None \/ disk'.old # None]_vars
  BY CopyStep
<1> QED
  BY InitInv, NextInv, <1>1, PTL DEF Spec, KeepsACopy
-----------------------------------------------------------------------------
(* One call at a time: what the thread that works on the app, or rested     *)
(* just now, knows of it.                                                   *)

(* The repository, meta.json and the container are of one version.          *)
Settled ==
  /\ disk.repo = meta.version /\ disk.new = None /\ disk.old = None
  /\ box # None => box.of = meta.version

(* No call is at work: what the last one left.                              *)
Rests ==
  meta # None =>
    /\ faults.kinds \subseteq RolledBack => Settled
    /\ faults.kinds \subseteq UpgradeFaults => disk.repo # None

(* The copy of meta.json a thread works on is the one on disk, but for the  *)
(* setup answer and, after an upgrade, until it is read again.              *)
Copied(t) ==
  /\ t.pc \notin {"idle", "read"} => meta # None
  /\ t.pc \notin {"idle", "read", "reload", "revive"} =>
       t.mine.version = meta.version /\ t.mine.wanted = meta.wanted
  /\ t.pc = "check" => t.mine = meta

Changing == {"aside", "movein", "teardown", "provision", "undo", "putback", "drop",
             "record"}

(* The two versions while an upgrade is between them.                       *)
Between(t) ==
  /\ t.pc = "aside" => disk.repo = meta.version /\ disk.new = t.aim /\ disk.old = None
  /\ t.pc = "movein" => disk.repo = None /\ disk.new = t.aim
  /\ t.pc \in {"teardown", "provision", "drop", "record"} => disk.repo = t.aim
  /\ t.pc \in {"teardown", "provision", "undo", "putback", "drop", "record"} => disk.new = None
  /\ t.pc \in {"movein", "teardown", "provision", "undo", "putback"} => disk.old = meta.version
  /\ t.pc = "record" => disk.old = None
  /\ t.pc \in {"aside", "movein", "teardown"} => (box # None => box.of = meta.version)
  /\ t.pc \in {"provision", "undo", "putback"} => box = None
  /\ t.pc \in {"drop", "record"} => box # None /\ box.of = t.aim

Versioned(t) ==
  faults.kinds \subseteq RolledBack /\ meta # None =>
    (t.pc \notin Changing => Settled) /\ Between(t)

(* A repository is in place, but for the moments between two renames.       *)
Placed(t) ==
  faults.kinds \subseteq UpgradeFaults /\ meta # None =>
    /\ t.pc \in {"aside", "movein"} => disk.new # None
    /\ t.pc = "putback" => disk.old # None
    /\ t.pc \notin {"movein", "putback"} => disk.repo # None

(* A rebuild leaves the app as it found it.                                 *)
Rebuilds(t) ==
  t.kind = "rebuild" =>
    /\ t.doing \in {"rebuild", "upgrade"}
    /\ t.pc \in {"idle", "read", "lock", "look"} \cup LockedSteps
    /\ t.pc = "resave" => ~Running
    /\ t.pc = "rerun" => t.was
    /\ t.pc = "idle" /\ t.ok => (Running <=> t.was)

Reconciles(t) ==
  t.kind = "reconcile" =>
    /\ t.doing = "reconcile"
    /\ t.pc \in {"idle", "read", "check", "apply", "create", "keep", "run"}
    /\ t.pc = "create" => box = None
    /\ t.pc \in {"keep", "run"} => box # None \/ disk.repo = None

Upgrading == {"read", "lock", "guard", "clone", "aside", "movein", "teardown",
              "provision", "undo", "putback", "again", "drop", "record"}

(* The three parts of an update that found the app running.                 *)
Stops(t) ==
  /\ t.pc \in {"read", "check", "halt", "note"} /\ box # None
  /\ t.pc # "note" => Running
Upgrades(t) ==
  /\ t.pc \in Upgrading
  /\ faults.count = 0 => box # None \/ t.pc = "provision"
  /\ t.pc \in {"undo", "putback", "again"} => faults.count # 0
Starts(t) ==
  /\ t.pc \in {"read", "check", "apply", "create", "run", "note"}
  /\ faults.count = 0 => box # None
  /\ t.pc = "create" => faults.count # 0 /\ box = None
  /\ t.pc = "run" => box # None
  /\ t.pc = "note" => Running

Parts(t) ==
  IF t.pc = "idle"
  THEN (disk.repo \in Asks => meta.skipped) => Running /\ meta.wanted = "running"
  ELSE /\ t.doing \in {"stop", "upgrade", "start"}
       /\ t.doing = "stop" => Stops(t)
       /\ t.doing = "upgrade" => Upgrades(t)
       /\ t.doing = "start" => Starts(t)

Mild == faults.kinds \subseteq UpgradeFaults /\ faults.count < 2

Updates(t) ==
  t.kind = "update" =>
    /\ t.doing \in {"update", "stop", "upgrade", "start"}
    /\ t.was /\ Mild => meta # None /\ Parts(t)

Works(t) ==
  /\ Copied(t) /\ Versioned(t) /\ Placed(t)
  /\ Rebuilds(t) /\ Reconciles(t) /\ Updates(t)

SoloInv ==
  /\ faults.count = 0 => faults.kinds = {}
  /\ Alone => (Idle => Rests) /\ \A o \in Active : Works(op[o])


(* What a step does to the fields of its thread.                            *)
SameCall(o) ==
  op'[o].kind = op[o].kind /\ op'[o].was = op[o].was /\ op'[o].aim = op[o].aim
Advances(o, step) ==
  /\ op'[o].pc = step /\ SameCall(o)
  /\ op'[o].doing = op[o].doing /\ op'[o].mine = op[o].mine /\ op'[o].ok = op[o].ok
Ended(o, ok) ==
  /\ op'[o].kind = op[o].kind /\ op'[o].was = op[o].was /\ op'[o].ok = (op[o].ok /\ ok)
  /\ \/ op'[o].pc = "idle" /\ Then(o, ok) = "none" /\ op'[o].doing = op[o].doing
     \/ op'[o].pc = "read" /\ Then(o, ok) # "none" /\ op'[o].doing = Then(o, ok)

LEMMA GotoFields ==
  ASSUME TInv, NEW o \in Ops, NEW step, Goto(o, step)
  PROVE  Advances(o, step)
<1>1. op'[o] = [op[o] EXCEPT !.pc = step]
  BY BecomeFrame DEF Goto
<1> QED
  BY <1>1 DEF TInv, TypeOK, Thread, Advances, SameCall

LEMMA FinishFields ==
  ASSUME TInv, NEW o \in Ops, NEW ok \in BOOLEAN, Finish(o, ok)
  PROVE  Ended(o, ok)
<1>1. op[o] \in Thread
  BY DEF TInv, TypeOK
<1>2. PICK t : t = Cleared(o, ok)
  OBVIOUS
<1>3. t \in Thread /\ t.kind = op[o].kind /\ t.was = op[o].was /\ t.doing = op[o].doing
  BY <1>1, <1>2 DEF Cleared, Thread
<1>4. t.ok = (op[o].ok /\ ok)
  BY <1>1, <1>2 DEF Cleared, Thread
<1>5. CASE Then(o, ok) = "none"
  <2>1. op'[o] = [t EXCEPT !.pc = "idle"]
    BY <1>2, <1>5, BecomeFrame DEF Finish
  <2>2. /\ op'[o].kind = t.kind /\ op'[o].was = t.was /\ op'[o].ok = t.ok
        /\ op'[o].pc = "idle" /\ op'[o].doing = t.doing
    BY <1>3, <2>1 DEF Thread
  <2> QED
    BY <1>3, <1>4, <1>5, <2>2 DEF Ended
<1>6. CASE Then(o, ok) # "none"
  <2>1. op'[o] = [t EXCEPT !.pc = "read", !.doing = Then(o, ok)]
    BY <1>2, <1>6, BecomeFrame DEF Finish
  <2>2. /\ op'[o].kind = t.kind /\ op'[o].was = t.was /\ op'[o].ok = t.ok
        /\ op'[o].pc = "read" /\ op'[o].doing = Then(o, ok)
    BY <1>3, <2>1 DEF Thread
  <2> QED
    BY <1>3, <1>4, <1>6, <2>2 DEF Ended
<1> QED
  BY <1>5, <1>6

LEMMA EndFields ==
  ASSUME TInv, NEW o \in Ops, NEW ok \in BOOLEAN, End(o, ok)
  PROVE  Ended(o, ok)
BY FinishFields DEF End

(* An upgrade on its own ends there; one in a rebuild goes on.              *)
UpgradeEnded(o, ok) ==
  \/ (op[o].kind # "rebuild" \/ (~ok /\ ~op[o].was)) /\ Ended(o, ok)
  \/ /\ op[o].kind = "rebuild"
     /\ op'[o].pc = IF ok THEN "reload" ELSE "revive"
     /\ op'[o].doing = "rebuild" /\ SameCall(o)

LEMMA UpgradeEndsFields ==
  ASSUME TInv, NEW o \in Ops, NEW ok \in BOOLEAN, UpgradeEnds(o, ok)
  PROVE  UpgradeEnded(o, ok)
<1>1. CASE op[o].kind # "rebuild" \/ (~ok /\ ~op[o].was)
  BY <1>1, EndFields DEF UpgradeEnds, UpgradeEnded
<1>2. CASE ~(op[o].kind # "rebuild" \/ (~ok /\ ~op[o].was))
  <2> DEFINE step == IF ok THEN "reload" ELSE "revive"
  <2>1. op'[o] = [op[o] EXCEPT !.doing = "rebuild", !.pc = step]
    BY <1>2, BecomeFrame DEF UpgradeEnds
  <2> HIDE DEF step
  <2>2. op'[o].pc = step /\ op'[o].doing = "rebuild" /\ SameCall(o)
    BY <2>1 DEF TInv, TypeOK, Thread, SameCall
  <2> QED
    BY <1>2, <2>2 DEF UpgradeEnded, step
<1> QED
  BY <1>1, <1>2

(* A thread that ends, and one whose upgrade ends, is outside or where a    *)
(* rebuild goes on.                                                         *)
LEMMA EndedPc ==
  ASSUME TInv, NEW o \in Ops, NEW ok \in BOOLEAN, Ended(o, ok)
  PROVE  /\ op'[o].pc \in {"idle", "read"} /\ op'[o].kind = op[o].kind
         /\ op'[o].was = op[o].was
BY DEF Ended

LEMMA UpgradeEndedPc ==
  ASSUME TInv, NEW o \in Ops, NEW ok \in BOOLEAN, UpgradeEnded(o, ok)
  PROVE  /\ op'[o].pc \in {"idle", "read", "reload", "revive"} /\ op'[o].kind = op[o].kind
         /\ op'[o].was = op[o].was
BY EndedPc DEF UpgradeEnded, SameCall

(* Failures are only ever added.                                            *)
LEMMA StepFails ==
  ASSUME TInv, NEW o \in Ops, Step(o)
  PROVE  UNCHANGED faults \/ \E kind \in AllFaults : Fault(kind)
BY DEF Step, AllFaults, Read, CheckStart, CheckRestart, CheckReconcile, Apply, Create,
   Keep, Run, CheckStop, Halt, Note, Unload, Delete, Acquire, Guard, Clone, MoveAside,
   MoveIn, Teardown, Provision, Undo, PutBack, ProvisionAgain, Drop, Record, Look,
   HaltForPull, Revive, Reload, Image, Recreate, Renew, Resave, Rerun, LookFirst

LEMMA FaultCounts ==
  ASSUME TInv, NEW kind, Fault(kind)
  PROVE  /\ faults.count \in Nat /\ faults'.count = faults.count + 1
         /\ faults'.kinds = faults.kinds \cup {kind}
<1>1. faults.count \in Nat
  BY BoundAssumption DEF TInv, TypeOK
<1> QED
  BY <1>1 DEF Fault

LEMMA FaultsGrow ==
  ASSUME TInv, NEW o \in Ops, Step(o)
  PROVE  /\ faults.kinds \subseteq faults'.kinds
         /\ faults.count \in Nat /\ faults'.count \in Nat /\ faults'.count >= faults.count
         /\ (faults.count = 0 => faults.kinds = {}) => (faults'.count = 0 => faults'.kinds = {})
<1>1. faults.count \in Nat
  BY BoundAssumption DEF TInv, TypeOK
<1>2. CASE UNCHANGED faults
  BY <1>1, <1>2
<1>3. CASE \E kind \in AllFaults : Fault(kind)
  <2>1. PICK kind \in AllFaults : Fault(kind)
    BY <1>3
  <2> QED
    BY <1>1, <2>1, FaultCounts
<1> QED
  BY <1>2, <1>3, StepFails


(* The step a thread takes is the one it is at.                             *)
LEMMA StepAt ==
  ASSUME NEW o \in Ops, Step(o)
  PROVE  \/ op[o].pc = "read" /\ Read(o)
         \/ op[o].pc = "check" /\ op[o].doing = "start" /\ CheckStart(o)
         \/ op[o].pc = "check" /\ op[o].doing = "restart" /\ CheckRestart(o)
         \/ op[o].pc = "check" /\ op[o].doing = "reconcile" /\ CheckReconcile(o)
         \/ op[o].pc = "apply" /\ Apply(o)
         \/ op[o].pc = "create" /\ Create(o)
         \/ op[o].pc = "keep" /\ Keep(o)
         \/ op[o].pc = "run" /\ Run(o)
         \/ op[o].pc = "check" /\ op[o].doing \in {"stop", "kill"} /\ CheckStop(o)
         \/ op[o].pc = "halt" /\ Halt(o)
         \/ op[o].pc = "note" /\ Note(o)
         \/ op[o].pc = "unload" /\ Unload(o)
         \/ op[o].pc = "delete" /\ Delete(o)
         \/ op[o].pc = "lock" /\ Acquire(o)
         \/ op[o].pc = "guard" /\ Guard(o)
         \/ op[o].pc = "clone" /\ Clone(o)
         \/ op[o].pc = "aside" /\ MoveAside(o)
         \/ op[o].pc = "movein" /\ MoveIn(o)
         \/ op[o].pc = "teardown" /\ Teardown(o)
         \/ op[o].pc = "provision" /\ Provision(o)
         \/ op[o].pc = "undo" /\ Undo(o)
         \/ op[o].pc = "putback" /\ PutBack(o)
         \/ op[o].pc = "again" /\ ProvisionAgain(o)
         \/ op[o].pc = "drop" /\ Drop(o)
         \/ op[o].pc = "record" /\ Record(o)
         \/ op[o].pc = "look" /\ op[o].doing = "rebuild" /\ Look(o)
         \/ op[o].pc = "pull" /\ HaltForPull(o)
         \/ op[o].pc = "revive" /\ Revive(o)
         \/ op[o].pc = "reload" /\ Reload(o)
         \/ op[o].pc = "image" /\ Image(o)
         \/ op[o].pc = "recreate" /\ Recreate(o)
         \/ op[o].pc = "renew" /\ Renew(o)
         \/ op[o].pc = "resave" /\ Resave(o)
         \/ op[o].pc = "rerun" /\ Rerun(o)
         \/ op[o].pc = "look" /\ op[o].doing = "update" /\ LookFirst(o)
<1>1. Read(o) => op[o].pc = "read"
  BY DEF Read, At
<1>2. CheckStart(o) => op[o].pc = "check" /\ op[o].doing = "start"
  BY DEF CheckStart, At
<1>3. CheckRestart(o) => op[o].pc = "check" /\ op[o].doing = "restart"
  BY DEF CheckRestart, At
<1>4. CheckReconcile(o) => op[o].pc = "check" /\ op[o].doing = "reconcile"
  BY DEF CheckReconcile, At
<1>5. Apply(o) => op[o].pc = "apply"
  BY DEF Apply, At
<1>6. Create(o) => op[o].pc = "create"
  BY DEF Create, At
<1>7. Keep(o) => op[o].pc = "keep"
  BY DEF Keep, At
<1>8. Run(o) => op[o].pc = "run"
  BY DEF Run, At
<1>9. CheckStop(o) => op[o].pc = "check" /\ op[o].doing \in {"stop", "kill"}
  BY DEF CheckStop, At
<1>10. Halt(o) => op[o].pc = "halt"
  BY DEF Halt, At
<1>11. Note(o) => op[o].pc = "note"
  BY DEF Note, At
<1>12. Unload(o) => op[o].pc = "unload"
  BY DEF Unload, At
<1>13. Delete(o) => op[o].pc = "delete"
  BY DEF Delete, At
<1>14. Acquire(o) => op[o].pc = "lock"
  BY DEF Acquire, At
<1>15. Guard(o) => op[o].pc = "guard"
  BY DEF Guard, At
<1>16. Clone(o) => op[o].pc = "clone"
  BY DEF Clone, At
<1>17. MoveAside(o) => op[o].pc = "aside"
  BY DEF MoveAside, At
<1>18. MoveIn(o) => op[o].pc = "movein"
  BY DEF MoveIn, At
<1>19. Teardown(o) => op[o].pc = "teardown"
  BY DEF Teardown, At
<1>20. Provision(o) => op[o].pc = "provision"
  BY DEF Provision, At
<1>21. Undo(o) => op[o].pc = "undo"
  BY DEF Undo, At
<1>22. PutBack(o) => op[o].pc = "putback"
  BY DEF PutBack, At
<1>23. ProvisionAgain(o) => op[o].pc = "again"
  BY DEF ProvisionAgain, At
<1>24. Drop(o) => op[o].pc = "drop"
  BY DEF Drop, At
<1>25. Record(o) => op[o].pc = "record"
  BY DEF Record, At
<1>26. Look(o) => op[o].pc = "look" /\ op[o].doing = "rebuild"
  BY DEF Look, At
<1>27. HaltForPull(o) => op[o].pc = "pull"
  BY DEF HaltForPull, At
<1>28. Revive(o) => op[o].pc = "revive"
  BY DEF Revive, At
<1>29. Reload(o) => op[o].pc = "reload"
  BY DEF Reload, At
<1>30. Image(o) => op[o].pc = "image"
  BY DEF Image, At
<1>31. Recreate(o) => op[o].pc = "recreate"
  BY DEF Recreate, At
<1>32. Renew(o) => op[o].pc = "renew"
  BY DEF Renew, At
<1>33. Resave(o) => op[o].pc = "resave"
  BY DEF Resave, At
<1>34. Rerun(o) => op[o].pc = "rerun"
  BY DEF Rerun, At
<1>35. LookFirst(o) => op[o].pc = "look" /\ op[o].doing = "update"
  BY DEF LookFirst, At
<1> QED
  BY <1>1, <1>2, <1>3, <1>4, <1>5, <1>6, <1>7, <1>8, <1>9, <1>10, <1>11, <1>12, <1>13,
     <1>14, <1>15, <1>16, <1>17, <1>18, <1>19, <1>20, <1>21, <1>22, <1>23, <1>24, <1>25,
     <1>26, <1>27, <1>28, <1>29, <1>30, <1>31, <1>32, <1>33, <1>34, <1>35 DEF Step


(* The steps that do more to their thread than to go on or to end.          *)
Stays(o, step) ==
  /\ op'[o].pc = step /\ op'[o].kind = op[o].kind /\ op'[o].ok = op[o].ok
  /\ op'[o].was = op[o].was

LEMMA ReadEffect ==
  ASSUME TInv, NEW o \in Ops, Read(o)
  PROVE  /\ meta = None => Ended(o, FALSE)
         /\ meta # None => /\ Stays(o, FirstStep[op[o].doing])
                           /\ op'[o].doing = op[o].doing /\ op'[o].mine = meta
<1>1. CASE meta = None
  BY <1>1, EndFields DEF Read
<1>2. CASE meta # None
  <2> DEFINE step == FirstStep[op[o].doing]
  <2>1. op'[o] = [op[o] EXCEPT !.mine = meta, !.pc = step]
    BY <1>2, BecomeFrame DEF Read
  <2> HIDE DEF step
  <2>2. /\ op'[o].mine = meta /\ op'[o].doing = op[o].doing
        /\ Stays(o, step)
    BY <2>1 DEF TInv, TypeOK, Thread, Stays
  <2> QED
    BY <1>2, <2>2 DEF step
<1> QED
  BY <1>1, <1>2

LEMMA SetUpEffect ==
  ASSUME TInv, NEW o \in Ops, NEW step, Become(o, SetUp(o, step)),
         op[o].pc \notin {"idle", "read"}
  PROVE  /\ Stays(o, step) /\ op'[o].doing = op[o].doing
         /\ op'[o].mine.version = op[o].mine.version
         /\ op'[o].mine.wanted = op[o].mine.wanted
<1>1. op'[o] = SetUp(o, step)
  BY BecomeFrame
<1>2. op[o] \in Thread /\ op[o].mine \in Metas
  BY DEF TInv, TypeOK, Formed
<1>3. /\ Stays(o, step) /\ op'[o].doing = op[o].doing
      /\ op'[o].mine = [op[o].mine EXCEPT !.skipped = SetupKept(o)]
  BY <1>1, <1>2 DEF SetUp, Thread, Stays
<1> QED
  BY <1>2, <1>3 DEF Metas

LEMMA CreateEffect ==
  ASSUME TInv, NEW o \in Ops, Create(o)
  PROVE  \/ End(o, FALSE) /\ UNCHANGED world /\ (CanCreate => Fault("provision"))
         \/ /\ CanCreate /\ NewBox /\ UNCHANGED <<disk, meta, faults>>
            /\ Stays(o, IF op[o].doing = "reconcile" THEN "keep" ELSE "run")
            /\ op'[o].doing = op[o].doing /\ op'[o].mine = op[o].mine
<1> DEFINE step == IF op[o].doing = "reconcile" THEN "keep" ELSE "run"
<1>1. CASE End(o, FALSE) /\ UNCHANGED world /\ (CanCreate => Fault("provision"))
  BY <1>1
<1>2. CASE CanCreate /\ NewBox /\ UNCHANGED <<disk, meta, faults>>
           /\ Become(o, [op[o] EXCEPT !.fresh = TRUE, !.pc = step])
  <2>1. op'[o] = [op[o] EXCEPT !.fresh = TRUE, !.pc = step]
    BY <1>2, BecomeFrame
  <2> HIDE DEF step
  <2>2. Stays(o, step) /\ op'[o].doing = op[o].doing /\ op'[o].mine = op[o].mine
    BY <2>1 DEF TInv, TypeOK, Thread, Stays
  <2> QED
    BY <1>2, <2>2 DEF step
<1> QED
  BY <1>1, <1>2 DEF Create

LEMMA CloneEffect ==
  ASSUME TInv, NEW o \in Ops, Become(o, [op[o] EXCEPT !.pc = "aside", !.aim = upstream])
  PROVE  /\ Stays(o, "aside") /\ op'[o].doing = op[o].doing /\ op'[o].mine = op[o].mine
         /\ op'[o].aim = upstream
<1>1. op'[o] = [op[o] EXCEPT !.pc = "aside", !.aim = upstream]
  BY BecomeFrame
<1> QED
  BY <1>1 DEF TInv, TypeOK, Thread, Stays

LEMMA LookEffect ==
  ASSUME TInv, NEW o \in Ops, Look(o)
  PROVE  \/ End(o, FALSE)
         \/ /\ \E step \in {"image", "pull", "guard"} : op'[o].pc = step
            /\ op'[o].doing \in {op[o].doing, "upgrade"} /\ op'[o].mine = op[o].mine
            /\ op'[o].kind = op[o].kind
<1>1. CASE meta = None
  BY <1>1 DEF Look
<1>2. CASE meta # None
  <2>1. PICK pull \in BOOLEAN :
          LET moved == pull /\ moving /\ disk.repo # upstream
          IN  Become(o, [op[o] EXCEPT
                 !.was = Running,
                 !.doing = IF moved /\ ~Running THEN "upgrade" ELSE @,
                 !.pc = IF ~moved THEN "image" ELSE IF Running THEN "pull" ELSE "guard"])
    BY <1>2 DEF Look
  <2> DEFINE moved == pull /\ moving /\ disk.repo # upstream
             kind == IF moved /\ ~Running THEN "upgrade" ELSE op[o].doing
             step == IF ~moved THEN "image" ELSE IF Running THEN "pull" ELSE "guard"
  <2>2. op'[o] = [op[o] EXCEPT !.was = Running, !.doing = kind, !.pc = step]
    BY <2>1, BecomeFrame
  <2>3. step \in {"image", "pull", "guard"} /\ kind \in {op[o].doing, "upgrade"}
    OBVIOUS
  <2> HIDE DEF step, kind
  <2>4. /\ op'[o].pc = step /\ op'[o].doing = kind /\ op'[o].mine = op[o].mine
        /\ op'[o].kind = op[o].kind
    BY <2>2 DEF TInv, TypeOK, Thread
  <2> QED
    BY <2>3, <2>4
<1> QED
  BY <1>1, <1>2

LEMMA PullEffect ==
  ASSUME TInv, NEW o \in Ops, Become(o, [op[o] EXCEPT !.pc = "guard", !.doing = "upgrade"])
  PROVE  Stays(o, "guard") /\ op'[o].doing = "upgrade" /\ op'[o].mine = op[o].mine
<1>1. op'[o] = [op[o] EXCEPT !.pc = "guard", !.doing = "upgrade"]
  BY BecomeFrame
<1> QED
  BY <1>1 DEF TInv, TypeOK, Thread, Stays

LEMMA ReloadEffect ==
  ASSUME TInv, NEW o \in Ops, Become(o, [op[o] EXCEPT !.mine = meta, !.pc = "image"])
  PROVE  Stays(o, "image") /\ op'[o].doing = op[o].doing /\ op'[o].mine = meta
<1>1. op'[o] = [op[o] EXCEPT !.mine = meta, !.pc = "image"]
  BY BecomeFrame
<1> QED
  BY <1>1 DEF TInv, TypeOK, Thread, Stays

LEMMA LookFirstEffect ==
  ASSUME TInv, NEW o \in Ops, LookFirst(o)
  PROVE  /\ op'[o].pc = "read" /\ op'[o].kind = op[o].kind /\ op'[o].was = Running
         /\ op'[o].doing = IF Running THEN "stop" ELSE "upgrade"
<1> DEFINE kind == IF Running THEN "stop" ELSE "upgrade"
<1>1. op'[o] = [op[o] EXCEPT !.was = Running, !.pc = "read", !.doing = kind]
  BY BecomeFrame DEF LookFirst
<1> HIDE DEF kind
<1>2. /\ op'[o].pc = "read" /\ op'[o].kind = op[o].kind /\ op'[o].was = Running
      /\ op'[o].doing = kind
  BY <1>1 DEF TInv, TypeOK, Thread
<1> QED
  BY <1>2 DEF kind


(* The copy of meta.json stays up to date: what a thread saves is its own.  *)
LEMMA OutsideCopied ==
  ASSUME NEW o \in Ops, op'[o].pc \in {"idle", "read"}
  PROVE  Copied(op[o])'
BY DEF Copied

LEMMA AdvanceCopied ==
  ASSUME NEW o \in Ops, NEW step, Copied(op[o]), Advances(o, step), meta' = meta,
         op[o].pc \notin {"idle", "read", "reload", "revive"}, step # "check"
  PROVE  Copied(op[o])'
BY DEF Copied, Advances

LEMMA UpgradeEndsCopied ==
  ASSUME TInv, NEW o \in Ops, NEW ok \in BOOLEAN, UpgradeEnds(o, ok), meta' # None
  PROVE  Copied(op[o])'
<1>1. op'[o].pc \in {"idle", "read", "reload", "revive"}
  BY UpgradeEndsFields, UpgradeEndedPc
<1> QED
  BY <1>1 DEF Copied

LEMMA StepCopied ==
  ASSUME TInv, NEW o \in Ops, Step(o), Copied(op[o])
  PROVE  Copied(op[o])'
<1>1. CASE Read(o)
  <2>1. meta' = meta /\ At(o, "read")
    BY <1>1 DEF Read, world
  <2>2. CASE meta = None
    BY <2>2, <1>1, ReadEffect, EndedPc, OutsideCopied
  <2>3. CASE meta # None
    BY <2>1, <2>3, <1>1, ReadEffect DEF Copied
  <2> QED
    BY <2>2, <2>3
<1>2. CASE CheckStart(o)
  <2>0. At(o, "check") /\ op[o].mine \in Metas /\ meta' = meta
    BY <1>2 DEF CheckStart, At, TInv, Formed, world
  <2>1. CASE Become(o, SetUp(o, "apply"))
    BY <2>0, <2>1, SetUpEffect DEF Copied, At, Stays
  <2>2. CASE End(o, FALSE)
    BY <2>2, EndFields, EndedPc, OutsideCopied
  <2>3. CASE Goto(o, "note")
    BY <2>0, <2>3, GotoFields, AdvanceCopied DEF At
  <2> QED
    BY <1>2, <2>1, <2>2, <2>3 DEF CheckStart
<1>3. CASE CheckRestart(o)
  <2>0. At(o, "check") /\ op[o].mine \in Metas /\ meta' = meta
    BY <1>3 DEF CheckRestart, At, TInv, Formed, world
  <2>1. CASE Become(o, SetUp(o, "halt"))
    BY <2>0, <2>1, SetUpEffect DEF Copied, At, Stays
  <2>2. CASE End(o, FALSE)
    BY <2>2, EndFields, EndedPc, OutsideCopied
  <2> QED
    BY <1>3, <2>1, <2>2 DEF CheckRestart
<1>4. CASE CheckReconcile(o)
  <2>0. At(o, "check") /\ meta' = meta
    BY <1>4 DEF CheckReconcile, world
  <2>1. ASSUME NEW step \in {"apply"}, Goto(o, step) PROVE Copied(op[o])'
    BY <2>0, <2>1, GotoFields, AdvanceCopied DEF At
  <2>2. CASE \E ok \in BOOLEAN : End(o, ok)
    BY <2>2, EndFields, EndedPc, OutsideCopied
  <2> QED
    BY <1>4, <2>1, <2>2 DEF CheckReconcile
<1>5. CASE Apply(o)
  <2>0. At(o, "apply") /\ meta' = meta
    BY <1>5 DEF Apply, world
  <2>1. ASSUME NEW step \in {"run", "create"}, Goto(o, step) PROVE Copied(op[o])'
    BY <2>0, <2>1, GotoFields, AdvanceCopied DEF At
  <2>2. CASE \E ok \in BOOLEAN : End(o, ok)
    BY <2>2, EndFields, EndedPc, OutsideCopied
  <2> QED
    BY <1>5, <2>1, <2>2 DEF Apply
<1>6. CASE Create(o)
  <2>1. CASE End(o, FALSE)
    BY <2>1, EndFields, EndedPc, OutsideCopied
  <2>2. CASE ~End(o, FALSE)
    <3> DEFINE step == IF op[o].doing = "reconcile" THEN "keep" ELSE "run"
    <3>1. op'[o].pc = step /\ op'[o].mine = op[o].mine /\ meta' = meta
      BY <1>6, <2>2, CreateEffect DEF Stays
    <3>2. op[o].pc = "create"
      BY <1>6 DEF Create, At
    <3> QED
      BY <3>1, <3>2 DEF Copied
  <2> QED
    BY <2>1, <2>2
<1>7. CASE Keep(o)
  <2>1. op[o].mine \in Metas /\ meta' = op[o].mine /\ op[o].mine # None
    BY <1>7, NoneAssumption DEF Keep, Save, At, TInv, Formed, Copied
  <2>2. op'[o].pc = "run" /\ op'[o].mine = op[o].mine
    BY <1>7, GotoFields DEF Keep, Advances
  <2> QED
    BY <2>1, <2>2 DEF Copied
<1>8. CASE Run(o)
  <2>0. At(o, "run") /\ meta' = meta
    BY <1>8 DEF Run, world
  <2>1. ASSUME NEW step \in {"note"}, Goto(o, step) PROVE Copied(op[o])'
    BY <2>0, <2>1, GotoFields, AdvanceCopied DEF At
  <2>2. CASE \E ok \in BOOLEAN : End(o, ok)
    BY <2>2, EndFields, EndedPc, OutsideCopied
  <2> QED
    BY <1>8, <2>1, <2>2 DEF Run
<1>9. CASE CheckStop(o)
  <2>0. At(o, "check") /\ meta' = meta
    BY <1>9 DEF CheckStop, world
  <2>1. ASSUME NEW step \in {"halt", "note"}, Goto(o, step) PROVE Copied(op[o])'
    BY <2>0, <2>1, GotoFields, AdvanceCopied DEF At
  <2> QED
    BY <1>9, <2>1 DEF CheckStop
<1>10. CASE Halt(o)
  <2>0. At(o, "halt") /\ meta' = meta
    BY <1>10 DEF Halt, world
  <2>1. ASSUME NEW step \in {"apply", "note"}, Goto(o, step) PROVE Copied(op[o])'
    BY <2>0, <2>1, GotoFields, AdvanceCopied DEF At
  <2>2. CASE \E ok \in BOOLEAN : End(o, ok)
    BY <2>2, EndFields, EndedPc, OutsideCopied
  <2> QED
    BY <1>10, <2>1, <2>2 DEF Halt
<1>11. CASE Note(o)
  BY <1>11, EndFields, EndedPc, OutsideCopied DEF Note
<1>12. CASE Unload(o)
  <2>0. At(o, "unload") /\ meta' = meta
    BY <1>12 DEF Unload, world
  <2>1. ASSUME NEW step \in {"delete"}, Goto(o, step) PROVE Copied(op[o])'
    BY <2>0, <2>1, GotoFields, AdvanceCopied DEF At
  <2>2. CASE \E ok \in BOOLEAN : End(o, ok)
    BY <2>2, EndFields, EndedPc, OutsideCopied
  <2> QED
    BY <1>12, <2>1, <2>2 DEF Unload
<1>13. CASE Delete(o)
  BY <1>13, FinishFields, EndedPc, OutsideCopied DEF Delete
<1>14. CASE Acquire(o)
  <2>0. At(o, "lock") /\ meta' = meta
    BY <1>14 DEF Acquire, world
  <2>1. ASSUME NEW step \in {"look", "guard"}, Goto(o, step) PROVE Copied(op[o])'
    BY <2>0, <2>1, GotoFields, AdvanceCopied DEF At
  <2>2. CASE \E ok \in BOOLEAN : End(o, ok)
    BY <2>2, EndFields, EndedPc, OutsideCopied
  <2> QED
    BY <1>14, <2>1, <2>2 DEF Acquire
<1>15. CASE Guard(o)
  <2>0. At(o, "guard") /\ meta' = meta
    BY <1>15 DEF Guard, world
  <2>1. ASSUME NEW step \in {"clone"}, Goto(o, step) PROVE Copied(op[o])'
    BY <2>0, <2>1, GotoFields, AdvanceCopied DEF At
  <2>2. CASE \E ok \in BOOLEAN : UpgradeEnds(o, ok)
    BY <2>0, <2>2, UpgradeEndsCopied DEF At, Copied
  <2> QED
    BY <1>15, <2>1, <2>2 DEF Guard
<1>16. CASE Clone(o)
  <2>0. At(o, "clone") /\ meta # None /\ meta' = meta
    BY <1>16 DEF Clone, At, Copied
  <2>1. CASE Become(o, [op[o] EXCEPT !.pc = "aside", !.aim = upstream])
    BY <2>0, <2>1, CloneEffect DEF Copied, At, Stays
  <2>2. CASE \E ok \in BOOLEAN : UpgradeEnds(o, ok)
    BY <2>0, <2>2, UpgradeEndsCopied
  <2> QED
    BY <1>16, <2>1, <2>2 DEF Clone
<1>17. CASE MoveAside(o)
  <2>0. At(o, "aside") /\ meta' = meta
    BY <1>17 DEF MoveAside, world
  <2>1. ASSUME NEW step \in {"movein"}, Goto(o, step) PROVE Copied(op[o])'
    BY <2>0, <2>1, GotoFields, AdvanceCopied DEF At
  <2>2. CASE \E ok \in BOOLEAN : UpgradeEnds(o, ok)
    BY <2>0, <2>2, UpgradeEndsCopied DEF At, Copied
  <2> QED
    BY <1>17, <2>1, <2>2 DEF MoveAside
<1>18. CASE MoveIn(o)
  <2>0. At(o, "movein") /\ meta' = meta
    BY <1>18 DEF MoveIn, world
  <2>1. ASSUME NEW step \in {"teardown"}, Goto(o, step) PROVE Copied(op[o])'
    BY <2>0, <2>1, GotoFields, AdvanceCopied DEF At
  <2>2. CASE \E ok \in BOOLEAN : UpgradeEnds(o, ok)
    BY <2>0, <2>2, UpgradeEndsCopied DEF At, Copied
  <2> QED
    BY <1>18, <2>1, <2>2 DEF MoveIn
<1>19. CASE Teardown(o)
  <2>0. At(o, "teardown") /\ meta' = meta
    BY <1>19 DEF Teardown, world
  <2>1. ASSUME NEW step \in {"provision"}, Goto(o, step) PROVE Copied(op[o])'
    BY <2>0, <2>1, GotoFields, AdvanceCopied DEF At
  <2>2. CASE \E ok \in BOOLEAN : UpgradeEnds(o, ok)
    BY <2>0, <2>2, UpgradeEndsCopied DEF At, Copied
  <2> QED
    BY <1>19, <2>1, <2>2 DEF Teardown
<1>20. CASE Provision(o)
  <2>0. At(o, "provision") /\ meta' = meta
    BY <1>20 DEF Provision, world
  <2>1. ASSUME NEW step \in {"drop", "undo"}, Goto(o, step) PROVE Copied(op[o])'
    BY <2>0, <2>1, GotoFields, AdvanceCopied DEF At
  <2>2. CASE \E ok \in BOOLEAN : UpgradeEnds(o, ok)
    BY <2>0, <2>2, UpgradeEndsCopied DEF At, Copied
  <2> QED
    BY <1>20, <2>1, <2>2 DEF Provision
<1>21. CASE Undo(o)
  BY <1>21, GotoFields, AdvanceCopied DEF Undo, At
<1>22. CASE PutBack(o)
  <2>0. At(o, "putback") /\ meta' = meta
    BY <1>22 DEF PutBack, world
  <2>1. ASSUME NEW step \in {"again"}, Goto(o, step) PROVE Copied(op[o])'
    BY <2>0, <2>1, GotoFields, AdvanceCopied DEF At
  <2>2. CASE \E ok \in BOOLEAN : UpgradeEnds(o, ok)
    BY <2>0, <2>2, UpgradeEndsCopied DEF At, Copied
  <2> QED
    BY <1>22, <2>1, <2>2 DEF PutBack
<1>23. CASE ProvisionAgain(o)
  <2>1. meta' # None
    BY <1>23 DEF ProvisionAgain, At, Copied
  <2> QED
    BY <1>23, <2>1, UpgradeEndsCopied DEF ProvisionAgain
<1>24. CASE Drop(o)
  BY <1>24, GotoFields, AdvanceCopied DEF Drop, At
<1>25. CASE Record(o)
  <2>1. op[o].mine \in Metas /\ meta' = [op[o].mine EXCEPT !.version = op[o].aim]
    BY <1>25 DEF Record, Save, At, TInv, Formed
  <2>2. op[o].aim \in Versions
    BY <1>25 DEF Record, At, TInv, Formed, Aiming
  <2>3. meta' \in Metas
    BY <2>1, <2>2 DEF Metas
  <2>4. meta' # None
    BY <2>3, NoneAssumption
  <2> QED
    BY <1>25, <2>4, UpgradeEndsCopied DEF Record
<1>26. CASE Look(o)
  <2>0. At(o, "look") /\ meta' = meta
    BY <1>26 DEF Look, At, world
  <2>1. CASE End(o, FALSE)
    BY <2>1, EndFields, EndedPc, OutsideCopied
  <2>2. CASE ~End(o, FALSE)
    BY <1>26, <2>0, <2>2, LookEffect DEF Copied, At
  <2> QED
    BY <2>1, <2>2
<1>27. CASE HaltForPull(o)
  <2>1. CASE End(o, FALSE)
    BY <2>1, EndFields, EndedPc, OutsideCopied
  <2>2. CASE Become(o, [op[o] EXCEPT !.pc = "guard", !.doing = "upgrade"])
    BY <1>27, <2>2, PullEffect DEF HaltForPull, At, Copied, Stays
  <2> QED
    BY <1>27, <2>1, <2>2 DEF HaltForPull
<1>28. CASE Revive(o)
  BY <1>28, EndFields, EndedPc, OutsideCopied DEF Revive
<1>29. CASE Reload(o)
  <2>1. CASE End(o, FALSE)
    BY <2>1, EndFields, EndedPc, OutsideCopied
  <2>2. CASE ~End(o, FALSE)
    BY <1>29, <2>2, ReloadEffect DEF Reload, Copied, Stays, world
  <2> QED
    BY <2>1, <2>2
<1>30. CASE Image(o)
  <2>0. At(o, "image") /\ meta' = meta
    BY <1>30 DEF Image, world
  <2>1. ASSUME NEW step \in {"recreate"}, Goto(o, step) PROVE Copied(op[o])'
    BY <2>0, <2>1, GotoFields, AdvanceCopied DEF At
  <2>2. CASE \E ok \in BOOLEAN : End(o, ok)
    BY <2>2, EndFields, EndedPc, OutsideCopied
  <2> QED
    BY <1>30, <2>1, <2>2 DEF Image
<1>31. CASE Recreate(o)
  <2>0. At(o, "recreate") /\ meta' = meta
    BY <1>31 DEF Recreate, world
  <2>1. ASSUME NEW step \in {"renew"}, Goto(o, step) PROVE Copied(op[o])'
    BY <2>0, <2>1, GotoFields, AdvanceCopied DEF At
  <2>2. CASE \E ok \in BOOLEAN : End(o, ok)
    BY <2>2, EndFields, EndedPc, OutsideCopied
  <2> QED
    BY <1>31, <2>1, <2>2 DEF Recreate
<1>32. CASE Renew(o)
  <2>0. At(o, "renew") /\ meta' = meta
    BY <1>32 DEF Renew, world
  <2>1. ASSUME NEW step \in {"resave"}, Goto(o, step) PROVE Copied(op[o])'
    BY <2>0, <2>1, GotoFields, AdvanceCopied DEF At
  <2>2. CASE \E ok \in BOOLEAN : End(o, ok)
    BY <2>2, EndFields, EndedPc, OutsideCopied
  <2> QED
    BY <1>32, <2>1, <2>2 DEF Renew
<1>33. CASE Resave(o)
  <2>1. op[o].mine \in Metas /\ meta' = op[o].mine /\ op[o].mine # None
    BY <1>33, NoneAssumption DEF Resave, Save, At, TInv, Formed, Copied
  <2>2. CASE Goto(o, "rerun")
    BY <2>1, <2>2, GotoFields DEF Copied, Advances
  <2>3. CASE End(o, TRUE)
    BY <2>3, EndFields, EndedPc, OutsideCopied
  <2> QED
    BY <1>33, <2>2, <2>3 DEF Resave
<1>34. CASE Rerun(o)
  BY <1>34, EndFields, EndedPc, OutsideCopied DEF Rerun
<1>35. CASE LookFirst(o)
  <2>0. At(o, "look") /\ meta' = meta
    BY <1>35 DEF LookFirst, At, world
  <2> QED
    BY <1>35, LookFirstEffect, OutsideCopied
<1> QED
  BY <1>1, <1>2, <1>3, <1>4, <1>5, <1>6, <1>7, <1>8, <1>9, <1>10, <1>11, <1>12, <1>13,
     <1>14, <1>15, <1>16, <1>17, <1>18, <1>19, <1>20, <1>21, <1>22, <1>23, <1>24, <1>25,
     <1>26, <1>27, <1>28, <1>29, <1>30, <1>31, <1>32, <1>33, <1>34, <1>35 DEF Step


(* Outside an upgrade a step leaves the directories alone, keeps the version *)
(* in meta.json and creates a container only from the repository.           *)
Calm(o) ==
  /\ disk' = disk /\ op[o].pc \notin Changing /\ op'[o].pc \notin Changing
  /\ meta' # None => meta # None /\ meta'.version = meta.version
  /\ box' # None => box'.of = disk.repo \/ (box # None /\ box'.of = box.of)

LEMMA CalmVersioned ==
  ASSUME NEW o \in Ops, Calm(o), faults.kinds \subseteq faults'.kinds,
         Versioned(op[o]), Placed(op[o])
  PROVE  Versioned(op[o])' /\ Placed(op[o])'
<1>1. Versioned(op[o])'
  BY DEF Calm, Versioned, Settled, Between, Changing
<1>2. Placed(op[o])'
  BY DEF Calm, Placed, Changing
<1> QED
  BY <1>1, <1>2

LEMMA BoxFields ==
  ASSUME TInv
  PROVE  /\ box # None => /\ Stopped.of = box.of /\ ~Stopped.running /\ Stopped # None
                          /\ [box EXCEPT !.running = TRUE].of = box.of
                          /\ [box EXCEPT !.running = TRUE].running
                          /\ [box EXCEPT !.running = TRUE] # None
         /\ NewBox /\ CanCreate => box'.of = disk.repo /\ ~box'.running /\ box' # None
<1>1. box \in Boxes \cup {None} /\ disk.repo \in Versions \cup {None}
  BY DEF TInv, TypeOK, Dirs
<1>2. ASSUME box # None
      PROVE  /\ Stopped.of = box.of /\ ~Stopped.running /\ Stopped \in Boxes
             /\ [box EXCEPT !.running = TRUE].of = box.of
             /\ [box EXCEPT !.running = TRUE].running
             /\ [box EXCEPT !.running = TRUE] \in Boxes
  BY <1>1, <1>2 DEF Stopped, Boxes
<1>3. ASSUME NewBox, CanCreate PROVE box'.of = disk.repo /\ ~box'.running /\ box' \in Boxes
  BY <1>1, <1>3 DEF NewBox, CanCreate, Boxes
<1> QED
  BY <1>2, <1>3, NoneAssumption

LEMMA StepCalm ==
  ASSUME TInv, NEW o \in Ops, Step(o), Copied(op[o]), op[o].pc \notin Changing,
         op[o].pc \notin {"delete", "guard", "clone", "again"}
  PROVE  Calm(o)
<1>0. /\ meta' = meta => (meta' # None => meta # None /\ meta'.version = meta.version)
      /\ box' = box \/ box' = None => (box' # None => box # None /\ box'.of = box.of)
      /\ \A ok \in BOOLEAN : End(o, ok) => op'[o].pc \notin Changing
      /\ \A step : Goto(o, step) => op'[o].pc = step
      /\ \A step : op[o].pc = "check" /\ Become(o, SetUp(o, step)) => op'[o].pc = step
  <2>1. ASSUME NEW ok \in BOOLEAN, End(o, ok) PROVE op'[o].pc \notin Changing
    BY <2>1, EndFields, EndedPc DEF Changing
  <2>2. ASSUME NEW step, Goto(o, step) PROVE op'[o].pc = step
    BY <2>2, GotoFields DEF Advances
  <2>3. ASSUME NEW step, op[o].pc = "check", Become(o, SetUp(o,
  step)) PROVE op'[o].pc = step
    BY <2>3, SetUpEffect DEF Stays
  <2> QED
    BY <2>1, <2>2, <2>3
<1>1. CASE Read(o)
  <2>1. op'[o].pc \notin Changing
    <3>1. FirstStep[op[o].doing] \notin Changing
      BY DEF FirstStep, Changing, TInv, TypeOK, Thread, AllKinds
    <3> QED
      BY <1>0, <1>1, <3>1, ReadEffect DEF Stays, Read
  <2> QED
    BY <1>0, <1>1, <2>1 DEF Read, Calm, world
<1>2. CASE CheckStart(o)
  <2>1. op'[o].pc \notin Changing
    BY <1>0, <1>2 DEF CheckStart, At, Stays, Changing
  <2> QED
    BY <1>0, <1>2, <2>1 DEF CheckStart, Calm, world
<1>3. CASE CheckRestart(o)
  <2>1. op'[o].pc \notin Changing
    BY <1>0, <1>3 DEF CheckRestart, At, Stays, Changing
  <2> QED
    BY <1>0, <1>3, <2>1 DEF CheckRestart, Calm, world
<1>4. CASE CheckReconcile(o)
  <2>1. op'[o].pc \notin Changing
    BY <1>0, <1>4 DEF CheckReconcile, At, Stays, Changing
  <2> QED
    BY <1>0, <1>4, <2>1 DEF CheckReconcile, Calm, world
<1>5. CASE Apply(o)
  <2>1. op'[o].pc \notin Changing
    BY <1>0, <1>5 DEF Apply, At, Stays, Changing
  <2> QED
    BY <1>0, <1>5, <2>1 DEF Apply, Calm, world
<1>6. CASE Create(o)
  <2>1. op'[o].pc \notin Changing
    BY <1>0, <1>6, CreateEffect DEF Create, At, Stays, Changing
  <2>2. /\ disk' = disk /\ meta' = meta
        /\ box' = box \/ (CanCreate /\ NewBox)
    BY <1>6, CreateEffect DEF world
  <2> QED
    BY <1>0, <2>1, <2>2, BoxFields DEF Calm
<1>7. CASE Keep(o)
  <2>1. op'[o].pc \notin Changing
    BY <1>0, <1>7 DEF Keep, At, Stays, Changing
  <2>2. op[o].mine \in Metas /\ op[o].mine.version = meta.version /\ meta # None
    BY <1>7 DEF Keep, At, Copied, TInv, Formed
  <2>3. meta'.version = meta.version
    BY <1>7, <2>2 DEF Keep, Save
  <2> QED
    BY <1>0, <1>7, <2>1, <2>2, <2>3 DEF Keep, Calm
<1>8. CASE Run(o)
  <2>1. op'[o].pc \notin Changing
    BY <1>0, <1>8 DEF Run, At, Stays, Changing
  <2> QED
    BY <1>0, <1>8, <2>1, BoxFields DEF Run, Calm, world, Stopped
<1>9. CASE CheckStop(o)
  <2>1. op'[o].pc \notin Changing
    BY <1>0, <1>9 DEF CheckStop, At, Stays, Changing
  <2> QED
    BY <1>0, <1>9, <2>1 DEF CheckStop, Calm, world
<1>10. CASE Halt(o)
  <2>1. op'[o].pc \notin Changing
    BY <1>0, <1>10 DEF Halt, At, Stays, Changing
  <2> QED
    BY <1>0, <1>10, <2>1, BoxFields DEF Halt, Calm, world, Stopped
<1>11. CASE Note(o)
  <2>1. op'[o].pc \notin Changing
    BY <1>0, <1>11 DEF Note, At, Stays, Changing
  <2>2. op[o].mine \in Metas /\ op[o].mine.version = meta.version /\ meta # None
    BY <1>11 DEF Note, At, Copied, TInv, Formed
  <2>3. meta'.version = meta.version
    BY <1>11, <2>2 DEF Note, Save, Metas
  <2> QED
    BY <1>0, <1>11, <2>1, <2>2, <2>3 DEF Note, Calm
<1>12. CASE Unload(o)
  <2>1. op'[o].pc \notin Changing
    BY <1>0, <1>12 DEF Unload, At, Stays, Changing
  <2> QED
    BY <1>0, <1>12, <2>1 DEF Unload, Calm, world
<1>13. CASE Delete(o)
  BY <1>13 DEF Delete, At, Changing
<1>14. CASE Acquire(o)
  <2>1. op'[o].pc \notin Changing
    BY <1>0, <1>14 DEF Acquire, At, Stays, Changing
  <2> QED
    BY <1>0, <1>14, <2>1 DEF Acquire, Calm, world
<1>15. CASE Guard(o)
  BY <1>15 DEF Guard, At, Changing
<1>16. CASE Clone(o)
  BY <1>16 DEF Clone, At, Changing
<1>17. CASE MoveAside(o)
  BY <1>17 DEF MoveAside, At, Changing
<1>18. CASE MoveIn(o)
  BY <1>18 DEF MoveIn, At, Changing
<1>19. CASE Teardown(o)
  BY <1>19 DEF Teardown, At, Changing
<1>20. CASE Provision(o)
  BY <1>20 DEF Provision, At, Changing
<1>21. CASE Undo(o)
  BY <1>21 DEF Undo, At, Changing
<1>22. CASE PutBack(o)
  BY <1>22 DEF PutBack, At, Changing
<1>23. CASE ProvisionAgain(o)
  BY <1>23 DEF ProvisionAgain, At, Changing
<1>24. CASE Drop(o)
  BY <1>24 DEF Drop, At, Changing
<1>25. CASE Record(o)
  BY <1>25 DEF Record, At, Changing
<1>26. CASE Look(o)
  <2>1. op'[o].pc \notin Changing
    BY <1>0, <1>26, LookEffect DEF Look, At, Stays, Changing
  <2> QED
    BY <1>0, <1>26, <2>1 DEF Look, Calm, world
<1>27. CASE HaltForPull(o)
  <2>1. op'[o].pc \notin Changing
    BY <1>0, <1>27, PullEffect DEF HaltForPull, At, Stays, Changing
  <2> QED
    BY <1>0, <1>27, <2>1, BoxFields DEF HaltForPull, Calm, world, Stopped
<1>28. CASE Revive(o)
  <2>1. op'[o].pc \notin Changing
    BY <1>0, <1>28 DEF Revive, At, Stays, Changing
  <2> QED
    BY <1>0, <1>28, <2>1, BoxFields DEF Revive, Calm, world, Stopped
<1>29. CASE Reload(o)
  <2>1. op'[o].pc \notin Changing
    BY <1>0, <1>29, ReloadEffect DEF Reload, At, Stays, Changing
  <2> QED
    BY <1>0, <1>29, <2>1 DEF Reload, Calm, world
<1>30. CASE Image(o)
  <2>1. op'[o].pc \notin Changing
    BY <1>0, <1>30 DEF Image, At, Stays, Changing
  <2> QED
    BY <1>0, <1>30, <2>1 DEF Image, Calm, world
<1>31. CASE Recreate(o)
  <2>1. op'[o].pc \notin Changing
    BY <1>0, <1>31 DEF Recreate, At, Stays, Changing
  <2> QED
    BY <1>0, <1>31, <2>1 DEF Recreate, Calm, world
<1>32. CASE Renew(o)
  <2>1. op'[o].pc \notin Changing
    BY <1>0, <1>32 DEF Renew, At, Stays, Changing
  <2> QED
    BY <1>0, <1>32, <2>1, BoxFields DEF Renew, Calm, world, Stopped
<1>33. CASE Resave(o)
  <2>1. op'[o].pc \notin Changing
    BY <1>0, <1>33 DEF Resave, At, Stays, Changing
  <2>2. op[o].mine \in Metas /\ op[o].mine.version = meta.version /\ meta # None
    BY <1>33 DEF Resave, At, Copied, TInv, Formed
  <2>3. meta'.version = meta.version
    BY <1>33, <2>2 DEF Resave, Save
  <2> QED
    BY <1>0, <1>33, <2>1, <2>2, <2>3 DEF Resave, Calm
<1>34. CASE Rerun(o)
  <2>1. op'[o].pc \notin Changing
    BY <1>0, <1>34 DEF Rerun, At, Stays, Changing
  <2> QED
    BY <1>0, <1>34, <2>1, BoxFields DEF Rerun, Calm, world, Stopped
<1>35. CASE LookFirst(o)
  <2>1. op'[o].pc \notin Changing
    BY <1>0, <1>35, LookFirstEffect DEF LookFirst, At, Stays, Changing
  <2> QED
    BY <1>0, <1>35, <2>1 DEF LookFirst, Calm, world
<1> QED
  BY <1>1, <1>2, <1>3, <1>4, <1>5, <1>6, <1>7, <1>8, <1>9, <1>10, <1>11, <1>12, <1>13,
     <1>14, <1>15, <1>16, <1>17, <1>18, <1>19, <1>20, <1>21, <1>22, <1>23, <1>24, <1>25,
     <1>26, <1>27, <1>28, <1>29, <1>30, <1>31, <1>32, <1>33, <1>34, <1>35 DEF Step

(* Inside an upgrade it moves the versions as Between says.                 *)
LEMMA StepVersioned ==
  ASSUME TInv, NEW o \in Ops, Step(o), Copied(op[o]), Versioned(op[o]), Placed(op[o]),
         op[o].pc \in Swapping => disk.old # None
  PROVE  Versioned(op[o])' /\ Placed(op[o])'
<1>1. /\ faults.kinds \subseteq faults'.kinds
      /\ \A kind : Fault(kind) => kind \in faults'.kinds
  BY FaultsGrow DEF Fault
<1>2. /\ disk \in Dirs /\ None \notin Versions
      /\ op[o].pc \in Aiming => op[o].aim \in Versions
      /\ meta # None => meta.version \in Versions
  BY VersionAssumption DEF TInv, TypeOK, Formed, Metas
<1>3. \A kind : Fault(kind) /\ kind \notin RolledBack => ~(faults'.kinds \subseteq RolledBack)
  BY <1>1
<1>4. \A kind : Fault(kind) /\ kind \notin UpgradeFaults => ~(faults'.kinds \subseteq UpgradeFaults)
  BY <1>1
<1>5. ASSUME NEW ok \in BOOLEAN, UpgradeEnds(o, ok)
      PROVE  op'[o].pc \in {"idle", "read", "reload", "revive"}
  BY <1>5, UpgradeEndsFields, UpgradeEndedPc
<1>6. CASE Guard(o)
  <2>1. disk'.repo = disk.repo /\ (Settled => disk'.new = None /\ disk'.old = None)
    BY <1>2, <1>6 DEF Guard, Dirs, Settled
  <2>2. op'[o].pc \in {"idle", "read", "reload", "revive", "clone"}
    BY <1>5, <1>6, GotoFields DEF Guard, Advances
  <2>3. op[o].pc = "guard" /\ UNCHANGED <<box, meta, faults>>
    BY <1>6 DEF Guard, At
  <2>8. Versioned(op[o])'
    BY <1>1, <1>2, <1>3, <2>1, <2>2, <2>3 DEF Versioned, Settled, Between, Changing,
       RolledBack
  <2>9. Placed(op[o])'
    BY <1>1, <1>2, <1>4, <2>1, <2>2, <2>3 DEF Placed, UpgradeFaults, Changing, Swapping
  <2> QED
    BY <2>8, <2>9
<1>7. CASE Clone(o)
  <2>0. op[o].pc = "clone" /\ UNCHANGED <<box, meta>>
    BY <1>7 DEF Clone, At
  <2>1. CASE disk' = [disk EXCEPT !.new = upstream]
             /\ Become(o, [op[o] EXCEPT !.pc = "aside", !.aim = upstream])
    <3>1. /\ disk'.repo = disk.repo /\ disk'.old = disk.old /\ disk'.new = upstream /\ upstream # None
          /\ op'[o].pc = "aside" /\ op'[o].aim = upstream
      BY <1>2, <1>5, <2>1, CloneEffect, VersionAssumption DEF Dirs, Stays, TInv, TypeOK
    <3>2. Versioned(op[o])'
      BY <1>1, <1>2, <1>3, <2>0, <2>1, <3>1 DEF Versioned, Settled, Between, Changing,
         RolledBack, Aiming
    <3>3. Placed(op[o])'
      BY <1>1, <1>2, <1>4, <2>0, <2>1, <3>1 DEF Placed, UpgradeFaults, Changing,
         Swapping, Aiming
    <3> QED
      BY <3>2, <3>3
  <2>2. CASE disk' = disk /\ \E ok \in BOOLEAN : UpgradeEnds(o, ok)
    <3>1. op'[o].pc \in {"idle", "read", "reload", "revive"}
      BY <1>2, <1>5, <2>2, <2>0
    <3>2. Versioned(op[o])'
      BY <1>1, <1>2, <1>3, <2>0, <2>2, <3>1 DEF Versioned, Settled, Between, Changing,
         RolledBack, Aiming
    <3>3. Placed(op[o])'
      BY <1>1, <1>2, <1>4, <2>0, <2>2, <3>1 DEF Placed, UpgradeFaults, Changing,
         Swapping, Aiming
    <3> QED
      BY <3>2, <3>3
  <2> QED
    BY <1>7, <2>1, <2>2 DEF Clone
<1>8. CASE MoveAside(o)
  <2>0. op[o].pc = "aside" /\ UNCHANGED <<box, meta>>
    BY <1>8 DEF MoveAside, At
  <2>1. CASE /\ disk.repo # None /\ disk.old = None
             /\ disk' = [disk EXCEPT !.repo = None, !.old = disk.repo] /\ Goto(o, "movein")
    <3>1. /\ disk'.repo = None /\ disk'.old = disk.repo /\ disk'.new = disk.new
          /\ op'[o].pc = "movein" /\ op'[o].aim = op[o].aim
      BY <1>2, <1>5, <2>1, GotoFields DEF Dirs, Advances, SameCall
    <3>2. Versioned(op[o])'
      BY <1>1, <1>2, <1>3, <2>0, <2>1, <3>1 DEF Versioned, Settled, Between, Changing,
         RolledBack, Aiming
    <3>3. Placed(op[o])'
      BY <1>1, <1>2, <1>4, <2>0, <2>1, <3>1 DEF Placed, UpgradeFaults, Changing,
         Swapping, Aiming
    <3> QED
      BY <3>2, <3>3
  <2>2. CASE disk' = [disk EXCEPT !.new = None] /\ UpgradeEnds(o, FALSE)
    <3>1. /\ disk'.repo = disk.repo /\ disk'.old = disk.old /\ disk'.new = None
          /\ op'[o].pc \in {"idle", "read", "reload", "revive"}
      BY <1>2, <1>5, <2>2, <2>0 DEF Dirs
    <3>2. Versioned(op[o])'
      BY <1>1, <1>2, <1>3, <2>0, <2>2, <3>1 DEF Versioned, Settled, Between, Changing,
         RolledBack, Aiming
    <3>3. Placed(op[o])'
      BY <1>1, <1>2, <1>4, <2>0, <2>2, <3>1 DEF Placed, UpgradeFaults, Changing,
         Swapping, Aiming
    <3> QED
      BY <3>2, <3>3
  <2> QED
    BY <1>8, <2>1, <2>2 DEF MoveAside
<1>9. CASE MoveIn(o)
  <2>0. op[o].pc = "movein" /\ UNCHANGED <<box, meta>>
    BY <1>9 DEF MoveIn, At
  <2>1. CASE /\ disk.new # None /\ disk' = [disk EXCEPT !.repo = disk.new, !.new = None]
             /\ Goto(o, "teardown")
    <3>1. /\ disk'.repo = disk.new /\ disk'.old = disk.old /\ disk'.new = None
          /\ op'[o].pc = "teardown" /\ op'[o].aim = op[o].aim
      BY <1>2, <1>5, <2>1, GotoFields DEF Dirs, Advances, SameCall
    <3>2. Versioned(op[o])'
      BY <1>1, <1>2, <1>3, <2>0, <2>1, <3>1 DEF Versioned, Settled, Between, Changing,
         RolledBack, Aiming
    <3>3. Placed(op[o])'
      BY <1>1, <1>2, <1>4, <2>0, <2>1, <3>1 DEF Placed, UpgradeFaults, Changing,
         Swapping, Aiming
    <3> QED
      BY <3>2, <3>3
  <2>2. CASE disk' = [repo |-> disk.old, new |-> None, old |-> None] /\ UpgradeEnds(o,
  FALSE)
    <3>1. /\ disk'.repo = disk.old /\ disk'.old = None /\ disk'.new = None
          /\ op'[o].pc \in {"idle", "read", "reload", "revive"}
      BY <1>2, <1>5, <2>2, <2>0
    <3>2. Versioned(op[o])'
      BY <1>1, <1>2, <1>3, <2>0, <2>2, <3>1 DEF Versioned, Settled, Between, Changing,
         RolledBack, Aiming
    <3>3. Placed(op[o])'
      BY <1>1, <1>2, <1>4, <2>0, <2>2, <3>1 DEF Placed, UpgradeFaults, Changing,
         Swapping, Aiming
    <3> QED
      BY <3>2, <3>3
  <2>3. CASE Fault("putback")
    <3>1. "putback" \in faults'.kinds
      BY <1>2, <1>5, <2>3, <1>1
    <3>2. Versioned(op[o])'
      BY <1>1, <1>2, <1>3, <2>0, <2>3, <3>1 DEF Versioned, Settled, Between, Changing,
         RolledBack, Aiming
    <3>3. Placed(op[o])'
      BY <1>1, <1>2, <1>4, <2>0, <2>3, <3>1 DEF Placed, UpgradeFaults, Changing,
         Swapping, Aiming
    <3> QED
      BY <3>2, <3>3
  <2> QED
    BY <1>9, <2>1, <2>2, <2>3 DEF MoveIn
<1>10. CASE Teardown(o)
  <2>0. op[o].pc = "teardown" /\ UNCHANGED <<disk, meta>>
    BY <1>10 DEF Teardown, At
  <2>1. CASE box' = None /\ Goto(o, "provision")
    <3>1. op'[o].pc = "provision" /\ op'[o].aim = op[o].aim
      BY <1>2, <1>5, <2>1, GotoFields DEF Advances, SameCall
    <3>2. Versioned(op[o])'
      BY <1>1, <1>2, <1>3, <2>0, <2>1, <3>1 DEF Versioned, Settled, Between, Changing,
         RolledBack, Aiming
    <3>3. Placed(op[o])'
      BY <1>1, <1>2, <1>4, <2>0, <2>1, <3>1 DEF Placed, UpgradeFaults, Changing,
         Swapping, Aiming
    <3> QED
      BY <3>2, <3>3
  <2>2. CASE Fault("teardown") /\ UpgradeEnds(o, FALSE) /\ UNCHANGED box
    <3>1. "teardown" \in faults'.kinds /\ op'[o].pc \in {"idle", "read", "reload", "revive"}
      BY <1>2, <1>5, <2>2, <1>1
    <3>2. Versioned(op[o])'
      BY <1>1, <1>2, <1>3, <2>0, <2>2, <3>1 DEF Versioned, Settled, Between, Changing,
         RolledBack, Aiming
    <3>3. Placed(op[o])'
      BY <1>1, <1>2, <1>4, <2>0, <2>2, <3>1 DEF Placed, UpgradeFaults, Changing,
         Swapping, Aiming
    <3> QED
      BY <3>2, <3>3
  <2> QED
    BY <1>10, <2>1, <2>2 DEF Teardown
<1>11. CASE Provision(o)
  <2>0. op[o].pc = "provision" /\ UNCHANGED <<disk, meta>>
    BY <1>11 DEF Provision, At
  <2>1. CASE CanCreate /\ NewBox /\ Goto(o, "drop")
    <3>1. /\ box'.of = disk.repo /\ box' # None
          /\ op'[o].pc = "drop" /\ op'[o].aim = op[o].aim
      BY <1>2, <1>5, <2>1, BoxFields, GotoFields DEF Advances, SameCall
    <3>2. Versioned(op[o])'
      BY <1>1, <1>2, <1>3, <2>0, <2>1, <3>1 DEF Versioned, Settled, Between, Changing,
         RolledBack, Aiming
    <3>3. Placed(op[o])'
      BY <1>1, <1>2, <1>4, <2>0, <2>1, <3>1 DEF Placed, UpgradeFaults, Changing,
         Swapping, Aiming
    <3> QED
      BY <3>2, <3>3
  <2>2. CASE Goto(o, "undo") /\ UNCHANGED box
    <3>1. op'[o].pc = "undo" /\ op'[o].aim = op[o].aim
      BY <1>2, <1>5, <2>2, GotoFields DEF Advances, SameCall
    <3>2. Versioned(op[o])'
      BY <1>1, <1>2, <1>3, <2>0, <2>2, <3>1 DEF Versioned, Settled, Between, Changing,
         RolledBack, Aiming
    <3>3. Placed(op[o])'
      BY <1>1, <1>2, <1>4, <2>0, <2>2, <3>1 DEF Placed, UpgradeFaults, Changing,
         Swapping, Aiming
    <3> QED
      BY <3>2, <3>3
  <2>3. CASE disk.repo = None /\ UpgradeEnds(o, FALSE) /\ UNCHANGED box
    <3>1. op'[o].pc \in {"idle", "read", "reload", "revive"}
      BY <1>2, <1>5, <2>3, <2>0
    <3>2. Versioned(op[o])'
      BY <1>1, <1>2, <1>3, <2>0, <2>3, <3>1 DEF Versioned, Settled, Between, Changing,
         RolledBack, Aiming
    <3>3. Placed(op[o])'
      BY <1>1, <1>2, <1>4, <2>0, <2>3, <3>1 DEF Placed, UpgradeFaults, Changing,
         Swapping, Aiming
    <3> QED
      BY <3>2, <3>3
  <2> QED
    BY <1>11, <2>1, <2>2, <2>3 DEF Provision
<1>12. CASE Undo(o)
  <2>0. op[o].pc = "undo" /\ UNCHANGED <<box, meta>>
    BY <1>12 DEF Undo, At
  <2>1. CASE TRUE
    <3>1. /\ disk'.repo = None /\ disk'.old = disk.old /\ disk'.new = disk.new
          /\ op'[o].pc = "putback" /\ UNCHANGED faults
      BY <1>2, <1>5, <2>1, <1>12, GotoFields DEF Undo, Advances, Dirs
    <3>2. Versioned(op[o])'
      BY <1>1, <1>2, <1>3, <2>0, <2>1, <3>1 DEF Versioned, Settled, Between, Changing,
         RolledBack, Aiming
    <3>3. Placed(op[o])'
      BY <1>1, <1>2, <1>4, <2>0, <2>1, <3>1 DEF Placed, UpgradeFaults, Changing,
         Swapping, Aiming
    <3> QED
      BY <3>2, <3>3
  <2> QED
    BY <1>12, <2>1 DEF Undo
<1>13. CASE PutBack(o)
  <2>0. op[o].pc = "putback" /\ UNCHANGED <<box, meta>>
    BY <1>13 DEF PutBack, At
  <2>1. CASE /\ disk.old # None /\ disk' = [disk EXCEPT !.repo = disk.old, !.old = None]
             /\ Goto(o, "again")
    <3>1. /\ disk'.repo = disk.old /\ disk'.old = None /\ disk'.new = disk.new
          /\ op'[o].pc = "again"
      BY <1>2, <1>5, <2>1, GotoFields DEF Dirs, Advances
    <3>2. Versioned(op[o])'
      BY <1>1, <1>2, <1>3, <2>0, <2>1, <3>1 DEF Versioned, Settled, Between, Changing,
         RolledBack, Aiming
    <3>3. Placed(op[o])'
      BY <1>1, <1>2, <1>4, <2>0, <2>1, <3>1 DEF Placed, UpgradeFaults, Changing,
         Swapping, Aiming
    <3> QED
      BY <3>2, <3>3
  <2>2. CASE disk.old = None /\ UpgradeEnds(o, FALSE) /\ UNCHANGED disk
    <3>1. op'[o].pc \in {"idle", "read", "reload", "revive"}
      BY <1>2, <1>5, <2>2, <2>0
    <3>2. Versioned(op[o])'
      BY <1>1, <1>2, <1>3, <2>0, <2>2, <3>1 DEF Versioned, Settled, Between, Changing,
         RolledBack, Aiming
    <3>3. Placed(op[o])'
      BY <1>1, <1>2, <1>4, <2>0, <2>2, <3>1 DEF Placed, UpgradeFaults, Changing,
         Swapping, Aiming
    <3> QED
      BY <3>2, <3>3
  <2>3. CASE Fault("putback")
    <3>1. "putback" \in faults'.kinds
      BY <1>2, <1>5, <2>3, <1>1
    <3>2. Versioned(op[o])'
      BY <1>1, <1>2, <1>3, <2>0, <2>3, <3>1 DEF Versioned, Settled, Between, Changing,
         RolledBack, Aiming
    <3>3. Placed(op[o])'
      BY <1>1, <1>2, <1>4, <2>0, <2>3, <3>1 DEF Placed, UpgradeFaults, Changing,
         Swapping, Aiming
    <3> QED
      BY <3>2, <3>3
  <2> QED
    BY <1>13, <2>1, <2>2, <2>3 DEF PutBack
<1>14. CASE ProvisionAgain(o)
  <2>0. op[o].pc = "again" /\ UNCHANGED <<disk, meta>>
    BY <1>14 DEF ProvisionAgain, At
  <2>1. CASE UpgradeEnds(o, FALSE) /\ ((CanCreate /\ NewBox) \/ UNCHANGED box)
    <3>1. /\ op'[o].pc \in {"idle", "read", "reload", "revive"}
          /\ box' = box \/ box'.of = disk.repo
      BY <1>2, <1>5, <2>1, BoxFields
    <3>2. Versioned(op[o])'
      BY <1>1, <1>2, <1>3, <2>0, <2>1, <3>1 DEF Versioned, Settled, Between, Changing,
         RolledBack, Aiming
    <3>3. Placed(op[o])'
      BY <1>1, <1>2, <1>4, <2>0, <2>1, <3>1 DEF Placed, UpgradeFaults, Changing,
         Swapping, Aiming
    <3> QED
      BY <3>2, <3>3
  <2> QED
    BY <1>14, <2>1 DEF ProvisionAgain
<1>15. CASE Drop(o)
  <2>0. op[o].pc = "drop" /\ UNCHANGED <<box, meta>>
    BY <1>15 DEF Drop, At
  <2>1. CASE TRUE
    <3>1. /\ disk'.repo = disk.repo /\ disk'.old = None /\ disk'.new = disk.new
          /\ op'[o].pc = "record" /\ op'[o].aim = op[o].aim /\ UNCHANGED faults
      BY <1>2, <1>5, <2>1, <1>15, GotoFields DEF Drop, Advances, SameCall, Dirs
    <3>2. Versioned(op[o])'
      BY <1>1, <1>2, <1>3, <2>0, <2>1, <3>1 DEF Versioned, Settled, Between, Changing,
         RolledBack, Aiming
    <3>3. Placed(op[o])'
      BY <1>1, <1>2, <1>4, <2>0, <2>1, <3>1 DEF Placed, UpgradeFaults, Changing,
         Swapping, Aiming
    <3> QED
      BY <3>2, <3>3
  <2> QED
    BY <1>15, <2>1 DEF Drop
<1>16. CASE Record(o)
  <2>1. op[o].mine \in Metas /\ meta' = [op[o].mine EXCEPT !.version = op[o].aim]
    BY <1>16 DEF Record, Save, At, TInv, Formed
  <2>2. meta'.version = op[o].aim
    BY <2>1 DEF Metas
  <2>3. op[o].pc = "record" /\ meta # None /\ UNCHANGED <<disk, box, faults>>
    BY <1>16 DEF Record, At, Copied
  <2>4. op'[o].pc \in {"idle", "read", "reload", "revive"}
    BY <1>5, <1>16 DEF Record
  <2>8. Versioned(op[o])'
    BY <1>1, <1>2, <1>3, <2>2, <2>3, <2>4 DEF Versioned, Settled, Between, Changing,
       RolledBack
  <2>9. Placed(op[o])'
    BY <1>1, <1>2, <1>4, <2>2, <2>3, <2>4 DEF Placed, UpgradeFaults, Changing, Swapping
  <2> QED
    BY <2>8, <2>9
<1>17. CASE Delete(o)
  <2>1. op'[o].pc \in {"idle", "read"} /\ meta' = None
    BY <1>17, FinishFields, EndedPc DEF Delete
  <2> QED
    BY <2>1 DEF Versioned, Placed
<1>18. CASE Calm(o)
  BY <1>1, <1>18, CalmVersioned
<1>19. op[o].pc \in Changing \cup {"delete", "guard", "clone", "again"}
         => Guard(o) \/ Clone(o) \/ MoveAside(o) \/ MoveIn(o) \/ Teardown(o) \/ Provision(o)
            \/ Undo(o) \/ PutBack(o) \/ ProvisionAgain(o) \/ Drop(o) \/ Record(o)
            \/ Delete(o)
  BY StepAt DEF Changing
<1> QED
  BY <1>6, <1>7, <1>8, <1>9, <1>10, <1>11, <1>12, <1>13, <1>14, <1>15, <1>16, <1>17, <1>18,
     <1>19, StepCalm


(* Of a step's thread only the copy, the step, the part and the result      *)
(* change.                                                                  *)
LEMMA StepKind ==
  ASSUME TInv, NEW o \in Ops, Step(o)
  PROVE  op'[o].kind = op[o].kind /\ op[o].pc # "idle"
BY StepShape DEF Shape

(* A rebuild that goes through stops an app it found stopped, and starts    *)
(* one it found running.                                                    *)
LEMMA StepRebuilds ==
  ASSUME TInv, NEW o \in Ops, Step(o), Rebuilds(op[o])
  PROVE  Rebuilds(op[o])'
<1> SUFFICES ASSUME op[o].kind = "rebuild" PROVE Rebuilds(op[o])'
  BY StepKind DEF Rebuilds
<1>0. /\ op'[o].kind = "rebuild" /\ op[o].doing \in {"rebuild", "upgrade"}
      /\ op[o].pc \in {"read", "lock", "look"} \cup LockedSteps
      /\ op[o].pc = "resave" => ~Running
      /\ op[o].pc = "rerun" => op[o].was
  BY StepKind DEF Rebuilds
<1>1. ASSUME NEW ok \in BOOLEAN, Ended(o, ok), ok => (Running' <=> op[o].was)
      PROVE  Rebuilds(op[o])'
  <2>1. Then(o, ok) = "none"
    BY DEF Then
  <2>2. /\ op'[o].pc = "idle" /\ op'[o].doing = op[o].doing /\ op'[o].was = op[o].was
        /\ op'[o].ok => ok
    BY <1>1, <2>1 DEF Ended
  <2> QED
    BY <1>0, <1>1, <2>2 DEF Rebuilds
<1>2. End(o, FALSE) => Rebuilds(op[o])'
  BY <1>1, EndFields
<1>3. ASSUME NEW ok \in BOOLEAN, UpgradeEnds(o, ok) PROVE Rebuilds(op[o])'
  <2>1. CASE Ended(o, FALSE)
    BY <1>1, <2>1
  <2>2. CASE op'[o].doing = "rebuild" /\ op'[o].pc \in {"reload", "revive"}
    BY <2>2 DEF Rebuilds, LockedSteps
  <2> QED
    BY <1>0, <1>3, <2>1, <2>2, UpgradeEndsFields DEF UpgradeEnded
<1>4. ASSUME NEW step \in LockedSteps \ {"resave", "rerun"},
             op'[o].pc = step, op'[o].doing \in {"rebuild", "upgrade"}
      PROVE  Rebuilds(op[o])'
  BY <1>4 DEF Rebuilds, LockedSteps
<1>5. ASSUME NEW step \in LockedSteps \ {"resave", "rerun"}, Goto(o, step)
      PROVE  Rebuilds(op[o])'
  BY <1>0, <1>4, <1>5, GotoFields DEF Advances
<1>6. CASE Read(o)
  <2>1. CASE meta = None
    BY <1>1, <1>6, <2>1, ReadEffect
  <2>2. CASE meta # None
    <3>1. FirstStep[op[o].doing] = "lock"
      BY <1>0 DEF FirstStep
    <3>2. op'[o].pc = "lock" /\ op'[o].doing = op[o].doing
      BY <1>6, <2>2, <3>1, ReadEffect DEF Stays
    <3> QED
      BY <1>0, <3>2 DEF Rebuilds
  <2> QED
    BY <2>1, <2>2
<1>7. CASE Acquire(o)
  <2>1. CASE Goto(o, IF op[o].doing = "rebuild" THEN "look" ELSE "guard")
    <3>1. op'[o].pc \in {"look", "guard"} /\ op'[o].doing = op[o].doing
      BY <2>1, GotoFields DEF Advances
    <3> QED
      BY <1>0, <3>1 DEF Rebuilds, LockedSteps
  <2> QED
    BY <1>2, <1>7, <2>1 DEF Acquire
<1>8. CASE Look(o)
  <2>1. \/ End(o, FALSE)
        \/ /\ \E step \in {"image", "pull", "guard"} : op'[o].pc = step
           /\ op'[o].doing \in {op[o].doing, "upgrade"}
    BY <1>8, LookEffect
  <2> QED
    BY <1>0, <1>2, <1>4, <2>1 DEF LockedSteps
<1>9. CASE HaltForPull(o)
  <2>1. End(o, FALSE) \/ (op'[o].pc = "guard" /\ op'[o].doing = "upgrade")
    BY <1>9, PullEffect DEF HaltForPull, Stays
  <2> QED
    BY <1>2, <1>4, <2>1 DEF LockedSteps
<1>10. CASE Reload(o)
  <2>1. End(o, FALSE) \/ (op'[o].pc = "image" /\ op'[o].doing = op[o].doing)
    BY <1>10, ReloadEffect DEF Reload, Stays
  <2> QED
    BY <1>0, <1>2, <1>4, <2>1 DEF LockedSteps
<1>11. CASE Guard(o) \/ Clone(o)
  <2>1. CASE Become(o, [op[o] EXCEPT !.pc = "aside", !.aim = upstream])
    BY <1>0, <1>4, <2>1, CloneEffect DEF LockedSteps, Stays
  <2> QED
    BY <1>3, <1>5, <1>11, <2>1 DEF Guard, Clone, LockedSteps
<1>12. CASE MoveAside(o) \/ MoveIn(o) \/ Teardown(o) \/ Provision(o)
  BY <1>3, <1>5, <1>12 DEF MoveAside, MoveIn, Teardown, Provision, LockedSteps
<1>13. CASE Undo(o) \/ PutBack(o) \/ ProvisionAgain(o) \/ Drop(o) \/ Record(o)
  BY <1>3, <1>5, <1>13 DEF Undo, PutBack, ProvisionAgain, Drop, Record, LockedSteps
<1>14. CASE Revive(o) \/ Image(o) \/ Recreate(o)
  BY <1>2, <1>5, <1>14 DEF Revive, Image, Recreate, LockedSteps
<1>15. CASE Renew(o)
  <2>1. CASE CanCreate /\ NewBox /\ Goto(o, "resave")
    <3>1. ~Running'
      BY <2>1, BoxFields DEF Running
    <3>2. op'[o].pc = "resave" /\ op'[o].doing = op[o].doing
      BY <2>1, GotoFields DEF Advances
    <3> QED
      BY <1>0, <3>1, <3>2 DEF Rebuilds, LockedSteps
  <2> QED
    BY <1>2, <1>15, <2>1 DEF Renew
<1>16. CASE Resave(o)
  <2>1. op[o].pc = "resave" /\ box' = box
    BY <1>16 DEF Resave, At
  <2>2. CASE op[o].was
    <3>1. op'[o].pc = "rerun" /\ op'[o].doing = op[o].doing /\ op'[o].was = op[o].was
      BY <1>16, <2>2, GotoFields DEF Resave, Advances, SameCall
    <3> QED
      BY <1>0, <2>2, <3>1 DEF Rebuilds, LockedSteps
  <2>3. CASE ~op[o].was
    <3>1. ~Running'
      BY <1>0, <2>1 DEF Running
    <3>2. Ended(o, TRUE)
      BY <1>16, <2>3, EndFields DEF Resave
    <3> QED
      BY <1>1, <2>3, <3>1, <3>2
  <2> QED
    BY <2>2, <2>3
<1>17. CASE Rerun(o)
  <2>1. CASE box # None /\ box' = [box EXCEPT !.running = TRUE] /\ End(o, TRUE)
    <3>1. Running'
      BY <2>1, BoxFields DEF Running
    <3>2. op[o].was
      BY <1>0, <1>17 DEF Rerun, At
    <3> QED
      BY <1>1, <2>1, <3>1, <3>2, EndFields
  <2> QED
    BY <1>2, <1>17, <2>1 DEF Rerun
<1> QED
  BY <1>0, <1>6, <1>7, <1>8, <1>9, <1>10, <1>11, <1>12, <1>13, <1>14, <1>15, <1>16, <1>17,
     StepAt DEF LockedSteps

(* The start-up pass starts the container it is about to start, unless a    *)
(* call to docker fails in that very step.                                  *)
Restored ==
  /\ faults' = faults /\ disk.repo # None /\ meta # None /\ meta.wanted = "running"
  => Running'

LEMMA StepReconciles ==
  ASSUME TInv, NEW o \in Ops, Step(o), Copied(op[o]), Reconciles(op[o])
  PROVE  /\ Reconciles(op[o])'
         /\ op[o].kind = "reconcile" /\ op'[o].pc = "idle" => Restored
<1> SUFFICES ASSUME op[o].kind = "reconcile"
             PROVE  Reconciles(op[o])' /\ (op'[o].pc = "idle" => Restored)
  BY StepKind DEF Reconciles
<1>0. /\ op'[o].kind = "reconcile" /\ op[o].doing = "reconcile"
      /\ op[o].pc \in {"read", "check", "apply", "create", "keep", "run"}
      /\ op[o].pc = "create" => box = None
      /\ op[o].pc \in {"keep", "run"} => box # None \/ disk.repo = None
  BY StepKind DEF Reconciles
<1>1. ASSUME NEW ok \in BOOLEAN, Ended(o, ok) PROVE Reconciles(op[o])'
  <2>1. Then(o, ok) = "none"
    BY DEF Then
  <2> QED
    BY <1>0, <1>1, <2>1 DEF Ended, Reconciles
<1>2. \A kind : Fault(kind) => faults' # faults
  BY FaultCounts
<1>3. CASE Read(o)
  <2>1. CASE meta = None
    BY <1>1, <1>3, <2>1, ReadEffect DEF Restored
  <2>2. CASE meta # None
    <3>1. FirstStep[op[o].doing] = "check"
      BY <1>0 DEF FirstStep
    <3>2. op'[o].pc = "check" /\ op'[o].doing = op[o].doing
      BY <1>3, <2>2, <3>1, ReadEffect DEF Stays
    <3> QED
      BY <1>0, <3>2 DEF Reconciles
  <2> QED
    BY <2>1, <2>2
<1>4. CASE CheckReconcile(o)
  <2>1. op[o].mine = meta /\ box' = box
    BY <1>4 DEF CheckReconcile, At, Copied, world
  <2>2. CASE op[o].mine.wanted = "running" /\ ~Running
    <3>1. op'[o].pc = "apply" /\ op'[o].doing = op[o].doing
      BY <1>4, <2>2, GotoFields DEF CheckReconcile, Advances
    <3> QED
      BY <1>0, <3>1 DEF Reconciles
  <2>3. CASE ~(op[o].mine.wanted = "running" /\ ~Running)
    <3>1. Ended(o, TRUE)
      BY <1>4, <2>3, EndFields DEF CheckReconcile
    <3>2. meta.wanted = "running" => Running'
      BY <2>1, <2>3 DEF Running
    <3> QED
      BY <1>1, <3>1, <3>2 DEF Restored
  <2> QED
    BY <2>2, <2>3
<1>5. CASE Apply(o)
  <2>1. CASE InLine /\ Goto(o, "run") /\ UNCHANGED box
    <3>1. op'[o].pc = "run" /\ op'[o].doing = op[o].doing /\ disk' = disk
      BY <1>5, <2>1, GotoFields DEF Apply, Advances
    <3> QED
      BY <1>0, <2>1, <3>1 DEF Reconciles, InLine
  <2>2. CASE box' = None /\ Goto(o, "create")
    <3>1. op'[o].pc = "create" /\ op'[o].doing = op[o].doing
      BY <2>2, GotoFields DEF Advances
    <3> QED
      BY <1>0, <2>2, <3>1 DEF Reconciles
  <2>3. CASE Fault("remove") /\ End(o, FALSE)
    BY <1>1, <1>2, <2>3, EndFields DEF Restored
  <2> QED
    BY <1>5, <2>1, <2>2, <2>3 DEF Apply
<1>6. CASE Create(o)
  <2>1. CASE End(o, FALSE) /\ (CanCreate => Fault("provision"))
    <3>1. op[o].pc = "create"
      BY <1>6 DEF Create, At
    <3>2. disk.repo # None => Fault("provision")
      BY <1>0, <2>1, <3>1 DEF CanCreate
    <3> QED
      BY <1>1, <1>2, <2>1, <3>2, EndFields DEF Restored
  <2>2. CASE CanCreate /\ NewBox /\ Stays(o, "keep") /\ op'[o].doing = op[o].doing
    <3>1. box' # None
      BY <2>2, BoxFields
    <3> QED
      BY <1>0, <2>2, <3>1 DEF Reconciles, Stays
  <2> QED
    BY <1>0, <1>6, <2>1, <2>2, CreateEffect
<1>7. CASE Keep(o)
  <2>1. op'[o].pc = "run" /\ op'[o].doing = op[o].doing /\ UNCHANGED <<disk, box>>
    BY <1>7, GotoFields DEF Keep, Advances
  <2>2. op[o].pc = "keep"
    BY <1>7 DEF Keep, At
  <2> QED
    BY <1>0, <2>1, <2>2 DEF Reconciles
<1>8. CASE Run(o)
  <2>1. op[o].pc = "run"
    BY <1>8 DEF Run, At
  <2>2. CASE box # None /\ box' = [box EXCEPT !.running = TRUE] /\ End(o, TRUE)
    <3>1. Running'
      BY <2>2, BoxFields DEF Running
    <3> QED
      BY <1>1, <2>2, <3>1, EndFields DEF Restored
  <2>3. CASE End(o, FALSE) /\ (box # None => Fault("start"))
    BY <1>0, <1>1, <1>2, <2>1, <2>3, EndFields DEF Restored
  <2> QED
    BY <1>0, <1>8, <2>2, <2>3 DEF Run
<1> QED
  BY <1>0, <1>3, <1>4, <1>5, <1>6, <1>7, <1>8, StepAt


(* An update that found the app running brings it back: it stops it, tries  *)
(* the upgrade and starts it again, from whatever that left.                *)
MildFaults == faults'.kinds \subseteq UpgradeFaults /\ faults'.count < 2

LEMMA FaultMild ==
  ASSUME TInv, NEW kind, Fault(kind), MildFaults
  PROVE  kind \in UpgradeFaults /\ faults.count = 0 /\ faults'.count # 0
BY FaultCounts DEF MildFaults

LEMMA StopStep ==
  ASSUME TInv, NEW o \in Ops, Step(o), op[o].kind = "update", op[o].doing = "stop",
         meta # None, Stops(op[o]), MildFaults
  PROVE  meta' # None /\ Parts(op[o])' /\ op'[o].doing \in {"stop", "upgrade"}
<1>0. op[o].pc \in {"read", "check", "halt", "note"} /\ box # None
      /\ (op[o].pc # "note" => Running)
  BY DEF Stops
<1>1. CASE Read(o)
  <2>1. FirstStep[op[o].doing] = "check"
    BY DEF FirstStep
  <2>2. op'[o].pc = "check" /\ op'[o].doing = "stop"
    BY <1>1, <2>1, ReadEffect DEF Stays
  <2>3. UNCHANGED <<meta, box>> /\ Running
    BY <1>0, <1>1 DEF Read, At, world
  <2>4. Stops(op[o])'
    BY <1>0, <2>2, <2>3 DEF Stops, Running
  <2> QED
    BY <2>2, <2>3, <2>4 DEF Parts
<1>2. CASE CheckStop(o)
  <2>1. op[o].pc = "check" /\ UNCHANGED <<meta, box>>
    BY <1>2 DEF CheckStop, At, world
  <2>2. op'[o].pc = "halt" /\ op'[o].doing = "stop"
    BY <1>0, <1>2, <2>1, GotoFields DEF CheckStop, Advances
  <2>3. Stops(op[o])'
    BY <1>0, <2>1, <2>2 DEF Stops, Running
  <2> QED
    BY <2>1, <2>2, <2>3 DEF Parts
<1>3. CASE Halt(o)
  <2>1. CASE box' = Stopped /\ Goto(o, "note")
    <3>1. op'[o].pc = "note" /\ op'[o].doing = "stop" /\ meta' = meta /\ box' # None
      BY <1>0, <1>3, <2>1, BoxFields, GotoFields DEF Halt, Advances, world
    <3>2. Stops(op[o])'
      BY <3>1 DEF Stops
    <3> QED
      BY <3>1, <3>2 DEF Parts
  <2>2. CASE Fault("stop")
    BY <2>2, FaultMild DEF UpgradeFaults
  <2> QED
    BY <1>0, <1>3, <2>1, <2>2 DEF Halt
<1>4. CASE Note(o)
  <2>1. Then(o, TRUE) = "upgrade"
    BY DEF Then
  <2>2. op'[o].pc = "read" /\ op'[o].doing = "upgrade"
    BY <1>4, <2>1, EndFields DEF Note, Ended
  <2>3. box' = box
    BY <1>4 DEF Note
  <2>4. Upgrades(op[o])'
    BY <1>0, <2>2, <2>3 DEF Upgrades, Upgrading
  <2>5. op[o].mine \in Metas /\ At(o, "note")
    BY <1>4 DEF Note, At, TInv, Formed
  <2>6. meta' # None
    <3>1. [op[o].mine EXCEPT !.wanted = Wanted(o),
                 !.name = IF op[o].doing = "rename" THEN "renamed" ELSE @] \in Metas
      <4>1. Wanted(o) = "stopped"
        BY DEF Wanted
      <4> QED
        BY <2>5, <4>1 DEF Metas
    <3> QED
      BY <1>4, <3>1, NoneAssumption DEF Note, Save
  <2> QED
    BY <2>2, <2>4, <2>6 DEF Parts
<1> QED
  BY <1>0, <1>1, <1>2, <1>3, <1>4, StepAt

LEMMA UpgradeStep ==
  ASSUME TInv, NEW o \in Ops, Step(o), op[o].kind = "update", op[o].doing = "upgrade",
         op[o].was, meta # None, Upgrades(op[o]), MildFaults, Versioned(op[o]),
         Placed(op[o]), faults.count = 0 => faults.kinds = {}
  PROVE  meta' # None /\ Parts(op[o])' /\ op'[o].doing \in {"upgrade", "start"}
<1>0. /\ op[o].pc \in Upgrading
      /\ faults.count = 0 => box # None \/ op[o].pc = "provision"
      /\ op[o].pc \in {"undo", "putback", "again"} => faults.count # 0
  BY DEF Upgrades
<1>1. /\ faults.count \in Nat /\ faults'.count \in Nat
      /\ faults'.count >= faults.count /\ faults.kinds \subseteq faults'.kinds
  BY FaultsGrow
<1>2. faults'.count = 0 => faults.count = 0 /\ faults' = faults
  BY <1>1, StepFails, FaultCounts
<1>3. ASSUME NEW ok \in BOOLEAN, End(o, ok), meta' # None, faults'.count = 0 => box' # None
      PROVE  meta' # None /\ Parts(op[o])' /\ op'[o].doing \in {"upgrade", "start"}
  <2>1. Then(o, ok) = "start"
    BY DEF Then
  <2>2. op'[o].pc = "read" /\ op'[o].doing = "start"
    BY <1>3, <2>1, EndFields DEF Ended
  <2>3. Starts(op[o])'
    BY <1>3, <2>2 DEF Starts
  <2> QED
    BY <1>3, <2>2, <2>3 DEF Parts
<1>4. ASSUME NEW ok \in BOOLEAN, UpgradeEnds(o, ok), meta' # None,
             faults'.count = 0 => box' # None
      PROVE  meta' # None /\ Parts(op[o])' /\ op'[o].doing \in {"upgrade", "start"}
  BY <1>3, <1>4 DEF UpgradeEnds
<1>5. ASSUME NEW step \in Upgrading \ {"read"}, op'[o].pc = step,
             op'[o].doing = "upgrade", meta' # None,
             faults'.count = 0 => box' # None \/ step = "provision",
             step \in {"undo", "putback", "again"} => faults'.count # 0
      PROVE  meta' # None /\ Parts(op[o])' /\ op'[o].doing \in {"upgrade", "start"}
  <2>1. Upgrades(op[o])'
    BY <1>5 DEF Upgrades
  <2> QED
    BY <1>5, <2>1 DEF Parts, Upgrading
<1>6. ASSUME NEW step \in Upgrading \ {"read"}, Goto(o, step), meta' # None,
             faults'.count = 0 => box' # None \/ step = "provision",
             step \in {"undo", "putback", "again"} => faults'.count # 0
      PROVE  meta' # None /\ Parts(op[o])' /\ op'[o].doing \in {"upgrade", "start"}
  <2>1. op'[o].pc = step /\ op'[o].doing = "upgrade"
    BY <1>6, GotoFields DEF Advances
  <2> QED
    BY <1>5, <1>6, <2>1
<1>7. CASE Read(o)
  <2>1. FirstStep[op[o].doing] = "lock"
    BY DEF FirstStep
  <2>2. op'[o].pc = "lock" /\ op'[o].doing = "upgrade"
    BY <1>7, <2>1, ReadEffect DEF Stays
  <2>3. op[o].pc = "read" /\ UNCHANGED <<meta, box>>
    BY <1>7 DEF Read, At, world
  <2> QED
    BY <1>0, <1>2, <1>5, <2>2, <2>3 DEF Upgrading
<1>8. CASE Acquire(o)
  <2>1. op[o].pc = "lock" /\ UNCHANGED <<meta, box>>
    BY <1>8 DEF Acquire, At, world
  <2>2. Goto(o, "guard") \/ End(o, FALSE)
    BY <1>8 DEF Acquire
  <2> QED
    BY <1>0, <1>2, <1>3, <1>6, <2>1, <2>2 DEF Upgrading
<1>9. CASE Guard(o)
  <2>1. op[o].pc = "guard" /\ UNCHANGED <<meta, box>>
    BY <1>9 DEF Guard, At
  <2>2. Goto(o, "clone") \/ \E ok \in BOOLEAN : UpgradeEnds(o, ok)
    BY <1>9 DEF Guard
  <2> QED
    BY <1>0, <1>2, <1>4, <1>6, <2>1, <2>2 DEF Upgrading
<1>10. CASE Clone(o)
  <2>1. op[o].pc = "clone" /\ UNCHANGED <<meta, box>>
    BY <1>10 DEF Clone, At
  <2>2. \/ Become(o, [op[o] EXCEPT !.pc = "aside", !.aim = upstream])
        \/ \E ok \in BOOLEAN : UpgradeEnds(o, ok)
    BY <1>10 DEF Clone
  <2>3. CASE Become(o, [op[o] EXCEPT !.pc = "aside", !.aim = upstream])
    <3>1. op'[o].pc = "aside" /\ op'[o].doing = "upgrade"
      BY <2>3, CloneEffect DEF Stays
    <3> QED
      BY <1>0, <1>2, <1>5, <2>1, <3>1 DEF Upgrading
  <2> QED
    BY <1>0, <1>2, <1>4, <2>1, <2>2, <2>3
<1>11. CASE MoveAside(o)
  <2>1. op[o].pc = "aside" /\ UNCHANGED <<meta, box>>
    BY <1>11 DEF MoveAside, At
  <2>2. Goto(o, "movein") \/ UpgradeEnds(o, FALSE)
    BY <1>11 DEF MoveAside
  <2> QED
    BY <1>0, <1>2, <1>4, <1>6, <2>1, <2>2 DEF Upgrading
<1>12. CASE MoveIn(o)
  <2>1. op[o].pc = "movein" /\ UNCHANGED <<meta, box>>
    BY <1>12 DEF MoveIn, At
  <2>2. Goto(o, "teardown") \/ UpgradeEnds(o, FALSE)
    BY <1>12 DEF MoveIn
  <2> QED
    BY <1>0, <1>2, <1>4, <1>6, <2>1, <2>2 DEF Upgrading
<1>13. CASE Teardown(o)
  <2>1. op[o].pc = "teardown" /\ UNCHANGED meta
    BY <1>13 DEF Teardown, At
  <2>2. CASE Goto(o, "provision")
    BY <1>6, <2>1, <2>2 DEF Upgrading
  <2>3. CASE Fault("teardown") /\ UpgradeEnds(o, FALSE)
    BY <1>4, <2>1, <2>3, FaultMild
  <2> QED
    BY <1>13, <2>2, <2>3 DEF Teardown
<1>14. CASE Provision(o)
  <2>1. op[o].pc = "provision" /\ UNCHANGED <<disk, meta>>
    BY <1>14 DEF Provision, At
  <2>2. disk.repo # None
    <3>1. faults.kinds \subseteq UpgradeFaults
      BY <1>1 DEF MildFaults
    <3> QED
      BY <2>1, <3>1 DEF Placed
  <2>3. faults.count = 0 => CanCreate
    BY <2>1, <2>2 DEF Versioned, Between, CanCreate
  <2>4. CASE CanCreate /\ NewBox /\ Goto(o, "drop")
    <3>1. box' # None
      BY <2>4, BoxFields
    <3> QED
      BY <1>6, <2>1, <2>4, <3>1 DEF Upgrading
  <2>5. CASE Goto(o, "undo") /\ (IF CanCreate THEN Fault("provision") ELSE UNCHANGED faults)
    <3>1. faults'.count # 0
      BY <1>2, <2>3, <2>5, FaultMild
    <3> QED
      BY <1>6, <2>1, <2>5, <3>1 DEF Upgrading
  <2> QED
    BY <1>14, <2>2, <2>4, <2>5 DEF Provision
<1>15. CASE Undo(o)
  <2>1. op[o].pc = "undo" /\ UNCHANGED meta /\ Goto(o, "putback")
    BY <1>15 DEF Undo, At
  <2> QED
    BY <1>0, <1>2, <1>6, <2>1 DEF Upgrading
<1>16. CASE PutBack(o)
  <2>1. op[o].pc = "putback" /\ UNCHANGED meta
    BY <1>16 DEF PutBack, At
  <2>2. Goto(o, "again") \/ UpgradeEnds(o, FALSE)
    BY <1>16 DEF PutBack
  <2> QED
    BY <1>0, <1>2, <1>4, <1>6, <2>1, <2>2 DEF Upgrading
<1>17. CASE ProvisionAgain(o)
  <2>1. op[o].pc = "again" /\ UNCHANGED meta /\ UpgradeEnds(o, FALSE)
    BY <1>17 DEF ProvisionAgain, At
  <2> QED
    BY <1>0, <1>2, <1>4, <2>1
<1>18. CASE Drop(o)
  <2>1. op[o].pc = "drop" /\ UNCHANGED <<meta, box>> /\ Goto(o, "record")
    BY <1>18 DEF Drop, At
  <2> QED
    BY <1>0, <1>2, <1>6, <2>1 DEF Upgrading
<1>19. CASE Record(o)
  <2>1. op[o].pc = "record" /\ UNCHANGED box /\ UpgradeEnds(o, TRUE)
    BY <1>19 DEF Record, At
  <2>2. op[o].mine \in Metas /\ op[o].aim \in Versions
    BY <2>1 DEF TInv, Formed, Aiming
  <2>3. meta' \in Metas
    BY <1>19, <2>2 DEF Record, Save, Metas
  <2> QED
    BY <1>0, <1>2, <1>4, <2>1, <2>3, NoneAssumption
<1> QED
  BY <1>0, <1>7, <1>8, <1>9, <1>10, <1>11, <1>12, <1>13, <1>14, <1>15, <1>16, <1>17, <1>18,
     <1>19, StepAt DEF Upgrading


LEMMA StartStep ==
  ASSUME TInv, NEW o \in Ops, Step(o), op[o].kind = "update", op[o].doing = "start",
         meta # None, Starts(op[o]), MildFaults, Copied(op[o]), Versioned(op[o]),
         Placed(op[o]), faults.count = 0 => faults.kinds = {}
  PROVE  meta' # None /\ Parts(op[o])' /\ op'[o].doing = "start"
<1>0. /\ op[o].pc \in {"read", "check", "apply", "create", "run", "note"}
      /\ faults.count = 0 => box # None
      /\ op[o].pc = "create" => faults.count # 0 /\ box = None
      /\ op[o].pc = "run" => box # None
      /\ op[o].pc = "note" => Running
  BY DEF Starts
<1>1. /\ faults.count \in Nat /\ faults'.count \in Nat
      /\ faults'.count >= faults.count /\ faults.kinds \subseteq faults'.kinds
  BY FaultsGrow
<1>2. faults'.count = 0 => faults.count = 0 /\ faults' = faults
  BY <1>1, StepFails, FaultCounts
<1>3. ASSUME NEW ok \in BOOLEAN, End(o, ok), meta' # None,
             (disk'.repo \in Asks => meta'.skipped) => Running' /\ meta'.wanted = "running"
      PROVE  meta' # None /\ Parts(op[o])' /\ op'[o].doing = "start"
  <2>1. Then(o, ok) = "none"
    BY DEF Then
  <2>2. op'[o].pc = "idle" /\ op'[o].doing = "start"
    BY <1>3, <2>1, EndFields DEF Ended
  <2> QED
    BY <1>3, <2>2 DEF Parts
<1>4. ASSUME op'[o].doing = "start", meta' # None, Starts(op[o])'
      PROVE  meta' # None /\ Parts(op[o])' /\ op'[o].doing = "start"
  BY <1>4 DEF Parts, Starts
<1>5. faults.kinds \subseteq UpgradeFaults
  BY <1>1 DEF MildFaults
<1>6. op[o].pc \in {"apply", "create"} => disk.repo # None
  BY <1>5 DEF Placed
<1>7. faults.count = 0 /\ op[o].pc = "apply" => InLine
  BY <1>0 DEF Versioned, Changing, Settled, InLine
<1>8. CASE Read(o)
  <2>1. FirstStep[op[o].doing] = "check"
    BY DEF FirstStep
  <2>2. op'[o].pc = "check" /\ op'[o].doing = "start"
    BY <1>8, <2>1, ReadEffect DEF Stays
  <2>3. UNCHANGED <<meta, box>>
    BY <1>8 DEF Read, world
  <2>4. Starts(op[o])'
    BY <1>0, <1>2, <2>2, <2>3 DEF Starts
  <2> QED
    BY <1>4, <2>2, <2>3, <2>4
<1>9. CASE CheckStart(o)
  <2>1. op[o].pc = "check" /\ UNCHANGED <<disk, meta, box>> /\ op[o].mine = meta
    BY <1>9 DEF CheckStart, At, Copied, world
  <2>2. CASE Running /\ Goto(o, "note")
    <3>1. op'[o].pc = "note" /\ op'[o].doing = "start"
      BY <2>2, GotoFields DEF Advances
    <3>2. Starts(op[o])'
      BY <1>0, <1>2, <2>1, <2>2, <3>1 DEF Starts, Running
    <3> QED
      BY <1>4, <2>1, <3>1, <3>2
  <2>3. CASE SetupRefuses(o) /\ End(o, FALSE)
    <3>1. ~(disk'.repo \in Asks => meta'.skipped)
      BY <2>1, <2>3 DEF SetupRefuses
    <3> QED
      BY <1>3, <2>1, <2>3, <3>1
  <2>4. CASE Become(o, SetUp(o, "apply"))
    <3>1. op'[o].pc = "apply" /\ op'[o].doing = "start"
      BY <2>1, <2>4, SetUpEffect DEF Stays
    <3>2. Starts(op[o])'
      BY <1>0, <1>2, <2>1, <3>1 DEF Starts
    <3> QED
      BY <1>4, <2>1, <3>1, <3>2
  <2> QED
    BY <1>9, <2>2, <2>3, <2>4 DEF CheckStart
<1>10. CASE Apply(o)
  <2>1. op[o].pc = "apply" /\ UNCHANGED <<disk, meta>>
    BY <1>10 DEF Apply, At
  <2>2. CASE InLine /\ Goto(o, "run") /\ UNCHANGED box
    <3>1. op'[o].pc = "run" /\ op'[o].doing = "start"
      BY <2>2, GotoFields DEF Advances
    <3>2. box # None
      BY <1>6, <2>1, <2>2 DEF InLine
    <3>3. Starts(op[o])'
      BY <2>2, <3>1, <3>2 DEF Starts
    <3> QED
      BY <1>4, <2>1, <3>1, <3>3
  <2>3. CASE ~InLine /\ box' = None /\ Goto(o, "create")
    <3>1. op'[o].pc = "create" /\ op'[o].doing = "start"
      BY <2>3, GotoFields DEF Advances
    <3>2. faults.count # 0
      BY <1>7, <2>1, <2>3
    <3>3. Starts(op[o])'
      BY <1>2, <2>3, <3>1, <3>2 DEF Starts
    <3> QED
      BY <1>4, <2>1, <3>1, <3>3
  <2>4. CASE Fault("remove")
    BY <2>4, FaultMild DEF UpgradeFaults
  <2> QED
    BY <1>10, <2>2, <2>3, <2>4 DEF Apply
<1>11. CASE Create(o)
  <2>1. op[o].pc = "create"
    BY <1>11 DEF Create, At
  <2>2. CanCreate /\ faults.count # 0
    BY <1>0, <1>6, <2>1 DEF CanCreate
  <2>3. ~Fault("provision")
    BY <2>2, FaultMild
  <2>4. /\ NewBox /\ UNCHANGED meta
        /\ op'[o].pc = "run" /\ op'[o].doing = "start"
    BY <1>11, <2>2, <2>3, CreateEffect DEF Stays
  <2>5. Starts(op[o])'
    BY <2>2, <2>4, BoxFields DEF Starts
  <2> QED
    BY <1>4, <2>4, <2>5
<1>12. CASE Run(o)
  <2>1. op[o].pc = "run" /\ UNCHANGED meta
    BY <1>12 DEF Run, At, world
  <2>2. CASE Fault("start")
    BY <2>2, FaultMild DEF UpgradeFaults
  <2>3. CASE box' = [box EXCEPT !.running = TRUE] /\ Goto(o, "note")
    <3>1. op'[o].pc = "note" /\ op'[o].doing = "start"
      BY <2>3, GotoFields DEF Advances
    <3>2. Running' /\ box' # None
      BY <1>0, <2>1, <2>3, BoxFields DEF Running
    <3>3. Starts(op[o])'
      BY <3>1, <3>2 DEF Starts
    <3> QED
      BY <1>4, <2>1, <3>1, <3>3
  <2> QED
    BY <1>0, <1>12, <2>1, <2>2, <2>3 DEF Run
<1>13. CASE Note(o)
  <2>1. op[o].pc = "note" /\ op[o].mine \in Metas /\ box' = box /\ End(o, TRUE)
    BY <1>13 DEF Note, At, TInv, Formed
  <2>2. op[o].mine.wanted = meta.wanted
    BY <2>1 DEF Copied
  <2> DEFINE copy == [op[o].mine EXCEPT !.wanted = "running"]
  <2>3. Wanted(o) = "running"
    BY DEF Wanted
  <2>4. [op[o].mine EXCEPT !.wanted = Wanted(o),
               !.name = IF op[o].doing = "rename" THEN "renamed" ELSE @] = copy
    BY <2>1, <2>3 DEF Metas
  <2>5. copy \in Metas /\ copy.wanted = "running"
    BY <2>1 DEF Metas
  <2>6. meta' = copy \/ (meta' = meta /\ copy = op[o].mine)
    BY <1>13, <2>4 DEF Note, Save
  <2> HIDE DEF copy
  <2>7. meta' # None /\ meta'.wanted = "running"
    BY <2>2, <2>5, <2>6, NoneAssumption
  <2>8. Running'
    BY <1>0, <2>1 DEF Running
  <2> QED
    BY <1>3, <2>1, <2>7, <2>8
<1> QED
  BY <1>0, <1>8, <1>9, <1>10, <1>11, <1>12, <1>13, StepAt

(* Only the first look at the app notes whether it runs; the part changes   *)
(* to an upgrade or a start, or in a rebuild.                               *)
Kept(o) ==
  /\ op'[o].was = op[o].was
  /\ op'[o].doing \in {op[o].doing, "upgrade", "start"} \/ op[o].kind = "rebuild"

LEMMA StepKept ==
  ASSUME TInv, NEW o \in Ops, Step(o)
  PROVE  LookFirst(o) \/ Look(o) \/ Kept(o)
<1>1. ASSUME NEW ok \in BOOLEAN, Ended(o, ok) PROVE Kept(o)
  <2>1. Then(o, ok) \in {"upgrade", "start", "none"}
    BY DEF Then
  <2> QED
    BY <1>1, <2>1 DEF Ended, Kept
<1>2. ASSUME NEW ok \in BOOLEAN, End(o, ok) \/ Finish(o, ok) PROVE Kept(o)
  <2>1. Finish(o, ok)
    BY <1>2 DEF End
  <2> QED
    BY <1>1, <2>1, FinishFields
<1>3. ASSUME NEW ok \in BOOLEAN, UpgradeEnds(o, ok) PROVE Kept(o)
  <2>1. UpgradeEnded(o, ok)
    BY <1>3, UpgradeEndsFields
  <2> QED
    BY <1>1, <2>1 DEF UpgradeEnded, SameCall, Kept
<1>4. ASSUME NEW step, Goto(o, step) PROVE Kept(o)
  BY <1>4, GotoFields DEF Advances, SameCall, Kept
<1>5. ASSUME NEW step, Stays(o, step), op'[o].doing \in {op[o].doing, "upgrade"} PROVE Kept(o)
  BY <1>5 DEF Stays, Kept
<1>6. op[o].pc = "check" => \A step : Become(o, SetUp(o, step)) => Kept(o)
  BY <1>5, SetUpEffect
<1>7. Read(o) => Kept(o)
  BY <1>1, <1>5, ReadEffect
<1>8. CheckStart(o) \/ CheckRestart(o) => Kept(o)
  BY <1>2, <1>4, <1>6 DEF CheckStart, CheckRestart, At
<1>9. Create(o) => Kept(o)
  BY <1>2, <1>5, CreateEffect
<1>10. Clone(o) => Kept(o)
  BY <1>3, <1>5, CloneEffect DEF Clone
<1>11. HaltForPull(o) => Kept(o)
  BY <1>2, <1>5, PullEffect DEF HaltForPull
<1>12. Reload(o) => Kept(o)
  BY <1>2, <1>5, ReloadEffect DEF Reload
<1>13. CheckReconcile(o) \/ Apply(o) \/ Keep(o) \/ Run(o) \/ CheckStop(o) \/ Halt(o) => Kept(o)
  BY <1>2, <1>4 DEF CheckReconcile, Apply, Keep, Run, CheckStop, Halt
<1>14. Note(o) \/ Unload(o) \/ Delete(o) \/ Acquire(o) => Kept(o)
  BY <1>2, <1>4 DEF Note, Unload, Delete, Acquire
<1>15. Guard(o) \/ MoveAside(o) \/ MoveIn(o) \/ Teardown(o) \/ Provision(o) => Kept(o)
  BY <1>3, <1>4 DEF Guard, MoveAside, MoveIn, Teardown, Provision
<1>16. Undo(o) \/ PutBack(o) \/ ProvisionAgain(o) \/ Drop(o) \/ Record(o) => Kept(o)
  BY <1>3, <1>4 DEF Undo, PutBack, ProvisionAgain, Drop, Record
<1>17. Revive(o) \/ Image(o) \/ Recreate(o) \/ Renew(o) \/ Resave(o) \/ Rerun(o) => Kept(o)
  BY <1>2, <1>4 DEF Revive, Image, Recreate, Renew, Resave, Rerun
<1> QED
  BY <1>7, <1>8, <1>9, <1>10, <1>11, <1>12, <1>13, <1>14, <1>15, <1>16, <1>17,
     StepAt

LEMMA StepUpdates ==
  ASSUME TInv, NEW o \in Ops, Step(o), Works(op[o]), faults.count = 0 => faults.kinds = {}
  PROVE  Updates(op[o])'
<1> SUFFICES ASSUME op[o].kind = "update" PROVE Updates(op[o])'
  BY StepKind DEF Updates
<1>0. /\ op'[o].kind = "update" /\ op[o].pc # "idle"
      /\ op[o].doing \in {"update", "stop", "upgrade", "start"}
  BY StepKind DEF Works, Updates
<1>1. /\ faults.count \in Nat /\ faults'.count \in Nat
      /\ faults'.count >= faults.count /\ faults.kinds \subseteq faults'.kinds
  BY FaultsGrow
<1>2. Mild' => Mild /\ MildFaults
  BY <1>1 DEF Mild, MildFaults
<1>3. CASE LookFirst(o)
  <2>1. /\ op'[o].pc = "read" /\ op'[o].was = Running
        /\ op'[o].doing = IF Running THEN "stop" ELSE "upgrade"
    BY <1>3, LookFirstEffect
  <2>2. UNCHANGED <<meta, box>> /\ op[o].pc = "look"
    BY <1>3 DEF LookFirst, At, world
  <2>3. meta # None
    BY <2>2 DEF Works, Copied
  <2>4. CASE Running
    <3>1. Stops(op[o])'
      BY <2>1, <2>2, <2>4 DEF Stops, Running
    <3> QED
      BY <1>0, <2>1, <2>2, <2>3, <2>4, <3>1 DEF Updates, Parts
  <2>5. CASE ~Running
    BY <1>0, <2>1, <2>5 DEF Updates
  <2> QED
    BY <2>4, <2>5
<1>4. ASSUME ~LookFirst(o)
      PROVE  op'[o].was = op[o].was /\ op'[o].doing \in {"update", "stop", "upgrade", "start"}
  <2>1. ~Look(o)
    BY <1>0 DEF Look
  <2> QED
    BY <1>0, <1>4, <2>1, StepKept DEF Kept
<1>5. ASSUME ~LookFirst(o), op[o].was, Mild' PROVE meta' # None /\ Parts(op[o])'
  <2>1. Mild /\ MildFaults
    BY <1>2, <1>5
  <2>2. meta # None /\ Parts(op[o])
    BY <1>5, <2>1 DEF Works, Updates
  <2>3. /\ op[o].doing \in {"stop", "upgrade", "start"}
        /\ op[o].doing = "stop" => Stops(op[o])
        /\ op[o].doing = "upgrade" => Upgrades(op[o])
        /\ op[o].doing = "start" => Starts(op[o])
    BY <1>0, <2>2 DEF Parts
  <2> QED
    BY <1>5, <2>1, <2>2, <2>3, StopStep, UpgradeStep, StartStep DEF Works
<1> QED
  BY <1>0, <1>3, <1>4, <1>5 DEF Updates


-----------------------------------------------------------------------------
(* One call at a time: the invariant is inductive                           *)

LEMMA StepWorks ==
  ASSUME IInv, SoloInv, Alone, NEW o \in Ops, Step(o)
  PROVE  Works(op[o]) /\ Works(op[o])'
<1>1. TInv /\ op[o].pc # "idle"
  BY StepKind DEF IInv
<1>2. Works(op[o]) /\ (faults.count = 0 => faults.kinds = {})
  BY <1>1 DEF SoloInv, Active
<1>3. op[o].pc \in Swapping => disk.old # None
  BY DEF IInv, OldInv, Alone
<1>4. Copied(op[o])' /\ Rebuilds(op[o])' /\ Reconciles(op[o])'
  BY <1>1, <1>2, StepCopied, StepRebuilds, StepReconciles DEF Works
<1>5. Versioned(op[o])' /\ Placed(op[o])'
  BY <1>1, <1>2, <1>3, StepVersioned DEF Works
<1>6. Updates(op[o])'
  BY <1>1, <1>2, StepUpdates
<1> QED
  BY <1>2, <1>4, <1>5, <1>6 DEF Works

(* A call begins on an app at rest.                                         *)
LEMMA RestsWorksNext ==
  ASSUME Rests', NEW o \in Ops, NEW k \in AllKinds \cup {"reconcile"},
         op'[o].kind = k, op'[o].doing = k, op'[o].pc = "read", op'[o].was = FALSE
  PROVE  Works(op[o])'
<1>1. Copied(op[o])' /\ Versioned(op[o])' /\ Placed(op[o])'
  BY DEF Copied, Versioned, Placed, Rests, Between, Changing
<1>2. Rebuilds(op[o])' /\ Reconciles(op[o])' /\ Updates(op[o])'
  BY DEF Rebuilds, Reconciles, Updates, LockedSteps
<1> QED
  BY <1>1, <1>2 DEF Works

LEMMA InitSolo == Init => SoloInv
<1> SUFFICES ASSUME Init PROVE SoloInv
  OBVIOUS
<1>1. Active = {}
  BY DEF Init, Active, Resting
<1>2. Settled /\ disk.repo # None
  BY VersionAssumption DEF Init, Settled, Versions
<1>3. faults.kinds = {}
  BY DEF Init
<1> QED
  BY <1>1, <1>2, <1>3 DEF SoloInv, Rests

LEMMA StepSolo ==
  ASSUME IInv, SoloInv, NEW o \in Ops, Step(o)
  PROVE  SoloInv'
<1>1. TInv /\ Shape(o)
  BY StepShape DEF IInv
<1>2. faults'.count = 0 => faults'.kinds = {}
  BY <1>1, FaultsGrow DEF SoloInv
<1>3. ASSUME Alone' PROVE (Idle' => Rests') /\ \A p \in Active' : Works(op[p])'
  <2>1. Alone
    BY <1>1, <1>3 DEF Alone, Shape
  <2>2. Works(op[o])'
    BY <2>1, StepWorks
  <2>3. \A p \in Ops \ {o} : op'[p].pc = "idle"
    BY <1>1, <2>1 DEF Shape, IInv, MetInv, Alone
  <2>4. Active' \subseteq {o}
    BY <2>3 DEF Active
  <2>5. CASE op'[o].pc = "idle"
    <3>1. Versioned(op[o])' /\ Placed(op[o])'
      BY <2>2 DEF Works
    <3>2. Rests'
      BY <2>5, <3>1 DEF Versioned, Placed, Rests, Changing
    <3> QED
      BY <2>2, <2>4, <3>2
  <2>6. CASE op'[o].pc # "idle"
    <3>1. ~Idle'
      BY <2>6 DEF Idle, Active
    <3> QED
      BY <2>2, <2>4, <3>1
  <2> QED
    BY <2>5, <2>6
<1> QED
  BY <1>2, <1>3 DEF SoloInv

LEMMA NextSolo == IInv /\ SoloInv /\ [Next]_vars => SoloInv'
<1> SUFFICES ASSUME IInv, SoloInv, [Next]_vars PROVE SoloInv'
  OBVIOUS
<1>0. TInv
  BY DEF IInv
<1>1. ASSUME NEW o \in Ops, NEW k \in AllKinds \cup {"reconcile"}, NEW t,
             Become(o, t), t.kind = k, t.doing = k, t.pc = "read", t.was = FALSE,
             UNCHANGED <<disk, box, meta, faults>>,
             met' = IF Active = {} THEN met
                    ELSE met \cup {k} \cup {op[p].kind : p \in Active}
      PROVE  SoloInv'
  <2>1. op'[o] = t /\ \A p \in Ops \ {o} : op'[p] = op[p]
    BY <1>0, <1>1, BecomeFrame
  <2>2. CASE Alone'
    <3>1. Active = {} /\ Alone
      BY <1>1, <2>2 DEF Alone
    <3>2. Rests
      BY <3>1 DEF SoloInv, Idle
    <3>3. Rests'
      BY <1>1, <3>2 DEF Rests, Settled
    <3>4. Active' = {o}
      BY <1>1, <2>1, <3>1 DEF Active
    <3>5. Works(op[o])'
      BY <1>1, <2>1, <3>3, RestsWorksNext
    <3> QED
      BY <1>1, <3>3, <3>4, <3>5 DEF SoloInv
  <2> QED
    BY <1>1, <2>2 DEF SoloInv
<1>2. ASSUME NEW o \in Ops, NEW k \in Kinds, NEW force \in BOOLEAN, Call(o, k, force)
      PROVE  SoloInv'
  <2> DEFINE t == [Resting EXCEPT !.kind = k, !.doing = k, !.pc = "read", !.force = force]
  <2>1. t.kind = k /\ t.doing = k /\ t.pc = "read" /\ t.was = FALSE /\ k \in AllKinds
    BY KindAssumption DEF Resting
  <2>2. Become(o, t) /\ UNCHANGED <<disk, box, meta, faults>>
    BY <1>2 DEF Call, world
  <2>3. met' = IF Active = {} THEN met ELSE met \cup {k} \cup {op[p].kind : p \in Active}
    BY <1>2 DEF Call
  <2> HIDE DEF t
  <2> QED
    BY <1>1, <2>1, <2>2, <2>3
<1>3. ASSUME NEW o \in Ops, StartDaemon(o) PROVE SoloInv'
  <2> DEFINE t == [Resting EXCEPT !.kind = "reconcile", !.doing = "reconcile", !.pc = "read"]
  <2>1. t.kind = "reconcile" /\ t.doing = "reconcile" /\ t.pc = "read" /\ t.was = FALSE
    BY DEF Resting
  <2>2. Become(o, t) /\ UNCHANGED <<disk, box, meta, faults>>
    BY <1>3 DEF StartDaemon, world
  <2>3. met' = IF Active = {} THEN met
               ELSE met \cup {"reconcile"} \cup {op[p].kind : p \in Active}
    BY <1>3 DEF StartDaemon
  <2> HIDE DEF t
  <2> QED
    BY <1>1, <2>1, <2>2, <2>3
<1>4. CASE Crash
  <2>1. Active' = {}
    BY <1>4 DEF Crash, Active, Resting
  <2>2. "crash" \in faults'.kinds /\ faults'.count # 0
    BY <1>0, <1>4, FaultCounts DEF Crash
  <2>3. Rests'
    BY <2>2 DEF Rests, RolledBack, UpgradeFaults
  <2> QED
    BY <2>1, <2>2, <2>3 DEF SoloInv
<1>5. CASE Publish \/ UNCHANGED vars
  <2>1. UNCHANGED <<disk, box, meta, op, faults, met>>
    BY <1>5 DEF Publish, vars, world
  <2>2. (Idle' <=> Idle) /\ (Alone' <=> Alone) /\ (Rests' <=> Rests) /\ Active' = Active
    BY <2>1 DEF Idle, Alone, Active, Rests, Settled
  <2>3. \A o \in Ops : Works(op[o])' <=> Works(op[o])
    BY <2>1 DEF Works, Copied, Versioned, Placed, Rebuilds, Reconciles, Updates, Settled,
       Between, Running, Mild, Parts, Stops, Upgrades, Starts
  <2> QED
    BY <2>1, <2>2, <2>3 DEF SoloInv, Active
<1> QED
  BY <1>2, <1>3, <1>4, <1>5, StepSolo DEF Next

(* Whatever calls come one after the other, and whichever of their steps    *)
(* failed, the repository, meta.json and the container are of one version   *)
(* between two of them.                                                     *)
THEOREM VersionIsOne == Spec => []OneVersion
<1>1. IInv /\ SoloInv => OneVersion
  <2> SUFFICES ASSUME IInv, SoloInv, Alone, Idle, faults.kinds \subseteq RolledBack,
                      meta # None
               PROVE  /\ disk = [repo |-> meta.version, new |-> None, old |-> None]
                      /\ box # None => box.of = meta.version
    BY DEF OneVersion
  <2>1. Settled
    BY DEF SoloInv, Rests
  <2>2. disk \in Dirs
    BY DEF IInv, TInv, TypeOK
  <2> QED
    BY <2>1, <2>2 DEF Settled, Dirs
<1> QED
  BY InitInv, NextInv, InitSolo, NextSolo, <1>1, PTL DEF Spec

(* A call that ends in a step ends by a step of its own thread, or by a     *)
(* crash.                                                                   *)
LEMMA EndsByStep ==
  ASSUME IInv, [Next]_vars, NEW o \in Ops, Ends(o), op'[o].kind # "start"
  PROVE  Step(o)
<1>0. TInv /\ op[o].pc # "idle" /\ op'[o].pc = "idle"
  BY DEF IInv, Ends, At
<1>1. ASSUME NEW p \in Ops, p # o, Step(p) PROVE FALSE
  BY <1>0, <1>1, StepShape DEF Shape
<1>2. ASSUME NEW p \in Ops, NEW t, op[p].pc = "idle", Become(p, t) PROVE FALSE
  <2>1. p # o
    BY <1>0, <1>2
  <2> QED
    BY <1>0, <1>2, <2>1, BecomeFrame
<1>3. ASSUME NEW p \in Ops, NEW k \in Kinds, NEW force \in BOOLEAN, Call(p, k, force)
      PROVE  FALSE
  BY <1>2, <1>3 DEF Call, At
<1>4. ASSUME NEW p \in Ops, StartDaemon(p) PROVE FALSE
  BY <1>2, <1>4 DEF StartDaemon, At
<1>5. ~Crash
  BY DEF Crash, Resting
<1>6. ~Publish /\ ~UNCHANGED vars
  BY <1>0 DEF Publish, vars
<1> QED
  BY <1>1, <1>3, <1>4, <1>5, <1>6 DEF Next

(* Whatever the daemon died in, its next start brings a wanted app back,    *)
(* unless the repository is gone or docker fails again.                     *)
THEOREM WantedIsRestored == Spec => ReconcileRestores
<1>1. ASSUME IInv, SoloInv, [Next]_vars, NEW o \in Ops, Ends(o),
             op'[o].kind = "reconcile", met' = {}, faults' = faults, disk.repo # None,
             meta # None, meta.wanted = "running"
      PROVE  Running'
  <2>1. Step(o) /\ TInv
    BY <1>1, EndsByStep DEF IInv
  <2>2. op[o].kind = "reconcile" /\ Alone
    BY <1>1, <2>1, StepShape DEF Shape, Alone
  <2>3. Works(op[o])
    BY <1>1, <2>1, <2>2, StepWorks
  <2>4. op'[o].pc = "idle"
    BY <1>1 DEF Ends
  <2> QED
    BY <1>1, <2>1, <2>2, <2>3, <2>4, StepReconciles DEF Works, Restored
<1>2. IInv /\ SoloInv /\ [Next]_vars =>
        [\A o \in Ops : Ends(o) /\ op'[o].kind = "reconcile" /\ met' = {}
                        /\ faults' = faults /\ disk.repo # None
                        /\ meta # None /\ meta.wanted = "running" => Running']_vars
  BY <1>1
<1> QED
  BY InitInv, NextInv, InitSolo, NextSolo, <1>2, PTL DEF Spec, ReconcileRestores

(* A rebuild that succeeds leaves the app running or stopped as it found    *)
(* it; an update of a running app brings it back, whichever one step of its *)
(* upgrade failed.                                                          *)
THEOREM StateIsKept == Spec => StateKept
<1>1. ASSUME IInv, SoloInv, [Next]_vars, NEW o \in Ops, Ends(o), met' = {}, meta' # None,
             op'[o].kind \in {"rebuild", "update"}
      PROVE  Works(op[o])' /\ op'[o].was = op[o].was /\ op'[o].pc = "idle"
  <2>1. Step(o) /\ TInv /\ op'[o].pc = "idle"
    BY <1>1, EndsByStep DEF IInv, Ends
  <2>2. Alone
    BY <1>1, <2>1, StepShape DEF Shape, Alone
  <2>3. ~LookFirst(o)
    BY <2>1, LookFirstEffect
  <2>4. CASE Look(o)
    <3>1. End(o, FALSE)
      BY <2>1, <2>4, LookEffect
    <3> QED
      BY <1>1, <2>1, <2>2, <3>1, StepWorks, EndFields DEF Ended
  <2> QED
    BY <1>1, <2>1, <2>2, <2>3, <2>4, StepWorks, StepKept DEF Kept
<1>2. ASSUME IInv, SoloInv, [Next]_vars, NEW o \in Ops, Ends(o), met' = {}, meta' # None
      PROVE  /\ op'[o].kind = "rebuild" /\ op'[o].ok => Running' = op[o].was
             /\ /\ op'[o].kind = "update" /\ op[o].was
                /\ faults'.kinds \subseteq UpgradeFaults /\ faults'.count < 2
                /\ disk'.repo \in Asks => meta'.skipped
                => Running' /\ meta'.wanted = "running"
  <2>1. CASE op'[o].kind = "rebuild"
    <3>1. op'[o].ok => (Running' <=> op[o].was)
      BY <1>1, <1>2, <2>1 DEF Works, Rebuilds
    <3>2. op[o].was \in BOOLEAN
      BY <1>2, ThreadType DEF IInv, Thread
    <3>3. Running' \in BOOLEAN
      <4>1. TInv'
        BY <1>2, NextType DEF IInv
      <4> QED
        BY <4>1 DEF TInv, TypeOK, Running, Boxes
    <3> QED
      BY <2>1, <3>1, <3>2, <3>3
  <2>2. CASE op'[o].kind = "update"
    BY <1>1, <1>2, <2>2 DEF Works, Updates, Mild, Parts
  <2> QED
    BY <2>1, <2>2
<1>3. IInv /\ SoloInv /\ [Next]_vars =>
        [\A o \in Ops : Ends(o) /\ met' = {} /\ meta' # None =>
           /\ op'[o].kind = "rebuild" /\ op'[o].ok => Running' = op[o].was
           /\ /\ op'[o].kind = "update" /\ op[o].was
              /\ faults'.kinds \subseteq UpgradeFaults /\ faults'.count < 2
              /\ disk'.repo \in Asks => meta'.skipped
              => Running' /\ meta'.wanted = "running"]_vars
  BY <1>2
<1> QED
  BY InitInv, NextInv, InitSolo, NextSolo, <1>3, PTL DEF Spec, StateKept
=============================================================================
