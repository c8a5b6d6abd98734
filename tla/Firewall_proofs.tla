-------------------------- MODULE Firewall_proofs --------------------------
(***************************************************************************)
(* Theorems about Firewall, for every value of its constants: type         *)
(* correctness, the safety invariants of the confirm-or-roll-back protocol, *)
(* that the state tells what is in force and what boots, whose tables are  *)
(* written, and that Firewall implements ConfirmOrRevert.                  *)
(***************************************************************************)
EXTENDS Firewall, TLAPS

Accepted == acked \union {0}
TagsIn(k) == {k.asc.id, k.raw.id}

(* Every change in the kernel is an accepted one. *)
Clean == TagsIn(kernel) \subseteq Accepted

(* Undoing `change` with `rollback` leaves only accepted changes. *)
WayBack(change, rollback) ==
  /\ TagsIn(rollback.to) \subseteq Accepted
  /\ rollback.whole \/ change.target = "Managed"

(* What is in the kernel and not accepted is the pending change, in the    *)
(* part of the kernel its rollback replaces.                               *)
KernelInv ==
  /\ kernel.asc.id \in Accepted \union {pend.change.table.id}
  /\ kernel.raw.id \in Accepted \/
       (kernel.raw.id = pend.change.table.id /\ pend.change.target = "Raw")

FilesInv ==
  /\ WayBack(pend.change, pend.rollback)
  /\ TagsIn(boot.to) \union {state.applied.id} \subseteq Accepted

Submitting == {"conflicts", "draft", "check", "pending", "load"}
Committing == {"commit", "ruleset", "enable"}

(* What each operation in flight relies on. *)
OpInv ==
  /\ op.at \in Submitting \union Committing \union {"clear", "undone"} => Clean
  /\ op.at \in Submitting =>
       IF op.windowed THEN WayBack(op.change, op.rollback)
                      ELSE op.change.table.id \in Accepted
  /\ op.at \in Committing => op.change.table.id \in Accepted
  /\ op.at = "pending" => op.windowed
  /\ op.at = "load" /\ op.windowed => pend.change = op.change

IInv == TypeOK /\ KernelInv /\ FilesInv /\ OpInv

-----------------------------------------------------------------------------
(* Type correctness                                                        *)

LEMMA ScriptTypes ==
  /\ NoTable \in Table
  /\ EmptyKernel \in Kernel
  /\ \A t \in Table : ReplaceScript(t) \in Script /\ RawScript(t) \in Script
  /\ \A k \in Kernel : DumpScript(k) \in Script
  /\ NoFile \in Script
<1>1. NoTable \in Table
  BY DEF NoTable, Table, Bodies
<1>2. EmptyKernel \in Kernel
  BY <1>1 DEF EmptyKernel, Kernel
<1>3. \A t \in Table : ReplaceScript(t) \in Script /\ RawScript(t) \in Script
  BY <1>1, <1>2 DEF ReplaceScript, RawScript, Script, Kernel, EmptyKernel
<1>4. \A k \in Kernel : DumpScript(k) \in Script
  BY DEF DumpScript, Script
<1>5. NoFile \in Script
  BY <1>1, <1>3 DEF NoFile, RemoveScript
<1>6. QED
  BY <1>1, <1>2, <1>3, <1>4, <1>5

LEMMA RunType ==
  ASSUME NEW s \in Script, NEW k \in Kernel
  PROVE  Run(s, k) \in Kernel
BY DEF Run, Script, Kernel

LEMMA ScriptOfType ==
  ASSUME NEW c \in Change
  PROVE  ScriptOf(c) \in Script
BY ScriptTypes DEF ScriptOf, Change

LEMMA NoneTypes ==
  /\ NoChange \in Change
  /\ NoPending \in Pending
  /\ NoOp \in Op
<1>1. NoChange \in Change
  BY ScriptTypes DEF NoChange, Change
<1>2. NoPending \in Pending
  BY <1>1, ScriptTypes DEF NoPending, Pending
<1>3. NoOp \in Op
  BY <1>1, ScriptTypes DEF NoOp, Op, Steps
<1>4. QED
  BY <1>1, <1>2, <1>3

LEMMA InitType == Init => TypeOK
<1>1. SUFFICES ASSUME Init PROVE TypeOK
  OBVIOUS
<1>2. state \in State
  BY <1>1, ScriptTypes DEF Init, State, Mode, Bodies
<1>3. kernel \in Kernel
  BY <1>1, ScriptTypes DEF Init, Kernel, EmptyKernel
<1>4. pend \in Pending /\ op \in Op /\ boot \in Script
  BY <1>1, ScriptTypes, NoneTypes DEF Init
<1>5. unit \in BOOLEAN /\ starting \in BOOLEAN
  BY <1>1 DEF Init
<1>6. phase \in {"inside", "edge", "over"} /\ wrote \in Nat /\ nft \in BOOLEAN /\ competing \in BOOLEAN
  BY <1>1 DEF Init
<1>7. timers \subseteq Timer /\ next \in Nat \ {0} /\ acked \subseteq Nat /\ faults.count \in Nat /\ faults.kinds \subseteq Faults
  BY <1>1 DEF Init
<1>8. QED
  BY <1>2, <1>3, <1>4, <1>5, <1>6, <1>7 DEF TypeOK

LEMMA RollbackForType ==
  ASSUME TypeOK, NEW target
  PROVE  RollbackFor(target) \in Script
BY ScriptTypes DEF RollbackFor, TypeOK, Kernel

LEMMA BootedType ==
  ASSUME TypeOK
  PROVE  Booted \in Kernel
<1>1. (IF unit THEN Run(boot, EmptyKernel) ELSE EmptyKernel) \in Kernel
  BY ScriptTypes, RunType DEF TypeOK
<1>2. QED
  BY <1>1 DEF Booted, TypeOK, Kernel

LEMMA BeginType ==
  ASSUME TypeOK, NEW step \in Steps, NEW target \in {"Managed", "Raw"},
         NEW body \in Models \union Texts, NEW windowed \in BOOLEAN,
         Begin(step, target, body, windowed)
  PROVE  TypeOK'
<1>1. [target |-> target, table |-> [id |-> next, body |-> body]] \in Change
  BY DEF Change, Table, Bodies, TypeOK
<1>2. op' \in Op
  BY <1>1, RollbackForType, NoneTypes DEF Begin, Op
<1>3. QED
  BY <1>2 DEF Begin, TypeOK, conf, host

LEMMA NextType == TypeOK /\ [Next]_vars => TypeOK'
<1> SUFFICES ASSUME TypeOK, [Next]_vars PROVE TypeOK'
  OBVIOUS
<1> USE FirewallAssumption, ScriptTypes, NoneTypes
<1>1. ASSUME NEW m \in Models, EditModel(m) PROVE TypeOK'
  BY <1>1 DEF EditModel, Idle, State, TypeOK, At, Goto, Return, Fault, NoFault, conf,
     host, proc, Idle
<1>2. CASE InstallNft
  BY <1>2 DEF InstallNft, TypeOK, At, Goto, Return, Fault, NoFault, conf, host, proc, Idle
<1>3. ASSUME NEW force \in BOOLEAN, NEW windowed \in BOOLEAN, Apply(force, windowed) PROVE TypeOK'
  BY <1>3, BeginType DEF Apply, State, Steps, TypeOK
<1>4. ASSUME NEW text \in Texts, NEW windowed \in BOOLEAN, ApplyRaw(text, windowed) PROVE TypeOK'
  BY <1>4, BeginType DEF ApplyRaw, Steps, TypeOK
<1>5. ASSUME NEW id \in 0..MaxChanges, Confirm(id) PROVE TypeOK'
  <2>1. op' \in Op
    <3>1. [NoOp EXCEPT !.at = "undo"] \in Op
      BY DEF Op, Steps
    <3>2. [NoOp EXCEPT !.at = "commit", !.change = pend.change, !.confirming = TRUE] \in Op
      BY DEF Op, Steps, Pending, TypeOK
    <3>3. QED
      BY <1>5, <3>1, <3>2 DEF Confirm
  <2>2. acked' \subseteq Nat
    BY <1>5 DEF Confirm, Pending, Change, Table, TypeOK
  <2>3. QED
    BY <1>5, <2>1, <2>2 DEF Confirm, TypeOK, conf, host
<1>6. CASE Rollback
  BY <1>6 DEF Rollback, Op, Steps, TypeOK, At, Goto, Return, Fault, NoFault, conf, host,
     proc, Idle
<1>7. CASE Disable
  BY <1>7 DEF Disable, Op, Steps, TypeOK, At, Goto, Return, Fault, NoFault, conf, host,
     proc, Idle
<1>8. CASE DisableConflicts
  <2>1. competing' \in BOOLEAN
    BY <1>8 DEF DisableConflicts, TypeOK
  <2>2. op' \in Op /\ faults'.count \in Nat /\ faults'.kinds \subseteq Faults
    BY <1>8 DEF DisableConflicts, Op, Steps, TypeOK, Goto, Return, Fault, NoFault
  <2>3. QED
    BY <1>8, <2>1, <2>2 DEF DisableConflicts, TypeOK, conf
<1>9. CASE SaveDraft
  <2>1. state' \in State
    BY <1>9 DEF SaveDraft, State, Op, Change, Table, TypeOK
  <2>2. op' \in Op /\ faults'.count \in Nat /\ faults'.kinds \subseteq Faults
    BY <1>9 DEF SaveDraft, Op, Steps, TypeOK, Goto, Return, Fault, NoFault
  <2>3. QED
    BY <1>9, <2>1, <2>2 DEF SaveDraft, TypeOK, host
<1>10. CASE Check
  BY <1>10 DEF Check, Op, Steps, TypeOK, At, Goto, Return, Fault, NoFault, conf, host,
     proc, Idle
<1>11. CASE SavePending
  BY <1>11 DEF SavePending, Op, Steps, Pending, TypeOK, At, Goto, Return, Fault, NoFault,
     conf, host, proc, Idle
<1>12. CASE Load
  BY <1>12, RunType, ScriptOfType DEF Load, Op, Steps, TypeOK, At, Goto, Return, Fault,
     NoFault, conf, host, proc, Idle
<1>13. CASE Arm
  BY <1>13 DEF Arm, Op, Timer, Change, Table, TypeOK, At, Goto, Return, Fault, NoFault,
     conf, host, proc, Idle
<1>14. CASE CommitState
  <2>0. /\ op.change.target \in Mode /\ op.change.table \in Table
        /\ state \in State
    BY DEF TypeOK, Op, Change, Mode
  <2>1. state' \in State
    <3>1. [state EXCEPT !.mode = op.change.target, !.applied = op.change.table] \in State
      BY <2>0 DEF State
    <3> QED
      BY <1>14, <2>0, <3>1 DEF CommitState
  <2>2. op' \in Op /\ faults'.count \in Nat /\ faults'.kinds \subseteq Faults
    BY <1>14 DEF CommitState, Op, Steps, TypeOK, Goto, Return, Fault, NoFault
  <2>3. QED
    BY <1>14, <2>1, <2>2 DEF CommitState, TypeOK, host
<1>15. CASE SaveRuleset
  BY <1>15, ScriptOfType DEF SaveRuleset, Op, Steps, TypeOK, At, Goto, Return, Fault,
     NoFault, conf, host, proc, Idle
<1>16. CASE EnableUnit
  <2>1. unit' \in BOOLEAN
    BY <1>16 DEF EnableUnit, TypeOK
  <2>2. op' \in Op /\ faults'.count \in Nat /\ faults'.kinds \subseteq Faults
    BY <1>16 DEF EnableUnit, Op, Steps, TypeOK, Goto, Return, Fault, NoFault
  <2>3. QED
    BY <1>16, <2>1, <2>2 DEF EnableUnit, TypeOK, host
<1>17. CASE ClearPending
  BY <1>17 DEF ClearPending, TypeOK, At, Goto, Return, Fault, NoFault, conf, host, proc,
     Idle
<1>18. CASE Undo
  BY <1>18, RunType DEF Undo, Op, Steps, Pending, Timer, Retry, TypeOK, At, Goto, Return,
     Fault, NoFault, conf, host, proc, Idle
<1>19. CASE Undone
  BY <1>19 DEF Undone, TypeOK, At, Goto, Return, Fault, NoFault, conf, host, proc, Idle
<1>20. CASE RemoveTable
  BY <1>20, RunType DEF RemoveTable, Op, Steps, RemoveScript, NoFile, TypeOK, At, Goto,
     Return, Fault, NoFault, conf, host, proc, Idle
<1>21. CASE RemoveUnit
  <2>1. unit' \in BOOLEAN
    BY <1>21 DEF RemoveUnit, TypeOK
  <2>2. op' \in Op /\ faults'.count \in Nat /\ faults'.kinds \subseteq Faults
    <3>1. (NoFault /\ Goto("forget")) \/ (Fault("unit") /\ Return)
      BY <1>21 DEF RemoveUnit
    <3>2. QED
      BY <3>1 DEF Op, Steps, TypeOK, Goto, Return, Fault, NoFault
  <2>3. QED
    BY <1>21, <2>1, <2>2 DEF RemoveUnit, TypeOK, host
<1>22. CASE RemoveRuleset
  BY <1>22 DEF RemoveRuleset, Op, Steps, TypeOK, At, Goto, Return, Fault, NoFault, conf,
     host, proc, Idle
<1>23. CASE SaveDisabled
  <2>1. state' \in State
    BY <1>23 DEF SaveDisabled, State, Mode, TypeOK
  <2>2. op' \in Op /\ faults'.count \in Nat /\ faults'.kinds \subseteq Faults
    BY <1>23 DEF SaveDisabled, TypeOK, Return, Fault, NoFault
  <2>3. QED
    BY <1>23, <2>1, <2>2 DEF SaveDisabled, TypeOK, host
<1>24. CASE Reload
  BY <1>24, RunType DEF Reload, TypeOK, At, Goto, Return, Fault, NoFault, conf, host,
     proc, Idle
<1>25. ASSUME NEW t \in timers, TimerLeaves(t) PROVE TypeOK'
  BY <1>25 DEF TimerLeaves, TypeOK, At, Goto, Return, Fault, NoFault, conf, host, proc, Idle
<1>26. ASSUME NEW t \in timers, Expire(t) PROVE TypeOK'
  BY <1>26 DEF Expire, Op, Steps, TypeOK, At, Goto, Return, Fault, NoFault, conf, host,
     proc, Idle
<1>27. CASE Recover
  <2>1. op' \in Op
    BY <1>27 DEF Recover, RecoverPending, RecoverTable, Op, Steps, TypeOK
  <2>2. timers' \subseteq Timer
    <3>1. [id |-> pend.change.table.id, left |-> Tries] \in Timer
      BY DEF TypeOK, Pending, Change, Table, Timer
    <3>2. QED
      BY <1>27, <3>1 DEF Recover, RecoverPending, RecoverTable, TypeOK
  <2>3. faults'.count \in Nat /\ faults'.kinds \subseteq Faults
    <3>1. NoFault \/ (\E kind \in FaultKinds : Fault(kind))
      BY <1>27 DEF Recover, RecoverPending, RecoverTable, FaultKinds
    <3>2. QED
      BY <3>1 DEF Fault, NoFault, TypeOK
  <2>4. starting' \in BOOLEAN
    BY <1>27 DEF Recover
  <2>5. QED
    BY <1>27, <2>1, <2>2, <2>3, <2>4 DEF Recover, TypeOK, conf, host
<1>28. CASE Tick
  BY <1>28 DEF Tick, TypeOK, At, Goto, Return, Fault, NoFault, conf, host, proc, Idle
<1>29. CASE OthersWrite
  BY <1>29 DEF OthersWrite, Kernel, TypeOK, At, Goto, Return, Fault, NoFault, conf, host,
     proc, Idle
<1>30. CASE Restart
  BY <1>30 DEF Restart, NewProcess, TypeOK, At, Goto, Return, Fault, NoFault, conf, host,
     proc, Idle
<1>31. CASE Reboot
  BY <1>31, BootedType DEF Reboot, NewProcess, TypeOK, At, Goto, Return, Fault, NoFault,
     conf, host, proc, Idle
<1>32. CASE UNCHANGED vars
  BY <1>32 DEF TypeOK, vars
<1>33. QED
  BY <1>1, <1>2, <1>3, <1>4, <1>5, <1>6, <1>7, <1>8, <1>9, <1>10, <1>11, <1>12, <1>13,
     <1>14, <1>15, <1>16, <1>17, <1>18, <1>19, <1>20, <1>21, <1>22, <1>23, <1>24, <1>25,
     <1>26, <1>27, <1>28, <1>29, <1>30, <1>31, <1>32
  DEF Next, Request, Step, TimerStep, Environment

(* Every variable keeps its type, whatever fails: in particular a retried  *)
(* rollback always has an attempt left.                                    *)
THEOREM TypeCorrect == Spec => []TypeOK
<1>1. QED
  BY InitType, NextType, PTL DEF Spec

-----------------------------------------------------------------------------
(* Safety                                                                  *)

LEMMA KeepInv ==
  ASSUME KernelInv, FilesInv, UNCHANGED <<kernel, pend, boot, state, acked>>
  PROVE  KernelInv' /\ FilesInv'
BY DEF KernelInv, FilesInv, WayBack, TagsIn, Accepted

LEMMA NothingTags ==
  /\ NoTable.id = 0
  /\ NoChange.table.id = 0 /\ NoChange.target = "Managed"
  /\ NoPending.change = NoChange /\ NoPending.rollback = NoFile
  /\ NoOp.at = "idle"
  /\ EmptyKernel.asc.id = 0 /\ EmptyKernel.raw.id = 0
  /\ NoFile.to.asc.id = 0 /\ NoFile.to.raw.id = 0 /\ ~NoFile.whole
BY DEF NoTable, NoChange, NoPending, NoOp, EmptyKernel, NoFile, RemoveScript, ReplaceScript

LEMMA RunTags ==
  ASSUME NEW s \in Script, NEW k \in Kernel
  PROVE  /\ Run(s, k).asc = s.to.asc
         /\ Run(s, k).raw = IF s.whole THEN s.to.raw ELSE k.raw
BY DEF Run, Script, Kernel

LEMMA ScriptOfTags ==
  ASSUME NEW c \in Change
  PROVE  /\ ScriptOf(c).whole = (c.target = "Raw")
         /\ ScriptOf(c).to.asc.id = IF c.target = "Managed" THEN c.table.id ELSE 0
         /\ ScriptOf(c).to.raw.id = IF c.target = "Raw" THEN c.table.id ELSE 0
<1>1. c.target = "Managed" \/ c.target = "Raw"
  BY DEF Change
<1>2. QED
  BY <1>1, NothingTags DEF ScriptOf, ReplaceScript, RawScript, EmptyKernel

LEMMA InitIInv == Init => IInv
<1> SUFFICES ASSUME Init PROVE IInv
  OBVIOUS
<1>1. TypeOK
  BY InitType
<1>2. kernel.asc.id = 0 /\ kernel.raw.id = 0
  BY NothingTags DEF Init, EmptyKernel
<1>3. KernelInv
  BY <1>2 DEF KernelInv, Accepted
<1>4. FilesInv
  BY NothingTags DEF Init, FilesInv, WayBack, TagsIn, Accepted
<1>5. OpInv
  BY NothingTags DEF Init, OpInv, Submitting, Committing
<1>6. QED
  BY <1>1, <1>3, <1>4, <1>5 DEF IInv

LEMMA RollbackForSafe ==
  ASSUME TypeOK, KernelInv, pend = NoPending, NEW target \in {"Managed", "Raw"}, NEW table \in Table
  PROVE  Clean /\ WayBack([target |-> target, table |-> table], RollbackFor(target))
<1>1. Clean
  BY NothingTags DEF KernelInv, Clean, TagsIn, Accepted
<1>2. QED
  BY <1>1, NothingTags DEF Clean, TagsIn, WayBack, RollbackFor, DumpScript,
     ReplaceScript, EmptyKernel, Accepted

LEMMA BeginSafe ==
  ASSUME IInv, NEW step \in {"conflicts", "draft"}, NEW target \in {"Managed", "Raw"},
         NEW body \in Models \union Texts, NEW windowed \in BOOLEAN,
         Begin(step, target, body, windowed)
  PROVE  KernelInv' /\ FilesInv' /\ OpInv'
<1>1. UNCHANGED <<kernel, pend, boot, state>> /\ acked \subseteq acked'
  BY DEF Begin, conf, host
<1>2. KernelInv' /\ FilesInv'
  BY <1>1 DEF IInv, KernelInv, FilesInv, WayBack, TagsIn, Accepted
<1>3. OpInv'
  <2> DEFINE change == [target |-> target, table |-> [id |-> next, body |-> body]]
  <2>1. /\ op'.at = step
        /\ op'.change = change
        /\ op'.rollback = RollbackFor(target)
        /\ op'.windowed = windowed
    BY NoneTypes DEF Begin, Op
  <2>2. change.table \in Table
    BY DEF IInv, TypeOK, Table, Bodies
  <2>3. Clean /\ WayBack(change, RollbackFor(target))
    BY <2>2, RollbackForSafe DEF Begin, IInv
  <2>4. ~windowed => next \in acked'
    BY DEF Begin
  <2>5. Clean' /\ WayBack(op.change, op.rollback)'
    BY <1>1, <2>1, <2>3 DEF Clean, WayBack, TagsIn, Accepted
  <2>6. QED
    BY <2>1, <2>4, <2>5 DEF OpInv, Submitting, Committing, Accepted
<1>4. QED
  BY <1>2, <1>3

LEMMA UndoClean ==
  ASSUME TypeOK, KernelInv, FilesInv
  PROVE  TagsIn(Run(pend.rollback, kernel)) \subseteq Accepted
<1>1. pend.rollback \in Script /\ kernel \in Kernel
  BY DEF TypeOK, Pending
<1>2. ~pend.rollback.whole => kernel.raw.id \in Accepted
  BY DEF FilesInv, WayBack, KernelInv
<1>3. QED
  BY <1>1, <1>2, RunTags DEF FilesInv, WayBack, TagsIn

LEMMA LoadSafe ==
  ASSUME TypeOK, KernelInv, NEW s \in Script, TagsIn(s.to) \subseteq Accepted,
         kernel' = Run(s, kernel), UNCHANGED <<pend, acked>>
  PROVE  KernelInv'
<1>1. kernel'.asc = s.to.asc /\ kernel'.raw \in {s.to.raw, kernel.raw}
  BY RunTags DEF TypeOK
<1>2. QED
  BY <1>1 DEF KernelInv, TagsIn, Accepted

LEMMA NextIInv == IInv /\ [Next]_vars => IInv'
<1> SUFFICES ASSUME IInv, [Next]_vars PROVE IInv'
  OBVIOUS
<1> USE DEF IInv
<1>0. TypeOK'
  BY NextType
<1> SUFFICES KernelInv' /\ FilesInv' /\ OpInv'
  BY <1>0
<1>1. ASSUME NEW m \in Models, EditModel(m) PROVE KernelInv' /\ FilesInv' /\ OpInv'
  <2>1. KernelInv' /\ FilesInv'
    BY <1>1, NothingTags DEF EditModel, KernelInv, FilesInv, OpInv, Clean, WayBack,
       TagsIn, Accepted, Submitting, Committing, conf, host, At
  <2>2. OpInv'
    BY <1>1, NothingTags DEF EditModel, OpInv, Clean, WayBack, TagsIn, Accepted,
       Submitting, Committing, TypeOK, Op, conf, host, proc, At, Goto, Return, NewProcess
  <2>3. QED
    BY <2>1, <2>2
<1>2. CASE InstallNft
  <2>1. KernelInv' /\ FilesInv'
    BY <1>2, KeepInv DEF InstallNft, conf, host
  <2>2. OpInv'
    BY <1>2, NothingTags DEF InstallNft, OpInv, Clean, WayBack, TagsIn, Accepted,
       Submitting, Committing, TypeOK, Op, conf, host, proc, At, Goto, Return, NewProcess
  <2>3. QED
    BY <2>1, <2>2
<1>3. ASSUME NEW force \in BOOLEAN, NEW windowed \in BOOLEAN, Apply(force, windowed) PROVE KernelInv' /\ FilesInv' /\ OpInv'
  BY <1>3, BeginSafe DEF Apply, TypeOK, State
<1>4. ASSUME NEW text \in Texts, NEW windowed \in BOOLEAN, ApplyRaw(text, windowed) PROVE KernelInv' /\ FilesInv' /\ OpInv'
  BY <1>4, BeginSafe DEF ApplyRaw, TypeOK, State
<1>5. ASSUME NEW id \in 0..MaxChanges, Confirm(id) PROVE KernelInv' /\ FilesInv' /\ OpInv'
  <2>1. KernelInv' /\ FilesInv'
    BY <1>5, NothingTags DEF Confirm, KernelInv, FilesInv, OpInv, Clean, WayBack, TagsIn,
       Accepted, Submitting, Committing, conf, host, At
  <2>2. OpInv'
    <3>1. CASE phase = "over"
      <4>1. op'.at = "undo"
        BY <1>5, <3>1, NoneTypes DEF Confirm, Op
      <4>2. QED
        BY <4>1 DEF OpInv, Submitting, Committing
    <3>2. CASE phase # "over"
      <4>1. op'.at = "commit" /\ op'.change = pend.change
        BY <1>5, <3>2, NoneTypes DEF Confirm, Op
      <4>2. pend.change.table.id \in acked' /\ acked \subseteq acked'
        BY <1>5, <3>2 DEF Confirm
      <4>3. Clean'
        BY <1>5, <4>2 DEF Confirm, host, KernelInv, Clean, TagsIn, Accepted
      <4>4. QED
        BY <4>1, <4>2, <4>3 DEF OpInv, Submitting, Committing, Accepted
    <3>3. QED
      BY <3>1, <3>2
  <2>3. QED
    BY <2>1, <2>2
<1>6. CASE Rollback
  <2>1. KernelInv' /\ FilesInv'
    BY <1>6, KeepInv DEF Rollback, conf, host
  <2>2. OpInv'
    BY <1>6, NothingTags DEF Rollback, OpInv, Clean, WayBack, TagsIn, Accepted,
       Submitting, Committing, TypeOK, Op, conf, host, proc, At, Goto, Return, NewProcess
  <2>3. QED
    BY <2>1, <2>2
<1>7. CASE Disable
  <2>1. KernelInv' /\ FilesInv'
    BY <1>7, KeepInv DEF Disable, conf, host
  <2>2. OpInv'
    BY <1>7, NothingTags DEF Disable, OpInv, Clean, WayBack, TagsIn, Accepted,
       Submitting, Committing, TypeOK, Op, conf, host, proc, At, Goto, Return, NewProcess
  <2>3. QED
    BY <2>1, <2>2
<1>8. CASE DisableConflicts
  <2>1. KernelInv' /\ FilesInv'
    BY <1>8, KeepInv DEF DisableConflicts, conf, host
  <2>2. OpInv'
    BY <1>8, NothingTags DEF DisableConflicts, OpInv, Clean, WayBack, TagsIn, Accepted,
       Submitting, Committing, TypeOK, Op, conf, host, proc, At, Goto, Return, NewProcess
  <2>3. QED
    BY <2>1, <2>2
<1>9. CASE SaveDraft
  <2>1. KernelInv' /\ FilesInv'
    <3>1. state'.applied = state.applied
      BY <1>9 DEF SaveDraft, TypeOK, State
    <3>2. QED
      BY <1>9, <3>1 DEF SaveDraft, host, KernelInv, FilesInv, WayBack, TagsIn, Accepted
  <2>2. OpInv'
    BY <1>9, NothingTags DEF SaveDraft, OpInv, Clean, WayBack, TagsIn, Accepted,
       Submitting, Committing, TypeOK, Op, conf, host, proc, At, Goto, Return, NewProcess
  <2>3. QED
    BY <2>1, <2>2
<1>10. CASE Check
  <2>1. KernelInv' /\ FilesInv'
    BY <1>10, KeepInv DEF Check, conf, host
  <2>2. OpInv'
    BY <1>10, NothingTags DEF Check, OpInv, Clean, WayBack, TagsIn, Accepted, Submitting,
       Committing, TypeOK, Op, conf, host, proc, At, Goto, Return, NewProcess
  <2>3. QED
    BY <2>1, <2>2
<1>11. CASE SavePending
  <2>1. KernelInv' /\ FilesInv'
    <3>1. CASE UNCHANGED pend
      BY <1>11, <3>1, KeepInv DEF SavePending, host
    <3>2. CASE pend' = [change |-> op.change, rollback |-> op.rollback]
      <4>1. Clean /\ WayBack(op.change, op.rollback)
        BY <1>11 DEF SavePending, At, OpInv, Submitting
      <4>2. QED
        BY <1>11, <3>2, <4>1 DEF SavePending, host, Clean, KernelInv, FilesInv, WayBack,
           TagsIn, Accepted
    <3>3. QED
      BY <1>11, <3>1, <3>2 DEF SavePending
  <2>2. OpInv'
    BY <1>11, NothingTags DEF SavePending, OpInv, Clean, WayBack, TagsIn, Accepted,
       Submitting, Committing, TypeOK, Op, conf, host, proc, At, Goto, Return, NewProcess
  <2>3. QED
    BY <2>1, <2>2
<1>12. CASE Load
  <2>1. KernelInv' /\ FilesInv'
    <3>1. CASE UNCHANGED kernel
      BY <1>12, <3>1, KeepInv DEF Load, conf
    <3>2. CASE kernel' = Run(ScriptOf(op.change), kernel)
      <4>1. Clean /\ (op.change.table.id \in Accepted \/ pend.change = op.change)
        BY <1>12 DEF Load, At, OpInv, Submitting
      <4>2. op.change \in Change /\ ScriptOf(op.change) \in Script /\ kernel \in Kernel
        BY ScriptOfType DEF TypeOK, Op
      <4>3. /\ kernel'.asc.id \in Accepted \union {op.change.table.id}
            /\ kernel'.raw.id \in Accepted \/
                 (kernel'.raw.id = op.change.table.id /\ op.change.target = "Raw")
        BY <3>2, <4>1, <4>2, RunTags, ScriptOfTags DEF Clean, TagsIn, Accepted, Change
      <4>4. QED
        BY <1>12, <4>1, <4>3 DEF Load, conf, KernelInv, FilesInv, WayBack, TagsIn, Accepted
    <3>3. QED
      BY <1>12, <3>1, <3>2 DEF Load
  <2>2. OpInv'
    <3>1. CASE UNCHANGED kernel /\ op' = [op EXCEPT !.at = "clear"]
      <4>1. Clean'
        BY <1>12, <3>1 DEF Load, At, OpInv, Submitting, Clean, TagsIn, Accepted
      <4>2. QED
        BY <3>1, <4>1 DEF OpInv, Submitting, Committing, TypeOK, Op
    <3>2. CASE op' = NoOp
      BY <3>2, NothingTags DEF OpInv, Submitting, Committing
    <3>3. CASE op.windowed /\ op' = [op EXCEPT !.at = "arm"]
      BY <3>3 DEF OpInv, Submitting, Committing, TypeOK, Op
    <3>4. CASE ~op.windowed /\ op' = [op EXCEPT !.at = "commit"] /\ kernel' = Run(ScriptOf(op.change), kernel)
      <4>1. Clean /\ op.change.table.id \in Accepted
        BY <1>12, <3>4 DEF Load, At, OpInv, Submitting
      <4>2. op.change \in Change /\ ScriptOf(op.change) \in Script /\ kernel \in Kernel
        BY ScriptOfType DEF TypeOK, Op
      <4>3. Clean' /\ op'.at = "commit" /\ op'.change = op.change
        BY <1>12, <3>4, <4>1, <4>2, RunTags, ScriptOfTags DEF Load, Clean, TagsIn,
           Accepted, TypeOK, Op
      <4>4. QED
        BY <1>12, <4>1, <4>3 DEF Load, OpInv, Submitting, Committing, Accepted
    <3>5. QED
      BY <1>12, <3>1, <3>2, <3>3, <3>4 DEF Load, Goto, Return
  <2>3. QED
    BY <2>1, <2>2
<1>13. CASE Arm
  <2>1. KernelInv' /\ FilesInv'
    BY <1>13, KeepInv DEF Arm, conf, host
  <2>2. OpInv'
    BY <1>13, NothingTags DEF Arm, OpInv, Clean, WayBack, TagsIn, Accepted, Submitting,
       Committing, TypeOK, Op, conf, host, proc, At, Goto, Return, NewProcess
  <2>3. QED
    BY <2>1, <2>2
<1>14. CASE CommitState
  <2>1. KernelInv' /\ FilesInv'
    <3>1. state'.applied.id \in Accepted
      <4>1. op.change.table.id \in Accepted
        BY <1>14 DEF CommitState, At, OpInv, Committing
      <4>2. state.applied.id \in Accepted
        BY DEF FilesInv
      <4>3. QED
        BY <1>14, <4>1, <4>2 DEF CommitState, TypeOK, State
    <3>2. QED
      BY <1>14, <3>1 DEF CommitState, host, KernelInv, FilesInv, WayBack, TagsIn, Accepted
  <2>2. OpInv'
    BY <1>14, NothingTags DEF CommitState, OpInv, Clean, WayBack, TagsIn, Accepted,
       Submitting, Committing, TypeOK, Op, conf, host, proc, At, Goto, Return, NewProcess
  <2>3. QED
    BY <2>1, <2>2
<1>15. CASE SaveRuleset
  <2>1. KernelInv' /\ FilesInv'
    <3>1. TagsIn(boot'.to) \subseteq Accepted
      <4>1. op.change.table.id \in Accepted /\ op.change \in Change
        BY <1>15 DEF SaveRuleset, At, OpInv, Committing, TypeOK, Op
      <4>2. TagsIn(boot.to) \subseteq Accepted
        BY DEF FilesInv
      <4>3. QED
        BY <1>15, <4>1, <4>2, ScriptOfTags DEF SaveRuleset, TagsIn, Accepted, Change
    <3>2. QED
      BY <1>15, <3>1 DEF SaveRuleset, host, KernelInv, FilesInv, WayBack, TagsIn, Accepted
  <2>2. OpInv'
    BY <1>15, NothingTags DEF SaveRuleset, OpInv, Clean, WayBack, TagsIn, Accepted,
       Submitting, Committing, TypeOK, Op, conf, host, proc, At, Goto, Return, NewProcess
  <2>3. QED
    BY <2>1, <2>2
<1>16. CASE EnableUnit
  <2>1. KernelInv' /\ FilesInv'
    BY <1>16, KeepInv DEF EnableUnit, conf, host
  <2>2. OpInv'
    BY <1>16, NothingTags DEF EnableUnit, OpInv, Clean, WayBack, TagsIn, Accepted,
       Submitting, Committing, TypeOK, Op, conf, host, proc, At, Goto, Return, NewProcess
  <2>3. QED
    BY <2>1, <2>2
<1>17. CASE ClearPending
  <2>1. KernelInv' /\ FilesInv'
    BY <1>17, NothingTags DEF ClearPending, KernelInv, FilesInv, OpInv, Clean, WayBack,
       TagsIn, Accepted, Submitting, Committing, conf, host, At
  <2>2. OpInv'
    BY <1>17, NothingTags DEF ClearPending, OpInv, Clean, WayBack, TagsIn, Accepted,
       Submitting, Committing, TypeOK, Op, conf, host, proc, At, Goto, Return, NewProcess
  <2>3. QED
    BY <2>1, <2>2
<1>18. CASE Undo
  <2>1. KernelInv' /\ FilesInv'
    <3>1. CASE UNCHANGED kernel
      BY <1>18, <3>1, KeepInv DEF Undo, conf
    <3>2. CASE kernel' = Run(pend.rollback, kernel)
      <4>1. Clean'
        BY <1>18, <3>2, UndoClean DEF Undo, Clean, TagsIn, Accepted
      <4>2. QED
        BY <1>18, <4>1 DEF Undo, conf, Clean, KernelInv, FilesInv, WayBack, TagsIn, Accepted
    <3>3. QED
      BY <1>18, <3>1, <3>2 DEF Undo
  <2>2. OpInv'
    <3>1. CASE op' = NoOp
      BY <3>1, NothingTags DEF OpInv, Submitting, Committing
    <3>2. CASE op' = [op EXCEPT !.at = "undone"] /\ kernel' = Run(pend.rollback, kernel)
      <4>1. Clean'
        BY <1>18, <3>2, UndoClean DEF Undo, Clean, TagsIn, Accepted
      <4>2. QED
        BY <3>2, <4>1 DEF OpInv, Submitting, Committing, TypeOK, Op
    <3>3. QED
      BY <1>18, <3>1, <3>2 DEF Undo, Goto, Return
  <2>3. QED
    BY <2>1, <2>2
<1>19. CASE Undone
  <2>1. KernelInv' /\ FilesInv'
    BY <1>19, NothingTags DEF Undone, KernelInv, FilesInv, OpInv, Clean, WayBack, TagsIn,
       Accepted, Submitting, Committing, conf, host, At
  <2>2. OpInv'
    BY <1>19, NothingTags DEF Undone, OpInv, Clean, WayBack, TagsIn, Accepted,
       Submitting, Committing, TypeOK, Op, conf, host, proc, At, Goto, Return, NewProcess
  <2>3. QED
    BY <2>1, <2>2
<1>20. CASE RemoveTable
  <2>1. KernelInv' /\ FilesInv'
    <3>1. CASE UNCHANGED kernel
      BY <1>20, <3>1, KeepInv DEF RemoveTable, conf
    <3>2. CASE kernel' = Run(RemoveScript, kernel)
      <4>1. RemoveScript \in Script /\ TagsIn(RemoveScript.to) \subseteq Accepted
        BY ScriptTypes, NothingTags DEF TagsIn, Accepted, NoFile
      <4>2. KernelInv'
        BY <1>20, <3>2, <4>1, LoadSafe DEF RemoveTable, conf
      <4>3. QED
        BY <1>20, <4>2 DEF RemoveTable, conf, FilesInv, WayBack, TagsIn, Accepted
    <3>3. QED
      BY <1>20, <3>1, <3>2 DEF RemoveTable
  <2>2. OpInv'
    BY <1>20, NothingTags DEF RemoveTable, OpInv, Clean, WayBack, TagsIn, Accepted,
       Submitting, Committing, TypeOK, Op, conf, host, proc, At, Goto, Return, NewProcess
  <2>3. QED
    BY <2>1, <2>2
<1>21. CASE RemoveUnit
  <2>1. KernelInv' /\ FilesInv'
    BY <1>21, KeepInv DEF RemoveUnit, conf, host
  <2>2. OpInv'
    BY <1>21, NothingTags DEF RemoveUnit, OpInv, Clean, WayBack, TagsIn, Accepted,
       Submitting, Committing, TypeOK, Op, conf, host, proc, At, Goto, Return, NewProcess
  <2>3. QED
    BY <2>1, <2>2
<1>22. CASE RemoveRuleset
  <2>1. KernelInv' /\ FilesInv'
    BY <1>22, NothingTags DEF RemoveRuleset, KernelInv, FilesInv, OpInv, Clean, WayBack,
       TagsIn, Accepted, Submitting, Committing, conf, host, At
  <2>2. OpInv'
    BY <1>22, NothingTags DEF RemoveRuleset, OpInv, Clean, WayBack, TagsIn, Accepted,
       Submitting, Committing, TypeOK, Op, conf, host, proc, At, Goto, Return, NewProcess
  <2>3. QED
    BY <2>1, <2>2
<1>23. CASE SaveDisabled
  <2>1. KernelInv' /\ FilesInv'
    <3>1. state'.applied.id \in Accepted
      BY <1>23, NothingTags DEF SaveDisabled, FilesInv, Accepted, TypeOK, State
    <3>2. QED
      BY <1>23, <3>1 DEF SaveDisabled, host, KernelInv, FilesInv, WayBack, TagsIn, Accepted
  <2>2. OpInv'
    BY <1>23, NothingTags DEF SaveDisabled, OpInv, Clean, WayBack, TagsIn, Accepted,
       Submitting, Committing, TypeOK, Op, conf, host, proc, At, Goto, Return, NewProcess
  <2>3. QED
    BY <2>1, <2>2
<1>24. CASE Reload
  <2>1. KernelInv' /\ FilesInv'
    <3>1. CASE UNCHANGED kernel
      BY <1>24, <3>1, KeepInv DEF Reload, conf
    <3>2. CASE kernel' = Run(boot, kernel)
      <4>1. boot \in Script /\ TagsIn(boot.to) \subseteq Accepted
        BY DEF TypeOK, FilesInv
      <4>2. KernelInv'
        BY <1>24, <3>2, <4>1, LoadSafe DEF Reload, conf
      <4>3. QED
        BY <1>24, <4>2 DEF Reload, conf, FilesInv, WayBack, TagsIn, Accepted
    <3>3. QED
      BY <1>24, <3>1, <3>2 DEF Reload
  <2>2. OpInv'
    BY <1>24, NothingTags DEF Reload, OpInv, Clean, WayBack, TagsIn, Accepted,
       Submitting, Committing, TypeOK, Op, conf, host, proc, At, Goto, Return, NewProcess
  <2>3. QED
    BY <2>1, <2>2
<1>25. ASSUME NEW t \in timers, TimerLeaves(t) PROVE KernelInv' /\ FilesInv' /\ OpInv'
  <2>1. KernelInv' /\ FilesInv'
    BY <1>25, KeepInv DEF TimerLeaves, conf, host
  <2>2. OpInv'
    BY <1>25, NothingTags DEF TimerLeaves, OpInv, Clean, WayBack, TagsIn, Accepted,
       Submitting, Committing, TypeOK, Op, conf, host, proc, At, Goto, Return, NewProcess
  <2>3. QED
    BY <2>1, <2>2
<1>26. ASSUME NEW t \in timers, Expire(t) PROVE KernelInv' /\ FilesInv' /\ OpInv'
  <2>1. KernelInv' /\ FilesInv'
    BY <1>26, KeepInv DEF Expire, conf, host
  <2>2. OpInv'
    BY <1>26, NothingTags DEF Expire, OpInv, Clean, WayBack, TagsIn, Accepted,
       Submitting, Committing, TypeOK, Op, conf, host, proc, At, Goto, Return, NewProcess
  <2>3. QED
    BY <2>1, <2>2
<1>27. CASE Recover
  <2>1. KernelInv' /\ FilesInv'
    BY <1>27, KeepInv DEF Recover, conf, host
  <2>2. OpInv'
    <3>1. op' = op \/ op'.at \in {"undo", "reload"}
      BY <1>27, NoneTypes DEF Recover, RecoverPending, RecoverTable, Op
    <3>2. op.at = "idle"
      BY <1>27, NothingTags DEF Recover, Idle
    <3>3. QED
      BY <3>1, <3>2 DEF OpInv, Submitting, Committing
  <2>3. QED
    BY <2>1, <2>2
<1>28. CASE Tick
  <2>1. KernelInv' /\ FilesInv'
    BY <1>28, KeepInv DEF Tick, conf, host
  <2>2. OpInv'
    BY <1>28, NothingTags DEF Tick, OpInv, Clean, WayBack, TagsIn, Accepted, Submitting,
       Committing, TypeOK, Op, conf, host, proc, At, Goto, Return, NewProcess
  <2>3. QED
    BY <2>1, <2>2
<1>29. CASE OthersWrite
  <2>1. KernelInv' /\ FilesInv'
    BY <1>29, NothingTags DEF OthersWrite, KernelInv, FilesInv, OpInv, Clean, WayBack,
       TagsIn, Accepted, Submitting, Committing, conf, host, At
  <2>2. OpInv'
    BY <1>29, NothingTags DEF OthersWrite, OpInv, Clean, WayBack, TagsIn, Accepted,
       Submitting, Committing, TypeOK, Op, conf, host, proc, At, Goto, Return, NewProcess
  <2>3. QED
    BY <2>1, <2>2
<1>30. CASE Restart
  <2>1. KernelInv' /\ FilesInv'
    BY <1>30, KeepInv DEF Restart, conf, host
  <2>2. OpInv'
    BY <1>30, NothingTags DEF Restart, OpInv, Clean, WayBack, TagsIn, Accepted,
       Submitting, Committing, TypeOK, Op, conf, host, proc, At, Goto, Return, NewProcess
  <2>3. QED
    BY <2>1, <2>2
<1>31. CASE Reboot
  <2>1. KernelInv' /\ FilesInv'
    <3>1. {kernel'.asc.id, kernel'.raw.id} \subseteq Accepted
      <4>1. EmptyKernel \in Kernel /\ boot \in Script /\ TagsIn(boot.to) \subseteq Accepted
        BY ScriptTypes DEF TypeOK, FilesInv
      <4>2. \A k \in Kernel : [k EXCEPT !.others = wrote].asc = k.asc /\ [k EXCEPT !.others = wrote].raw = k.raw
        BY DEF Kernel
      <4>3. Run(boot, EmptyKernel) \in Kernel
        BY <4>1, RunType
      <4>4. TagsIn(Run(boot, EmptyKernel)) \union TagsIn(EmptyKernel) \subseteq Accepted
        BY <4>1, RunTags, NothingTags DEF TagsIn, Accepted
      <4>5. QED
        BY <1>31, <4>1, <4>2, <4>3, <4>4 DEF Reboot, Booted, TagsIn
    <3>2. QED
      BY <1>31, <3>1 DEF Reboot, conf, KernelInv, FilesInv, WayBack, TagsIn, Accepted
  <2>2. OpInv'
    BY <1>31, NothingTags DEF Reboot, OpInv, Clean, WayBack, TagsIn, Accepted,
       Submitting, Committing, TypeOK, Op, conf, host, proc, At, Goto, Return, NewProcess
  <2>3. QED
    BY <2>1, <2>2
<1>32. CASE UNCHANGED vars
  BY <1>32 DEF vars, KernelInv, FilesInv, OpInv, Clean, WayBack, TagsIn, Accepted
<1>33. QED
  BY <1>1, <1>2, <1>3, <1>4, <1>5, <1>6, <1>7, <1>8, <1>9, <1>10, <1>11, <1>12, <1>13,
     <1>14, <1>15, <1>16, <1>17, <1>18, <1>19, <1>20, <1>21, <1>22, <1>23, <1>24, <1>25,
     <1>26, <1>27, <1>28, <1>29, <1>30, <1>31, <1>32
  DEF Next, Request, Step, TimerStep, Environment

LEMMA IInvSafe == IInv => NeverStranded /\ OnlyAcceptedBoots
<1> SUFFICES ASSUME IInv PROVE NeverStranded /\ OnlyAcceptedBoots
  OBVIOUS
<1> USE DEF IInv
<1>1. NeverStranded
  BY UndoClean DEF NeverStranded, ChangesIn, KernelInv, TagsIn, Accepted
<1>2. OnlyAcceptedBoots
  BY DEF OnlyAcceptedBoots, ChangesIn, FilesInv, TagsIn, Accepted
<1>3. QED
  BY <1>1, <1>2

LEMMA Inductive == Spec => []IInv
<1>1. QED
  BY InitIInv, NextIInv, PTL DEF Spec

(* Whatever fails and wherever the daemon or the machine dies: a change in *)
(* the kernel that nobody accepted is the pending one, and its rollback    *)
(* leads back to accepted changes only.                                    *)
THEOREM ChangesNeverStranded == Spec => []NeverStranded
<1>1. QED
  BY Inductive, IInvSafe, PTL

(* Neither the boot file nor state.json ever holds a change that nobody    *)
(* accepted.                                                               *)
THEOREM BootsAccepted == Spec => []OnlyAcceptedBoots
<1>1. QED
  BY Inductive, IInvSafe, PTL
-----------------------------------------------------------------------------
(* What the operations rely on, beyond the accepted ids: which change is   *)
(* on trial, and what undoing it would leave.                              *)

(* `rollback` leads back to the ruleset that is in the kernel now. *)
Reverts(rollback) ==
  /\ rollback.to.asc = kernel.asc
  /\ rollback.whole => rollback.to.raw = kernel.raw

Preparing == {"conflicts", "draft", "check", "pending"}
Disabling == {"remove", "unlink", "forget", "off"}

(* Ids are given out in order, and nobody accepts a change before it is    *)
(* submitted.                                                              *)
IdsInv ==
  /\ \A id \in acked : id < next
  /\ pend.change.table.id < next
  /\ pend # NoPending => pend.change.table.id # 0
  /\ \A t \in timers \union op.by : t.id # 0
  /\ op.at \in Submitting \union {"arm"} => op.change.table.id \in 1..(next - 1)
  /\ op.at \in Submitting =>
       /\ op.windowed => op.change.table.id \notin acked
       /\ ~op.confirming

(* What is pending at each step of an operation, and where its rollback    *)
(* leads.                                                                  *)
TrialInv ==
  /\ op.at \in Preparing => pend = NoPending /\ Reverts(op.rollback)
  /\ op.at = "load" => IF op.windowed THEN pend # NoPending /\ Reverts(pend.rollback)
                                      ELSE pend = NoPending
  /\ op.at \in Committing =>
       IF op.confirming THEN pend.change.table.id \in acked ELSE pend = NoPending
  /\ op.at = "clear" => pend.change.table.id \in acked \/ Reverts(pend.rollback)
  /\ op.at = "undo" => pend # NoPending
  /\ op.at = "undone" => Reverts(pend.rollback)
  /\ op.at \in Disabling \union {"reload"} => pend = NoPending

(* A change is only submitted where nft is installed. *)
NftInv ==
  \/ nft
  \/ state.mode = "Disabled" /\ pend = NoPending /\ op.at \notin Submitting \union Committing

(* The kernel holds what state.json says was applied, ... *)
Fits(k) ==
  /\ state.mode = "Managed" => k.asc = state.applied
  /\ state.mode = "Raw" => k.raw = state.applied
  /\ state.mode # "Managed" => k.asc = NoTable

(* ... or what the change says. *)
Holds(change) ==
  IF change.target = "Managed" THEN kernel.asc = change.table
                               ELSE kernel.raw = change.table /\ kernel.asc = NoTable

(* What is left when the pending change is rolled back. *)
Fallback == IF pend = NoPending THEN kernel ELSE Run(pend.rollback, kernel)

ForceInv ==
  /\ op.at \notin Committing \union {"clear", "unlink", "forget", "off"} => Fits(Fallback)
  /\ pend # NoPending /\ op.at \in {"idle", "arm", "undo"} => Holds(pend.change)
  /\ op.at = "commit" => Holds(op.change)
  /\ op.at \in {"ruleset", "enable", "clear"} => Fits(kernel)
  /\ op.at \in {"unlink", "forget", "off"} => kernel.asc = NoTable

(* The unit loads what state.json says was confirmed. *)
Boots == IF state.mode = "Disabled"
           THEN ~unit
           ELSE unit /\ boot = ScriptOf([target |-> state.mode, table |-> state.applied])

BootInv ==
  /\ op.at \notin {"ruleset", "enable", "forget", "off"} => Boots
  /\ op.at \in {"ruleset", "enable"} =>
       state.mode = op.change.target /\ state.applied = op.change.table
  /\ op.at = "enable" => boot = ScriptOf(op.change)
  /\ op.at \in {"forget", "off"} => ~unit
  /\ op.at = "reload" => state.mode = "Managed"

(* A rollback replaces the whole ruleset only where RAW is involved. *)
RawInv ==
  /\ op.at \in Preparing /\ op.rollback.whole => "Raw" \in {state.mode, op.change.target}
  /\ op.at \notin {"ruleset", "enable", "clear"} /\ pend.rollback.whole =>
       "Raw" \in {state.mode, pend.change.target}

CalmInv == Calm => ForceInv /\ BootInv /\ RawInv

EInv == IInv /\ IdsInv /\ TrialInv /\ NftInv /\ CalmInv

(* An operation goes on, ends, or starts without submitting a change. *)
GoesOn ==
  /\ op'.at \in Submitting \union {"arm"} =>
       op.at \in Submitting \union {"arm"} /\ op'.change = op.change
  /\ op'.at \in Submitting =>
       op.at \in Submitting /\ op'.windowed = op.windowed /\ op'.confirming = op.confirming

LEMMA IdsAside ==
  ASSUME TypeOK, IdsInv, UNCHANGED <<next, acked>>, pend' \in {pend, NoPending}, GoesOn,
         \A t \in timers' \union op'.by : t.id # 0
  PROVE  IdsInv'
<1>1. \A id \in acked' : id < next'
  BY DEF IdsInv
<1>2. pend'.change.table.id < next' /\ (pend' # NoPending => pend'.change.table.id # 0)
  <2>1. next > 0
    BY DEF TypeOK
  <2>2. CASE pend' = pend
    BY <2>2 DEF IdsInv
  <2>3. CASE pend' = NoPending
    BY <2>1, <2>3, NothingTags
  <2>4. QED
    BY <2>2, <2>3
<1>3. op'.at \in Submitting \union {"arm"} => op'.change.table.id \in 1..(next' - 1)
  BY DEF IdsInv, GoesOn
<1>4. op'.at \in Submitting => (op'.windowed => op'.change.table.id \notin acked') /\ ~op'.confirming
  BY DEF IdsInv, GoesOn
<1>5. QED
  BY <1>1, <1>2, <1>3, <1>4 DEF IdsInv

(* What submitting a change writes down about it. *)
LEMMA BeginOp ==
  ASSUME TypeOK, NEW step, NEW target, NEW body, NEW windowed, Begin(step, target, body, windowed)
  PROVE  /\ op'.at = step /\ op'.windowed = windowed /\ op'.confirming = FALSE /\ op'.by = {}
         /\ op'.change = [target |-> target, table |-> [id |-> next, body |-> body]]
         /\ op'.rollback = RollbackFor(target)
BY NoneTypes DEF Begin, NoOp

LEMMA BeginIds ==
  ASSUME TypeOK, IdsInv, NEW step, NEW target, NEW body, NEW windowed \in BOOLEAN,
         Begin(step, target, body, windowed)
  PROVE  IdsInv'
<1>1. /\ next \in Nat \ {0} /\ next' = next + 1 /\ acked \subseteq Nat
      /\ acked' = IF windowed THEN acked ELSE acked \union {next}
      /\ pend = NoPending /\ pend' = pend /\ timers' = timers
  BY DEF Begin, TypeOK, conf
<1>2. op'.change.table.id = next /\ op'.windowed = windowed /\ ~op'.confirming /\ op'.by = {}
  <2>1. op'.change = [target |-> target, table |-> [id |-> next, body |-> body]]
    BY DEF Begin, NoOp
  <2>2. op'.windowed = windowed /\ op'.confirming = FALSE /\ op'.by = {}
    BY DEF Begin, NoOp
  <2>3. QED
    BY <2>1, <2>2
<1>3. (\A id \in acked : id < next) /\ (\A t \in timers : t.id # 0)
  BY DEF IdsInv
<1>4. pend'.change.table.id < next'
  BY <1>1, NothingTags
<1>5. (\A id \in acked' : id < next') /\ (windowed => next \notin acked')
  BY <1>1, <1>3
<1>6. QED
  BY <1>1, <1>2, <1>3, <1>4, <1>5 DEF IdsInv

LEMMA NextIds ==
  ASSUME TypeOK, IdsInv, [Next]_vars
  PROVE  IdsInv'
<1>1. ASSUME NEW m \in Models, EditModel(m) PROVE IdsInv'
  <2>1. UNCHANGED <<next, acked>> /\ pend' \in {pend, NoPending}
    BY <1>1 DEF EditModel, conf, proc
  <2>2. GoesOn
    BY <1>1, NothingTags, NoneTypes DEF EditModel, GoesOn, Submitting, TypeOK, Op, At,
       Goto, Return, Idle, proc
  <2>3. \A t \in timers' \union op'.by : t.id # 0
    BY <1>1, NoneTypes DEF EditModel, IdsInv, TypeOK, Op, At, Goto, Return, Idle, proc, NoOp
  <2>4. QED
    BY <2>1, <2>2, <2>3, IdsAside
<1>2. CASE InstallNft
  <2>1. UNCHANGED <<next, acked>> /\ pend' \in {pend, NoPending}
    BY <1>2 DEF InstallNft, conf, proc
  <2>2. GoesOn
    BY <1>2, NothingTags, NoneTypes DEF InstallNft, GoesOn, Submitting, TypeOK, Op, At,
       Goto, Return, Idle, proc
  <2>3. \A t \in timers' \union op'.by : t.id # 0
    BY <1>2, NoneTypes DEF InstallNft, IdsInv, TypeOK, Op, At, Goto, Return, Idle, proc,
       NoOp
  <2>4. QED
    BY <2>1, <2>2, <2>3, IdsAside
<1>3. ASSUME NEW force \in BOOLEAN, NEW windowed \in BOOLEAN, Apply(force, windowed) PROVE IdsInv'
  BY <1>3, BeginIds DEF Apply
<1>4. ASSUME NEW text \in Texts, NEW windowed \in BOOLEAN, ApplyRaw(text, windowed) PROVE IdsInv'
  BY <1>4, BeginIds DEF ApplyRaw
<1>5. ASSUME NEW id \in 0..MaxChanges, Confirm(id) PROVE IdsInv'
  <2>1. next' = next /\ pend' = pend /\ timers' = timers /\ pend # NoPending
    BY <1>5 DEF Confirm, conf
  <2>2. acked' \subseteq acked \union {pend.change.table.id}
    BY <1>5 DEF Confirm
  <2>3. op'.at \in {"undo", "commit"} /\ op'.by = {}
    BY <1>5, NoneTypes DEF Confirm, NoOp
  <2>4. \A other \in acked' : other < next'
    BY <2>1, <2>2 DEF IdsInv
  <2>5. QED
    BY <2>1, <2>3, <2>4 DEF IdsInv, Submitting
<1>6. CASE Rollback
  <2>1. UNCHANGED <<next, acked>> /\ pend' \in {pend, NoPending}
    BY <1>6 DEF Rollback, conf, proc
  <2>2. GoesOn
    BY <1>6, NothingTags, NoneTypes DEF Rollback, GoesOn, Submitting, TypeOK, Op, At,
       Goto, Return, Idle, proc
  <2>3. \A t \in timers' \union op'.by : t.id # 0
    BY <1>6, NoneTypes DEF Rollback, IdsInv, TypeOK, Op, At, Goto, Return, Idle, proc, NoOp
  <2>4. QED
    BY <2>1, <2>2, <2>3, IdsAside
<1>7. CASE Disable
  <2>1. UNCHANGED <<next, acked>> /\ pend' \in {pend, NoPending}
    BY <1>7 DEF Disable, conf, proc
  <2>2. GoesOn
    BY <1>7, NothingTags, NoneTypes DEF Disable, GoesOn, Submitting, TypeOK, Op, At,
       Goto, Return, Idle, proc
  <2>3. \A t \in timers' \union op'.by : t.id # 0
    BY <1>7, NoneTypes DEF Disable, IdsInv, TypeOK, Op, At, Goto, Return, Idle, proc, NoOp
  <2>4. QED
    BY <2>1, <2>2, <2>3, IdsAside
<1>8. CASE DisableConflicts
  <2>1. UNCHANGED <<next, acked>> /\ pend' \in {pend, NoPending}
    BY <1>8 DEF DisableConflicts, conf, proc
  <2>2. GoesOn
    BY <1>8, NothingTags, NoneTypes DEF DisableConflicts, GoesOn, Submitting, TypeOK, Op,
       At, Goto, Return, Idle, proc
  <2>3. \A t \in timers' \union op'.by : t.id # 0
    BY <1>8, NoneTypes DEF DisableConflicts, IdsInv, TypeOK, Op, At, Goto, Return, Idle,
       proc, NoOp
  <2>4. QED
    BY <2>1, <2>2, <2>3, IdsAside
<1>9. CASE SaveDraft
  <2>1. UNCHANGED <<next, acked>> /\ pend' \in {pend, NoPending}
    BY <1>9 DEF SaveDraft, conf, proc
  <2>2. GoesOn
    BY <1>9, NothingTags, NoneTypes DEF SaveDraft, GoesOn, Submitting, TypeOK, Op, At,
       Goto, Return, Idle, proc
  <2>3. \A t \in timers' \union op'.by : t.id # 0
    BY <1>9, NoneTypes DEF SaveDraft, IdsInv, TypeOK, Op, At, Goto, Return, Idle, proc, NoOp
  <2>4. QED
    BY <2>1, <2>2, <2>3, IdsAside
<1>10. CASE Check
  <2>1. UNCHANGED <<next, acked>> /\ pend' \in {pend, NoPending}
    BY <1>10 DEF Check, conf, proc
  <2>2. GoesOn
    BY <1>10, NothingTags, NoneTypes DEF Check, GoesOn, Submitting, TypeOK, Op, At, Goto,
       Return, Idle, proc
  <2>3. \A t \in timers' \union op'.by : t.id # 0
    BY <1>10, NoneTypes DEF Check, IdsInv, TypeOK, Op, At, Goto, Return, Idle, proc, NoOp
  <2>4. QED
    BY <2>1, <2>2, <2>3, IdsAside
<1>11. CASE SavePending
  <2>1. CASE pend' = pend /\ op' = NoOp
    <3>1. UNCHANGED <<next, acked, timers>>
      BY <1>11 DEF SavePending
    <3>2. GoesOn /\ \A t \in timers' \union op'.by : t.id # 0
      BY <2>1, <3>1, NothingTags DEF GoesOn, Submitting, IdsInv, NoOp
    <3>3. QED
      BY <2>1, <3>1, <3>2, IdsAside
  <2>2. CASE pend' = [change |-> op.change,
  rollback |-> op.rollback] /\ op' = [op EXCEPT !.at = "load"]
    <3>1. UNCHANGED <<next, acked, timers>> /\ op.at = "pending"
      BY <1>11 DEF SavePending, At
    <3>2. op'.at = "load" /\ op'.change = op.change /\ op'.windowed = op.windowed
          /\ op'.confirming = op.confirming /\ op'.by = op.by
      BY <2>2 DEF TypeOK, Op
    <3>3. op.change.table.id \in 1..(next - 1) /\ next \in Nat
      BY <3>1 DEF IdsInv, Submitting, TypeOK
    <3>4. pend'.change.table.id < next' /\ pend'.change.table.id # 0
      BY <2>2, <3>1, <3>3
    <3>5. QED
      BY <3>1, <3>2, <3>4 DEF IdsInv, Submitting
  <2>3. QED
    BY <1>11, <2>1, <2>2 DEF SavePending, Goto, Return
<1>12. CASE Load
  <2>1. UNCHANGED <<next, acked>> /\ pend' \in {pend, NoPending}
    BY <1>12 DEF Load, conf, proc
  <2>2. GoesOn
    BY <1>12, NothingTags, NoneTypes DEF Load, GoesOn, Submitting, TypeOK, Op, At, Goto,
       Return, Idle, proc
  <2>3. \A t \in timers' \union op'.by : t.id # 0
    BY <1>12, NoneTypes DEF Load, IdsInv, TypeOK, Op, At, Goto, Return, Idle, proc, NoOp
  <2>4. QED
    BY <2>1, <2>2, <2>3, IdsAside
<1>13. CASE Arm
  <2>1. UNCHANGED <<next, acked>> /\ pend' \in {pend, NoPending}
    BY <1>13 DEF Arm, conf, proc
  <2>2. GoesOn
    BY <1>13, NothingTags, NoneTypes DEF Arm, GoesOn, Submitting, TypeOK, Op, At, Goto,
       Return, Idle, proc
  <2>3. \A t \in timers' \union op'.by : t.id # 0
    <3>1. op.change.table.id # 0
      BY <1>13 DEF Arm, At, IdsInv, TypeOK
    <3>2. QED
      BY <1>13, <3>1 DEF Arm, IdsInv, Return, NoOp
  <2>4. QED
    BY <2>1, <2>2, <2>3, IdsAside
<1>14. CASE CommitState
  <2>1. UNCHANGED <<next, acked>> /\ pend' \in {pend, NoPending}
    BY <1>14 DEF CommitState, conf, proc
  <2>2. GoesOn
    BY <1>14, NothingTags, NoneTypes DEF CommitState, GoesOn, Submitting, TypeOK, Op, At,
       Goto, Return, Idle, proc
  <2>3. \A t \in timers' \union op'.by : t.id # 0
    BY <1>14, NoneTypes DEF CommitState, IdsInv, TypeOK, Op, At, Goto, Return, Idle,
       proc, NoOp
  <2>4. QED
    BY <2>1, <2>2, <2>3, IdsAside
<1>15. CASE SaveRuleset
  <2>1. UNCHANGED <<next, acked>> /\ pend' \in {pend, NoPending}
    BY <1>15 DEF SaveRuleset, conf, proc
  <2>2. GoesOn
    BY <1>15, NothingTags, NoneTypes DEF SaveRuleset, GoesOn, Submitting, TypeOK, Op, At,
       Goto, Return, Idle, proc
  <2>3. \A t \in timers' \union op'.by : t.id # 0
    BY <1>15, NoneTypes DEF SaveRuleset, IdsInv, TypeOK, Op, At, Goto, Return, Idle,
       proc, NoOp
  <2>4. QED
    BY <2>1, <2>2, <2>3, IdsAside
<1>16. CASE EnableUnit
  <2>1. UNCHANGED <<next, acked>> /\ pend' \in {pend, NoPending}
    BY <1>16 DEF EnableUnit, conf, proc
  <2>2. GoesOn
    BY <1>16, NothingTags, NoneTypes DEF EnableUnit, GoesOn, Submitting, TypeOK, Op, At,
       Goto, Return, Idle, proc
  <2>3. \A t \in timers' \union op'.by : t.id # 0
    BY <1>16, NoneTypes DEF EnableUnit, IdsInv, TypeOK, Op, At, Goto, Return, Idle, proc,
       NoOp
  <2>4. QED
    BY <2>1, <2>2, <2>3, IdsAside
<1>17. CASE ClearPending
  <2>1. UNCHANGED <<next, acked>> /\ pend' \in {pend, NoPending}
    BY <1>17 DEF ClearPending, conf, proc
  <2>2. GoesOn
    BY <1>17, NothingTags, NoneTypes DEF ClearPending, GoesOn, Submitting, TypeOK, Op,
       At, Goto, Return, Idle, proc
  <2>3. \A t \in timers' \union op'.by : t.id # 0
    BY <1>17, NoneTypes DEF ClearPending, IdsInv, TypeOK, Op, At, Goto, Return, Idle,
       proc, NoOp
  <2>4. QED
    BY <2>1, <2>2, <2>3, IdsAside
<1>18. CASE Undo
  <2>1. UNCHANGED <<next, acked>> /\ pend' \in {pend, NoPending}
    BY <1>18 DEF Undo, conf, proc
  <2>2. GoesOn
    BY <1>18, NothingTags, NoneTypes DEF Undo, GoesOn, Submitting, TypeOK, Op, At, Goto,
       Return, Idle, proc
  <2>3. \A t \in timers' \union op'.by : t.id # 0
    <3>1. \A t \in Retry(op.by) : t.id # 0
      <4>1. \A t \in op.by : t \in Timer /\ t.id # 0 /\ [t EXCEPT !.left = @ - 1].id = t.id
        BY DEF TypeOK, Op, Timer, IdsInv
      <4>2. QED
        BY <4>1 DEF Retry
    <3>2. timers' \subseteq timers \union Retry(op.by) /\ op'.by \subseteq op.by
      BY <1>18 DEF Undo, TypeOK, Op, Goto, Return, NoOp
    <3>3. QED
      BY <3>1, <3>2 DEF IdsInv
  <2>4. QED
    BY <2>1, <2>2, <2>3, IdsAside
<1>19. CASE Undone
  <2>1. UNCHANGED <<next, acked>> /\ pend' \in {pend, NoPending}
    BY <1>19 DEF Undone, conf, proc
  <2>2. GoesOn
    BY <1>19, NothingTags, NoneTypes DEF Undone, GoesOn, Submitting, TypeOK, Op, At,
       Goto, Return, Idle, proc
  <2>3. \A t \in timers' \union op'.by : t.id # 0
    BY <1>19, NoneTypes DEF Undone, IdsInv, TypeOK, Op, At, Goto, Return, Idle, proc, NoOp
  <2>4. QED
    BY <2>1, <2>2, <2>3, IdsAside
<1>20. CASE RemoveTable
  <2>1. UNCHANGED <<next, acked>> /\ pend' \in {pend, NoPending}
    BY <1>20 DEF RemoveTable, conf, proc
  <2>2. GoesOn
    BY <1>20, NothingTags, NoneTypes DEF RemoveTable, GoesOn, Submitting, TypeOK, Op, At,
       Goto, Return, Idle, proc
  <2>3. \A t \in timers' \union op'.by : t.id # 0
    BY <1>20, NoneTypes DEF RemoveTable, IdsInv, TypeOK, Op, At, Goto, Return, Idle,
       proc, NoOp
  <2>4. QED
    BY <2>1, <2>2, <2>3, IdsAside
<1>21. CASE RemoveUnit
  <2>1. UNCHANGED <<next, acked>> /\ pend' \in {pend, NoPending}
    BY <1>21 DEF RemoveUnit, conf, proc
  <2>2. GoesOn
    BY <1>21, NothingTags, NoneTypes DEF RemoveUnit, GoesOn, Submitting, TypeOK, Op, At,
       Goto, Return, Idle, proc
  <2>3. \A t \in timers' \union op'.by : t.id # 0
    <3>1. op' = [op EXCEPT !.at = "forget"] \/ op' = NoOp
      BY <1>21 DEF RemoveUnit, Goto, Return
    <3>2. op'.by \subseteq op.by
      BY <3>1 DEF TypeOK, Op, NoOp
    <3>3. QED
      BY <1>21, <3>2 DEF RemoveUnit, IdsInv
  <2>4. QED
    BY <2>1, <2>2, <2>3, IdsAside
<1>22. CASE RemoveRuleset
  <2>1. UNCHANGED <<next, acked>> /\ pend' \in {pend, NoPending}
    BY <1>22 DEF RemoveRuleset, conf, proc
  <2>2. GoesOn
    BY <1>22, NothingTags, NoneTypes DEF RemoveRuleset, GoesOn, Submitting, TypeOK, Op,
       At, Goto, Return, Idle, proc
  <2>3. \A t \in timers' \union op'.by : t.id # 0
    BY <1>22, NoneTypes DEF RemoveRuleset, IdsInv, TypeOK, Op, At, Goto, Return, Idle,
       proc, NoOp
  <2>4. QED
    BY <2>1, <2>2, <2>3, IdsAside
<1>23. CASE SaveDisabled
  <2>1. UNCHANGED <<next, acked>> /\ pend' \in {pend, NoPending}
    BY <1>23 DEF SaveDisabled, conf, proc
  <2>2. GoesOn
    BY <1>23, NothingTags, NoneTypes DEF SaveDisabled, GoesOn, Submitting, TypeOK, Op,
       At, Goto, Return, Idle, proc
  <2>3. \A t \in timers' \union op'.by : t.id # 0
    BY <1>23, NoneTypes DEF SaveDisabled, IdsInv, TypeOK, Op, At, Goto, Return, Idle,
       proc, NoOp
  <2>4. QED
    BY <2>1, <2>2, <2>3, IdsAside
<1>24. CASE Reload
  <2>1. UNCHANGED <<next, acked>> /\ pend' \in {pend, NoPending}
    BY <1>24 DEF Reload, conf, proc
  <2>2. GoesOn
    BY <1>24, NothingTags, NoneTypes DEF Reload, GoesOn, Submitting, TypeOK, Op, At,
       Goto, Return, Idle, proc
  <2>3. \A t \in timers' \union op'.by : t.id # 0
    BY <1>24, NoneTypes DEF Reload, IdsInv, TypeOK, Op, At, Goto, Return, Idle, proc, NoOp
  <2>4. QED
    BY <2>1, <2>2, <2>3, IdsAside
<1>25. ASSUME NEW t \in timers, TimerLeaves(t) PROVE IdsInv'
  <2>1. UNCHANGED <<next, acked>> /\ pend' \in {pend, NoPending}
    BY <1>25 DEF TimerLeaves, conf, proc
  <2>2. GoesOn
    BY <1>25, NothingTags, NoneTypes DEF TimerLeaves, GoesOn, Submitting, TypeOK, Op, At,
       Goto, Return, Idle, proc
  <2>3. \A c \in timers' \union op'.by : c.id # 0
    BY <1>25, NoneTypes DEF TimerLeaves, IdsInv, TypeOK, Op, At, Goto, Return, Idle,
       proc, NoOp
  <2>4. QED
    BY <2>1, <2>2, <2>3, IdsAside
<1>26. ASSUME NEW t \in timers, Expire(t) PROVE IdsInv'
  <2>1. UNCHANGED <<next, acked>> /\ pend' \in {pend, NoPending}
    BY <1>26 DEF Expire, conf, proc
  <2>2. GoesOn
    BY <1>26, NothingTags, NoneTypes DEF Expire, GoesOn, Submitting, TypeOK, Op, At,
       Goto, Return, Idle, proc
  <2>3. \A c \in timers' \union op'.by : c.id # 0
    BY <1>26, NoneTypes DEF Expire, IdsInv, TypeOK, Op, At, Goto, Return, Idle, proc, NoOp
  <2>4. QED
    BY <2>1, <2>2, <2>3, IdsAside
<1>27. CASE Recover
  <2>1. UNCHANGED <<next, acked>> /\ pend' \in {pend, NoPending}
    BY <1>27 DEF Recover, RecoverPending, RecoverTable, conf, proc
  <2>2. GoesOn
    BY <1>27, NothingTags, NoneTypes DEF Recover, RecoverPending, RecoverTable, GoesOn,
       Submitting, TypeOK, Op, At, Goto, Return, Idle, proc
  <2>3. \A t \in timers' \union op'.by : t.id # 0
    BY <1>27, NoneTypes DEF Recover, RecoverPending, RecoverTable, IdsInv, TypeOK, Op,
       At, Goto, Return, Idle, proc, NoOp
  <2>4. QED
    BY <2>1, <2>2, <2>3, IdsAside
<1>28. CASE Tick
  <2>1. UNCHANGED <<next, acked>> /\ pend' \in {pend, NoPending}
    BY <1>28 DEF Tick, conf, proc
  <2>2. GoesOn
    BY <1>28, NothingTags, NoneTypes DEF Tick, GoesOn, Submitting, TypeOK, Op, At, Goto,
       Return, Idle, proc
  <2>3. \A t \in timers' \union op'.by : t.id # 0
    BY <1>28, NoneTypes DEF Tick, IdsInv, TypeOK, Op, At, Goto, Return, Idle, proc, NoOp
  <2>4. QED
    BY <2>1, <2>2, <2>3, IdsAside
<1>29. CASE OthersWrite
  <2>1. UNCHANGED <<next, acked>> /\ pend' \in {pend, NoPending}
    BY <1>29 DEF OthersWrite, conf, proc
  <2>2. GoesOn
    BY <1>29, NothingTags, NoneTypes DEF OthersWrite, GoesOn, Submitting, TypeOK, Op, At,
       Goto, Return, Idle, proc
  <2>3. \A t \in timers' \union op'.by : t.id # 0
    BY <1>29, NoneTypes DEF OthersWrite, IdsInv, TypeOK, Op, At, Goto, Return, Idle,
       proc, NoOp
  <2>4. QED
    BY <2>1, <2>2, <2>3, IdsAside
<1>30. CASE Restart
  <2>1. UNCHANGED <<next, acked>> /\ pend' \in {pend, NoPending}
    BY <1>30 DEF Restart, NewProcess, conf, proc
  <2>2. GoesOn
    BY <1>30, NothingTags, NoneTypes DEF Restart, NewProcess, GoesOn, Submitting, TypeOK,
       Op, At, Goto, Return, Idle, proc
  <2>3. \A t \in timers' \union op'.by : t.id # 0
    BY <1>30, NoneTypes DEF Restart, NewProcess, IdsInv, TypeOK, Op, At, Goto, Return,
       Idle, proc, NoOp
  <2>4. QED
    BY <2>1, <2>2, <2>3, IdsAside
<1>31. CASE Reboot
  <2>1. UNCHANGED <<next, acked>> /\ pend' \in {pend, NoPending}
    BY <1>31 DEF Reboot, NewProcess, conf, proc
  <2>2. GoesOn
    BY <1>31, NothingTags, NoneTypes DEF Reboot, NewProcess, GoesOn, Submitting, TypeOK,
       Op, At, Goto, Return, Idle, proc
  <2>3. \A t \in timers' \union op'.by : t.id # 0
    BY <1>31, NoneTypes DEF Reboot, NewProcess, IdsInv, TypeOK, Op, At, Goto, Return,
       Idle, proc, NoOp
  <2>4. QED
    BY <2>1, <2>2, <2>3, IdsAside
<1>32. CASE UNCHANGED vars
  BY <1>32 DEF vars, IdsInv, Submitting, TypeOK
<1>33. QED
  BY <1>1, <1>2, <1>3, <1>4, <1>5, <1>6, <1>7, <1>8, <1>9, <1>10, <1>11, <1>12, <1>13,
     <1>14, <1>15, <1>16, <1>17, <1>18, <1>19, <1>20, <1>21, <1>22, <1>23, <1>24, <1>25,
     <1>26, <1>27, <1>28, <1>29, <1>30, <1>31, <1>32
  DEF Next, Request, Step, TimerStep, Environment

LEMMA NextNft ==
  ASSUME TypeOK, NftInv, [Next]_vars
  PROVE  NftInv'
<1>1. ASSUME NEW m \in Models, EditModel(m) PROVE NftInv'
  BY <1>1, NothingTags, NoneTypes DEF EditModel, NftInv, Submitting, Committing, TypeOK,
     Op, conf, host, proc, At, Goto, Return, Idle, NoFault, Fault
<1>2. CASE InstallNft
  BY <1>2, NothingTags, NoneTypes DEF InstallNft, NftInv, Submitting, Committing, TypeOK,
     Op, conf, host, proc, At, Goto, Return, Idle, NoFault, Fault
<1>3. ASSUME NEW force \in BOOLEAN, NEW windowed \in BOOLEAN, Apply(force, windowed) PROVE NftInv'
  BY <1>3, NothingTags, NoneTypes DEF Apply, Begin, NftInv, Submitting, Committing,
     TypeOK, Op, conf, host, proc, At, Goto, Return, Idle, NoFault, Fault
<1>4. ASSUME NEW text \in Texts, NEW windowed \in BOOLEAN, ApplyRaw(text, windowed) PROVE NftInv'
  BY <1>4, NothingTags, NoneTypes DEF ApplyRaw, Begin, NftInv, Submitting, Committing,
     TypeOK, Op, conf, host, proc, At, Goto, Return, Idle, NoFault, Fault
<1>5. ASSUME NEW id \in 0..MaxChanges, Confirm(id) PROVE NftInv'
  BY <1>5, NothingTags, NoneTypes DEF Confirm, NftInv, Submitting, Committing, TypeOK,
     Op, conf, host, proc, At, Goto, Return, Idle, NoFault, Fault
<1>6. CASE Rollback
  BY <1>6, NothingTags, NoneTypes DEF Rollback, NftInv, Submitting, Committing, TypeOK,
     Op, conf, host, proc, At, Goto, Return, Idle, NoFault, Fault
<1>7. CASE Disable
  BY <1>7, NothingTags, NoneTypes DEF Disable, NftInv, Submitting, Committing, TypeOK,
     Op, conf, host, proc, At, Goto, Return, Idle, NoFault, Fault
<1>8. CASE DisableConflicts
  BY <1>8, NothingTags, NoneTypes DEF DisableConflicts, NftInv, Submitting, Committing,
     TypeOK, Op, conf, host, proc, At, Goto, Return, Idle, NoFault, Fault
<1>9. CASE SaveDraft
  BY <1>9, NothingTags, NoneTypes DEF SaveDraft, NftInv, Submitting, Committing, TypeOK,
     Op, conf, host, proc, At, Goto, Return, Idle, NoFault, Fault
<1>10. CASE Check
  BY <1>10, NothingTags, NoneTypes DEF Check, NftInv, Submitting, Committing, TypeOK, Op,
     conf, host, proc, At, Goto, Return, Idle, NoFault, Fault
<1>11. CASE SavePending
  BY <1>11, NothingTags, NoneTypes DEF SavePending, NftInv, Submitting, Committing,
     TypeOK, Op, conf, host, proc, At, Goto, Return, Idle, NoFault, Fault
<1>12. CASE Load
  BY <1>12, NothingTags, NoneTypes DEF Load, NftInv, Submitting, Committing, TypeOK, Op,
     conf, host, proc, At, Goto, Return, Idle, NoFault, Fault
<1>13. CASE Arm
  BY <1>13, NothingTags, NoneTypes DEF Arm, NftInv, Submitting, Committing, TypeOK, Op,
     conf, host, proc, At, Goto, Return, Idle, NoFault, Fault
<1>14. CASE CommitState
  BY <1>14, NothingTags, NoneTypes DEF CommitState, NftInv, Submitting, Committing,
     TypeOK, Op, conf, host, proc, At, Goto, Return, Idle, NoFault, Fault
<1>15. CASE SaveRuleset
  BY <1>15, NothingTags, NoneTypes DEF SaveRuleset, NftInv, Submitting, Committing,
     TypeOK, Op, conf, host, proc, At, Goto, Return, Idle, NoFault, Fault
<1>16. CASE EnableUnit
  BY <1>16, NothingTags, NoneTypes DEF EnableUnit, NftInv, Submitting, Committing,
     TypeOK, Op, conf, host, proc, At, Goto, Return, Idle, NoFault, Fault
<1>17. CASE ClearPending
  BY <1>17, NothingTags, NoneTypes DEF ClearPending, NftInv, Submitting, Committing,
     TypeOK, Op, conf, host, proc, At, Goto, Return, Idle, NoFault, Fault
<1>18. CASE Undo
  BY <1>18, NothingTags, NoneTypes DEF Undo, Retry, NftInv, Submitting, Committing,
     TypeOK, Op, conf, host, proc, At, Goto, Return, Idle, NoFault, Fault
<1>19. CASE Undone
  BY <1>19, NothingTags, NoneTypes DEF Undone, NftInv, Submitting, Committing, TypeOK,
     Op, conf, host, proc, At, Goto, Return, Idle, NoFault, Fault
<1>20. CASE RemoveTable
  BY <1>20, NothingTags, NoneTypes DEF RemoveTable, NftInv, Submitting, Committing,
     TypeOK, Op, conf, host, proc, At, Goto, Return, Idle, NoFault, Fault
<1>21. CASE RemoveUnit
  <2>1. (op' = [op EXCEPT !.at = "forget"] \/ op' = NoOp) /\ UNCHANGED <<nft, state, pend>>
    BY <1>21 DEF RemoveUnit, Goto, Return, host
  <2>2. op'.at \in {"forget", "idle"}
    BY <2>1, NothingTags DEF TypeOK, Op
  <2>3. QED
    BY <2>1, <2>2 DEF NftInv, Submitting, Committing
<1>22. CASE RemoveRuleset
  BY <1>22, NothingTags, NoneTypes DEF RemoveRuleset, NftInv, Submitting, Committing,
     TypeOK, Op, conf, host, proc, At, Goto, Return, Idle, NoFault, Fault
<1>23. CASE SaveDisabled
  <2>1. op' = NoOp /\ UNCHANGED <<nft, pend>> /\ op.at = "off"
    BY <1>23 DEF SaveDisabled, Return, At, host
  <2>2. state'.mode \in {state.mode, "Disabled"}
    BY <1>23 DEF SaveDisabled, TypeOK, State
  <2>3. QED
    BY <2>1, <2>2, NothingTags DEF NftInv, Submitting, Committing
<1>24. CASE Reload
  BY <1>24, NothingTags, NoneTypes DEF Reload, NftInv, Submitting, Committing, TypeOK,
     Op, conf, host, proc, At, Goto, Return, Idle, NoFault, Fault
<1>25. ASSUME NEW t \in timers, TimerLeaves(t) PROVE NftInv'
  BY <1>25, NothingTags, NoneTypes DEF TimerLeaves, NftInv, Submitting, Committing,
     TypeOK, Op, conf, host, proc, At, Goto, Return, Idle, NoFault, Fault
<1>26. ASSUME NEW t \in timers, Expire(t) PROVE NftInv'
  BY <1>26, NothingTags, NoneTypes DEF Expire, NftInv, Submitting, Committing, TypeOK,
     Op, conf, host, proc, At, Goto, Return, Idle, NoFault, Fault
<1>27. CASE Recover
  BY <1>27, NothingTags, NoneTypes DEF Recover, RecoverPending, RecoverTable, NftInv,
     Submitting, Committing, TypeOK, Op, conf, host, proc, At, Goto, Return, Idle,
     NoFault, Fault
<1>28. CASE Tick
  BY <1>28, NothingTags, NoneTypes DEF Tick, NftInv, Submitting, Committing, TypeOK, Op,
     conf, host, proc, At, Goto, Return, Idle, NoFault, Fault
<1>29. CASE OthersWrite
  BY <1>29, NothingTags, NoneTypes DEF OthersWrite, NftInv, Submitting, Committing,
     TypeOK, Op, conf, host, proc, At, Goto, Return, Idle, NoFault, Fault
<1>30. CASE Restart
  BY <1>30, NothingTags, NoneTypes DEF Restart, NewProcess, NftInv, Submitting,
     Committing, TypeOK, Op, conf, host, proc, At, Goto, Return, Idle, NoFault, Fault
<1>31. CASE Reboot
  BY <1>31, NothingTags, NoneTypes DEF Reboot, NewProcess, NftInv, Submitting,
     Committing, TypeOK, Op, conf, host, proc, At, Goto, Return, Idle, NoFault, Fault
<1>32. CASE UNCHANGED vars
  BY <1>32 DEF vars, NftInv, Submitting, Committing, TypeOK
<1>33. QED
  BY <1>1, <1>2, <1>3, <1>4, <1>5, <1>6, <1>7, <1>8, <1>9, <1>10, <1>11, <1>12, <1>13,
     <1>14, <1>15, <1>16, <1>17, <1>18, <1>19, <1>20, <1>21, <1>22, <1>23, <1>24, <1>25,
     <1>26, <1>27, <1>28, <1>29, <1>30, <1>31, <1>32
  DEF Next, Request, Step, TimerStep, Environment

(* The rollback of a change that is being submitted leads back. *)
LEMMA RollbackReverts ==
  ASSUME TypeOK, NEW target
  PROVE  /\ RollbackFor(target).to.asc = kernel.asc
         /\ RollbackFor(target).whole => RollbackFor(target).to.raw = kernel.raw
         /\ RollbackFor(target).whole => "Raw" \in {state.mode, target}
BY ScriptTypes DEF RollbackFor, DumpScript, ReplaceScript, TypeOK, Kernel, EmptyKernel

LEMMA BeginTrial ==
  ASSUME TypeOK, NEW step \in {"conflicts", "draft"}, NEW target, NEW body, NEW windowed,
         Begin(step, target, body, windowed)
  PROVE  TrialInv'
<1>1. pend = NoPending /\ UNCHANGED <<pend, kernel>>
  BY DEF Begin, conf, host
<1>2. op'.at = step /\ op'.rollback = RollbackFor(target)
  BY DEF Begin, NoOp
<1>3. Reverts(op.rollback)'
  BY <1>1, <1>2, RollbackReverts DEF Reverts
<1>4. QED
  BY <1>1, <1>2, <1>3 DEF TrialInv, Preparing, Committing, Disabling

LEMMA NextTrial ==
  ASSUME IInv, TypeOK, IdsInv, TrialInv, [Next]_vars
  PROVE  TrialInv'
<1>1. ASSUME NEW m \in Models, EditModel(m) PROVE TrialInv'
  BY <1>1, NothingTags, NoneTypes DEF EditModel, TrialInv, Reverts, Submitting,
     Committing, Preparing, Disabling, TypeOK, Op, conf, host, proc, At, Goto, Return,
     Idle, NoFault, Fault, Kernel
<1>2. CASE InstallNft
  BY <1>2, NothingTags, NoneTypes DEF InstallNft, TrialInv, Reverts, Submitting,
     Committing, Preparing, Disabling, TypeOK, Op, conf, host, proc, At, Goto, Return,
     Idle, NoFault, Fault, Kernel
<1>3. ASSUME NEW force \in BOOLEAN, NEW windowed \in BOOLEAN, Apply(force, windowed) PROVE TrialInv'
  BY <1>3, BeginTrial DEF Apply
<1>4. ASSUME NEW text \in Texts, NEW windowed \in BOOLEAN, ApplyRaw(text, windowed) PROVE TrialInv'
  BY <1>4, BeginTrial DEF ApplyRaw
<1>5. ASSUME NEW id \in 0..MaxChanges, Confirm(id) PROVE TrialInv'
  <2>1. pend' = pend /\ pend # NoPending
    BY <1>5 DEF Confirm, conf
  <2>2. CASE op'.at = "undo"
    BY <2>1, <2>2 DEF TrialInv, Preparing, Committing, Disabling
  <2>3. CASE op'.at = "commit" /\ op'.confirming = TRUE /\ pend.change.table.id \in acked'
    BY <2>1, <2>3 DEF TrialInv, Preparing, Committing, Disabling
  <2>4. QED
    BY <1>5, <2>2, <2>3 DEF Confirm, NoOp
<1>6. CASE Rollback
  BY <1>6, NothingTags, NoneTypes DEF Rollback, TrialInv, Reverts, Submitting,
     Committing, Preparing, Disabling, TypeOK, Op, conf, host, proc, At, Goto, Return,
     Idle, NoFault, Fault, Kernel
<1>7. CASE Disable
  BY <1>7, NothingTags, NoneTypes DEF Disable, TrialInv, Reverts, Submitting, Committing,
     Preparing, Disabling, TypeOK, Op, conf, host, proc, At, Goto, Return, Idle, NoFault,
     Fault, Kernel
<1>8. CASE DisableConflicts
  BY <1>8, NothingTags, NoneTypes DEF DisableConflicts, TrialInv, Reverts, Submitting,
     Committing, Preparing, Disabling, TypeOK, Op, conf, host, proc, At, Goto, Return,
     Idle, NoFault, Fault, Kernel
<1>9. CASE SaveDraft
  BY <1>9, NothingTags, NoneTypes DEF SaveDraft, TrialInv, Reverts, Submitting,
     Committing, Preparing, Disabling, TypeOK, Op, conf, host, proc, At, Goto, Return,
     Idle, NoFault, Fault, Kernel
<1>10. CASE Check
  BY <1>10, NothingTags, NoneTypes DEF Check, TrialInv, Reverts, Submitting, Committing,
     Preparing, Disabling, TypeOK, Op, conf, host, proc, At, Goto, Return, Idle, NoFault,
     Fault, Kernel
<1>11. CASE SavePending
  <2>1. CASE op' = NoOp
    BY <2>1, NothingTags DEF TrialInv, Preparing, Committing, Disabling
  <2>2. CASE pend' = [change |-> op.change,
  rollback |-> op.rollback] /\ op' = [op EXCEPT !.at = "load"]
    <3>0. op.at = "pending" /\ kernel' = kernel
      BY <1>11 DEF SavePending, At, host
    <3>1. op.at = "pending" /\ op.windowed /\ kernel' = kernel
      BY <3>0 DEF IInv, OpInv
    <3>2. op'.at = "load" /\ op'.windowed
      BY <2>2, <3>1 DEF TypeOK, Op
    <3>3. pend'.change.table.id # 0
      BY <2>2, <3>1 DEF IdsInv, Submitting, TypeOK
    <3>4. pend' # NoPending
      BY <3>3, NothingTags
    <3>5. Reverts(pend.rollback)'
      BY <2>2, <3>1 DEF TrialInv, Preparing, Reverts
    <3>6. QED
      BY <3>2, <3>4, <3>5 DEF TrialInv, Preparing, Committing, Disabling
  <2>3. QED
    BY <1>11, <2>1, <2>2 DEF SavePending, Goto, Return
<1>12. CASE Load
  <2>1. op.at = "load" /\ UNCHANGED <<pend, acked>> /\ ~op.confirming
    BY <1>12 DEF Load, At, conf, IdsInv, Submitting
  <2>2. CASE op' = NoOp
    BY <2>2, NothingTags DEF TrialInv, Preparing, Committing, Disabling
  <2>3. CASE op' = [op EXCEPT !.at = "clear"] /\ op.windowed /\ kernel' = kernel
    <3>1. op'.at = "clear" /\ Reverts(pend.rollback)'
      BY <2>1, <2>3 DEF TrialInv, Reverts, TypeOK, Op
    <3>2. QED
      BY <3>1 DEF TrialInv, Preparing, Committing, Disabling
  <2>4. CASE op' = [op EXCEPT !.at = "arm"]
    <3>1. op'.at = "arm"
      BY <2>4 DEF TypeOK, Op
    <3>2. QED
      BY <3>1 DEF TrialInv, Preparing, Committing, Disabling
  <2>5. CASE op' = [op EXCEPT !.at = "commit"] /\ ~op.windowed
    <3>1. op'.at = "commit" /\ ~op'.confirming /\ pend' = NoPending
      BY <2>1, <2>5 DEF TrialInv, TypeOK, Op
    <3>2. QED
      BY <3>1 DEF TrialInv, Preparing, Committing, Disabling
  <2>6. QED
    BY <1>12, <2>2, <2>3, <2>4, <2>5 DEF Load, Goto, Return
<1>13. CASE Arm
  BY <1>13, NothingTags, NoneTypes DEF Arm, TrialInv, Reverts, Submitting, Committing,
     Preparing, Disabling, TypeOK, Op, conf, host, proc, At, Goto, Return, Idle, NoFault,
     Fault, Kernel
<1>14. CASE CommitState
  BY <1>14, NothingTags, NoneTypes DEF CommitState, TrialInv, Reverts, Submitting,
     Committing, Preparing, Disabling, TypeOK, Op, conf, host, proc, At, Goto, Return,
     Idle, NoFault, Fault, Kernel
<1>15. CASE SaveRuleset
  BY <1>15, NothingTags, NoneTypes DEF SaveRuleset, TrialInv, Reverts, Submitting,
     Committing, Preparing, Disabling, TypeOK, Op, conf, host, proc, At, Goto, Return,
     Idle, NoFault, Fault, Kernel
<1>16. CASE EnableUnit
  BY <1>16, NothingTags, NoneTypes DEF EnableUnit, TrialInv, Reverts, Submitting,
     Committing, Preparing, Disabling, TypeOK, Op, conf, host, proc, At, Goto, Return,
     Idle, NoFault, Fault, Kernel
<1>17. CASE ClearPending
  BY <1>17, NothingTags, NoneTypes DEF ClearPending, TrialInv, Reverts, Submitting,
     Committing, Preparing, Disabling, TypeOK, Op, conf, host, proc, At, Goto, Return,
     Idle, NoFault, Fault, Kernel
<1>18. CASE Undo
  <2>1. CASE op' = NoOp
    BY <2>1, NothingTags DEF TrialInv, Preparing, Committing, Disabling
  <2>2. CASE kernel' = Run(pend.rollback, kernel) /\ op' = [op EXCEPT !.at = "undone"]
    <3>1. pend' = pend /\ pend.rollback \in Script /\ kernel \in Kernel
      BY <1>18 DEF Undo, conf, TypeOK, Pending
    <3>2. op'.at = "undone" /\ Reverts(pend.rollback)'
      BY <2>2, <3>1, RunTags DEF Reverts, TypeOK, Op
    <3>3. QED
      BY <3>2 DEF TrialInv, Preparing, Committing, Disabling
  <2>3. QED
    BY <1>18, <2>1, <2>2 DEF Undo, Goto, Return
<1>19. CASE Undone
  BY <1>19, NothingTags, NoneTypes DEF Undone, TrialInv, Reverts, Submitting, Committing,
     Preparing, Disabling, TypeOK, Op, conf, host, proc, At, Goto, Return, Idle, NoFault,
     Fault, Kernel
<1>20. CASE RemoveTable
  BY <1>20, NothingTags, NoneTypes DEF RemoveTable, TrialInv, Reverts, Submitting,
     Committing, Preparing, Disabling, TypeOK, Op, conf, host, proc, At, Goto, Return,
     Idle, NoFault, Fault, Kernel
<1>21. CASE RemoveUnit
  BY <1>21, NothingTags, NoneTypes DEF RemoveUnit, TrialInv, Reverts, Submitting,
     Committing, Preparing, Disabling, TypeOK, Op, conf, host, proc, At, Goto, Return,
     Idle, NoFault, Fault, Kernel
<1>22. CASE RemoveRuleset
  BY <1>22, NothingTags, NoneTypes DEF RemoveRuleset, TrialInv, Reverts, Submitting,
     Committing, Preparing, Disabling, TypeOK, Op, conf, host, proc, At, Goto, Return,
     Idle, NoFault, Fault, Kernel
<1>23. CASE SaveDisabled
  BY <1>23, NothingTags, NoneTypes DEF SaveDisabled, TrialInv, Reverts, Submitting,
     Committing, Preparing, Disabling, TypeOK, Op, conf, host, proc, At, Goto, Return,
     Idle, NoFault, Fault, Kernel
<1>24. CASE Reload
  BY <1>24, NothingTags, NoneTypes DEF Reload, TrialInv, Reverts, Submitting, Committing,
     Preparing, Disabling, TypeOK, Op, conf, host, proc, At, Goto, Return, Idle, NoFault,
     Fault, Kernel
<1>25. ASSUME NEW t \in timers, TimerLeaves(t) PROVE TrialInv'
  BY <1>25, NothingTags, NoneTypes DEF TimerLeaves, TrialInv, Reverts, Submitting,
     Committing, Preparing, Disabling, TypeOK, Op, conf, host, proc, At, Goto, Return,
     Idle, NoFault, Fault, Kernel
<1>26. ASSUME NEW t \in timers, Expire(t) PROVE TrialInv'
  <2>1. pend' = pend /\ pend.change.table.id # 0
    BY <1>26 DEF Expire, conf, IdsInv
  <2>2. op'.at = "undo" /\ pend' # NoPending
    BY <1>26, <2>1, NothingTags DEF Expire, NoOp
  <2>3. QED
    BY <2>2 DEF TrialInv, Preparing, Committing, Disabling
<1>27. CASE Recover
  BY <1>27, NothingTags, NoneTypes DEF Recover, RecoverPending, RecoverTable, TrialInv,
     Reverts, Submitting, Committing, Preparing, Disabling, TypeOK, Op, conf, host, proc,
     At, Goto, Return, Idle, NoFault, Fault, Kernel
<1>28. CASE Tick
  BY <1>28, NothingTags, NoneTypes DEF Tick, TrialInv, Reverts, Submitting, Committing,
     Preparing, Disabling, TypeOK, Op, conf, host, proc, At, Goto, Return, Idle, NoFault,
     Fault, Kernel
<1>29. CASE OthersWrite
  BY <1>29, NothingTags, NoneTypes DEF OthersWrite, TrialInv, Reverts, Submitting,
     Committing, Preparing, Disabling, TypeOK, Op, conf, host, proc, At, Goto, Return,
     Idle, NoFault, Fault, Kernel
<1>30. CASE Restart
  BY <1>30, NothingTags, NoneTypes DEF Restart, NewProcess, TrialInv, Reverts,
     Submitting, Committing, Preparing, Disabling, TypeOK, Op, conf, host, proc, At,
     Goto, Return, Idle, NoFault, Fault, Kernel
<1>31. CASE Reboot
  BY <1>31, NothingTags, NoneTypes DEF Reboot, NewProcess, TrialInv, Reverts, Submitting,
     Committing, Preparing, Disabling, TypeOK, Op, conf, host, proc, At, Goto, Return,
     Idle, NoFault, Fault, Kernel
<1>32. CASE UNCHANGED vars
  BY <1>32 DEF vars, TrialInv, Reverts, Submitting, Committing, Preparing, Disabling, TypeOK
<1>33. QED
  BY <1>1, <1>2, <1>3, <1>4, <1>5, <1>6, <1>7, <1>8, <1>9, <1>10, <1>11, <1>12, <1>13,
     <1>14, <1>15, <1>16, <1>17, <1>18, <1>19, <1>20, <1>21, <1>22, <1>23, <1>24, <1>25,
     <1>26, <1>27, <1>28, <1>29, <1>30, <1>31, <1>32
  DEF Next, Request, Step, TimerStep, Environment

(* The faults are remembered. *)
LEMMA KindsGrow ==
  ASSUME [Next]_vars
  PROVE  faults.kinds \subseteq faults'.kinds
<1>1. ASSUME NEW kind, Fault(kind) PROVE faults.kinds \subseteq faults'.kinds
  BY <1>1 DEF Fault
<1>2. CASE NoFault
  BY <1>2 DEF NoFault
<1>3. CASE Request
  BY <1>3 DEF Request, EditModel, InstallNft, Apply, ApplyRaw, Begin, Confirm, Rollback,
     Disable
<1>4. CASE Step
  <2>1. NoFault \/ \E kind \in FaultKinds : Fault(kind)
    <3>1. CASE DisableConflicts \/ SaveDraft \/ Check \/ SavePending \/ Load \/ Arm
      BY <3>1 DEF DisableConflicts, SaveDraft, Check, SavePending, Load, Arm, FaultKinds,
         NoFault
    <3>2. CASE CommitState \/ SaveRuleset \/ EnableUnit \/ ClearPending \/ Undo \/ Undone
      BY <3>2 DEF CommitState, SaveRuleset, EnableUnit, ClearPending, Undo, Undone,
         FaultKinds, NoFault
    <3>3. CASE RemoveTable \/ RemoveUnit \/ RemoveRuleset \/ SaveDisabled \/ Reload
      BY <3>3 DEF RemoveTable, RemoveUnit, RemoveRuleset, SaveDisabled, Reload,
         FaultKinds, NoFault
    <3>4. QED
      BY <1>4, <3>1, <3>2, <3>3 DEF Step
  <2>2. QED
    BY <1>1, <1>2, <2>1
<1>5. CASE TimerStep
  BY <1>5 DEF TimerStep, TimerLeaves, Expire
<1>6. CASE Recover
  BY <1>1, <1>2, <1>6 DEF Recover, RecoverPending, RecoverTable
<1>7. CASE Environment
  BY <1>1, <1>7 DEF Environment, Tick, OthersWrite, Restart, Reboot
<1>8. CASE UNCHANGED vars
  BY <1>8 DEF vars
<1>9. QED
  BY <1>3, <1>4, <1>5, <1>6, <1>7, <1>8 DEF Next

(* What calm leaves of the failures. *)
LEMMA CalmFault ==
  ASSUME NEW kind, Fault(kind), Calm'
  PROVE  kind \in {"restart", "nft", "spawn"}
BY DEF Fault, Calm

Late == Committing \union {"clear", "unlink", "forget", "off"}
Waiting == {"idle", "arm", "undo"}

(* A step that leaves the rulesets, the pending change and the applied     *)
(* one, and takes the operation no further than it may.                    *)
LEMMA ForceAside ==
  ASSUME TypeOK, TypeOK', ForceInv, pend' = pend,
         kernel'.asc = kernel.asc, kernel'.raw = kernel.raw,
         state'.mode = state.mode, state'.applied = state.applied,
         op'.at \notin Late => op.at \notin Late,
         op'.at \in Waiting => op.at \in Waiting \/ pend = NoPending,
         op'.at # "commit",
         op'.at \in {"ruleset", "enable", "clear"} => op.at \in {"ruleset", "enable", "clear"},
         op'.at \in {"unlink", "forget", "off"} => op.at \in {"unlink", "forget", "off"}
  PROVE  ForceInv'
<1>1. /\ kernel \in Kernel /\ kernel' \in Kernel
      /\ pend.rollback \in Script /\ pend'.rollback \in Script
  BY DEF TypeOK, Pending
<1>2. Fallback'.asc = Fallback.asc /\ Fallback'.raw = Fallback.raw
  <2>1. CASE pend = NoPending
    BY <2>1 DEF Fallback
  <2>2. CASE pend # NoPending
    BY <1>1, <2>2, RunTags DEF Fallback
  <2>3. QED
    BY <2>1, <2>2
<1>3. Fits(Fallback) => Fits(Fallback)'
  BY <1>2 DEF Fits
<1>4. Fits(kernel) => Fits(kernel)'
  BY DEF Fits
<1>5. Holds(pend.change) => Holds(pend.change)'
  BY DEF Holds
<1>6. op'.at \notin Late => Fits(Fallback)'
  BY <1>3 DEF ForceInv, Late
<1>7. pend' # NoPending /\ op'.at \in Waiting => Holds(pend.change)'
  BY <1>5 DEF ForceInv, Waiting
<1>8. op'.at \in {"ruleset", "enable", "clear"} => Fits(kernel)'
  BY <1>4 DEF ForceInv
<1>9. op'.at \in {"unlink", "forget", "off"} => kernel'.asc = NoTable
  BY DEF ForceInv
<1>10. QED
  BY <1>6, <1>7, <1>8, <1>9 DEF ForceInv, Late, Waiting

LEMMA BeginRaw ==
  ASSUME TypeOK, NEW step \in {"conflicts", "draft"}, NEW target, NEW body, NEW windowed,
         Begin(step, target, body, windowed)
  PROVE  RawInv'
<1>1. pend = NoPending /\ UNCHANGED <<pend, state>>
  BY DEF Begin, conf
<1>2. op'.at = step /\ op'.rollback = RollbackFor(target) /\ op'.change.target = target
  BY DEF Begin, NoOp
<1>3. ~pend'.rollback.whole
  BY <1>1, NothingTags
<1>4. QED
  BY <1>1, <1>2, <1>3, RollbackReverts DEF RawInv

LoadedBy(change, k) ==
  IF change.target = "Managed" THEN k.asc = change.table
                               ELSE k.raw = change.table /\ k.asc = NoTable

(* A script that was loaded leaves its change in the kernel... *)
LEMMA LoadHolds ==
  ASSUME NEW c \in Change, NEW k \in Kernel
  PROVE  LoadedBy(c, Run(ScriptOf(c), k))
<1>1. CASE c.target = "Managed"
  <2>1. ReplaceScript(c.table) \in Script /\ ReplaceScript(c.table).to.asc = c.table
    BY ScriptTypes DEF Change, ReplaceScript, EmptyKernel
  <2>2. QED
    BY <1>1, <2>1, RunTags DEF ScriptOf, LoadedBy
<1>2. CASE c.target # "Managed"
  <2>1. /\ RawScript(c.table) \in Script /\ RawScript(c.table).whole
        /\ RawScript(c.table).to.raw = c.table /\ RawScript(c.table).to.asc = NoTable
    BY ScriptTypes DEF Change, RawScript, EmptyKernel
  <2>2. QED
    BY <1>2, <2>1, RunTags DEF ScriptOf, LoadedBy
<1>3. QED
  BY <1>1, <1>2

(* ... and undoing the change leads to where it led before. *)
LEMMA FallbackKept ==
  ASSUME NEW c \in Change, NEW k \in Kernel, NEW r \in Script, r.whole \/ c.target = "Managed"
  PROVE  /\ Run(r, Run(ScriptOf(c), k)).asc = Run(r, k).asc
         /\ Run(r, Run(ScriptOf(c), k)).raw = Run(r, k).raw
<1>1. ScriptOf(c) \in Script /\ Run(ScriptOf(c), k) \in Kernel
  BY ScriptOfType, RunType
<1>2. c.target = "Managed" => ~ScriptOf(c).whole
  BY DEF ScriptOf, ReplaceScript
<1>3. QED
  BY <1>1, <1>2, RunTags

LEMMA NextBoot ==
  ASSUME IInv, TypeOK, IdsInv, TrialInv, NftInv, Calm, Calm', ForceInv, BootInv, [Next]_vars
  PROVE  BootInv'
<1>1. ASSUME NEW m \in Models, EditModel(m) PROVE BootInv'
  BY <1>1, NothingTags, NoneTypes DEF EditModel, BootInv, Boots, State, Calm, Submitting,
     Committing, TypeOK, Op, conf, host, proc, At, Goto, Return, Idle, NoFault, Fault
<1>2. CASE InstallNft
  BY <1>2, NothingTags, NoneTypes DEF InstallNft, BootInv, Boots, State, Calm,
     Submitting, Committing, TypeOK, Op, conf, host, proc, At, Goto, Return, Idle,
     NoFault, Fault
<1>3. ASSUME NEW force \in BOOLEAN, NEW windowed \in BOOLEAN, Apply(force, windowed) PROVE BootInv'
  BY <1>3, NothingTags, NoneTypes DEF Apply, Begin, BootInv, Boots, State, Calm,
     Submitting, Committing, TypeOK, Op, conf, host, proc, At, Goto, Return, Idle,
     NoFault, Fault
<1>4. ASSUME NEW text \in Texts, NEW windowed \in BOOLEAN, ApplyRaw(text, windowed) PROVE BootInv'
  BY <1>4, NothingTags, NoneTypes DEF ApplyRaw, Begin, BootInv, Boots, State, Calm,
     Submitting, Committing, TypeOK, Op, conf, host, proc, At, Goto, Return, Idle,
     NoFault, Fault
<1>5. ASSUME NEW id \in 0..MaxChanges, Confirm(id) PROVE BootInv'
  <2>1. UNCHANGED <<state, boot, unit>> /\ op.at = "idle"
    BY <1>5, NothingTags DEF Confirm, conf, Idle
  <2>2. op'.at \in {"undo", "commit"}
    BY <1>5 DEF Confirm, NoOp
  <2>3. QED
    BY <2>1, <2>2 DEF BootInv, Boots
<1>6. CASE Rollback
  BY <1>6, NothingTags, NoneTypes DEF Rollback, BootInv, Boots, State, Calm, Submitting,
     Committing, TypeOK, Op, conf, host, proc, At, Goto, Return, Idle, NoFault, Fault
<1>7. CASE Disable
  BY <1>7, NothingTags, NoneTypes DEF Disable, BootInv, Boots, State, Calm, Submitting,
     Committing, TypeOK, Op, conf, host, proc, At, Goto, Return, Idle, NoFault, Fault
<1>8. CASE DisableConflicts
  BY <1>8, NothingTags, NoneTypes DEF DisableConflicts, BootInv, Boots, State, Calm,
     Submitting, Committing, TypeOK, Op, conf, host, proc, At, Goto, Return, Idle,
     NoFault, Fault
<1>9. CASE SaveDraft
  BY <1>9, NothingTags, NoneTypes DEF SaveDraft, BootInv, Boots, State, Calm, Submitting,
     Committing, TypeOK, Op, conf, host, proc, At, Goto, Return, Idle, NoFault, Fault
<1>10. CASE Check
  BY <1>10, NothingTags, NoneTypes DEF Check, BootInv, Boots, State, Calm, Submitting,
     Committing, TypeOK, Op, conf, host, proc, At, Goto, Return, Idle, NoFault, Fault
<1>11. CASE SavePending
  BY <1>11, NothingTags, NoneTypes DEF SavePending, BootInv, Boots, State, Calm,
     Submitting, Committing, TypeOK, Op, conf, host, proc, At, Goto, Return, Idle,
     NoFault, Fault
<1>12. CASE Load
  BY <1>12, NothingTags, NoneTypes DEF Load, BootInv, Boots, State, Calm, Submitting,
     Committing, TypeOK, Op, conf, host, proc, At, Goto, Return, Idle, NoFault, Fault
<1>13. CASE Arm
  BY <1>13, NothingTags, NoneTypes DEF Arm, BootInv, Boots, State, Calm, Submitting,
     Committing, TypeOK, Op, conf, host, proc, At, Goto, Return, Idle, NoFault, Fault
<1>14. CASE CommitState
  <2>1. ~Fault("save")
    BY <1>14, CalmFault DEF CommitState
  <2>2. op' = [op EXCEPT !.at = "ruleset"]
        /\ state' = [state EXCEPT !.mode = op.change.target, !.applied = op.change.table]
    BY <1>14, <2>1 DEF CommitState, Goto
  <2>3. op'.at = "ruleset" /\ op'.change = op.change
    BY <2>2 DEF TypeOK, Op
  <2>4. state'.mode = op.change.target /\ state'.applied = op.change.table
    BY <2>2 DEF TypeOK, State
  <2>5. QED
    BY <2>3, <2>4 DEF BootInv
<1>15. CASE SaveRuleset
  BY <1>15, NothingTags, NoneTypes DEF SaveRuleset, BootInv, Boots, State, Calm,
     Submitting, Committing, TypeOK, Op, conf, host, proc, At, Goto, Return, Idle,
     NoFault, Fault
<1>16. CASE EnableUnit
  <2>1. ~Fault("unit")
    BY <1>16, CalmFault
  <2>2. op.at = "enable" /\ unit' = TRUE /\ UNCHANGED <<state, boot>>
    BY <1>16, <2>1 DEF EnableUnit, At
  <2>3. op' = [op EXCEPT !.at = "clear"] \/ op' = NoOp
    BY <1>16, <2>1 DEF EnableUnit, Goto, Return
  <2>4. op'.at \in {"clear", "idle"}
    BY <2>3, NothingTags DEF TypeOK, Op
  <2>5. boot = ScriptOf(op.change) /\ state.mode = op.change.target /\ state.applied = op.change.table
    BY <2>2 DEF BootInv
  <2>6. state.mode # "Disabled"
    BY <2>5 DEF TypeOK, Op, Change
  <2>7. boot = ScriptOf([target |-> state.mode, table |-> state.applied])
    BY <2>5 DEF ScriptOf
  <2>8. Boots'
    BY <2>2, <2>6, <2>7 DEF Boots
  <2>9. QED
    BY <2>4, <2>8 DEF BootInv
<1>17. CASE ClearPending
  BY <1>17, NothingTags, NoneTypes DEF ClearPending, BootInv, Boots, State, Calm,
     Submitting, Committing, TypeOK, Op, conf, host, proc, At, Goto, Return, Idle,
     NoFault, Fault
<1>18. CASE Undo
  BY <1>18, NothingTags, NoneTypes DEF Undo, Retry, BootInv, Boots, State, Calm,
     Submitting, Committing, TypeOK, Op, conf, host, proc, At, Goto, Return, Idle,
     NoFault, Fault
<1>19. CASE Undone
  BY <1>19, NothingTags, NoneTypes DEF Undone, BootInv, Boots, State, Calm, Submitting,
     Committing, TypeOK, Op, conf, host, proc, At, Goto, Return, Idle, NoFault, Fault
<1>20. CASE RemoveTable
  BY <1>20, NothingTags, NoneTypes DEF RemoveTable, BootInv, Boots, State, Calm,
     Submitting, Committing, TypeOK, Op, conf, host, proc, At, Goto, Return, Idle,
     NoFault, Fault
<1>21. CASE RemoveUnit
  <2>1. ~Fault("unit")
    BY <1>21, CalmFault
  <2>2. op' = [op EXCEPT !.at = "forget"] /\ unit' = FALSE
    BY <1>21, <2>1 DEF RemoveUnit, Goto
  <2>3. op'.at = "forget"
    BY <2>2 DEF TypeOK, Op
  <2>4. QED
    BY <2>2, <2>3 DEF BootInv
<1>22. CASE RemoveRuleset
  BY <1>22, NothingTags, NoneTypes DEF RemoveRuleset, BootInv, Boots, State, Calm,
     Submitting, Committing, TypeOK, Op, conf, host, proc, At, Goto, Return, Idle,
     NoFault, Fault
<1>23. CASE SaveDisabled
  <2>1. ~Fault("save")
    BY <1>23, CalmFault
  <2>2. op.at = "off" /\ op' = NoOp /\ unit' = unit
        /\ state' = [state EXCEPT !.mode = "Disabled", !.applied = NoTable]
    BY <1>23, <2>1 DEF SaveDisabled, At, Return
  <2>3. state'.mode = "Disabled"
    BY <2>2 DEF TypeOK, State
  <2>4. ~unit'
    BY <2>2 DEF BootInv
  <2>5. QED
    BY <2>2, <2>3, <2>4, NothingTags DEF BootInv, Boots
<1>24. CASE Reload
  BY <1>24, NothingTags, NoneTypes DEF Reload, BootInv, Boots, State, Calm, Submitting,
     Committing, TypeOK, Op, conf, host, proc, At, Goto, Return, Idle, NoFault, Fault
<1>25. ASSUME NEW t \in timers, TimerLeaves(t) PROVE BootInv'
  BY <1>25, NothingTags, NoneTypes DEF TimerLeaves, BootInv, Boots, State, Calm,
     Submitting, Committing, TypeOK, Op, conf, host, proc, At, Goto, Return, Idle,
     NoFault, Fault
<1>26. ASSUME NEW t \in timers, Expire(t) PROVE BootInv'
  BY <1>26, NothingTags, NoneTypes DEF Expire, BootInv, Boots, State, Calm, Submitting,
     Committing, TypeOK, Op, conf, host, proc, At, Goto, Return, Idle, NoFault, Fault
<1>27. CASE Recover
  BY <1>27, NothingTags, NoneTypes DEF Recover, RecoverPending, RecoverTable, BootInv,
     Boots, State, Calm, Submitting, Committing, TypeOK, Op, conf, host, proc, At, Goto,
     Return, Idle, NoFault, Fault
<1>28. CASE Tick
  BY <1>28, NothingTags, NoneTypes DEF Tick, BootInv, Boots, State, Calm, Submitting,
     Committing, TypeOK, Op, conf, host, proc, At, Goto, Return, Idle, NoFault, Fault
<1>29. CASE OthersWrite
  BY <1>29, NothingTags, NoneTypes DEF OthersWrite, BootInv, Boots, State, Calm,
     Submitting, Committing, TypeOK, Op, conf, host, proc, At, Goto, Return, Idle,
     NoFault, Fault
<1>30. CASE Restart
  BY <1>30, NothingTags, NoneTypes DEF Restart, NewProcess, BootInv, Boots, State, Calm,
     Submitting, Committing, TypeOK, Op, conf, host, proc, At, Goto, Return, Idle,
     NoFault, Fault
<1>31. CASE Reboot
  BY <1>31, NothingTags, NoneTypes DEF Reboot, NewProcess, BootInv, Boots, State, Calm,
     Submitting, Committing, TypeOK, Op, conf, host, proc, At, Goto, Return, Idle,
     NoFault, Fault
<1>32. CASE UNCHANGED vars
  BY <1>32 DEF vars, BootInv, Boots, State, Calm, Submitting, Committing, TypeOK
<1>33. QED
  BY <1>1, <1>2, <1>3, <1>4, <1>5, <1>6, <1>7, <1>8, <1>9, <1>10, <1>11, <1>12, <1>13,
     <1>14, <1>15, <1>16, <1>17, <1>18, <1>19, <1>20, <1>21, <1>22, <1>23, <1>24, <1>25,
     <1>26, <1>27, <1>28, <1>29, <1>30, <1>31, <1>32
  DEF Next, Request, Step, TimerStep, Environment

LEMMA NextRaw ==
  ASSUME IInv, TypeOK, IdsInv, TrialInv, NftInv, Calm, Calm', RawInv, [Next]_vars
  PROVE  RawInv'
<1>1. ASSUME NEW m \in Models, EditModel(m) PROVE RawInv'
  BY <1>1, NothingTags, NoneTypes DEF EditModel, RawInv, State, TrialInv, Calm,
     Submitting, Preparing, Disabling, TypeOK, Op, conf, host, proc, At, Goto, Return,
     Idle, NoFault, Fault
<1>2. CASE InstallNft
  BY <1>2, NothingTags, NoneTypes DEF InstallNft, RawInv, State, TrialInv, Calm,
     Submitting, Preparing, Disabling, TypeOK, Op, conf, host, proc, At, Goto, Return,
     Idle, NoFault, Fault
<1>3. ASSUME NEW force \in BOOLEAN, NEW windowed \in BOOLEAN, Apply(force, windowed) PROVE RawInv'
  BY <1>3, BeginRaw DEF Apply
<1>4. ASSUME NEW text \in Texts, NEW windowed \in BOOLEAN, ApplyRaw(text, windowed) PROVE RawInv'
  BY <1>4, BeginRaw DEF ApplyRaw
<1>5. ASSUME NEW id \in 0..MaxChanges, Confirm(id) PROVE RawInv'
  <2>1. UNCHANGED <<state, pend>> /\ op.at = "idle"
    BY <1>5, NothingTags DEF Confirm, conf, Idle
  <2>2. op'.at \in {"undo", "commit"}
    BY <1>5 DEF Confirm, NoOp
  <2>3. QED
    BY <2>1, <2>2 DEF RawInv, Preparing
<1>6. CASE Rollback
  BY <1>6, NothingTags, NoneTypes DEF Rollback, RawInv, State, TrialInv, Calm,
     Submitting, Preparing, Disabling, TypeOK, Op, conf, host, proc, At, Goto, Return,
     Idle, NoFault, Fault
<1>7. CASE Disable
  BY <1>7, NothingTags, NoneTypes DEF Disable, RawInv, State, TrialInv, Calm, Submitting,
     Preparing, Disabling, TypeOK, Op, conf, host, proc, At, Goto, Return, Idle, NoFault,
     Fault
<1>8. CASE DisableConflicts
  BY <1>8, NothingTags, NoneTypes DEF DisableConflicts, RawInv, State, TrialInv, Calm,
     Submitting, Preparing, Disabling, TypeOK, Op, conf, host, proc, At, Goto, Return,
     Idle, NoFault, Fault
<1>9. CASE SaveDraft
  BY <1>9, NothingTags, NoneTypes DEF SaveDraft, RawInv, State, TrialInv, Calm,
     Submitting, Preparing, Disabling, TypeOK, Op, conf, host, proc, At, Goto, Return,
     Idle, NoFault, Fault
<1>10. CASE Check
  BY <1>10, NothingTags, NoneTypes DEF Check, RawInv, State, TrialInv, Calm, Submitting,
     Preparing, Disabling, TypeOK, Op, conf, host, proc, At, Goto, Return, Idle, NoFault,
     Fault
<1>11. CASE SavePending
  BY <1>11, NothingTags, NoneTypes DEF SavePending, RawInv, State, TrialInv, Calm,
     Submitting, Preparing, Disabling, TypeOK, Op, conf, host, proc, At, Goto, Return,
     Idle, NoFault, Fault
<1>12. CASE Load
  BY <1>12, NothingTags, NoneTypes DEF Load, RawInv, State, TrialInv, Calm, Submitting,
     Preparing, Disabling, TypeOK, Op, conf, host, proc, At, Goto, Return, Idle, NoFault,
     Fault
<1>13. CASE Arm
  BY <1>13, NothingTags, NoneTypes DEF Arm, RawInv, State, TrialInv, Calm, Submitting,
     Preparing, Disabling, TypeOK, Op, conf, host, proc, At, Goto, Return, Idle, NoFault,
     Fault
<1>14. CASE CommitState
  BY <1>14, NothingTags, NoneTypes DEF CommitState, RawInv, State, TrialInv, Calm,
     Submitting, Preparing, Disabling, TypeOK, Op, conf, host, proc, At, Goto, Return,
     Idle, NoFault, Fault
<1>15. CASE SaveRuleset
  BY <1>15, NothingTags, NoneTypes DEF SaveRuleset, RawInv, State, TrialInv, Calm,
     Submitting, Preparing, Disabling, TypeOK, Op, conf, host, proc, At, Goto, Return,
     Idle, NoFault, Fault
<1>16. CASE EnableUnit
  <2>1. op.at = "enable" /\ UNCHANGED <<state, pend>> /\ ~Fault("unit")
    BY <1>16, CalmFault DEF EnableUnit, At
  <2>2. CASE op' = [op EXCEPT !.at = "clear"]
    <3>1. op'.at = "clear"
      BY <2>2 DEF TypeOK, Op
    <3>2. QED
      BY <3>1 DEF RawInv, Preparing
  <2>3. CASE op' = NoOp /\ ~op.confirming
    <3>1. ~pend'.rollback.whole
      BY <2>1, <2>3, NothingTags DEF TrialInv, Committing
    <3>2. QED
      BY <2>3, <3>1, NothingTags DEF RawInv, Preparing
  <2>4. QED
    BY <1>16, <2>1, <2>2, <2>3 DEF EnableUnit, Goto, Return
<1>17. CASE ClearPending
  BY <1>17, NothingTags, NoneTypes DEF ClearPending, RawInv, State, TrialInv, Calm,
     Submitting, Preparing, Disabling, TypeOK, Op, conf, host, proc, At, Goto, Return,
     Idle, NoFault, Fault
<1>18. CASE Undo
  BY <1>18, NothingTags, NoneTypes DEF Undo, Retry, RawInv, State, TrialInv, Calm,
     Submitting, Preparing, Disabling, TypeOK, Op, conf, host, proc, At, Goto, Return,
     Idle, NoFault, Fault
<1>19. CASE Undone
  BY <1>19, NothingTags, NoneTypes DEF Undone, RawInv, State, TrialInv, Calm, Submitting,
     Preparing, Disabling, TypeOK, Op, conf, host, proc, At, Goto, Return, Idle, NoFault,
     Fault
<1>20. CASE RemoveTable
  BY <1>20, NothingTags, NoneTypes DEF RemoveTable, RawInv, State, TrialInv, Calm,
     Submitting, Preparing, Disabling, TypeOK, Op, conf, host, proc, At, Goto, Return,
     Idle, NoFault, Fault
<1>21. CASE RemoveUnit
  BY <1>21, NothingTags, NoneTypes DEF RemoveUnit, RawInv, State, TrialInv, Calm,
     Submitting, Preparing, Disabling, TypeOK, Op, conf, host, proc, At, Goto, Return,
     Idle, NoFault, Fault
<1>22. CASE RemoveRuleset
  BY <1>22, NothingTags, NoneTypes DEF RemoveRuleset, RawInv, State, TrialInv, Calm,
     Submitting, Preparing, Disabling, TypeOK, Op, conf, host, proc, At, Goto, Return,
     Idle, NoFault, Fault
<1>23. CASE SaveDisabled
  BY <1>23, NothingTags, NoneTypes DEF SaveDisabled, RawInv, State, TrialInv, Calm,
     Submitting, Preparing, Disabling, TypeOK, Op, conf, host, proc, At, Goto, Return,
     Idle, NoFault, Fault
<1>24. CASE Reload
  BY <1>24, NothingTags, NoneTypes DEF Reload, RawInv, State, TrialInv, Calm, Submitting,
     Preparing, Disabling, TypeOK, Op, conf, host, proc, At, Goto, Return, Idle, NoFault,
     Fault
<1>25. ASSUME NEW t \in timers, TimerLeaves(t) PROVE RawInv'
  BY <1>25, NothingTags, NoneTypes DEF TimerLeaves, RawInv, State, TrialInv, Calm,
     Submitting, Preparing, Disabling, TypeOK, Op, conf, host, proc, At, Goto, Return,
     Idle, NoFault, Fault
<1>26. ASSUME NEW t \in timers, Expire(t) PROVE RawInv'
  BY <1>26, NothingTags, NoneTypes DEF Expire, RawInv, State, TrialInv, Calm, Submitting,
     Preparing, Disabling, TypeOK, Op, conf, host, proc, At, Goto, Return, Idle, NoFault,
     Fault
<1>27. CASE Recover
  BY <1>27, NothingTags, NoneTypes DEF Recover, RecoverPending, RecoverTable, RawInv,
     State, TrialInv, Calm, Submitting, Preparing, Disabling, TypeOK, Op, conf, host,
     proc, At, Goto, Return, Idle, NoFault, Fault
<1>28. CASE Tick
  BY <1>28, NothingTags, NoneTypes DEF Tick, RawInv, State, TrialInv, Calm, Submitting,
     Preparing, Disabling, TypeOK, Op, conf, host, proc, At, Goto, Return, Idle, NoFault,
     Fault
<1>29. CASE OthersWrite
  BY <1>29, NothingTags, NoneTypes DEF OthersWrite, RawInv, State, TrialInv, Calm,
     Submitting, Preparing, Disabling, TypeOK, Op, conf, host, proc, At, Goto, Return,
     Idle, NoFault, Fault
<1>30. CASE Restart
  BY <1>30, NothingTags, NoneTypes DEF Restart, NewProcess, RawInv, State, TrialInv,
     Calm, Submitting, Preparing, Disabling, TypeOK, Op, conf, host, proc, At, Goto,
     Return, Idle, NoFault, Fault
<1>31. CASE Reboot
  BY <1>31, NothingTags, NoneTypes DEF Reboot, NewProcess, RawInv, State, TrialInv, Calm,
     Submitting, Preparing, Disabling, TypeOK, Op, conf, host, proc, At, Goto, Return,
     Idle, NoFault, Fault
<1>32. CASE UNCHANGED vars
  BY <1>32 DEF vars, RawInv, State, TrialInv, Calm, Submitting, Preparing, Disabling, TypeOK
<1>33. QED
  BY <1>1, <1>2, <1>3, <1>4, <1>5, <1>6, <1>7, <1>8, <1>9, <1>10, <1>11, <1>12, <1>13,
     <1>14, <1>15, <1>16, <1>17, <1>18, <1>19, <1>20, <1>21, <1>22, <1>23, <1>24, <1>25,
     <1>26, <1>27, <1>28, <1>29, <1>30, <1>31, <1>32
  DEF Next, Request, Step, TimerStep, Environment

LEMMA NextForce ==
  ASSUME IInv, TypeOK, TypeOK', IdsInv, TrialInv, NftInv, Calm, Calm', ForceInv, BootInv, [Next]_vars
  PROVE  ForceInv'
<1>1. ASSUME NEW m \in Models, EditModel(m) PROVE ForceInv'
  BY <1>1, NothingTags, NoneTypes DEF EditModel, ForceInv, Fits, Holds, Fallback, State,
     Calm, Committing, Preparing, Disabling, TypeOK, Op, conf, host, proc, At, Goto,
     Return, Idle, NoFault, Fault
<1>2. CASE InstallNft
  BY <1>2, NothingTags, NoneTypes DEF InstallNft, ForceInv, Fits, Holds, Fallback, State,
     Calm, Committing, Preparing, Disabling, TypeOK, Op, conf, host, proc, At, Goto,
     Return, Idle, NoFault, Fault
<1>3. ASSUME NEW force \in BOOLEAN, NEW windowed \in BOOLEAN, Apply(force, windowed) PROVE ForceInv'
  BY <1>3, NothingTags, NoneTypes DEF Apply, Begin, ForceInv, Fits, Holds, Fallback,
     State, Calm, Committing, Preparing, Disabling, TypeOK, Op, conf, host, proc, At,
     Goto, Return, Idle, NoFault, Fault
<1>4. ASSUME NEW text \in Texts, NEW windowed \in BOOLEAN, ApplyRaw(text, windowed) PROVE ForceInv'
  BY <1>4, NothingTags, NoneTypes DEF ApplyRaw, Begin, ForceInv, Fits, Holds, Fallback,
     State, Calm, Committing, Preparing, Disabling, TypeOK, Op, conf, host, proc, At,
     Goto, Return, Idle, NoFault, Fault
<1>5. ASSUME NEW id \in 0..MaxChanges, Confirm(id) PROVE ForceInv'
  <2>1. UNCHANGED <<state, kernel, pend>> /\ op.at = "idle" /\ pend # NoPending
    BY <1>5, NothingTags DEF Confirm, conf, host, Idle
  <2>2. CASE op'.at = "undo"
    BY <2>1, <2>2, ForceAside DEF Late, Waiting, Committing
  <2>3. CASE op'.at = "commit" /\ op'.change = pend.change
    <3>1. Holds(op.change)'
      BY <2>1, <2>3 DEF ForceInv, Holds
    <3>2. QED
      BY <2>3, <3>1 DEF ForceInv, Committing
  <2>4. QED
    BY <1>5, <2>2, <2>3 DEF Confirm, NoOp
<1>6. CASE Rollback
  BY <1>6, NothingTags, NoneTypes DEF Rollback, ForceInv, Fits, Holds, Fallback, State,
     Calm, Committing, Preparing, Disabling, TypeOK, Op, conf, host, proc, At, Goto,
     Return, Idle, NoFault, Fault
<1>7. CASE Disable
  <2>1. UNCHANGED <<state, kernel, pend>> /\ op.at = "idle" /\ pend = NoPending
    BY <1>7, NothingTags DEF Disable, conf, host, Idle
  <2>2. Fits(kernel)
    BY <2>1 DEF ForceInv, Fallback, Committing
  <2>3. CASE op'.at = "remove"
    BY <2>1, <2>3, ForceAside DEF Late, Waiting, Committing
  <2>4. CASE op'.at = "unlink" /\ ~(state.mode = "Managed" /\ nft)
    <3>1. state.mode # "Managed"
      BY <2>1, <2>4 DEF NftInv
    <3>2. kernel'.asc = NoTable
      BY <2>1, <2>2, <3>1 DEF Fits
    <3>3. QED
      BY <2>4, <3>2 DEF ForceInv, Committing
  <2>5. QED
    BY <1>7, <2>3, <2>4 DEF Disable, NoOp
<1>8. CASE DisableConflicts
  <2>1. op.at = "conflicts" /\ pend' = pend /\ kernel' = kernel
    BY <1>8 DEF DisableConflicts, At, conf, host
  <2>2. state'.mode = state.mode /\ state'.applied = state.applied
    BY <1>8 DEF DisableConflicts, conf, TypeOK, State
  <2>3. op'.at \in {"idle", "draft"}
    <3>1. op' = [op EXCEPT !.at = "draft"] \/ op' = NoOp
      BY <1>8 DEF DisableConflicts, Goto, Return
    <3>2. QED
      BY <3>1, NothingTags DEF TypeOK, Op
  <2>4. QED
    BY <2>1, <2>2, <2>3, ForceAside DEF Late, Waiting, Committing, TrialInv, Preparing
<1>9. CASE SaveDraft
  <2>1. op.at = "draft" /\ pend' = pend /\ kernel' = kernel
    BY <1>9 DEF SaveDraft, At, conf, host
  <2>2. state'.mode = state.mode /\ state'.applied = state.applied
    BY <1>9 DEF SaveDraft, conf, TypeOK, State
  <2>3. op'.at \in {"idle", "check"}
    <3>1. op' = [op EXCEPT !.at = "check"] \/ op' = NoOp
      BY <1>9 DEF SaveDraft, Goto, Return
    <3>2. QED
      BY <3>1, NothingTags DEF TypeOK, Op
  <2>4. QED
    BY <2>1, <2>2, <2>3, ForceAside DEF Late, Waiting, Committing, TrialInv, Preparing
<1>10. CASE Check
  <2>1. op.at = "check" /\ pend' = pend /\ kernel' = kernel
    BY <1>10 DEF Check, At, conf, host
  <2>2. state'.mode = state.mode /\ state'.applied = state.applied
    BY <1>10 DEF Check, conf, TypeOK, State
  <2>3. op'.at \in {"idle", "pending", "load"}
    <3>1. op' = [op EXCEPT !.at = "pending"] \/ op' = [op EXCEPT !.at = "load"] \/ op' = NoOp
      BY <1>10 DEF Check, Goto, Return
    <3>2. QED
      BY <3>1, NothingTags DEF TypeOK, Op
  <2>4. QED
    BY <2>1, <2>2, <2>3, ForceAside DEF Late, Waiting, Committing, TrialInv, Preparing
<1>11. CASE SavePending
  <2>1. op.at = "pending" /\ UNCHANGED <<state, kernel>> /\ ~Fault("save")
    BY <1>11, CalmFault DEF SavePending, At, host
  <2>2. op' = [op EXCEPT !.at = "load"] /\ pend' = [change |-> op.change,
  rollback |-> op.rollback]
    BY <1>11, <2>1 DEF SavePending, Goto
  <2>3. op'.at = "load"
    BY <2>2 DEF TypeOK, Op
  <2>4. Fits(kernel) /\ Reverts(op.rollback)
    BY <2>1 DEF ForceInv, Fallback, TrialInv, Committing, Preparing
  <2>5. op.rollback \in Script /\ kernel \in Kernel /\ pend'.rollback = op.rollback
    BY <2>2 DEF TypeOK, Op
  <2>6. Fallback'.asc = kernel.asc /\ Fallback'.raw = kernel.raw
    BY <2>1, <2>4, <2>5, RunTags DEF Fallback, Reverts
  <2>7. Fits(Fallback)'
    BY <2>1, <2>4, <2>6 DEF Fits
  <2>8. QED
    BY <2>3, <2>7 DEF ForceInv, Committing
<1>12. CASE Load
  <2>1. op.at = "load" /\ UNCHANGED <<state, pend>>
    BY <1>12 DEF Load, At, conf
  <2>2. Fits(Fallback) /\ (op.windowed => pend # NoPending /\ pend.change = op.change)
        /\ (~op.windowed => pend = NoPending)
    BY <2>1 DEF ForceInv, Committing, TrialInv, IInv, OpInv
  <2>3. op.change \in Change /\ ScriptOf(op.change) \in Script /\ kernel \in Kernel
        /\ pend.rollback \in Script /\ kernel' \in Kernel
    BY ScriptOfType DEF TypeOK, Op, Pending
  <2>4. kernel' = Run(ScriptOf(op.change), kernel) => LoadedBy(op.change, kernel')
    BY <2>3, LoadHolds
  <2>5. CASE op' = NoOp /\ ~op.windowed /\ kernel' = kernel
    BY <2>1, <2>2, <2>5, NothingTags, ForceAside DEF Late, Waiting, Committing
  <2>6. CASE op' = [op EXCEPT !.at = "clear"] /\ op.windowed /\ kernel' = kernel
    <3>1. op'.at = "clear"
      BY <2>6 DEF TypeOK, Op
    <3>2. Reverts(pend.rollback)
      BY <2>1, <2>6 DEF TrialInv
    <3>3. Fallback.asc = kernel.asc /\ Fallback.raw = kernel.raw
      BY <2>3, <3>2, RunTags DEF Fallback, Reverts
    <3>4. Fits(kernel)'
      BY <2>1, <2>2, <2>6, <3>3 DEF Fits
    <3>5. QED
      BY <3>1, <3>4 DEF ForceInv, Committing
  <2>7. CASE op' = [op EXCEPT !.at = "arm"] /\ op.windowed /\ kernel' = Run(ScriptOf(op.change), kernel)
    <3>1. op'.at = "arm" /\ Holds(pend.change)'
      BY <2>1, <2>2, <2>4, <2>7 DEF TypeOK, Op, Holds, LoadedBy
    <3>2. Fallback'.asc = Fallback.asc /\ Fallback'.raw = Fallback.raw
      <4>1. pend.rollback.whole \/ op.change.target = "Managed"
        BY <2>2, <2>7 DEF IInv, FilesInv, WayBack
      <4>2. Fallback = Run(pend.rollback, kernel) /\ Fallback' = Run(pend.rollback, kernel')
        BY <2>1, <2>2, <2>7 DEF Fallback
      <4>3. QED
        BY <2>3, <2>7, <4>1, <4>2, FallbackKept
    <3>3. Fits(Fallback)'
      BY <2>1, <2>2, <3>2 DEF Fits
    <3>4. QED
      BY <3>1, <3>3 DEF ForceInv, Committing
  <2>8. CASE op' = [op EXCEPT !.at = "commit"] /\ kernel' = Run(ScriptOf(op.change), kernel)
    <3>1. op'.at = "commit" /\ op'.change = op.change
      BY <2>8 DEF TypeOK, Op
    <3>2. Holds(op.change)'
      BY <2>4, <2>8, <3>1 DEF Holds, LoadedBy
    <3>3. QED
      BY <3>1, <3>2 DEF ForceInv, Committing
  <2>9. QED
    BY <1>12, <2>5, <2>6, <2>7, <2>8 DEF Load, Goto, Return
<1>13. CASE Arm
  BY <1>13, NothingTags, NoneTypes DEF Arm, ForceInv, Fits, Holds, Fallback, State, Calm,
     Committing, Preparing, Disabling, TypeOK, Op, conf, host, proc, At, Goto, Return,
     Idle, NoFault, Fault
<1>14. CASE CommitState
  <2>1. op.at = "commit" /\ UNCHANGED kernel /\ ~Fault("save")
    BY <1>14, CalmFault DEF CommitState, At, host
  <2>2. op' = [op EXCEPT !.at = "ruleset"]
        /\ state' = [state EXCEPT !.mode = op.change.target, !.applied = op.change.table]
    BY <1>14, <2>1 DEF CommitState, Goto
  <2>3. op'.at = "ruleset"
    BY <2>2 DEF TypeOK, Op
  <2>4. state'.mode = op.change.target /\ state'.applied = op.change.table
    BY <2>2 DEF TypeOK, State
  <2>5. op.change.target \in {"Managed", "Raw"} /\ Holds(op.change)
    BY <2>1 DEF TypeOK, Op, Change, ForceInv
  <2>6. Fits(kernel)'
    BY <2>1, <2>4, <2>5 DEF Fits, Holds
  <2>7. QED
    BY <2>3, <2>6 DEF ForceInv, Committing
<1>15. CASE SaveRuleset
  <2>1. op.at = "ruleset" /\ pend' = pend /\ kernel' = kernel
    BY <1>15 DEF SaveRuleset, At, conf, host
  <2>2. state'.mode = state.mode /\ state'.applied = state.applied
    BY <1>15 DEF SaveRuleset, conf, TypeOK, State
  <2>3. op'.at \in {"enable"}
    <3>0. ~Fault("save")
      BY <1>15, CalmFault
    <3>1. op' = [op EXCEPT !.at = "enable"]
      BY <1>15, <3>0 DEF SaveRuleset, Goto, Return
    <3>2. QED
      BY <3>1, NothingTags DEF TypeOK, Op
  <2>4. QED
    BY <2>1, <2>2, <2>3, ForceAside DEF Late, Waiting, Committing
<1>16. CASE EnableUnit
  <2>1. op.at = "enable" /\ UNCHANGED <<state, pend, kernel>> /\ ~Fault("unit")
    BY <1>16, CalmFault DEF EnableUnit, At, host
  <2>2. Fits(kernel)'
    BY <2>1 DEF ForceInv, Fits
  <2>3. CASE op' = [op EXCEPT !.at = "clear"]
    <3>1. op'.at = "clear"
      BY <2>3 DEF TypeOK, Op
    <3>2. QED
      BY <2>2, <3>1 DEF ForceInv, Committing
  <2>4. CASE op' = NoOp /\ ~op.confirming
    <3>1. pend' = NoPending
      BY <2>1, <2>4 DEF TrialInv, Committing
    <3>2. Fits(Fallback)'
      BY <2>2, <3>1 DEF Fallback
    <3>3. QED
      BY <2>4, <3>1, <3>2, NothingTags DEF ForceInv, Committing
  <2>5. QED
    BY <1>16, <2>1, <2>3, <2>4 DEF EnableUnit, Goto, Return
<1>17. CASE ClearPending
  BY <1>17, NothingTags, NoneTypes DEF ClearPending, ForceInv, Fits, Holds, Fallback,
     State, Calm, Committing, Preparing, Disabling, TypeOK, Op, conf, host, proc, At,
     Goto, Return, Idle, NoFault, Fault
<1>18. CASE Undo
  <2>1. op.at = "undo" /\ UNCHANGED <<state, pend>> /\ pend # NoPending
    BY <1>18 DEF Undo, At, conf, TrialInv
  <2>2. CASE op' = NoOp /\ kernel' = kernel
    BY <2>1, <2>2, NothingTags, ForceAside DEF Late, Waiting, Committing
  <2>3. CASE op' = [op EXCEPT !.at = "undone"] /\ kernel' = Run(pend.rollback, kernel)
    <3>1. op'.at = "undone"
      BY <2>3 DEF TypeOK, Op
    <3>2. pend.rollback \in Script /\ kernel \in Kernel /\ kernel' \in Kernel
      BY DEF TypeOK, Pending
    <3>3. Fallback = kernel' /\ Fallback' = Run(pend.rollback, kernel')
      BY <2>1, <2>3 DEF Fallback
    <3>4. Fallback'.asc = Fallback.asc /\ Fallback'.raw = Fallback.raw
      BY <2>3, <3>2, <3>3, RunTags
    <3>5. Fits(Fallback)'
      BY <2>1, <3>4 DEF ForceInv, Fits, Committing
    <3>6. QED
      BY <3>1, <3>5 DEF ForceInv, Committing
  <2>4. QED
    BY <1>18, <2>2, <2>3 DEF Undo, Goto, Return
<1>19. CASE Undone
  <2>1. op.at = "undone" /\ UNCHANGED <<state, kernel>> /\ pend' = NoPending /\ op' = NoOp
    BY <1>19 DEF Undone, At, Return, host
  <2>2. Fits(Fallback) /\ Reverts(pend.rollback)
    BY <2>1 DEF ForceInv, TrialInv, Committing
  <2>3. Fallback.asc = kernel.asc /\ Fallback.raw = kernel.raw
    <3>1. pend.rollback \in Script /\ kernel \in Kernel
      BY DEF TypeOK, Pending
    <3>2. QED
      BY <2>2, <3>1, RunTags DEF Fallback, Reverts
  <2>4. Fits(Fallback)'
    BY <2>1, <2>2, <2>3 DEF Fits, Fallback
  <2>5. QED
    BY <2>1, <2>4, NothingTags DEF ForceInv, Committing
<1>20. CASE RemoveTable
  <2>1. op.at = "remove" /\ UNCHANGED <<state, pend>> /\ pend = NoPending
    BY <1>20 DEF RemoveTable, At, conf, TrialInv, Disabling
  <2>2. CASE op' = NoOp /\ kernel' = kernel
    BY <2>1, <2>2, NothingTags, ForceAside DEF Late, Waiting, Committing
  <2>3. CASE op' = [op EXCEPT !.at = "unlink"] /\ kernel' = Run(RemoveScript, kernel)
    <3>1. op'.at = "unlink"
      BY <2>3 DEF TypeOK, Op
    <3>2. RemoveScript \in Script /\ RemoveScript.to.asc = NoTable /\ kernel \in Kernel
      BY ScriptTypes DEF TypeOK, NoFile, RemoveScript, ReplaceScript, EmptyKernel
    <3>3. kernel'.asc = NoTable
      BY <2>3, <3>2, RunTags
    <3>4. QED
      BY <3>1, <3>3 DEF ForceInv, Committing
  <2>4. QED
    BY <1>20, <2>2, <2>3 DEF RemoveTable, Goto, Return
<1>21. CASE RemoveUnit
  <2>1. op.at = "unlink" /\ pend' = pend /\ kernel' = kernel
    BY <1>21 DEF RemoveUnit, At, conf, host
  <2>2. state'.mode = state.mode /\ state'.applied = state.applied
    BY <1>21 DEF RemoveUnit, conf, TypeOK, State
  <2>3. op'.at \in {"forget"}
    <3>0. ~Fault("unit")
      BY <1>21, CalmFault
    <3>1. op' = [op EXCEPT !.at = "forget"]
      BY <1>21, <3>0 DEF RemoveUnit, Goto, Return
    <3>2. QED
      BY <3>1, NothingTags DEF TypeOK, Op
  <2>4. QED
    BY <2>1, <2>2, <2>3, ForceAside DEF Late, Waiting, Committing
<1>22. CASE RemoveRuleset
  <2>1. op.at = "forget" /\ pend' = pend /\ kernel' = kernel
    BY <1>22 DEF RemoveRuleset, At, conf, host
  <2>2. state'.mode = state.mode /\ state'.applied = state.applied
    BY <1>22 DEF RemoveRuleset, conf, TypeOK, State
  <2>3. op'.at \in {"off"}
    <3>0. ~Fault("save")
      BY <1>22, CalmFault
    <3>1. op' = [op EXCEPT !.at = "off"]
      BY <1>22, <3>0 DEF RemoveRuleset, Goto, Return
    <3>2. QED
      BY <3>1, NothingTags DEF TypeOK, Op
  <2>4. QED
    BY <2>1, <2>2, <2>3, ForceAside DEF Late, Waiting, Committing
<1>23. CASE SaveDisabled
  <2>1. ~Fault("save")
    BY <1>23, CalmFault
  <2>2. op.at = "off" /\ op' = NoOp /\ UNCHANGED <<pend, kernel>> /\ pend = NoPending
        /\ state' = [state EXCEPT !.mode = "Disabled", !.applied = NoTable]
    BY <1>23, <2>1 DEF SaveDisabled, At, Return, host, TrialInv, Disabling
  <2>3. state'.mode = "Disabled"
    BY <2>2 DEF TypeOK, State
  <2>4. kernel'.asc = NoTable /\ Fallback' = kernel'
    BY <2>2 DEF ForceInv, Fallback
  <2>5. Fits(Fallback)'
    BY <2>3, <2>4 DEF Fits
  <2>6. QED
    BY <2>2, <2>5, NothingTags DEF ForceInv, Committing
<1>24. CASE Reload
  <2>1. op.at = "reload" /\ op' = NoOp /\ UNCHANGED <<state, pend>> /\ pend = NoPending
    BY <1>24 DEF Reload, At, Return, conf, TrialInv
  <2>2. CASE kernel' = kernel
    BY <2>1, <2>2, NothingTags, ForceAside DEF Late, Waiting, Committing
  <2>3. CASE kernel' = Run(boot, kernel)
    <3>1. state.mode = "Managed" /\ boot = ScriptOf([target |-> "Managed", table |-> state.applied])
      BY <2>1 DEF BootInv, Boots
    <3>2. boot = ReplaceScript(state.applied) /\ boot.to.asc = state.applied
      BY <3>1, ScriptTypes DEF ScriptOf, ReplaceScript, EmptyKernel
    <3>3. kernel'.asc = state.applied
      BY <2>3, <3>2, RunTags DEF TypeOK
    <3>4. Fits(Fallback)'
      BY <2>1, <3>1, <3>3 DEF Fits, Fallback
    <3>5. QED
      BY <2>1, <3>4, NothingTags DEF ForceInv, Committing
  <2>4. QED
    BY <1>24, <2>2, <2>3 DEF Reload
<1>25. ASSUME NEW t \in timers, TimerLeaves(t) PROVE ForceInv'
  BY <1>25, NothingTags, NoneTypes DEF TimerLeaves, ForceInv, Fits, Holds, Fallback,
     State, Calm, Committing, Preparing, Disabling, TypeOK, Op, conf, host, proc, At,
     Goto, Return, Idle, NoFault, Fault
<1>26. ASSUME NEW t \in timers, Expire(t) PROVE ForceInv'
  BY <1>26, NothingTags, NoneTypes DEF Expire, ForceInv, Fits, Holds, Fallback, State,
     Calm, Committing, Preparing, Disabling, TypeOK, Op, conf, host, proc, At, Goto,
     Return, Idle, NoFault, Fault
<1>27. CASE Recover
  BY <1>27, NothingTags, NoneTypes DEF Recover, RecoverPending, RecoverTable, ForceInv,
     Fits, Holds, Fallback, State, Calm, Committing, Preparing, Disabling, TypeOK, Op,
     conf, host, proc, At, Goto, Return, Idle, NoFault, Fault
<1>28. CASE Tick
  BY <1>28, NothingTags, NoneTypes DEF Tick, ForceInv, Fits, Holds, Fallback, State,
     Calm, Committing, Preparing, Disabling, TypeOK, Op, conf, host, proc, At, Goto,
     Return, Idle, NoFault, Fault
<1>29. CASE OthersWrite
  <2>1. UNCHANGED <<pend, state, op>> /\ kernel'.asc = kernel.asc /\ kernel'.raw = kernel.raw
    BY <1>29 DEF OthersWrite, conf, proc, TypeOK, Kernel
  <2>2. CASE op.at # "commit"
    BY <2>1, <2>2, ForceAside
  <2>3. CASE op.at = "commit"
    <3>1. Holds(op.change)'
      BY <2>1, <2>3 DEF ForceInv, Holds
    <3>2. QED
      BY <2>1, <2>3, <3>1 DEF ForceInv, Committing
  <2>4. QED
    BY <2>2, <2>3
<1>30. CASE Restart
  <2>1. op = NoOp /\ op' = NoOp /\ UNCHANGED <<state, pend, kernel>>
    BY <1>30, CalmFault DEF Restart, NewProcess, Idle, conf, host
  <2>2. QED
    BY <2>1, NothingTags, ForceAside
<1>31. CASE Reboot
  BY <1>31, NothingTags, NoneTypes DEF Reboot, NewProcess, ForceInv, Fits, Holds,
     Fallback, State, Calm, Committing, Preparing, Disabling, TypeOK, Op, conf, host,
     proc, At, Goto, Return, Idle, NoFault, Fault
<1>32. CASE UNCHANGED vars
  BY <1>32 DEF vars, ForceInv, Fits, Holds, Fallback, State, Calm, Committing, Preparing,
     Disabling, TypeOK
<1>33. QED
  BY <1>1, <1>2, <1>3, <1>4, <1>5, <1>6, <1>7, <1>8, <1>9, <1>10, <1>11, <1>12, <1>13,
     <1>14, <1>15, <1>16, <1>17, <1>18, <1>19, <1>20, <1>21, <1>22, <1>23, <1>24, <1>25,
     <1>26, <1>27, <1>28, <1>29, <1>30, <1>31, <1>32
  DEF Next, Request, Step, TimerStep, Environment

-----------------------------------------------------------------------------
(* Together                                                                *)

LEMMA InitEInv == Init => EInv
<1> SUFFICES ASSUME Init PROVE EInv
  OBVIOUS
<1>1. IInv
  BY InitIInv
<1>2. /\ pend = NoPending /\ op = NoOp /\ acked = {} /\ timers = {} /\ next = 1
      /\ state.mode = "Disabled" /\ unit = FALSE /\ kernel.asc = NoTable
  BY DEF Init, EmptyKernel
<1>3. op.at = "idle" /\ op.by = {} /\ pend.change.table.id = 0 /\ ~pend.rollback.whole
  BY <1>2, NothingTags DEF NoOp
<1>4. IdsInv
  BY <1>2, <1>3 DEF IdsInv, Submitting
<1>5. TrialInv
  BY <1>3 DEF TrialInv, Preparing, Committing, Disabling
<1>6. NftInv
  BY <1>2, <1>3 DEF NftInv, Submitting, Committing
<1>7. ForceInv
  BY <1>2, <1>3 DEF ForceInv, Fits, Fallback, Committing
<1>8. BootInv /\ RawInv
  BY <1>2, <1>3 DEF BootInv, Boots, RawInv, Preparing
<1>9. QED
  BY <1>1, <1>4, <1>5, <1>6, <1>7, <1>8 DEF EInv, CalmInv

LEMMA NextEInv == EInv /\ [Next]_vars => EInv'
<1> SUFFICES ASSUME EInv, [Next]_vars PROVE EInv'
  OBVIOUS
<1>1. IInv /\ TypeOK /\ IInv' /\ TypeOK'
  BY NextIInv DEF EInv, IInv
<1>2. IdsInv' /\ TrialInv' /\ NftInv'
  BY <1>1, NextIds, NextTrial, NextNft DEF EInv
<1>3. ASSUME Calm' PROVE ForceInv' /\ BootInv' /\ RawInv'
  <2>1. Calm
    BY <1>3, KindsGrow DEF Calm
  <2>2. ForceInv /\ BootInv /\ RawInv /\ IdsInv /\ TrialInv /\ NftInv
    BY <2>1 DEF EInv, CalmInv
  <2>3. QED
    BY <1>1, <1>3, <2>1, <2>2, NextForce, NextBoot, NextRaw
<1>4. QED
  BY <1>1, <1>2, <1>3 DEF EInv, CalmInv

LEMMA Extended == Spec => []EInv
<1>1. QED
  BY InitEInv, NextEInv, PTL DEF Spec

(* As long as nothing died inside an operation and every file could be     *)
(* written, the kernel holds between operations what state.json says was   *)
(* applied: nft may fail at any call, rollbacks may have to be tried again *)
(* and the daemon may be restarted.                                        *)
THEOREM StateIsInForce == Spec => []ModeIsInForce
<1>1. EInv => ModeIsInForce
  <2> SUFFICES ASSUME EInv, Calm, Settled PROVE Fits(kernel)
    BY DEF ModeIsInForce, InForce, Fits
  <2>1. op.at = "idle" /\ pend = NoPending
    BY NothingTags DEF Settled, Idle
  <2>2. QED
    BY <2>1 DEF EInv, CalmInv, ForceInv, Fallback, Committing
<1>2. QED
  BY <1>1, Extended, PTL

(* ... and the next boot loads what state.json says was confirmed, with a  *)
(* change pending as well as without.                                      *)
THEOREM ConfirmedBoots == Spec => []BootIsConfirmed
<1>1. EInv => BootIsConfirmed
  <2> SUFFICES ASSUME EInv, Idle, Calm PROVE BootIsConfirmed
    BY DEF BootIsConfirmed
  <2>1. Boots
    BY NothingTags DEF EInv, CalmInv, BootInv, Idle
  <2>2. CASE state.mode = "Disabled"
    <3>1. Run(NoFile, EmptyKernel) = EmptyKernel
      BY DEF Run, NoFile, RemoveScript, ReplaceScript, EmptyKernel
    <3>2. QED
      BY <2>1, <2>2, <3>1 DEF Boots, BootIsConfirmed, Booted
  <2>3. CASE state.mode # "Disabled"
    BY <2>1, <2>3 DEF Boots, BootIsConfirmed, Booted
  <2>4. QED
    BY <2>2, <2>3
<1>2. QED
  BY <1>1, Extended, PTL

-----------------------------------------------------------------------------
(* The other owners' tables                                                *)

KernelActions == Load \/ Undo \/ RemoveTable \/ Reload \/ OthersWrite \/ Reboot

LEMMA KernelStays ==
  ASSUME [Next]_vars, ~KernelActions
  PROVE  kernel' = kernel
<1>1. CASE Request
  BY <1>1 DEF Request, EditModel, InstallNft, Apply, ApplyRaw, Begin, Confirm, Rollback,
     Disable, host
<1>2. CASE Step
  <2>1. CASE DisableConflicts \/ SaveDraft \/ Check \/ SavePending \/ Arm \/ CommitState
    BY <2>1 DEF DisableConflicts, SaveDraft, Check, SavePending, Arm, CommitState, host
  <2>2. CASE SaveRuleset \/ EnableUnit \/ ClearPending \/ Undone
    BY <2>2 DEF SaveRuleset, EnableUnit, ClearPending, Undone, host
  <2>3. CASE RemoveUnit \/ RemoveRuleset \/ SaveDisabled
    BY <2>3 DEF RemoveUnit, RemoveRuleset, SaveDisabled, host
  <2>4. QED
    BY <1>2, <2>1, <2>2, <2>3 DEF Step, KernelActions
<1>3. CASE TimerStep \/ Recover
  BY <1>3 DEF TimerStep, TimerLeaves, Expire, Recover, host
<1>4. CASE Environment
  BY <1>4 DEF Environment, Tick, Restart, host, KernelActions
<1>5. CASE UNCHANGED vars
  BY <1>5 DEF vars
<1>6. QED
  BY <1>1, <1>2, <1>3, <1>4, <1>5 DEF Next

(* A script that replaces the managed table leaves the others alone. *)
LEMMA RunOthers ==
  ASSUME NEW s \in Script, NEW k \in Kernel, ~s.whole
  PROVE  Run(s, k).others = k.others
BY DEF Run, Script, Kernel

LEMMA NextOthers ==
  ASSUME EInv, [Next]_vars, kernel'.others # kernel.others, Calm
  PROVE  \/ kernel'.others = wrote'
         \/ "Raw" \in {state.mode, op.change.target, pend.change.target}
<1>1. /\ TypeOK /\ kernel \in Kernel /\ op.change \in Change
      /\ pend.rollback \in Script /\ boot \in Script
  BY DEF EInv, IInv, TypeOK, Pending, Op
<1>2. TrialInv /\ BootInv /\ RawInv
  BY DEF EInv, CalmInv
<1>3. KernelActions
  BY KernelStays
<1>4. CASE Load
  <2>1. kernel' = Run(ScriptOf(op.change), kernel)
    BY <1>4 DEF Load
  <2>2. ScriptOf(op.change) \in Script
    BY <1>1, ScriptOfType
  <2>3. op.change.target = "Managed" => ~ScriptOf(op.change).whole
    BY DEF ScriptOf, ReplaceScript
  <2>4. QED
    BY <1>1, <2>1, <2>2, <2>3, RunOthers DEF Change
<1>5. CASE Undo
  <2>1. kernel' = Run(pend.rollback, kernel) /\ op.at = "undo"
    BY <1>5 DEF Undo, At
  <2>2. pend.rollback.whole => "Raw" \in {state.mode, pend.change.target}
    BY <1>2, <2>1 DEF RawInv
  <2>3. QED
    BY <1>1, <2>1, <2>2, RunOthers
<1>6. CASE RemoveTable
  <2>1. kernel' = Run(RemoveScript, kernel)
    BY <1>6 DEF RemoveTable
  <2>2. RemoveScript \in Script /\ ~RemoveScript.whole
    BY ScriptTypes, NothingTags DEF NoFile
  <2>3. QED
    BY <1>1, <2>1, <2>2, RunOthers
<1>7. CASE Reload
  <2>1. kernel' = Run(boot, kernel) /\ op.at = "reload"
    BY <1>7 DEF Reload, At
  <2>2. state.mode = "Managed" /\ boot = ScriptOf([target |-> "Managed",
  table |-> state.applied])
    BY <1>2, <2>1 DEF BootInv, Boots
  <2>3. ~boot.whole
    BY <2>2 DEF ScriptOf, ReplaceScript
  <2>4. QED
    BY <1>1, <2>1, <2>3, RunOthers
<1>8. CASE OthersWrite
  BY <1>1, <1>8 DEF OthersWrite, Kernel
<1>9. CASE Reboot
  <2>1. kernel' = Booted /\ wrote' = wrote
    BY <1>9 DEF Reboot
  <2>2. (IF unit THEN Run(boot, EmptyKernel) ELSE EmptyKernel) \in Kernel
    BY <1>1, ScriptTypes, RunType
  <2>3. Booted.others = wrote
    BY <2>2 DEF Booted, Kernel
  <2>4. QED
    BY <2>1, <2>3
<1>10. QED
  BY <1>3, <1>4, <1>5, <1>6, <1>7, <1>8, <1>9 DEF KernelActions

(* The tables of Docker and fail2ban change only by their owners, by a     *)
(* reboot, or by an operation that has to do with RAW mode.                *)
THEOREM OthersAreLeftAlone == Spec => OthersTouchedOnlyByRaw
<1>1. EInv /\ [Next]_vars =>
        [ kernel'.others # kernel.others /\ Calm =>
            \/ kernel'.others = wrote'
            \/ "Raw" \in {state.mode, op.change.target, pend.change.target} ]_vars
  BY NextOthers
<1>2. QED
  BY <1>1, Extended, PTL DEF Spec, OthersTouchedOnlyByRaw

-----------------------------------------------------------------------------
(* Firewall implements ConfirmOrRevert                                     *)

Rebooted == "reboot" \in faults.kinds

LEMMA RulesetType ==
  ASSUME NEW k \in Kernel
  PROVE  Ruleset(k) \in Table \X Table
BY DEF Ruleset, Kernel

LEMMA FallbackType ==
  ASSUME TypeOK
  PROVE  Fallback \in Kernel
BY RunType DEF Fallback, TypeOK, Pending

(* The trial is not concerned. *)
LEMMA TrialStutters ==
  ASSUME TypeOK, TypeOK', pend' = pend, Rebooted' = Rebooted,
         kernel'.asc = kernel.asc, kernel'.raw = kernel.raw,
         pend # NoPending => (pend.change.table.id \in acked' <=> pend.change.table.id \in acked)
  PROVE  UNCHANGED Trial!vars
<1>1. kernel \in Kernel /\ kernel' \in Kernel /\ pend.rollback \in Script
  BY DEF TypeOK, Pending
<1>2. Ruleset(kernel') = Ruleset(kernel)
  BY DEF Ruleset
<1>3. Ruleset(Run(pend.rollback, kernel')) = Ruleset(Run(pend.rollback, kernel))
  BY <1>1, RunTags DEF Ruleset
<1>4. QED
  BY <1>2, <1>3 DEF Trial!vars, Rebooted

(* Inside a trial the ruleset changes, its way back does not. *)
LEMMA TrialSwitches ==
  ASSUME TypeOK, TypeOK', pend' = pend, pend # NoPending, acked' = acked, Rebooted' = Rebooted,
         Run(pend.rollback, kernel').asc = Run(pend.rollback, kernel).asc,
         Run(pend.rollback, kernel').raw = Run(pend.rollback, kernel).raw
  PROVE  Trial!Next
<1>1. Ruleset(kernel') \in Table \X Table
  BY RulesetType DEF TypeOK
<1>2. Ruleset(Run(pend.rollback, kernel')) = Ruleset(Run(pend.rollback, kernel))
  BY DEF Ruleset
<1>3. Trial!Switch
  BY <1>1, <1>2 DEF Trial!Switch, Rebooted
<1>4. QED
  BY <1>3 DEF Trial!Next

(* Outside a trial the ruleset may change. *)
LEMMA TrialDecides ==
  ASSUME TypeOK', pend' = NoPending, pend = NoPending, Rebooted' = Rebooted
  PROVE  Trial!Next
<1>1. Ruleset(kernel') \in Table \X Table
  BY RulesetType DEF TypeOK
<1>2. Trial!Decide
  BY <1>1 DEF Trial!Decide, Rebooted
<1>3. QED
  BY <1>2 DEF Trial!Next

LEMMA TrialEnds ==
  ASSUME TypeOK, pend' = NoPending, kernel' = kernel, Rebooted' = Rebooted,
         pend.change.table.id \in acked \/ Reverts(pend.rollback)
  PROVE  Trial!Next \/ UNCHANGED Trial!vars
<1>1. CASE pend = NoPending
  BY <1>1 DEF Trial!vars, Rebooted
<1>2. CASE pend # NoPending
  <2>1. pend.change.table.id \in acked \/ Ruleset(Run(pend.rollback, kernel)) = Ruleset(kernel)
    <3>1. pend.rollback \in Script /\ kernel \in Kernel
      BY DEF TypeOK, Pending
    <3>2. QED
      BY <3>1, RunTags DEF Reverts, Ruleset
  <2>2. Trial!End
    BY <1>2, <2>1 DEF Trial!End, Rebooted
  <2>3. QED
    BY <2>2 DEF Trial!Next
<1>3. QED
  BY <1>1, <1>2

LEMMA TrialMoves ==
  ASSUME EInv, TypeOK, TypeOK', ~Rebooted', Rebooted' = Rebooted, [Next]_vars
  PROVE  Trial!Next \/ UNCHANGED Trial!vars
<1>1. IInv /\ IdsInv /\ TrialInv
  BY DEF EInv
<1>2. ASSUME UNCHANGED <<pend, kernel, acked>> PROVE UNCHANGED Trial!vars
  BY <1>2, TrialStutters
<1>3. ASSUME NEW m \in Models, EditModel(m) PROVE Trial!Next \/ UNCHANGED Trial!vars
  BY <1>2, <1>3 DEF EditModel, conf, host
<1>4. CASE InstallNft
  BY <1>2, <1>4 DEF InstallNft, conf, host
<1>5. ASSUME NEW force \in BOOLEAN, NEW windowed \in BOOLEAN, Apply(force, windowed) PROVE Trial!Next \/ UNCHANGED Trial!vars
  <2>1. UNCHANGED <<pend, kernel>> /\ pend = NoPending
    BY <1>5 DEF Apply, Begin, conf, host
  <2>2. QED
    BY <2>1, TrialStutters
<1>6. ASSUME NEW text \in Texts, NEW windowed \in BOOLEAN, ApplyRaw(text, windowed) PROVE Trial!Next \/ UNCHANGED Trial!vars
  <2>1. UNCHANGED <<pend, kernel>> /\ pend = NoPending
    BY <1>6 DEF ApplyRaw, Begin, conf, host
  <2>2. QED
    BY <2>1, TrialStutters
<1>7. ASSUME NEW id \in 0..MaxChanges, Confirm(id) PROVE Trial!Next \/ UNCHANGED Trial!vars
  <2>1. UNCHANGED <<pend, kernel>> /\ pend # NoPending
    BY <1>7 DEF Confirm, conf, host
  <2>2. CASE acked' = acked
    BY <2>1, <2>2, TrialStutters
  <2>3. CASE acked' = acked \union {pend.change.table.id}
    <3>1. Trial!Accept
      BY <2>1, <2>3 DEF Trial!Accept, Rebooted
    <3>2. QED
      BY <3>1 DEF Trial!Next
  <2>4. QED
    BY <1>7, <2>2, <2>3 DEF Confirm
<1>8. CASE Rollback
  BY <1>2, <1>8 DEF Rollback, conf, host
<1>9. CASE Disable
  BY <1>2, <1>9 DEF Disable, conf, host
<1>10. CASE DisableConflicts
  BY <1>2, <1>10 DEF DisableConflicts, conf, host
<1>11. CASE SaveDraft
  BY <1>2, <1>11 DEF SaveDraft, conf, host
<1>12. CASE Check
  BY <1>2, <1>12 DEF Check, conf, host
<1>13. CASE SavePending
  <2>1. UNCHANGED <<kernel, acked>> /\ op.at = "pending"
    BY <1>13 DEF SavePending, host, At
  <2>2. CASE pend' = pend
    BY <2>1, <2>2, TrialStutters
  <2>3. CASE pend' = [change |-> op.change, rollback |-> op.rollback]
    <3>0. op.windowed
      BY <1>1, <2>1 DEF IInv, OpInv
    <3>1. pend = NoPending /\ Reverts(op.rollback)
      BY <1>1, <2>1 DEF TrialInv, Preparing
    <3>2. op.change.table.id # 0 /\ op.change.table.id \notin acked
      BY <1>1, <2>1, <3>0 DEF IdsInv, Submitting, TypeOK
    <3>3. pend' # NoPending
      BY <2>3, <3>2, NothingTags
    <3>4. op.rollback \in Script /\ kernel \in Kernel
      BY DEF TypeOK, Op
    <3>5. Ruleset(Run(pend'.rollback, kernel')) = Ruleset(kernel)
      BY <2>1, <2>3, <3>1, <3>4, RunTags DEF Reverts, Ruleset
    <3>6. pend'.change.table.id \notin acked'
      BY <2>1, <2>3, <3>2
    <3>7. Trial!Try
      BY <2>1, <3>1, <3>3, <3>5, <3>6 DEF Trial!Try, Rebooted
    <3>8. QED
      BY <3>7 DEF Trial!Next
  <2>4. QED
    BY <1>13, <2>2, <2>3 DEF SavePending
<1>14. CASE Load
  <2>1. UNCHANGED <<pend, acked>> /\ op.at = "load"
    BY <1>14 DEF Load, conf, At
  <2>2. CASE kernel' = kernel
    BY <2>1, <2>2, TrialStutters
  <2>3. CASE pend = NoPending
    BY <2>1, <2>3, TrialDecides
  <2>4. CASE pend # NoPending /\ kernel' = Run(ScriptOf(op.change), kernel)
    <3>1. pend.change = op.change
      BY <1>1, <2>1, <2>4 DEF TrialInv, IInv, OpInv
    <3>2. pend.rollback.whole \/ op.change.target = "Managed"
      BY <1>1, <3>1 DEF IInv, FilesInv, WayBack
    <3>3. op.change \in Change /\ kernel \in Kernel /\ pend.rollback \in Script
      BY DEF TypeOK, Op, Pending
    <3>4. QED
      BY <2>1, <2>4, <3>2, <3>3, FallbackKept, TrialSwitches
  <2>5. QED
    BY <1>14, <2>2, <2>3, <2>4 DEF Load
<1>15. CASE Arm
  BY <1>2, <1>15 DEF Arm, conf, host
<1>16. CASE CommitState
  BY <1>2, <1>16 DEF CommitState, conf, host
<1>17. CASE SaveRuleset
  BY <1>2, <1>17 DEF SaveRuleset, conf, host
<1>18. CASE EnableUnit
  BY <1>2, <1>18 DEF EnableUnit, conf, host
<1>19. CASE ClearPending
  <2>1. pend' = NoPending /\ kernel' = kernel /\ op.at = "clear"
    BY <1>19 DEF ClearPending, host, At
  <2>2. pend.change.table.id \in acked \/ Reverts(pend.rollback)
    BY <1>1, <2>1 DEF TrialInv
  <2>3. QED
    BY <2>1, <2>2, TrialEnds
<1>20. CASE Undo
  <2>1. UNCHANGED <<pend, acked>> /\ pend # NoPending
    BY <1>1, <1>20 DEF Undo, conf, At, TrialInv
  <2>2. CASE kernel' = kernel
    BY <2>1, <2>2, TrialStutters
  <2>3. CASE kernel' = Run(pend.rollback, kernel)
    <3>1. kernel \in Kernel /\ kernel' \in Kernel /\ pend.rollback \in Script
      BY DEF TypeOK, Pending
    <3>2. QED
      BY <2>1, <2>3, <3>1, RunTags, TrialSwitches
  <2>4. QED
    BY <1>20, <2>2, <2>3 DEF Undo
<1>21. CASE Undone
  <2>1. pend' = NoPending /\ kernel' = kernel /\ op.at = "undone"
    BY <1>21 DEF Undone, host, At
  <2>2. Reverts(pend.rollback)
    BY <1>1, <2>1 DEF TrialInv
  <2>3. QED
    BY <2>1, <2>2, TrialEnds
<1>22. CASE RemoveTable
  <2>1. pend' = pend /\ op.at = "remove"
    BY <1>22 DEF RemoveTable, conf, At
  <2>2. pend = NoPending
    BY <1>1, <2>1 DEF TrialInv, Disabling
  <2>3. QED
    BY <2>1, <2>2, TrialDecides
<1>23. CASE RemoveUnit
  BY <1>2, <1>23 DEF RemoveUnit, conf, host
<1>24. CASE RemoveRuleset
  BY <1>2, <1>24 DEF RemoveRuleset, conf, host
<1>25. CASE SaveDisabled
  BY <1>2, <1>25 DEF SaveDisabled, conf, host
<1>26. CASE Reload
  <2>1. pend' = pend /\ op.at = "reload"
    BY <1>26 DEF Reload, conf, At
  <2>2. pend = NoPending
    BY <1>1, <2>1 DEF TrialInv, Disabling
  <2>3. QED
    BY <2>1, <2>2, TrialDecides
<1>27. ASSUME NEW t \in timers, TimerLeaves(t) PROVE Trial!Next \/ UNCHANGED Trial!vars
  BY <1>2, <1>27 DEF TimerLeaves, conf, host
<1>28. ASSUME NEW t \in timers, Expire(t) PROVE Trial!Next \/ UNCHANGED Trial!vars
  BY <1>2, <1>28 DEF Expire, conf, host
<1>29. CASE Recover
  BY <1>2, <1>29 DEF Recover, conf, host
<1>30. CASE Tick
  BY <1>2, <1>30 DEF Tick, conf, host
<1>31. CASE OthersWrite
  <2>1. UNCHANGED <<pend, acked>> /\ kernel'.asc = kernel.asc /\ kernel'.raw = kernel.raw
    BY <1>31 DEF OthersWrite, conf, TypeOK, Kernel
  <2>2. QED
    BY <2>1, TrialStutters
<1>32. CASE Restart
  BY <1>2, <1>32 DEF Restart, conf, host
<1>33. CASE Reboot
  BY <1>33 DEF Reboot, Fault, Rebooted
<1>34. CASE UNCHANGED vars
  BY <1>2, <1>34 DEF vars
<1>35. QED
  BY <1>3, <1>4, <1>5, <1>6, <1>7, <1>8, <1>9, <1>10, <1>11, <1>12, <1>13, <1>14, <1>15,
     <1>16, <1>17, <1>18, <1>19, <1>20, <1>21, <1>22, <1>23, <1>24, <1>25, <1>26, <1>27,
     <1>28, <1>29, <1>30, <1>31, <1>32, <1>33, <1>34
  DEF Next, Request, Step, TimerStep, Environment

LEMMA TrialStep == EInv /\ [Next]_vars => [Trial!Next]_(Trial!vars)
<1> SUFFICES ASSUME EInv, [Next]_vars PROVE Trial!Next \/ UNCHANGED Trial!vars
  OBVIOUS
<1>1. TypeOK /\ TypeOK'
  BY NextType DEF EInv, IInv
<1>2. CASE Rebooted'
  BY <1>2 DEF Trial!Next, Trial!Reboot, Rebooted
<1>3. CASE ~Rebooted'
  <2>1. Rebooted' = Rebooted
    BY <1>3, KindsGrow DEF Rebooted
  <2>2. QED
    BY <1>1, <1>3, <2>1, TrialMoves
<1>4. QED
  BY <1>2, <1>3

(* A pending change ends accepted or with exactly the ruleset from before  *)
(* it, whatever fails and wherever the daemon dies, until the machine      *)
(* reboots: every behaviour of the firewall is one of ConfirmOrRevert.     *)
THEOREM ConfirmsOrReverts == Spec => EndsAcceptedOrReverted
<1>1. Init => Trial!Init
  <2> SUFFICES ASSUME Init PROVE Trial!Init
    OBVIOUS
  <2>1. kernel \in Kernel /\ pend = NoPending /\ "reboot" \notin faults.kinds
    BY InitType DEF Init, TypeOK
  <2>2. Ruleset(kernel) \in Table \X Table
    BY <2>1, RulesetType
  <2>3. QED
    BY <2>1, <2>2 DEF Trial!Init
<1>2. QED
  BY <1>1, TrialStep, Extended, PTL DEF Spec, EndsAcceptedOrReverted, Trial!Spec
=============================================================================
