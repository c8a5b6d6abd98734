------------------------------ MODULE Firewall ------------------------------
(***************************************************************************)
(* The firewall manager (src/src/daemon/firewall/mod.rs): a stored model,  *)
(* one nftables table the daemon owns, and changes that are applied to the *)
(* kernel, wait for a confirmation and are rolled back without one.        *)
(*                                                                         *)
(* Every operation runs under one mutex, so at most one is in flight; its  *)
(* position is in `op`.  It is still cut into steps, one per file it       *)
(* replaces or script it loads, because the daemon can die between two of  *)
(* them and each of them can fail on its own.                              *)
(***************************************************************************)
EXTENDS Naturals

CONSTANTS
  Models,      \* what the managed model renders to
  Texts,       \* what the operator writes in RAW mode
  Nothing,     \* the body of a table that is not there
  Faults,      \* the failures the environment may produce, a subset of FaultKinds
  MaxFaults,   \* bound: how many of them
  MaxChanges,  \* bound: how many changes are submitted
  MaxWrites,   \* bound: how often other owners rewrite their tables
  Tries        \* how often the timer tries to roll back (12 in the code)

FaultKinds == {"restart", "crash", "reboot", "nft", "save", "unit", "spawn"}

ASSUME FirewallAssumption ==
  /\ Nothing \notin Models \union Texts
  /\ Faults \subseteq FaultKinds
  /\ {MaxFaults, MaxChanges, MaxWrites} \subseteq Nat
  /\ Tries \in Nat \ {0}

VARIABLES
  state,      \* state.json
  pend,       \* pending.json, NoPending when the file is missing
  phase,      \* where the clock is relative to pend's deadline
  boot,       \* ruleset.nft, NoFile when it is missing
  unit,       \* asc-firewall.service is enabled
  kernel,     \* what nftables holds
  wrote,      \* the last version the other owners wrote of their tables
  nft,        \* the nft binary is installed
  competing,  \* ufw or firewalld is active
  op,         \* the operation that holds the mutex
  timers,     \* the rollback threads of this daemon process
  starting,   \* the recovery thread of this daemon process has not run yet
  next,       \* the id of the next change
  acked,      \* history: the changes the operator accepted for good
  faults      \* history: how many faults have happened, and of which kinds

conf == <<state, pend, phase, boot, unit>>
host == <<kernel, wrote, nft, competing>>
proc == <<op, timers, starting>>
vars == <<state, pend, phase, boot, unit, kernel, wrote, nft, competing,
          op, timers, starting, next, acked, faults>>

-----------------------------------------------------------------------------
(* Tables, scripts and changes                                             *)

Bodies == Models \union Texts \union {Nothing}
Table == [id : Nat, body : Bodies]
NoTable == [id |-> 0, body |-> Nothing]

(* asc: `table inet asc`; raw: what a RAW text loaded; others: the version *)
(* of the tables of Docker, fail2ban, ..., 0 once they were flushed.       *)
Kernel == [asc : Table, raw : Table, others : Nat]
EmptyKernel == [asc |-> NoTable, raw |-> NoTable, others |-> 0]

(* A script either starts with `flush ruleset` and defines everything, or  *)
(* replaces (or deletes) the managed table only.                           *)
Script == [whole : BOOLEAN, to : Kernel]
Run(s, k) == IF s.whole THEN s.to ELSE [k EXCEPT !.asc = s.to.asc]

ReplaceScript(t) == [whole |-> FALSE, to |-> [EmptyKernel EXCEPT !.asc = t]]
RemoveScript == ReplaceScript(NoTable)
RawScript(t) == [whole |-> TRUE, to |-> [EmptyKernel EXCEPT !.raw = t]]
DumpScript(k) == [whole |-> TRUE, to |-> k]
NoFile == RemoveScript

Mode == {"Disabled", "Managed", "Raw"}
Change == [target : {"Managed", "Raw"}, table : Table]
NoChange == [target |-> "Managed", table |-> NoTable]
ScriptOf(c) == IF c.target = "Managed" THEN ReplaceScript(c.table) ELSE RawScript(c.table)

State == [mode : Mode, model : Models, raw : Bodies, applied : Table]

Pending == [change : Change, rollback : Script]
NoPending == [change |-> NoChange, rollback |-> NoFile]

(* Mutant: the target of the change is not considered.                     *)
RollbackForMode(target) ==
  IF state.mode = "Raw" THEN DumpScript(kernel) ELSE ReplaceScript(kernel.asc)
(* Mutant: the whole ruleset is dumped for every change.                   *)
RollbackForAll(target) == DumpScript(kernel)

(* The script that undoes a change to `target`: anything that touches RAW  *)
(* needs the whole ruleset back, a managed change only its own table.      *)
RollbackFor(target) ==
  IF target = "Raw" \/ state.mode = "Raw" THEN DumpScript(kernel)
                                          ELSE ReplaceScript(kernel.asc)

-----------------------------------------------------------------------------
(* The operation in flight                                                 *)

Steps == {"idle", "conflicts", "draft", "check", "pending", "load", "arm",
          "commit", "ruleset", "enable", "clear", "undo", "undone",
          "remove", "unlink", "forget", "off", "reload"}

(* windowed: the change waits for a confirmation; confirming: this commit  *)
(* is one; by: the timer that asked for the rollback, if one did.          *)
Timer == [id : Nat, left : 1..Tries]
Op == [at : Steps, change : Change, rollback : Script, windowed : BOOLEAN,
       confirming : BOOLEAN, by : SUBSET Timer]
NoOp == [at |-> "idle", change |-> NoChange, rollback |-> NoFile,
         windowed |-> FALSE, confirming |-> FALSE, by |-> {}]

Idle == op = NoOp
At(step) == op.at = step
Goto(step) == op' = [op EXCEPT !.at = step]
Return == op' = NoOp

(* The environment makes one step fail.                                    *)
Fault(kind) ==
  /\ kind \in Faults
  /\ faults.count < MaxFaults
  /\ faults' = [count |-> faults.count + 1, kinds |-> faults.kinds \union {kind}]
NoFault == UNCHANGED faults

TypeOK ==
  /\ state \in State
  /\ pend \in Pending
  /\ phase \in {"inside", "edge", "over"}
  /\ boot \in Script
  /\ unit \in BOOLEAN
  /\ kernel \in Kernel
  /\ wrote \in Nat
  /\ nft \in BOOLEAN
  /\ competing \in BOOLEAN
  /\ op \in Op
  /\ timers \subseteq Timer
  /\ starting \in BOOLEAN
  /\ next \in Nat \ {0}
  /\ acked \subseteq Nat
  /\ faults.count \in Nat /\ faults.kinds \subseteq Faults

Init ==
  /\ state \in [mode : {"Disabled"}, model : Models, raw : {Nothing}, applied : {NoTable}]
  /\ pend = NoPending
  /\ phase = "inside"
  /\ boot = NoFile
  /\ unit = FALSE
  /\ kernel = [EmptyKernel EXCEPT !.others = 1]
  /\ wrote = 1
  /\ nft \in BOOLEAN
  /\ competing \in BOOLEAN
  /\ op = NoOp
  /\ timers = {}
  /\ starting = TRUE
  /\ next = 1
  /\ acked = {}
  /\ faults = [count |-> 0, kinds |-> {}]

-----------------------------------------------------------------------------
(* Editing the model: settings, rules and sets are saved, never applied.   *)

EditModel(m) ==
  /\ Idle
  /\ state' = [state EXCEPT !.model = m]
  /\ UNCHANGED <<pend, phase, boot, unit, host, proc, next, acked, faults>>

InstallNft ==
  /\ Idle /\ ~nft
  /\ nft' = TRUE
  /\ UNCHANGED <<conf, kernel, wrote, competing, proc, next, acked, faults>>

-----------------------------------------------------------------------------
(* Submitting a change                                                     *)

(* A change without a window is accepted by submitting it.                 *)
Begin(step, target, body, windowed) ==
  /\ Idle /\ nft
  /\ pend = NoPending
  /\ next <= MaxChanges
  /\ op' = [NoOp EXCEPT !.at = step,
                        !.change = [target |-> target, table |-> [id |-> next, body |-> body]],
                        !.rollback = RollbackFor(target),
                        !.windowed = windowed]
  /\ next' = next + 1
  /\ acked' = IF windowed THEN acked ELSE acked \union {next}
  /\ UNCHANGED <<conf, host, timers, starting, faults>>

(* `nft -c` runs before a competing firewall is switched off: a rejected   *)
(* ruleset ends the operation before it has changed anything.              *)
Rivals == state.mode # "Managed" /\ competing
Apply(force, windowed) ==
  /\ Rivals => force
  /\ Begin(IF Rivals THEN "conflicts" ELSE "draft", "Managed", state.model, windowed)

ApplyRaw(text, windowed) == Begin("draft", "Raw", text, windowed)

DisableConflicts ==
  /\ At("conflicts")
  /\ \/ NoFault /\ competing' = FALSE /\ Goto("draft")
     \/ Fault("save") /\ Return /\ UNCHANGED competing
  /\ UNCHANGED <<conf, kernel, wrote, nft, timers, starting, next, acked>>

SaveDraft ==
  /\ At("draft")
  /\ \/ /\ NoFault
        /\ state' = IF op.change.target = "Raw"
                      THEN [state EXCEPT !.raw = op.change.table.body] ELSE state
        /\ Goto("check")
     \/ Fault("save") /\ Return /\ UNCHANGED state
  /\ UNCHANGED <<pend, phase, boot, unit, host, timers, starting, next, acked>>

(* A RAW text is checked here for the first time and may be rejected.      *)
(* Mutant Check: the way back is not written first.                        *)
CheckThenLoad ==
  /\ At("check")
  /\ Return \/ Goto("load")
  /\ UNCHANGED <<conf, host, timers, starting, next, acked, faults>>
Check ==
  /\ At("check")
  /\ Return \/ Goto(IF op.windowed THEN "pending" ELSE "load")
  /\ UNCHANGED <<conf, host, timers, starting, next, acked, faults>>

SavePending ==
  /\ At("pending")
  /\ \/ /\ NoFault
        /\ pend' = [change |-> op.change, rollback |-> op.rollback]
        /\ phase' = "inside"
        /\ Goto("load")
     \/ Fault("save") /\ Return /\ UNCHANGED <<pend, phase>>
  /\ UNCHANGED <<state, boot, unit, host, timers, starting, next, acked>>

(* Mutant Load: a change is committed without waiting for the operator.    *)
LoadAndCommit ==
  /\ At("load")
  /\ \/ NoFault /\ kernel' = Run(ScriptOf(op.change), kernel) /\ Goto("commit")
     \/ Fault("nft") /\ Return /\ UNCHANGED kernel
  /\ UNCHANGED <<conf, wrote, nft, competing, timers, starting, next, acked>>

Load ==
  /\ At("load")
  /\ \/ /\ NoFault
        /\ kernel' = Run(ScriptOf(op.change), kernel)
        /\ Goto(IF op.windowed THEN "arm" ELSE "commit")
     \/ /\ Fault("nft")
        /\ IF op.windowed THEN Goto("clear") ELSE Return
        /\ UNCHANGED kernel
  /\ UNCHANGED <<conf, wrote, nft, competing, timers, starting, next, acked>>

Arm ==
  /\ At("arm")
  /\ \/ NoFault /\ timers' = timers \union {[id |-> op.change.table.id, left |-> Tries]}
     \/ Fault("spawn") /\ UNCHANGED timers
  /\ Return
  /\ UNCHANGED <<conf, host, starting, next, acked>>

-----------------------------------------------------------------------------
(* Confirming and committing                                               *)

(* id 0 stands for the empty id, "whatever is pending".                    *)
Confirm(id) ==
  /\ Idle
  /\ pend # NoPending
  /\ id \in {0, pend.change.table.id}
  /\ IF phase = "over"
       THEN op' = [NoOp EXCEPT !.at = "undo"] /\ UNCHANGED acked
       ELSE /\ op' = [NoOp EXCEPT !.at = "commit", !.change = pend.change, !.confirming = TRUE]
            /\ acked' = acked \union {pend.change.table.id}
  /\ UNCHANGED <<conf, host, timers, starting, next, faults>>

(* Mutant CommitState: confirming does not rewrite the boot ruleset.       *)
CommitStateOnly ==
  /\ At("commit")
  /\ state' = [state EXCEPT !.mode = op.change.target, !.applied = op.change.table]
  /\ Goto(IF op.confirming THEN "clear" ELSE "ruleset")
  /\ UNCHANGED <<pend, phase, boot, unit, host, timers, starting, next, acked, faults>>

CommitState ==
  /\ At("commit")
  /\ \/ /\ NoFault
        /\ state' = [state EXCEPT !.mode = op.change.target, !.applied = op.change.table]
        /\ Goto("ruleset")
     \/ Fault("save") /\ Return /\ UNCHANGED state
  /\ UNCHANGED <<pend, phase, boot, unit, host, timers, starting, next, acked>>

SaveRuleset ==
  /\ At("ruleset")
  /\ \/ NoFault /\ boot' = ScriptOf(op.change) /\ Goto("enable")
     \/ Fault("save") /\ Return /\ UNCHANGED boot
  /\ UNCHANGED <<state, pend, phase, unit, host, timers, starting, next, acked>>

EnableUnit ==
  /\ At("enable")
  /\ \/ NoFault /\ unit' = TRUE /\ IF op.confirming THEN Goto("clear") ELSE Return
     \/ Fault("unit") /\ Return /\ UNCHANGED unit
  /\ UNCHANGED <<state, pend, phase, boot, host, timers, starting, next, acked>>

ClearPending ==
  /\ At("clear")
  /\ pend' = NoPending
  /\ Return
  /\ UNCHANGED <<state, phase, boot, unit, host, timers, starting, next, acked, faults>>

-----------------------------------------------------------------------------
(* Rolling back                                                            *)

Due == phase \in {"edge", "over"}

Rollback ==
  /\ Idle
  /\ pend # NoPending
  /\ op' = [NoOp EXCEPT !.at = "undo"]
  /\ UNCHANGED <<conf, host, timers, starting, next, acked, faults>>

(* The timer thread leaves when its change is no longer the pending one... *)
TimerLeaves(t) ==
  /\ pend.change.table.id # t.id
  /\ timers' = timers \ {t}
  /\ UNCHANGED <<conf, host, op, starting, next, acked, faults>>

(* ... and asks for the rollback once the deadline is reached.             *)
Expire(t) ==
  /\ Idle
  /\ pend.change.table.id = t.id
  /\ Due
  /\ op' = [NoOp EXCEPT !.at = "undo", !.by = {t}]
  /\ UNCHANGED <<conf, host, timers, starting, next, acked, faults>>

(* A failed rollback leaves the change pending; a timer tries again until  *)
(* its attempts are used up.                                               *)
(* Mutants Retry: the last attempt is repeated; no attempt is.             *)
RetryPastLast(by) == {[t EXCEPT !.left = @ - 1] : t \in by}
RetryNever(by) == {}
Retry(by) == {[t EXCEPT !.left = @ - 1] : t \in {u \in by : u.left > 1}}
Undo ==
  /\ At("undo")
  /\ \/ /\ NoFault
        /\ kernel' = Run(pend.rollback, kernel)
        /\ Goto("undone")
        /\ UNCHANGED timers
     \/ /\ Fault("nft")
        /\ timers' = (timers \ op.by) \union Retry(op.by)
        /\ Return
        /\ UNCHANGED kernel
  /\ UNCHANGED <<conf, wrote, nft, competing, starting, next, acked>>

Undone ==
  /\ At("undone")
  /\ pend' = NoPending
  /\ timers' = timers \ op.by
  /\ Return
  /\ UNCHANGED <<state, phase, boot, unit, host, starting, next, acked, faults>>

-----------------------------------------------------------------------------
(* Disabling                                                               *)

(* Mutant Disable: the table stays in the kernel.                          *)
DisableBootOnly ==
  /\ Idle
  /\ pend = NoPending
  /\ op' = [NoOp EXCEPT !.at = "unlink"]
  /\ UNCHANGED <<conf, host, timers, starting, next, acked, faults>>

Disable ==
  /\ Idle
  /\ pend = NoPending
  /\ op' = [NoOp EXCEPT !.at = IF state.mode = "Managed" /\ nft THEN "remove" ELSE "unlink"]
  /\ UNCHANGED <<conf, host, timers, starting, next, acked, faults>>

RemoveTable ==
  /\ At("remove")
  /\ \/ NoFault /\ kernel' = Run(RemoveScript, kernel) /\ Goto("unlink")
     \/ Fault("nft") /\ Return /\ UNCHANGED kernel
  /\ UNCHANGED <<conf, wrote, nft, competing, timers, starting, next, acked>>

(* `systemctl disable` is not checked, removing the unit file is.          *)
RemoveUnit ==
  /\ At("unlink")
  /\ \/ NoFault /\ unit' = FALSE /\ Goto("forget")
     \/ Fault("unit") /\ unit' \in {unit, FALSE} /\ Return
  /\ UNCHANGED <<state, pend, phase, boot, host, timers, starting, next, acked>>

RemoveRuleset ==
  /\ At("forget")
  /\ \/ NoFault /\ boot' = NoFile /\ Goto("off")
     \/ Fault("save") /\ Return /\ UNCHANGED boot
  /\ UNCHANGED <<state, pend, phase, unit, host, timers, starting, next, acked>>

SaveDisabled ==
  /\ At("off")
  /\ \/ NoFault /\ state' = [state EXCEPT !.mode = "Disabled", !.applied = NoTable]
     \/ Fault("save") /\ UNCHANGED state
  /\ Return
  /\ UNCHANGED <<pend, phase, boot, unit, host, timers, starting, next, acked>>

-----------------------------------------------------------------------------
(* Start-up: the recovery thread runs once, next to the first requests.    *)

(* Mutant RecoverPending: a live change does not get its timer back.       *)
RecoverExpiredOnly ==
  /\ pend # NoPending
  /\ IF Due THEN op' = [NoOp EXCEPT !.at = "undo"] ELSE UNCHANGED op
  /\ UNCHANGED timers /\ NoFault

RecoverPending ==
  /\ pend # NoPending
  /\ \/ Due /\ op' = [NoOp EXCEPT !.at = "undo"] /\ UNCHANGED timers /\ NoFault
     \/ ~Due /\ UNCHANGED op
             /\ \/ /\ NoFault
                   /\ timers' = timers \union {[id |-> pend.change.table.id, left |-> Tries]}
                \/ Fault("spawn") /\ UNCHANGED timers

(* A table that cannot be listed counts as missing.                        *)
RecoverTable ==
  /\ pend = NoPending
  /\ UNCHANGED timers
  /\ \/ /\ NoFault
        /\ IF state.mode = "Managed" /\ nft /\ kernel.asc = NoTable /\ boot # NoFile
             THEN op' = [NoOp EXCEPT !.at = "reload"] ELSE UNCHANGED op
     \/ /\ state.mode = "Managed" /\ nft /\ boot # NoFile
        /\ Fault("nft")
        /\ op' = [NoOp EXCEPT !.at = "reload"]

Recover ==
  /\ starting /\ Idle
  /\ starting' = FALSE
  /\ RecoverPending \/ RecoverTable
  /\ UNCHANGED <<conf, host, next, acked>>

Reload ==
  /\ At("reload")
  /\ \/ NoFault /\ kernel' = Run(boot, kernel)
     \/ Fault("nft") /\ UNCHANGED kernel
  /\ Return
  /\ UNCHANGED <<conf, wrote, nft, competing, timers, starting, next, acked>>

-----------------------------------------------------------------------------
(* The environment                                                         *)

Tick ==
  /\ pend # NoPending
  /\ \/ phase = "inside" /\ phase' = "edge"
     \/ phase = "edge" /\ phase' = "over"
  /\ UNCHANGED <<state, pend, boot, unit, host, proc, next, acked, faults>>

OthersWrite ==
  /\ wrote < MaxWrites
  /\ wrote' = wrote + 1
  /\ kernel' = [kernel EXCEPT !.others = wrote']
  /\ UNCHANGED <<conf, nft, competing, proc, next, acked, faults>>

NewProcess == op' = NoOp /\ timers' = {} /\ starting' = TRUE

(* The daemon is restarted between operations ("restart") or dies anywhere *)
(* ("crash"); the kernel keeps its tables.                                 *)
Restart ==
  /\ Fault("crash") \/ (Idle /\ Fault("restart"))
  /\ NewProcess
  /\ UNCHANGED <<conf, host, next, acked>>

(* The machine reboots: the unit loads the confirmed ruleset, the other    *)
(* owners bring their own tables back.                                     *)
Booted ==
  LET fresh == IF unit THEN Run(boot, EmptyKernel) ELSE EmptyKernel
  IN [fresh EXCEPT !.others = wrote]
Reboot ==
  /\ Fault("reboot")
  /\ NewProcess
  /\ kernel' = Booted
  /\ UNCHANGED <<conf, wrote, nft, competing, next, acked>>

-----------------------------------------------------------------------------
Request ==
  \/ \E m \in Models : EditModel(m)
  \/ InstallNft
  \/ \E force, windowed \in BOOLEAN : Apply(force, windowed)
  \/ \E text \in Texts, windowed \in BOOLEAN : ApplyRaw(text, windowed)
  \/ \E id \in 0..MaxChanges : Confirm(id)
  \/ Rollback
  \/ Disable

Step ==
  \/ DisableConflicts \/ SaveDraft \/ Check \/ SavePending \/ Load \/ Arm
  \/ CommitState \/ SaveRuleset \/ EnableUnit \/ ClearPending
  \/ Undo \/ Undone
  \/ RemoveTable \/ RemoveUnit \/ RemoveRuleset \/ SaveDisabled
  \/ Reload

TimerStep == \E t \in timers : TimerLeaves(t) \/ Expire(t)

Environment == Tick \/ OthersWrite \/ Restart \/ Reboot

Next == Request \/ Step \/ TimerStep \/ Recover \/ Environment

Spec == Init /\ [][Next]_vars

(* The daemon finishes the operation it is in, its threads are scheduled,  *)
(* the recovery thread gets the mutex and time passes.  Requests are not   *)
(* fair: nobody has to confirm.  SF: other requests may hold the mutex     *)
(* whenever a thread looks, but not for ever.                              *)
Fairness ==
  /\ WF_vars(Step)
  /\ WF_vars(Tick)
  /\ SF_vars(Recover)
  /\ SF_vars(TimerStep)
FairSpec == Spec /\ Fairness

-----------------------------------------------------------------------------
(* Properties                                                              *)

ChangesIn(k) == {k.asc.id, k.raw.id} \ {0}

(* "The way back is on disk before the change is in the kernel": whatever  *)
(* fails or dies at any point, a change nobody accepted is in the kernel   *)
(* only while pending.json names it and its rollback leads to a ruleset    *)
(* made of accepted changes only.                                          *)
NeverStranded ==
  \A c \in ChangesIn(kernel) \ acked :
    /\ pend.change.table.id = c
    /\ ChangesIn(Run(pend.rollback, kernel)) \subseteq acked

(* "An unconfirmed ruleset is not what boots": the boot file never holds a *)
(* change that nobody accepted, and neither does state.json.               *)
OnlyAcceptedBoots == ChangesIn(boot.to) \union ({state.applied.id} \ {0}) \subseteq acked

Settled == Idle /\ pend = NoPending /\ ~starting

(* Nothing died inside an operation and every file could be written: nft   *)
(* calls may have failed, threads not started, the daemon been restarted.  *)
Calm == faults.kinds \subseteq {"restart", "nft", "spawn"}

(* State.mode is "the confirmed mode - what is actually in force": between *)
(* operations, with nothing pending, the kernel holds exactly what the     *)
(* state file says was applied.                                            *)
InForce ==
  Settled =>
    /\ state.mode = "Managed" => kernel.asc = state.applied
    /\ state.mode = "Raw" => kernel.raw = state.applied
    /\ state.mode # "Managed" => kernel.asc = NoTable

ModeIsInForce == Calm => InForce

(* "A reboot always returns to the last confirmed state": between          *)
(* operations, pending change or not, what the next boot loads is what the *)
(* state file says was confirmed.                                          *)
BootIsConfirmed ==
  Idle /\ Calm =>
    Booted = [Run(IF state.mode = "Disabled" THEN NoFile
                  ELSE ScriptOf([target |-> state.mode, table |-> state.applied]),
                  EmptyKernel) EXCEPT !.others = wrote]

(* Docker's and fail2ban's tables are rewritten only by their owners, by a *)
(* reboot, or by an operation that enters or leaves RAW mode.              *)
OthersTouchedOnlyByRaw ==
  [][ kernel'.others # kernel.others /\ Calm =>
        \/ kernel'.others = wrote'
        \/ "Raw" \in {state.mode, op.change.target, pend.change.target} ]_vars

(* A pending change ends accepted or with exactly the ruleset from before  *)
(* it, the other owners' tables aside, whatever fails and wherever the     *)
(* daemon dies; only a reboot replaces the ruleset under it.               *)
Ruleset(k) == <<k.asc, k.raw>>
Trial == INSTANCE ConfirmOrRevert WITH
  Rulesets <- Table \X Table,
  ruleset  <- Ruleset(kernel),
  trial    <- pend # NoPending,
  fallback <- Ruleset(IF pend = NoPending THEN kernel ELSE Run(pend.rollback, kernel)),
  accepted <- pend # NoPending /\ pend.change.table.id \in acked,
  rebooted <- "reboot" \in faults.kinds
EndsAcceptedOrReverted == Trial!Spec

(* A pending change is eventually confirmed or rolled back.  Not, when its *)
(* timer could not be started, or when nft fails the one rollback that a   *)
(* restarted daemon tries of a change that expired meanwhile.              *)
Abandoned ==
  \/ "spawn" \in faults.kinds
  \/ "nft" \in faults.kinds /\ faults.kinds \intersect {"restart", "crash", "reboot"} # {}
PendingResolved == (pend # NoPending) ~> (pend = NoPending \/ Abandoned)
=============================================================================
