---------------------------- MODULE ComposeUpdate ----------------------------
(***************************************************************************)
(* In-place update of a docker compose app                                 *)
(* (src/src/daemon/pkg/compose_update.rs): upgrade, rebuild, and rebuild   *)
(* of one service.  Everything a failed update has to put back is          *)
(* collected as it goes, and put back best effort, step by step.           *)
(*                                                                         *)
(* A commit is its number; an image is the commit it was built from.  The  *)
(* project has one service.  The caller holds the app's operation lock:    *)
(* one call at a time.                                                     *)
(***************************************************************************)
EXTENDS Naturals, FiniteSets

CONSTANTS
  MaxCommit,     \* bound: commits pushed upstream
  MaxCalls,      \* bound: calls made
  MaxHandEdits,  \* bound: changes by hand
  MaxFailures    \* bound: steps that fail, and deaths of the daemon

ComposeAssumption ==
  MaxCommit \in Nat \ {0} /\ {MaxCalls, MaxHandEdits, MaxFailures} \subseteq Nat

VARIABLES
  upstream,  \* the newest commit
  tree,      \* repository/: the commit checked out, the hand's changes in it
  kept,      \* the hand's changes that .asc/backups/ holds
  settings,  \* the override file, and the file of orphaned entries
  tag,       \* what the image's name points at
  stack,     \* the containers
  version,   \* the tag in meta.json; 0 for an app that follows a branch
  update,    \* the call: where it stands and what it would put back
  count      \* bounds; damaged: a death, or a rollback that failed in part

composeVars == <<upstream, tree, kept, settings, tag, stack, version, update, count>>

Commits == 1..MaxCommit

(* The hand's changes: of a tracked file, and an untracked file that later *)
(* commits bring too.                                                      *)
Local == {"tracked", "untracked"}
Tree == [commit : Commits, local : SUBSET Local]
Settings == [override : {"full", "pruned"}, orphaned : {"none", "some"}]
Stack == [image : Commits, running : BOOLEAN]
Stand == [tree : Tree, settings : Settings, stack : Stack]
Now == [tree |-> tree, settings |-> settings, stack |-> stack]

Updating ==
  [at : {"idle", "fetch", "protect", "checkout", "check", "prune", "images", "cancel",
         "recreate", "record", "save", "done",
         "undo_settings", "undo_tree", "undo_tags", "undo_stack", "failed"},
   op : {"none", "upgrade", "rebuild", "rebuild_source", "service"},
   start : Stand, to : Commits, same : BOOLEAN, patch : SUBSET Local,
   checkedOut : BOOLEAN, pruned : BOOLEAN, touched : BOOLEAN, attempted : BOOLEAN]
IdleUpdate ==
  [at |-> "idle", op |-> "none",
   start |-> [tree |-> [commit |-> 1, local |-> {}],
              settings |-> [override |-> "full", orphaned |-> "none"],
              stack |-> [image |-> 1, running |-> TRUE]],
   to |-> 1, same |-> FALSE, patch |-> {}, checkedOut |-> FALSE, pruned |-> FALSE,
   touched |-> FALSE, attempted |-> FALSE]

ComposeTypeOK ==
  /\ upstream \in Commits /\ tree \in Tree /\ kept \subseteq Local
  /\ settings \in Settings /\ tag \in Commits /\ stack \in Stack /\ version \in 0..MaxCommit
  /\ update \in Updating
  /\ count \in [calls : 0..MaxCalls, edits : 0..MaxHandEdits, fails : 0..MaxFailures,
                damaged : BOOLEAN]

ComposeInit ==
  /\ upstream = 1
  /\ tree = [commit |-> 1, local |-> {}] /\ kept = {}
  /\ settings = [override |-> "full", orphaned |-> "none"]
  /\ tag = 1 /\ stack = [image |-> 1, running |-> TRUE] /\ version \in {0, 1}
  /\ update = IdleUpdate
  /\ count = [calls |-> 0, edits |-> 0, fails |-> 0, damaged |-> FALSE]

Tagged == version # 0

UpdateAt(step) == update.at = step
UpdateGoes(step) == update' = [update EXCEPT !.at = step]

-----------------------------------------------------------------------------
(* Outside                                                                 *)

Push ==
  /\ upstream < MaxCommit
  /\ upstream' = upstream + 1
  /\ UNCHANGED <<tree, kept, settings, tag, stack, version, update, count>>
EditByHand(l) ==
  /\ UpdateAt("idle") /\ count.edits < MaxHandEdits
  /\ count' = [count EXCEPT !.edits = @ + 1]
  /\ tree' = [tree EXCEPT !.local = @ \cup {l}]
  /\ kept' = kept \ {l}
  /\ UNCHANGED <<upstream, settings, tag, stack, version, update>>
StartOrStop ==
  /\ UpdateAt("idle") /\ count.edits < MaxHandEdits
  /\ count' = [count EXCEPT !.edits = @ + 1]
  /\ stack' = [stack EXCEPT !.running = ~@]
  /\ UNCHANGED <<upstream, tree, kept, settings, tag, version, update>>

-----------------------------------------------------------------------------
(* upgrade, rebuild, rebuild_service                                       *)

(* An app already at the tag is left alone.                                *)
Starts(op) ==
  /\ UpdateAt("idle") /\ count.calls < MaxCalls
  /\ count' = [count EXCEPT !.calls = @ + 1]
  /\ update' = [IdleUpdate EXCEPT
       !.op = op, !.start = Now, !.to = tree.commit,
       !.at = IF op = "upgrade" /\ Tagged /\ version = upstream THEN "done"
              ELSE IF op \in {"upgrade", "rebuild_source"} THEN "fetch"
              ELSE IF op = "rebuild" THEN "check" ELSE "images",
       !.touched = op = "service"]
  /\ UNCHANGED <<upstream, tree, kept, settings, tag, stack, version>>

(* An upgrade to the commit that is installed ends here, unless the app    *)
(* follows another ref from now on: then it is rebuilt as it is.           *)
WantedCommit == IF update.op = "rebuild_source" /\ Tagged THEN version ELSE upstream
FetchSource ==
  /\ UpdateAt("fetch")
  /\ update' = [update EXCEPT
       !.to = WantedCommit,
       !.at = IF WantedCommit # tree.commit THEN "protect"
              ELSE IF update.op = "upgrade" /\ (~Tagged \/ version = WantedCommit)
                   THEN "done"
              ELSE "check"]
  /\ UNCHANGED <<upstream, tree, kept, settings, tag, stack, version, count>>

(* Step 4: what the checkout overwrites is copied first.                   *)
(* Mutant: only tracked files are.                                         *)
ProtectTracked ==
  /\ UpdateAt("protect")
  /\ kept' = kept \cup (tree.local \ {"untracked"})
  /\ update' = [update EXCEPT !.patch = tree.local \ {"untracked"}, !.at = "checkout"]
  /\ UNCHANGED <<upstream, tree, settings, tag, stack, version, count>>
Protect ==
  /\ UpdateAt("protect")
  /\ kept' = kept \cup tree.local
  /\ update' = [update EXCEPT !.patch = tree.local, !.at = "checkout"]
  /\ UNCHANGED <<upstream, tree, settings, tag, stack, version, count>>

(* Step 5: a checkout that fails may have changed files already.           *)
Checkout ==
  /\ UpdateAt("checkout")
  /\ update' = [update EXCEPT !.checkedOut = TRUE, !.at = "check"]
  /\ tree' = [commit |-> update.to, local |-> {}]
  /\ UNCHANGED <<upstream, kept, settings, tag, stack, version, count>>

(* Step 6: the files are there, the mounts stay inside, config passes.     *)
CheckFiles ==
  /\ UpdateAt("check")
  /\ UpdateGoes("prune")
  /\ UNCHANGED <<upstream, tree, kept, settings, tag, stack, version, count>>
(* Settings of a service the new commit may have dropped move away.        *)
Prune ==
  /\ UpdateAt("prune")
  /\ update' = [update EXCEPT !.pruned = TRUE, !.at = "images"]
  /\ \/ settings.override = "full" /\ update.to > 1
        /\ settings' = [override |-> "pruned", orphaned |-> "some"]
     \/ UNCHANGED settings
  /\ UNCHANGED <<upstream, tree, kept, tag, stack, version, count>>

(* Step 7: pulled and built while the old containers run.                  *)
Images ==
  /\ UpdateAt("images")
  /\ update' = [update EXCEPT !.touched = TRUE, !.at = "cancel"]
  /\ tag' = tree.commit
  /\ UNCHANGED <<upstream, tree, kept, settings, stack, version, count>>
NotCancelled ==
  /\ UpdateAt("cancel")
  /\ update' = [update EXCEPT !.attempted = TRUE, !.at = "recreate"]
  /\ UNCHANGED <<upstream, tree, kept, settings, tag, stack, version, count>>

(* Step 8: up --force-recreate, running as it was at the start.            *)
Recreated == [image |-> tag, running |-> update.start.stack.running]
Recreate ==
  /\ UpdateAt("recreate")
  /\ stack' = Recreated
  /\ UpdateGoes(IF update.op = "service" THEN "done" ELSE "record")
  /\ UNCHANGED <<upstream, tree, kept, settings, tag, version, count>>

(* Step 9: files and services, and an upgrade's version.                   *)
Record ==
  /\ UpdateAt("record")
  /\ UpdateGoes(IF update.op = "upgrade" THEN "save" ELSE "done")
  /\ UNCHANGED <<upstream, tree, kept, settings, tag, stack, version, count>>
SaveVersion ==
  /\ UpdateAt("save")
  /\ version' = (IF Tagged THEN update.to ELSE version)
  /\ UpdateGoes("done")
  /\ UNCHANGED <<upstream, tree, kept, settings, tag, stack, count>>

-----------------------------------------------------------------------------
(* Failures.  A step that fails may have done its work in part.            *)

OneFails == count.fails < MaxFailures /\ count' = [count EXCEPT !.fails = @ + 1]
Partly(step) ==
  CASE step = "checkout" -> /\ tree' \in {tree, [commit |-> tree.commit, local |-> {}],
                                         [commit |-> update.to, local |-> {}]}
                            /\ UNCHANGED <<kept, settings, tag, stack>>
    [] step = "prune"    -> /\ settings' \in {settings, [settings EXCEPT !.orphaned = "some"]}
                            /\ UNCHANGED <<tree, kept, tag, stack>>
    [] step = "images"   -> /\ tag' \in {tag, tree.commit}
                            /\ UNCHANGED <<tree, kept, settings, stack>>
    [] step = "recreate" -> stack' \in {stack, Recreated, [Recreated EXCEPT !.running = FALSE]}
                            /\ UNCHANGED <<tree, kept, settings, tag>>
    [] OTHER             -> UNCHANGED <<tree, kept, settings, tag, stack>>

(* What had begun is known to the rollback.                                *)
Begun(step) ==
  [update EXCEPT !.checkedOut = @ \/ step = "checkout", !.pruned = @ \/ step = "prune",
                 !.touched = @ \/ step = "images"]
Failure ==
  /\ update.at \in {"fetch", "protect", "checkout", "check", "prune", "images", "cancel",
                    "recreate", "record"}
  /\ OneFails
  /\ Partly(update.at)
  /\ update' = [Begun(update.at) EXCEPT
                 !.at = IF update.op = "service" THEN "undo_tags" ELSE "undo_settings"]
  /\ UNCHANGED <<upstream, version>>

(* The version cannot be saved: the error is returned as it is.            *)
SaveFailure ==
  /\ UpdateAt("save") /\ OneFails
  /\ update' = IdleUpdate
  /\ UNCHANGED <<upstream, tree, kept, settings, tag, stack, version>>

(* Rollback::run: each step that fails is noted, and the next one tried.   *)
Skipped(next) ==
  /\ count.fails < MaxFailures
  /\ count' = [count EXCEPT !.fails = @ + 1, !.damaged = TRUE]
  /\ UpdateGoes(next)
  /\ UNCHANGED <<upstream, tree, kept, settings, tag, stack, version>>
UndoSettings ==
  /\ UpdateAt("undo_settings")
  /\ \/ /\ settings' = IF update.pruned THEN update.start.settings ELSE settings
        /\ UpdateGoes("undo_tree")
        /\ UNCHANGED <<upstream, tree, kept, tag, stack, version, count>>
     \/ update.pruned /\ Skipped("undo_tree")
UndoTree ==
  /\ UpdateAt("undo_tree")
  /\ \/ /\ tree' = IF update.checkedOut
                     THEN [commit |-> update.start.tree.commit, local |-> update.patch]
                     ELSE tree
        /\ UpdateGoes("undo_tags")
        /\ UNCHANGED <<upstream, kept, settings, tag, stack, version, count>>
     \/ update.checkedOut /\ Skipped("undo_tags")
UndoTags ==
  /\ UpdateAt("undo_tags")
  /\ \/ /\ tag' = IF update.touched THEN update.start.stack.image ELSE tag
        /\ UpdateGoes("undo_stack")
        /\ UNCHANGED <<upstream, tree, kept, settings, stack, version, count>>
     \/ update.touched /\ Skipped("undo_stack")
UndoStack ==
  /\ UpdateAt("undo_stack")
  /\ \/ /\ stack' = IF update.attempted THEN Recreated ELSE stack
        /\ UpdateGoes("failed")
        /\ UNCHANGED <<upstream, tree, kept, settings, tag, version, count>>
     \/ update.attempted /\ Skipped("failed")

Return ==
  /\ update.at \in {"done", "failed"}
  /\ update' = IdleUpdate
  /\ UNCHANGED <<upstream, tree, kept, settings, tag, stack, version, count>>

(* The daemon dies: nothing remembers what was to be put back.             *)
DiesInUpdate ==
  /\ ~UpdateAt("idle") /\ count.fails < MaxFailures
  /\ count' = [count EXCEPT !.fails = @ + 1, !.damaged = TRUE]
  /\ update' = IdleUpdate
  /\ UNCHANGED <<upstream, tree, kept, settings, tag, stack, version>>

-----------------------------------------------------------------------------
ComposeNext ==
  \/ Push \/ StartOrStop \/ \E l \in Local : EditByHand(l)
  \/ \E op \in {"upgrade", "rebuild", "rebuild_source", "service"} : Starts(op)
  \/ FetchSource \/ Protect \/ Checkout \/ CheckFiles \/ Prune \/ Images
  \/ NotCancelled \/ Recreate \/ Record \/ SaveVersion \/ Failure \/ SaveFailure
  \/ UndoSettings \/ UndoTree \/ UndoTags \/ UndoStack \/ Return \/ DiesInUpdate

ComposeSpec == ComposeInit /\ [][ComposeNext]_composeVars

-----------------------------------------------------------------------------
(* Properties                                                              *)

(* "The order is what keeps a failure harmless": whichever step failed, an *)
(* update that was rolled back without a further failure leaves the commit,*)
(* the hand's changes, the settings and the containers as they were.       *)
FailureIsHarmless == UpdateAt("failed") /\ ~count.damaged => Now = update.start

(* An update that reports success has the containers on the commit that is *)
(* checked out, and the version recorded, unless an earlier one died or    *)
(* could not be rolled back in full.                                       *)
TakesEffect ==
  UpdateAt("done") /\ ~count.damaged =>
    /\ stack.image = tree.commit
    /\ Tagged /\ update.op = "upgrade" => version = tree.commit

(* An update has happened, or nothing has.                                 *)
AllOrNothing == FailureIsHarmless /\ TakesEffect

(* "Local edits of tracked files are saved as a patch, untracked files the *)
(* new commit would overwrite are copied": no change by hand and no        *)
(* settings are lost, whatever fails or dies.                              *)
NothingLost ==
  [][/\ tree.local \subseteq tree'.local \cup kept'
     /\ kept \subseteq tree'.local \cup kept'
     /\ settings'.override = "full" \/ settings'.orphaned = "some"]_composeVars

(* Both of them, whatever step an update ends at.                          *)
UpdateIsHarmless == []AllOrNothing /\ NothingLost
=============================================================================
