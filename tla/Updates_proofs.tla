--------------------------- MODULE Updates_proofs ----------------------------
(***************************************************************************)
(* Updates.  The daemon never takes the binary it replaces away and never  *)
(* installs less than a whole one, as long as one updater runs at a time;  *)
(* a compose app whose update fails is left as it was, and nothing of what *)
(* a hand changed is lost.  And what the health checks update: a flip of a *)
(* server gets into nginx.  For any releases, commits, calls, failures,    *)
(* servers and restarts.                                                   *)
(***************************************************************************)
EXTENDS Updater, ComposeUpdate, HealthChecks, TLAPS

-----------------------------------------------------------------------------
(* The daemon: one updater at a time                                       *)

(* What the argument needs of the types.                                   *)
SomeBinary == [v : Nat, whole : BOOLEAN]
SomeUpdater ==
  [at : {"idle", "fetch", "save", "saving", "write", "writing", "replace",
         "keep", "keeping", "restart"},
   op : {"none", "update", "install", "rollback"}, new : SomeBinary, old : SomeBinary]

(* No release is numbered 0: a whole binary has a version.                 *)
Fit(b) == b \in SomeBinary /\ (b.whole => b.v # 0)
Shapes ==
  /\ latest \in Nat \ {0}
  /\ Fit(installed) /\ Fit(previous) /\ Fit(temp)
  /\ updater \in [Updaters -> SomeUpdater]
  /\ \A u \in Updaters : Fit(updater[u].new) /\ Fit(updater[u].old)

(* One updater at a time.                                                  *)
Single ==
  \A u, w \in Updaters : updater[u].at # "idle" /\ updater[w].at # "idle" => u = w

(* Where an updater stands says where its two binaries are: the one it     *)
(* replaces is installed until the write and kept from the save on.        *)
Way(x, binary, aside, temporary) ==
  /\ x.at = "idle" <=> x.op = "none"
  /\ x.op \in {"update", "install"} => x.new.whole
  /\ x.op = "update" /\ x.at \in {"fetch", "save", "saving", "write", "writing", "replace"} =>
       x.old = binary /\ binary.whole
  /\ x.op = "update" /\ x.at \in {"write", "writing", "replace", "restart"} => x.old = aside
  /\ x.at \in {"save", "saving"} => x.op = "update"
  /\ x.at \in {"keep", "keeping"} => x.op = "rollback"
  /\ x.at = "replace" => temporary = x.new
Ways == \A u \in Updaters : Way(updater[u], installed, previous, temp)
UInv == Shapes /\ Single /\ Ways

LEMMA InitUInv == UpdaterInit => UInv
<1> SUFFICES ASSUME UpdaterInit PROVE UInv
  OBVIOUS
<1>1. /\ Fit(NoBinary) /\ Fit(Whole(1))
      /\ IdleUpdater \in SomeUpdater /\ IdleUpdater.at = "idle" /\ IdleUpdater.op = "none"
      /\ IdleUpdater.new = NoBinary /\ IdleUpdater.old = NoBinary
  BY DEF Fit, SomeBinary, NoBinary, Whole, IdleUpdater, SomeUpdater
<1> QED
  BY <1>1 DEF UpdaterInit, UInv, Shapes, Single, Ways, Way

(* An updater that moves is the only one that is not idle.                 *)
LEMMA OneMoves ==
  ASSUME UInv, NEW u \in Updaters, NEW x \in SomeUpdater,
         updater' = [updater EXCEPT ![u] = x],
         \A w \in Updaters \ {u} : updater[w].at = "idle",
         latest' \in Nat \ {0}, Fit(installed'), Fit(previous'), Fit(temp'),
         Fit(x.new), Fit(x.old), Way(x, installed', previous', temp')
  PROVE  UInv'
<1> USE DEF UInv
<1>1. updater' \in [Updaters -> SomeUpdater]
  BY DEF Shapes
<1>2. /\ updater'[u] = x
      /\ \A w \in Updaters \ {u} : updater'[w] = updater[w]
  BY DEF Shapes
<1>3. Shapes'
  BY <1>1, <1>2 DEF Shapes
<1>4. Single'
  BY <1>2 DEF Single
<1>5. ASSUME NEW w \in Updaters PROVE Way(updater'[w], installed', previous', temp')
  <2>1. CASE w = u
    BY <1>2, <2>1 DEF Way
  <2>2. CASE w # u
    <3>1. updater'[w] = updater[w] /\ updater[w].at = "idle" /\ updater[w].op = "none"
          /\ updater[w].new = updater'[w].new
      BY <1>2, <2>2 DEF Ways, Way
    <3> QED
      BY <3>1 DEF Way
  <2> QED
    BY <2>1, <2>2
<1> QED
  BY <1>3, <1>4, <1>5 DEF Ways

(* An updater that moves on keeps its operation and what it installs.      *)
Steps == {"write", "writing", "replace", "saving", "save", "keep", "keeping", "restart"}
Lands(x, u, at, old) ==
  x.at = at /\ x.op = updater[u].op /\ x.new = updater[u].new /\ x.old = old

LEMMA Moves ==
  ASSUME UInv, NEW u \in Updaters, updater[u].at # "idle",
         NEW at \in Steps, NEW old, Fit(old),
         \/ Goto(u, at) /\ old = updater[u].old
         \/ updater' = [updater EXCEPT ![u].at = at, ![u].old = old],
         latest' = latest, Fit(installed'), Fit(previous'), Fit(temp'),
         \A x \in SomeUpdater :
          Lands(x, u, at, old) => Way(x, installed', previous', temp')
  PROVE  UInv'
<1> DEFINE x == [updater[u] EXCEPT !.at = at, !.old = old]
<1>1. updater[u] \in SomeUpdater /\ updater \in [Updaters -> SomeUpdater]
      /\ latest \in Nat \ {0} /\ Fit(updater[u].new)
  BY DEF UInv, Shapes
<1>2. /\ x \in SomeUpdater /\ x.at = at /\ x.op = updater[u].op
      /\ x.new = updater[u].new /\ x.old = old
  BY <1>1 DEF SomeUpdater, Steps, Fit
<1>3. [updater[u] EXCEPT !.at = at, !.old = updater[u].old] = [updater[u] EXCEPT !.at = at]
  BY <1>1 DEF SomeUpdater
<1>4. updater' = [updater EXCEPT ![u] = x]
  BY <1>1, <1>3 DEF Goto
<1>5. \A w \in Updaters \ {u} : updater[w].at = "idle"
  BY DEF UInv, Single
<1> HIDE DEF x
<1>6. Way(x, installed', previous', temp')
  BY <1>2 DEF Lands
<1> QED
  BY <1>1, <1>2, <1>4, <1>5, <1>6, OneMoves

(* An updater that begins or ends.                                         *)
LEMMA Begins ==
  ASSUME UInv, NEW u \in Updaters, NEW call \in SomeUpdater, Alone, Begin(u, call),
         Fit(call.new), Fit(call.old), Way(call, installed, previous, temp)
  PROVE  UInv'
<1>1. /\ updater' = [updater EXCEPT ![u] = call]
      /\ \A w \in Updaters \ {u} : updater[w].at = "idle"
      /\ UNCHANGED <<latest, installed, previous, temp>>
  BY DEF Begin
<1> QED
  BY <1>1, OneMoves DEF UInv, Shapes

LEMMA Stops ==
  ASSUME UInv, NEW u \in Updaters, updater[u].at # "idle",
         updater' = [updater EXCEPT ![u] = IdleUpdater],
         UNCHANGED <<latest, installed, previous, temp>>
  PROVE  UInv'
<1>1. /\ IdleUpdater \in SomeUpdater /\ Fit(IdleUpdater.new) /\ Fit(IdleUpdater.old)
      /\ IdleUpdater.at = "idle" /\ IdleUpdater.op = "none"
  BY DEF IdleUpdater, SomeUpdater, NoBinary, SomeBinary, Fit
<1>2. Way(IdleUpdater, installed', previous', temp')
  BY <1>1 DEF Way
<1>3. \A w \in Updaters \ {u} : updater[w].at = "idle"
  BY DEF UInv, Single
<1> QED
  BY <1>1, <1>2, <1>3, OneMoves DEF UInv, Shapes

LEMMA UpdaterStep ==
  ASSUME Alone, UInv, [UpdaterNext]_updaterVars
  PROVE  UInv'
<1> USE DEF SomeBinary, Whole, Torn, NoBinary
<1>0. /\ Fit(NoBinary) /\ Fit(Whole(latest)) /\ Whole(latest).whole
      /\ \A b \in SomeBinary : Fit(Torn(b.v))
  BY DEF Fit, UInv, Shapes
<1>1. CASE Release
  <2>1. latest' \in Nat \ {0} /\ UNCHANGED <<installed, previous, temp, updater>>
    BY <1>1 DEF Release, UInv, Shapes
  <2> QED
    BY <2>1 DEF UInv, Shapes, Single, Ways, Way
<1>2. ASSUME NEW u \in Updaters, Update(u) PROVE UInv'
  <2> DEFINE call == [IdleUpdater EXCEPT !.at = "fetch", !.op = "update",
                                          !.new = Whole(latest), !.old = installed]
  <2>1. /\ call \in SomeUpdater /\ call.at = "fetch" /\ call.op = "update"
        /\ call.new = Whole(latest) /\ call.old = installed
    BY DEF IdleUpdater, SomeUpdater, UInv, Shapes, Fit
  <2>2. Begin(u, call) /\ installed.whole
    BY <1>2 DEF Update
  <2> HIDE DEF call
  <2>3. Fit(call.new) /\ Fit(call.old) /\ Way(call, installed, previous, temp)
    BY <1>0, <2>1, <2>2 DEF UInv, Shapes, Way
  <2> QED
    BY <2>1, <2>2, <2>3, Begins
<1>3. ASSUME NEW u \in Updaters, Install(u) PROVE UInv'
  <2> DEFINE call == [IdleUpdater EXCEPT !.at = "fetch", !.op = "install", !.new = Whole(latest)]
  <2>1. /\ call \in SomeUpdater /\ call.at = "fetch" /\ call.op = "install"
        /\ call.new = Whole(latest) /\ call.old = NoBinary
    BY DEF IdleUpdater, SomeUpdater, UInv, Shapes
  <2>2. Begin(u, call)
    BY <1>3 DEF Install
  <2> HIDE DEF call
  <2>3. Fit(call.new) /\ Fit(call.old) /\ Way(call, installed, previous, temp)
    BY <1>0, <2>1 DEF Way
  <2> QED
    BY <2>1, <2>2, <2>3, Begins
<1>4. ASSUME NEW u \in Updaters, Rollback(u) PROVE UInv'
  <2> DEFINE call == [at |-> "write", op |-> "rollback", new |-> previous, old |-> installed]
  <2>1. /\ call \in SomeUpdater /\ call.at = "write" /\ call.op = "rollback"
        /\ call.new = previous /\ call.old = installed
    BY DEF SomeUpdater, UInv, Shapes, Fit
  <2>2. Begin(u, call)
    BY <1>4 DEF Rollback
  <2> HIDE DEF call
  <2>3. Fit(call.new) /\ Fit(call.old) /\ Way(call, installed, previous, temp)
    BY <2>1 DEF UInv, Shapes, Way
  <2> QED
    BY <2>1, <2>2, <2>3, Begins
<1>5. ASSUME NEW u \in Updaters, updater[u].at # "idle"
      PROVE  /\ updater[u] \in SomeUpdater /\ Way(updater[u], installed, previous, temp)
             /\ updater[u].old \in SomeBinary /\ Fit(updater[u].new) /\ Fit(updater[u].old)
             /\ latest \in Nat \ {0} /\ Fit(installed) /\ Fit(previous) /\ Fit(temp)
             /\ installed \in SomeBinary
  BY DEF UInv, Shapes, Ways, Fit
<1> USE DEF At, Steps
<1>6. ASSUME NEW u \in Updaters, Fetch(u) PROVE UInv'
  <2>1. updater[u].at = "fetch" /\ UNCHANGED <<latest, installed, previous, temp>>
    BY <1>6 DEF Fetch
  <2>2. CASE updater[u].op = "update" /\ installed.v # 0
    <3>1. Goto(u, "save")
      BY <1>6, <2>2 DEF Fetch
    <3>2. \A x \in SomeUpdater :
          Lands(x, u, "save", updater[u].old) => Way(x, installed', previous', temp')
      BY <1>5, <2>1, <2>2, <3>1 DEF Lands, Way
    <3> QED
      BY <1>5, <2>1, <2>2, <3>1, <3>2, Moves
  <2>3. CASE updater[u].op # "update"
    <3>1. Goto(u, "write")
      BY <1>6, <2>3 DEF Fetch
    <3>2. \A x \in SomeUpdater :
          Lands(x, u, "write", updater[u].old) => Way(x, installed', previous', temp')
      BY <1>5, <2>1, <2>3, <3>1 DEF Lands, Way
    <3> QED
      BY <1>5, <2>1, <2>3, <3>1, <3>2, Moves
  <2>4. updater[u].op = "update" => installed.v # 0
    BY <1>5, <2>1 DEF Way, Fit
  <2> QED
    BY <2>2, <2>3, <2>4
<1>7. ASSUME NEW u \in Updaters, Save(u) PROVE UInv'
  <2>1. /\ updater[u].at = "save" /\ UNCHANGED <<latest, installed, temp>>
        /\ previous' = Torn(installed.v)
        /\ updater' = [updater EXCEPT ![u].at = "saving", ![u].old = installed]
    BY <1>7 DEF Save
  <2>2. \A x \in SomeUpdater :
          Lands(x, u, "saving", installed) => Way(x, installed', previous', temp')
    BY <1>0, <1>5, <2>1 DEF Lands, Way
  <2> QED
    BY <1>0, <1>5, <2>1, <2>2, Moves
<1>8. ASSUME NEW u \in Updaters, Saved(u) PROVE UInv'
  <2>1. /\ updater[u].at = "saving" /\ UNCHANGED <<latest, installed, temp>>
        /\ previous' = updater[u].old /\ Goto(u, "write")
    BY <1>8 DEF Saved
  <2>2. \A x \in SomeUpdater :
          Lands(x, u, "write", updater[u].old) => Way(x, installed', previous', temp')
    BY <1>5, <2>1 DEF Lands, Way
  <2> QED
    BY <1>5, <2>1, <2>2, Moves
<1>9. ASSUME NEW u \in Updaters, Write(u) PROVE UInv'
  <2>1. /\ updater[u].at = "write" /\ UNCHANGED <<latest, installed, previous>>
        /\ temp' = Torn(updater[u].new.v) /\ Goto(u, "writing")
    BY <1>9 DEF Write
  <2>2. Fit(temp')
    BY <1>0, <1>5, <2>1 DEF Fit
  <2>3. \A x \in SomeUpdater :
          Lands(x, u, "writing", updater[u].old) => Way(x, installed', previous', temp')
    BY <1>5, <2>1, <2>2 DEF Lands, Way
  <2> QED
    BY <1>5, <2>1, <2>2, <2>3, Moves
<1>10. ASSUME NEW u \in Updaters, Written(u) PROVE UInv'
  <2>1. /\ updater[u].at = "writing" /\ UNCHANGED <<latest, installed, previous>>
        /\ temp' = updater[u].new /\ Goto(u, "replace")
    BY <1>10 DEF Written
  <2>2. \A x \in SomeUpdater :
          Lands(x, u, "replace", updater[u].old) => Way(x, installed', previous', temp')
    BY <1>5, <2>1 DEF Lands, Way
  <2> QED
    BY <1>5, <2>1, <2>2, Moves
<1>11. ASSUME NEW u \in Updaters, Replace(u) PROVE UInv'
  <2>1. /\ updater[u].at = "replace" /\ UNCHANGED <<latest, previous>>
        /\ installed' = temp /\ temp' = NoBinary
    BY <1>11 DEF Replace
  <2>2. CASE updater[u].op = "rollback" /\ Goto(u, "keep")
    <3>1. \A x \in SomeUpdater :
          Lands(x, u, "keep", updater[u].old) => Way(x, installed', previous', temp')
      BY <1>0, <1>5, <2>1, <2>2 DEF Lands, Way
    <3> QED
      BY <1>0, <1>5, <2>1, <2>2, <3>1, Moves
  <2>3. CASE updater[u].op # "rollback" /\ Goto(u, "restart")
    <3>1. \A x \in SomeUpdater :
          Lands(x, u, "restart", updater[u].old) => Way(x, installed', previous', temp')
      BY <1>0, <1>5, <2>1, <2>3 DEF Lands, Way
    <3> QED
      BY <1>0, <1>5, <2>1, <2>3, <3>1, Moves
  <2> QED
    BY <1>11, <2>2, <2>3 DEF Replace
<1>12. ASSUME NEW u \in Updaters, Keep(u) PROVE UInv'
  <2>1. updater[u].at = "keep" /\ UNCHANGED <<latest, installed, temp>>
    BY <1>12 DEF Keep
  <2>2. CASE previous' = Torn(updater[u].old.v) /\ Goto(u, "keeping")
    <3>1. \A x \in SomeUpdater :
          Lands(x, u, "keeping", updater[u].old) => Way(x, installed', previous', temp')
      BY <1>0, <1>5, <2>1, <2>2 DEF Lands, Way
    <3> QED
      BY <1>0, <1>5, <2>1, <2>2, <3>1, Moves
  <2>3. CASE previous' = NoBinary /\ Goto(u, "restart")
    <3>1. \A x \in SomeUpdater :
          Lands(x, u, "restart", updater[u].old) => Way(x, installed', previous', temp')
      BY <1>0, <1>5, <2>1, <2>3 DEF Lands, Way
    <3> QED
      BY <1>0, <1>5, <2>1, <2>3, <3>1, Moves
  <2> QED
    BY <1>12, <2>2, <2>3 DEF Keep
<1>13. ASSUME NEW u \in Updaters, Kept(u) PROVE UInv'
  <2>1. /\ updater[u].at = "keeping" /\ UNCHANGED <<latest, installed, temp>>
        /\ previous' = updater[u].old /\ Goto(u, "restart")
    BY <1>13 DEF Kept
  <2>2. \A x \in SomeUpdater :
          Lands(x, u, "restart", updater[u].old) => Way(x, installed', previous', temp')
    BY <1>5, <2>1 DEF Lands, Way
  <2> QED
    BY <1>5, <2>1, <2>2, Moves
<1>14. ASSUME NEW u \in Updaters, RestartService(u) \/ Ends(u) PROVE UInv'
  BY <1>14, Stops DEF RestartService, Ends
<1>15. CASE UNCHANGED updaterVars
  BY <1>15 DEF updaterVars, UInv, Shapes, Single, Ways, Way
<1> QED
  BY <1>1, <1>2, <1>3, <1>4, <1>6, <1>7, <1>8, <1>9, <1>10, <1>11, <1>12, <1>13, <1>14, <1>15
  DEF UpdaterNext

(* Whatever cuts an update off, a whole binary is installed, or what it    *)
(* replaces is whole where a rollback finds it; no update or install puts  *)
(* less than a whole binary in place.                                      *)
THEOREM UpdatesSafe ==
  ASSUME Alone
  PROVE  UpdaterSpec => UpdatesAreSafe
<1> DEFINE Sound == installed' # installed =>
                     installed'.whole \/ \E u \in Updaters : updater[u].op = "rollback"
<1>1. UInv /\ [UpdaterNext]_updaterVars => UInv'
  BY UpdaterStep
<1>2. UInv => KeepsTheReplaced
  BY DEF UInv, Shapes, SomeUpdater, Ways, Way, KeepsTheReplaced
<1>3. UInv /\ [UpdaterNext]_updaterVars => [Sound]_updaterVars
  <2> SUFFICES ASSUME UInv, UpdaterNext, installed' # installed
               PROVE  installed'.whole \/ \E u \in Updaters : updater[u].op = "rollback"
    OBVIOUS
  <2>1. PICK u \in Updaters : Replace(u)
    BY DEF UpdaterNext, Release, Update, Install, Rollback, Begin, Fetch, Save, Saved, Write,
           Written, Keep, Kept, RestartService, Ends
  <2>2. updater[u].at = "replace" /\ installed' = temp
    BY <2>1 DEF Replace, At
  <2>3. temp = updater[u].new
    BY <2>2 DEF UInv, Ways, Way
  <2>4. updater[u].op \in {"update", "install", "rollback"}
    BY <2>2 DEF UInv, Shapes, SomeUpdater, Ways, Way
  <2> QED
    BY <2>2, <2>3, <2>4 DEF UInv, Ways, Way
<1> QED
  BY <1>1, <1>2, <1>3, InitUInv, PTL DEF UpdaterSpec, UpdatesAreSafe, InstallsWhole

-----------------------------------------------------------------------------
(* Compose apps: what a call remembers                                     *)

(* No call is at work that remembers anything.  A change by hand that a    *)
(* checkout is about to overwrite, or has overwritten, is kept.            *)
Covered(s) == s.override = "full" \/ s.orphaned = "some"
KeepInv ==
  /\ update.at = "idle" => update = IdleUpdate
  /\ update.patch \subseteq kept
  /\ update.at = "checkout" \/ update.checkedOut => tree.local \subseteq kept
  /\ Covered(settings) /\ Covered(update.start.settings)

(* What a call has not begun to change is as it was at the start, what it  *)
(* has begun the rollback knows, and what is undone is as it was again.    *)
Undone(steps) == update.at \in steps
UndoInv ==
  /\ update.at \in {"fetch", "protect", "checkout"} => ~update.checkedOut /\ ~update.attempted
  /\ ~update.checkedOut \/ Undone({"undo_tags", "undo_stack", "failed"}) =>
       tree = update.start.tree
  /\ update.at = "checkout" \/ update.checkedOut => update.patch = update.start.tree.local
  /\ ~update.pruned \/ Undone({"undo_tree", "undo_tags", "undo_stack", "failed"}) =>
       settings = update.start.settings
  /\ update.touched /\ Undone({"undo_stack"}) => tag = update.start.stack.image
  /\ ~update.attempted \/ Undone({"failed"}) => stack = update.start.stack
  /\ update.at = "cancel" \/ update.attempted => update.touched
  /\ update.at \in {"recreate", "record"} => update.attempted
  /\ update.op = "service" =>
       /\ ~update.checkedOut /\ ~update.pruned
       /\ update.at \in {"images", "cancel", "recreate", "done",
                        "undo_tags", "undo_stack", "failed"}

(* Which commit is checked out, built and running.  The version is never   *)
(* ahead of the commit, nor the commit of what was pushed.                 *)
Between(c) == version <= c /\ c <= upstream
Ahead == {"check", "prune", "images", "cancel", "recreate", "record", "save", "done"}
CommitInv ==
  /\ update.start.stack.image = update.start.tree.commit
  /\ update.at # "done" => Between(update.start.tree.commit)
  /\ update.at \in {"protect", "checkout"} \cup Ahead => Between(update.to)
  /\ update.at \in Ahead => tree.commit = update.to
  /\ update.at \in {"cancel", "recreate"} => tag = tree.commit
  /\ update.at \in {"record", "save", "done"} => stack.image = tree.commit
  /\ update.at = "done" /\ update.op = "upgrade" /\ Tagged => version = tree.commit

(* Between calls, and for one under way, unless a death or a rollback that *)
(* failed in part came before.                                             *)
HarmlessInv ==
  ~count.damaged => IF update.at = "idle"
                    THEN stack.image = tree.commit /\ Between(tree.commit)
                    ELSE UndoInv /\ CommitInv

-----------------------------------------------------------------------------
(* Types                                                                   *)

Places ==
  {"idle", "fetch", "protect", "checkout", "check", "prune", "images", "cancel",
   "recreate", "record", "save", "done",
   "undo_settings", "undo_tree", "undo_tags", "undo_stack", "failed"}

LEMMA Firsts ==
  ASSUME ComposeAssumption
  PROVE  /\ 1 \in Commits /\ IdleUpdate \in Updating
         /\ IdleUpdate.at = "idle" /\ IdleUpdate.patch = {} /\ IdleUpdate.checkedOut = FALSE
         /\ IdleUpdate.pruned = FALSE /\ IdleUpdate.attempted = FALSE
         /\ Covered(IdleUpdate.start.settings)
<1>1. 1 \in Commits
  BY DEF ComposeAssumption, Commits
<1>2. IdleUpdate.start \in Stand
  BY <1>1 DEF IdleUpdate, Stand, Tree, Settings, Stack, Local
<1>3. IdleUpdate \in Updating
  BY <1>1, <1>2 DEF IdleUpdate, Updating, Local
<1> QED
  BY <1>1, <1>3 DEF IdleUpdate, Covered

LEMMA UpdateSteps ==
  ASSUME update \in Updating, NEW at \in Places
  PROVE  /\ [update EXCEPT !.at = at] \in Updating
         /\ \A to \in Commits : [update EXCEPT !.to = to, !.at = at] \in Updating
         /\ \A p \in SUBSET Local : [update EXCEPT !.patch = p, !.at = at] \in Updating
         /\ [update EXCEPT !.checkedOut = TRUE, !.at = at] \in Updating
         /\ [update EXCEPT !.pruned = TRUE, !.at = at] \in Updating
         /\ [update EXCEPT !.touched = TRUE, !.at = at] \in Updating
         /\ [update EXCEPT !.attempted = TRUE, !.at = at] \in Updating
         /\ \A step \in Places : [Begun(step) EXCEPT !.at = at] \in Updating
<1> USE DEF Updating, Places
<1>1. [update EXCEPT !.at = at] \in Updating
  OBVIOUS
<1>2. \A to \in Commits : [update EXCEPT !.to = to, !.at = at] \in Updating
  OBVIOUS
<1>3. \A p \in SUBSET Local : [update EXCEPT !.patch = p, !.at = at] \in Updating
  OBVIOUS
<1>4. /\ [update EXCEPT !.checkedOut = TRUE, !.at = at] \in Updating
      /\ [update EXCEPT !.pruned = TRUE, !.at = at] \in Updating
  OBVIOUS
<1>5. /\ [update EXCEPT !.touched = TRUE, !.at = at] \in Updating
      /\ [update EXCEPT !.attempted = TRUE, !.at = at] \in Updating
  OBVIOUS
<1>6. ASSUME NEW step \in Places PROVE [Begun(step) EXCEPT !.at = at] \in Updating
  <2>1. PICK b \in BOOLEAN : b = (update.checkedOut \/ step = "checkout")
    OBVIOUS
  <2>2. PICK c \in BOOLEAN : c = (update.pruned \/ step = "prune")
    OBVIOUS
  <2>3. PICK d \in BOOLEAN : d = (update.touched \/ step = "images")
    OBVIOUS
  <2>4. [Begun(step) EXCEPT !.at = at] =
          [update EXCEPT !.checkedOut = b, !.pruned = c, !.touched = d, !.at = at]
    BY <2>1, <2>2, <2>3 DEF Begun
  <2> QED
    BY <2>4
<1> QED
  BY <1>1, <1>2, <1>3, <1>4, <1>5, <1>6

LEMMA TreeTypes ==
  ASSUME ComposeTypeOK
  PROVE  /\ tree.commit \in Commits /\ tree.local \in SUBSET Local
         /\ tag \in Commits /\ stack.image \in Commits /\ stack.running \in BOOLEAN
         /\ update.to \in Commits /\ update.patch \in SUBSET Local
         /\ update.start \in Stand /\ update.start.tree \in Tree
         /\ update.start.tree.commit \in Commits /\ update.start.settings \in Settings
         /\ update.start.stack \in Stack /\ update.start.stack.image \in Commits
         /\ \A c \in Commits, l \in SUBSET Local : [commit |-> c, local |-> l] \in Tree
         /\ Recreated \in Stack /\ [Recreated EXCEPT !.running = FALSE] \in Stack
<1>1. update.start \in Stand /\ update.to \in Commits /\ update.patch \in SUBSET Local
  BY DEF ComposeTypeOK, Updating
<1>2. /\ update.start.tree \in Tree /\ update.start.settings \in Settings
      /\ update.start.stack \in Stack
  BY <1>1 DEF Stand
<1> QED
  BY <1>1, <1>2 DEF ComposeTypeOK, Tree, Stack, Recreated

Count == [calls : 0..MaxCalls, edits : 0..MaxHandEdits, fails : 0..MaxFailures,
          damaged : BOOLEAN]

LEMMA CountSteps ==
  ASSUME ComposeAssumption, count \in Count
  PROVE  /\ OneFails => count' \in Count /\ count'.damaged = count.damaged
         /\ count.fails < MaxFailures =>
              /\ [count EXCEPT !.fails = @ + 1, !.damaged = TRUE] \in Count
              /\ [count EXCEPT !.fails = @ + 1, !.damaged = TRUE].damaged = TRUE
         /\ count.edits < MaxHandEdits =>
              /\ [count EXCEPT !.edits = @ + 1] \in Count
              /\ [count EXCEPT !.edits = @ + 1].damaged = count.damaged
         /\ count.calls < MaxCalls =>
              /\ [count EXCEPT !.calls = @ + 1] \in Count
              /\ [count EXCEPT !.calls = @ + 1].damaged = count.damaged
<1> USE DEF Count
<1>1. \A n \in Nat : \A k \in 0..n : k < n => k + 1 \in 0..n
  OBVIOUS
<1>2. /\ MaxCalls \in Nat /\ MaxHandEdits \in Nat /\ MaxFailures \in Nat
      /\ count.calls \in 0..MaxCalls /\ count.edits \in 0..MaxHandEdits
      /\ count.fails \in 0..MaxFailures
  BY DEF ComposeAssumption
<1>3. count.fails < MaxFailures =>
        /\ [count EXCEPT !.fails = @ + 1] \in Count
        /\ [count EXCEPT !.fails = @ + 1].damaged = count.damaged
  BY <1>1, <1>2
<1>4. count.fails < MaxFailures =>
        /\ [count EXCEPT !.fails = @ + 1, !.damaged = TRUE] \in Count
        /\ [count EXCEPT !.fails = @ + 1, !.damaged = TRUE].damaged = TRUE
  BY <1>1, <1>2
<1>5. count.edits < MaxHandEdits =>
        /\ [count EXCEPT !.edits = @ + 1] \in Count
        /\ [count EXCEPT !.edits = @ + 1].damaged = count.damaged
  BY <1>1, <1>2
<1>6. count.calls < MaxCalls =>
        /\ [count EXCEPT !.calls = @ + 1] \in Count
        /\ [count EXCEPT !.calls = @ + 1].damaged = count.damaged
  BY <1>1, <1>2
<1> QED
  BY <1>3, <1>4, <1>5, <1>6 DEF OneFails

LEMMA TypeStep ==
  ASSUME ComposeAssumption, ComposeTypeOK, [ComposeNext]_composeVars
  PROVE  ComposeTypeOK'
<1>0. /\ upstream \in Commits /\ tree \in Tree /\ kept \subseteq Local
      /\ settings \in Settings /\ tag \in Commits /\ stack \in Stack
      /\ version \in 0..MaxCommit /\ update \in Updating /\ count \in Count
  BY DEF ComposeTypeOK, Count
<1> SUFFICES /\ upstream' \in Commits /\ tree' \in Tree /\ kept' \subseteq Local
             /\ settings' \in Settings /\ tag' \in Commits /\ stack' \in Stack
             /\ version' \in 0..MaxCommit /\ update' \in Updating /\ count' \in Count
  BY DEF ComposeTypeOK, Count
<1>a. \A at \in Places : UpdateGoes(at) => update' \in Updating
  BY <1>0, UpdateSteps DEF UpdateGoes
<1>b. \A at \in Places : Skipped(at) =>
        /\ update' \in Updating /\ count' \in Count
        /\ UNCHANGED <<upstream, tree, kept, settings, tag, stack, version>>
  BY <1>0, <1>a, CountSteps DEF Skipped
<1>1. CASE Push
  <2>1. upstream' \in Commits
    BY <1>0, <1>1 DEF Push, ComposeAssumption, Commits
  <2> QED
    BY <1>0, <1>1, <2>1 DEF Push
<1>2. CASE StartOrStop \/ \E l \in Local : EditByHand(l)
  <2>1. count' \in Count
    BY <1>0, <1>2, CountSteps DEF StartOrStop, EditByHand
  <2>2. CASE StartOrStop
    BY <1>0, <2>1, <2>2 DEF StartOrStop, Stack
  <2>3. ASSUME NEW l \in Local, EditByHand(l)
        PROVE  tree' \in Tree /\ kept' \subseteq Local
    BY <1>0, <2>3 DEF EditByHand, Tree
  <2> QED
    BY <1>0, <1>2, <2>1, <2>2, <2>3 DEF EditByHand
<1>3. ASSUME NEW op \in {"upgrade", "rebuild", "rebuild_source", "service"}, Starts(op)
      PROVE  update' \in Updating /\ count' \in Count
             /\ UNCHANGED <<upstream, tree, kept, settings, tag, stack, version>>
  <2>1. Now \in Stand
    BY <1>0 DEF Now, Stand
  <2>2. PICK at \in {"done", "fetch", "check", "images"} :
          update' = [IdleUpdate EXCEPT !.op = op, !.start = Now, !.to = tree.commit,
                                       !.at = at, !.touched = op = "service"]
    BY <1>3 DEF Starts
  <2>3. update' \in Updating
    <3>1. update' =
            [at |-> at, op |-> op, start |-> Now, to |-> tree.commit, same |-> FALSE,
             patch |-> {}, checkedOut |-> FALSE, pruned |-> FALSE,
             touched |-> (op = "service"), attempted |-> FALSE]
      BY <2>2 DEF IdleUpdate
    <3>2. tree.commit \in Commits /\ (op = "service") \in BOOLEAN
      BY <1>0, TreeTypes
    <3> QED
      BY <2>1, <3>1, <3>2 DEF Updating
  <2> QED
    BY <1>0, <1>3, <2>3, CountSteps DEF Starts
<1>4. CASE FetchSource
  <2>1. WantedCommit \in Commits
    BY <1>0 DEF WantedCommit, Tagged, Commits
  <2>2. PICK at \in {"protect", "done", "check"} :
          update' = [update EXCEPT !.to = WantedCommit, !.at = at]
    BY <1>4 DEF FetchSource
  <2>3. update' \in Updating
    BY <1>0, <2>1, <2>2, UpdateSteps DEF Places
  <2> QED
    BY <1>0, <1>4, <2>3 DEF FetchSource
<1>5. CASE Protect
  <2>1. update' \in Updating
    BY <1>0, <1>5, UpdateSteps, TreeTypes DEF Protect, Places
  <2> QED
    BY <1>0, <1>5, <2>1, TreeTypes DEF Protect
<1>6. CASE Checkout
  <2>1. update' \in Updating
    BY <1>0, <1>6, UpdateSteps DEF Checkout, Places
  <2> QED
    BY <1>0, <1>6, <2>1, TreeTypes DEF Checkout
<1>7. CASE CheckFiles \/ Record
  BY <1>0, <1>a, <1>7 DEF CheckFiles, Record, Places
<1>8. CASE Prune
  <2>1. update' \in Updating
    BY <1>0, <1>8, UpdateSteps DEF Prune, Places
  <2> QED
    BY <1>0, <1>8, <2>1 DEF Prune, Settings
<1>9. CASE Images \/ NotCancelled
  <2>1. update' \in Updating
    BY <1>0, <1>9, UpdateSteps DEF Images, NotCancelled, Places
  <2> QED
    BY <1>0, <1>9, <2>1, TreeTypes DEF Images, NotCancelled
<1>10. CASE Recreate
  <2>1. update' \in Updating
    BY <1>a, <1>10 DEF Recreate, Places
  <2> QED
    BY <1>0, <1>10, <2>1, TreeTypes DEF Recreate
<1>11. CASE SaveVersion
  <2>1. update' \in Updating
    BY <1>a, <1>11 DEF SaveVersion, Places
  <2>2. version' \in 0..MaxCommit
    BY <1>0, <1>11, TreeTypes DEF SaveVersion, Commits
  <2> QED
    BY <1>0, <1>11, <2>1, <2>2 DEF SaveVersion
<1>12. CASE Failure
  <2>1. update.at \in Places
    BY <1>0 DEF Updating, Places
  <2>2. update' \in Updating
    BY <1>0, <1>12, <2>1, UpdateSteps DEF Failure, Places
  <2>3. /\ tree' \in {tree, [commit |-> tree.commit, local |-> {}],
                     [commit |-> update.to, local |-> {}]}
        /\ settings' \in {settings, [settings EXCEPT !.orphaned = "some"]}
        /\ tag' \in {tag, tree.commit} /\ kept' = kept
        /\ stack' \in {stack, Recreated, [Recreated EXCEPT !.running = FALSE]}
    BY <1>12 DEF Failure, Partly
  <2>4. tree' \in Tree /\ settings' \in Settings
    BY <1>0, <2>3, TreeTypes DEF Settings
  <2> QED
    BY <1>0, <1>12, <2>2, <2>3, <2>4, TreeTypes, CountSteps DEF Failure
<1>13. CASE SaveFailure \/ Return \/ DiesInUpdate
  BY <1>0, <1>13, Firsts, CountSteps DEF SaveFailure, Return, DiesInUpdate
<1>14. CASE UndoSettings
  BY <1>0, <1>a, <1>b, <1>14, TreeTypes DEF UndoSettings, Places
<1>15. CASE UndoTree
  BY <1>0, <1>a, <1>b, <1>15, TreeTypes DEF UndoTree, Places
<1>16. CASE UndoTags
  BY <1>0, <1>a, <1>b, <1>16, TreeTypes DEF UndoTags, Places
<1>17. CASE UndoStack
  BY <1>0, <1>a, <1>b, <1>17, TreeTypes DEF UndoStack, Places
<1>18. CASE UNCHANGED composeVars
  BY <1>0, <1>18 DEF composeVars
<1> QED
  BY <1>0, <1>1, <1>2, <1>3, <1>4, <1>5, <1>6, <1>7, <1>8, <1>9, <1>10, <1>11, <1>12, <1>13,
     <1>14, <1>15, <1>16, <1>17, <1>18
  DEF ComposeNext

-----------------------------------------------------------------------------
(* Nothing is lost                                                         *)

Lossless ==
  /\ tree.local \subseteq tree'.local \cup kept'
  /\ kept \subseteq tree'.local \cup kept'
  /\ Covered(settings)'

(* What a step leaves of the call's memory, whatever it adds to it.        *)
Remembers(at) ==
  /\ update'.at = at /\ update'.op = update.op /\ update'.start = update.start

LEMMA Memory ==
  ASSUME update \in Updating, NEW at \in Places
  PROVE  /\ UpdateGoes(at) =>
              /\ Remembers(at) /\ update'.patch = update.patch /\ update'.to = update.to
              /\ update'.checkedOut = update.checkedOut /\ update'.pruned = update.pruned
              /\ update'.touched = update.touched /\ update'.attempted = update.attempted
         /\ Skipped(at) =>
              /\ UpdateGoes(at)
              /\ count.fails < MaxFailures
              /\ count' = [count EXCEPT !.fails = @ + 1, !.damaged = TRUE]
              /\ UNCHANGED <<upstream, tree, kept, settings, tag, stack, version>>
BY DEF Updating, UpdateGoes, Skipped, Remembers

LEMMA FailureMemory ==
  ASSUME update \in Updating, Failure
  PROVE  /\ update.at \in {"fetch", "protect", "checkout", "check", "prune", "images",
                           "cancel", "recreate", "record"}
         /\ Remembers(IF update.op = "service" THEN "undo_tags" ELSE "undo_settings")
         /\ update'.patch = update.patch
         /\ update'.checkedOut = (update.checkedOut \/ update.at = "checkout")
         /\ update'.pruned = (update.pruned \/ update.at = "prune")
         /\ update'.touched = (update.touched \/ update.at = "images")
         /\ update'.attempted = update.attempted
         /\ UNCHANGED <<upstream, version, kept>>
         /\ IF update.at = "checkout"
            THEN tree' \in {tree, [commit |-> tree.commit, local |-> {}],
                            [commit |-> update.to, local |-> {}]}
            ELSE tree' = tree
         /\ IF update.at = "prune"
            THEN settings' \in {settings, [settings EXCEPT !.orphaned = "some"]}
            ELSE settings' = settings
         /\ update.at # "recreate" => stack' = stack
<1>1. Failure
  OBVIOUS
<1>2. /\ update.at \in {"fetch", "protect", "checkout", "check", "prune", "images",
                        "cancel", "recreate", "record"}
      /\ UNCHANGED <<upstream, version>> /\ Partly(update.at)
      /\ update' = [Begun(update.at) EXCEPT
                      !.at = IF update.op = "service" THEN "undo_tags" ELSE "undo_settings"]
  BY <1>1 DEF Failure
<1>3. /\ kept' = kept
      /\ IF update.at = "checkout"
         THEN tree' \in {tree, [commit |-> tree.commit, local |-> {}],
                         [commit |-> update.to, local |-> {}]}
         ELSE tree' = tree
      /\ IF update.at = "prune"
         THEN settings' \in {settings, [settings EXCEPT !.orphaned = "some"]}
         ELSE settings' = settings
      /\ update.at # "recreate" => stack' = stack
  BY <1>2 DEF Partly
<1>4. /\ Remembers(IF update.op = "service" THEN "undo_tags" ELSE "undo_settings")
      /\ update'.patch = update.patch
      /\ update'.checkedOut = (update.checkedOut \/ update.at = "checkout")
      /\ update'.pruned = (update.pruned \/ update.at = "prune")
      /\ update'.touched = (update.touched \/ update.at = "images")
      /\ update'.attempted = update.attempted
  BY <1>2 DEF Begun, Updating, Remembers
<1> QED
  BY <1>2, <1>3, <1>4

LEMMA KeepStep ==
  ASSUME ComposeAssumption, ComposeTypeOK, KeepInv, ComposeNext
  PROVE  KeepInv' /\ Lossless
<1>0. /\ update \in Updating /\ tree \in Tree /\ settings \in Settings
      /\ update.checkedOut \in BOOLEAN
  BY DEF ComposeTypeOK, Updating
<1> USE DEF KeepInv, Lossless, Covered, UpdateAt
<1>1. CASE Push
  BY <1>1 DEF Push
<1>2. CASE StartOrStop
  BY <1>2 DEF StartOrStop
<1>3. ASSUME NEW l \in Local, EditByHand(l) PROVE KeepInv' /\ Lossless
  <2>1. /\ update.at = "idle" /\ kept' = kept \ {l} /\ UNCHANGED <<settings, update>>
        /\ tree'.local = tree.local \cup {l}
    BY <1>0, <1>3 DEF EditByHand, Tree
  <2>2. update.patch = {} /\ update.checkedOut = FALSE
    BY <2>1, Firsts
  <2> QED
    BY <2>1, <2>2
<1>4. ASSUME NEW op \in {"upgrade", "rebuild", "rebuild_source", "service"}, Starts(op)
      PROVE  KeepInv' /\ Lossless
  <2>1. /\ UNCHANGED <<tree, kept, settings>>
        /\ update'.at \in {"done", "fetch", "check", "images"}
        /\ update'.patch = {} /\ update'.checkedOut = FALSE
        /\ update'.start.settings = settings
    BY <1>4 DEF Starts, IdleUpdate, Now
  <2> QED
    BY <2>1
<1>5. CASE FetchSource
  <2>1. /\ UNCHANGED <<tree, kept, settings>>
        /\ update'.at \in {"protect", "done", "check"} /\ update'.patch = update.patch
        /\ update'.checkedOut = update.checkedOut /\ update'.start = update.start
    BY <1>0, <1>5 DEF FetchSource, Updating
  <2> QED
    BY <2>1
<1>6. CASE Protect
  <2>1. /\ UNCHANGED <<tree, settings>> /\ kept' = kept \cup tree.local
        /\ update'.at = "checkout" /\ update'.patch = tree.local
        /\ update'.start = update.start
    BY <1>0, <1>6 DEF Protect, Updating
  <2> QED
    BY <2>1
<1>7. CASE Checkout
  <2>1. /\ UNCHANGED <<kept, settings>> /\ tree'.local = {}
        /\ update.at = "checkout" /\ update'.at = "check" /\ update'.patch = update.patch
        /\ update'.start = update.start
    BY <1>0, <1>7 DEF Checkout, Updating
  <2> QED
    BY <2>1
<1>8. CASE CheckFiles \/ Recreate \/ Record \/ SaveVersion
  <2>1. /\ UNCHANGED <<tree, kept, settings>>
        /\ \E at \in {"prune", "done", "record", "save"} : UpdateGoes(at)
    BY <1>8 DEF CheckFiles, Recreate, Record, SaveVersion
  <2>2. /\ update'.at \notin {"idle", "checkout"} /\ update'.patch = update.patch
        /\ update'.checkedOut = update.checkedOut /\ update'.start = update.start
    BY <1>0, <2>1, Memory DEF Places, Remembers
  <2> QED
    BY <2>1, <2>2
<1>9. CASE Prune
  <2>1. /\ UNCHANGED <<tree, kept>>
        /\ settings' = settings \/ settings' = [override |-> "pruned", orphaned |-> "some"]
    BY <1>9 DEF Prune
  <2>2. /\ update'.at = "images" /\ update'.patch = update.patch
        /\ update'.checkedOut = update.checkedOut /\ update'.start = update.start
    BY <1>0, <1>9 DEF Prune, Updating
  <2>3. settings' = settings \/ settings'.orphaned = "some"
    BY <2>1
  <2> QED
    BY <2>1, <2>2, <2>3
<1>15. CASE Images \/ NotCancelled
  <2>1. /\ UNCHANGED <<tree, kept, settings>>
        /\ update'.at \in {"cancel", "recreate"} /\ update'.patch = update.patch
        /\ update'.checkedOut = update.checkedOut /\ update'.start = update.start
    BY <1>0, <1>15 DEF Images, NotCancelled, Updating
  <2> QED
    BY <2>1
<1>10. CASE Failure
  <2>1. /\ kept' = kept /\ update'.at \notin {"idle", "checkout"}
        /\ update'.patch = update.patch /\ update'.start = update.start
        /\ update'.checkedOut = (update.checkedOut \/ update.at = "checkout")
        /\ tree' = tree \/ (update.at = "checkout" /\ tree'.local = {})
    BY <1>0, <1>10, FailureMemory DEF Remembers
  <2>2. settings' = settings \/ settings'.orphaned = "some"
    BY <1>0, <1>10, FailureMemory DEF Settings
  <2> QED
    BY <2>1, <2>2
<1>11. CASE SaveFailure \/ Return \/ DiesInUpdate
  <2>1. UNCHANGED <<tree, kept, settings>> /\ update' = IdleUpdate
    BY <1>11 DEF SaveFailure, Return, DiesInUpdate
  <2> QED
    BY <2>1, Firsts
<1>12. CASE UndoSettings
  <2>1. /\ UNCHANGED <<tree, kept>> /\ settings' \in {settings, update.start.settings}
        /\ UpdateGoes("undo_tree")
    BY <1>0, <1>12, Memory DEF UndoSettings, Places
  <2>2. /\ update'.at = "undo_tree" /\ update'.patch = update.patch
        /\ update'.checkedOut = update.checkedOut /\ update'.start = update.start
    BY <1>0, <2>1, Memory DEF Places, Remembers
  <2> QED
    BY <2>1, <2>2
<1>13. CASE UndoTree
  <2>1. /\ UNCHANGED <<kept, settings>> /\ UpdateGoes("undo_tags")
        /\ tree' = tree \/ (update.checkedOut /\ tree'.local = update.patch)
    BY <1>0, <1>13, Memory DEF UndoTree, Places
  <2>2. /\ update'.at = "undo_tags" /\ update'.patch = update.patch
        /\ update'.checkedOut = update.checkedOut /\ update'.start = update.start
    BY <1>0, <2>1, Memory DEF Places, Remembers
  <2> QED
    BY <2>1, <2>2
<1>14. CASE UndoTags \/ UndoStack
  <2>1. /\ UNCHANGED <<tree, kept, settings>>
        /\ \E at \in {"undo_stack", "failed"} : UpdateGoes(at)
    BY <1>0, <1>14, Memory DEF UndoTags, UndoStack, Places
  <2>2. /\ update'.at \notin {"idle", "checkout"} /\ update'.patch = update.patch
        /\ update'.checkedOut = update.checkedOut /\ update'.start = update.start
    BY <1>0, <2>1, Memory DEF Places, Remembers
  <2> QED
    BY <2>1, <2>2
<1> QED
  BY <1>1, <1>2, <1>3, <1>4, <1>5, <1>6, <1>7, <1>8, <1>9, <1>10, <1>11, <1>12, <1>13, <1>14,
     <1>15
  DEF ComposeNext

-----------------------------------------------------------------------------
(* A failure is harmless                                                   *)

(* Everything the call remembers but where it stands.                      *)
KeepsMemory(at) ==
  /\ Remembers(at) /\ update'.patch = update.patch /\ update'.to = update.to
  /\ update'.checkedOut = update.checkedOut /\ update'.pruned = update.pruned
  /\ update'.touched = update.touched /\ update'.attempted = update.attempted

Busy == update.at # "idle" /\ UndoInv /\ CommitInv

LEMMA Numbers ==
  ASSUME ComposeTypeOK
  PROVE  /\ upstream \in Nat /\ version \in Nat /\ tree.commit \in Nat \ {0}
         /\ update.to \in Nat \ {0} /\ update.start.tree.commit \in Nat \ {0}
BY TreeTypes DEF ComposeTypeOK, Commits

(* A call begins with what is there.                                       *)
LEMMA StartsHarmless ==
  ASSUME ComposeTypeOK, stack.image = tree.commit, Between(tree.commit),
         NEW op \in {"upgrade", "rebuild", "rebuild_source", "service"}, Starts(op)
  PROVE  Busy'
<1>1. /\ UNCHANGED <<upstream, tree, settings, tag, stack, version>>
      /\ update'.start.tree = tree /\ update'.start.settings = settings
      /\ update'.start.stack = stack /\ update'.to = tree.commit /\ update'.op = op
      /\ update'.checkedOut = FALSE /\ update'.pruned = FALSE /\ update'.attempted = FALSE
  BY DEF Starts, IdleUpdate, Now
<1>2. /\ update'.at = IF op = "upgrade" /\ Tagged /\ version = upstream THEN "done"
                      ELSE IF op \in {"upgrade", "rebuild_source"} THEN "fetch"
                      ELSE IF op = "rebuild" THEN "check" ELSE "images"
  BY DEF Starts, IdleUpdate
<1>3. UndoInv'
  BY <1>1, <1>2 DEF UndoInv, Undone
<1>4. Tagged /\ version = upstream => version = tree.commit
  BY Numbers DEF Between
<1>5. CommitInv'
  BY <1>1, <1>2, <1>4 DEF CommitInv, Between, Ahead, Tagged
<1> QED
  BY <1>2, <1>3, <1>5 DEF Busy

(* A step forward.                                                         *)
LEMMA ForwardHarmless ==
  ASSUME ComposeTypeOK, Busy,
         \/ FetchSource \/ Protect \/ Checkout \/ CheckFiles \/ Prune \/ Images
         \/ NotCancelled \/ Recreate \/ Record \/ SaveVersion
  PROVE  Busy'
<1>0. /\ update \in Updating /\ update.at # "idle" /\ UndoInv /\ CommitInv
      /\ tree \in Tree /\ update.start.tree \in Tree
  BY TreeTypes DEF ComposeTypeOK, Busy
<1> USE DEF Busy, UpdateAt, Undone
<1>1. CASE FetchSource
  <2>1. /\ UNCHANGED <<upstream, tree, settings, tag, stack, version>>
        /\ update.at = "fetch" /\ update'.to = WantedCommit
        /\ update'.at = IF WantedCommit # tree.commit THEN "protect"
                        ELSE IF update.op = "upgrade" /\ (~Tagged \/ version = WantedCommit)
                             THEN "done"
                        ELSE "check"
        /\ update'.op = update.op /\ update'.start = update.start
        /\ update'.patch = update.patch
        /\ update'.checkedOut = update.checkedOut /\ update'.pruned = update.pruned
        /\ update'.touched = update.touched /\ update'.attempted = update.attempted
    BY <1>0, <1>1 DEF FetchSource, Updating
  <2>2. UndoInv'
    BY <1>0, <2>1 DEF UndoInv
  <2>3. /\ tree = update.start.tree /\ stack = update.start.stack
        /\ stack.image = tree.commit /\ Between(tree.commit)
    BY <1>0, <2>1 DEF UndoInv, CommitInv
  <2>4. Between(WantedCommit)
    BY <2>3, Numbers DEF Between, WantedCommit
  <2>5. CommitInv'
    BY <1>0, <2>1, <2>3, <2>4 DEF CommitInv, Between, Ahead, Tagged
  <2> QED
    BY <2>1, <2>2, <2>5
<1>2. CASE Protect
  <2>1. /\ UNCHANGED <<upstream, tree, settings, tag, stack, version>>
        /\ update.at = "protect" /\ update'.at = "checkout" /\ update'.to = update.to
        /\ update'.op = update.op /\ update'.start = update.start
        /\ update'.patch = tree.local
        /\ update'.checkedOut = update.checkedOut /\ update'.pruned = update.pruned
        /\ update'.touched = update.touched /\ update'.attempted = update.attempted
    BY <1>0, <1>2 DEF Protect, Updating
  <2>2. UndoInv'
    BY <1>0, <2>1 DEF UndoInv
  <2>3. CommitInv'
    BY <1>0, <2>1 DEF CommitInv, Between, Ahead, Tagged
  <2> QED
    BY <2>1, <2>2, <2>3
<1>3. CASE Checkout
  <2>1. /\ UNCHANGED <<upstream, settings, tag, stack, version>>
        /\ tree'.commit = update.to
        /\ update.at = "checkout" /\ update'.at = "check" /\ update'.to = update.to
        /\ update'.op = update.op /\ update'.start = update.start
        /\ update'.patch = update.patch
        /\ update'.checkedOut = TRUE /\ update'.pruned = update.pruned
        /\ update'.touched = update.touched /\ update'.attempted = update.attempted
    BY <1>0, <1>3 DEF Checkout, Updating
  <2>2. UndoInv'
    BY <1>0, <2>1 DEF UndoInv
  <2>3. CommitInv'
    BY <1>0, <2>1 DEF CommitInv, Between, Ahead, Tagged
  <2> QED
    BY <2>1, <2>2, <2>3
<1>4. CASE CheckFiles
  <2>1. /\ UNCHANGED <<upstream, tree, settings, tag, stack, version>>
        /\ update.at = "check" /\ KeepsMemory("prune")
    BY <1>0, <1>4, Memory DEF CheckFiles, Places, KeepsMemory
  <2>2. UndoInv'
    BY <1>0, <2>1 DEF UndoInv, KeepsMemory, Remembers
  <2>3. CommitInv'
    BY <1>0, <2>1 DEF CommitInv, Between, Ahead, Tagged, KeepsMemory, Remembers
  <2> QED
    BY <2>1, <2>2, <2>3 DEF KeepsMemory, Remembers
<1>5. CASE Prune
  <2>1. /\ UNCHANGED <<upstream, tree, tag, stack, version>>
        /\ update.at = "prune" /\ update'.at = "images" /\ update'.to = update.to
        /\ update'.op = update.op /\ update'.start = update.start
        /\ update'.patch = update.patch
        /\ update'.checkedOut = update.checkedOut /\ update'.pruned = TRUE
        /\ update'.touched = update.touched /\ update'.attempted = update.attempted
    BY <1>0, <1>5 DEF Prune, Updating
  <2>2. UndoInv'
    BY <1>0, <2>1 DEF UndoInv
  <2>3. CommitInv'
    BY <1>0, <2>1 DEF CommitInv, Between, Ahead, Tagged
  <2> QED
    BY <2>1, <2>2, <2>3
<1>6. CASE Images
  <2>1. /\ UNCHANGED <<upstream, tree, settings, stack, version>> /\ tag' = tree.commit
        /\ update.at = "images" /\ update'.at = "cancel" /\ update'.to = update.to
        /\ update'.op = update.op /\ update'.start = update.start
        /\ update'.patch = update.patch
        /\ update'.checkedOut = update.checkedOut /\ update'.pruned = update.pruned
        /\ update'.touched = TRUE /\ update'.attempted = update.attempted
    BY <1>0, <1>6 DEF Images, Updating
  <2>2. UndoInv'
    BY <1>0, <2>1 DEF UndoInv
  <2>3. CommitInv'
    BY <1>0, <2>1 DEF CommitInv, Between, Ahead, Tagged
  <2> QED
    BY <2>1, <2>2, <2>3
<1>7. CASE NotCancelled
  <2>1. /\ UNCHANGED <<upstream, tree, settings, tag, stack, version>>
        /\ update.at = "cancel" /\ update'.at = "recreate" /\ update'.to = update.to
        /\ update'.op = update.op /\ update'.start = update.start
        /\ update'.patch = update.patch
        /\ update'.checkedOut = update.checkedOut /\ update'.pruned = update.pruned
        /\ update'.touched = update.touched /\ update'.attempted = TRUE
    BY <1>0, <1>7 DEF NotCancelled, Updating
  <2>2. UndoInv'
    BY <1>0, <2>1 DEF UndoInv
  <2>3. CommitInv'
    BY <1>0, <2>1 DEF CommitInv, Between, Ahead, Tagged
  <2> QED
    BY <2>1, <2>2, <2>3
<1>8. CASE Recreate
  <2>1. /\ UNCHANGED <<upstream, tree, settings, tag, version>> /\ stack'.image = tag
        /\ update.at = "recreate"
        /\ KeepsMemory(IF update.op = "service" THEN "done" ELSE "record")
    BY <1>0, <1>8, Memory DEF Recreate, Recreated, Places, KeepsMemory
  <2>2. UndoInv'
    BY <1>0, <2>1 DEF UndoInv, KeepsMemory, Remembers
  <2>3. CommitInv'
    BY <1>0, <2>1 DEF CommitInv, Between, Ahead, Tagged, KeepsMemory, Remembers
  <2> QED
    BY <2>1, <2>2, <2>3 DEF KeepsMemory, Remembers
<1>9. CASE Record
  <2>1. /\ UNCHANGED <<upstream, tree, settings, tag, stack, version>>
        /\ update.at = "record"
        /\ KeepsMemory(IF update.op = "upgrade" THEN "save" ELSE "done")
    BY <1>0, <1>9, Memory DEF Record, Places, KeepsMemory
  <2>2. UndoInv'
    BY <1>0, <2>1 DEF UndoInv, KeepsMemory, Remembers
  <2>3. CommitInv'
    BY <1>0, <2>1 DEF CommitInv, Between, Ahead, Tagged, KeepsMemory, Remembers
  <2> QED
    BY <2>1, <2>2, <2>3 DEF KeepsMemory, Remembers
<1>10. CASE SaveVersion
  <2>1. /\ UNCHANGED <<upstream, tree, settings, tag, stack>>
        /\ version' = (IF version # 0 THEN update.to ELSE version)
        /\ update.at = "save" /\ KeepsMemory("done")
    BY <1>0, <1>10, Memory DEF SaveVersion, Tagged, Places, KeepsMemory
  <2>2. UndoInv'
    BY <1>0, <2>1 DEF UndoInv, KeepsMemory, Remembers
  <2>3. /\ tree.commit = update.to /\ Between(update.to) /\ stack.image = tree.commit
        /\ version' <= update.to /\ (version' # 0 => version' = update.to)
        /\ update.start.stack.image = update.start.tree.commit
    BY <1>0, <2>1, Numbers DEF CommitInv, Ahead, Between
  <2>4. CommitInv'
    BY <2>1, <2>3 DEF CommitInv, Between, Ahead, Tagged, KeepsMemory, Remembers
  <2> QED
    BY <2>1, <2>2, <2>4 DEF KeepsMemory, Remembers
<1> QED
  BY <1>1, <1>2, <1>3, <1>4, <1>5, <1>6, <1>7, <1>8, <1>9, <1>10

(* A step that fails, and a step back.                                     *)
LEMMA BackHarmless ==
  ASSUME ComposeTypeOK, Busy,
         \/ Failure
         \/ (UndoSettings \/ UndoTree \/ UndoTags \/ UndoStack) /\ UNCHANGED count
  PROVE  Busy'
<1>0. /\ update \in Updating /\ update.at # "idle" /\ UndoInv /\ CommitInv
      /\ tree \in Tree /\ update.start.tree \in Tree /\ update.start.stack \in Stack
      /\ count.fails \in 0..MaxFailures
  BY TreeTypes DEF ComposeTypeOK, Busy
<1> USE DEF Busy, UpdateAt, Undone
<1>s. ASSUME NEW at \in Places, Skipped(at), UNCHANGED count PROVE FALSE
  <2>1. count' = [count EXCEPT !.fails = @ + 1, !.damaged = TRUE]
    BY <1>s DEF Skipped
  <2>2. count.fails = count.fails + 1
    BY <1>s, <2>1 DEF ComposeTypeOK
  <2> QED
    BY <1>0, <2>2
<1>1. CASE Failure
  <2>1. /\ update.at \in {"fetch", "protect", "checkout", "check", "prune", "images",
                          "cancel", "recreate", "record"}
        /\ Remembers(IF update.op = "service" THEN "undo_tags" ELSE "undo_settings")
        /\ update'.patch = update.patch
        /\ update'.checkedOut = (update.checkedOut \/ update.at = "checkout")
        /\ update'.pruned = (update.pruned \/ update.at = "prune")
        /\ update'.touched = (update.touched \/ update.at = "images")
        /\ update'.attempted = update.attempted
        /\ UNCHANGED <<upstream, version>>
        /\ update.at # "checkout" => tree' = tree
        /\ update.at # "prune" => settings' = settings
        /\ update.at # "recreate" => stack' = stack
    BY <1>0, <1>1, FailureMemory
  <2>2. UndoInv'
    BY <1>0, <2>1 DEF UndoInv, Remembers
  <2>3. CommitInv'
    BY <1>0, <2>1 DEF CommitInv, Between, Ahead, Remembers
  <2> QED
    BY <2>1, <2>2, <2>3 DEF Remembers
<1>2. CASE UndoSettings /\ UNCHANGED count
  <2>1. /\ UNCHANGED <<upstream, tree, tag, stack, version>>
        /\ update.at = "undo_settings" /\ KeepsMemory("undo_tree")
        /\ settings' = IF update.pruned THEN update.start.settings ELSE settings
    BY <1>0, <1>2, <1>s, Memory DEF UndoSettings, Places, KeepsMemory
  <2>2. UndoInv'
    BY <1>0, <2>1 DEF UndoInv, KeepsMemory, Remembers
  <2>3. CommitInv'
    BY <1>0, <2>1 DEF CommitInv, Between, Ahead, KeepsMemory, Remembers
  <2> QED
    BY <2>1, <2>2, <2>3 DEF KeepsMemory, Remembers
<1>3. CASE UndoTree /\ UNCHANGED count
  <2>1. /\ UNCHANGED <<upstream, settings, tag, stack, version>>
        /\ update.at = "undo_tree" /\ KeepsMemory("undo_tags")
        /\ tree' = IF update.checkedOut
                   THEN [commit |-> update.start.tree.commit, local |-> update.patch]
                   ELSE tree
    BY <1>0, <1>3, <1>s, Memory DEF UndoTree, Places, KeepsMemory
  <2>2. update.start.tree = [commit |-> update.start.tree.commit,
                             local |-> update.start.tree.local]
    BY <1>0 DEF Tree
  <2>3. tree' = update.start.tree
    BY <1>0, <2>1, <2>2 DEF UndoInv
  <2>4. UndoInv'
    BY <1>0, <2>1, <2>3 DEF UndoInv, KeepsMemory, Remembers
  <2>5. CommitInv'
    BY <1>0, <2>1 DEF CommitInv, Between, Ahead, KeepsMemory, Remembers
  <2> QED
    BY <2>1, <2>4, <2>5 DEF KeepsMemory, Remembers
<1>4. CASE UndoTags /\ UNCHANGED count
  <2>1. /\ UNCHANGED <<upstream, tree, settings, stack, version>>
        /\ update.at = "undo_tags" /\ KeepsMemory("undo_stack")
        /\ tag' = IF update.touched THEN update.start.stack.image ELSE tag
    BY <1>0, <1>4, <1>s, Memory DEF UndoTags, Places, KeepsMemory
  <2>2. UndoInv'
    BY <1>0, <2>1 DEF UndoInv, KeepsMemory, Remembers
  <2>3. CommitInv'
    BY <1>0, <2>1 DEF CommitInv, Between, Ahead, KeepsMemory, Remembers
  <2> QED
    BY <2>1, <2>2, <2>3 DEF KeepsMemory, Remembers
<1>5. CASE UndoStack /\ UNCHANGED count
  <2>1. /\ UNCHANGED <<upstream, tree, settings, tag, version>>
        /\ update.at = "undo_stack" /\ KeepsMemory("failed")
        /\ stack' = IF update.attempted THEN Recreated ELSE stack
    BY <1>0, <1>5, <1>s, Memory DEF UndoStack, Places, KeepsMemory
  <2>2. update.start.stack = [image |-> update.start.stack.image,
                              running |-> update.start.stack.running]
    BY <1>0 DEF Stack
  <2>3. update.attempted => tag = update.start.stack.image
    BY <1>0, <2>1 DEF UndoInv
  <2>4. stack' = update.start.stack
    BY <1>0, <2>1, <2>2, <2>3 DEF UndoInv, Recreated
  <2>5. UndoInv'
    BY <1>0, <2>1, <2>4 DEF UndoInv, KeepsMemory, Remembers
  <2>6. CommitInv'
    BY <1>0, <2>1 DEF CommitInv, Between, Ahead, KeepsMemory, Remembers
  <2> QED
    BY <2>1, <2>5, <2>6 DEF KeepsMemory, Remembers
<1> QED
  BY <1>1, <1>2, <1>3, <1>4, <1>5

(* A call that ends leaves an app whose containers run what is checked out.*)
LEMMA EndHarmless ==
  ASSUME ComposeTypeOK, Busy, update.at \in {"save", "done", "failed"}
  PROVE  stack.image = tree.commit /\ Between(tree.commit)
BY DEF Busy, UndoInv, CommitInv, Undone, Ahead

LEMMA HarmlessStep ==
  ASSUME ComposeAssumption, ComposeTypeOK, KeepInv, HarmlessInv, ComposeNext
  PROVE  HarmlessInv'
<1> DEFINE Settled == stack.image = tree.commit /\ Between(tree.commit)
<1>h. ~count.damaged => IF update.at = "idle" THEN Settled ELSE Busy
  BY DEF HarmlessInv, Busy
<1>i. SUFFICES ~count'.damaged => IF update'.at = "idle" THEN Settled' ELSE Busy'
  BY DEF HarmlessInv, Busy
<1>0. /\ count \in Count /\ update \in Updating /\ IdleUpdate.at = "idle"
      /\ tree \in Tree /\ stack \in Stack
  BY Firsts DEF ComposeTypeOK, Count
<1>s. ASSUME NEW at \in Places, Skipped(at) PROVE count'.damaged
  BY <1>0, <1>s, CountSteps DEF Skipped
<1>1. CASE Push
  <2>1. /\ upstream' = upstream + 1
        /\ UNCHANGED <<tree, settings, tag, stack, version, update, count>>
    BY <1>1 DEF Push
  <2>2. \A c \in Nat : Between(c) => version' <= c /\ c <= upstream'
    BY <2>1, Numbers DEF Between
  <2>3. CASE update.at = "idle"
    BY <1>h, <2>1, <2>2, <2>3, Numbers DEF Between
  <2>4. CASE update.at # "idle"
    <3>1. Busy => UndoInv'
      BY <2>1 DEF Busy, UndoInv, Undone
    <3>2. Busy => CommitInv'
      BY <2>1, <2>2, Numbers DEF Busy, CommitInv, Between, Ahead, Tagged
    <3> QED
      BY <1>h, <2>1, <2>4, <3>1, <3>2 DEF Busy
  <2> QED
    BY <2>3, <2>4
<1>2. CASE StartOrStop
  <2>1. /\ UNCHANGED <<upstream, tree, version, update>> /\ update.at = "idle"
        /\ stack'.image = stack.image /\ count'.damaged = count.damaged
    BY <1>0, <1>2, CountSteps DEF StartOrStop, UpdateAt, Stack
  <2> QED
    BY <1>h, <2>1 DEF Between
<1>3. ASSUME NEW l \in Local, EditByHand(l)
      PROVE  ~count'.damaged => IF update'.at = "idle" THEN Settled' ELSE Busy'
  <2>1. /\ UNCHANGED <<upstream, stack, version, update>> /\ update.at = "idle"
        /\ tree'.commit = tree.commit /\ count'.damaged = count.damaged
    BY <1>0, <1>3, CountSteps DEF EditByHand, UpdateAt, Tree
  <2> QED
    BY <1>h, <2>1 DEF Between
<1>4. ASSUME NEW op \in {"upgrade", "rebuild", "rebuild_source", "service"}, Starts(op)
      PROVE  ~count'.damaged => IF update'.at = "idle" THEN Settled' ELSE Busy'
  <2>1. update.at = "idle" /\ count'.damaged = count.damaged
    BY <1>0, <1>4, CountSteps DEF Starts, UpdateAt
  <2>2. Settled => Busy'
    BY <1>4, StartsHarmless
  <2> QED
    BY <1>h, <2>1, <2>2 DEF Busy
<1>5. CASE \/ FetchSource \/ Protect \/ Checkout \/ CheckFiles \/ Prune \/ Images
           \/ NotCancelled \/ Recreate \/ Record \/ SaveVersion
  <2>1. update.at # "idle" /\ count' = count
    BY <1>5 DEF FetchSource, Protect, Checkout, CheckFiles, Prune, Images, NotCancelled,
                Recreate, Record, SaveVersion, UpdateAt
  <2>2. Busy => Busy'
    BY <1>5, ForwardHarmless
  <2> QED
    BY <1>h, <2>1, <2>2 DEF Busy
<1>6. CASE Failure
  <2>1. update.at # "idle" /\ count'.damaged = count.damaged
    BY <1>0, <1>6, CountSteps DEF Failure
  <2>2. Busy => Busy'
    BY <1>6, BackHarmless
  <2> QED
    BY <1>h, <2>1, <2>2 DEF Busy
<1>7. CASE UndoSettings \/ UndoTree \/ UndoTags \/ UndoStack
  <2>1. update.at # "idle" /\ (count' = count \/ count'.damaged)
    BY <1>7, <1>s DEF UndoSettings, UndoTree, UndoTags, UndoStack, UpdateAt, Places
  <2>2. Busy /\ count' = count => Busy'
    BY <1>7, BackHarmless
  <2> QED
    BY <1>h, <2>1, <2>2 DEF Busy
<1>8. CASE SaveFailure \/ Return
  <2>1. /\ update.at \in {"save", "done", "failed"} /\ update'.at = "idle"
        /\ UNCHANGED <<upstream, tree, stack, version>> /\ count'.damaged = count.damaged
    BY <1>0, <1>8, CountSteps DEF SaveFailure, Return, UpdateAt
  <2>2. Busy => Settled
    BY <2>1, EndHarmless
  <2> QED
    BY <1>h, <2>1, <2>2 DEF Between
<1>9. CASE DiesInUpdate
  BY <1>0, <1>9, CountSteps DEF DiesInUpdate
<1> QED
  BY <1>1, <1>2, <1>3, <1>4, <1>5, <1>6, <1>7, <1>8, <1>9 DEF ComposeNext

-----------------------------------------------------------------------------
(* Theorems                                                                *)

ComposeInv == ComposeTypeOK /\ KeepInv /\ HarmlessInv

LEMMA InitCompose ==
  ASSUME ComposeAssumption, ComposeInit
  PROVE  ComposeInv
<1>1. ComposeTypeOK
  BY Firsts DEF ComposeInit, ComposeTypeOK, Tree, Settings, Stack, Commits,
                ComposeAssumption
<1>2. KeepInv
  BY Firsts DEF ComposeInit, KeepInv, Covered
<1>3. HarmlessInv
  BY Firsts DEF ComposeInit, HarmlessInv, Between
<1> QED
  BY <1>1, <1>2, <1>3 DEF ComposeInv

LEMMA NextCompose ==
  ASSUME ComposeAssumption, ComposeInv, [ComposeNext]_composeVars
  PROVE  ComposeInv'
<1>1. ComposeTypeOK'
  BY TypeStep DEF ComposeInv
<1>2. CASE ComposeNext
  BY <1>1, <1>2, KeepStep, HarmlessStep DEF ComposeInv
<1>3. CASE UNCHANGED composeVars
  <2>1. KeepInv'
    BY <1>3 DEF composeVars, ComposeInv, KeepInv, Covered
  <2>2. UndoInv' = UndoInv /\ CommitInv' = CommitInv
    BY <1>3 DEF composeVars, UndoInv, CommitInv, Undone, Between, Ahead, Tagged
  <2>3. HarmlessInv'
    BY <1>3, <2>2 DEF composeVars, ComposeInv, HarmlessInv, Between
  <2> QED
    BY <1>1, <2>1, <2>3 DEF ComposeInv
<1> QED
  BY <1>2, <1>3

(* The state of an update, of the app and of what was put aside stays well *)
(* typed, for any commits, calls, changes by hand and failures.            *)
THEOREM ComposeTypeCorrect ==
  ASSUME ComposeAssumption
  PROVE  ComposeSpec => []ComposeTypeOK
<1>1. ComposeInit => ComposeInv
  BY InitCompose
<1>2. ComposeInv /\ [ComposeNext]_composeVars => ComposeInv'
  BY NextCompose
<1>3. ComposeInv => ComposeTypeOK
  BY DEF ComposeInv
<1> QED
  BY <1>1, <1>2, <1>3, PTL DEF ComposeSpec

(* compose_update: an update that fails and is rolled back leaves the app  *)
(* as it was, one that succeeds runs the commit it checked out, and no     *)
(* change by hand and no settings are lost at any step.                    *)
THEOREM UpdateHarmless ==
  ASSUME ComposeAssumption
  PROVE  ComposeSpec => UpdateIsHarmless
<1>1. ComposeInit => ComposeInv
  BY InitCompose
<1>2. ComposeInv /\ [ComposeNext]_composeVars => ComposeInv'
  BY NextCompose
<1>3. ASSUME ComposeInv PROVE AllOrNothing
  <2>1. CASE update.at = "failed" /\ ~count.damaged
    <3>1. /\ tree = update.start.tree /\ settings = update.start.settings
          /\ stack = update.start.stack /\ update.start \in Stand
      BY <1>3, <2>1, TreeTypes DEF ComposeInv, HarmlessInv, UndoInv, Undone
    <3>2. Now = update.start
      BY <3>1 DEF Now, Stand
    <3> QED
      BY <2>1, <3>2 DEF AllOrNothing, FailureIsHarmless, TakesEffect, UpdateAt
  <2>2. CASE update.at = "done" /\ ~count.damaged
    BY <1>3, <2>2
    DEF ComposeInv, HarmlessInv, CommitInv, AllOrNothing, FailureIsHarmless, TakesEffect,
        UpdateAt
  <2>3. CASE update.at \notin {"failed", "done"} \/ count.damaged
    BY <2>3 DEF AllOrNothing, FailureIsHarmless, TakesEffect, UpdateAt
  <2> QED
    BY <2>1, <2>2, <2>3
<1>4. ASSUME ComposeInv, [ComposeNext]_composeVars
      PROVE  [/\ tree.local \subseteq tree'.local \cup kept'
              /\ kept \subseteq tree'.local \cup kept'
              /\ settings'.override = "full" \/ settings'.orphaned = "some"]_composeVars
  <2>1. CASE ComposeNext
    BY <1>4, <2>1, KeepStep DEF ComposeInv, Lossless, Covered
  <2>2. CASE UNCHANGED composeVars
    BY <2>2
  <2> QED
    BY <1>4, <2>1, <2>2
<1> QED
  BY <1>1, <1>2, <1>3, <1>4, PTL DEF ComposeSpec, UpdateIsHarmless, NothingLost

-----------------------------------------------------------------------------
(* Health checks: no flip of a server is lost                              *)

(* Types.  What the registry becomes is made of entries.                   *)
LEMMA HealthEntries ==
  ASSUME HealthAssumption, HealthTypeOK
  PROVE  /\ NoEntry \in Entry /\ Due \in [Servers -> Entry]
         /\ \A s \in Servers : Recorded(s) \in Entry
         /\ Probed \subseteq Servers /\ Rendered \subseteq Servers
         /\ \A who \in {"request", "loop"} : \A servers \in SUBSET Servers :
              Resolved(who, servers) \in [who : {"nobody", "request", "loop"},
                                          servers : SUBSET Servers, down : SUBSET Servers]
<1> USE DEF HealthTypeOK
<1>0. Fails \in Nat /\ Fails # 0 /\ Passes \in Nat /\ Passes # 0
  BY DEF HealthAssumption
<1>1. NoEntry \in Entry
  BY <1>0 DEF NoEntry, Entry, Kinds
<1>2. ASSUME NEW s \in Servers
      PROVE  Due[s] \in Entry
  <2>1. registry[s] \in Entry /\ (s \in Probed => site.check \in Kinds)
    BY DEF Probed
  <2>2. s \in Probed => [NoEntry EXCEPT !.known = TRUE, !.check = site.check] \in Entry
    BY <2>1, <1>1 DEF Entry
  <2>3. s \in Probed =>
          [registry[s] EXCEPT !.check = site.check, !.fails = 0, !.passes = 0] \in Entry
    <3>1. PICK e \in Entry : e = registry[s]
      BY <2>1
    <3>2. 0 \in 0..Fails /\ 0 \in 0..Passes
      BY <1>0
    <3>3. \A check \in Kinds :
            [e EXCEPT !.check = check, !.fails = 0, !.passes = 0] \in Entry
      BY <3>2 DEF Entry
    <3> QED
      BY <2>1, <3>1, <3>3
  <2> QED
    BY <1>1, <2>1, <2>2, <2>3 DEF Due
<1>3. ASSUME NEW s \in Servers
      PROVE  Recorded(s) \in Entry
  <2>1. PICK e \in Entry : e = registry[s]
    OBVIOUS
  <2>2. UpTo(Passes, e.passes + 1) \in 0..Passes /\ UpTo(Fails, e.fails + 1) \in 0..Fails
    BY <1>0 DEF UpTo, Entry
  <2>3. Passed(e) \in Entry
    <3>1. 0 \in 0..Fails /\ (e.healthy \/ ~e.checked \/ e.passes + 1 >= Passes) \in BOOLEAN
      BY <1>0
    <3> QED
      BY <2>2, <3>1 DEF Passed, Entry
  <2>4. Failed(e) \in Entry
    <3>1. 0 \in 0..Passes /\ (e.healthy /\ e.fails + 1 < Fails) \in BOOLEAN
      BY <1>0 DEF Entry
    <3> QED
      BY <2>2, <3>1 DEF Failed, Entry
  <2> QED
    BY <2>1, <2>3, <2>4 DEF Recorded
<1>4. Probed \subseteq Servers /\ Rendered \subseteq Servers
  BY DEF Probed, Rendered, Mask
<1>5. \A who \in {"request", "loop"} : \A servers \in SUBSET Servers :
        Resolved(who, servers) \in [who : {"nobody", "request", "loop"},
                                    servers : SUBSET Servers, down : SUBSET Servers]
  BY DEF Resolved, Down
<1> QED
  BY <1>1, <1>2, <1>3, <1>4, <1>5 DEF Due

LEMMA HealthTypeStep ==
  ASSUME HealthAssumption, HealthTypeOK, [HealthNext]_healthVars
  PROVE  HealthTypeOK'
<1> USE HealthEntries DEF HealthTypeOK
<1>1. Nobody \in [who : {"nobody", "request", "loop"}, servers : SUBSET Servers,
                  down : SUBSET Servers] /\ FreshLoop \in Loop
  BY DEF Nobody, FreshLoop, Loop
<1>2. CASE Scan
  BY <1>2 DEF Scan, Loop
<1>3. CASE \E s \in Servers : ProbeReports(s)
  <2>1. PICK s \in Servers : ProbeReports(s)
    BY <1>3
  <2>2. loop' \in Loop
    BY <2>1 DEF ProbeReports, Loop, IsDown, Recorded, Passed, Failed
  <2> QED
    BY <2>1, <2>2 DEF ProbeReports
<1>4. CASE Join \/ TooSoon \/ Ripe
  BY <1>4 DEF Join, TooSoon, Ripe, StillPending, Loop
<1>5. CASE LoopResolves
  BY <1>5 DEF LoopResolves
<1>6. CASE LoopApplies
  BY <1>1, <1>6 DEF LoopApplies, Loop
<1>7. CASE RequestResolves
  <2>1. limits' \in [moves : 0..MaxMoves, requests : 0..MaxRequests,
                     restarts : 0..MaxRestarts]
    BY <1>7 DEF RequestResolves, HealthAssumption
  <2>2. site' \in [servers : SUBSET Servers, check : Kinds \cup {0}]
    BY <1>7 DEF RequestResolves
  <2>3. PICK servers \in SUBSET Servers : applying' = Resolved("request", servers)
    BY <1>7 DEF RequestResolves
  <2> QED
    BY <1>7, <2>1, <2>2, <2>3 DEF RequestResolves
<1>8. CASE RequestApplies
  BY <1>1, <1>8 DEF RequestApplies, Gone
<1>9. CASE \E s \in Servers : Move(s)
  <2>1. PICK s \in Servers : Move(s)
    BY <1>9
  <2>2. limits' \in [moves : 0..MaxMoves, requests : 0..MaxRequests,
                     restarts : 0..MaxRestarts]
    BY <2>1 DEF Move, HealthAssumption
  <2>3. alive' \subseteq Servers
    BY <2>1 DEF Move
  <2> QED
    BY <2>1, <2>2, <2>3 DEF Move
<1>10. CASE Restart
  <2>1. limits' \in [moves : 0..MaxMoves, requests : 0..MaxRequests,
                     restarts : 0..MaxRestarts]
    BY <1>10 DEF Restart, HealthAssumption
  <2> QED
    BY <1>1, <1>10, <2>1 DEF Restart
<1>11. CASE UNCHANGED healthVars
  BY <1>11 DEF healthVars
<1> QED
  BY <1>2, <1>3, <1>4, <1>5, <1>6, <1>7, <1>8, <1>9, <1>10, <1>11
  DEF HealthNext, LoopMoves

LEMMA HealthTypeInit ==
  ASSUME HealthAssumption, HealthInit
  PROVE  HealthTypeOK
<1>0. /\ Fails \in Nat /\ Passes \in Nat
      /\ MaxMoves \in Nat /\ MaxRequests \in Nat /\ MaxRestarts \in Nat
  BY DEF HealthAssumption
<1>1. NoEntry \in Entry
  BY <1>0 DEF NoEntry, Entry, Kinds
<1>2. FreshLoop \in Loop
  BY DEF FreshLoop, Loop
<1>3. limits \in [moves : 0..MaxMoves, requests : 0..MaxRequests,
                  restarts : 0..MaxRestarts]
  BY <1>0 DEF HealthInit
<1>4. registry \in [Servers -> Entry] /\ loop \in Loop
  BY <1>1, <1>2 DEF HealthInit
<1>5. site \in [servers : SUBSET Servers, check : Kinds \cup {0}]
  BY DEF HealthInit, Kinds
<1>6. /\ applying \in [who : {"nobody", "request", "loop"}, servers : SUBSET Servers,
                       down : SUBSET Servers]
      /\ alive \subseteq Servers /\ out \subseteq Servers /\ forgot \in BOOLEAN
  BY DEF HealthInit, Nobody
<1> QED
  BY <1>3, <1>4, <1>5, <1>6 DEF HealthTypeOK

(* The health loop, its registry and who holds the lock keep their shapes, *)
(* and the counters stop at what the check asks for: for any servers,      *)
(* thresholds, edits, moves and restarts.                                  *)
THEOREM HealthTypeCorrect ==
  ASSUME HealthAssumption
  PROVE  HealthSpec => []HealthTypeOK
<1>1. HealthInit => HealthTypeOK
  BY HealthTypeInit
<1>2. HealthTypeOK /\ [HealthNext]_healthVars => HealthTypeOK'
  BY HealthTypeStep
<1> QED
  BY <1>1, <1>2, PTL DEF HealthSpec

(* A server that is out has an entry, and so has one being probed.         *)
EntriesAreKnown ==
  /\ \A s \in Servers : IsDown(s) => registry[s].known
  /\ loop.at = "probe" => \A s \in loop.probing : registry[s].known

(* The lock: what the loop resolved stays true until it applied it; what a *)
(* request resolved does too, unless the loop owes an apply or an entry    *)
(* went, for a server the site does not have yet.                          *)
LockHolds ==
  /\ applying.who = "nobody" => applying = Nobody
  /\ applying.who = "loop" =>
       /\ loop.at = "apply" /\ applying.servers = site.servers
       /\ applying.down = Down(site.servers)
  /\ applying.who = "request" =>
       /\ LoopOwes \/ Gone \/ applying.down = Down(applying.servers)
       /\ \A s \in applying.down : registry[s].known \/ s \notin Probed

HealthInv == HealthTypeOK /\ EntriesAreKnown /\ LockHolds /\ NoFlipIsLost

(* A scan takes out of nobody's way but the entries nobody probes.         *)
LEMMA ScanKeepsDown ==
  ASSUME HealthAssumption, HealthTypeOK, EntriesAreKnown, Scan
  PROVE  \A s \in Servers :
           /\ registry'[s].known <=> s \in Probed
           /\ IsDown(s)' <=> IsDown(s) /\ s \in Probed
<1> SUFFICES ASSUME NEW s \in Servers
             PROVE  /\ registry'[s].known <=> s \in Probed
                    /\ IsDown(s)' <=> IsDown(s) /\ s \in Probed
  OBVIOUS
<1>1. registry'[s] = Due[s] /\ registry[s] \in Entry
  BY DEF Scan, HealthTypeOK
<1>2. CASE s \notin Probed
  BY <1>1, <1>2 DEF Due, NoEntry, IsDown
<1>3. CASE s \in Probed /\ ~registry[s].known
  BY <1>1, <1>3 DEF Due, NoEntry, IsDown, EntriesAreKnown
<1>4. CASE s \in Probed /\ registry[s].known
  <2>1. Due[s] = registry[s] \/
          Due[s] = [registry[s] EXCEPT !.check = site.check, !.fails = 0, !.passes = 0]
    BY <1>4 DEF Due
  <2>2. /\ Due[s].known = registry[s].known /\ Due[s].checked = registry[s].checked
        /\ Due[s].healthy = registry[s].healthy
    BY <1>1, <2>1 DEF Entry
  <2> QED
    BY <1>1, <1>4, <2>2 DEF Entry, IsDown
<1> QED
  BY <1>2, <1>3, <1>4

(* A report that is no flip leaves the server where it was.                *)
LEMMA ReportsFlip ==
  ASSUME HealthAssumption, HealthTypeOK, NEW t \in Servers, ProbeReports(t)
  PROVE  /\ \A s \in Servers : registry'[s].known = registry[s].known
         /\ \A s \in Servers : s # t => IsDown(s)' = IsDown(s)
         /\ loop.at = "probe" /\ loop'.at = "probe"
         /\ loop'.flipped \/ IsDown(t)' = IsDown(t)
         /\ loop'.pending = loop.pending /\ (loop.flipped => loop'.flipped)
         /\ loop'.probing \subseteq loop.probing
<1>1. PICK e \in Entry : e = registry[t]
  BY DEF HealthTypeOK
<1>2. /\ Recorded(t).known = e.known /\ Recorded(t).checked
      /\ Recorded(t) \in Entry
  BY <1>1, HealthEntries DEF Recorded, Passed, Failed, Entry
<1>3. /\ registry'[t] = Recorded(t)
      /\ \A s \in Servers : s # t => registry'[s] = registry[s]
  BY DEF ProbeReports, HealthTypeOK
<1>4. /\ loop'.at = loop.at /\ loop'.pending = loop.pending
      /\ loop'.probing = loop.probing \ {t}
      /\ loop'.flipped = (loop.flipped \/ (IsDown(t) # (~Recorded(t).healthy)))
      /\ loop.at = "probe"
  BY DEF ProbeReports, HealthTypeOK, Loop
<1>5. IsDown(t)' = ~Recorded(t).healthy
  BY <1>2, <1>3 DEF IsDown
<1> QED
  BY <1>1, <1>2, <1>3, <1>4, <1>5 DEF IsDown

LEMMA HealthStep ==
  ASSUME HealthAssumption, HealthInv, [HealthNext]_healthVars
  PROVE  EntriesAreKnown' /\ LockHolds' /\ NoFlipIsLost'
<1> USE DEF HealthInv
<1>1. CASE Scan
  <2>1. /\ UNCHANGED <<site, out, applying, forgot>>
        /\ loop'.at = "probe" /\ loop'.probing = Probed /\ loop.at = "scan"
        /\ loop'.pending = loop.pending /\ loop'.flipped = loop.flipped
    BY <1>1 DEF Scan, HealthTypeOK, Loop
  <2>2. Probed' = Probed /\ Probed \subseteq Servers
    BY <2>1, HealthEntries DEF Probed
  <2>3. \A s \in Servers : /\ registry'[s].known <=> s \in Probed
                           /\ IsDown(s)' <=> IsDown(s) /\ s \in Probed
    BY <1>1, ScanKeepsDown
  <2>4. EntriesAreKnown'
    BY <2>1, <2>2, <2>3 DEF EntriesAreKnown
  <2>5. LoopOwes => LoopOwes'
    BY <2>1 DEF LoopOwes
  <2>6. applying.down \subseteq Servers /\ applying.servers \subseteq Servers
    BY DEF HealthTypeOK
  <2>7. ASSUME applying.who = "request"
        PROVE  /\ LoopOwes' \/ Gone' \/ applying'.down = Down(applying.servers)'
               /\ \A s \in applying'.down : registry'[s].known \/ s \notin Probed'
    <3>1. Gone => Gone'
      BY <2>1, <2>2, <2>3, <2>6, <2>7 DEF Gone, LockHolds
    <3>2. applying.down = Down(applying.servers) =>
            Gone' \/ applying'.down = Down(applying.servers)'
      <4>1. CASE \E s \in applying.down : s \notin Probed
        BY <2>1, <2>3, <2>6, <4>1 DEF Gone
      <4>2. CASE applying.down \subseteq Probed
        <5>1. Down(applying.servers)' = {s \in applying.servers : IsDown(s)'}
          BY <2>1 DEF Down
        <5> QED
          BY <2>1, <2>3, <2>6, <4>2, <5>1 DEF Down
      <4> QED
        BY <4>1, <4>2
    <3> QED
      BY <2>1, <2>2, <2>3, <2>5, <2>6, <2>7, <3>1, <3>2 DEF LockHolds
  <2>8. LockHolds'
    BY <2>1, <2>7 DEF LockHolds, HealthTypeOK
  <2>9. site.check # 0 /\ OutAsProbed => OutAsProbed'
    <3>1. ASSUME site.check # 0
          PROVE  Down(site.servers)' = Down(site.servers)
      BY <2>1, <2>2, <2>3, <3>1 DEF Down, Probed
    <3> QED
      BY <2>1, <3>1 DEF OutAsProbed, Mask
  <2> QED
    BY <2>1, <2>4, <2>5, <2>8, <2>9 DEF NoFlipIsLost
<1>2. CASE \E t \in Servers : ProbeReports(t)
  <2>1. PICK t \in Servers : ProbeReports(t)
    BY <1>2
  <2>2. UNCHANGED <<site, out, applying, forgot>>
    BY <2>1 DEF ProbeReports
  <2>3. /\ \A s \in Servers : registry'[s].known = registry[s].known
        /\ \A s \in Servers : s # t => IsDown(s)' = IsDown(s)
        /\ loop.at = "probe" /\ loop'.at = "probe"
        /\ loop'.flipped \/ IsDown(t)' = IsDown(t)
        /\ loop'.pending = loop.pending /\ (loop.flipped => loop'.flipped)
        /\ loop'.probing \subseteq loop.probing
    BY <2>1, ReportsFlip
  <2>4. t \in loop.probing /\ loop.probing \subseteq Servers
    BY <2>1 DEF ProbeReports, HealthTypeOK, Loop
  <2>5. EntriesAreKnown'
    BY <2>3, <2>4 DEF EntriesAreKnown
  <2>6. LoopOwes => LoopOwes'
    BY <2>3 DEF LoopOwes
  <2>7. LoopOwes' \/ \A s \in Servers : IsDown(s)' = IsDown(s)
    BY <2>3 DEF LoopOwes
  <2>8. /\ applying.down \subseteq Servers /\ applying.servers \subseteq Servers
        /\ site.servers \subseteq Servers
    BY DEF HealthTypeOK
  <2>9. /\ LoopOwes' \/ Down(applying.servers)' = Down(applying.servers)
        /\ LoopOwes' \/ Down(site.servers)' = Down(site.servers)
    BY <2>2, <2>7, <2>8 DEF Down
  <2>10. Probed' = Probed /\ (Gone => Gone')
    BY <2>2, <2>3, <2>8 DEF Probed, Gone
  <2>11. LockHolds'
    BY <2>2, <2>3, <2>6, <2>8, <2>9, <2>10 DEF LockHolds
  <2> QED
    BY <2>2, <2>5, <2>6, <2>9, <2>11 DEF NoFlipIsLost, OutAsProbed, Mask
<1>3. CASE Join \/ TooSoon \/ Ripe
  <2>1. UNCHANGED <<site, registry, out, applying, forgot>>
    BY <1>3 DEF Join, TooSoon, Ripe
  <2>2. /\ loop'.at # "probe" /\ loop.at # "apply"
        /\ LoopOwes => LoopOwes'
    <3> USE DEF LoopOwes, HealthTypeOK, Loop
    <3>1. CASE Join
      BY <3>1 DEF Join, StillPending
    <3>2. CASE TooSoon
      BY <3>2 DEF TooSoon
    <3>3. CASE Ripe
      BY <3>3 DEF Ripe
    <3> QED
      BY <1>3, <3>1, <3>2, <3>3
  <2> QED
    BY <2>1, <2>2
    DEF EntriesAreKnown, LockHolds, NoFlipIsLost, Gone, Down, IsDown, Probed, OutAsProbed, Mask
<1>4. CASE LoopResolves
  <2>1. /\ UNCHANGED <<site, registry, out, loop, forgot>>
        /\ loop.at = "apply" /\ applying' = Resolved("loop", site.servers)
    BY <1>4 DEF LoopResolves
  <2> QED
    BY <2>1 DEF EntriesAreKnown, LockHolds, NoFlipIsLost, Resolved, Down, IsDown, LoopOwes
<1>5. CASE LoopApplies
  <2>1. UNCHANGED <<site, registry>> /\ applying' = Nobody /\ loop'.at = "scan"
    BY <1>5 DEF LoopApplies, HealthTypeOK, Loop
  <2>2. ApplyFails \/ out' = Mask(site.servers, Down(site.servers))
    BY <1>5 DEF LoopApplies, LockHolds, Rendered
  <2>3. ApplyFails \/ OutAsProbed'
    BY <2>1, <2>2 DEF OutAsProbed, Mask, Down, IsDown
  <2> QED
    BY <2>1, <2>3 DEF EntriesAreKnown, LockHolds, NoFlipIsLost, Nobody, IsDown
<1>6. CASE RequestResolves
  <2>1. /\ UNCHANGED <<registry, out, loop, forgot>>
        /\ applying = Nobody
    BY <1>6 DEF RequestResolves
  <2>2. PICK servers \in SUBSET Servers : applying' = Resolved("request", servers)
    BY <1>6 DEF RequestResolves
  <2>3. /\ applying'.who = "request" /\ applying'.servers = servers
        /\ applying'.down = Down(servers)
    BY <2>2 DEF Resolved
  <2>4. Down(servers)' = Down(servers) /\ \A s \in Down(servers) : registry[s].known
    BY <2>1 DEF Down, IsDown, EntriesAreKnown
  <2>5. LockHolds'
    BY <2>1, <2>3, <2>4 DEF LockHolds, Down, IsDown
  <2>6. applying' # Nobody
    BY <2>3 DEF Nobody
  <2> QED
    BY <2>1, <2>5, <2>6 DEF EntriesAreKnown, NoFlipIsLost, IsDown
<1>7. CASE RequestApplies
  <2>1. /\ UNCHANGED <<registry, loop>> /\ applying.who = "request"
        /\ applying' = Nobody /\ forgot' = Gone
        /\ out' = Mask(applying.servers, applying.down)
        /\ site'.servers = applying.servers
    BY <1>7 DEF RequestApplies, Gone, Rendered, HealthTypeOK
  <2>2. (LoopOwes' <=> LoopOwes) /\ Down(applying.servers) = Down(site.servers)'
    BY <2>1 DEF LoopOwes, Down, IsDown
  <2>3. applying.down = Down(applying.servers) => OutAsProbed'
    BY <2>1, <2>2 DEF OutAsProbed, Mask
  <2>4. NoFlipIsLost'
    BY <2>1, <2>2, <2>3 DEF NoFlipIsLost, LockHolds
  <2> QED
    BY <2>1, <2>4 DEF EntriesAreKnown, LockHolds, Nobody, IsDown
<1>8. CASE UNCHANGED <<site, registry, out, applying, forgot, loop>>
  BY <1>8
  DEF EntriesAreKnown, LockHolds, NoFlipIsLost, LoopOwes, Gone, Down, IsDown, Probed,
      OutAsProbed, Mask
<1>9. CASE Restart
  <2>1. /\ \A s \in Servers : registry'[s] = NoEntry
        /\ loop' = FreshLoop /\ applying' = Nobody /\ out' = out /\ site' = site
        /\ forgot' = (out # {})
    BY <1>9 DEF Restart
  <2>2. \A s \in Servers : ~IsDown(s)'
    BY <2>1 DEF IsDown, NoEntry
  <2>3. Mask(site.servers, Down(site.servers))' = {}
    BY <2>1, <2>2 DEF Mask, Down, HealthTypeOK
  <2> QED
    BY <2>1, <2>2, <2>3
    DEF EntriesAreKnown, LockHolds, NoFlipIsLost, OutAsProbed, Nobody, FreshLoop
<1> QED
  BY <1>1, <1>2, <1>3, <1>4, <1>5, <1>6, <1>7, <1>8, <1>9
  DEF HealthNext, LoopMoves, Move, healthVars

(* A server that flips in or out of rotation gets there: what nginx leaves *)
(* out is what the registry says, or a re-apply is due or under way, unless*)
(* re-applies fail, the site has no check, or nginx was told of entries    *)
(* that are gone.  For any servers, thresholds, requests and restarts.     *)
THEOREM FlipsAreApplied ==
  ASSUME HealthAssumption
  PROVE  HealthSpec => []NoFlipIsLost
<1>1. HealthInit => HealthInv
  <2> SUFFICES ASSUME HealthInit
               PROVE  HealthInv
    OBVIOUS
  <2>1. HealthTypeOK
    BY HealthTypeInit
  <2>2. \A s \in Servers : ~IsDown(s)
    BY DEF HealthInit, IsDown, NoEntry
  <2>3. Down(site.servers) = {}
    BY <2>1, <2>2 DEF Down, HealthTypeOK
  <2> QED
    BY <2>1, <2>2, <2>3
    DEF HealthInit, HealthInv, EntriesAreKnown, LockHolds, NoFlipIsLost, OutAsProbed, Mask,
        Nobody, FreshLoop
<1>2. HealthInv /\ [HealthNext]_healthVars => HealthInv'
  BY HealthTypeStep, HealthStep DEF HealthInv
<1>3. HealthInv => NoFlipIsLost
  BY DEF HealthInv
<1> QED
  BY <1>1, <1>2, <1>3, PTL DEF HealthSpec
=============================================================================
