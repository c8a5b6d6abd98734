----------------------------- MODULE WireGuard ------------------------------
(***************************************************************************)
(* The WireGuard manager (src/src/daemon/wireguard/): the file of an       *)
(* interface and the tunnel that runs from it.  One lock serialises the    *)
(* changes; each is a file write and several commands, any of which may    *)
(* fail, and the daemon may die between two.                               *)
(*                                                                         *)
(* One interface is modelled: interfaces share only the check of their     *)
(* ports.  A configuration is what wg-quick owns (addresses, routes, DNS,  *)
(* hooks) and what `wg syncconf` can replace (keys, peers, port).          *)
(***************************************************************************)
EXTENDS Naturals

CONSTANTS
  Quick,       \* values of what wg-quick owns
  Sync,        \* values of what wg syncconf replaces
  LookFails,   \* `wg show interfaces` may fail
  UndoFails,   \* a step that puts things back may fail
  MaxChanges,  \* bound: requests, and tunnels moved by hand
  MaxMishaps   \* bound: commands that fail, and deaths

WireGuardAssumption ==
  /\ Quick \cup Sync \subseteq Nat \ {0} /\ {LookFails, UndoFails} \subseteq BOOLEAN
  /\ {MaxChanges, MaxMishaps} \subseteq Nat

VARIABLES
  file,      \* /etc/wireguard/<name>.conf
  tunnel,    \* what the running interface goes by
  enabled,   \* its unit comes up at boot
  change,    \* the request that holds the lock
  cut,       \* a death, or a failure on the way back, left the two apart
  trials     \* bounds: requests and failures so far

wireguardVars == <<file, tunnel, enabled, change, cut, trials>>

Config == [quick : Quick, sync : Sync]
NoConfig == [quick |-> 0, sync |-> 0]
Change ==
  [at : {"idle", "check", "write", "look", "apply", "restore", "again", "up", "fresh",
         "down", "delete"},
   kind : {"none", "new", "edit", "import", "up", "down", "remove"},
   new : Config \cup {NoConfig}, old : Config \cup {NoConfig},
   start : BOOLEAN, answer : {"none", "done", "refused"},
   before : [file : Config \cup {NoConfig}, tunnel : Config \cup {NoConfig},
             enabled : BOOLEAN]]
NoChange ==
  [at |-> "idle", kind |-> "none", new |-> NoConfig, old |-> NoConfig,
   start |-> FALSE, answer |-> "none",
   before |-> [file |-> NoConfig, tunnel |-> NoConfig, enabled |-> FALSE]]

WireGuardTypeOK ==
  /\ {file, tunnel} \subseteq Config \cup {NoConfig}
  /\ enabled \in BOOLEAN /\ cut \in BOOLEAN /\ change \in Change
  /\ trials \in [changes : 0..MaxChanges, fails : 0..MaxMishaps]

WireGuardInit ==
  /\ file = NoConfig /\ tunnel = NoConfig /\ enabled = FALSE /\ cut = FALSE
  /\ change = NoChange /\ trials = [changes |-> 0, fails |-> 0]

ChangeAt(at) == change.at = at
ChangeGoes(at) == change' = [change EXCEPT !.at = at]
AnswerChange(answer) == change' = [change EXCEPT !.at = "idle", !.answer = answer]
CommandWorks == UNCHANGED trials
StepFails == trials.fails < MaxMishaps /\ trials' = [trials EXCEPT !.fails = @ + 1]

-----------------------------------------------------------------------------
(* Requests: a new interface, an edit of it or of its peers, an import     *)
(* over it, its state, its removal.                                        *)

BeginChange(kind, at, new, old, start) ==
  /\ ChangeAt("idle") /\ trials.changes < MaxChanges
  /\ trials' = [trials EXCEPT !.changes = @ + 1]
  /\ change' = [at |-> at, kind |-> kind, new |-> new, old |-> old, start |-> start,
                answer |-> "none",
                before |-> [file |-> file, tunnel |-> tunnel, enabled |-> enabled]]
  /\ UNCHANGED <<file, tunnel, enabled, cut>>

RequestChange ==
  \/ \E new \in Config :
       \/ file = NoConfig /\ BeginChange("new", "check", new, NoConfig, TRUE)
       \/ file # NoConfig /\ BeginChange("edit", "check", new, file, FALSE)
       \/ \E start \in BOOLEAN : BeginChange("import", "check", new, NoConfig, start)
  \/ file # NoConfig /\ BeginChange("up", "up", NoConfig, file, TRUE)
  \/ file # NoConfig /\ BeginChange("down", "down", NoConfig, file, FALSE)
  \/ file # NoConfig /\ BeginChange("remove", "down", NoConfig, file, FALSE)

(* The tools keep working beside the daemon; so does a reboot.             *)
ByHand ==
  /\ ChangeAt("idle") /\ trials.changes < MaxChanges
  /\ trials' = [trials EXCEPT !.changes = @ + 1]
  /\ \/ tunnel # NoConfig /\ tunnel' = NoConfig
     \/ tunnel = NoConfig /\ file # NoConfig /\ tunnel' = file
  /\ cut' = FALSE
  /\ change' = NoChange
  /\ UNCHANGED <<file, enabled>>

-----------------------------------------------------------------------------
(* write_and_sync                                                          *)

(* wg-quick is asked about a candidate before the file is touched.         *)
CheckCandidate ==
  /\ ChangeAt("check")
  /\ \/ ChangeGoes("write") /\ CommandWorks
     \/ AnswerChange("refused") /\ StepFails
  /\ UNCHANGED <<file, tunnel, enabled, cut>>

WriteFile ==
  /\ ChangeAt("write")
  /\ \/ /\ file' = change.new
        /\ ChangeGoes("look") /\ CommandWorks
     \/ AnswerChange("refused") /\ StepFails /\ UNCHANGED file
  /\ UNCHANGED <<tunnel, enabled, cut>>

AfterWrite == IF change.start THEN ChangeGoes("up") ELSE AnswerChange("done")

(* Asking what runs may fail: the new file is in place by then.            *)
LookWhatRuns ==
  /\ ChangeAt("look")
  /\ \/ /\ IF tunnel = NoConfig THEN AfterWrite ELSE ChangeGoes("apply")
        /\ CommandWorks /\ UNCHANGED cut
     \/ /\ LookFails /\ StepFails /\ cut' = TRUE
        /\ AnswerChange("refused")
  /\ UNCHANGED <<file, tunnel, enabled>>

(* Mutant: what wg-quick owns is not looked at.                            *)
NeverRebuild == change.old = NoConfig
NeedsRebuild == change.old = NoConfig \/ change.old.quick # change.new.quick

(* A restart that fails has stopped the tunnel, or not even that.          *)
Restarted == tunnel' = file /\ cut' = FALSE
NotRestarted == tunnel' \in {tunnel, NoConfig} /\ cut' = (cut /\ tunnel' # NoConfig)

Apply ==
  /\ ChangeAt("apply")
  /\ \/ /\ IF NeedsRebuild THEN Restarted
           ELSE tunnel' = [tunnel EXCEPT !.sync = file.sync] /\ UNCHANGED cut
        /\ AfterWrite /\ CommandWorks
     \/ /\ IF NeedsRebuild THEN NotRestarted
           ELSE tunnel' \in {tunnel, [tunnel EXCEPT !.sync = file.sync]} /\ UNCHANGED cut
        /\ ChangeGoes("restore") /\ StepFails
  /\ UNCHANGED <<file, enabled>>

(* The way back: the previous file, written or not, and the tunnel.        *)
Restore ==
  /\ ChangeAt("restore")
  /\ \/ file' = change.before.file /\ CommandWorks
     \/ UndoFails /\ StepFails /\ UNCHANGED file
  /\ ChangeGoes("again")
  /\ UNCHANGED <<tunnel, enabled, cut>>
Again ==
  /\ ChangeAt("again")
  /\ \/ file # NoConfig /\ Restarted /\ CommandWorks
     \/ StepFails /\ tunnel' \in {tunnel, NoConfig} /\ cut' = (tunnel' # NoConfig)
     \/ file = NoConfig /\ tunnel' = NoConfig /\ cut' = FALSE /\ CommandWorks
  /\ AnswerChange("refused")
  /\ UNCHANGED <<file, enabled>>

-----------------------------------------------------------------------------
(* wg.up: the unit is enabled, and started unless the tunnel runs; one     *)
(* that does not start is disabled again.                                  *)
Up ==
  /\ ChangeAt("up")
  /\ \/ /\ enabled' = TRUE
        /\ IF tunnel = NoConfig THEN tunnel' = file /\ cut' = FALSE
                                ELSE UNCHANGED <<tunnel, cut>>
        /\ AnswerChange("done") /\ CommandWorks
     \/ /\ StepFails
        /\ \/ UNCHANGED enabled
           \/ enabled' = FALSE /\ tunnel = NoConfig
           \/ enabled' = TRUE /\ LookFails
           \/ enabled' = TRUE /\ tunnel = NoConfig /\ UndoFails
        /\ IF change.kind = "new" THEN ChangeGoes("fresh") ELSE AnswerChange("refused")
        /\ UNCHANGED <<tunnel, cut>>
  /\ UNCHANGED file

(* A new interface that does not come up is not kept.                      *)
Fresh ==
  /\ ChangeAt("fresh")
  /\ \/ file' = NoConfig /\ CommandWorks /\ UNCHANGED cut
     \/ StepFails /\ cut' = TRUE /\ UNCHANGED file
  /\ AnswerChange("refused")
  /\ UNCHANGED <<tunnel, enabled>>

(* wg.down: the unit's result is not looked at, wg-quick's is.             *)
Down ==
  /\ ChangeAt("down")
  /\ \/ /\ (enabled' = FALSE /\ CommandWorks) \/ (UNCHANGED enabled /\ StepFails)
        /\ tunnel' = NoConfig /\ cut' = FALSE
        /\ IF change.kind = "remove" THEN ChangeGoes("delete") ELSE AnswerChange("done")
     \/ /\ StepFails /\ AnswerChange("refused")
        /\ enabled' \in {enabled, FALSE} /\ UNCHANGED <<tunnel, cut>>
  /\ UNCHANGED file
Delete ==
  /\ ChangeAt("delete")
  /\ \/ file' = NoConfig /\ CommandWorks
     \/ StepFails /\ UNCHANGED file
  /\ AnswerChange("done")
  /\ UNCHANGED <<tunnel, enabled, cut>>

(* The daemon dies with the file and the tunnel wherever they are.         *)
DiesInChange ==
  /\ ~ChangeAt("idle") /\ StepFails
  /\ change' = NoChange
  /\ cut' = (cut \/ (tunnel # NoConfig /\ tunnel # file))
  /\ UNCHANGED <<file, tunnel, enabled>>

WireGuardNext ==
  \/ RequestChange \/ ByHand \/ CheckCandidate \/ WriteFile \/ LookWhatRuns \/ Apply
  \/ Restore \/ Again \/ Up \/ Fresh \/ Down \/ Delete \/ DiesInChange

WireGuardSpec == WireGuardInit /\ [][WireGuardNext]_wireguardVars

-----------------------------------------------------------------------------
(* Properties                                                              *)

(* "Brings a running interface in line": a tunnel goes by its file, wg-    *)
(* quick's part and wg's, whenever no request is at work.                  *)
InForce == ChangeAt("idle") /\ tunnel # NoConfig /\ ~cut => tunnel = file

(* "The previous configuration was restored": a change of an interface     *)
(* that was refused has changed nothing, except that the tunnel may be     *)
(* down; a new one leaves no file, and no unit that was not there.         *)
RefusedChangesNothing ==
  change.answer = "refused" /\ ~cut /\ change.kind \in {"new", "edit"} =>
    /\ file = change.before.file
    /\ tunnel \in {change.before.tunnel, change.before.file, NoConfig}
    /\ change.kind = "new" /\ enabled => change.before.enabled

TunnelsGoByTheirFiles == InForce /\ RefusedChangesNothing
=============================================================================
