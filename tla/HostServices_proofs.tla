------------------------- MODULE HostServices_proofs -------------------------
(***************************************************************************)
(* What runs on the host is what is written down: fail2ban and WireGuard   *)
(* tunnels; what an app writes to its console reaches every client once;   *)
(* a shell job that times out leaves nothing; and a file that a call       *)
(* reported as written is whole.  For any number of edits, requests,       *)
(* clients, processes, calls, failures and deaths.                         *)
(***************************************************************************)
EXTENDS Fail2ban, WireGuard, ConsoleHub, ShellJob, Files, Integers,
        SequenceTheorems, WellFoundedInduction, TLAPS

-----------------------------------------------------------------------------
(* fail2ban: the saved model, the file and the service agree               *)

(* Types                                                                   *)
LEMMA Fail2banTypeStep ==
  Fail2banAssumption /\ Fail2banTypeOK /\ [Fail2banNext]_fail2banVars => Fail2banTypeOK'
<1> SUFFICES ASSUME Fail2banAssumption, Fail2banTypeOK, [Fail2banNext]_fail2banVars
             PROVE  Fail2banTypeOK'
  OBVIOUS
<1> USE DEF Fail2banAssumption, Fail2banTypeOK, Model
<1>1. NoEdit \in Edit /\ Stopped \in [running : BOOLEAN, loaded : Model, bans : BOOLEAN]
  BY DEF NoEdit, Edit, Stopped
<1>2. \A at \in {"test", "back", "run", "look", "restart", "relook", "save", "note"} :
        [edit EXCEPT !.at = at] \in Edit
  BY DEF Edit
<1>3. Works \/ CommandFails => efforts' \in [edits : Model, fails : 0..MaxFaults]
  BY DEF Works, CommandFails
<1>4. CASE AskEdit
  <2>1. efforts' \in [edits : Model, fails : 0..MaxFaults] /\ edit' \in Edit
    BY <1>4 DEF AskEdit, Edit
  <2> QED
    BY <1>4, <2>1 DEF AskEdit
<1>5. CASE WriteConf
  BY <1>2, <1>3, <1>5 DEF WriteConf, EditGoes, Edit
<1>6. CASE Test
  BY <1>2, <1>3, <1>6 DEF Test, EditGoes
<1>7. CASE PutBack
  <2>1. edit.old \in Model
    BY DEF Edit
  <2> QED
    BY <1>2, <1>3, <1>7, <2>1 DEF PutBack, EditGoes
<1>8. CASE RunService
  <2>1. service' \in [running : BOOLEAN, loaded : Model, bans : BOOLEAN]
    BY <1>8 DEF RunService
  <2> QED
    BY <1>2, <1>3, <1>8, <2>1 DEF RunService, EditGoes
<1>9. CASE Look
  BY <1>2, <1>3, <1>9 DEF Look, EditGoes
<1>10. CASE RestartJails
  <2>1. service' \in [running : BOOLEAN, loaded : Model, bans : BOOLEAN]
    BY <1>1, <1>10 DEF RestartJails
  <2> QED
    BY <1>2, <1>3, <1>10, <2>1 DEF RestartJails, EditGoes
<1>11. CASE Relook
  <2>1. [edit EXCEPT !.at = "save", !.warning = ~service.bans] \in Edit
    BY DEF Edit
  <2> QED
    BY <1>2, <1>3, <1>11, <2>1 DEF Relook, EditGoes
<1>12. CASE SaveModel
  <2>1. [model |-> edit.new, error |-> edit.warning] \in [model : Model, error : BOOLEAN]
    BY DEF Edit
  <2> QED
    BY <1>1, <1>3, <1>12, <2>1 DEF SaveModel
<1>13. CASE Note
  BY <1>1, <1>3, <1>13 DEF Note
<1>14. CASE DiesInEdit
  BY <1>1, <1>3, <1>14 DEF DiesInEdit
<1>15. CASE HostStops \/ HostStarts
  <2>1. [running |-> TRUE, loaded |-> conf, bans |-> TRUE]
          \in [running : BOOLEAN, loaded : Model, bans : BOOLEAN]
    OBVIOUS
  <2> QED
    BY <1>1, <1>15, <2>1 DEF HostStops, HostStarts
<1>16. CASE UNCHANGED fail2banVars
  BY <1>16 DEF fail2banVars
<1> QED
  BY <1>4, <1>5, <1>6, <1>7, <1>8, <1>9, <1>10, <1>11, <1>12, <1>13, <1>14, <1>15, <1>16
  DEF Fail2banNext

(* Every variable keeps its type, whatever fails.                          *)
THEOREM Fail2banTypeCorrect ==
  ASSUME Fail2banAssumption
  PROVE  Fail2banSpec => []Fail2banTypeOK
<1>1. Fail2banInit => Fail2banTypeOK
  <2>1. 0 \in Model /\ 0 \in 0..MaxFaults
    BY DEF Fail2banAssumption, Model
  <2>2. Stopped \in [running : BOOLEAN, loaded : Model, bans : BOOLEAN] /\ NoEdit \in Edit
    BY <2>1 DEF Stopped, NoEdit, Edit
  <2>3. [running |-> TRUE, loaded |-> 0, bans |-> TRUE]
          \in [running : BOOLEAN, loaded : Model, bans : BOOLEAN]
    BY <2>1
  <2>4. /\ [model |-> 0, error |-> FALSE] \in [model : Model, error : BOOLEAN]
        /\ [edits |-> 0, fails |-> 0] \in [edits : Model, fails : 0..MaxFaults]
    BY <2>1
  <2> QED
    BY <2>1, <2>2, <2>3, <2>4, Zenon DEF Fail2banInit, Fail2banTypeOK
<1>2. Fail2banTypeOK /\ [Fail2banNext]_fail2banVars => Fail2banTypeOK'
  BY Fail2banTypeStep
<1> QED
  BY <1>1, <1>2, PTL DEF Fail2banSpec

-----------------------------------------------------------------------------
(* Bans                                                                    *)

(* What the service runs is what is saved, and what it lacks is reported.  *)
ServiceAgrees ==
  Running => service.loaded = saved.model /\ (service.bans \/ saved.error)

(* Where a request stands says which of the three still agree: before it   *)
(* runs the new file, the service is as it was saved; after, as the file.  *)
Untouched == {"idle", "write", "test", "back", "run", "note"}
Stands ==
  /\ edit.at = "write" => edit.old = conf
  /\ edit.at \in {"idle", "write", "note"} /\ ~apart => conf = saved.model
  /\ edit.at \in {"test", "back", "run"} /\ ~apart => edit.old = saved.model
  /\ edit.at \in Untouched /\ ~apart => ServiceAgrees
  /\ edit.at \in {"test", "run", "look", "restart", "relook", "save"} => conf = edit.new
  /\ edit.at \in {"look", "restart", "relook", "save"} => Running /\ service.loaded = conf
  /\ edit.at = "save" => service.bans \/ edit.warning

LEMMA InitStands == Fail2banInit => Stands
BY DEF Fail2banInit, Stands, ServiceAgrees, Running, Stopped, NoEdit

LEMMA NextStands ==
  Fail2banTypeOK /\ Stands /\ [Fail2banNext]_fail2banVars => Stands'
<1> SUFFICES ASSUME Fail2banTypeOK, Stands, [Fail2banNext]_fail2banVars PROVE Stands'
  OBVIOUS
<1> USE DEF Stands, ServiceAgrees, Running, Untouched, EditAt
<1>0. /\ service.running \in BOOLEAN /\ service.bans \in BOOLEAN /\ apart \in BOOLEAN
      /\ saved.error \in BOOLEAN /\ edit.warning \in BOOLEAN
  BY DEF Fail2banTypeOK, Edit
<1>1. ASSUME NEW at, EditGoes(at)
      PROVE  /\ edit'.at = at /\ edit'.new = edit.new /\ edit'.old = edit.old
             /\ edit'.warning = edit.warning
  BY <1>1 DEF EditGoes, Fail2banTypeOK, Edit
<1>2. CASE AskEdit
  BY <1>0, <1>2 DEF AskEdit
<1>3. CASE WriteConf
  <2>1. /\ edit.at = "write" /\ UNCHANGED <<saved, service, apart>>
        /\ edit'.new = edit.new /\ edit'.old = edit.old
        /\ (edit'.at = "test" /\ conf' = edit.new) \/ (edit'.at = "note" /\ conf' = conf)
    BY <1>1, <1>3 DEF WriteConf
  <2> QED
    BY <1>0, <2>1
<1>4. CASE Test
  <2>1. /\ edit.at = "test" /\ UNCHANGED <<saved, conf, service, apart>>
        /\ edit'.new = edit.new /\ edit'.old = edit.old
        /\ edit'.at = "run" \/ edit'.at = "back"
    BY <1>1, <1>4 DEF Test
  <2> QED
    BY <1>0, <2>1
<1>5. CASE PutBack
  <2>1. /\ edit.at = "back" /\ UNCHANGED <<saved, service>> /\ edit'.at = "note"
        /\ (conf' = edit.old /\ apart' = apart) \/ apart'
    BY <1>1, <1>5 DEF PutBack
  <2> QED
    BY <1>0, <2>1
<1>6. CASE RunService
  <2>1. edit.at = "run" /\ UNCHANGED <<saved, conf>> /\ edit'.new = edit.new
    BY <1>1, <1>6 DEF RunService
  <2>2. CASE edit'.at = "note" /\ apart' = TRUE
    BY <2>1, <2>2
  <2>3. CASE /\ service' \in [running : {TRUE}, loaded : {conf},
                              bans : IF Running THEN BOOLEAN ELSE {TRUE}]
             /\ edit'.at = IF Running THEN "look" ELSE "save"
    <3>1. /\ service'.running = TRUE /\ service'.loaded = conf
          /\ edit'.at = "look" \/ (edit'.at = "save" /\ service'.bans = TRUE)
      BY <1>0, <2>3
    <3> QED
      BY <2>1, <3>1
  <2> QED
    BY <1>1, <1>6, <2>2, <2>3 DEF RunService
<1>7. CASE Look
  <2>1. /\ edit.at = "look" /\ UNCHANGED <<saved, conf, service>>
        /\ edit'.new = edit.new
        /\ \/ edit'.at = "save" /\ service.bans
           \/ edit'.at = "restart"
           \/ edit'.at = "note" /\ apart' = TRUE
    BY <1>1, <1>7 DEF Look
  <2> QED
    BY <1>0, <2>1
<1>8. CASE RestartJails
  <2>1. edit.at = "restart" /\ UNCHANGED <<saved, conf>> /\ edit'.new = edit.new
    BY <1>1, <1>8 DEF RestartJails
  <2>2. \/ edit'.at = "note" /\ apart' = TRUE
        \/ edit'.at = "relook" /\ service'.running = TRUE /\ service'.loaded = conf
    BY <1>1, <1>8 DEF RestartJails
  <2> QED
    BY <2>1, <2>2
<1>9. CASE Relook
  <2>1. edit.at = "relook" /\ UNCHANGED <<saved, conf, service>> /\ edit'.new = edit.new
    BY <1>1, <1>9 DEF Relook, Fail2banTypeOK, Edit
  <2>2. \/ edit'.at = "note" /\ apart' = TRUE
        \/ edit'.at = "save" /\ edit'.warning = ~service.bans
    BY <1>1, <1>9 DEF Relook, Fail2banTypeOK, Edit
  <2> QED
    BY <1>0, <2>1, <2>2
<1>10. CASE SaveModel
  <2>1. edit.at = "save" /\ UNCHANGED <<conf, service>> /\ edit'.at = "idle"
    BY <1>10 DEF SaveModel, NoEdit
  <2>2. \/ saved'.model = edit.new /\ saved'.error = edit.warning
        \/ apart' = TRUE
    BY <1>10 DEF SaveModel
  <2> QED
    BY <1>0, <2>1, <2>2
<1>11. CASE Note
  <2>1. /\ edit.at = "note" /\ UNCHANGED <<conf, service, apart>> /\ edit'.at = "idle"
        /\ saved'.model = saved.model
        /\ saved'.error = saved.error \/ saved'.error = TRUE
    BY <1>11 DEF Note, NoEdit, Fail2banTypeOK
  <2> QED
    BY <1>0, <2>1
<1>12. CASE DiesInEdit
  BY <1>0, <1>12 DEF DiesInEdit, NoEdit
<1>13. CASE HostStops \/ HostStarts
  BY <1>0, <1>13 DEF HostStops, HostStarts, Stopped
<1>14. CASE UNCHANGED fail2banVars
  BY <1>14 DEF fail2banVars
<1> QED
  BY <1>2, <1>3, <1>4, <1>5, <1>6, <1>7, <1>8, <1>9, <1>10, <1>11, <1>12, <1>13, <1>14
  DEF Fail2banNext

(* Between requests the saved model, asc.local and the running service are *)
(* one and no jail runs silently without a ban action, unless a failure    *)
(* after the check of the file left them apart.                            *)
THEOREM BansInForce ==
  ASSUME Fail2banAssumption
  PROVE  Fail2banSpec => []BansAreInForce
<1>1. Stands => BansAreInForce
  BY DEF Stands, ServiceAgrees, Untouched, BansAreInForce, OneModel, NotHidden, EditAt
<1>2. Fail2banSpec => []Fail2banTypeOK
  BY Fail2banTypeCorrect
<1> QED
  BY <1>1, <1>2, InitStands, NextStands, PTL DEF Fail2banSpec

-----------------------------------------------------------------------------
(* WireGuard: a tunnel goes by its file                                    *)

(* A tunnel that was not left apart goes by the file f.                    *)
GoesBy(f) == tunnel # NoConfig /\ ~cut => tunnel = f

(* Where a request stands says which file the tunnel goes by: the one from *)
(* before it until the new one is put in force.  Nothing runs without a    *)
(* file, so a new interface finds no tunnel.                               *)
InLine ==
  /\ tunnel # NoConfig => file # NoConfig
  /\ change.at \in {"check", "write", "look", "apply"} =>
       change.new \in Config /\ change.old \in {NoConfig, change.before.file}
  /\ change.at \in {"check", "write"} => file = change.before.file
  /\ change.at \in {"look", "apply"} =>
       /\ file = change.new
       /\ GoesBy(change.before.file)
       /\ tunnel # NoConfig => change.before.file # NoConfig
  /\ change.at = "apply" => tunnel # NoConfig
  /\ change.at \in {"restore", "again"} => NoConfig \notin {file, change.before.file}
  /\ change.at \in {"idle", "check", "write", "up", "down", "delete"} => GoesBy(file)
  /\ change.at = "delete" => tunnel = NoConfig
  /\ change.at = "fresh" => change.kind = "new"
  /\ change.kind = "new" /\ change.at # "idle" => tunnel = NoConfig

(* The record of a request changes only where a step says so.              *)
SameRequest ==
  /\ change'.kind = change.kind /\ change'.new = change.new /\ change'.old = change.old
  /\ change'.start = change.start /\ change'.before = change.before

LEMMA ChangeSteps ==
  ASSUME change \in Change
  PROVE  /\ \A at \in {"write", "look", "apply", "restore", "again", "up", "fresh", "delete"} :
              ChangeGoes(at) => /\ change' \in Change /\ SameRequest
                                /\ change'.at = at /\ change'.answer = change.answer
         /\ \A answer \in {"done", "refused"} :
              AnswerChange(answer) => /\ change' \in Change /\ SameRequest
                                      /\ change'.at = "idle" /\ change'.answer = answer
<1>1. \A at \in {"write", "look", "apply", "restore", "again", "up", "fresh", "delete"} :
        ChangeGoes(at) => /\ change' \in Change /\ SameRequest
                          /\ change'.at = at /\ change'.answer = change.answer
  BY DEF Change, ChangeGoes, SameRequest
<1>2. \A answer \in {"done", "refused"} :
        AnswerChange(answer) => /\ change' \in Change /\ SameRequest
                                /\ change'.at = "idle" /\ change'.answer = answer
  <2>1. SUFFICES ASSUME NEW answer \in {"done", "refused"}, AnswerChange(answer)
                 PROVE  /\ change' \in Change /\ SameRequest
                        /\ change'.at = "idle" /\ change'.answer = answer
    OBVIOUS
  <2>2. change' \in Change
    BY <2>1 DEF Change, AnswerChange
  <2>3. SameRequest /\ change'.at = "idle" /\ change'.answer = answer
    BY <2>1 DEF Change, AnswerChange, SameRequest
  <2> QED
    BY <2>2, <2>3
<1> QED
  BY <1>1, <1>2

LEMMA Values ==
  ASSUME WireGuardAssumption
  PROVE  /\ NoConfig \notin Config /\ NoConfig.quick = 0 /\ NoConfig.sync = 0
         /\ NoChange \in Change /\ NoChange.at = "idle" /\ NoChange.kind = "none"
         /\ NoChange.answer = "none"
         /\ \A c, d \in Config : /\ [c EXCEPT !.sync = d.sync] \in Config
                                 /\ c.quick = d.quick => [c EXCEPT !.sync = d.sync] = d
<1>1. 0 \notin Quick
  BY DEF WireGuardAssumption
<1>2. NoConfig \notin Config /\ NoConfig.quick = 0 /\ NoConfig.sync = 0
  BY <1>1 DEF NoConfig, Config
<1>3. /\ NoChange \in Change /\ NoChange.at = "idle" /\ NoChange.kind = "none"
      /\ NoChange.answer = "none"
  BY DEF NoChange, Change
<1>4. \A c, d \in Config : /\ [c EXCEPT !.sync = d.sync] \in Config
                           /\ c.quick = d.quick => [c EXCEPT !.sync = d.sync] = d
  BY DEF Config
<1> QED
  BY <1>2, <1>3, <1>4

LEMMA TrialSteps ==
  ASSUME WireGuardAssumption, trials \in [changes : 0..MaxChanges, fails : 0..MaxMishaps]
  PROVE  /\ CommandWorks \/ StepFails =>
              trials' \in [changes : 0..MaxChanges, fails : 0..MaxMishaps]
         /\ trials.changes < MaxChanges /\ trials' = [trials EXCEPT !.changes = @ + 1] =>
              trials' \in [changes : 0..MaxChanges, fails : 0..MaxMishaps]
BY DEF CommandWorks, StepFails, WireGuardAssumption

WgInv == WireGuardTypeOK /\ InLine

LEMMA InitInLine == WireGuardAssumption /\ WireGuardInit => WgInv
<1> SUFFICES ASSUME WireGuardAssumption, WireGuardInit PROVE WgInv
  OBVIOUS
<1>1. 0 \in 0..MaxChanges /\ 0 \in 0..MaxMishaps
  BY DEF WireGuardAssumption
<1>2. WireGuardTypeOK
  BY <1>1, Values DEF WireGuardInit, WireGuardTypeOK
<1>3. InLine
  BY Values DEF WireGuardInit, InLine, GoesBy
<1> QED
  BY <1>2, <1>3 DEF WgInv

(* A request starts from what the interface is.                            *)
LEMMA RequestInLine ==
  ASSUME WireGuardAssumption, WgInv, RequestChange
  PROVE  WgInv'
<1>1. PICK kind \in {"new", "edit", "import", "up", "down", "remove"},
           at \in {"check", "up", "down"},
           new \in Config \cup {NoConfig}, old \in {NoConfig, file}, start \in BOOLEAN :
        /\ BeginChange(kind, at, new, old, start)
        /\ kind = "new" => file = NoConfig
        /\ at = "check" => new \in Config
  BY DEF RequestChange
<1>2. /\ change.at = "idle" /\ UNCHANGED <<file, tunnel, enabled, cut>>
      /\ change' = [at |-> at, kind |-> kind, new |-> new, old |-> old, start |-> start,
                    answer |-> "none",
                    before |-> [file |-> file, tunnel |-> tunnel, enabled |-> enabled]]
  BY <1>1 DEF BeginChange, ChangeAt
<1>3. file \in Config \cup {NoConfig} /\ tunnel \in Config \cup {NoConfig} /\ enabled \in BOOLEAN
  BY DEF WgInv, WireGuardTypeOK
<1>4. change' \in Change
  BY <1>2, <1>3 DEF Change
<1>5. /\ change'.at = at /\ change'.kind = kind /\ change'.new = new
      /\ change'.before.file = file
  BY <1>2
<1>6. WireGuardTypeOK'
  BY <1>1, <1>2, <1>4, TrialSteps DEF WgInv, WireGuardTypeOK, BeginChange
<1>7. InLine'
  BY <1>1, <1>2, <1>5 DEF WgInv, InLine, GoesBy
<1> QED
  BY <1>6, <1>7 DEF WgInv

(* A death, and the tools beside the daemon, leave no request.             *)
LEMMA AsideInLine ==
  ASSUME WireGuardAssumption, WgInv, ByHand \/ DiesInChange
  PROVE  WgInv'
<1>1. /\ change' = NoChange /\ UNCHANGED <<file, enabled>>
      /\ tunnel' \in {tunnel, NoConfig} \/ tunnel' = file
      /\ tunnel' # NoConfig => file # NoConfig
      /\ cut' \in BOOLEAN /\ (tunnel' # NoConfig /\ ~cut' => tunnel' = file)
  BY DEF ByHand, DiesInChange, ChangeAt, WgInv, WireGuardTypeOK, InLine, GoesBy
<1>2. trials' \in [changes : 0..MaxChanges, fails : 0..MaxMishaps]
  BY TrialSteps DEF ByHand, DiesInChange, WgInv, WireGuardTypeOK
<1>3. WireGuardTypeOK'
  BY <1>1, <1>2, Values DEF WgInv, WireGuardTypeOK
<1>4. InLine'
  BY <1>1, Values DEF InLine, GoesBy
<1> QED
  BY <1>3, <1>4 DEF WgInv

LEMMA WriteInLine ==
  ASSUME WireGuardAssumption, WgInv, CheckCandidate \/ WriteFile \/ LookWhatRuns
  PROVE  WgInv'
<1> USE DEF WgInv, WireGuardTypeOK
<1>1. trials' \in [changes : 0..MaxChanges, fails : 0..MaxMishaps]
  BY TrialSteps DEF CheckCandidate, WriteFile, LookWhatRuns
<1>2. CASE CheckCandidate
  <2>1. /\ change.at = "check" /\ UNCHANGED <<file, tunnel, enabled, cut>>
        /\ change' \in Change /\ SameRequest /\ change'.at \in {"write", "idle"}
    BY <1>2, ChangeSteps DEF CheckCandidate, ChangeAt
  <2> QED
    BY <1>1, <2>1 DEF InLine, GoesBy, SameRequest
<1>3. CASE WriteFile
  <2>1. /\ change.at = "write" /\ UNCHANGED <<tunnel, enabled, cut>>
        /\ change' \in Change /\ SameRequest
        /\ \/ change'.at = "look" /\ file' = change.new
           \/ change'.at = "idle" /\ file' = file
    BY <1>3, ChangeSteps DEF WriteFile, ChangeAt
  <2>2. change.new \in Config /\ file = change.before.file
    BY <2>1 DEF InLine
  <2> QED
    BY <1>1, <2>1, <2>2, Values DEF InLine, GoesBy, SameRequest
<1>4. CASE LookWhatRuns
  <2>1. /\ change.at = "look" /\ UNCHANGED <<file, tunnel, enabled>>
        /\ change' \in Change /\ SameRequest /\ cut' \in BOOLEAN
        /\ \/ change'.at \in {"up", "idle"} /\ tunnel = NoConfig
           \/ change'.at = "apply" /\ tunnel # NoConfig /\ cut' = cut
           \/ change'.at = "idle" /\ cut' = TRUE
    BY <1>4, ChangeSteps DEF LookWhatRuns, AfterWrite, ChangeAt
  <2> QED
    BY <1>1, <2>1 DEF InLine, GoesBy, SameRequest
<1> QED
  BY <1>2, <1>3, <1>4

LEMMA ApplyInLine ==
  ASSUME WireGuardAssumption, WgInv, Apply \/ Restore \/ Again
  PROVE  WgInv'
<1> USE DEF WgInv, WireGuardTypeOK
<1>1. trials' \in [changes : 0..MaxChanges, fails : 0..MaxMishaps]
  BY TrialSteps DEF Apply, Restore, Again
<1>2. CASE Apply
  <2>1. change.at = "apply" /\ UNCHANGED <<file, enabled>>
    BY <1>2 DEF Apply, ChangeAt
  <2>2. /\ file = change.new /\ file \in Config /\ tunnel \in Config
        /\ NoConfig # change.before.file /\ change.kind # "new"
        /\ change.old \in {NoConfig, change.before.file} /\ GoesBy(change.before.file)
    BY <2>1 DEF InLine
  <2>3. [tunnel EXCEPT !.sync = file.sync] \in Config
    BY <2>2, Values
  <2>4. CASE /\ IF NeedsRebuild THEN Restarted
                ELSE tunnel' = [tunnel EXCEPT !.sync = file.sync] /\ UNCHANGED cut
             /\ AfterWrite
    <3>1. change' \in Change /\ SameRequest /\ change'.at \in {"up", "idle"}
      BY <2>4, ChangeSteps DEF AfterWrite
    <3>2. tunnel' \in Config /\ cut' \in BOOLEAN /\ (~cut' => tunnel' = file)
      <4>1. CASE NeedsRebuild
        BY <2>2, <2>4, <4>1 DEF Restarted
      <4>2. CASE ~NeedsRebuild
        <5>1. change.old = change.before.file /\ change.before.file.quick = file.quick
          BY <2>2, <4>2 DEF NeedsRebuild
        <5>2. tunnel' = [tunnel EXCEPT !.sync = file.sync] /\ cut' = cut
          BY <2>4, <4>2
        <5>3. ~cut => tunnel.quick = file.quick
          BY <2>2, <5>1, Values DEF GoesBy
        <5> QED
          BY <2>2, <2>3, <5>2, <5>3, Values
      <4> QED
        BY <4>1, <4>2
    <3> QED
      BY <1>1, <2>1, <2>2, <3>1, <3>2, Values DEF InLine, GoesBy, SameRequest
  <2>5. CASE /\ IF NeedsRebuild
                THEN NotRestarted
                ELSE /\ tunnel' \in {tunnel, [tunnel EXCEPT !.sync = file.sync]}
                     /\ UNCHANGED cut
             /\ ChangeGoes("restore")
    <3>1. change' \in Change /\ SameRequest /\ change'.at = "restore"
      BY <2>5, ChangeSteps
    <3>2. tunnel' \in Config \cup {NoConfig} /\ cut' \in BOOLEAN
      BY <2>2, <2>3, <2>5 DEF NotRestarted
    <3> QED
      BY <1>1, <2>1, <2>2, <3>1, <3>2, Values DEF InLine, GoesBy, SameRequest
  <2> QED
    BY <1>2, <2>4, <2>5 DEF Apply
<1>3. CASE Restore
  <2>1. /\ change.at = "restore" /\ UNCHANGED <<tunnel, enabled, cut>>
        /\ change' \in Change /\ SameRequest /\ change'.at = "again"
        /\ file' \in {file, change.before.file}
    BY <1>3, ChangeSteps DEF Restore, ChangeAt
  <2>2. NoConfig \notin {file, change.before.file}
    BY <2>1 DEF InLine
  <2>3. change.before.file \in Config \cup {NoConfig}
    BY DEF Change
  <2> QED
    BY <1>1, <2>1, <2>2, <2>3 DEF InLine, GoesBy, SameRequest
<1>4. CASE Again
  <2>1. /\ change.at = "again" /\ UNCHANGED <<file, enabled>>
        /\ change' \in Change /\ SameRequest /\ change'.at = "idle"
        /\ file # NoConfig
    BY <1>4, ChangeSteps DEF Again, ChangeAt, InLine
  <2>2. /\ tunnel' \in {file, tunnel, NoConfig} /\ cut' \in BOOLEAN
        /\ tunnel' = file \/ cut' \/ tunnel' = NoConfig
    BY <1>4, <2>1 DEF Again, Restarted
  <2> QED
    BY <1>1, <2>1, <2>2 DEF InLine, GoesBy, SameRequest
<1> QED
  BY <1>2, <1>3, <1>4

LEMMA StateInLine ==
  ASSUME WireGuardAssumption, WgInv, Up \/ Fresh \/ Down \/ Delete
  PROVE  WgInv'
<1> USE DEF WgInv, WireGuardTypeOK
<1>1. trials' \in [changes : 0..MaxChanges, fails : 0..MaxMishaps]
  BY TrialSteps DEF Up, Fresh, Down, Delete
<1>2. CASE Up
  <2>1. /\ change.at = "up" /\ file' = file /\ enabled' \in BOOLEAN
        /\ change' \in Change /\ SameRequest
        /\ change'.at = "idle" \/ (change'.at = "fresh" /\ change.kind = "new")
        /\ \/ change'.at = "idle" /\ tunnel = NoConfig /\ tunnel' = file /\ cut' = FALSE
           \/ UNCHANGED <<tunnel, cut>>
    BY <1>2, ChangeSteps DEF Up, ChangeAt
  <2>2. WireGuardTypeOK'
    BY <1>1, <2>1
  <2>3. InLine'
    BY <2>1 DEF InLine, GoesBy, SameRequest
  <2> QED
    BY <2>2, <2>3
<1>3. CASE Fresh
  <2>1. /\ change.at = "fresh" /\ UNCHANGED <<tunnel, enabled>> /\ file' \in {file, NoConfig}
        /\ change' \in Change /\ SameRequest /\ change'.at = "idle" /\ cut' \in BOOLEAN
    BY <1>3, ChangeSteps DEF Fresh, ChangeAt
  <2>2. tunnel = NoConfig
    BY <2>1 DEF InLine
  <2> QED
    BY <1>1, <2>1, <2>2 DEF InLine, GoesBy, SameRequest
<1>4. CASE Down
  <2>1. /\ change.at = "down" /\ file' = file /\ enabled' \in BOOLEAN
        /\ change' \in Change /\ SameRequest
        /\ \/ tunnel' = NoConfig /\ cut' = FALSE /\ change'.at \in {"idle", "delete"}
           \/ change'.at = "idle" /\ UNCHANGED <<tunnel, cut>>
    BY <1>4, ChangeSteps DEF Down, ChangeAt
  <2>2. WireGuardTypeOK'
    BY <1>1, <2>1
  <2>3. InLine'
    BY <2>1 DEF InLine, GoesBy, SameRequest
  <2> QED
    BY <2>2, <2>3
<1>5. CASE Delete
  <2>1. /\ change.at = "delete" /\ UNCHANGED <<tunnel, enabled, cut>>
        /\ file' \in {file, NoConfig}
        /\ change' \in Change /\ SameRequest /\ change'.at = "idle"
    BY <1>5, ChangeSteps DEF Delete, ChangeAt
  <2>2. tunnel = NoConfig
    BY <2>1 DEF InLine
  <2> QED
    BY <1>1, <2>1, <2>2 DEF InLine, GoesBy, SameRequest
<1> QED
  BY <1>2, <1>3, <1>4, <1>5

LEMMA NextInLine ==
  WireGuardAssumption /\ WgInv /\ [WireGuardNext]_wireguardVars => WgInv'
<1> SUFFICES ASSUME WireGuardAssumption, WgInv, [WireGuardNext]_wireguardVars PROVE WgInv'
  OBVIOUS
<1>1. CASE UNCHANGED wireguardVars
  BY <1>1 DEF wireguardVars, WgInv, WireGuardTypeOK, InLine, GoesBy
<1> QED
  BY <1>1, RequestInLine, AsideInLine, WriteInLine, ApplyInLine, StateInLine DEF WireGuardNext

(* The manager and its tunnel keep their types, and a tunnel that runs     *)
(* goes by its file whenever no request is at work, whatever failed, also  *)
(* on the way back, and wherever the daemon died.                          *)
THEOREM TunnelsRunTheirFiles ==
  ASSUME WireGuardAssumption
  PROVE  WireGuardSpec => [](WireGuardTypeOK /\ InForce)
<1>1. WgInv => WireGuardTypeOK /\ InForce
  BY DEF WgInv, InLine, GoesBy, InForce, ChangeAt
<1> QED
  BY <1>1, InitInLine, NextInLine, PTL DEF WireGuardSpec

(* What a request that is refused has changed by then, where asking what   *)
(* runs works and so does every step back.                                 *)
Refuses ==
  /\ change.at # "idle" => change.answer = "none"
  /\ change.at = "idle" => RefusedChangesNothing
  /\ change.at \in {"check", "write"} => tunnel = change.before.tunnel
  /\ change.at \in {"check", "write", "look", "apply", "restore", "again"} =>
       enabled = change.before.enabled
  /\ change.at = "again" => file = change.before.file
  /\ change.at \in {"down", "delete"} => change.kind \in {"down", "remove"}
  /\ change.kind = "edit" => ~change.start /\ change.at # "up"
  /\ change.kind = "new" /\ change.at # "idle" =>
       /\ change.before.file = NoConfig
       /\ change.at \in {"up", "fresh"} /\ enabled => change.before.enabled

LEMMA InitRefuses == WireGuardAssumption /\ WireGuardInit => Refuses
BY Values DEF WireGuardInit, Refuses, RefusedChangesNothing

LEMMA NextRefuses ==
  ASSUME WireGuardAssumption, ~LookFails, ~UndoFails, WgInv, Refuses,
         [WireGuardNext]_wireguardVars
  PROVE  Refuses'
<1> USE DEF Refuses, RefusedChangesNothing, ChangeAt
<1>0. change \in Change /\ enabled \in BOOLEAN /\ cut \in BOOLEAN
  BY DEF WgInv, WireGuardTypeOK
<1>1. CASE RequestChange
  <2>1. PICK kind \in {"new", "edit", "import", "up", "down", "remove"},
             at \in {"check", "up", "down"}, new \in Config \cup {NoConfig},
             old \in {NoConfig, file}, start \in BOOLEAN :
          /\ BeginChange(kind, at, new, old, start)
          /\ kind = "new" => file = NoConfig /\ at = "check"
          /\ kind = "edit" => ~start /\ at = "check"
          /\ at = "down" => kind \in {"down", "remove"}
    BY <1>1 DEF RequestChange
  <2>2. /\ UNCHANGED <<file, tunnel, enabled, cut>>
        /\ change'.at = at /\ change'.kind = kind /\ change'.start = start
        /\ change'.answer = "none"
        /\ change'.before = [file |-> file, tunnel |-> tunnel, enabled |-> enabled]
    BY <2>1 DEF BeginChange
  <2> QED
    BY <2>1, <2>2
<1>2. CASE ByHand \/ DiesInChange
  <2>1. change' = NoChange
    BY <1>2 DEF ByHand, DiesInChange
  <2> QED
    BY <2>1, Values
<1>3. CASE CheckCandidate
  <2>1. /\ change.at = "check" /\ UNCHANGED <<file, tunnel, enabled, cut>> /\ SameRequest
        /\ \/ change'.at = "write" /\ change'.answer = "none"
           \/ change'.at = "idle"
    BY <1>0, <1>3, ChangeSteps DEF CheckCandidate
  <2>2. file = change.before.file
    BY <2>1 DEF WgInv, InLine
  <2> QED
    BY <2>1, <2>2 DEF SameRequest
<1>4. CASE WriteFile
  <2>1. /\ change.at = "write" /\ UNCHANGED <<tunnel, enabled, cut>> /\ SameRequest
        /\ \/ change'.at = "look" /\ change'.answer = "none"
           \/ change'.at = "idle" /\ file' = file
    BY <1>0, <1>4, ChangeSteps DEF WriteFile
  <2>2. file = change.before.file
    BY <2>1 DEF WgInv, InLine
  <2> QED
    BY <2>1, <2>2 DEF SameRequest
<1>5. CASE LookWhatRuns
  <2>1. /\ change.at = "look" /\ UNCHANGED <<file, tunnel, enabled, cut>> /\ SameRequest
        /\ \/ change'.at = "apply" /\ change'.answer = "none"
           \/ change'.at = "up" /\ change'.answer = "none" /\ change.start
           \/ change'.at = "idle" /\ change'.answer = "done"
    BY <1>0, <1>5, ChangeSteps DEF LookWhatRuns, AfterWrite
  <2> QED
    BY <2>1 DEF SameRequest
<1>6. CASE Apply
  <2>1. /\ change.at = "apply" /\ UNCHANGED <<file, enabled>> /\ SameRequest
        /\ \/ change'.at = "restore" /\ change'.answer = "none"
           \/ change'.at = "up" /\ change'.answer = "none" /\ change.start
           \/ change'.at = "idle" /\ change'.answer = "done"
    BY <1>0, <1>6, ChangeSteps DEF Apply, AfterWrite
  <2>2. change.kind # "new"
    BY <2>1 DEF WgInv, InLine
  <2> QED
    BY <2>1, <2>2 DEF SameRequest
<1>7. CASE Restore
  <2>1. /\ change.at = "restore" /\ UNCHANGED <<tunnel, enabled, cut>> /\ SameRequest
        /\ change'.at = "again" /\ change'.answer = "none" /\ file' = change.before.file
    BY <1>0, <1>7, ChangeSteps DEF Restore
  <2>2. change.kind # "new"
    BY <2>1 DEF WgInv, InLine
  <2> QED
    BY <2>1, <2>2 DEF SameRequest
<1>8. CASE Again
  <2>1. /\ change.at = "again" /\ UNCHANGED <<file, enabled>> /\ SameRequest
        /\ change'.at = "idle" /\ file # NoConfig
    BY <1>0, <1>8, ChangeSteps DEF Again, WgInv, InLine
  <2>2. tunnel' = file \/ tunnel' = NoConfig \/ cut'
    BY <1>8, <2>1 DEF Again, Restarted
  <2> QED
    BY <1>0, <2>1, <2>2 DEF SameRequest
<1>9. CASE Up
  <2>1. /\ change.at = "up" /\ file' = file /\ SameRequest
        /\ \/ change'.at = "idle" /\ change'.answer = "done"
           \/ change'.at = "idle" /\ change.kind # "new"
           \/ /\ change'.at = "fresh" /\ change'.answer = "none" /\ change.kind = "new"
              /\ enabled' = enabled \/ enabled' = FALSE
    BY <1>0, <1>9, ChangeSteps DEF Up
  <2> QED
    BY <1>0, <2>1 DEF SameRequest
<1>10. CASE Fresh
  <2>1. /\ change.at = "fresh" /\ UNCHANGED <<tunnel, enabled>> /\ SameRequest
        /\ change'.at = "idle" /\ (file' = NoConfig \/ cut')
    BY <1>0, <1>10, ChangeSteps DEF Fresh
  <2>2. change.kind = "new" /\ tunnel = NoConfig
    BY <2>1 DEF WgInv, InLine
  <2> QED
    BY <1>0, <2>1, <2>2 DEF SameRequest
<1>11. CASE Down \/ Delete
  <2>1. /\ change.at \in {"down", "delete"} /\ SameRequest
        /\ \/ change'.at = "idle"
           \/ change'.at = "delete" /\ change'.answer = "none"
    BY <1>0, <1>11, ChangeSteps DEF Down, Delete
  <2> QED
    BY <2>1 DEF SameRequest
<1>12. CASE UNCHANGED wireguardVars
  BY <1>12 DEF wireguardVars
<1> QED
  BY <1>1, <1>2, <1>3, <1>4, <1>5, <1>6, <1>7, <1>8, <1>9, <1>10, <1>11, <1>12
  DEF WireGuardNext

(* A tunnel goes by its file, and a change that was refused has changed    *)
(* nothing, for any configurations, requests, failures and deaths, where   *)
(* asking what runs and the steps that put things back do not fail.        *)
THEOREM TunnelsByFile ==
  ASSUME WireGuardAssumption, ~LookFails, ~UndoFails
  PROVE  WireGuardSpec => []TunnelsGoByTheirFiles
<1>1. WgInv /\ Refuses => TunnelsGoByTheirFiles
  BY DEF WgInv, InLine, GoesBy, Refuses, RefusedChangesNothing, TunnelsGoByTheirFiles,
     InForce, ChangeAt
<1>2. Refuses /\ WgInv /\ [WireGuardNext]_wireguardVars => Refuses'
  BY NextRefuses
<1> QED
  BY <1>1, <1>2, InitInLine, NextInLine, InitRefuses, PTL DEF WireGuardSpec

-----------------------------------------------------------------------------
(* The console: every chunk exactly once                                   *)

(* A nonempty set of naturals has a least element.                         *)
LEMMA LeastIsThere ==
  ASSUME NEW S, S \subseteq Nat, S # {}
  PROVE  Min(S) \in S /\ \A i \in S : Min(S) <= i
<1> DEFINE Less == {pair \in Nat \X Nat : pair[1] < pair[2]}
<1>1. IsWellFoundedOn(Less, Nat)
  BY NatLessThanWellFounded, Zenon DEF OpToRel
<1>2. PICK x \in S : \A y \in S : ~(<<y, x>> \in Less)
  <2> HIDE DEF Less
  <2> QED
    BY <1>1, WFMin, Zenon
<1>3. \A y \in S : ~(y < x)
  BY <1>2
<1>4. \E x1 \in S : \A y \in S : x1 <= y
  BY <1>3
<1> QED
  BY <1>4 DEF Min

(* The replay keeps the chunks up to the last one, from a later one on.    *)
LEMMA TrimmedIsBetween ==
  ASSUME NEW n \in Nat, NEW k \in Nat, 1 <= k, k <= n + 1
  PROVE  Trimmed(k, n) \in k..n + 1
<1> DEFINE Fits == {i \in k..n + 1 : i = n + 1 \/ Bytes(i, n) <= ReplayLimit}
<1>1. n + 1 \in Fits
  OBVIOUS
<1>2. Fits \subseteq k..n + 1 /\ k..n + 1 \subseteq Nat
  OBVIOUS
<1>3. Trimmed(k, n) = Min(Fits)
  BY DEF Trimmed
<1> HIDE DEF Fits
<1> QED
  BY <1>1, <1>2, <1>3, LeastIsThere

(* A session that runs has its sender; one that does not has none.         *)
Lives == {"loop", "writing", "ending"}
Flows(x) ==
  /\ x.published + x.out <= MaxChunks
  /\ x.kept <= x.published + 1
  /\ x.open <=> x.pump \in Lives

(* One client is inside connect while there is a session left to make.     *)
Connecting == [NoClient EXCEPT !.at = "connecting", !.tab = TRUE]
Gate ==
  /\ lock # NoOne => \E s \in Sessions : session[s].pump = "none"
  /\ \A c \in Clients :
       /\ client[c].at = "connecting" => client[c] = Connecting
       /\ client[c].at = "connecting" <=> lock = c

Rising(s, n) ==
  /\ \A i, j \in 1..Len(s) : i < j => s[i] < s[j]
  /\ \A i \in 1..Len(s) : s[i] < n

(* What a client was sent, of p chunks published: the replay first, then   *)
(* what the receiver got.  The chunk before the next one was the last it   *)
(* was sent, unless the receiver is behind or nothing was sent.            *)
Sent(x, p) ==
  /\ x.first <= x.from /\ x.from <= x.upto + 1
  /\ x.upto < x.next /\ x.next <= p + 1
  /\ x.from <= x.upto => ~x.lagged /\ x.next = x.upto + 1
  /\ ~x.lagged =>
       /\ Len(x.seen) = (IF x.from <= x.upto THEN x.from ELSE x.next) - x.first
       /\ \A i \in 1..Len(x.seen) : x.seen[i] = x.first + i - 1
  /\ Rising(x.seen, IF x.from <= x.upto THEN x.from ELSE x.next)
  /\ x.from > x.upto /\ x.next > p =>
       \/ x.next = x.first
       \/ x.seen # <<>> /\ x.seen[Len(x.seen)] = x.next - 1

(* Where a client stands.                                                  *)
StandsAt(x, sessions) ==
  /\ x.at = "away" => x = NoClient
  /\ x.at \in Holding =>
       /\ x.on \in Sessions /\ sessions[x.on].pump \in Lives \cup {"done"}
       /\ Sent(x, sessions[x.on].published)
  /\ x.at = "heard_end" =>
       /\ x.on \in Sessions /\ sessions[x.on].pump = "done"
       /\ Sent(x, sessions[x.on].published)
       /\ x.from > x.upto /\ x.next > sessions[x.on].published
ConsoleInv ==
  /\ ConsoleTypeOK
  /\ \A s \in Sessions : Flows(session[s])
  /\ Gate
  /\ \A c \in Clients : StandsAt(client[c], session)

LEMMA ClientShapes ==
  ConsoleAssumption =>
    /\ NoClient \in Client /\ NoClient.at = "away" /\ NoClient.seen = <<>>
    /\ Connecting \in Client /\ Connecting.at = "connecting" /\ Connecting.seen = <<>>
    /\ Connecting.from = 1 /\ Connecting.upto = 0 /\ Connecting.next = 1
    /\ Connecting.first = 1
<1> SUFFICES ASSUME ConsoleAssumption
             PROVE  /\ NoClient \in Client /\ NoClient.at = "away" /\ NoClient.seen = <<>>
                    /\ Connecting \in Client /\ Connecting.at = "connecting"
                    /\ Connecting.seen = <<>> /\ Connecting.from = 1 /\ Connecting.upto = 0
                    /\ Connecting.next = 1 /\ Connecting.first = 1
  OBVIOUS
<1>1. /\ 0 \in 0..MaxSessions /\ 0 \in 0..MaxChunks /\ 1 \in 1..MaxChunks + 1
      /\ <<>> \in Seq(1..MaxChunks)
  BY DEF ConsoleAssumption
<1>2. NoClient \in Client /\ NoClient.at = "away" /\ NoClient.seen = <<>>
  BY <1>1 DEF NoClient, Client
<1>3. /\ Connecting.at = "connecting" /\ Connecting.seen = <<>> /\ Connecting.from = 1
      /\ Connecting.upto = 0 /\ Connecting.next = 1 /\ Connecting.first = 1
  BY DEF NoClient, Connecting
<1>4. Connecting \in Client
  BY <1>1 DEF NoClient, Connecting, Client
<1> QED
  BY <1>2, <1>3, <1>4

(* What the constants and the types say.                                   *)
LEMMA ConsoleFacts ==
  ASSUME ConsoleAssumption, ConsoleInv
  PROVE  /\ {Capacity, StdinCapacity, PipeCapacity} \subseteq Nat \ {0}
         /\ MaxChunks \in Nat /\ MaxSessions \in Nat
         /\ \A s \in Sessions :
              /\ session[s] \in Session /\ Flows(session[s])
              /\ session[s].published \in 0..MaxChunks /\ session[s].out \in 0..PipeCapacity
              /\ session[s].kept \in 1..MaxChunks + 1 /\ session[s].sink \in 0..PipeCapacity
              /\ session[s].queue \in 0..StdinCapacity
         /\ \A c \in Clients :
              /\ client[c] \in Client /\ StandsAt(client[c], session)
              /\ client[c].seen \in Seq(1..MaxChunks) /\ client[c].on \in 0..MaxSessions
              /\ client[c].from \in 1..MaxChunks + 1 /\ client[c].upto \in 0..MaxChunks
              /\ client[c].next \in 1..MaxChunks + 1 /\ client[c].first \in 1..MaxChunks + 1
  BY DEF ConsoleAssumption, ConsoleInv, ConsoleTypeOK, Session, Client

LEMMA ConsoleInvImplies == ConsoleAssumption /\ ConsoleInv => ExactlyOnce
<1> SUFFICES ASSUME ConsoleAssumption, ConsoleInv, NEW c \in Clients
             PROVE  LET x == client[c]
                    IN /\ \A i, j \in 1..Len(x.seen) : i < j => x.seen[i] < x.seen[j]
                       /\ ~x.lagged => \A i \in 1..Len(x.seen) : x.seen[i] = x.first + i - 1
                       /\ x.at = "heard_end" /\ session[x.on].published >= x.first =>
                            x.seen # <<>> /\ Last(x.seen) = session[x.on].published
  BY DEF ExactlyOnce
<1> DEFINE x == client[c]
<1>1. x \in Client /\ StandsAt(x, session)
  BY DEF ConsoleInv, ConsoleTypeOK
<1>2. x.seen \in Seq(1..MaxChunks)
  BY <1>1 DEF Client
<1>3. CASE x.at \in {"away", "connecting"}
  <2>1. x = NoClient \/ x = Connecting
    BY <1>1, <1>3 DEF StandsAt, ConsoleInv, Gate
  <2>2. x.seen = <<>> /\ x.at # "heard_end"
    BY <2>1, ClientShapes
  <2> QED
    BY <2>2
<1>4. CASE x.at \in Holding
  BY <1>1, <1>2, <1>4 DEF StandsAt, Sent, Rising, Holding
<1>5. CASE x.at = "heard_end"
  <2> DEFINE p == session[x.on].published
  <2>1. Sent(x, p) /\ x.from > x.upto /\ x.next > p
    BY <1>1, <1>5 DEF StandsAt
  <2>2. p \in Nat /\ x.next \in Nat /\ x.first \in Nat /\ x.next = p + 1
    <3>1. x.on \in Sessions
      BY <1>1, <1>5 DEF StandsAt
    <3>2. p \in Nat /\ x.next \in Nat /\ x.first \in Nat
      BY <3>1, ConsoleFacts
    <3>3. x.next <= p + 1
      BY <2>1 DEF Sent
    <3> QED
      BY <2>1, <3>2, <3>3
  <2>3. p >= x.first => x.seen # <<>> /\ x.seen[Len(x.seen)] = p
    BY <2>1, <2>2 DEF Sent
  <2>4. /\ \A i, j \in 1..Len(x.seen) : i < j => x.seen[i] < x.seen[j]
        /\ ~x.lagged => \A i \in 1..Len(x.seen) : x.seen[i] = x.first + i - 1
    BY <2>1 DEF Sent, Rising
  <2> QED
    BY <2>3, <2>4 DEF Last
<1> QED
  BY <1>1, <1>3, <1>4, <1>5 DEF Client, Holding

LEMMA ConsoleInvInit == ConsoleAssumption /\ ConsoleInit => ConsoleInv
<1> SUFFICES ASSUME ConsoleAssumption, ConsoleInit PROVE ConsoleInv
  OBVIOUS
<1> USE DEF ConsoleAssumption
<1>1. NoSession \in Session /\ Flows(NoSession)
  BY DEF NoSession, Session, Flows, Lives
<1>2. NoClient \in Client /\ NoClient.at = "away"
  BY ClientShapes
<1>3. ConsoleTypeOK
  BY <1>1, <1>2 DEF ConsoleInit, ConsoleTypeOK
<1>4. Gate
  BY <1>2 DEF ConsoleInit, Gate, NoOne
<1>5. \A c \in Clients : StandsAt(client[c], session)
  BY <1>2 DEF ConsoleInit, StandsAt, Holding
<1> QED
  BY <1>1, <1>3, <1>4, <1>5 DEF ConsoleInit, ConsoleInv
(* More chunks published leave what was sent as it is.                     *)
LEMMA SentStays ==
  ASSUME ConsoleAssumption, NEW x \in Client, NEW p \in Nat, NEW q \in Nat, p <= q, Sent(x, p)
  PROVE  Sent(x, q)
<1>1. x.next \in Nat /\ x.upto \in Nat /\ x.from \in Nat
  BY DEF Client, ConsoleAssumption
<1> QED
  BY <1>1 DEF Sent

(* Sessions move, no client does.                                          *)
Continues(x, y) ==
  /\ x.pump = "none" <=> y.pump = "none"
  /\ x.pump \in Lives => y.pump \in Lives \cup {"done"}
  /\ x.pump = "done" => y.pump = "done" /\ y.published = x.published
  /\ x.published <= y.published
LEMMA StandsStays ==
  ASSUME ConsoleAssumption, NEW x \in Client, NEW A, NEW B, StandsAt(x, A),
         x.at \in Holding \cup {"heard_end"} =>
           /\ Continues(A[x.on], B[x.on])
           /\ A[x.on].published \in Nat /\ B[x.on].published \in Nat
  PROVE  StandsAt(x, B)
<1>1. CASE x.at \in Holding
  <2>1. x.on \in Sessions /\ Sent(x, A[x.on].published)
    BY <1>1 DEF StandsAt
  <2>2. Sent(x, B[x.on].published)
    BY <1>1, <2>1, SentStays DEF Continues
  <2> QED
    BY <1>1, <2>1, <2>2 DEF StandsAt, Continues, Holding
<1>2. CASE x.at = "heard_end"
  BY <1>2 DEF StandsAt, Continues, Holding
<1>3. CASE x.at \notin Holding \cup {"heard_end"}
  BY <1>3 DEF StandsAt
<1> QED
  BY <1>1, <1>2, <1>3

LEMMA SessionsMove ==
  ASSUME ConsoleAssumption, ConsoleInv, UNCHANGED <<lock, client, left, current>>,
         NEW s \in Sessions, NEW y \in Session, session' = [session EXCEPT ![s] = y],
         Flows(y), Continues(session[s], y)
  PROVE  ConsoleInv'
<1> USE ConsoleFacts
<1>1. session' \in [Sessions -> Session]
  BY DEF ConsoleInv, ConsoleTypeOK
<1>2. session'[s] = y /\ \A r \in Sessions \ {s} : session'[r] = session[r]
  BY DEF ConsoleInv, ConsoleTypeOK
<1>3. \A r \in Sessions : Flows(session'[r])
  BY <1>2
<1>4. \A r \in Sessions : Continues(session[r], session'[r]) /\ session'[r].published \in Nat
  <2>1. ASSUME NEW r \in Sessions
        PROVE  Continues(session[r], session'[r]) /\ session'[r].published \in Nat
    <3>1. CASE r = s
      BY <3>1, <1>1, <1>2 DEF Session
    <3>2. CASE r # s
      <4>1. session'[r] = session[r] /\ session[r].published \in Nat
        BY <3>2, <1>2
      <4> QED
        BY <4>1 DEF Continues
    <3> QED
      BY <3>1, <3>2
  <2> QED
    BY <2>1
<1>5. ConsoleTypeOK'
  BY <1>1 DEF ConsoleInv, ConsoleTypeOK
<1>6. Gate'
  BY <1>4 DEF ConsoleInv, Gate, Continues
<1>7. ASSUME NEW c \in Clients PROVE StandsAt(client'[c], session')
  <2>1. client[c] \in Client /\ StandsAt(client[c], session)
    OBVIOUS
  <2>2. client[c].at \in Holding \cup {"heard_end"} =>
          LET r == client[c].on
          IN /\ Continues(session[r], session'[r])
             /\ session[r].published \in Nat /\ session'[r].published \in Nat
    <3>1. client[c].at \in Holding \cup {"heard_end"} => client[c].on \in Sessions
      BY <2>1 DEF StandsAt
    <3>2. \A r \in Sessions : session[r].published \in Nat
      OBVIOUS
    <3> QED
      BY <3>1, <3>2, <1>4
  <2>3. StandsAt(client[c], session')
    BY <2>1, <2>2, StandsStays, Zenon
  <2> QED
    BY <2>3
<1> QED
  BY <1>3, <1>5, <1>6, <1>7 DEF ConsoleInv

(* A client moves, no session does.                                        *)
LEMMA ClientMoves ==
  ASSUME ConsoleAssumption, ConsoleInv, UNCHANGED <<lock, session, current>>,
         left' \in [joins : 0..MaxJoins, inputs : 0..MaxInputs],
         NEW c \in Clients, NEW y \in Client, client' = [client EXCEPT ![c] = y],
         client[c].at # "connecting", y.at # "connecting", StandsAt(y, session)
  PROVE  ConsoleInv'
<1> USE ConsoleFacts
<1>1. client' \in [Clients -> Client]
  BY DEF ConsoleInv, ConsoleTypeOK
<1>2. client'[c] = y /\ \A d \in Clients \ {c} : client'[d] = client[d]
  BY DEF ConsoleInv, ConsoleTypeOK
<1>3. ConsoleTypeOK'
  BY <1>1 DEF ConsoleInv, ConsoleTypeOK
<1>4. Gate'
  BY <1>2 DEF ConsoleInv, Gate
<1>6. \A d \in Clients : StandsAt(client'[d], session')
  BY <1>2
<1> QED
  BY <1>3, <1>4, <1>6 DEF ConsoleInv

LEMMA AppStep ==
  ASSUME ConsoleAssumption, ConsoleInv, NEW s \in Sessions, App(s)
  PROVE  ConsoleInv'
<1> DEFINE x == session[s]
<1> USE ConsoleFacts
<1>1. x \in Session /\ Flows(x)
  OBVIOUS
<1>2. CASE AppWrites(s)
  <2> DEFINE y == [x EXCEPT !.out = @ + 1]
  <2>1. y \in Session
    <3>1. x.out + 1 \in 0..PipeCapacity
      <4>1. x.out < PipeCapacity /\ x.out \in 0..PipeCapacity /\ PipeCapacity \in Nat
        BY <1>2 DEF AppWrites
      <4> QED
        BY ONLY <4>1
    <3> QED
      BY <3>1 DEF Session
  <2>2. Flows(y) /\ Continues(x, y)
    <3>1. x.published + x.out < MaxChunks
      BY <1>2 DEF AppWrites
    <3>2. /\ y.published = x.published /\ y.out = x.out + 1 /\ y.kept = x.kept
          /\ y.open = x.open /\ y.pump = x.pump
      BY <1>1 DEF Session
    <3>3. x.published \in Nat /\ x.out \in Nat /\ MaxChunks \in Nat
      OBVIOUS
    <3>4. y.published + y.out <= MaxChunks /\ x.published <= y.published
      BY ONLY <3>1, <3>2, <3>3
    <3> QED
      BY <1>1, <3>2, <3>4 DEF Flows, Continues
  <2> QED
    BY <1>2, <2>1, <2>2, SessionsMove DEF AppWrites
<1>3. CASE AppReads(s)
  <2> DEFINE y == [x EXCEPT !.sink = @ - 1]
  <2>1. y \in Session
    <3>1. x.sink > 0 /\ x.sink \in 0..PipeCapacity /\ PipeCapacity \in Nat
      BY <1>3 DEF AppReads
    <3>2. x.sink - 1 \in 0..PipeCapacity
      BY ONLY <3>1
    <3> QED
      BY <3>2 DEF Session
  <2>2. Flows(y) /\ Continues(x, y)
    BY <1>1, <1>3 DEF AppReads, Session, Flows, Continues
  <2> QED
    BY <1>3, <2>1, <2>2, SessionsMove DEF AppReads
<1>4. CASE AppStops(s)
  <2> DEFINE y == [x EXCEPT !.stream = FALSE]
  <2>1. y \in Session
    BY <1>4 DEF AppStops, Session
  <2>2. Flows(y) /\ Continues(x, y)
    BY <1>1, <1>4 DEF AppStops, Session, Flows, Continues
  <2> QED
    BY <1>4, <2>1, <2>2, SessionsMove DEF AppStops
<1> QED
  BY <1>2, <1>3, <1>4 DEF App

(* One more chunk published: the replay keeps up to it.                    *)
LEMMA PublishedIsFit ==
  ASSUME ConsoleAssumption, NEW x \in Session, Flows(x), x.published < MaxChunks
  PROVE  /\ Published(x) \in Session /\ Published(x).published = x.published + 1
         /\ Published(x).kept <= x.published + 2
         /\ Published(x).pump = x.pump /\ Published(x).out = x.out
         /\ Published(x).open = x.open
<1> DEFINE kept == Trimmed(x.kept, x.published + 1)
<1>1. /\ x.published \in Nat /\ x.kept \in Nat /\ 1 <= x.kept /\ x.kept <= x.published + 1
      /\ MaxChunks \in Nat
  BY DEF Session, Flows, ConsoleAssumption
<1>2. kept \in x.kept..(x.published + 1) + 1
  BY <1>1, TrimmedIsBetween
<1>3. kept \in 1..MaxChunks + 1 /\ x.published + 1 \in 0..MaxChunks /\ kept <= x.published + 2
  <2> HIDE DEF kept
  <2> QED
    BY <1>1, <1>2
<1>4. Published(x) = [x EXCEPT !.published = x.published + 1, !.kept = kept]
  BY DEF Published
<1> HIDE DEF kept
<1> QED
  BY <1>3, <1>4 DEF Session

LEMMA PumpStep ==
  ASSUME ConsoleAssumption, ConsoleInv, NEW s \in Sessions, Pump(s)
  PROVE  ConsoleInv'
<1> DEFINE x == session[s]
<1> USE ConsoleFacts
<1>1. x \in Session /\ Flows(x)
  OBVIOUS
<1>2. CASE Publish(s)
  <2> DEFINE y == [Published(x) EXCEPT !.out = @ - 1]
  <2>1. x.published < MaxChunks /\ x.out - 1 \in 0..PipeCapacity
    <3>1. x.out > 0 /\ x.published + x.out <= MaxChunks
      BY <1>1, <1>2 DEF Publish, Flows
    <3>2. x.out \in 0..PipeCapacity /\ x.published \in Nat
          /\ {MaxChunks, PipeCapacity} \subseteq Nat
      OBVIOUS
    <3> HIDE DEF x
    <3> QED
      BY ONLY <3>1, <3>2
  <2>2. /\ Published(x) \in Session /\ Published(x).published = x.published + 1
        /\ Published(x).kept <= x.published + 2
        /\ Published(x).pump = x.pump /\ Published(x).out = x.out
        /\ Published(x).open = x.open
    BY <1>1, <2>1, PublishedIsFit
  <2>3. /\ y \in Session /\ y.pump = x.pump /\ y.open = x.open
        /\ y.published = x.published + 1 /\ y.out = x.out - 1 /\ y.kept <= x.published + 2
    BY <2>1, <2>2 DEF Session
  <2>4. session' = [session EXCEPT ![s] = y]
    BY <1>2 DEF Publish
  <2> HIDE DEF y
  <2>5. x.pump = "loop" /\ x.published + x.out <= MaxChunks
    BY <1>1, <1>2 DEF Publish, Flows
  <2>6. y.open <=> y.pump \in Lives
    BY <1>1, <2>3 DEF Flows
  <2>7. x.published \in Nat /\ x.out \in Nat /\ MaxChunks \in Nat
    OBVIOUS
  <2>8. y.published + y.out <= MaxChunks
    <3> HIDE DEF x
    <3> QED
      BY ONLY <2>3, <2>5, <2>7
  <2>9. Flows(y) /\ Continues(x, y)
    BY <2>3, <2>5, <2>6, <2>7, <2>8 DEF Flows, Continues, Lives
  <2> QED
    BY <1>2, <2>3, <2>4, <2>9, SessionsMove DEF Publish
<1>3. CASE SourceEnds(s)
  <2>1. CASE session' = [session EXCEPT ![s].pump = "ending"]
    <3> DEFINE y == [x EXCEPT !.pump = "ending"]
    <3>1. y \in Session
      BY DEF Session
    <3>2. Flows(y) /\ Continues(x, y)
      BY <1>1, <1>3 DEF SourceEnds, Session, Flows, Continues, Lives
    <3> QED
      BY <1>3, <2>1, <3>1, <3>2, SessionsMove DEF SourceEnds
  <2>2. CASE /\ session[s].published < MaxChunks
             /\ session' =
                  [session EXCEPT ![s] = [Published(session[s]) EXCEPT !.pump = "ending"]]
    <3> DEFINE y == [Published(x) EXCEPT !.pump = "ending"]
    <3>1. /\ Published(x) \in Session /\ Published(x).published = x.published + 1
          /\ Published(x).kept <= x.published + 2
          /\ Published(x).out = x.out /\ Published(x).open = x.open
      BY <1>1, <2>2, PublishedIsFit
    <3>2. /\ y \in Session /\ y.pump = "ending" /\ y.open = x.open
          /\ y.published = x.published + 1 /\ y.out = x.out /\ y.kept <= x.published + 2
      BY <3>1 DEF Session
    <3>3. session' = [session EXCEPT ![s] = y]
      BY <2>2
    <3> HIDE DEF y
    <3>4. x.pump = "loop" /\ x.out = 0 /\ x.published < MaxChunks
      BY <1>3, <2>2 DEF SourceEnds
    <3>5. x.published \in Nat /\ MaxChunks \in Nat /\ (x.open <=> x.pump \in Lives)
      BY <1>1 DEF Flows
    <3>6. y.published + y.out <= MaxChunks /\ x.published <= y.published
      BY ONLY <3>2, <3>4, <3>5
    <3>7. Flows(y) /\ Continues(x, y)
      BY <3>2, <3>4, <3>5, <3>6 DEF Flows, Continues, Lives
    <3> QED
      BY <1>3, <3>2, <3>3, <3>7, SessionsMove DEF SourceEnds
  <2> QED
    BY <1>3, <2>1, <2>2 DEF SourceEnds
<1>4. CASE TakeInput(s)
  <2> DEFINE y == [x EXCEPT !.queue = @ - 1, !.pump = "writing"]
  <2>1. y \in Session
    <3>1. x.queue - 1 \in 0..StdinCapacity
      <4>1. /\ x.queue > 0 /\ x.queue \in 0..StdinCapacity /\ StdinCapacity \in Nat
        BY <1>4 DEF TakeInput
      <4> QED
        BY ONLY <4>1
    <3> QED
      BY <3>1 DEF Session
  <2>2. Flows(y) /\ Continues(x, y)
    BY <1>1, <1>4 DEF TakeInput, Session, Flows, Continues, Lives
  <2> QED
    BY <1>4, <2>1, <2>2, SessionsMove DEF TakeInput
<1>5. CASE WriteInput(s)
  <2>1. CASE /\ session[s].sink < PipeCapacity
             /\ session' = [session EXCEPT ![s].sink = @ + 1, ![s].pump = "loop"]
    <3> DEFINE y == [x EXCEPT !.sink = @ + 1, !.pump = "loop"]
    <3>1. y \in Session
      <4>1. x.sink + 1 \in 0..PipeCapacity
        <5>1. x.sink < PipeCapacity /\ x.sink \in 0..PipeCapacity /\ PipeCapacity \in Nat
          BY <2>1
        <5> QED
          BY ONLY <5>1
      <4> QED
        BY <4>1 DEF Session
    <3>2. Flows(y) /\ Continues(x, y)
      BY <1>1, <1>5 DEF WriteInput, Session, Flows, Continues, Lives
    <3>3. session' = [session EXCEPT ![s] = y]
      BY <2>1 DEF ConsoleInv, ConsoleTypeOK
    <3> HIDE DEF y
    <3> QED
      BY <1>5, <3>1, <3>2, <3>3, SessionsMove DEF WriteInput
  <2>2. CASE session' = [session EXCEPT ![s].pump = "ending"]
    <3> DEFINE y == [x EXCEPT !.pump = "ending"]
    <3>1. y \in Session
      BY DEF Session
    <3>2. Flows(y) /\ Continues(x, y)
      BY <1>1, <1>5 DEF WriteInput, Session, Flows, Continues, Lives
    <3> QED
      BY <1>5, <2>2, <3>1, <3>2, SessionsMove DEF WriteInput
  <2> QED
    BY <1>5, <2>1, <2>2 DEF WriteInput
<1>6. CASE End(s)
  <2> DEFINE y == [x EXCEPT !.pump = "done", !.open = FALSE]
  <2>1. y \in Session
    BY DEF Session
  <2>2. Flows(y) /\ Continues(x, y)
    BY <1>1, <1>6 DEF End, Session, Flows, Continues, Lives
  <2> QED
    BY <1>6, <2>1, <2>2, SessionsMove DEF End
<1> QED
  BY <1>2, <1>3, <1>4, <1>5, <1>6 DEF Pump

(* What a client at its handler has.                                       *)
LEMMA AtHandler ==
  ASSUME ConsoleAssumption, ConsoleInv, NEW c \in Clients, client[c].at \in Holding
  PROVE  /\ client[c].on \in Sessions /\ session[client[c].on].published \in 0..MaxChunks
         /\ Sent(client[c], session[client[c].on].published)
         /\ session[client[c].on].pump \in Lives \cup {"done"}
  BY ConsoleFacts DEF StandsAt

(* One chunk more at the end of an increasing run below it.                *)
LEMMA OneMore ==
  ASSUME NEW S, S \subseteq Nat, NEW s \in Seq(S), NEW n \in S, Rising(s, n),
         NEW r, r = Append(s, n)
  PROVE  Rising(r, n + 1)
<1>1. /\ r \in Seq(S) /\ Len(s) \in Nat /\ Len(r) = Len(s) + 1 /\ r[Len(s) + 1] = n
      /\ \A i \in 1..Len(s) : r[i] = s[i]
  BY AppendProperties
<1>2. n \in Nat /\ \A i \in 1..Len(s) : s[i] \in Nat
  BY ElementOfSeq
<1>3. \A i \in 1..Len(r) : i \in 1..Len(s) \/ i = Len(s) + 1
  BY <1>1
<1>4. ASSUME NEW i \in 1..Len(r), NEW j \in 1..Len(r), i < j PROVE r[i] < r[j]
  <2>1. i \in 1..Len(s)
    BY <1>1, <1>4
  <2>2. CASE j \in 1..Len(s)
    BY <1>1, <1>4, <2>1, <2>2 DEF Rising
  <2>3. CASE j = Len(s) + 1
    BY <1>1, <2>1, <2>3 DEF Rising
  <2> QED
    BY <1>3, <2>2, <2>3
<1>5. ASSUME NEW i \in 1..Len(r) PROVE r[i] < n + 1
  <2>1. CASE i \in 1..Len(s)
    <3>1. r[i] = s[i] /\ s[i] < n /\ s[i] \in Nat
      BY <1>1, <1>2, <2>1 DEF Rising
    <3> QED
      BY <1>2, <3>1
  <2>2. CASE i = Len(s) + 1
    BY <1>1, <1>2, <2>2
  <2> QED
    BY <1>3, <2>1, <2>2
<1> QED
  BY <1>4, <1>5 DEF Rising

LEMMA SendReplayStep ==
  ASSUME ConsoleAssumption, ConsoleInv, NEW c \in Clients, SendReplay(c)
  PROVE  ConsoleInv'
<1> DEFINE x == client[c]
           p == session[x.on].published
           y == [x EXCEPT !.seen = Append(@, x.from), !.from = @ + 1]
<1>1. /\ x.at = "live" /\ x.from <= x.upto
      /\ client' = [client EXCEPT ![c] = y] /\ UNCHANGED <<session, current, lock, left>>
  BY DEF SendReplay, Open
<1>2. /\ x.on \in Sessions /\ p \in 0..MaxChunks /\ Sent(x, p)
      /\ session[x.on].pump \in Lives \cup {"done"}
  BY <1>1, AtHandler DEF Holding
<1>3. /\ x \in Client /\ x.seen \in Seq(1..MaxChunks) /\ x.on \in 0..MaxSessions
      /\ x.from \in 1..MaxChunks + 1 /\ x.upto \in 0..MaxChunks
      /\ x.next \in 1..MaxChunks + 1 /\ x.first \in 1..MaxChunks + 1 /\ MaxChunks \in Nat
  BY ConsoleFacts
<1>4. x.from \in 1..MaxChunks /\ x.from + 1 \in 1..MaxChunks + 1
  BY <1>1, <1>3
<1>5. Append(x.seen, x.from) \in Seq(1..MaxChunks)
  BY <1>3, <1>4
<1>6. /\ y \in Client /\ y.at = "live" /\ y.on = x.on /\ y.from = x.from + 1
      /\ y.upto = x.upto /\ y.next = x.next /\ y.first = x.first /\ y.lagged = x.lagged
      /\ y.seen = Append(x.seen, x.from)
  BY <1>1, <1>3, <1>4, <1>5 DEF Client
<1> HIDE DEF y
<1>0. /\ x.first <= x.from /\ x.from <= x.upto + 1 /\ x.upto < x.next /\ x.next <= p + 1
      /\ x.from <= x.upto => ~x.lagged /\ x.next = x.upto + 1
      /\ x.lagged \/ Len(x.seen) = (IF x.from <= x.upto THEN x.from ELSE x.next) - x.first
      /\ \A i \in 1..Len(x.seen) : ~x.lagged => x.seen[i] = x.first + i - 1
      /\ Rising(x.seen, IF x.from <= x.upto THEN x.from ELSE x.next)
  BY <1>2 DEF Sent
<1>7. /\ Len(x.seen) \in Nat /\ Len(y.seen) = Len(x.seen) + 1
      /\ y.seen # <<>> /\ y.seen[Len(y.seen)] = x.from
      /\ \A i \in 1..Len(x.seen) : y.seen[i] = x.seen[i]
      /\ Rising(y.seen, x.from + 1)
  <2> HIDE DEF p, x
  <2>1. Rising(x.seen, x.from)
    BY <1>0, <1>1, <1>3
  <2>2. 1..MaxChunks \subseteq Nat
    OBVIOUS
  <2>3. /\ x.seen \in Seq(1..MaxChunks) /\ x.from \in 1..MaxChunks
        /\ y.seen = Append(x.seen, x.from)
    BY <1>3, <1>4, <1>6
  <2>4. Rising(y.seen, x.from + 1)
    BY <2>1, <2>2, <2>3, OneMore, Zenon
  <2>5. /\ Len(x.seen) \in Nat /\ Len(y.seen) = Len(x.seen) + 1
        /\ y.seen # <<>> /\ y.seen[Len(x.seen) + 1] = x.from
        /\ \A i \in 1..Len(x.seen) : y.seen[i] = x.seen[i]
    BY <2>3, AppendProperties
  <2> QED
    BY <2>4, <2>5
<1>8. Sent(y, p)
  <2> HIDE DEF p, x
  <2>1. /\ y.first <= y.from /\ y.from <= y.upto + 1 /\ y.upto < y.next /\ y.next <= p + 1
        /\ y.from <= y.upto => ~y.lagged /\ y.next = y.upto + 1
    BY <1>0, <1>1, <1>2, <1>3, <1>6
  <2>2. x.lagged \/ Len(x.seen) = x.from - x.first
    BY <1>0, <1>1, <1>2, <1>3
  <2>3. ~y.lagged => Len(y.seen) = (IF y.from <= y.upto THEN y.from ELSE y.next) - y.first
    <3> SUFFICES ASSUME ~y.lagged
                 PROVE  Len(y.seen) = (IF y.from <= y.upto THEN y.from ELSE y.next) - y.first
      OBVIOUS
    <3>1. x.from <= x.upto => x.next = x.upto + 1
      BY <1>0
    <3>2. ~x.lagged
      BY <1>6
    <3>3. Len(y.seen) = x.from - x.first + 1
      BY <1>7, <2>2, <3>2
    <3>4. /\ x.from \in Int /\ x.upto \in Int /\ x.next \in Int /\ x.first \in Int
          /\ x.from <= x.upto /\ y.from = x.from + 1 /\ y.next = x.next
          /\ y.upto = x.upto /\ y.first = x.first
      BY <1>1, <1>3, <1>6
    <3>5. CASE y.from <= y.upto
      BY <3>1, <3>3, <3>4, <3>5
    <3>6. CASE ~(y.from <= y.upto)
      BY <3>1, <3>3, <3>4, <3>6
    <3> QED
      BY <3>5, <3>6
  <2>4. ASSUME ~y.lagged, NEW i \in 1..Len(y.seen) PROVE y.seen[i] = y.first + i - 1
    <3>1. ~x.lagged /\ y.first = x.first
      BY <1>6, <2>4
    <3>2. CASE i \in 1..Len(x.seen)
      <4>1. y.seen[i] = x.seen[i]
        BY <1>7, <3>2
      <4>2. x.seen[i] = x.first + i - 1
        BY <1>0, <3>1, <3>2
      <4> QED
        BY <3>1, <4>1, <4>2
    <3>3. CASE i = Len(x.seen) + 1
      <4>1. y.seen[i] = x.from /\ Len(x.seen) = x.from - x.first
        BY <1>7, <2>2, <3>1, <3>3
      <4>2. x.from \in Int /\ x.first \in Int
        BY <1>3
      <4> QED
        BY <3>1, <3>3, <4>1, <4>2
    <3> QED
      BY <1>7, <3>2, <3>3
  <2>5. x.from + 1 = IF y.from <= y.upto THEN y.from ELSE y.next
    BY <1>0, <1>1, <1>2, <1>3, <1>6
  <2>6. y.from > y.upto => y.seen[Len(y.seen)] = y.next - 1
    BY <1>0, <1>1, <1>2, <1>3, <1>6, <1>7
  <2> QED
    BY <1>7, <2>1, <2>3, <2>4, <2>5, <2>6 DEF Sent
<1>9. StandsAt(y, session)
  BY <1>2, <1>6, <1>8 DEF StandsAt, Holding
<1> QED
  BY <1>1, <1>6, <1>9, ClientMoves DEF ConsoleInv, ConsoleTypeOK

LEMMA ReceiveStep ==
  ASSUME ConsoleAssumption, ConsoleInv, NEW c \in Clients, Receive(c)
  PROVE  ConsoleInv'
<1> DEFINE x == client[c]
           p == session[x.on].published
           y == [x EXCEPT !.seen = Append(@, x.next), !.next = @ + 1]
<1>1. /\ x.at = "live" /\ x.from > x.upto /\ x.next <= p
      /\ client' = [client EXCEPT ![c] = y] /\ UNCHANGED <<session, current, lock, left>>
  BY DEF Receive, Following, Open
<1>2. /\ x.on \in Sessions /\ p \in 0..MaxChunks /\ Sent(x, p)
      /\ session[x.on].pump \in Lives \cup {"done"}
  BY <1>1, AtHandler DEF Holding
<1>3. /\ x \in Client /\ x.seen \in Seq(1..MaxChunks) /\ x.on \in 0..MaxSessions
      /\ x.from \in 1..MaxChunks + 1 /\ x.upto \in 0..MaxChunks
      /\ x.next \in 1..MaxChunks + 1 /\ x.first \in 1..MaxChunks + 1 /\ MaxChunks \in Nat
  BY ConsoleFacts
<1>4. x.next \in 1..MaxChunks /\ x.next + 1 \in 1..MaxChunks + 1
  <2> HIDE DEF p, x
  <2> QED
    BY <1>1, <1>2, <1>3
<1>5. Append(x.seen, x.next) \in Seq(1..MaxChunks)
  BY <1>3, <1>4
<1>6. /\ y \in Client /\ y.at = "live" /\ y.on = x.on /\ y.from = x.from
      /\ y.upto = x.upto /\ y.next = x.next + 1 /\ y.first = x.first /\ y.lagged = x.lagged
      /\ y.seen = Append(x.seen, x.next)
  BY <1>1, <1>3, <1>4, <1>5 DEF Client
<1> HIDE DEF y
<1>0. /\ x.first <= x.from /\ x.from <= x.upto + 1 /\ x.upto < x.next /\ x.next <= p + 1
      /\ x.from <= x.upto => ~x.lagged /\ x.next = x.upto + 1
      /\ x.lagged \/ Len(x.seen) = (IF x.from <= x.upto THEN x.from ELSE x.next) - x.first
      /\ \A i \in 1..Len(x.seen) : ~x.lagged => x.seen[i] = x.first + i - 1
      /\ Rising(x.seen, IF x.from <= x.upto THEN x.from ELSE x.next)
  BY <1>2 DEF Sent
<1>7. /\ Len(x.seen) \in Nat /\ Len(y.seen) = Len(x.seen) + 1
      /\ y.seen # <<>> /\ y.seen[Len(y.seen)] = x.next
      /\ \A i \in 1..Len(x.seen) : y.seen[i] = x.seen[i]
      /\ Rising(y.seen, x.next + 1)
  <2> HIDE DEF p, x
  <2>1. Rising(x.seen, x.next)
    BY <1>0, <1>1, <1>3
  <2>2. 1..MaxChunks \subseteq Nat
    OBVIOUS
  <2>3. /\ x.seen \in Seq(1..MaxChunks) /\ x.next \in 1..MaxChunks
        /\ y.seen = Append(x.seen, x.next)
    BY <1>3, <1>4, <1>6
  <2>4. Rising(y.seen, x.next + 1)
    BY <2>1, <2>2, <2>3, OneMore, Zenon
  <2>5. /\ Len(x.seen) \in Nat /\ Len(y.seen) = Len(x.seen) + 1
        /\ y.seen # <<>> /\ y.seen[Len(x.seen) + 1] = x.next
        /\ \A i \in 1..Len(x.seen) : y.seen[i] = x.seen[i]
    BY <2>3, AppendProperties
  <2> QED
    BY <2>4, <2>5
<1>8. Sent(y, p)
  <2> HIDE DEF p, x
  <2>1. /\ y.first <= y.from /\ y.from <= y.upto + 1 /\ y.upto < y.next /\ y.next <= p + 1
        /\ y.from <= y.upto => ~y.lagged /\ y.next = y.upto + 1
    BY <1>0, <1>1, <1>2, <1>3, <1>6
  <2>2. x.lagged \/ Len(x.seen) = x.next - x.first
    BY <1>0, <1>1, <1>2, <1>3
  <2>3. ~y.lagged => Len(y.seen) = (IF y.from <= y.upto THEN y.from ELSE y.next) - y.first
    <3> SUFFICES ASSUME ~y.lagged
                 PROVE  Len(y.seen) = (IF y.from <= y.upto THEN y.from ELSE y.next) - y.first
      OBVIOUS
    <3>1. x.from <= x.upto => x.next = x.upto + 1
      BY <1>0
    <3>2. ~x.lagged
      BY <1>6
    <3>3. Len(y.seen) = x.next - x.first + 1
      BY <1>7, <2>2, <3>2
    <3>4. /\ x.from \in Int /\ x.upto \in Int /\ x.next \in Int /\ x.first \in Int
          /\ x.from > x.upto /\ y.from = x.from /\ y.next = x.next + 1
          /\ y.upto = x.upto /\ y.first = x.first
      BY <1>1, <1>3, <1>6
    <3>5. CASE y.from <= y.upto
      BY <3>1, <3>3, <3>4, <3>5
    <3>6. CASE ~(y.from <= y.upto)
      BY <3>1, <3>3, <3>4, <3>6
    <3> QED
      BY <3>5, <3>6
  <2>4. ASSUME ~y.lagged, NEW i \in 1..Len(y.seen) PROVE y.seen[i] = y.first + i - 1
    <3>1. ~x.lagged /\ y.first = x.first
      BY <1>6, <2>4
    <3>2. CASE i \in 1..Len(x.seen)
      <4>1. y.seen[i] = x.seen[i]
        BY <1>7, <3>2
      <4>2. x.seen[i] = x.first + i - 1
        BY <1>0, <3>1, <3>2
      <4> QED
        BY <3>1, <4>1, <4>2
    <3>3. CASE i = Len(x.seen) + 1
      <4>1. y.seen[i] = x.next /\ Len(x.seen) = x.next - x.first
        BY <1>7, <2>2, <3>1, <3>3
      <4>2. x.next \in Int /\ x.first \in Int
        BY <1>3
      <4> QED
        BY <3>1, <3>3, <4>1, <4>2
    <3> QED
      BY <1>7, <3>2, <3>3
  <2>5. x.next + 1 = IF y.from <= y.upto THEN y.from ELSE y.next
    BY <1>0, <1>1, <1>2, <1>3, <1>6
  <2>6. y.from > y.upto => y.seen[Len(y.seen)] = y.next - 1
    BY <1>0, <1>1, <1>2, <1>3, <1>6, <1>7
  <2> QED
    BY <1>7, <2>1, <2>3, <2>4, <2>5, <2>6 DEF Sent
<1>9. StandsAt(y, session)
  BY <1>2, <1>6, <1>8 DEF StandsAt, Holding
<1> QED
  BY <1>1, <1>6, <1>9, ClientMoves DEF ConsoleInv, ConsoleTypeOK

LEMMA LagStep ==
  ASSUME ConsoleAssumption, ConsoleInv, NEW c \in Clients, Lag(c)
  PROVE  ConsoleInv'
<1> DEFINE x == client[c]
           p == session[x.on].published
           y == [x EXCEPT !.next = p - Capacity + 1, !.lagged = TRUE]
<1>1. /\ x.at = "live" /\ x.from > x.upto /\ p - (x.next - 1) > Capacity
      /\ client' = [client EXCEPT ![c] = y] /\ UNCHANGED <<session, current, lock, left>>
  BY DEF Lag, Following, Open, Behind
<1>2. /\ x.on \in Sessions /\ p \in 0..MaxChunks /\ Sent(x, p)
      /\ session[x.on].pump \in Lives \cup {"done"}
  BY <1>1, AtHandler DEF Holding
<1>3. /\ x \in Client /\ x.seen \in Seq(1..MaxChunks) /\ x.on \in 0..MaxSessions
      /\ x.from \in 1..MaxChunks + 1 /\ x.upto \in 0..MaxChunks
      /\ x.next \in 1..MaxChunks + 1 /\ x.first \in 1..MaxChunks + 1 /\ MaxChunks \in Nat
      /\ Capacity \in Nat \ {0}
  BY ConsoleFacts
<1>4. p - Capacity + 1 \in 1..MaxChunks + 1 /\ p - Capacity + 1 > x.next /\ p - Capacity + 1 <= p
  <2> HIDE DEF p, x
  <2> QED
    BY <1>1, <1>2, <1>3
<1>5. /\ y \in Client /\ y.at = "live" /\ y.on = x.on /\ y.from = x.from
      /\ y.upto = x.upto /\ y.next = p - Capacity + 1 /\ y.first = x.first /\ y.lagged
      /\ y.seen = x.seen
  BY <1>1, <1>3, <1>4 DEF Client
<1>6. /\ Len(x.seen) \in Nat /\ \A i \in 1..Len(x.seen) : x.seen[i] \in Nat
  BY <1>3
<1> HIDE DEF y
<1>7. Sent(y, p)
  <2> HIDE DEF p, x
  <2>1. /\ y.first <= y.from /\ y.from <= y.upto + 1 /\ y.upto < y.next /\ y.next <= p
        /\ y.from > y.upto
    BY <1>1, <1>2, <1>3, <1>4, <1>5 DEF Sent
  <2>2. Rising(x.seen, x.next)
    <3>1. Rising(x.seen, IF x.from <= x.upto THEN x.from ELSE x.next)
      BY <1>2 DEF Sent
    <3>2. ~(x.from <= x.upto)
      BY <1>1, <1>3
    <3> QED
      BY <3>1, <3>2
  <2>3. Rising(y.seen, y.next)
    <3>1. y.seen = x.seen /\ y.next > x.next /\ y.next \in Int /\ x.next \in Int
      BY <1>3, <1>4, <1>5
    <3> QED
      BY <1>6, <2>2, <3>1 DEF Rising
  <2>4. p \in Nat /\ y.next \in Nat /\ y.from \in Nat /\ y.upto \in Nat
    BY <1>2, <1>3, <1>4, <1>5
  <2> QED
    BY <1>5, <2>1, <2>3, <2>4 DEF Sent
<1>8. StandsAt(y, session)
  BY <1>2, <1>5, <1>7 DEF StandsAt, Holding
<1> QED
  BY <1>1, <1>5, <1>8, ClientMoves DEF ConsoleInv, ConsoleTypeOK

(* A client moves, and a session with it.                                  *)
LEMMA BothMove ==
  ASSUME ConsoleAssumption, ConsoleInv, UNCHANGED <<lock, current, left>>,
         session' \in [Sessions -> Session],
         \A s \in Sessions : /\ Flows(session'[s])
                             /\ session[s].pump = "none" => session'[s].pump = "none",
         NEW c \in Clients, NEW y \in Client, client' = [client EXCEPT ![c] = y],
         client[c].at # "connecting", y.at # "connecting", StandsAt(y, session'),
         \A d \in Clients \ {c} : StandsAt(client[d], session')
  PROVE  ConsoleInv'
<1>1. client' \in [Clients -> Client]
  BY DEF ConsoleInv, ConsoleTypeOK
<1>2. client'[c] = y /\ \A d \in Clients \ {c} : client'[d] = client[d]
  BY DEF ConsoleInv, ConsoleTypeOK
<1>3. ConsoleTypeOK'
  BY <1>1 DEF ConsoleInv, ConsoleTypeOK
<1>4. Gate'
  BY <1>2 DEF ConsoleInv, Gate
<1>5. \A d \in Clients : StandsAt(client'[d], session')
  BY <1>2
<1> QED
  BY <1>3, <1>4, <1>5 DEF ConsoleInv

LEMMA AbortedShape ==
  ASSUME ConsoleAssumption
  PROVE  LET aborted == [NoSession EXCEPT !.pump = "aborted"]
         IN aborted \in Session /\ Flows(aborted)
<1> DEFINE aborted == [NoSession EXCEPT !.pump = "aborted"]
<1>1. /\ 0 \in 0..MaxChunks /\ 1 \in 1..MaxChunks + 1 /\ 0 \in 0..StdinCapacity
      /\ 0 \in 0..PipeCapacity /\ 0 + 0 <= MaxChunks /\ 1 <= 0 + 1
  BY DEF ConsoleAssumption
<1>2. aborted \in Session
  BY <1>1 DEF NoSession, Session
<1>3. /\ aborted.published = 0 /\ aborted.out = 0 /\ aborted.kept = 1
      /\ aborted.open = FALSE /\ aborted.pump = "aborted"
  BY DEF NoSession
<1> HIDE DEF aborted
<1>4. Flows(aborted)
  BY <1>1, <1>3 DEF Flows, Lives
<1> QED
  BY <1>2, <1>4 DEF aborted

(* The last client that leaves takes the session with it; nobody else has  *)
(* it.                                                                     *)
LEMMA LeavesStep ==
  ASSUME ConsoleAssumption, ConsoleInv, NEW c \in Clients, client[c].at \in Holding,
         client' = [client EXCEPT ![c] = NoClient], session' = WithoutLast(c),
         UNCHANGED <<current, lock, left>>
  PROVE  ConsoleInv'
<1> USE ConsoleFacts
<1> DEFINE s == client[c].on
<1>1. /\ NoClient \in Client /\ NoClient.at = "away" /\ StandsAt(NoClient, session')
      /\ client[c].at # "connecting"
  <2>1. NoClient \in Client /\ NoClient.at = "away"
    BY ClientShapes
  <2> QED
    BY <2>1 DEF StandsAt, Holding
<1>2. CASE session' = session
  <2>1. /\ session' \in [Sessions -> Session]
        /\ \A r \in Sessions : /\ Flows(session'[r])
                               /\ session[r].pump = "none" => session'[r].pump = "none"
        /\ \A d \in Clients \ {c} : StandsAt(client[d], session')
    BY <1>2 DEF ConsoleInv, ConsoleTypeOK
  <2> QED
    BY <1>1, <2>1, BothMove
<1>3. CASE session' # session
  <2> DEFINE aborted == [NoSession EXCEPT !.pump = "aborted"]
  <2>1. /\ Holders(s) = {c} /\ session[s].pump \in Lives
        /\ session' = [session EXCEPT ![s] = aborted]
    BY <1>3 DEF WithoutLast, Lives
  <2>2. s \in Sessions
    BY AtHandler
  <2>3. aborted \in Session /\ Flows(aborted)
    BY AbortedShape
  <2> HIDE DEF aborted
  <2>4. /\ session' \in [Sessions -> Session]
        /\ session'[s] = aborted /\ \A r \in Sessions \ {s} : session'[r] = session[r]
    BY <2>1, <2>2, <2>3 DEF ConsoleInv, ConsoleTypeOK
  <2>5. ASSUME NEW d \in Clients \ {c} PROVE StandsAt(client[d], session')
    <3>1. client[d].at \in Holding => client[d].on # s
      BY <2>1 DEF Holders
    <3>2. client[d].at = "heard_end" => client[d].on # s
      <4>1. client[d].at = "heard_end" => session[client[d].on].pump = "done"
        BY DEF StandsAt
      <4> QED
        BY <2>1, <4>1 DEF Lives
    <3>3. StandsAt(client[d], session)
      OBVIOUS
    <3> QED
      BY <2>4, <3>1, <3>2, <3>3 DEF StandsAt
  <2>6. \A r \in Sessions : /\ Flows(session'[r])
                            /\ session[r].pump = "none" => session'[r].pump = "none"
    BY <2>1, <2>3, <2>4 DEF Lives
  <2> QED
    BY <1>1, <2>4, <2>5, <2>6, BothMove
<1> QED
  BY <1>2, <1>3

LEMMA HearEndStep ==
  ASSUME ConsoleAssumption, ConsoleInv, NEW c \in Clients, HearEnd(c)
  PROVE  ConsoleInv'
<1> DEFINE x == client[c]
           y == [x EXCEPT !.at = "heard_end"]
           p == session[x.on].published
<1>1. /\ x.at = "live" /\ x.from > x.upto /\ ~session[x.on].open /\ x.next > p
      /\ client' = [client EXCEPT ![c] = y] /\ UNCHANGED <<current, lock, left>>
      /\ session' = WithoutLast(c)
  BY DEF HearEnd, Following, Open
<1>2. /\ x.on \in Sessions /\ Sent(x, p) /\ session[x.on].pump \in Lives \cup {"done"}
  BY <1>1, AtHandler DEF Holding
<1>3. session[x.on].pump = "done"
  BY <1>1, <1>2, ConsoleFacts DEF Flows
<1>4. session' = session
  BY <1>1, <1>3 DEF WithoutLast
<1>5. /\ y \in Client /\ y.at = "heard_end" /\ y.on = x.on /\ y.from = x.from
      /\ y.upto = x.upto /\ y.next = x.next /\ y.first = x.first /\ y.lagged = x.lagged
      /\ y.seen = x.seen
  BY ConsoleFacts DEF Client
<1> HIDE DEF y
<1>6. StandsAt(y, session)
  BY <1>1, <1>2, <1>3, <1>5 DEF StandsAt, Sent, Holding
<1> QED
  BY <1>1, <1>4, <1>5, <1>6, ClientMoves DEF ConsoleInv, ConsoleTypeOK

(* Whoever types or closes the tab was sent nothing by it.                 *)
LEMMA TabStep ==
  ASSUME ConsoleAssumption, ConsoleInv, NEW c \in Clients, Tab(c)
  PROVE  ConsoleInv'
<1> DEFINE x == client[c]
<1>1. PICK y \in {[x EXCEPT !.at = "sending"], [x EXCEPT !.tab = FALSE]} :
        /\ client' = [client EXCEPT ![c] = y] /\ y.at \in Holding
        /\ x.at \in Holding
        /\ left' \in [joins : 0..MaxJoins, inputs : 0..MaxInputs]
        /\ UNCHANGED <<session, current, lock>>
  <2>1. /\ left \in [joins : 0..MaxJoins, inputs : 0..MaxInputs]
        /\ {MaxJoins, MaxInputs} \subseteq Nat /\ x \in Client
    BY DEF ConsoleInv, ConsoleTypeOK, ConsoleAssumption
  <2>2. CASE Type(c)
    <3>1. left' \in [joins : 0..MaxJoins, inputs : 0..MaxInputs]
      BY <2>1, <2>2 DEF Type
    <3>2. [x EXCEPT !.at = "sending"].at = "sending"
      BY <2>1 DEF Client
    <3> QED
      BY <2>2, <3>1, <3>2 DEF Type, Following, Open, Holding
  <2>3. CASE TabCloses(c)
    <3>1. [x EXCEPT !.tab = FALSE].at = x.at
      BY <2>1 DEF Client
    <3> QED
      BY <2>1, <2>3, <3>1 DEF TabCloses
  <2> QED
    BY <2>2, <2>3 DEF Tab
<1>2. /\ x.on \in Sessions /\ Sent(x, session[x.on].published)
      /\ session[x.on].pump \in Lives \cup {"done"}
  BY <1>1, AtHandler
<1>3. /\ y \in Client /\ y.on = x.on /\ y.from = x.from
      /\ y.upto = x.upto /\ y.next = x.next /\ y.first = x.first /\ y.lagged = x.lagged
      /\ y.seen = x.seen
  BY <1>1, ConsoleFacts DEF Client
<1>4. StandsAt(y, session)
  BY <1>1, <1>2, <1>3 DEF StandsAt, Sent, Holding
<1> QED
  BY <1>1, <1>3, <1>4, ClientMoves DEF Holding

LEMMA QueueStep ==
  ASSUME ConsoleAssumption, ConsoleInv, NEW c \in Clients, Queue(c)
  PROVE  ConsoleInv'
<1> USE ConsoleFacts
<1> DEFINE x == client[c]
           s == x.on
           y == [x EXCEPT !.at = "live"]
           z == [session[s] EXCEPT !.queue = @ + 1]
<1>1. /\ x.at = "sending" /\ session[s].queue < StdinCapacity
      /\ session' = [session EXCEPT ![s] = z] /\ client' = [client EXCEPT ![c] = y]
      /\ UNCHANGED <<current, lock, left>>
  BY DEF Queue
<1>2. /\ s \in Sessions /\ Sent(x, session[s].published)
      /\ session[s].pump \in Lives \cup {"done"}
  BY <1>1, AtHandler DEF Holding
<1>3. z \in Session
  <2>1. session[s].queue + 1 \in 0..StdinCapacity
    <3>1. /\ session[s].queue \in 0..StdinCapacity /\ StdinCapacity \in Nat
          /\ session[s].queue < StdinCapacity
      BY <1>1, <1>2
    <3> QED
      BY ONLY <3>1
  <2>2. session[s] \in Session
    BY <1>2
  <2> QED
    BY <2>1, <2>2 DEF Session
<1>4. /\ z.published = session[s].published /\ z.pump = session[s].pump
      /\ z.out = session[s].out /\ z.kept = session[s].kept /\ z.open = session[s].open
  BY <1>2 DEF Session
<1>5. /\ y \in Client /\ y.at = "live" /\ y.on = x.on /\ y.from = x.from
      /\ y.upto = x.upto /\ y.next = x.next /\ y.first = x.first /\ y.lagged = x.lagged
      /\ y.seen = x.seen
  BY DEF Client
<1> HIDE DEF y, z
<1>6. /\ session' \in [Sessions -> Session]
      /\ session'[s] = z /\ \A r \in Sessions \ {s} : session'[r] = session[r]
  BY <1>1, <1>2, <1>3 DEF ConsoleInv, ConsoleTypeOK
<1>7. \A r \in Sessions : /\ Flows(session'[r])
                          /\ session[r].pump = "none" => session'[r].pump = "none"
  <2>1. Flows(session[s])
    BY <1>2
  <2>2. Flows(z)
    BY <1>4, <2>1 DEF Flows
  <2> QED
    BY <1>2, <1>4, <1>6, <2>2
<1>8. StandsAt(y, session')
  <2>1. Sent(y, session[s].published)
    BY <1>2, <1>5 DEF Sent
  <2> QED
    BY <1>2, <1>4, <1>5, <1>6, <2>1 DEF StandsAt, Holding
<1>9. ASSUME NEW d \in Clients \ {c} PROVE StandsAt(client[d], session')
  <2>1. StandsAt(client[d], session)
    OBVIOUS
  <2>2. client[d].at \in Holding \cup {"heard_end"} =>
          /\ client[d].on \in Sessions
          /\ session'[client[d].on].pump = session[client[d].on].pump
          /\ session'[client[d].on].published = session[client[d].on].published
    BY <1>4, <1>6, <2>1 DEF StandsAt
  <2> QED
    BY <2>1, <2>2 DEF StandsAt
<1> QED
  BY <1>1, <1>5, <1>6, <1>7, <1>8, <1>9, BothMove

(* Who joins gets the replay as it is and a receiver right behind it.      *)
LEMMA JoinStep ==
  ASSUME ConsoleAssumption, ConsoleInv, NEW c \in Clients, Join(c)
  PROVE  ConsoleInv'
<1> DEFINE y == Joined(current)
<1>1. /\ Joinable(current) /\ client' = [client EXCEPT ![c] = y]
      /\ UNCHANGED <<session, current, lock>> /\ client[c].at \in {"away", "heard_end"}
      /\ left.joins > 0 /\ left' = [left EXCEPT !.joins = @ - 1]
  BY DEF Join, Opens
<1>2. left' \in [joins : 0..MaxJoins, inputs : 0..MaxInputs]
  BY <1>1 DEF ConsoleInv, ConsoleTypeOK, ConsoleAssumption
<1>3. current \in Sessions /\ session[current].pump \in Lives
  <2>1. current \in Sessions
    BY <1>1 DEF Joinable, Sessions, ConsoleInv, ConsoleTypeOK, ConsoleAssumption
  <2> QED
    BY <1>1, <2>1 DEF Joinable, ConsoleInv, Flows
<1> DEFINE p == session[current].published
           k == session[current].kept
<1>4. p \in 0..MaxChunks /\ k \in 1..MaxChunks + 1 /\ k <= p + 1 /\ MaxChunks \in Nat
  BY <1>3, ConsoleFacts DEF Flows
<1>5. p + 1 \in 1..MaxChunks + 1 /\ <<>> \in Seq(1..MaxChunks) /\ current \in 0..MaxSessions
  <2>1. current \in 0..MaxSessions
    BY DEF ConsoleInv, ConsoleTypeOK
  <2> HIDE DEF p
  <2> QED
    BY <1>4, <2>1
<1>6. y \in Client
  <2>1. y = [at |-> "live", on |-> current, from |-> k, upto |-> p, next |-> p + 1,
             first |-> k, seen |-> <<>>, lagged |-> FALSE, tab |-> TRUE]
    BY DEF Joined
  <2> HIDE DEF y, p, k
  <2> QED
    BY <1>4, <1>5, <2>1 DEF Client
<1>7. /\ y.at = "live" /\ y.on = current /\ y.from = k /\ y.upto = p /\ y.next = p + 1
      /\ y.first = k /\ y.seen = <<>>
  BY DEF Joined
<1> HIDE DEF y
<1>8. Sent(y, p)
  <2>1. Len(y.seen) = 0
    BY <1>7
  <2>2. Rising(y.seen, IF y.from <= y.upto THEN y.from ELSE y.next)
    BY <2>1 DEF Rising
  <2>3. \A i \in 1..Len(y.seen) : y.seen[i] = y.first + i - 1
    BY <2>1
  <2> HIDE DEF p, k
  <2>4. /\ y.from <= y.upto => ~y.lagged
        /\ Len(y.seen) = (IF y.from <= y.upto THEN y.from ELSE y.next) - y.first
        /\ y.from > y.upto => y.next = y.first
    <3>1. ~y.lagged
      BY DEF y, Joined
    <3>2. k <= p \/ k = p + 1
      BY <1>4
    <3> QED
      BY <1>4, <1>7, <2>1, <3>1, <3>2
  <2> QED
    BY <1>4, <1>7, <2>2, <2>3, <2>4 DEF Sent
<1>9. StandsAt(y, session)
  BY <1>3, <1>7, <1>8 DEF StandsAt, Holding
<1> QED
  BY <1>1, <1>2, <1>6, <1>7, <1>9, ClientMoves

(* The lock is free: nobody is inside connect.                             *)
LEMMA ConnectStep ==
  ASSUME ConsoleAssumption, ConsoleInv, NEW c \in Clients, Connect(c)
  PROVE  ConsoleInv'
<1>1. /\ client' = [client EXCEPT ![c] = Connecting] /\ lock = NoOne /\ lock' = c
      /\ UNCHANGED <<session, current>> /\ \E s \in Sessions : session[s].pump = "none"
      /\ left.joins > 0 /\ left' = [left EXCEPT !.joins = @ - 1]
  BY DEF Connect, Opens, Connecting
<1>2. left' \in [joins : 0..MaxJoins, inputs : 0..MaxInputs]
  BY <1>1 DEF ConsoleInv, ConsoleTypeOK, ConsoleAssumption
<1>3. /\ Connecting \in Client /\ Connecting.at = "connecting"
  BY ClientShapes
<1>4. /\ client' \in [Clients -> Client] /\ client'[c] = Connecting
      /\ \A d \in Clients \ {c} : client'[d] = client[d]
  BY <1>1, <1>3 DEF ConsoleInv, ConsoleTypeOK
<1>5. ConsoleTypeOK'
  BY <1>1, <1>2, <1>4 DEF ConsoleInv, ConsoleTypeOK
<1>6. \A d \in Clients : client[d].at # "connecting"
  BY <1>1 DEF ConsoleInv, Gate, ConsoleAssumption, NoOne
<1>7. Gate'
  BY <1>1, <1>3, <1>4, <1>6 DEF Gate
<1>8. StandsAt(Connecting, session')
  BY <1>3 DEF StandsAt, Holding
<1> QED
  BY <1>1, <1>4, <1>5, <1>7, <1>8 DEF ConsoleInv

LEMMA ConnectFailsStep ==
  ASSUME ConsoleAssumption, ConsoleInv, NEW c \in Clients, ConnectFails(c)
  PROVE  ConsoleInv'
<1>1. /\ client' = [client EXCEPT ![c] = NoClient] /\ lock = c /\ lock' = NoOne
      /\ UNCHANGED <<session, current, left>>
  BY DEF ConnectFails
<1>2. /\ NoClient \in Client /\ NoClient.at = "away"
  BY ClientShapes
<1>3. /\ client' \in [Clients -> Client] /\ client'[c] = NoClient
      /\ \A d \in Clients \ {c} : client'[d] = client[d]
  BY <1>1, <1>2 DEF ConsoleInv, ConsoleTypeOK
<1>4. ConsoleTypeOK'
  BY <1>1, <1>3 DEF ConsoleInv, ConsoleTypeOK
<1>5. Gate'
  BY <1>1, <1>2, <1>3 DEF ConsoleInv, Gate, ConsoleAssumption, NoOne
<1>6. StandsAt(NoClient, session')
  BY <1>2 DEF StandsAt, Holding
<1> QED
  BY <1>1, <1>3, <1>4, <1>5, <1>6 DEF ConsoleInv

(* Whoever makes the session starts at its first chunk.                    *)
LEMMA SpawnStep ==
  ASSUME ConsoleAssumption, ConsoleInv, NEW c \in Clients, Spawn(c)
  PROVE  ConsoleInv'
<1> DEFINE s == Min({n \in Sessions : session[n].pump = "none"})
           x == [NoSession EXCEPT !.pump = "loop", !.open = TRUE, !.stream = TRUE]
           y == [client[c] EXCEPT !.at = "live", !.on = s]
<1>1. /\ lock = c /\ lock' = NoOne /\ UNCHANGED left /\ current' = s
      /\ session' = [session EXCEPT ![s] = x]
      /\ client' = [client EXCEPT ![c].at = "live", ![c].on = s]
  BY DEF Spawn
<1>2. client' = [client EXCEPT ![c] = y]
  BY <1>1 DEF ConsoleInv, ConsoleTypeOK
<1>3. s \in Sessions /\ session[s].pump = "none"
  <2> DEFINE free == {n \in Sessions : session[n].pump = "none"}
  <2>1. free # {} /\ free \subseteq Nat
    BY <1>1 DEF ConsoleInv, Gate, ConsoleAssumption, NoOne, Sessions
  <2> HIDE DEF free
  <2>2. Min(free) \in free
    BY <2>1, LeastIsThere
  <2> QED
    BY <2>2 DEF free
<1> HIDE DEF s
<1>4. client[c] = Connecting
  BY <1>1 DEF ConsoleInv, Gate
<1>5. x \in Session /\ Flows(x) /\ x.pump = "loop" /\ x.published = 0
  <2>1. /\ 0 \in 0..MaxChunks /\ 1 \in 1..MaxChunks + 1 /\ 0 \in 0..StdinCapacity
        /\ 0 \in 0..PipeCapacity /\ 0 + 0 <= MaxChunks /\ 1 <= 0 + 1
    BY DEF ConsoleAssumption
  <2>2. x \in Session
    BY <2>1 DEF NoSession, Session
  <2>3. /\ x.published = 0 /\ x.out = 0 /\ x.kept = 1 /\ x.open = TRUE /\ x.pump = "loop"
    BY DEF NoSession
  <2> HIDE DEF x
  <2> QED
    BY <2>1, <2>2, <2>3 DEF Flows, Lives
<1> HIDE DEF x
<1>6. /\ y \in Client /\ y.at = "live" /\ y.on = s /\ y.from = 1 /\ y.upto = 0
      /\ y.next = 1 /\ y.first = 1 /\ y.seen = <<>> /\ ~y.lagged
  <2>1. Connecting \in Client /\ ~Connecting.lagged
    BY ClientShapes DEF Connecting, NoClient
  <2>2. s \in 0..MaxSessions
    BY <1>3 DEF Sessions, ConsoleAssumption
  <2> QED
    BY <1>4, <2>1, <2>2, ClientShapes DEF Client
<1> HIDE DEF y
<1>7. /\ session' \in [Sessions -> Session] /\ session'[s] = x
      /\ \A r \in Sessions \ {s} : session'[r] = session[r]
  BY <1>1, <1>3, <1>5 DEF ConsoleInv, ConsoleTypeOK
<1>8. /\ client' \in [Clients -> Client] /\ client'[c] = y
      /\ \A d \in Clients \ {c} : client'[d] = client[d]
  BY <1>2, <1>6 DEF ConsoleInv, ConsoleTypeOK
<1>9. ConsoleTypeOK'
  <2>1. s \in 0..MaxSessions
    BY <1>3 DEF Sessions, ConsoleAssumption
  <2> QED
    BY <1>1, <1>7, <1>8, <2>1 DEF ConsoleInv, ConsoleTypeOK
<1>10. \A r \in Sessions : Flows(session'[r])
  BY <1>5, <1>7 DEF ConsoleInv
<1>11. Gate'
  BY <1>1, <1>6, <1>8 DEF ConsoleInv, Gate, ConsoleAssumption, NoOne
<1>12. StandsAt(y, session')
  <2>1. Rising(y.seen, 1)
    BY <1>6 DEF Rising
  <2>2. Sent(y, 0)
    BY <1>6, <2>1 DEF Sent
  <2> QED
    BY <1>3, <1>5, <1>6, <1>7, <2>2 DEF StandsAt, Holding, Lives
<1>13. ASSUME NEW d \in Clients \ {c} PROVE StandsAt(client[d], session')
  <2>1. StandsAt(client[d], session)
    BY DEF ConsoleInv
  <2>2. client[d].at \in Holding \cup {"heard_end"} =>
          client[d].on \in Sessions /\ client[d].on # s
    BY <1>3, <2>1 DEF StandsAt, Lives
  <2> QED
    BY <1>7, <2>1, <2>2 DEF StandsAt
<1> QED
  BY <1>8, <1>9, <1>10, <1>11, <1>12, <1>13 DEF ConsoleInv

LEMMA ConsoleInvStep ==
  ConsoleAssumption /\ ConsoleInv /\ [ConsoleNext]_consoleVars => ConsoleInv'
<1> SUFFICES ASSUME ConsoleAssumption, ConsoleInv, [ConsoleNext]_consoleVars
             PROVE  ConsoleInv'
  OBVIOUS
<1>1. ASSUME NEW s \in Sessions, App(s) \/ Pump(s) PROVE ConsoleInv'
  BY <1>1, AppStep, PumpStep
<1>2. ASSUME NEW c \in Clients, Subscribe(c) PROVE ConsoleInv'
  BY <1>2, JoinStep, ConnectStep DEF Subscribe
<1>3. ASSUME NEW c \in Clients, Handler(c) PROVE ConsoleInv'
  <2>1. CASE QueueFails(c) \/ LeaveConsole(c)
    BY <2>1, LeavesStep DEF QueueFails, LeaveConsole, Open, Holding
  <2>2. CASE ~(QueueFails(c) \/ LeaveConsole(c))
    BY <1>3, <2>2, SpawnStep, ConnectFailsStep, SendReplayStep, LagStep, ReceiveStep,
       HearEndStep, QueueStep DEF Handler
  <2> QED
    BY <2>1, <2>2
<1>4. ASSUME NEW c \in Clients, Tab(c) PROVE ConsoleInv'
  BY <1>4, TabStep
<1>5. CASE UNCHANGED consoleVars
  BY <1>5 DEF consoleVars, ConsoleInv, ConsoleTypeOK, Gate
<1> QED
  BY <1>1, <1>2, <1>3, <1>4, <1>5 DEF ConsoleNext

(* Every variable of the console keeps its type.                           *)
THEOREM ConsoleTypeCorrect ==
  ASSUME ConsoleAssumption
  PROVE  ConsoleSpec => []ConsoleTypeOK
<1>1. ConsoleInv => ConsoleTypeOK
  BY DEF ConsoleInv
<1> QED
  BY <1>1, ConsoleInvInit, ConsoleInvStep, PTL DEF ConsoleSpec

(* A client is sent every chunk from where it joined once and in order,    *)
(* until it lags: the replay and the receiver meet without a gap; and who  *)
(* hears of the end has had the last one.                                  *)
THEOREM EveryChunkOnce ==
  ASSUME ConsoleAssumption
  PROVE  ConsoleSpec => []ExactlyOnce
<1>1. ConsoleInv => ExactlyOnce
  BY ConsoleInvImplies
<1> QED
  BY <1>1, ConsoleInvInit, ConsoleInvStep, PTL DEF ConsoleSpec

-----------------------------------------------------------------------------
(* A shell job: the deadline leaves nothing of its group                   *)

JobInv ==
  /\ JobTypeOK
  /\ status = "timeout" => group = {} /\ waiter \in {"joining", "done"}

LEMMA JobInvInit == ShellAssumption /\ JobInit => JobInv
<1>1. ShellAssumption => 0 \in 0..MaxOut
  BY DEF ShellAssumption
<1> QED
  BY <1>1 DEF JobInit, JobInv, JobTypeOK

LEMMA JobInvStep == ShellAssumption /\ JobInv /\ [JobNext]_jobVars => JobInv'
<1> SUFFICES ASSUME ShellAssumption, JobInv, [JobNext]_jobVars PROVE JobInv'
  OBVIOUS
<1> USE DEF JobInv, JobTypeOK
<1>1. ASSUME NEW p \in All, NEW q \in All, NEW leaves \in BOOLEAN, NEW redirects \in BOOLEAN,
             Fork(p, q, leaves, redirects)
      PROVE  JobInv'
  BY <1>1 DEF Fork
<1>2. ASSUME NEW p \in All, Exit(p) PROVE JobInv'
  BY <1>2 DEF Exit
<1>3. CASE StartShell
  BY <1>3 DEF StartShell, All
<1>4. CASE Read
  <2>1. captured' \in 0..MaxOut
    <3>1. captured' = captured \/ (captured < MaxOut /\ captured' = captured + 1)
      BY <1>4, Zenon DEF Read
    <3>2. captured \in 0..MaxOut /\ MaxOut \in Nat
      BY DEF ShellAssumption
    <3> QED
      BY ONLY <3>1, <3>2
  <2>2. reader' \in BOOLEAN
    BY <1>4 DEF Read
  <2> QED
    BY <1>4, <2>1, <2>2 DEF Read
<1>5. CASE DeadlinePasses
  BY <1>5 DEF DeadlinePasses
<1>6. CASE Poll
  BY <1>6 DEF Poll
<1>7. CASE Expire
  <2>1. CASE deadline
    <3>1. /\ proc' = [p \in All |-> IF p \in group THEN "killed" ELSE proc[p]]
          /\ group' = group \ group /\ pipe' = pipe \ group
          /\ waiter' = "joining" /\ status' = "timeout"
          /\ UNCHANGED <<captured, reader, deadline>>
      BY <1>7, <2>1 DEF Expire, Killed
    <3>2. proc' \in [All -> {"none", "alive", "exited", "killed"}]
      BY <3>1
    <3> QED
      BY <3>1, <3>2
  <2>2. CASE ~deadline
    BY <1>7, <2>2 DEF Expire
  <2> QED
    BY <2>1, <2>2
<1>8. CASE JoinReader
  BY <1>8 DEF JoinReader
<1>9. CASE UNCHANGED jobVars
  BY <1>9 DEF jobVars
<1> QED
  BY <1>1, <1>2, <1>3, <1>4, <1>5, <1>6, <1>7, <1>8, <1>9 DEF JobNext

(* A job that timed out leaves no process in its group, however many it    *)
(* started and whenever.                                                   *)
THEOREM TimeoutLeavesNothing ==
  ASSUME ShellAssumption
  PROVE  JobSpec => [](JobTypeOK /\ TimeoutKillsTheGroup)
<1>1. JobInv => JobTypeOK /\ TimeoutKillsTheGroup
  BY DEF JobInv, TimeoutKillsTheGroup
<1> QED
  BY <1>1, JobInvInit, JobInvStep, PTL DEF JobSpec

-----------------------------------------------------------------------------
(* The file manager: what was reported is whole, temporary files are owned *)

(* Types, but for what is stale or good, which takes the invariant below.  *)
PlacedCall ==
  {x \in FileCall :
     /\ x.at # "idle" => x.from \in Names /\ x.to \in Names
     /\ x.kind = "copy" /\ x.at = "data" => x.src \in Inodes}
FilesShapes ==
  /\ entry \in [Names -> Inodes \union {NoFile}] /\ content \in [Inodes -> Content]
  /\ parts \subseteq Inodes
  /\ task \in [Calls -> PlacedCall]
  /\ limits \in [calls : 0..MaxFileCalls, fails : 0..MaxFileFails]

LEMMA FilesShapesInit ==
  FilesAssumption /\ FilesInit => FilesShapes
BY DEF FilesAssumption, FilesInit, FilesShapes, PlacedCall, FileCall, NoCall, NewCall, Inodes, NoFile, NoName, Content

LEMMA CallTypes ==
  ASSUME FilesAssumption, FilesShapes, NEW c \in Calls
  PROVE  /\ NoCall \in PlacedCall
         /\ task[c].at # "idle" =>
              \A at \in {"settle", "rename"} : [task[c] EXCEPT !.at = at] \in PlacedCall
         /\ limits.calls \in 0..MaxFileCalls /\ limits.fails \in 0..MaxFileFails
         /\ Asks => limits' \in [calls : 0..MaxFileCalls, fails : 0..MaxFileFails]
                    /\ limits.calls + 2 \in Inodes
         /\ FileFails => limits' \in [calls : 0..MaxFileCalls, fails : 0..MaxFileFails]
<1>1. task[c] \in PlacedCall
  BY DEF FilesShapes
<1>2. NoCall \in PlacedCall
  BY DEF FilesAssumption, PlacedCall, FileCall, NoCall, NewCall, NoFile
<1>3. task[c].at # "idle" =>
        \A at \in {"settle", "rename"} : [task[c] EXCEPT !.at = at] \in PlacedCall
  BY <1>1 DEF PlacedCall, FileCall
<1>4. Asks => limits' \in [calls : 0..MaxFileCalls, fails : 0..MaxFileFails]
              /\ limits.calls + 2 \in Inodes
  BY DEF FilesAssumption, FilesShapes, Asks, Inodes
<1>5. FileFails => limits' \in [calls : 0..MaxFileCalls, fails : 0..MaxFileFails]
  BY DEF FilesAssumption, FilesShapes, FileFails
<1> QED
  BY <1>2, <1>3, <1>4, <1>5 DEF FilesShapes

LEMMA FilesShapesStep ==
  FilesAssumption /\ FilesShapes /\ [FilesNext]_filesVars => FilesShapes'
<1> SUFFICES ASSUME FilesAssumption, FilesShapes, [FilesNext]_filesVars
             PROVE  FilesShapes'
  OBVIOUS
<1> USE DEF FilesShapes
<1>1. ASSUME NEW c \in Calls, NEW kind \in {"upload", "copy", "archive", "move"},
             NEW at \in {"body", "rename", "open"}, NEW m \in Names, NEW n \in Names,
             Asks, Begins(c, kind, at, m, n)
      PROVE  task' \in [Calls -> PlacedCall]
  <2>1. limits.calls + 2 \in Inodes
    BY <1>1, CallTypes
  <2>2. NewCall(kind, at, m, n, limits.calls + 2) \in PlacedCall
    BY <2>1 DEF FilesAssumption, PlacedCall, FileCall, NewCall, NoFile
  <2> QED
    BY <1>1, <2>2 DEF Begins
<1>2. ASSUME NEW c \in Calls, CallEnds(c) PROVE task' \in [Calls -> PlacedCall]
  BY <1>2, CallTypes DEF CallEnds
<1>6. ASSUME NEW i, NEW b \in BOOLEAN
      PROVE  [content EXCEPT ![i].whole = b] \in [Inodes -> Content]
  BY DEF Content
<1>3. ASSUME NEW c \in Calls, Upload(c) PROVE FilesShapes'
  <2>1. /\ limits' \in [calls : 0..MaxFileCalls, fails : 0..MaxFileFails]
        /\ limits.calls + 2 \in Inodes
    BY <1>3, CallTypes DEF Upload
  <2>2. task' \in [Calls -> PlacedCall]
    BY <1>1, <1>3 DEF Upload
  <2>3. content' \in [Inodes -> Content] /\ parts' \subseteq Inodes
    BY <1>3, <2>1 DEF Upload, Content
  <2> QED
    BY <1>3, <2>1, <2>2, <2>3 DEF Upload
<1>4. ASSUME NEW c \in Calls, Send(c) \/ BodyEnds(c) \/ BodyIsCut(c) PROVE FilesShapes'
  <2>1. task[c].sent < UploadSize => [task[c] EXCEPT !.sent = @ + 1] \in PlacedCall
    <3>1. task[c] \in PlacedCall
      OBVIOUS
    <3> QED
      BY <3>1 DEF FilesAssumption, PlacedCall, FileCall
  <2>2. \A b \in {"ended", "cut"} : [task[c] EXCEPT !.body = b] \in PlacedCall
    <3>1. task[c] \in PlacedCall
      OBVIOUS
    <3> QED
      BY <3>1 DEF PlacedCall, FileCall
  <2>3. task' \in [Calls -> PlacedCall]
    BY <1>4, <2>1, <2>2 DEF Send, BodyEnds, BodyIsCut
  <2> QED
    BY <1>4, <2>3 DEF Send, BodyEnds, BodyIsCut
<1>5. ASSUME NEW c \in Calls, WriteChunk(c) PROVE FilesShapes'
  <2>1. task[c].written < task[c].sent => [task[c] EXCEPT !.written = @ + 1] \in PlacedCall
    <3>1. task[c] \in PlacedCall
      OBVIOUS
    <3> QED
      BY <3>1 DEF FilesAssumption, PlacedCall, FileCall
  <2>2. task' \in [Calls -> PlacedCall] /\ limits' \in [calls : 0..MaxFileCalls, fails : 0..MaxFileFails]
    BY <1>2, <1>5, <2>1, CallTypes DEF WriteChunk, CallWorks
  <2>3. content' \in [Inodes -> Content]
    <3> DEFINE b == (task[c].written + 1 = UploadSize)
    <3>1. b \in BOOLEAN
      OBVIOUS
    <3>2. content' = content \/ content' = [content EXCEPT ![task[c].ino].whole = b]
      BY <1>5, Zenon DEF WriteChunk
    <3> HIDE DEF b
    <3> QED
      BY <1>6, <3>1, <3>2
  <2>4. parts' \subseteq Inodes
    BY <1>5 DEF WriteChunk
  <2> QED
    BY <1>5, <2>2, <2>3, <2>4 DEF WriteChunk
<1>7. ASSUME NEW c \in Calls, ChannelCloses(c) \/ Settle(c) PROVE FilesShapes'
  <2>1. task' \in [Calls -> PlacedCall]
    BY <1>2, <1>7, CallTypes DEF ChannelCloses, Settle, Goes, Stranded, Runs
  <2>2. limits' \in [calls : 0..MaxFileCalls, fails : 0..MaxFileFails]
    BY <1>7, CallTypes DEF ChannelCloses, Settle, CallWorks, Stranded
  <2> QED
    BY <1>7, <2>1, <2>2 DEF ChannelCloses, Settle
<1>8. ASSUME NEW c \in Calls, Commit(c) PROVE FilesShapes'
  <2>1. task' \in [Calls -> PlacedCall]
    BY <1>2, <1>8 DEF Commit, Stranded
  <2>2. limits' \in [calls : 0..MaxFileCalls, fails : 0..MaxFileFails]
    BY <1>8, CallTypes DEF Commit, CallWorks, Stranded
  <2>3. entry' \in [Names -> Inodes \union {NoFile}] /\ parts' \subseteq Inodes
    <3>1. task[c] \in PlacedCall
      OBVIOUS
    <3>2. task[c].ino \in Inodes \union {NoFile}
      BY <3>1 DEF PlacedCall, FileCall
    <3> QED
      BY <1>8, <3>2 DEF Commit
  <2> QED
    BY <1>8, <2>1, <2>2, <2>3 DEF Commit
<1>9. ASSUME NEW c \in Calls, AskFor(c) PROVE FilesShapes'
  <2>1. task' \in [Calls -> PlacedCall]
    <3>1. PICK m, n \in Names : \/ \E kind \in {"copy", "archive"} : Begins(c, kind, "open", m, n)
                               \/ Begins(c, "move", "rename", m, n)
      BY <1>9 DEF AskFor
    <3> QED
      BY <1>1, <1>9, <3>1 DEF AskFor
  <2>2. limits' \in [calls : 0..MaxFileCalls, fails : 0..MaxFileFails]
    BY <1>9, CallTypes DEF AskFor
  <2> QED
    BY <1>9, <2>1, <2>2 DEF AskFor
<1>10. ASSUME NEW c \in Calls, NEW src \in Inodes \union {NoFile}, Truncate(c, src),
              task[c].at = "open", task[c].kind \in {"copy", "archive"}, CallWorks,
              task[c].kind = "copy" => src \in Inodes, UNCHANGED <<parts, stale>>
       PROVE  FilesShapes'
  <2> DEFINE dst == IF entry[task[c].to] = NoFile THEN task[c].ino ELSE entry[task[c].to]
             hit == \E d \in Writers : task[d].ino \in {src, dst}
             touched(d) == task[d].at = "data" /\ dst \in {task[d].ino, task[d].src}
             moved == [task[c] EXCEPT !.at = "data", !.src = src, !.ino = dst, !.met = hit]
             told(d) == [task[d] EXCEPT !.met = @ \/ touched(d)]
  <2>1. task[c] \in PlacedCall
    OBVIOUS
  <2>2. dst \in Inodes \union {NoFile}
    BY <1>10, <2>1 DEF PlacedCall, FileCall
  <2>3. /\ entry' = [entry EXCEPT ![task[c].to] = dst]
        /\ content' = [content EXCEPT ![dst] = [by |-> task[c].kind, whole |-> FALSE]]
        /\ task' = [d \in Calls |-> IF d = c THEN moved ELSE told(d)]
    BY <1>10, Zenon DEF Truncate
  <2>4. moved \in PlacedCall
    <3> hit \in BOOLEAN
      OBVIOUS
    <3> HIDE DEF hit, dst
    <3> QED
      BY <1>10, <2>1, <2>2 DEF PlacedCall, FileCall
  <2>5. ASSUME NEW d \in Calls PROVE told(d) \in PlacedCall
    <3> DEFINE b == task[d].met \/ touched(d)
    <3>1. b \in BOOLEAN /\ told(d) = [task[d] EXCEPT !.met = b] /\ task[d] \in PlacedCall
      BY Zenon
    <3> HIDE DEF b, told
    <3> QED
      BY <3>1 DEF PlacedCall, FileCall
  <2> HIDE DEF dst, moved, told
  <2>6. task' \in [Calls -> PlacedCall]
    BY <2>3, <2>4, <2>5
  <2>7. entry' \in [Names -> Inodes \union {NoFile}]
    BY <2>2, <2>3
  <2>8. content' \in [Inodes -> Content]
    BY <1>10, <2>3 DEF Content
  <2> QED
    BY <1>10, <2>6, <2>7, <2>8 DEF CallWorks
<1>11. ASSUME NEW c \in Calls, CopyOpens(c) \/ ArchiveOpens(c) PROVE FilesShapes'
  <2>1. task[c] \in PlacedCall
    OBVIOUS
  <2>2. entry[task[c].from] \in Inodes \union {NoFile}
    BY <1>11, <2>1 DEF CopyOpens, ArchiveOpens, Runs, PlacedCall
  <2>3. CASE CopyOpens(c) /\ entry[task[c].from] # NoFile /\ Truncate(c, entry[task[c].from])
             /\ CallWorks
    <3>1. entry[task[c].from] \in Inodes
      BY <2>2, <2>3
    <3> QED
      BY <1>10, <2>3, <3>1 DEF CopyOpens, Runs
  <2>4. CASE ArchiveOpens(c) /\ Truncate(c, NoFile) /\ CallWorks
    BY <1>10, <2>4 DEF ArchiveOpens, Runs
  <2>5. CASE CallEnds(c) /\ (CallWorks \/ FileFails) /\ UNCHANGED <<entry, content, parts>>
    <3>1. task' \in [Calls -> PlacedCall]
      BY <1>2, <2>5
    <3>2. limits' \in [calls : 0..MaxFileCalls, fails : 0..MaxFileFails]
      BY <2>5, CallTypes DEF CallWorks
    <3> QED
      BY <2>5, <3>1, <3>2
  <2> QED
    BY <1>11, <2>3, <2>4, <2>5, Zenon DEF CopyOpens, ArchiveOpens
<1>12. ASSUME NEW c \in Calls, CopyEnds(c) \/ ArchiveEnds(c) PROVE FilesShapes'
  <2>1. task' \in [Calls -> PlacedCall] /\ limits' \in [calls : 0..MaxFileCalls, fails : 0..MaxFileFails]
    BY <1>2, <1>12, CallTypes DEF CopyEnds, ArchiveEnds, CallWorks
  <2>2. content' \in [Inodes -> Content]
    <3>1. \/ UNCHANGED content
          \/ \E whole \in BOOLEAN : content' = [content EXCEPT ![task[c].ino].whole = whole]
      <4>1. ASSUME NEW src, NEW full \in BOOLEAN, Written(c, src, full)
            PROVE  \E whole \in BOOLEAN : content' = [content EXCEPT ![task[c].ino].whole = whole]
        BY <4>1, Zenon DEF Written
      <4>2. CASE CopyEnds(c)
        <5>1. content[task[c].src].whole \in BOOLEAN
          <6>1. task[c] \in PlacedCall /\ task[c].kind = "copy" /\ task[c].at = "data"
            BY <4>2 DEF CopyEnds, Runs
          <6>2. content[task[c].src] \in Content
            BY <6>1 DEF PlacedCall
          <6> QED
            BY <6>2 DEF Content
        <5> QED
          BY <4>1, <4>2, <5>1 DEF CopyEnds
      <4>3. CASE ArchiveEnds(c)
        BY <4>1, <4>3 DEF ArchiveEnds
      <4> QED
        BY <1>12, <4>2, <4>3
    <3>2. ASSUME NEW whole \in BOOLEAN, content' = [content EXCEPT ![task[c].ino].whole = whole]
          PROVE  content' \in [Inodes -> Content]
      BY <1>6, <3>2
    <3> QED
      BY <3>1, <3>2
  <2> QED
    BY <1>12, <2>1, <2>2 DEF CopyEnds, ArchiveEnds
<1>13. ASSUME NEW c \in Calls, Moves(c) PROVE FilesShapes'
  <2>1. task' \in [Calls -> PlacedCall] /\ limits' \in [calls : 0..MaxFileCalls, fails : 0..MaxFileFails]
    BY <1>2, <1>13, CallTypes DEF Moves, CallWorks
  <2>2. task[c] \in PlacedCall /\ task[c].at # "idle"
    BY <1>13 DEF Moves, Runs
  <2>3. entry' \in [Names -> Inodes \union {NoFile}]
    BY <1>13, <2>2 DEF Moves, PlacedCall
  <2> QED
    BY <1>13, <2>1, <2>3 DEF Moves
<1>14. CASE DeletePath \/ Link
  <2>1. entry' \in [Names -> Inodes \union {NoFile}]
    BY <1>14 DEF DeletePath, Link
  <2>2. limits' \in [calls : 0..MaxFileCalls, fails : 0..MaxFileFails]
    BY <1>14 DEF DeletePath, Link, Asks, FilesAssumption
  <2> QED
    BY <1>14, <2>1, <2>2 DEF DeletePath, Link
<1>15. CASE DaemonDies
  <2>1. NoCall \in PlacedCall
    BY DEF FilesAssumption, PlacedCall, FileCall, NoCall, NewCall, NoFile
  <2>2. limits' \in [calls : 0..MaxFileCalls, fails : 0..MaxFileFails]
    BY <1>15 DEF DaemonDies, FileFails, FilesAssumption
  <2> QED
    BY <1>15, <2>1, <2>2 DEF DaemonDies
<1> QED
  BY <1>3, <1>4, <1>5, <1>7, <1>8, <1>9, <1>11, <1>12, <1>13, <1>14, <1>15 DEF FilesNext, filesVars

-----------------------------------------------------------------------------
(* Files are numbered as calls make them, so a number that is to come is   *)
(* nowhere yet.                                                            *)
Known ==
  /\ \A n \in Names : entry[n] <= limits.calls + 1
  /\ \A i \in good \union parts : i <= limits.calls + 1
  /\ \A c \in Calls : task[c].ino <= limits.calls + 1

(* An upload works on a temporary file that is whole once all of its chunks *)
(* are written, and gets to its end only when the body did.                *)
UploadFits(x) ==
  /\ x.at \in {"body", "settle", "rename"}
  /\ x.ino \in Inodes /\ x.ino \in parts /\ x.ino \notin stale /\ x.ino \notin good
  /\ content[x.ino].whole <=> x.written = UploadSize
  /\ x.body = "ended" => x.sent = UploadSize
  /\ x.at # "body" => x.body # "open" /\ x.written = x.sent

(* What the others write has a name or no file yet, and is not good while  *)
(* they are at it.                                                         *)
OtherFits(x) ==
  /\ x.at \in {"open", "data", "rename"}
  /\ x.ino \in Inodes /\ x.ino \notin parts
  /\ x.at = "data" => x.ino \notin good

CallFits(x) ==
  /\ x.kind = "none" <=> x.at = "idle"
  /\ x.kind = "upload" => UploadFits(x)
  /\ x.kind \in {"copy", "archive", "move"} => OtherFits(x)

(* No file of an upload is another's, and two that write one file know it. *)
Apart(x, y) ==
  /\ x.kind = "upload" /\ y.kind # "none" => x.ino # y.ino
  /\ x.at = "data" /\ y.at = "data" /\ x.ino = y.ino => x.met

Owned == \A i \in parts \ stale : \E c \in Calls : task[c].kind = "upload" /\ task[c].ino = i
Hidden == \A n \in Names : entry[n] \notin parts

CallsFit == \A c \in Calls : CallFits(task[c])
CallsApart == \A c, d \in Calls : c # d => Apart(task[c], task[d])

FilesInv ==
  /\ FilesShapes /\ Known
  /\ stale \subseteq parts /\ good \subseteq Inodes
  /\ ReportedIsWhole /\ Owned /\ Hidden
  /\ CallsFit /\ CallsApart

LEMMA FilesInvInit ==
  FilesAssumption /\ FilesInit => FilesInv
<1> SUFFICES ASSUME FilesAssumption, FilesInit PROVE FilesInv
  OBVIOUS
<1>1. FilesShapes
  BY FilesShapesInit
<1>2. Known /\ stale \subseteq parts /\ good \subseteq Inodes /\ ReportedIsWhole /\ Owned /\ Hidden
  BY DEF FilesAssumption, FilesInit, Known, ReportedIsWhole, Owned, Hidden, NoCall, NewCall, NoFile, Inodes
<1>3. \A c \in Calls : task[c] = NoCall
  BY DEF FilesInit
<1>4. CallFits(NoCall) /\ Apart(NoCall, NoCall)
  BY DEF CallFits, Apart, NoCall, NewCall
<1> QED
  BY <1>1, <1>2, <1>3, <1>4 DEF FilesInv, CallsFit, CallsApart

(* One call goes on, or ends, and the others fit as they did.              *)
LEMMA OneMoves ==
  ASSUME FilesInv, NEW c \in Calls, NEW y, task' = [task EXCEPT ![c] = y], CallFits(y)',
         \A d \in Calls \ {c} : CallFits(task[d])',
         \A d \in Calls \ {c} : Apart(y, task[d]) /\ Apart(task[d], y)
  PROVE  CallsFit' /\ CallsApart'
<1>1. task'[c] = y /\ \A d \in Calls \ {c} : task'[d] = task[d]
  BY DEF FilesInv, FilesShapes
<1>2. CallsFit'
  BY <1>1 DEF CallsFit
<1>3. CallsApart'
  BY <1>1 DEF FilesInv, CallsApart
<1> QED
  BY <1>2, <1>3

(* No call is touched by what happens to files that are none of its own.   *)
LEMMA NotItsOwn ==
  ASSUME NEW x, CallFits(x),
         parts' \intersect {x.ino} = parts \intersect {x.ino},
         x.kind = "upload" => x.ino \notin stale' /\ content'[x.ino] = content[x.ino],
         x.kind # "none" => (x.ino \in good' => x.ino \in good)
  PROVE  CallFits(x)'
BY DEF CallFits, UploadFits, OtherFits

(* What OthersFit asks of a step: the files of the other calls are left    *)
(* alone.                                                                  *)
LEMMA OthersFit ==
  ASSUME FilesInv, NEW c \in Calls, NEW y, task' = [task EXCEPT ![c] = y],
         \A d \in Calls \ {c} :
           LET i == task[d].ino
           IN  /\ i \in parts' <=> i \in parts
               /\ task[d].kind = "upload" => i \notin stale' /\ content'[i] = content[i]
               /\ task[d].kind # "none" => (i \in good' => i \in good)
  PROVE  \A d \in Calls \ {c} : CallFits(task[d])'
<1> SUFFICES ASSUME NEW d \in Calls \ {c} PROVE CallFits(task[d])'
  OBVIOUS
<1>1. PICK x : x = task[d]
  OBVIOUS
<1>2. CallFits(x)
  BY <1>1 DEF FilesInv, CallsFit
<1>3. CallFits(x)'
  BY <1>1, <1>2, NotItsOwn
<1>4. task'[d] = x
  BY <1>1 DEF FilesInv, FilesShapes
<1> QED
  BY <1>3, <1>4

(* A call that starts, or that ends, stands apart from the others.         *)
LEMMA NoCallIsApart ==
  ASSUME NEW x PROVE Apart(NoCall, x) /\ Apart(x, NoCall) /\ CallFits(NoCall)'
BY DEF Apart, CallFits, NoCall, NewCall

LEMMA NewCallIsApart ==
  ASSUME FilesInv, NEW d \in Calls, NEW kind, NEW at \in {"body", "open", "rename"},
         NEW m, NEW n, NEW i, i = limits.calls + 2
  PROVE  Apart(NewCall(kind, at, m, n, i), task[d]) /\ Apart(task[d], NewCall(kind, at, m, n, i))
<1>1. limits.calls \in Int /\ task[d].ino <= limits.calls + 1 /\ task[d].ino \in Nat
  BY DEF FilesInv, Known, FilesShapes, PlacedCall, FileCall, Inodes, NoFile
<1>2. task[d].ino # i
  BY <1>1
<1> QED
  BY <1>2 DEF Apart, NewCall

(* The steps of an upload.                                                 *)
LEMMA UploadKeeps ==
  ASSUME FilesAssumption, FilesInv, NEW c \in Calls, Upload(c), FilesShapes'
  PROVE  FilesInv'
<1> DEFINE new == limits.calls + 2
<1>1. /\ new \in Inodes /\ limits'.calls = limits.calls + 1 /\ limits.calls \in Nat
  <2>1. Asks /\ FilesShapes
    BY DEF Upload, FilesInv
  <2>2. new \in Inodes
    BY <2>1, CallTypes
  <2> QED
    BY <2>1, <2>2 DEF Asks, FilesShapes
<1>2. PICK n \in Names : task' = [task EXCEPT ![c] = NewCall("upload", "body", n, n, new)]
  BY DEF Upload, Begins
<1>3. /\ content' = [content EXCEPT ![new] = [by |-> "upload", whole |-> FALSE]]
      /\ parts' = parts \union {new} /\ UNCHANGED <<entry, stale, good>>
  BY DEF Upload
<1>4. /\ new \notin good /\ new \notin parts /\ \A n1 \in Names : entry[n1] # new
      /\ \A d \in Calls : task[d].ino # new
  BY <1>1 DEF FilesInv, Known
<1>5. PICK y : y = NewCall("upload", "body", n, n, new)
  OBVIOUS
<1> HIDE DEF new
<1>6. CallFits(y)'
  <2>1. /\ y.kind = "upload" /\ y.at = "body" /\ y.ino = new /\ y.written = 0 /\ y.body = "open"
    BY <1>5 DEF NewCall
  <2>2. ~content'[new].whole /\ 0 # UploadSize
    BY <1>1, <1>3 DEF FilesInv, FilesShapes, FilesAssumption
  <2>3. new \notin stale
    BY <1>4 DEF FilesInv
  <2> QED
    BY <1>1, <1>3, <1>4, <2>1, <2>2, <2>3 DEF CallFits, UploadFits
<1>7. CallsFit' /\ CallsApart'
  <2>1. \A d \in Calls \ {c} : CallFits(task[d])'
    <3>1. \A d \in Calls : task[d].kind = "upload" => task[d].ino \notin stale
      BY DEF FilesInv, CallsFit, CallFits, UploadFits
    <3>2. \A i : i # new => content'[i] = content[i]
      BY <1>3 DEF FilesInv, FilesShapes
    <3>3. \A d \in Calls \ {c} :
            LET i == task[d].ino
            IN  /\ i \in parts' <=> i \in parts
                /\ task[d].kind = "upload" => i \notin stale' /\ content'[i] = content[i]
                /\ task[d].kind # "none" => (i \in good' => i \in good)
      BY <1>3, <1>4, <3>1, <3>2
    <3> QED
      BY <1>2, <1>5, <3>3, OthersFit
  <2>2. \A d \in Calls \ {c} : Apart(y, task[d]) /\ Apart(task[d], y)
    BY <1>5, NewCallIsApart DEF new
  <2> QED
    BY <1>2, <1>5, <1>6, <2>1, <2>2, OneMoves
<1>8. Known'
  <2>1. \A d \in Calls : task'[d].ino <= limits.calls + 2
    <3>1. \A d \in Calls : task'[d].ino = new \/ task'[d].ino = task[d].ino
      BY <1>2 DEF NewCall, FilesInv, FilesShapes
    <3>2. \A d \in Calls : task[d].ino \in Int /\ task[d].ino <= limits.calls + 1
      BY DEF FilesInv, Known, FilesShapes, PlacedCall, FileCall, Inodes, NoFile
    <3> QED
      BY <1>1, <3>1, <3>2 DEF new
  <2>2. \A i \in good' \union parts' : i <= limits.calls + 2
    BY <1>1, <1>3 DEF FilesInv, Known, new, Inodes, FilesShapes
  <2>3. \A n1 \in Names : entry'[n1] <= limits.calls + 2
    BY <1>1, <1>3 DEF FilesInv, Known, FilesShapes, Inodes, NoFile
  <2> QED
    BY <1>1, <2>1, <2>2, <2>3 DEF Known
<1>9. stale' \subseteq parts' /\ good' \subseteq Inodes /\ ReportedIsWhole' /\ Hidden'
  BY <1>3, <1>4 DEF FilesInv, ReportedIsWhole, Hidden
<1>10. Owned'
  <2> SUFFICES ASSUME NEW i \in parts' \ stale'
               PROVE  \E d \in Calls : task'[d].kind = "upload" /\ task'[d].ino = i
    BY DEF Owned
  <2>1. CASE i = new
    BY <1>2, <2>1 DEF NewCall, FilesInv, FilesShapes
  <2>2. CASE i \in parts \ stale
    <3>1. PICK d \in Calls : task[d].kind = "upload" /\ task[d].ino = i
      BY <2>2 DEF FilesInv, Owned
    <3>2. d # c
      BY <3>1 DEF FilesInv, CallsFit, CallFits, Upload
    <3> QED
      BY <1>2, <3>1, <3>2 DEF FilesInv, FilesShapes
  <2> QED
    BY <1>3, <2>1, <2>2
<1> QED
  BY <1>7, <1>8, <1>9, <1>10 DEF FilesInv

LEMMA FilesBasics ==
  ASSUME FilesAssumption, FilesInv
  PROVE  /\ limits.calls \in Nat
         /\ \A d \in Calls : /\ task[d] \in PlacedCall /\ task[d] \in FileCall
                             /\ task[d].ino \in Nat /\ task[d].ino <= limits.calls + 1
         /\ \A d \in Calls : task[d].kind = "upload" =>
              /\ task[d].ino \in Inodes /\ task[d].ino \in parts
              /\ task[d].ino \notin stale /\ task[d].ino \notin good
         /\ \A d, e \in Calls : d # e /\ task[d].kind = "upload" /\ task[e].kind # "none"
                                  => task[d].ino # task[e].ino
BY DEF FilesInv, Known, FilesShapes, PlacedCall, FileCall, Inodes, NoFile, FilesAssumption,
       CallsFit, CallFits, UploadFits, CallsApart, Apart

LEMMA UploadGoes ==
  ASSUME FilesAssumption, FilesInv, FilesShapes', NEW c \in Calls, NEW y,
         task' = [task EXCEPT ![c] = y], task[c].kind = "upload",
         y.kind = "upload", y.ino = task[c].ino, UploadFits(y),
         UNCHANGED <<entry, content, parts, stale, good, limits>>
  PROVE  FilesInv'
<1>1. task'[c] = y /\ \A d \in Calls \ {c} : task'[d] = task[d]
  BY DEF FilesInv, FilesShapes
<1>2. CallFits(y)' /\ y.at # "data"
  BY DEF CallFits, UploadFits
<1>3. \A d \in Calls \ {c} : CallFits(task[d])'
  BY <1>1, NotItsOwn DEF FilesInv, CallsFit, CallFits, UploadFits, OtherFits
<1>4. \A d \in Calls \ {c} : Apart(y, task[d]) /\ Apart(task[d], y)
  BY <1>2, FilesBasics DEF Apart
<1>5. CallsFit' /\ CallsApart'
  BY <1>2, <1>3, <1>4, OneMoves
<1>6. Known'
  BY <1>1 DEF FilesInv, Known
<1>7. Owned'
  BY <1>1 DEF FilesInv, Owned
<1> QED
  BY <1>5, <1>6, <1>7 DEF FilesInv, ReportedIsWhole, Hidden

LEMMA BodyKeeps ==
  ASSUME FilesAssumption, FilesInv, FilesShapes', NEW c \in Calls,
         Send(c) \/ BodyEnds(c) \/ BodyIsCut(c) \/ ChannelCloses(c) \/ (Settle(c) /\ Goes(c, "rename"))
  PROVE  FilesInv'
<1>1. PICK x : x = task[c]
  OBVIOUS
<1>2. x.kind = "upload" /\ x \in FileCall /\ UploadFits(x)
  BY <1>1, FilesBasics
     DEF Send, BodyEnds, BodyIsCut, ChannelCloses, Settle, Runs, FilesInv, CallsFit, CallFits
<1>3. UNCHANGED <<entry, content, parts, good>>
  BY DEF Send, BodyEnds, BodyIsCut, ChannelCloses, Settle
<1>4. CASE Send(c)
  <2>1. PICK y : y = [x EXCEPT !.sent = @ + 1]
    OBVIOUS
  <2>2. task' = [task EXCEPT ![c] = y] /\ x.at = "body" /\ x.body = "open"
    BY <1>1, <1>4, <2>1 DEF Send, Runs
  <2>3. /\ y.kind = "upload" /\ y.ino = x.ino /\ y.at = x.at /\ y.body = "open"
        /\ y.written = x.written
    BY <1>2, <2>1, <2>2 DEF FileCall
  <2>4. UploadFits(y)
    BY <1>2, <2>2, <2>3 DEF UploadFits
  <2> QED
    BY <1>1, <1>2, <1>4, <2>2, <2>3, <2>4, UploadGoes DEF Send
<1>5. CASE BodyEnds(c) \/ BodyIsCut(c)
  <2>1. PICK b \in {"ended", "cut"} :
          task' = [task EXCEPT ![c].body = b] /\ (b = "ended" => task[c].sent = UploadSize)
    BY <1>5 DEF BodyEnds, BodyIsCut
  <2>2. PICK y : y = [x EXCEPT !.body = b]
    OBVIOUS
  <2>3. task' = [task EXCEPT ![c] = y] /\ x.at = "body"
    BY <1>1, <1>5, <2>1, <2>2 DEF BodyEnds, BodyIsCut, Runs
  <2>4. /\ y.kind = "upload" /\ y.ino = x.ino /\ y.at = "body" /\ y.body = b
        /\ y.written = x.written /\ y.sent = x.sent
    BY <1>2, <2>2, <2>3 DEF FileCall
  <2>5. UploadFits(y)
    BY <1>1, <1>2, <2>1, <2>4 DEF UploadFits
  <2> QED
    BY <1>1, <1>2, <1>5, <2>3, <2>4, <2>5, UploadGoes DEF BodyEnds, BodyIsCut
<1>6. CASE ChannelCloses(c) \/ (Settle(c) /\ Goes(c, "rename"))
  <2>1. PICK at \in {"settle", "rename"} : Goes(c, at)
    BY <1>6 DEF ChannelCloses
  <2>2. PICK y : y = [x EXCEPT !.at = at]
    OBVIOUS
  <2>3. task' = [task EXCEPT ![c] = y]
    BY <1>1, <2>1, <2>2 DEF Goes
  <2>4. /\ y.kind = "upload" /\ y.ino = x.ino /\ y.at = at /\ y.body = x.body
        /\ y.written = x.written /\ y.sent = x.sent
    BY <1>2, <2>2 DEF FileCall
  <2>5. x.body # "open" /\ x.written = x.sent
    BY <1>1, <1>2, <1>6 DEF ChannelCloses, Settle, Runs, UploadFits
  <2>6. UploadFits(y)
    BY <1>2, <2>4, <2>5 DEF UploadFits
  <2>7. UNCHANGED <<stale, limits>>
    <3>1. CASE ChannelCloses(c)
      BY <3>1 DEF ChannelCloses
    <3>2. CASE Settle(c) /\ Goes(c, "rename")
      <4>1. ~CallEnds(c)
        <5>1. task'[c] = y /\ y.kind = "upload" /\ NoCall.kind = "none"
          BY <2>3, <2>4 DEF FilesInv, FilesShapes, NoCall, NewCall
        <5>2. CallEnds(c) => task'[c] = NoCall
          BY DEF CallEnds, FilesInv, FilesShapes
        <5> QED
          BY <5>1, <5>2
      <4> QED
        BY <3>2, <4>1 DEF Settle, Stranded, CallWorks
    <3> QED
      BY <1>6, <3>1, <3>2
  <2> QED
    BY <1>1, <1>2, <1>3, <2>3, <2>4, <2>6, <2>7, UploadGoes
<1> QED
  BY <1>4, <1>5, <1>6

(* A call is over, and takes its temporary file along or leaves it behind. *)
LEMMA CallLeaves ==
  ASSUME FilesAssumption, FilesInv, FilesShapes', NEW c \in Calls, CallEnds(c),
         limits'.calls = limits.calls, UNCHANGED <<entry, content, good>>,
         \/ parts' = parts /\ stale' = stale /\ task[c].kind # "upload"
         \/ parts' = parts \ {task[c].ino} /\ stale' = stale /\ task[c].kind = "upload"
         \/ parts' = parts /\ stale' = stale \union {task[c].ino} /\ task[c].kind = "upload"
  PROVE  FilesInv'
<1>1. task'[c] = NoCall /\ \A d \in Calls \ {c} : task'[d] = task[d]
  BY DEF CallEnds, FilesInv, FilesShapes
<1>2. CallsFit' /\ CallsApart'
  <2>1. \A d \in Calls \ {c} : task[d].kind # "none" /\ task[c].kind = "upload"
                                 => task[d].ino # task[c].ino
    BY FilesBasics
  <2>2. ASSUME NEW d \in Calls \ {c} PROVE CallFits(task[d])'
    <3>1. CallFits(task[d])
      BY DEF FilesInv, CallsFit
    <3> QED
      BY <1>1, <2>1, <3>1, FilesBasics DEF CallFits, UploadFits, OtherFits
  <2> QED
    BY <2>2, NoCallIsApart, OneMoves DEF CallEnds
<1>3. Known'
  BY <1>1, FilesBasics DEF FilesInv, Known, NoCall, NewCall, NoFile
<1>4. Owned'
  <2>1. ASSUME NEW i \in parts' \ stale'
        PROVE  \E d \in Calls : task'[d].kind = "upload" /\ task'[d].ino = i
    <3>1. PICK d \in Calls : task[d].kind = "upload" /\ task[d].ino = i
      BY <2>1 DEF FilesInv, Owned
    <3>2. d # c
      BY <2>1, <3>1
    <3> QED
      BY <1>1, <3>1, <3>2
  <2> QED
    BY <2>1 DEF Owned
<1>5. stale' \subseteq parts'
  BY FilesBasics DEF FilesInv
<1> QED
  BY <1>2, <1>3, <1>4, <1>5 DEF FilesInv, ReportedIsWhole, Hidden

LEMMA FailsKeepsCalls ==
  ASSUME FilesInv, FileFails \/ CallWorks
  PROVE  limits'.calls = limits.calls
BY DEF FilesInv, FilesShapes, FileFails, CallWorks

LEMMA WriteKeeps ==
  ASSUME FilesAssumption, FilesInv, FilesShapes', NEW c \in Calls, WriteChunk(c)
  PROVE  FilesInv'
<1>1. PICK x : x = task[c]
  OBVIOUS
<1>2. x.kind = "upload" /\ x.at = "body" /\ x \in FileCall /\ UploadFits(x) /\ x.written < x.sent
  BY <1>1, FilesBasics DEF WriteChunk, Runs, FilesInv, CallsFit, CallFits
<1>3. CASE CallEnds(c) /\ FileFails /\ parts' = parts \ {task[c].ino} /\ UNCHANGED content
  BY <1>1, <1>2, <1>3, CallLeaves, FailsKeepsCalls DEF WriteChunk
<1>4. CASE /\ task' = [task EXCEPT ![c].written = @ + 1]
           /\ content' = [content EXCEPT ![task[c].ino].whole = (task[c].written + 1 = UploadSize)]
           /\ CallWorks /\ UNCHANGED parts
  <2>1. PICK y : y = [x EXCEPT !.written = @ + 1]
    OBVIOUS
  <2>2. task' = [task EXCEPT ![c] = y]
    BY <1>1, <1>4, <2>1
  <2>3. /\ y.kind = "upload" /\ y.ino = x.ino /\ y.at = "body" /\ y.body = x.body
        /\ y.written = x.written + 1 /\ y.sent = x.sent
    BY <1>2, <2>1 DEF FileCall
  <2>4. /\ content'[x.ino].whole <=> y.written = UploadSize
        /\ \A i : i # x.ino => content'[i] = content[i]
    <3> DEFINE b == (task[c].written + 1 = UploadSize)
    <3>1. content' = [content EXCEPT ![x.ino].whole = b] /\ b \in BOOLEAN
      BY <1>1, <1>4
    <3>2. x.ino \in Inodes /\ content \in [Inodes -> Content]
      BY <1>2 DEF UploadFits, FilesInv, FilesShapes
    <3>3. b <=> y.written = UploadSize
      BY <1>1, <2>3
    <3> HIDE DEF b
    <3>4. content'[x.ino].whole = b /\ \A i : i # x.ino => content'[i] = content[i]
      BY <3>1, <3>2 DEF Content
    <3> QED
      BY <3>3, <3>4
  <2>5. UNCHANGED <<entry, parts, stale, good, limits>>
    BY <1>4 DEF WriteChunk, CallWorks
  <2>6. CallFits(y)'
    <3>1. x.ino \in Inodes /\ x.ino \in parts /\ x.ino \notin stale /\ x.ino \notin good
          /\ (x.body = "ended" => x.sent = UploadSize)
      BY <1>2 DEF UploadFits
    <3> QED
      BY <2>3, <2>4, <2>5, <3>1 DEF CallFits, UploadFits
  <2>7. \A d \in Calls \ {c} : CallFits(task[d])'
    <3>1. \A d \in Calls \ {c} : task[d].kind # "none" => task[d].ino # x.ino
      BY <1>1, <1>2, FilesBasics
    <3>2. \A d \in Calls \ {c} :
            LET i == task[d].ino
            IN  /\ i \in parts' <=> i \in parts
                /\ task[d].kind = "upload" => i \notin stale' /\ content'[i] = content[i]
                /\ task[d].kind # "none" => (i \in good' => i \in good)
      BY <2>4, <2>5, <3>1, FilesBasics
    <3> QED
      BY <2>2, <3>2, OthersFit
  <2>8. \A d \in Calls \ {c} : Apart(y, task[d]) /\ Apart(task[d], y)
    BY <1>1, <1>2, <2>3, FilesBasics DEF Apart
  <2>9. CallsFit' /\ CallsApart'
    BY <2>2, <2>6, <2>7, <2>8, OneMoves
  <2>10. task'[c] = y /\ \A d \in Calls \ {c} : task'[d] = task[d]
    BY <2>2 DEF FilesInv, FilesShapes
  <2>11. Known'
    BY <1>1, <2>3, <2>5, <2>10 DEF FilesInv, Known
  <2>12. Owned'
    BY <1>1, <2>3, <2>5, <2>10 DEF FilesInv, Owned
  <2>13. ReportedIsWhole'
    BY <1>2, <2>4, <2>5 DEF FilesInv, ReportedIsWhole, UploadFits
  <2> QED
    BY <2>5, <2>9, <2>11, <2>12, <2>13 DEF FilesInv, Hidden
<1> QED
  BY <1>3, <1>4 DEF WriteChunk

LEMMA CommitKeeps ==
  ASSUME FilesAssumption, FilesInv, FilesShapes', NEW c \in Calls, Commit(c)
  PROVE  FilesInv'
<1>1. PICK x : x = task[c]
  OBVIOUS
<1>2. x.kind = "upload" /\ x.at = "rename" /\ x \in PlacedCall /\ UploadFits(x)
  BY <1>1, FilesBasics DEF Commit, Runs, FilesInv, CallsFit, CallFits
<1>3. CASE Stranded(c) /\ UNCHANGED <<entry, parts, good>>
  BY <1>1, <1>2, <1>3, CallLeaves, FailsKeepsCalls DEF Commit, Stranded
<1>4. CASE /\ entry' = [entry EXCEPT ![task[c].to] = task[c].ino]
           /\ parts' = parts \ {task[c].ino}
           /\ good' = IF task[c].body = "ended" THEN good \union {task[c].ino} ELSE good
           /\ CallEnds(c) /\ CallWorks /\ UNCHANGED stale
  <2>1. task'[c] = NoCall /\ \A d \in Calls \ {c} : task'[d] = task[d]
    BY <1>4 DEF CallEnds, FilesInv, FilesShapes
  <2>2. UNCHANGED <<content, stale, limits>>
    BY <1>4 DEF Commit, CallWorks
  <2>3. \A d \in Calls \ {c} : task[d].kind # "none" => task[d].ino # x.ino
    BY <1>1, <1>2, FilesBasics
  <2>4. CallsFit' /\ CallsApart'
    <3>1. \A d \in Calls \ {c} :
            LET i == task[d].ino
            IN  /\ task[d].kind # "none" => (i \in parts' <=> i \in parts)
                /\ task[d].kind = "upload" => i \notin stale' /\ content'[i] = content[i]
                /\ task[d].kind # "none" => (i \in good' => i \in good)
      BY <1>1, <1>4, <2>2, <2>3, FilesBasics
    <3>2. ASSUME NEW d \in Calls \ {c} PROVE CallFits(task[d])'
      <4>1. CallFits(task[d])
        BY DEF FilesInv, CallsFit
      <4> QED
        BY <2>1, <3>1, <4>1 DEF CallFits, UploadFits, OtherFits
    <3> QED
      BY <1>4, <3>2, NoCallIsApart, OneMoves DEF CallEnds
  <2>5. x.ino \in Inodes /\ x.ino \in parts /\ x.ino \notin stale /\ x.ino <= limits.calls + 1
        /\ (x.body = "ended" => content[x.ino].whole)
    BY <1>1, <1>2, FilesBasics DEF UploadFits
  <2>6. x.to \in Names /\ \A n \in Names : entry'[n] = x.ino \/ entry'[n] = entry[n]
    BY <1>1, <1>2, <1>4 DEF PlacedCall, FilesInv, FilesShapes
  <2>7. Known'
    <3>1. \A d \in Calls : task'[d].ino <= limits.calls + 1
      BY <2>1, FilesBasics DEF NoCall, NewCall, NoFile
    <3>2. \A i \in good' \union parts' : i <= limits.calls + 1
      BY <1>1, <1>4, <2>5 DEF FilesInv, Known
    <3>3. \A n \in Names : entry'[n] <= limits.calls + 1
      BY <2>5, <2>6 DEF FilesInv, Known
    <3> QED
      BY <2>2, <3>1, <3>2, <3>3 DEF Known
  <2>8. stale' \subseteq parts' /\ good' \subseteq Inodes /\ ReportedIsWhole'
    BY <1>1, <1>4, <2>2, <2>5 DEF FilesInv, ReportedIsWhole
  <2>9. Hidden'
    BY <1>1, <1>4, <2>6 DEF FilesInv, Hidden
  <2>10. Owned'
    <3>1. ASSUME NEW i \in parts' \ stale'
          PROVE  \E d \in Calls : task'[d].kind = "upload" /\ task'[d].ino = i
      <4>1. PICK d \in Calls : task[d].kind = "upload" /\ task[d].ino = i
        BY <1>4, <2>2, <3>1 DEF FilesInv, Owned
      <4>2. d # c
        BY <1>4, <3>1, <4>1
      <4> QED
        BY <2>1, <4>1, <4>2
    <3> QED
      BY <3>1 DEF Owned
  <2> QED
    BY <2>4, <2>7, <2>8, <2>9, <2>10 DEF FilesInv
<1> QED
  BY <1>3, <1>4, Zenon DEF Commit

LEMMA AskKeeps ==
  ASSUME FilesAssumption, FilesInv, FilesShapes', NEW c \in Calls, AskFor(c)
  PROVE  FilesInv'
<1>1. PICK kind \in {"copy", "archive", "move"}, at \in {"open", "rename"}, m \in Names, n \in Names :
        Begins(c, kind, at, m, n)
  BY DEF AskFor
<1>2. PICK y : y = NewCall(kind, at, m, n, limits.calls + 2)
  OBVIOUS
<1>3. /\ limits.calls + 2 \in Inodes /\ limits'.calls = limits.calls + 1 /\ limits.calls \in Nat
  <2>1. Asks /\ FilesShapes
    BY DEF AskFor, FilesInv
  <2>2. limits.calls + 2 \in Inodes
    BY <2>1, CallTypes
  <2> QED
    BY <2>1, <2>2 DEF Asks, FilesShapes
<1>4. task' = [task EXCEPT ![c] = y] /\ UNCHANGED <<entry, content, parts, stale, good>>
  BY <1>1, <1>2 DEF AskFor, Begins
<1>5. y.kind = kind /\ y.at = at /\ y.ino = limits.calls + 2
  BY <1>2 DEF NewCall
<1>6. limits.calls + 2 \notin parts
  BY <1>3 DEF FilesInv, Known
<1>7. CallFits(y)'
  BY <1>3, <1>4, <1>5, <1>6 DEF CallFits, OtherFits
<1>8. CallsFit' /\ CallsApart'
  <2>1. \A d \in Calls \ {c} : CallFits(task[d])'
    BY <1>4, OthersFit, FilesBasics
  <2>2. \A d \in Calls \ {c} : Apart(y, task[d]) /\ Apart(task[d], y)
    BY <1>2, NewCallIsApart
  <2> QED
    BY <1>4, <1>7, <2>1, <2>2, OneMoves
<1>9. task'[c] = y /\ \A d \in Calls \ {c} : task'[d] = task[d]
  BY <1>4 DEF FilesInv, FilesShapes
<1>10. Known'
  <2>1. \A d \in Calls : task'[d].ino <= limits.calls + 2
    BY <1>3, <1>5, <1>9, FilesBasics
  <2>2. \A i \in good \union parts : i <= limits.calls + 2
    BY <1>3 DEF FilesInv, Known, FilesShapes, Inodes
  <2>3. \A i \in Names : entry[i] <= limits.calls + 2
    BY <1>3 DEF FilesInv, Known, FilesShapes, Inodes, NoFile
  <2> QED
    BY <1>3, <1>4, <2>1, <2>2, <2>3 DEF Known
<1>11. Owned'
  <2>1. task[c].kind # "upload"
    BY DEF AskFor, FilesInv, CallsFit, CallFits
  <2> QED
    BY <1>4, <1>9, <2>1 DEF FilesInv, Owned
<1> QED
  BY <1>4, <1>8, <1>10, <1>11 DEF FilesInv, ReportedIsWhole, Hidden

(* A copy or an archive opens its target.                                  *)
LEMMA TruncateKeeps ==
  ASSUME FilesAssumption, FilesInv, FilesShapes', NEW c \in Calls, NEW src,
         task[c].kind \in {"copy", "archive"}, task[c].at = "open",
         Truncate(c, src), CallWorks, UNCHANGED <<parts, stale>>
  PROVE  FilesInv'
<1> DEFINE dst == IF entry[task[c].to] = NoFile THEN task[c].ino ELSE entry[task[c].to]
           touched(d) == task[d].at = "data" /\ dst \in {task[d].ino, task[d].src}
           hit == \E d \in Writers : task[d].ino \in {src, dst}
           moved == [task[c] EXCEPT !.at = "data", !.src = src, !.ino = dst, !.met = hit]
           told(d) == [task[d] EXCEPT !.met = @ \/ touched(d)]
<1>1. /\ entry' = [entry EXCEPT ![task[c].to] = dst]
      /\ content' = [content EXCEPT ![dst] = [by |-> task[c].kind, whole |-> FALSE]]
      /\ good' = good \ {dst}
      /\ task' = [d \in Calls |-> IF d = c THEN moved ELSE told(d)]
  BY Zenon DEF Truncate
<1>2. task[c] \in PlacedCall /\ task[c].to \in Names /\ OtherFits(task[c])
  BY FilesBasics DEF PlacedCall, FilesInv, CallsFit, CallFits
<1>3. dst \in Inodes /\ dst \notin parts /\ dst <= limits.calls + 1
  <2>1. entry[task[c].to] \in Inodes \union {NoFile} /\ entry[task[c].to] \notin parts
        /\ entry[task[c].to] <= limits.calls + 1
    BY <1>2 DEF FilesInv, FilesShapes, Hidden, Known
  <2> QED
    BY <1>2, <2>1, FilesBasics DEF OtherFits
<1>4. /\ moved.kind = task[c].kind /\ moved.at = "data" /\ moved.ino = dst /\ moved.met = hit
  <2>1. task[c] \in FileCall
    BY FilesBasics
  <2> HIDE DEF dst, hit
  <2> QED
    BY <2>1 DEF FileCall
<1>5. ASSUME NEW d \in Calls
      PROVE  /\ told(d).kind = task[d].kind /\ told(d).at = task[d].at /\ told(d).ino = task[d].ino
             /\ told(d).written = task[d].written /\ told(d).sent = task[d].sent
             /\ told(d).body = task[d].body
             /\ told(d).met <=> task[d].met \/ touched(d)
  <2>1. task[d] \in FileCall
    BY FilesBasics
  <2> DEFINE b == task[d].met \/ touched(d)
  <2>2. told(d) = [task[d] EXCEPT !.met = b]
    BY Zenon
  <2>3. b \in BOOLEAN
    BY Zenon
  <2> HIDE DEF b, told
  <2>4. /\ told(d).kind = task[d].kind /\ told(d).at = task[d].at /\ told(d).ino = task[d].ino
        /\ told(d).written = task[d].written /\ told(d).sent = task[d].sent
        /\ told(d).body = task[d].body /\ told(d).met = b
    BY <2>1, <2>2 DEF FileCall
  <2> QED
    BY <2>4, Zenon DEF b
<1>6. \A d \in Calls : touched(d) <=> task[d].at = "data" /\ (dst = task[d].ino \/ dst = task[d].src)
  OBVIOUS
<1>7. hit <=> \E d \in Calls : task[d].at = "data" /\ (task[d].ino = src \/ task[d].ino = dst)
  BY DEF Writers
<1>8. task'[c] = moved /\ \A d \in Calls \ {c} : task'[d] = told(d)
  BY <1>1
<1> HIDE DEF dst, moved, told, touched, hit
<1>9. /\ \A i : i # dst => content'[i] = content[i]
      /\ ~content'[dst].whole
      /\ \A n \in Names : entry'[n] = dst \/ entry'[n] = entry[n]
  BY <1>1, <1>3 DEF FilesInv, FilesShapes
<1>10. UNCHANGED <<parts, stale, limits>>
  BY DEF CallWorks
<1>11. CallsFit'
  <2>1. ASSUME NEW d \in Calls PROVE CallFits(task[d])'
    <3>1. CallFits(task[d])
      BY DEF FilesInv, CallsFit
    <3>2. CASE d = c
      BY <1>1, <1>2, <1>3, <1>4, <1>8, <1>10, <3>2 DEF CallFits, OtherFits
    <3>3. CASE d # c /\ task[d].kind = "upload"
      <4>1. task[d].ino # dst
        BY <1>3, <3>3, FilesBasics
      <4>2. UploadFits(task[d])
        BY <3>1, <3>3 DEF CallFits
      <4>3. UploadFits(task[d])'
        BY <1>1, <1>5, <1>8, <1>9, <1>10, <3>3, <4>1, <4>2 DEF UploadFits
      <4> QED
        BY <1>5, <1>8, <3>1, <3>3, <4>3 DEF CallFits
    <3>4. CASE d # c /\ task[d].kind # "upload"
      <4>1. /\ task'[d].kind = task[d].kind /\ task'[d].at = task[d].at
            /\ task'[d].ino = task[d].ino /\ good' \subseteq good
        BY <1>1, <1>5, <1>8, <3>4
      <4> QED
        BY <1>10, <3>1, <3>4, <4>1 DEF CallFits, OtherFits
    <3> QED
      BY <3>2, <3>3, <3>4
  <2> QED
    BY <2>1 DEF CallsFit
<1>12. CallsApart'
  <2>1. ASSUME NEW d \in Calls, NEW e \in Calls, d # e PROVE Apart(task[d], task[e])'
    <3>1. Apart(task[d], task[e])
      BY <2>1 DEF FilesInv, CallsApart
    <3>2. CASE d = c
      BY <1>2, <1>4, <1>5, <1>7, <1>8, <2>1, <3>2 DEF Apart
    <3>3. CASE e = c
      <4>1. task[d].kind = "upload" => task[d].ino # dst
        BY <1>3, FilesBasics
      <4> QED
        BY <1>4, <1>5, <1>6, <1>8, <2>1, <3>3, <4>1 DEF Apart
    <3>4. CASE d # c /\ e # c
      BY <1>5, <1>8, <3>1, <3>4 DEF Apart
    <3> QED
      BY <3>2, <3>3, <3>4
  <2> QED
    BY <2>1 DEF CallsApart
<1>13. Known'
  <2>1. \A d \in Calls : task'[d].ino <= limits.calls + 1
    BY <1>3, <1>4, <1>5, <1>8, FilesBasics
  <2> QED
    BY <1>1, <1>3, <1>9, <1>10, <2>1 DEF FilesInv, Known
<1>14. Owned'
  <2>1. ASSUME NEW i \in parts \ stale
        PROVE  \E d \in Calls : task'[d].kind = "upload" /\ task'[d].ino = i
    <3>1. PICK d \in Calls : task[d].kind = "upload" /\ task[d].ino = i
      BY <2>1 DEF FilesInv, Owned
    <3>2. d # c
      BY <3>1
    <3> QED
      BY <1>5, <1>8, <3>1, <3>2
  <2> QED
    BY <1>10, <2>1 DEF Owned
<1>15. ReportedIsWhole' /\ Hidden' /\ stale' \subseteq parts' /\ good' \subseteq Inodes
  BY <1>1, <1>3, <1>9, <1>10 DEF FilesInv, ReportedIsWhole, Hidden
<1> QED
  BY <1>11, <1>12, <1>13, <1>14, <1>15 DEF FilesInv

(* What was read is written, and its target is good if nobody was there.   *)
LEMMA WrittenKeeps ==
  ASSUME FilesAssumption, FilesInv, FilesShapes', NEW c \in Calls, NEW src, NEW full \in BOOLEAN,
         task[c].kind \in {"copy", "archive"}, task[c].at = "data",
         src \in good => full = TRUE,
         CallEnds(c), CallWorks, Written(c, src, full), UNCHANGED <<entry, parts, stale>>
  PROVE  FilesInv'
<1> DEFINE i == task[c].ino
           met == task[c].met \/ \E d \in Writers \ {c} : task[d].ino = src
<1>1. OtherFits(task[c])
  BY DEF FilesInv, CallsFit, CallFits
<1>2. i \in Inodes /\ i \notin parts /\ i \notin good /\ i <= limits.calls + 1
  BY <1>1, FilesBasics DEF OtherFits
<1>3. task'[c] = NoCall /\ \A d \in Calls \ {c} : task'[d] = task[d]
  BY DEF CallEnds, FilesInv, FilesShapes
<1>4. good' = IF met \/ src \notin good THEN good ELSE good \union {i}
  BY Zenon DEF Written
<1>5. ~met => ~task[c].met
  OBVIOUS
<1>6. PICK whole \in IF src = i THEN {FALSE} ELSE IF met THEN BOOLEAN ELSE {full} :
        content' = [content EXCEPT ![i].whole = whole]
  BY Zenon DEF Written
<1>7. whole \in BOOLEAN
  BY <1>6
<1> HIDE DEF met
<1>8. (\A j : j # i => content'[j] = content[j]) /\ content'[i].whole = whole
  BY <1>2, <1>6, <1>7 DEF FilesInv, FilesShapes, Content
<1>9. i \in good' => ~met /\ content'[i].whole
  BY <1>2, <1>4, <1>6, <1>8
<1>10. good \subseteq good' /\ good' \subseteq good \union {i}
  BY <1>4
<1>11. \A d \in Calls \ {c} : task[d].at = "data" => (task[d].ino \in good' => task[d].ino \in good)
  <2>1. ASSUME NEW d \in Calls \ {c}, task[d].at = "data", task[d].ino = i
        PROVE  task[c].met
    BY <2>1 DEF FilesInv, CallsApart, Apart
  <2> QED
    BY <1>5, <1>9, <1>10, <2>1
<1>12. \A d \in Calls : task[d].kind = "upload" => task[d].ino # i
  BY FilesBasics
<1>13. CallsFit' /\ CallsApart'
  <2>1. ASSUME NEW d \in Calls \ {c} PROVE CallFits(task[d])'
    <3>1. CallFits(task[d])
      BY DEF FilesInv, CallsFit
    <3>2. CASE task[d].kind = "upload"
      <4>1. content'[task[d].ino] = content[task[d].ino] /\ task[d].ino \notin good'
        BY <1>8, <1>10, <1>12, <3>2, FilesBasics
      <4> QED
        BY <1>3, <3>1, <3>2, <4>1 DEF CallFits, UploadFits
    <3>3. CASE task[d].kind # "upload"
      BY <1>3, <1>11, <3>1, <3>3 DEF CallFits, OtherFits
    <3> QED
      BY <3>2, <3>3
  <2> QED
    BY <2>1, NoCallIsApart, OneMoves DEF CallEnds
<1>14. Known'
  <2>1. \A d \in Calls : task'[d].ino <= limits.calls + 1
    BY <1>3, FilesBasics DEF NoCall, NewCall, NoFile
  <2>2. limits' = limits
    BY DEF CallWorks
  <2> QED
    BY <1>2, <1>10, <2>1, <2>2 DEF FilesInv, Known
<1>15. Owned'
  <2>1. ASSUME NEW j \in parts \ stale
        PROVE  \E d \in Calls : task'[d].kind = "upload" /\ task'[d].ino = j
    BY <1>3 DEF FilesInv, Owned
  <2> QED
    BY <2>1 DEF Owned
<1>16. ReportedIsWhole' /\ Hidden' /\ stale' \subseteq parts' /\ good' \subseteq Inodes
  BY <1>2, <1>8, <1>9, <1>10 DEF FilesInv, ReportedIsWhole, Hidden
<1> QED
  BY <1>13, <1>14, <1>15, <1>16 DEF FilesInv

(* The steps of a copy and of an archive.                                  *)
LEMMA CopyKeeps ==
  ASSUME FilesAssumption, FilesInv, FilesShapes', NEW c \in Calls,
         CopyOpens(c) \/ ArchiveOpens(c) \/ CopyEnds(c) \/ ArchiveEnds(c)
  PROVE  FilesInv'
<1>1. UNCHANGED <<parts, stale>> /\ task[c].kind \in {"copy", "archive"}
  BY DEF CopyOpens, ArchiveOpens, CopyEnds, ArchiveEnds, Runs
<1>2. ASSUME CallEnds(c), CallWorks \/ FileFails, UNCHANGED <<entry, content, good>>
      PROVE  FilesInv'
  BY <1>1, <1>2, CallLeaves, FailsKeepsCalls
<1>3. ASSUME NEW src, CallEnds(c), CallWorks, task[c].at = "data", UNCHANGED entry,
             Written(c, src, TRUE)
             \/ (Written(c, src, content[src].whole) /\ src \in Inodes)
      PROVE  FilesInv'
  <2>1. PICK full \in BOOLEAN : Written(c, src, full) /\ (src \in good => full = TRUE)
    <3>1. CASE Written(c, src, TRUE)
      BY <3>1
    <3>2. CASE Written(c, src, content[src].whole) /\ src \in Inodes
      <4>1. PICK b : b = content[src].whole
        OBVIOUS
      <4>2. b \in BOOLEAN
        BY <3>2, <4>1 DEF FilesInv, FilesShapes, Content
      <4>3. src \in good => b = TRUE
        BY <4>1, <4>2 DEF FilesInv, ReportedIsWhole
      <4> QED
        BY <3>2, <4>1, <4>2, <4>3
    <3> QED
      BY <1>3, <3>1, <3>2
  <2>2. UNCHANGED <<entry, parts, stale>>
    BY <1>1, <1>3
  <2>3. task[c].kind \in {"copy", "archive"} /\ task[c].at = "data" /\ CallEnds(c) /\ CallWorks
    BY <1>1, <1>3
  <2>4. Written(c, src, full) /\ (src \in good => full = TRUE)
    BY <2>1
  <2> QED
    BY <2>2, <2>3, <2>4, WrittenKeeps
<1>4. CASE CopyOpens(c)
  <2>1. CASE Truncate(c, entry[task[c].from]) /\ CallWorks
    BY <1>1, <1>4, <2>1, TruncateKeeps DEF CopyOpens, Runs
  <2>2. CASE CallEnds(c) /\ (CallWorks \/ FileFails) /\ UNCHANGED <<entry, content, good>>
    BY <1>2, <2>2
  <2> QED
    BY <1>4, <2>1, <2>2, Zenon DEF CopyOpens
<1>5. CASE ArchiveOpens(c)
  <2>1. CASE Truncate(c, NoFile) /\ CallWorks
    BY <1>1, <1>5, <2>1, TruncateKeeps DEF ArchiveOpens, Runs
  <2>2. CASE CallEnds(c) /\ FileFails /\ UNCHANGED <<entry, content, good>>
    BY <1>2, <2>2
  <2> QED
    BY <1>5, <2>1, <2>2, Zenon DEF ArchiveOpens
<1>6. CASE CopyEnds(c)
  <2>1. CallEnds(c) /\ task[c].at = "data" /\ UNCHANGED entry /\ task[c].src \in Inodes
    BY <1>6, FilesBasics DEF CopyEnds, Runs, PlacedCall
  <2>2. CASE Written(c, task[c].src, content[task[c].src].whole) /\ CallWorks
    BY <1>3, <2>1, <2>2
  <2>3. CASE FileFails /\ UNCHANGED <<content, good>>
    BY <1>2, <2>1, <2>3
  <2> QED
    BY <1>6, <2>2, <2>3, Zenon DEF CopyEnds
<1>7. CASE ArchiveEnds(c)
  <2>1. CallEnds(c) /\ task[c].at = "data" /\ UNCHANGED entry
    BY <1>7 DEF ArchiveEnds, Runs
  <2>2. CASE Written(c, entry[task[c].from], TRUE) /\ CallWorks
    BY <1>3, <2>1, <2>2
  <2>3. CASE (CallWorks \/ FileFails) /\ UNCHANGED <<content, good>>
    BY <1>2, <2>1, <2>3
  <2> QED
    BY <1>7, <2>2, <2>3, Zenon DEF ArchiveEnds
<1> QED
  BY <1>4, <1>5, <1>6, <1>7

(* The steps that only change the directory.                               *)
LEMMA NamesKeep ==
  ASSUME FilesAssumption, FilesInv, FilesShapes',
         UNCHANGED <<content, parts, stale, good>>,
         limits'.calls \in {limits.calls, limits.calls + 1},
         \A n \in Names : entry'[n] = NoFile \/ \E m \in Names : entry'[n] = entry[m],
         \/ UNCHANGED task
         \/ \E c \in Calls : CallEnds(c) /\ task[c].kind = "move"
  PROVE  FilesInv'
<1>1. \A d \in Calls : task'[d] = NoCall \/ task'[d] = task[d]
  BY DEF CallEnds, FilesInv, FilesShapes
<1>2. CallsFit'
  <2>1. ASSUME NEW d \in Calls PROVE CallFits(task'[d])
    BY <1>1, NoCallIsApart DEF FilesInv, CallsFit, CallFits, UploadFits, OtherFits, NoCall, NewCall
  <2> QED
    BY <2>1 DEF CallsFit, CallFits, UploadFits, OtherFits
<1>3. CallsApart'
  <2>1. ASSUME NEW d \in Calls, NEW e \in Calls, d # e PROVE Apart(task'[d], task'[e])
    BY <1>1, <2>1, NoCallIsApart DEF FilesInv, CallsApart
  <2> QED
    BY <2>1 DEF CallsApart, Apart
<1>4. Known'
  BY <1>1, FilesBasics DEF FilesInv, Known, FilesShapes, Inodes, NoFile, NoCall, NewCall
<1>5. Owned'
  <2>1. ASSUME NEW i \in parts \ stale
        PROVE  \E d \in Calls : task'[d].kind = "upload" /\ task'[d].ino = i
    <3>1. PICK d \in Calls : task[d].kind = "upload" /\ task[d].ino = i
      BY <2>1 DEF FilesInv, Owned
    <3>2. task'[d] = task[d]
      BY <3>1 DEF CallEnds, FilesInv, FilesShapes
    <3> QED
      BY <3>1, <3>2
  <2> QED
    BY <2>1 DEF Owned
<1>6. Hidden'
  BY DEF FilesInv, Hidden, FilesShapes, Inodes, NoFile
<1> QED
  BY <1>2, <1>3, <1>4, <1>5, <1>6 DEF FilesInv, ReportedIsWhole

LEMMA FilesInvStep ==
  FilesAssumption /\ FilesInv /\ [FilesNext]_filesVars => FilesInv'
<1> SUFFICES ASSUME FilesAssumption, FilesInv, [FilesNext]_filesVars
             PROVE  FilesInv'
  OBVIOUS
<1>1. FilesShapes'
  BY FilesShapesStep DEF FilesInv
<1>2. ASSUME NEW c \in Calls, Upload(c) PROVE FilesInv'
  BY <1>1, <1>2, UploadKeeps
<1>3. ASSUME NEW c \in Calls, Send(c) \/ BodyEnds(c) \/ BodyIsCut(c) \/ ChannelCloses(c)
      PROVE  FilesInv'
  BY <1>1, <1>3, BodyKeeps
<1>4. ASSUME NEW c \in Calls, Settle(c) PROVE FilesInv'
  <2>1. CASE Goes(c, "rename")
    BY <1>1, <1>4, <2>1, BodyKeeps
  <2>2. CASE Stranded(c)
    <3>1. task[c].kind = "upload" /\ UNCHANGED <<entry, content, parts, good>>
      BY <1>4 DEF Settle, Runs
    <3> QED
      BY <1>1, <2>2, <3>1, CallLeaves, FailsKeepsCalls DEF Stranded
  <2> QED
    BY <1>4, <2>1, <2>2 DEF Settle
<1>5. ASSUME NEW c \in Calls, WriteChunk(c) PROVE FilesInv'
  BY <1>1, <1>5, WriteKeeps
<1>6. ASSUME NEW c \in Calls, Commit(c) PROVE FilesInv'
  BY <1>1, <1>6, CommitKeeps
<1>7. ASSUME NEW c \in Calls, AskFor(c) PROVE FilesInv'
  BY <1>1, <1>7, AskKeeps
<1>8. ASSUME NEW c \in Calls,
             CopyOpens(c) \/ ArchiveOpens(c) \/ CopyEnds(c) \/ ArchiveEnds(c)
      PROVE  FilesInv'
  BY <1>1, <1>8, CopyKeeps
<1>9. ASSUME NEW c \in Calls, Moves(c) PROVE FilesInv'
  <2>1. /\ CallEnds(c) /\ task[c].kind = "move" /\ UNCHANGED <<content, parts, stale, good>>
        /\ limits'.calls = limits.calls
    BY <1>9, FailsKeepsCalls DEF Moves, Runs
  <2>2. task[c].from \in Names /\ task[c].to \in Names
    BY <1>9, FilesBasics DEF Moves, Runs, PlacedCall
  <2>3. \A n \in Names : entry'[n] = NoFile \/ \E m \in Names : entry'[n] = entry[m]
    BY <1>9, <2>2 DEF Moves, FilesInv, FilesShapes
  <2> QED
    BY <1>1, <2>1, <2>3, NamesKeep
<1>10. CASE DeletePath \/ Link
  <2>1. UNCHANGED <<content, parts, stale, good, task>> /\ limits'.calls = limits.calls + 1
    BY <1>10 DEF DeletePath, Link, Asks, FilesInv, FilesShapes
  <2>2. \A n \in Names : entry'[n] = NoFile \/ \E m \in Names : entry'[n] = entry[m]
    BY <1>10 DEF DeletePath, Link, FilesInv, FilesShapes
  <2> QED
    BY <1>1, <2>1, <2>2, NamesKeep
<1>11. CASE DaemonDies
  <2>1. /\ \A c \in Calls : task'[c] = NoCall
        /\ stale' = parts /\ limits'.calls = limits.calls
        /\ UNCHANGED <<entry, content, parts, good>>
    BY <1>11, FailsKeepsCalls DEF DaemonDies
  <2>2. CallsFit' /\ CallsApart'
    <3>1. Apart(NoCall, NoCall) /\ CallFits(NoCall)'
      BY NoCallIsApart
    <3> QED
      BY <2>1, <3>1 DEF CallsFit, CallsApart, CallFits, Apart
  <2>3. Known'
    BY <2>1, FilesBasics DEF FilesInv, Known, NoCall, NewCall, NoFile
  <2> QED
    BY <1>1, <2>1, <2>2, <2>3 DEF FilesInv, Owned, Hidden, ReportedIsWhole
<1>12. CASE UNCHANGED filesVars
  BY <1>1, <1>12 DEF filesVars, FilesInv, Known, ReportedIsWhole, Owned, Hidden, CallsFit, CallsApart,
                     CallFits, UploadFits, OtherFits, Apart
<1> QED
  BY <1>2, <1>3, <1>4, <1>5, <1>6, <1>7, <1>8, <1>9, <1>10, <1>11, <1>12 DEF FilesNext

LEMMA FilesInvAlways ==
  ASSUME FilesAssumption
  PROVE  FilesSpec => []FilesInv
<1>1. FilesInit => FilesInv
  BY FilesInvInit
<1>2. FilesInv /\ [FilesNext]_filesVars => FilesInv'
  BY FilesInvStep
<1> QED
  BY <1>1, <1>2, PTL DEF FilesSpec

(* The file manager keeps its types, a stale temporary file is one of the  *)
(* temporary files, and no call writes to a file that is none (files/).    *)
THEOREM FilesTypeCorrect ==
  ASSUME FilesAssumption
  PROVE  FilesSpec => []FilesTypeOK
<1>1. FilesInv => FilesTypeOK
  BY DEF FilesInv, FilesShapes, PlacedCall, FilesTypeOK
<1> QED
  BY <1>1, FilesInvAlways, PTL

(* What an upload, a copy or an archive reported as written is whole,      *)
(* whatever runs beside it, and a temporary file belongs to an upload at   *)
(* work unless its commit failed or the daemon died, and has no name       *)
(* (WriteHandle::open, write, commit; copy_paths, create_archive).         *)
THEOREM ReportsAreKept ==
  ASSUME FilesAssumption
  PROVE  FilesSpec => []FilesAreKept
<1>1. FilesInv => FilesAreKept
  BY DEF FilesInv, Owned, Hidden, FilesAreKept, PartsAreOwned
<1> QED
  BY <1>1, FilesInvAlways, PTL
=============================================================================
