------------------------------ MODULE Fail2ban ------------------------------
(***************************************************************************)
(* The fail2ban manager (src/src/daemon/fail2ban/mod.rs): the model it     *)
(* saves, the one file it owns, and the service that runs from that file.  *)
(* One lock serialises its requests; each is a chain of a write, commands  *)
(* of fail2ban-client and a save, and any of them may fail.                *)
(*                                                                         *)
(* A model is the number of the change that made it; 0 is the default      *)
(* model before it was ever rendered.                                      *)
(***************************************************************************)
EXTENDS Naturals

CONSTANTS
  MaxEdits,   \* bound: changes of the model
  MaxFaults   \* bound: commands and writes that fail, and deaths

Fail2banAssumption == {MaxEdits, MaxFaults} \subseteq Nat

VARIABLES
  saved,     \* state.json: the model and whether last_error names a problem
  conf,      \* asc.local: the model it was rendered from
  service,   \* fail2ban: what it has loaded, whether its jails ban
  edit,      \* the request that holds the lock
  apart,     \* a step that failed, or a death, left the three apart
  efforts    \* bounds: edits and failures so far

fail2banVars == <<saved, conf, service, edit, apart, efforts>>

Model == 0..MaxEdits
Edit == [at : {"idle", "write", "test", "back", "run", "look", "restart", "relook",
               "save", "note"},
         new : Model, old : Model, warning : BOOLEAN, install : BOOLEAN]
NoEdit == [at |-> "idle", new |-> 0, old |-> 0, warning |-> FALSE, install |-> FALSE]
Stopped == [running |-> FALSE, loaded |-> 0, bans |-> FALSE]

Fail2banTypeOK ==
  /\ saved \in [model : Model, error : BOOLEAN] /\ conf \in Model
  /\ service \in [running : BOOLEAN, loaded : Model, bans : BOOLEAN]
  /\ edit \in Edit /\ apart \in BOOLEAN
  /\ efforts \in [edits : Model, fails : 0..MaxFaults]

Fail2banInit ==
  /\ saved = [model |-> 0, error |-> FALSE] /\ conf = 0
  /\ service \in {Stopped, [running |-> TRUE, loaded |-> 0, bans |-> TRUE]}
  /\ edit = NoEdit /\ apart = FALSE
  /\ efforts = [edits |-> 0, fails |-> 0]

EditAt(at) == edit.at = at
EditGoes(at) == edit' = [edit EXCEPT !.at = at]
Works == UNCHANGED efforts
CommandFails == efforts.fails < MaxFaults /\ efforts' = [efforts EXCEPT !.fails = @ + 1]
Running == service.running

-----------------------------------------------------------------------------
(* update_settings, upsert_jail, and install, which renders what is saved: *)
(* each goes through apply_config and is saved after it.                   *)
AskEdit ==
  /\ EditAt("idle") /\ efforts.edits < MaxEdits
  /\ efforts' = [efforts EXCEPT !.edits = @ + 1]
  /\ \E install \in BOOLEAN :
       edit' = [at |-> "write", new |-> IF install THEN saved.model ELSE efforts.edits + 1,
                old |-> conf, warning |-> FALSE, install |-> install]
  /\ UNCHANGED <<saved, conf, service, apart>>

WriteConf ==
  /\ EditAt("write")
  /\ \/ conf' = edit.new /\ EditGoes("test") /\ Works
     \/ EditGoes("note") /\ CommandFails /\ UNCHANGED conf
  /\ UNCHANGED <<saved, service, apart>>

(* Mutant: the file is not checked.                                        *)
NotTested ==
  /\ EditAt("test")
  /\ \/ EditGoes("run") /\ Works
     \/ EditGoes("note") /\ CommandFails
  /\ UNCHANGED <<saved, conf, service, apart>>
Test ==
  /\ EditAt("test")
  /\ \/ EditGoes("run") /\ Works
     \/ EditGoes("back") /\ CommandFails
  /\ UNCHANGED <<saved, conf, service, apart>>
PutBack ==
  /\ EditAt("back")
  /\ \/ conf' = edit.old /\ Works /\ UNCHANGED apart
     \/ CommandFails /\ apart' = TRUE /\ UNCHANGED conf
  /\ EditGoes("note")
  /\ UNCHANGED <<saved, service>>

(* A running service reloads, and may lose the ban actions of its jails.   *)
(* A reload or a start that fails leaves the new file where it is.         *)
RunService ==
  /\ EditAt("run")
  /\ \/ /\ service' \in [running : {TRUE}, loaded : {conf},
                        bans : IF Running THEN BOOLEAN ELSE {TRUE}]
        /\ IF Running THEN EditGoes("look") ELSE EditGoes("save")
        /\ Works /\ UNCHANGED apart
     \/ EditGoes("note") /\ CommandFails /\ apart' = TRUE /\ UNCHANGED service
  /\ UNCHANGED <<saved, conf>>

(* settle: a jail without a ban action is restarted, then warned of.       *)
Look ==
  /\ EditAt("look")
  /\ \/ /\ IF service.bans THEN EditGoes("save") ELSE EditGoes("restart")
        /\ Works /\ UNCHANGED apart
     \/ EditGoes("note") /\ CommandFails /\ apart' = TRUE
  /\ UNCHANGED <<saved, conf, service>>
RestartJails ==
  /\ EditAt("restart")
  /\ \/ /\ service' \in [running : {TRUE}, loaded : {conf}, bans : BOOLEAN]
        /\ EditGoes("relook") /\ Works /\ UNCHANGED apart
     \/ EditGoes("note") /\ CommandFails /\ apart' = TRUE /\ service' \in {service, Stopped}
  /\ UNCHANGED <<saved, conf>>
Relook ==
  /\ EditAt("relook")
  /\ \/ /\ edit' = [edit EXCEPT !.at = "save", !.warning = ~service.bans]
        /\ Works /\ UNCHANGED apart
     \/ EditGoes("note") /\ CommandFails /\ apart' = TRUE
  /\ UNCHANGED <<saved, conf, service>>

SaveModel ==
  /\ EditAt("save")
  /\ \/ /\ saved' = [model |-> edit.new, error |-> edit.warning]
        /\ apart' = FALSE /\ Works
     \/ CommandFails /\ apart' = TRUE /\ UNCHANGED saved
  /\ edit' = NoEdit
  /\ UNCHANGED <<conf, service>>

(* The error is noted beside the model that was saved before; an install   *)
(* only answers it.                                                        *)
Note ==
  /\ EditAt("note")
  /\ \/ edit.install /\ UNCHANGED saved /\ Works
     \/ ~edit.install /\ saved' = [saved EXCEPT !.error = TRUE] /\ Works
     \/ CommandFails /\ UNCHANGED saved
  /\ edit' = NoEdit
  /\ UNCHANGED <<conf, service, apart>>

DiesInEdit ==
  /\ ~EditAt("idle") /\ CommandFails
  /\ edit' = NoEdit
  /\ apart' = TRUE
  /\ UNCHANGED <<saved, conf, service>>

(* The host stops the service, or starts it from the file.                 *)
HostStops ==
  /\ EditAt("idle") /\ Running
  /\ service' = Stopped
  /\ UNCHANGED <<saved, conf, edit, apart, efforts>>
HostStarts ==
  /\ EditAt("idle") /\ ~Running
  /\ service' = [running |-> TRUE, loaded |-> conf, bans |-> TRUE]
  /\ UNCHANGED <<saved, conf, edit, apart, efforts>>

Fail2banNext ==
  \/ AskEdit \/ WriteConf \/ Test \/ PutBack \/ RunService \/ Look \/ RestartJails
  \/ Relook \/ SaveModel \/ Note \/ DiesInEdit \/ HostStops \/ HostStarts

Fail2banSpec == Fail2banInit /\ [][Fail2banNext]_fail2banVars

-----------------------------------------------------------------------------
(* Properties                                                              *)

(* "Saves it only if fail2ban accepted it", "puts the previous file back": *)
(* the saved model, the file and what the service runs are one, unless a   *)
(* failure after the check left them apart; the next change that succeeds  *)
(* brings them together again.                                             *)
OneModel ==
  EditAt("idle") /\ ~apart =>
    conf = saved.model /\ (Running => service.loaded = saved.model)

(* "Reported in last_error instead of being hidden": jails that run        *)
(* without a ban action are named to the operator.                         *)
NotHidden ==
  EditAt("idle") /\ ~apart /\ Running /\ ~service.bans => saved.error

BansAreInForce == OneModel /\ NotHidden
=============================================================================
