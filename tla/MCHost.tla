------------------------------- MODULE MCHost -------------------------------
(***************************************************************************)
(* Parts of the host that share no state, side by side: the scheduler's    *)
(* loop and store, its schedules, an app that is a process, the            *)
(* credentials and the file manager.  Each behaviour moves one of them,    *)
(* named by `focus`.                                                       *)
(*                                                                         *)
(* The schedules run over a calendar of two-minute hours, three-hour days, *)
(* three-day months and two-month years, in a zone whose clock is set back *)
(* by an hour.                                                             *)
(***************************************************************************)
EXTENDS MCScheduler, CronSchedule, ProcessApps, Credentials, Files

VARIABLE focus

SetBack == 0 - 2    \* the local clock, by an hour

ASSUME HostAssumption ==
  /\ CronAssumption /\ StepsBack
  /\ ProcessAssumption /\ CredentialsAssumption /\ FilesAssumption

hostVars == <<focus, vars, cronVars, processVars, credentialsVars, filesVars>>

(* The parts that are not looked at stay in one initial state.             *)
HostInit ==
  /\ focus \in {"loop", "cron", "process", "auth", "file"}
  /\ Init /\ (focus # "loop" => \A id \in Ids : jobs[id] = NoJob)
  /\ IF focus = "cron" THEN CronInit ELSE schedule = Everything /\ utc = TRUE /\ now = Start
  /\ ProcessInit
  /\ CredentialsInit
  /\ focus # "auth" => legacy = [scope \in Scopes |-> <<>>] /\ authfile["system"].state = "absent"
  /\ FilesInit /\ (focus # "file" => entry["a"] # NoFile)

(* The part in focus moves, and nothing else does.                         *)
Only(part) == focus = part /\ focus' = part
Stays(part, theirs) == IF focus = part THEN TRUE ELSE UNCHANGED theirs
RestStays ==
  /\ Stays("loop", vars) /\ Stays("cron", cronVars) /\ Stays("process", processVars)
  /\ Stays("auth", credentialsVars) /\ Stays("file", filesVars)

LoopMove == Only("loop") /\ Next /\ RestStays
CronMove == Only("cron") /\ CronNext /\ RestStays
ProcMove == Only("process") /\ ProcessNext /\ RestStays
AuthMove == Only("auth") /\ CredentialsNext /\ RestStays
FileMove == Only("file") /\ FilesNext /\ RestStays
HostNext == LoopMove \/ CronMove \/ ProcMove \/ AuthMove \/ FileMove

HostSpec == HostInit /\ [][HostNext]_hostVars
=============================================================================
