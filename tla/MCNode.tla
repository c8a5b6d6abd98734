------------------------------- MODULE MCNode -------------------------------
(***************************************************************************)
(* Parts of the node that share no state, side by side: each behaviour     *)
(* moves one of them, named by `focus`, and leaves the others idle.  One   *)
(* run checks them all, and its states are those of the parts added up.    *)
(***************************************************************************)
EXTENDS Tokens, Updater, Fail2ban, Installation, WireGuard, ComposeUpdate, AppIndex,
        Backups, ConsoleHub, ShellJob

VARIABLES
  focus,
  alive, site, registry, out, loop, applying, forgot, limits      \* health checks

Health == INSTANCE HealthChecks WITH
  Servers <- {"a", "b"}, Fails <- 2, Passes <- 2, ApplyFails <- FALSE,
  MaxMoves <- 2, MaxRequests <- 2, MaxRestarts <- 1, MaxEvents <- 2

(* The stack that is installed: an app and what it needs. *)
InstalledStack == <<"db", "web">>

(* The app's parts, the storages, and the bytes of the chunks of output.   *)
AppParts == <<"repository", "settings">>
BothStorages == {<<"local", "s3">>}
ChunkSizes == <<1, 1>>

ASSUME NodeAssumption ==
  /\ ShellAssumption /\ IndexAssumption /\ BackupsAssumption
  /\ UpdaterAssumption /\ ComposeAssumption /\ ConsoleAssumption
  /\ InstallAssumption /\ WireGuardAssumption /\ Fail2banAssumption
  /\ Health!HealthAssumption

healthVars == <<alive, site, registry, out, loop, applying, forgot, limits>>
nodeVars == <<focus, tokensVars, jobVars, indexVars, backupsVars, updaterVars, composeVars,
              consoleVars, installVars, wireguardVars, fail2banVars, healthVars>>

NodeInit ==
  /\ focus \in {"tokens", "job", "index", "backup", "asc", "compose", "console", "install",
                "wg", "f2b", "health"}
  /\ TokensInit /\ JobInit /\ IndexInit /\ BackupsInit /\ UpdaterInit
  /\ ComposeInit /\ ConsoleInit /\ InstallInit /\ WireGuardInit
  /\ Fail2banInit /\ Health!HealthInit
  /\ focus # "compose" => version = 1
  /\ focus # "f2b" => ~service.running

(* The part in focus moves, and nothing else does.                         *)
Only(part) == focus = part /\ focus' = part
Stays(part, vars) == IF focus = part THEN TRUE ELSE UNCHANGED vars
RestStays ==
  /\ Stays("tokens", tokensVars) /\ Stays("job", jobVars) /\ Stays("index", indexVars)
  /\ Stays("backup", backupsVars) /\ Stays("asc", updaterVars)
  /\ Stays("compose", composeVars) /\ Stays("console", consoleVars)
  /\ Stays("install", installVars) /\ Stays("wg", wireguardVars)
  /\ Stays("f2b", fail2banVars) /\ Stays("health", healthVars)

TokensMove == Only("tokens") /\ TokensNext /\ RestStays
JobMove == Only("job") /\ JobNext /\ RestStays
IndexMove == Only("index") /\ IndexNext /\ RestStays
BackupMove == Only("backup") /\ BackupsNext /\ RestStays
AscMove == Only("asc") /\ UpdaterNext /\ RestStays
ComposeMove == Only("compose") /\ ComposeNext /\ RestStays
ConsoleMove == Only("console") /\ ConsoleNext /\ RestStays
InstallMove == Only("install") /\ InstallNext /\ RestStays
WgMove == Only("wg") /\ WireGuardNext /\ RestStays
F2bMove == Only("f2b") /\ Fail2banNext /\ RestStays
HealthMove == Only("health") /\ Health!HealthNext /\ RestStays
NodeNext ==
  \/ TokensMove \/ JobMove \/ IndexMove \/ BackupMove \/ AscMove \/ ComposeMove
  \/ ConsoleMove \/ InstallMove \/ WgMove \/ F2bMove \/ HealthMove

NodeSpec == NodeInit /\ [][NodeNext]_nodeVars

(* Each part moves as its own fairness says.  A verify of the index and a  *)
(* turn of the health loop are always possible: they have to be only in    *)
(* the behaviours of their part.                                           *)
VerifyMove == Only("index") /\ (\E w \in Daemon : Verify(w)) /\ RestStays
HealthTurn == Only("health") /\ (Health!LoopMoves \/ Health!TooSoon) /\ RestStays
NodeFairness ==
  /\ JobFairness /\ ConsoleFairness
  /\ \A w \in Workers : WF_indexVars(IndexWork(w))
  /\ WF_indexVars(Watch)
  /\ WF_nodeVars(VerifyMove)
  /\ WF_nodeVars(HealthTurn) /\ SF_healthVars(Health!Ripe)
  /\ WF_healthVars(Health!RequestApplies)
NodeFairSpec == NodeSpec /\ NodeFairness

-----------------------------------------------------------------------------
(* The parts' properties                                                   *)

NodeTypeOK ==
  /\ TokensTypeOK /\ JobTypeOK /\ IndexTypeOK /\ BackupsTypeOK
  /\ UpdaterTypeOK /\ ComposeTypeOK /\ ConsoleTypeOK /\ InstallTypeOK
  /\ WireGuardTypeOK /\ Fail2banTypeOK /\ Health!HealthTypeOK
RotationSettles == Health!RotationSettles
=============================================================================
