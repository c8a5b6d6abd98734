---------------------------- MODULE ProcessApps ----------------------------
(***************************************************************************)
(* An app that is a plain process, known by the pid in app.pid: the        *)
(* operations of AppManager on the process driver (apps/process.rs).  No   *)
(* operation takes a lock.  Threads of the daemon and of commands that     *)
(* find no daemon call them; a process exits when it likes, its pid is     *)
(* reused, the daemon and the machine restart.                             *)
(***************************************************************************)
EXTENDS Integers, FiniteSets

CONSTANTS
  Ops,        \* threads, numbered: a call takes the first that is free
  MaxPid,
  MaxProcessCalls,
  MaxExits,   \* how often a process exits by itself or a pid is reused
  MaxDowns,   \* how often the daemon ends or the machine reboots
  MaxProcessFails    \* failing calls of the system, and commands cut off

ProcessAssumption ==
  /\ Ops \subseteq Nat
  /\ {MaxPid, MaxProcessCalls, MaxExits, MaxDowns, MaxProcessFails} \subseteq Nat

VARIABLES
  process,  \* what runs under each pid
  pidfile,  \* app.pid: NoPid when it is missing
  wanted,   \* meta.json's desired_state
  present,  \* the app's directory is there
  service,  \* the daemon
  op,       \* what each thread is doing
  counts,   \* of calls, exits, downs, fails
  met       \* history: what came between a process and its pid file
processVars == <<process, pidfile, wanted, present, service, op, counts, met>>

-----------------------------------------------------------------------------
Pids == 1..MaxPid
NoPid == 0
EmptyFile == MaxPid + 1    \* the file was created and nothing written

(* child: of the daemon, which waits for none of its children; adopted: by *)
(* init, once the command or daemon that started it is gone; zombie: a     *)
(* child that ended; other: a process that is not the app.                 *)
Process == {"none", "child", "adopted", "zombie", "other"}
Live == {p \in Pids : process[p] \in {"child", "adopted"}}
Gone(p) == [process EXCEPT ![p] = IF @ \in {"child", "zombie"} THEN "zombie" ELSE "none"]

(* kill(pid, 0): a zombie still answers.                                   *)
Alive(p) == p \in Pids /\ process[p] # "none"

Asked == {"start", "stop", "kill", "restart", "remove"}
OpPlaces == {"idle", "look", "signal", "wait", "unlink", "spawn", "write", "save", "delete"}
ProcessCall == [kind : Asked \union {"reconcile"}, at : OpPlaces, ours : BOOLEAN,
         seen : {"Running", "Stopped"}, pid : 0..MaxPid]
NoOp == [kind |-> "stop", at |-> "idle", ours |-> TRUE, seen |-> "Stopped", pid |-> NoPid]
AtRest == \A o \in Ops : op[o].at = "idle"
FreeThread(o) == op[o].at = "idle" /\ \A q \in Ops : q < o => op[q].at # "idle"

ProcessTypeOK ==
  /\ process \in [Pids -> Process]
  /\ pidfile \in 0..EmptyFile
  /\ wanted \in {"Running", "Stopped"}
  /\ present \in BOOLEAN
  /\ service \in {"down", "recovering", "up"}
  /\ op \in [Ops -> ProcessCall]
  /\ counts \in [calls : 0..MaxProcessCalls, exits : 0..MaxExits, downs : 0..MaxDowns,
                 fails : 0..MaxProcessFails]
  /\ met \subseteq {"overlap", "unwritten", "unsaved"}

(* An installed app that was never started.                                *)
ProcessInit ==
  /\ process = [p \in Pids |-> "none"]
  /\ pidfile = NoPid
  /\ wanted = "Stopped"
  /\ present = TRUE
  /\ service = "up"
  /\ op = [o \in Ops |-> NoOp]
  /\ counts = [calls |-> 0, exits |-> 0, downs |-> 0, fails |-> 0]
  /\ met = {}

-----------------------------------------------------------------------------
(* Steps of an operation                                                   *)

Goto(o, at) == op' = [op EXCEPT ![o].at = at]

(* The end of an operation; that of the recovery lets the API start.       *)
Return(o) ==
  /\ op' = [op EXCEPT ![o] = NoOp]
  /\ service' = IF op[o].kind = "reconcile" THEN "up" ELSE service

SystemFails == counts.fails < MaxProcessFails /\ counts' = [counts EXCEPT !.fails = @ + 1]

(* Operations overlap, but for a stop and a kill, which may: "must be safe *)
(* to call while a graceful stop of the same app is still running".        *)
Overlaps(kind) ==
  \E o \in Ops : op[o].at # "idle" /\ ~{kind, op[o].kind} \subseteq {"stop", "kill"}
Note(kind) == met' = met \union (IF Overlaps(kind) THEN {"overlap"} ELSE {})

(* A call reads meta.json first.  restart and remove do not look at the    *)
(* state of the app.                                                       *)
BeginCall(o, kind) ==
  /\ FreeThread(o) /\ present
  /\ counts.calls < MaxProcessCalls
  /\ counts' = [counts EXCEPT !.calls = @ + 1]
  /\ op' = [op EXCEPT ![o] =
       [kind |-> kind, at |-> IF kind \in {"restart", "remove"} THEN "signal" ELSE "look",
        ours |-> service = "up", seen |-> wanted, pid |-> NoPid]]
  /\ Note(kind)
  /\ UNCHANGED <<process, pidfile, wanted, present, service>>

(* state_of: running when the pid in the file is alive.                    *)
Look(o) ==
  /\ op[o].at = "look"
  /\ \/ /\ op[o].kind = "start"
        /\ Goto(o, IF Alive(pidfile) THEN "save" ELSE "spawn") /\ UNCHANGED service
     \/ /\ op[o].kind \in {"stop", "kill"}
        /\ Goto(o, IF Alive(pidfile) THEN "signal" ELSE "save") /\ UNCHANGED service
     \/ /\ op[o].kind = "reconcile"
        /\ IF op[o].seen = "Stopped" \/ Alive(pidfile)
             THEN Return(o) ELSE Goto(o, "spawn") /\ UNCHANGED service
  /\ UNCHANGED <<process, pidfile, wanted, present, counts, met>>

(* What follows the driver's stop or kill.                                 *)
After(kind) ==
  CASE kind = "restart" -> "spawn" [] kind = "remove" -> "delete" [] OTHER -> "save"

(* The driver's stop and kill: read the pid, then SIGTERM or SIGKILL.  A   *)
(* process asked to terminate exits by itself, or does not.                *)
Signal(o) ==
  /\ op[o].at = "signal"
  /\ \/ /\ pidfile \notin Pids
        /\ Goto(o, After(op[o].kind)) /\ UNCHANGED process
     \/ /\ pidfile \in Pids /\ ~Alive(pidfile)
        /\ op' = [op EXCEPT ![o].at = "unlink", ![o].pid = pidfile]
        /\ UNCHANGED process
     \/ /\ Alive(pidfile) /\ op[o].kind = "kill"
        /\ process' = Gone(pidfile)
        /\ op' = [op EXCEPT ![o].at = "unlink", ![o].pid = pidfile]
     \/ /\ Alive(pidfile) /\ op[o].kind # "kill"
        /\ op' = [op EXCEPT ![o].at = "wait", ![o].pid = pidfile]
        /\ UNCHANGED process
  /\ UNCHANGED <<pidfile, wanted, present, service, counts, met>>

(* The loop of the driver's stop sees that the process is gone.            *)
WaitEnds(o) ==
  /\ op[o].at = "wait" /\ ~Alive(op[o].pid)
  /\ Goto(o, "unlink")
  /\ UNCHANGED <<process, pidfile, wanted, present, service, counts, met>>

(* Mutant: the deadline ends the wait, and nothing else.                   *)
WaitGivesUp(o) ==
  /\ op[o].at = "wait" /\ Alive(op[o].pid)
  /\ Goto(o, "unlink")
  /\ UNCHANGED <<process, pidfile, wanted, present, service, counts, met>>

(* The deadline passes first, and SIGKILL is sent.                         *)
WaitTimesOut(o) ==
  /\ op[o].at = "wait" /\ Alive(op[o].pid)
  /\ process' = Gone(op[o].pid)
  /\ Goto(o, "unlink")
  /\ UNCHANGED <<pidfile, wanted, present, service, counts, met>>

(* The file is removed whatever pid it holds by now.                       *)
Unlink(o) ==
  /\ op[o].at = "unlink"
  /\ pidfile' = NoPid
  /\ Goto(o, After(op[o].kind))
  /\ UNCHANGED <<process, wanted, present, service, counts, met>>

(* The log is opened in the app's directory, the process spawned.  Its     *)
(* parent is the daemon, or a command about to end.                        *)
SpawnApp(o) ==
  /\ op[o].at = "spawn" /\ present
  /\ \E p \in Pids :
       /\ process[p] = "none"
       /\ process' = [process EXCEPT ![p] = IF op[o].ours THEN "child" ELSE "adopted"]
       /\ op' = [op EXCEPT ![o].at = "write", ![o].pid = p]
  /\ UNCHANGED <<pidfile, wanted, present, service, counts, met>>

SpawnFails(o) ==
  /\ op[o].at = "spawn"
  /\ IF present THEN SystemFails ELSE UNCHANGED counts
  /\ Return(o)
  /\ UNCHANGED <<process, pidfile, wanted, present, met>>

(* app.pid is written over in place.  The recovery saves no meta.json.     *)
Write(o) ==
  /\ op[o].at = "write" /\ present
  /\ pidfile' = op[o].pid
  /\ IF op[o].kind = "reconcile" THEN Return(o) ELSE Goto(o, "save") /\ UNCHANGED service
  /\ UNCHANGED <<process, wanted, present, counts, met>>

(* The process runs on.                                                    *)
WriteFails(o) ==
  /\ op[o].at = "write"
  /\ IF present THEN SystemFails /\ pidfile' \in {pidfile, EmptyFile}
     ELSE UNCHANGED <<counts, pidfile>>
  /\ met' = met \union {"unwritten"}
  /\ Return(o)
  /\ UNCHANGED <<process, wanted, present>>

(* meta.json is saved when the call found another desired state; saving it *)
(* creates the app's directory.                                            *)
Goal(kind) == IF kind \in {"start", "restart"} THEN "Running" ELSE "Stopped"
Save(o) ==
  /\ op[o].at = "save"
  /\ IF op[o].seen = Goal(op[o].kind)
       THEN UNCHANGED <<wanted, present>>
       ELSE wanted' = Goal(op[o].kind) /\ present' = TRUE
  /\ Return(o)
  /\ UNCHANGED <<process, pidfile, counts, met>>

SavingFails(o) ==
  /\ op[o].at = "save" /\ op[o].seen # Goal(op[o].kind) /\ SystemFails
  /\ met' = met \union {"unsaved"}
  /\ Return(o)
  /\ UNCHANGED <<process, pidfile, wanted, present>>

Delete(o) ==
  /\ op[o].at = "delete"
  /\ present' = FALSE /\ pidfile' = NoPid
  /\ Return(o)
  /\ UNCHANGED <<process, wanted, counts, met>>

-----------------------------------------------------------------------------
(* The environment                                                         *)

Happens == counts.exits < MaxExits /\ counts' = [counts EXCEPT !.exits = @ + 1]

Exit(p) ==
  /\ process[p] \in {"child", "adopted", "other"} /\ Happens
  /\ process' = Gone(p)
  /\ UNCHANGED <<pidfile, wanted, present, service, op, met>>

Reuse(p) ==
  /\ process[p] = "none" /\ Happens
  /\ process' = [process EXCEPT ![p] = "other"]
  /\ UNCHANGED <<pidfile, wanted, present, service, op, met>>

Downs == counts.downs < MaxDowns /\ counts' = [counts EXCEPT !.downs = @ + 1]

(* What is left behind when the threads S end where they are.              *)
CutOff(S) ==
  /\ op' = [o \in Ops |-> IF o \in S THEN NoOp ELSE op[o]]
  /\ met' = met \union (IF \E o \in S : op[o].at = "write" THEN {"unwritten"} ELSE {})
               \union (IF \E o \in S : op[o].at # "idle" THEN {"unsaved"} ELSE {})
  /\ IF present /\ \E o \in S : op[o].at = "write"
       THEN pidfile' \in {pidfile, EmptyFile} ELSE UNCHANGED pidfile

(* The daemon ends.  Its unit says nothing of KillMode, so systemd ends    *)
(* what it started with it; a daemon started by hand leaves it to init.    *)
DaemonEnds(byUnit) ==
  /\ service # "down" /\ Downs
  /\ service' = "down"
  /\ process' = [p \in Pids |->
       CASE process[p] = "child" -> IF byUnit THEN "none" ELSE "adopted"
         [] process[p] = "zombie" -> "none"
         [] OTHER -> process[p]]
  /\ CutOff({o \in Ops : op[o].ours})
  /\ UNCHANGED <<wanted, present>>

Reboot ==
  /\ Downs
  /\ service' = "down"
  /\ process' \in [Pids -> {"none", "other"}]
  /\ CutOff(Ops)
  /\ UNCHANGED <<wanted, present>>

CommandEnds(o) ==
  /\ op[o].at # "idle" /\ ~op[o].ours /\ SystemFails
  /\ CutOff({o})
  /\ UNCHANGED <<process, wanted, present, service>>

(* A daemon that starts brings the wanted apps up before it serves calls.  *)
DaemonStarts(o) ==
  /\ service = "down" /\ FreeThread(o)
  /\ IF present
       THEN /\ service' = "recovering"
            /\ op' = [op EXCEPT ![o] = [kind |-> "reconcile", at |-> "look", ours |-> TRUE,
                                        seen |-> wanted, pid |-> NoPid]]
            /\ Note("reconcile")
       ELSE service' = "up" /\ UNCHANGED <<op, met>>
  /\ UNCHANGED <<process, pidfile, wanted, present, counts>>

ThreadStep(o) ==
  \/ Look(o) \/ Signal(o) \/ WaitEnds(o) \/ WaitTimesOut(o) \/ Unlink(o) \/ SpawnApp(o)
  \/ SpawnFails(o) \/ Write(o) \/ WriteFails(o) \/ Save(o) \/ SavingFails(o) \/ Delete(o)
ProcessNext ==
  \/ \E o \in Ops : ThreadStep(o) \/ CommandEnds(o) \/ DaemonStarts(o)
  \/ \E o \in Ops, kind \in Asked : BeginCall(o, kind)
  \/ \E p \in Pids : Exit(p) \/ Reuse(p)
  \/ \E byUnit \in BOOLEAN : DaemonEnds(byUnit)
  \/ Reboot

ProcessSpec == ProcessInit /\ [][ProcessNext]_processVars

-----------------------------------------------------------------------------
(* Properties                                                              *)

(* The app runs once at most, and whenever it runs app.pid says where, or  *)
(* the start that spawned it is about to: however processes exit, pids are *)
(* reused, stops and kills meet and the daemon restarts.  Not so once two  *)
(* other operations overlapped or a pid could not be written.              *)
OneProcess ==
  met \intersect {"overlap", "unwritten"} = {} =>
    \A p \in Live :
      \/ pidfile = p /\ \A o \in Ops : op[o].at # "write"
      \/ \E o \in Ops : op[o].at = "write" /\ op[o].pid = p /\ Live = {p}

(* An app that was stopped or removed does not run, unless an operation    *)
(* was cut off after it took effect and before it was recorded.            *)
StoppedIsStopped ==
  met = {} /\ AtRest /\ (wanted = "Stopped" \/ ~present) => Live = {}

ProcessIsKnown == OneProcess /\ StoppedIsStopped

(* A kill "can run while that `stop` is still waiting, which then returns  *)
(* as soon as the app dies": no stop sits out the deadline of an app that  *)
(* has died (ProcessDriver::stop).                                         *)
DeathEndsTheStop ==
  [][\A o \in Ops : WaitTimesOut(o) => process[op[o].pid] # "zombie"]_processVars
=============================================================================
