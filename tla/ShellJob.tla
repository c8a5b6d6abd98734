------------------------------ MODULE ShellJob ------------------------------
(***************************************************************************)
(* A shell job of the scheduler (run_shell in                              *)
(* src/src/daemon/scheduler/jobs.rs): `/bin/sh -c` in a process group of   *)
(* its own, its output read by a thread until the last writer is gone, and *)
(* a deadline after which the group is killed.                             *)
(***************************************************************************)
EXTENDS Naturals, FiniteSets

CONSTANTS
  Procs,    \* processes the command may start besides the shell
  Shell,    \* the shell itself
  MaxOut    \* bytes of output kept (64 KiB in the code)

ShellAssumption == Shell \notin Procs /\ MaxOut \in Nat

VARIABLES
  proc,      \* what each process is doing
  group,     \* the processes in the shell's process group
  pipe,      \* the processes that hold the write end of the output pipe
  captured,  \* how much output was kept
  reader,    \* the reader thread still runs
  deadline,  \* the deadline has passed
  waiter,    \* the thread of the job
  status     \* what try_wait saw

jobVars == <<proc, group, pipe, captured, reader, deadline, waiter, status>>

All == Procs \union {Shell}

JobTypeOK ==
  /\ proc \in [All -> {"none", "alive", "exited", "killed"}]
  /\ group \subseteq All
  /\ pipe \subseteq All
  /\ captured \in 0..MaxOut
  /\ reader \in BOOLEAN
  /\ deadline \in BOOLEAN
  /\ waiter \in {"idle", "polling", "looked", "joining", "done"}
  /\ status \in {"none", "exit", "timeout"}

JobInit ==
  /\ proc = [p \in All |-> "none"]
  /\ group = {}
  /\ pipe = {}
  /\ captured = 0
  /\ reader = FALSE
  /\ deadline = FALSE
  /\ waiter = "idle"
  /\ status = "none"

(* spawn leads a new process group; it may fail, and the job is over.      *)
StartShell ==
  /\ waiter = "idle"
  /\ \/ /\ proc' = [proc EXCEPT ![Shell] = "alive"]
        /\ group' = {Shell}
        /\ pipe' = {Shell}
        /\ reader' = TRUE
        /\ waiter' = "polling"
     \/ waiter' = "done" /\ UNCHANGED <<proc, group, pipe, reader>>
  /\ UNCHANGED <<captured, deadline, status>>

Alive(p) == proc[p] = "alive"

(* A process started by another one inherits its group and its output,     *)
(* unless it leaves the one (setsid) or redirects the other.               *)
Fork(p, q, leaves, redirects) ==
  /\ Alive(p) /\ proc[q] = "none"
  /\ proc' = [proc EXCEPT ![q] = "alive"]
  /\ group' = IF p \in group /\ ~leaves THEN group \union {q} ELSE group
  /\ pipe' = IF p \in pipe /\ ~redirects THEN pipe \union {q} ELSE pipe
  /\ UNCHANGED <<captured, reader, deadline, waiter, status>>

Exit(p) ==
  /\ Alive(p)
  /\ proc' = [proc EXCEPT ![p] = "exited"]
  /\ group' = group \ {p}
  /\ pipe' = pipe \ {p}
  /\ UNCHANGED <<captured, reader, deadline, waiter, status>>

(* The reader drains the pipe past the cap, so no writer ever blocks.      *)
(* Mutant: it keeps everything it reads.                                   *)
ReadAll ==
  /\ reader
  /\ \/ pipe # {} /\ captured' = captured + 1 /\ UNCHANGED reader
     \/ pipe = {} /\ reader' = FALSE /\ UNCHANGED captured
  /\ UNCHANGED <<proc, group, pipe, deadline, waiter, status>>
Read ==
  /\ reader
  /\ \/ pipe # {} /\ captured < MaxOut /\ captured' = captured + 1 /\ UNCHANGED reader
     \/ pipe = {} /\ reader' = FALSE /\ UNCHANGED captured
  /\ UNCHANGED <<proc, group, pipe, deadline, waiter, status>>

DeadlinePasses ==
  /\ ~deadline /\ waiter # "idle"
  /\ deadline' = TRUE
  /\ UNCHANGED <<proc, group, pipe, captured, reader, waiter, status>>

(* Mutant Killed: only the shell is killed.                                *)
KillShell == {Shell}
Killed == group

Poll ==
  /\ waiter = "polling"
  /\ IF proc[Shell] = "exited"
       THEN waiter' = "joining" /\ status' = "exit"
       ELSE waiter' = "looked" /\ UNCHANGED status
  /\ UNCHANGED <<proc, group, pipe, captured, reader, deadline>>

(* The shell may have exited since try_wait saw it running.                *)
(* Mutant: the deadline is not looked at.                                  *)
ExpireNever ==
  /\ waiter = "looked"
  /\ waiter' = "polling"
  /\ UNCHANGED <<proc, group, pipe, captured, reader, deadline, status>>
Expire ==
  /\ waiter = "looked"
  /\ IF deadline
       THEN /\ proc' = [p \in All |-> IF p \in Killed THEN "killed" ELSE proc[p]]
            /\ group' = group \ Killed
            /\ pipe' = pipe \ Killed
            /\ waiter' = "joining" /\ status' = "timeout"
       ELSE waiter' = "polling" /\ UNCHANGED <<proc, group, pipe, status>>
  /\ UNCHANGED <<captured, reader, deadline>>

JoinReader ==
  /\ waiter = "joining" /\ ~reader
  /\ waiter' = "done"
  /\ UNCHANGED <<proc, group, pipe, captured, reader, deadline, status>>

JobNext ==
  \/ \E p, q \in All, leaves, redirects \in BOOLEAN : Fork(p, q, leaves, redirects)
  \/ \E p \in All : Exit(p)
  \/ StartShell \/ Read \/ DeadlinePasses \/ Poll \/ Expire \/ JoinReader

JobSpec == JobInit /\ [][JobNext]_jobVars

(* Time passes and the daemon's threads run; the command need not end.     *)
JobFairness ==
  /\ WF_jobVars(DeadlinePasses) /\ WF_jobVars(Read) /\ WF_jobVars(Poll)
  /\ WF_jobVars(Expire) /\ WF_jobVars(JoinReader)
JobFairSpec == JobSpec /\ JobFairness

-----------------------------------------------------------------------------
(* Properties                                                              *)

(* "Killed (whole process group) on timeout": a job that timed out leaves  *)
(* nothing behind but what moved to a group of its own.                    *)
TimeoutKillsTheGroup == status = "timeout" => group = {}

(* A job whose processes stay in the group and keep no output open past    *)
(* the shell's own end ends by itself or at the deadline: its thread never *)
(* stays at work while they are like that.                                 *)
WellBehaved == pipe \subseteq group /\ (Shell \in group \/ pipe = {})
EndsWhenWellBehaved == []<>(WellBehaved => waiter \in {"idle", "done"})
=============================================================================
