----------------------------- MODULE Scheduler -----------------------------
(***************************************************************************)
(* The task scheduler (src/src/daemon/scheduler/): the minute loop, the    *)
(* jobs it starts, and the store both of them and the command line share.  *)
(*                                                                         *)
(* The store's two files are rewritten whole under one flock.  A call that *)
(* rewrites one file is one step; `remove` and `replace_managed` rewrite   *)
(* both, so they are two steps with the lock held in between.              *)
(***************************************************************************)
EXTENDS Naturals, Sequences, FiniteSets

CONSTANTS
  Ids,         \* job ids
  Triggers,    \* triggers, each the set of minutes at which it fires
  MaxMinute,   \* bound: the clock
  MaxBack,     \* bound: by how many minutes in all the clock steps back
  MaxEdits,    \* bound: edits of the job list
  MaxRuns,     \* bound: runs ever opened
  MaxHistory,  \* runs kept per job (50 in the code)
  MaxDeaths,   \* bound: process deaths, of the daemon and of the CLI
  MaxFails     \* bound: failing reads and writes of the store

ASSUME SchedulerAssumption ==
  /\ {MaxMinute, MaxBack, MaxEdits, MaxRuns, MaxDeaths, MaxFails} \subseteq Nat
  /\ MaxHistory \in Nat \ {0}
  /\ Triggers \subseteq SUBSET (0..MaxMinute)

VARIABLES
  jobs,     \* schedules.json
  history,  \* schedule-runs.json, the oldest run first
  lock,     \* the two-file call that holds schedules.lock
  clock,    \* the wall clock, in minutes
  back,     \* how far it was stepped back so far
  slept,    \* the loop's sleep is over
  loop,     \* where the minute loop is
  last,     \* the last minute it served, a set of at most one
  running,  \* RUNNING
  tasks,    \* the runs in progress, of the daemon and of `asc schedule run`
  opened,   \* how many runs were opened
  starts,   \* history: how often a job was started for a minute
  lost,     \* history: the runs whose process died
  edits, deaths, fails

store == <<jobs, history, lock>>
time  == <<clock, back, slept>>
bounds == <<edits, deaths, fails>>
vars == <<jobs, history, lock, clock, back, slept, loop, last, running, tasks,
          opened, starts, lost, edits, deaths, fails>>

-----------------------------------------------------------------------------
Minutes == 0..MaxMinute
Owners == {"operator", "platform"}
Job == [owner : Owners, trigger : Triggers, enabled : BOOLEAN]
NoJob == [owner |-> "nobody", trigger |-> {}, enabled |-> FALSE]
Known == {id \in Ids : jobs[id] # NoJob}

Run == [id : 1..MaxRuns, status : {"running", "finished"}]

(* Who executes: the loop, a request of the API, or the CLI's own process. *)
Daemon == {"loop", "api"}
Task == [job : Ids, by : Daemon \union {"cli"}, run : 0..MaxRuns,
         at : {"asked", "opening", "executing", "leaving"}]

(* The lock's holder and the histories it still has to drop.               *)
Lock == [by : {"none", "daemon", "cli"}, drop : SUBSET Ids]
Unlocked == [by |-> "none", drop |-> {}]
Free == lock = Unlocked

Asleep == [at |-> "asleep", stamp |-> 0, todo |-> {}]
Loop == [at : {"asleep", "backups", "list", "start"}, stamp : Minutes, todo : SUBSET Ids]

TypeOK ==
  /\ jobs \in [Ids -> Job \union {NoJob}]
  /\ history \in [Ids -> Seq(Run)]
  /\ \A id \in Ids : Len(history[id]) <= MaxHistory
  /\ lock \in Lock
  /\ clock \in Minutes
  /\ back \in 0..MaxBack
  /\ slept \in BOOLEAN
  /\ loop \in Loop
  /\ last \subseteq Minutes
  /\ running \subseteq Ids
  /\ tasks \subseteq Task
  /\ opened \in 0..MaxRuns
  /\ starts \in [Ids \X Minutes -> 0..2]
  /\ lost \subseteq 1..MaxRuns
  /\ edits \in 0..MaxEdits
  /\ deaths \in 0..MaxDeaths
  /\ fails \in 0..MaxFails

Init ==
  /\ jobs \in [Ids -> [owner : {"operator"}, trigger : Triggers, enabled : {TRUE}] \union {NoJob}]
  /\ history = [id \in Ids |-> <<>>]
  /\ lock = Unlocked
  /\ clock = 0
  /\ back = 0
  /\ slept = FALSE
  /\ loop = Asleep
  /\ last = {}
  /\ running = {}
  /\ tasks = {}
  /\ opened = 0
  /\ starts = [p \in Ids \X Minutes |-> 0]
  /\ lost = {}
  /\ edits = 0 /\ deaths = 0 /\ fails = 0

StoreFails == fails < MaxFails /\ fails' = fails + 1

(* The bound on runs never leaves a run half-way.                          *)
Budget == opened + Cardinality({t \in tasks : t.run = 0}) < MaxRuns

-----------------------------------------------------------------------------
(* Editing the list                                                        *)

Edit == edits < MaxEdits /\ edits' = edits + 1 /\ Free

(* A job of another owner is not taken over.                               *)
Upsert(id, job) ==
  /\ Edit
  /\ id \in Known => jobs[id].owner = job.owner
  /\ jobs' = [jobs EXCEPT ![id] = job]
  /\ UNCHANGED <<history, lock, time, loop, last, running, tasks, opened, starts, lost, deaths, fails>>

SetEnabled(id, enabled) ==
  /\ Edit
  /\ id \in Known
  /\ jobs' = [jobs EXCEPT ![id].enabled = enabled]
  /\ UNCHANGED <<history, lock, time, loop, last, running, tasks, opened, starts, lost, deaths, fails>>

Remove(id, by) ==
  /\ Edit
  /\ id \in Known
  /\ jobs' = [jobs EXCEPT ![id] = NoJob]
  /\ lock' = [by |-> by, drop |-> {id}]
  /\ UNCHANGED <<history, time, loop, last, running, tasks, opened, starts, lost, deaths, fails>>

(* The platform replaces all of its own jobs; an id of the operator's      *)
(* refuses the whole push.  `incoming` maps the pushed ids to their jobs.  *)
Managed == {id \in Known : jobs[id].owner = "platform"}
ReplaceManaged(incoming) ==
  LET dropped == Managed \ DOMAIN incoming
  IN /\ Edit
     /\ DOMAIN incoming \intersect (Known \ Managed) = {}
     /\ jobs' = [id \in Ids |-> IF id \in DOMAIN incoming THEN incoming[id]
                                ELSE IF id \in dropped THEN NoJob ELSE jobs[id]]
     /\ lock' = IF dropped = {} THEN lock ELSE [by |-> "daemon", drop |-> dropped]
     /\ UNCHANGED <<history, time, loop, last, running, tasks, opened, starts, lost, deaths, fails>>

DropHistory ==
  /\ ~Free
  /\ \/ history' = [id \in Ids |-> IF id \in lock.drop THEN <<>> ELSE history[id]]
        /\ UNCHANGED fails
     \/ StoreFails /\ UNCHANGED history
  /\ lock' = Unlocked
  /\ UNCHANGED <<jobs, time, loop, last, running, tasks, opened, starts, lost, edits, deaths>>

-----------------------------------------------------------------------------
(* The minute loop                                                         *)

(* Mutant: no minute is remembered.                                        *)
WakeAlways ==
  /\ loop.at = "asleep" /\ slept
  /\ slept' = FALSE
  /\ last' = {clock}
  /\ loop' = [at |-> "backups", stamp |-> clock, todo |-> {}]
  /\ UNCHANGED <<store, clock, back, running, tasks, opened, starts, lost, bounds>>
Wake ==
  /\ loop.at = "asleep" /\ slept
  /\ slept' = FALSE
  /\ IF last = {clock}
       THEN UNCHANGED <<last, loop>>
       ELSE /\ last' = {clock}
            /\ loop' = [at |-> "backups", stamp |-> clock, todo |-> {}]
  /\ UNCHANGED <<store, clock, back, running, tasks, opened, starts, lost, bounds>>

(* The pass over the backup policies takes as long as it takes.            *)
BackupsDone ==
  /\ loop.at = "backups"
  /\ loop' = [loop EXCEPT !.at = "list"]
  /\ UNCHANGED <<store, time, last, running, tasks, opened, starts, lost, bounds>>

Due == {id \in Known : jobs[id].enabled /\ loop.stamp \in jobs[id].trigger}

ListJobs ==
  /\ loop.at = "list" /\ Free
  /\ \/ loop' = [loop EXCEPT !.at = "start", !.todo = Due] /\ UNCHANGED fails
     \/ StoreFails /\ loop' = Asleep
  /\ UNCHANGED <<store, time, last, running, tasks, opened, starts, lost, edits, deaths>>

LoopOpening == \E t \in tasks : t.by = "loop" /\ t.at = "opening"

(* Mutant: RUNNING is not asked.                                           *)
StartOnTop(id) ==
  /\ loop.at = "start" /\ id \in loop.todo /\ ~LoopOpening
  /\ loop' = [loop EXCEPT !.todo = @ \ {id}]
  /\ running' = running \union {id}
  /\ tasks' = tasks \union {[job |-> id, by |-> "loop", run |-> 0, at |-> "opening"]}
  /\ UNCHANGED <<store, time, last, opened, starts, lost, bounds>>

(* A job that is still running is skipped.                                 *)
StartDue(id) ==
  /\ loop.at = "start" /\ id \in loop.todo /\ ~LoopOpening
  /\ loop' = [loop EXCEPT !.todo = @ \ {id}]
  /\ IF id \in running
       THEN UNCHANGED <<running, tasks>>
       ELSE /\ Budget
            /\ running' = running \union {id}
            /\ tasks' = tasks \union {[job |-> id, by |-> "loop", run |-> 0, at |-> "opening"]}
  /\ UNCHANGED <<store, time, last, opened, starts, lost, bounds>>

Sleep ==
  /\ loop.at = "start" /\ loop.todo = {} /\ ~LoopOpening
  /\ loop' = Asleep
  /\ UNCHANGED <<store, time, last, running, tasks, opened, starts, lost, bounds>>

-----------------------------------------------------------------------------
(* Runs                                                                    *)

(* `RunSchedule` of the API and `asc schedule run` look the job up first.  *)
Ask(id, by) ==
  /\ id \in Known /\ Free
  /\ Budget
  /\ ~\E t \in tasks : t.job = id /\ t.by = by
  /\ tasks' = tasks \union {[job |-> id, by |-> by, run |-> 0, at |-> "asked"]}
  /\ UNCHANGED <<store, time, loop, last, running, opened, starts, lost, bounds>>

Becomes(t, at) == tasks' = (tasks \ {t}) \union {[t EXCEPT !.at = at]}

(* A second instance in the daemon is refused; the CLI does not ask.       *)
Spawn(t) ==
  /\ t.at = "asked"
  /\ IF t.by = "cli" THEN Becomes(t, "opening") /\ UNCHANGED running
     ELSE IF t.job \in running THEN tasks' = tasks \ {t} /\ UNCHANGED running
     ELSE Becomes(t, "opening") /\ running' = running \union {t.job}
  /\ UNCHANGED <<store, time, loop, last, opened, starts, lost, bounds>>

Capped(runs) == IF Len(runs) > MaxHistory THEN Tail(runs) ELSE runs
BeginRun(t) ==
  /\ t.at = "opening" /\ Free
  /\ opened' = opened + 1
  /\ history' = [history EXCEPT
       ![t.job] = Capped(Append(@, [id |-> opened', status |-> "running"]))]
  /\ tasks' = (tasks \ {t}) \union {[t EXCEPT !.at = "executing", !.run = opened']}
  /\ starts' = IF t.by = "loop" /\ starts[<<t.job, loop.stamp>>] < 2
                 THEN [starts EXCEPT ![<<t.job, loop.stamp>>] = @ + 1] ELSE starts
  /\ UNCHANGED <<jobs, lock, time, loop, last, running, lost, bounds>>

(* Mutant: the job stays in RUNNING when its run cannot be recorded.       *)
BeginFailsSilently(t) ==
  /\ t.at = "opening" /\ Free
  /\ StoreFails
  /\ tasks' = tasks \ {t}
  /\ UNCHANGED <<store, time, loop, last, running, opened, starts, lost, edits, deaths>>
BeginFails(t) ==
  /\ t.at = "opening" /\ Free
  /\ StoreFails
  /\ tasks' = tasks \ {t}
  /\ running' = IF t.by = "cli" THEN running ELSE running \ {t.job}
  /\ UNCHANGED <<store, time, loop, last, opened, starts, lost, edits, deaths>>

Closed(run) == [run EXCEPT !.status = "finished"]
(* Mutant Finished: the newest run of the job is closed.                   *)
FinishedLast(runs, id) ==
  IF runs = <<>> THEN runs ELSE [runs EXCEPT ![Len(runs)] = Closed(@)]
(* Only the run with this id is closed; without one nothing is recorded.   *)
Finished(runs, id) ==
  [i \in DOMAIN runs |-> IF runs[i].id = id THEN Closed(runs[i]) ELSE runs[i]]

FinishRun(t) ==
  /\ t.at = "executing" /\ Free
  /\ \/ history' = [history EXCEPT ![t.job] = Finished(@, t.run)]
        /\ UNCHANGED <<fails, lost>>
     \/ StoreFails /\ lost' = lost \union {t.run} /\ UNCHANGED history
  /\ Becomes(t, "leaving")
  /\ UNCHANGED <<jobs, lock, time, loop, last, running, opened, starts, edits, deaths>>

Leave(t) ==
  /\ t.at = "leaving"
  /\ tasks' = tasks \ {t}
  /\ running' = IF t.by = "cli" THEN running ELSE running \ {t.job}
  /\ UNCHANGED <<store, time, loop, last, opened, starts, lost, bounds>>

-----------------------------------------------------------------------------
(* The environment                                                         *)

Tick ==
  /\ clock < MaxMinute
  /\ clock' = clock + 1
  /\ slept' = TRUE
  /\ UNCHANGED <<store, back, loop, last, running, tasks, opened, starts, lost, bounds>>

StepBack ==
  /\ back < MaxBack /\ clock > 0
  /\ clock' = clock - 1
  /\ back' = back + 1
  /\ UNCHANGED <<store, slept, loop, last, running, tasks, opened, starts, lost, bounds>>

Die(by) == 
  /\ deaths < MaxDeaths
  /\ deaths' = deaths + 1
  /\ tasks' = {t \in tasks : t.by \notin by}
  /\ lost' = lost \union {t.run : t \in {u \in tasks : u.by \in by /\ u.at = "executing"}}

(* The daemon dies and starts again; its first pass is after a sleep.      *)
Restart ==
  /\ Die(Daemon)
  /\ running' = {}
  /\ last' = {}
  /\ slept' = FALSE
  /\ loop' = Asleep
  /\ lock' = IF lock.by = "daemon" THEN Unlocked ELSE lock
  /\ UNCHANGED <<jobs, history, clock, back, opened, starts, edits, fails>>

KillCli ==
  /\ Die({"cli"})
  /\ lock' = IF lock.by = "cli" THEN Unlocked ELSE lock
  /\ UNCHANGED <<jobs, history, time, loop, last, running, opened, starts, edits, fails>>

-----------------------------------------------------------------------------
Pushes == UNION {[S -> [owner : {"platform"}, trigger : Triggers, enabled : {TRUE}]] : S \in SUBSET Ids}

Editing ==
  \/ \E id \in Ids, job \in Job : Upsert(id, job)
  \/ \E id \in Ids, enabled \in BOOLEAN : SetEnabled(id, enabled)
  \/ \E id \in Ids, by \in {"daemon", "cli"} : Remove(id, by)
  \/ \E incoming \in Pushes : ReplaceManaged(incoming)

LoopStep == Wake \/ BackupsDone \/ ListJobs \/ (\E id \in Ids : StartDue(id)) \/ Sleep
TaskStep(id, by) ==
  \E t \in tasks : t.job = id /\ t.by = by /\
    (Spawn(t) \/ BeginRun(t) \/ BeginFails(t) \/ FinishRun(t) \/ Leave(t))

Next ==
  \/ Editing
  \/ DropHistory
  \/ LoopStep
  \/ \E id \in Ids, by \in {"api", "cli"} : Ask(id, by)
  \/ \E id \in Ids, by \in Daemon \union {"cli"} : TaskStep(id, by)
  \/ Tick \/ StepBack
  \/ Restart \/ KillCli

Spec == Init /\ [][Next]_vars

-----------------------------------------------------------------------------
(* Properties                                                              *)

InDaemon == {t \in tasks : t.by \in Daemon /\ t.at # "asked"}

(* RUNNING names exactly the jobs this process executes, each once: a job  *)
(* never runs on top of itself, and none is skipped for ever because its   *)
(* id was left behind.                                                     *)
RunningIsExact ==
  /\ running = {t.job : t \in InDaemon}
  /\ \A t, u \in InDaemon : t.job = u.job => t = u

(* "A fast loop or a clock step backwards must not run the same minute's   *)
(* jobs twice."                                                            *)
StartedOnce == \A p \in Ids \X Minutes : starts[p] <= 1

(* It does not, whatever is edited and however often the daemon restarts,  *)
(* as long as the clock only goes forward; nor after one step back by a    *)
(* minute, unless a restart forgets the last minute served.                *)
OncePerMinute == back = 0 \/ (back = 1 /\ deaths = 0) => StartedOnce

(* A run is shown as running only while somebody executes it, or when its  *)
(* process died or could not record its end.                               *)
OpenRunsAreAlive ==
  \A id \in Ids : \A i \in DOMAIN history[id] :
    LET run == history[id][i]
    IN run.status = "running" =>
         \/ run.id \in lost
         \/ \E t \in tasks : t.job = id /\ t.run = run.id /\ t.at = "executing"

=============================================================================
