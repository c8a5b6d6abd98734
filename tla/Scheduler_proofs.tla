-------------------------- MODULE Scheduler_proofs --------------------------
(***************************************************************************)
(* RUNNING is exact, no run is shown as running that nobody executes, and  *)
(* no job is started twice for a minute, for any number of jobs, runs,     *)
(* edits, deaths and failures.  The search for a schedule's next minute    *)
(* finds the first one, for every schedule, calendar, zone and minute.     *)
(***************************************************************************)
EXTENDS Scheduler, CronSchedule, WellFoundedInduction, TLAPS

(* What the arguments need of the types: the bounds on numbers do not      *)
(* matter here.                                                            *)
SomeTask == [job : Ids, by : Daemon \union {"cli"}, run : Nat,
             at : {"asked", "opening", "executing", "leaving"}]
SomeRun == [id : Nat, status : {"running", "finished"}]
Shapes ==
  /\ tasks \subseteq SomeTask
  /\ history \in [Ids -> Seq(SomeRun)]
  /\ opened \in Nat

(* The steps that touch none of what the invariants speak of.              *)
Aside == UNCHANGED <<tasks, history, opened, running, lost>>

(* The kinds of step a task can take, and everything else.                 *)
LEMMA StepKinds ==
  ASSUME [Next]_vars
  PROVE  \/ Aside
         \/ DropHistory
         \/ \E id \in Ids : StartDue(id)
         \/ \E id \in Ids, by \in {"api", "cli"} : Ask(id, by)
         \/ \E t \in tasks :
              Spawn(t) \/ BeginRun(t) \/ BeginFails(t) \/ FinishRun(t) \/ Leave(t)
         \/ Restart
         \/ KillCli
<1>1. CASE Editing
  BY <1>1 DEF Editing, Upsert, SetEnabled, Remove, ReplaceManaged, Aside
<1>2. CASE Wake \/ BackupsDone \/ ListJobs \/ Sleep
  BY <1>2 DEF Wake, BackupsDone, ListJobs, Sleep, Aside, store
<1>3. CASE Tick \/ StepBack
  BY <1>3 DEF Tick, StepBack, Aside, store
<1>4. CASE UNCHANGED vars
  BY <1>4 DEF vars, Aside
<1>5. CASE \E id \in Ids, by \in Daemon \union {"cli"} : TaskStep(id, by)
  BY <1>5 DEF TaskStep
<1> QED
  BY <1>1, <1>2, <1>3, <1>4, <1>5 DEF Next, LoopStep

(* A task that moves keeps its job and who executes it.                    *)
Moved(t, at) == [t EXCEPT !.at = at]
Started(t, run) == [t EXCEPT !.at = "executing", !.run = run]

LEMMA MovedTask ==
  ASSUME NEW t \in SomeTask, NEW at \in {"asked", "opening", "executing", "leaving"}
  PROVE  /\ Moved(t, at) \in SomeTask
         /\ Moved(t, at).job = t.job /\ Moved(t, at).by = t.by
         /\ Moved(t, at).at = at /\ Moved(t, at).run = t.run
BY DEF SomeTask, Moved

LEMMA StartedTask ==
  ASSUME NEW t \in SomeTask, NEW run \in Nat
  PROVE  /\ Started(t, run) \in SomeTask
         /\ Started(t, run).job = t.job /\ Started(t, run).by = t.by
         /\ Started(t, run).at = "executing" /\ Started(t, run).run = run
BY DEF SomeTask, Started

LEMMA CappedRuns ==
  ASSUME NEW runs \in Seq(SomeRun), NEW run \in SomeRun
  PROVE  /\ Capped(Append(runs, run)) \in Seq(SomeRun)
         /\ \A i \in DOMAIN Capped(Append(runs, run)) :
              \/ Capped(Append(runs, run))[i] = run
              \/ \E j \in DOMAIN runs : Capped(Append(runs, run))[i] = runs[j]
<1> DEFINE all == Append(runs, run)
<1>1. all \in Seq(SomeRun) /\ all # <<>> /\ Len(all) = Len(runs) + 1
      /\ \A i \in DOMAIN all : all[i] = run \/ \E j \in DOMAIN runs : all[i] = runs[j]
  OBVIOUS
<1>2. Tail(all) \in Seq(SomeRun) /\ \A i \in DOMAIN Tail(all) : i + 1 \in DOMAIN all /\ Tail(all)[i] = all[i + 1]
  BY <1>1
<1> QED
  BY <1>1, <1>2 DEF Capped

LEMMA FinishedRuns ==
  ASSUME NEW runs \in Seq(SomeRun), NEW id \in Nat
  PROVE  /\ Finished(runs, id) \in Seq(SomeRun)
         /\ DOMAIN Finished(runs, id) = DOMAIN runs
         /\ \A i \in DOMAIN runs :
              /\ Finished(runs, id)[i].id = runs[i].id
              /\ Finished(runs, id)[i].status = "running" =>
                   runs[i].status = "running" /\ runs[i].id # id
<1>0. \A run \in SomeRun :
        Closed(run) \in SomeRun /\ Closed(run).id = run.id /\ Closed(run).status = "finished"
  BY DEF SomeRun, Closed
<1>1. \A i \in DOMAIN runs :
        /\ runs[i] \in SomeRun /\ Closed(runs[i]) \in SomeRun
        /\ Closed(runs[i]).id = runs[i].id /\ Closed(runs[i]).status = "finished"
  BY <1>0
<1>2. Len(runs) \in Nat /\ DOMAIN runs = 1..Len(runs)
  OBVIOUS
<1>3. Finished(runs, id) \in [1..Len(runs) -> SomeRun]
  BY <1>1, <1>2 DEF Finished
<1>4. Finished(runs, id) \in Seq(SomeRun)
  BY <1>2, <1>3
<1> QED
  BY <1>1, <1>2, <1>3, <1>4 DEF Finished

-----------------------------------------------------------------------------
(* Shapes                                                                  *)

LEMMA InitShapes == Init => Shapes
BY DEF Init, Shapes, SomeTask

LEMMA TaskShapes ==
  ASSUME Shapes, NEW t \in tasks,
         Spawn(t) \/ BeginRun(t) \/ BeginFails(t) \/ FinishRun(t) \/ Leave(t)
  PROVE  Shapes'
<1> USE DEF Shapes
<1>1. t \in SomeTask /\ t.job \in Ids /\ t.run \in Nat /\ history[t.job] \in Seq(SomeRun)
  BY DEF SomeTask
<1>2. CASE Spawn(t)
  <2>1. tasks' \subseteq tasks \union {Moved(t, "opening")}
    BY <1>2 DEF Spawn, Becomes, Moved
  <2> QED
    BY <1>1, <1>2, <2>1, MovedTask DEF Spawn, store
<1>3. CASE BeginRun(t)
  <2> DEFINE run == [id |-> opened', status |-> "running"]
  <2>1. opened' \in Nat /\ run \in SomeRun
    BY <1>3 DEF BeginRun, SomeRun
  <2>2. tasks' \subseteq tasks \union {Started(t, opened')}
    BY <1>3 DEF BeginRun, Started
  <2>3. tasks' \subseteq SomeTask
    BY <1>1, <2>1, <2>2, StartedTask
  <2>4. Capped(Append(history[t.job], run)) \in Seq(SomeRun)
    BY <1>1, <2>1, CappedRuns
  <2>5. history' = [history EXCEPT ![t.job] = Capped(Append(history[t.job], run))]
    BY <1>3 DEF BeginRun
  <2> QED
    BY <1>1, <2>1, <2>3, <2>4, <2>5
<1>4. CASE BeginFails(t)
  BY <1>4 DEF BeginFails, store
<1>5. CASE FinishRun(t)
  <2>1. Finished(history[t.job], t.run) \in Seq(SomeRun)
    BY <1>1, FinishedRuns
  <2>2. \/ history' = [history EXCEPT ![t.job] = Finished(history[t.job], t.run)]
        \/ history' = history
    BY <1>5 DEF FinishRun
  <2>3. tasks' \subseteq tasks \union {Moved(t, "leaving")} /\ opened' = opened
    BY <1>5 DEF FinishRun, Becomes, Moved
  <2> QED
    BY <1>1, <2>1, <2>2, <2>3, MovedTask
<1>6. CASE Leave(t)
  BY <1>6 DEF Leave, store
<1> QED
  BY <1>2, <1>3, <1>4, <1>5, <1>6

LEMMA NextShapes == Shapes /\ [Next]_vars => Shapes'
<1> SUFFICES ASSUME Shapes, [Next]_vars PROVE Shapes'
  OBVIOUS
<1> USE DEF Shapes
<1>1. CASE Aside
  BY <1>1 DEF Aside
<1>2. CASE DropHistory
  <2>1. <<>> \in Seq(SomeRun)
    OBVIOUS
  <2>2. \/ history' = [id \in Ids |-> IF id \in lock.drop THEN <<>> ELSE history[id]]
        \/ history' = history
    BY <1>2 DEF DropHistory
  <2> QED
    BY <1>2, <2>1, <2>2 DEF DropHistory
<1>3. CASE \E id \in Ids : StartDue(id)
  BY <1>3 DEF StartDue, SomeTask, Daemon, store
<1>4. CASE \E id \in Ids, by \in {"api", "cli"} : Ask(id, by)
  BY <1>4 DEF Ask, SomeTask, Daemon, store
<1>5. CASE \E t \in tasks :
             Spawn(t) \/ BeginRun(t) \/ BeginFails(t) \/ FinishRun(t) \/ Leave(t)
  BY <1>5, TaskShapes
<1>6. CASE Restart
  BY <1>6 DEF Restart, Die
<1>7. CASE KillCli
  BY <1>7 DEF KillCli, Die
<1> QED
  BY <1>1, <1>2, <1>3, <1>4, <1>5, <1>6, <1>7, StepKinds

-----------------------------------------------------------------------------
(* RUNNING                                                                 *)

(* RunningIsExact, task by task.                                           *)
Counts(t) == t.by \in {"loop", "api"} /\ t.at # "asked"
Exact ==
  /\ \A t \in tasks : Counts(t) => t.job \in running
  /\ \A id \in running : \E t \in tasks : Counts(t) /\ t.job = id
  /\ \A t, u \in tasks : Counts(t) /\ Counts(u) /\ t.job = u.job => t = u

LEMMA ExactRunning == Exact => RunningIsExact
<1> SUFFICES ASSUME Exact PROVE RunningIsExact
  OBVIOUS
<1>1. \A t : t \in InDaemon <=> t \in tasks /\ Counts(t)
  BY DEF InDaemon, Counts, Daemon
<1>2. running = {t.job : t \in InDaemon}
  BY <1>1 DEF Exact
<1> QED
  BY <1>1, <1>2 DEF Exact, RunningIsExact

LEMMA InitRunning == Init => Exact
BY DEF Init, Exact

(* A task of the daemon that is past being asked for is the only one of    *)
(* its job: it can move, and it takes its job with it when it goes.        *)
LEMMA TaskRunning ==
  ASSUME Shapes, Exact, NEW t \in tasks,
         Spawn(t) \/ BeginRun(t) \/ BeginFails(t) \/ FinishRun(t) \/ Leave(t)
  PROVE  Exact'
<1>1. t \in SomeTask /\ opened \in Nat
  BY DEF Shapes
<1>2. t.by \in {"loop", "api", "cli"}
  BY <1>1 DEF SomeTask, Daemon
<1>3. CASE /\ tasks' = tasks \ {t}
           /\ running' = IF t.by = "cli" THEN running ELSE running \ {t.job}
           /\ t.at # "asked"
  BY <1>2, <1>3 DEF Exact, Counts
<1>4. ASSUME NEW u, u.job = t.job, u.by = t.by, u.at # "asked",
             tasks' = (tasks \ {t}) \union {u}, t.at # "asked", running' = running
      PROVE  Exact'
  BY <1>4 DEF Exact, Counts
<1>5. CASE Spawn(t)
  <2> DEFINE u == Moved(t, "opening")
  <2>1. u.job = t.job /\ u.by = t.by /\ u.at = "opening"
    BY <1>1, MovedTask
  <2>2. Becomes(t, "opening") => tasks' = (tasks \ {t}) \union {u}
    BY DEF Becomes, Moved
  <2> HIDE DEF u
  <2>3. CASE t.by = "cli"
    BY <1>5, <2>1, <2>2, <2>3 DEF Spawn, Exact, Counts
  <2>4. CASE t.by # "cli" /\ t.job \in running
    BY <1>5, <2>4 DEF Spawn, Exact, Counts
  <2>5. CASE t.by # "cli" /\ t.job \notin running
    BY <1>2, <1>5, <2>1, <2>2, <2>5 DEF Spawn, Exact, Counts
  <2> QED
    BY <2>3, <2>4, <2>5
<1>6. CASE BeginRun(t)
  <2> DEFINE u == Started(t, opened')
  <2>1. u.job = t.job /\ u.by = t.by /\ u.at = "executing"
    BY <1>1, <1>6, StartedTask DEF BeginRun
  <2>2. tasks' = (tasks \ {t}) \union {u} /\ t.at # "asked" /\ running' = running
    BY <1>6 DEF BeginRun, Started
  <2> HIDE DEF u
  <2> QED
    BY <1>4, <2>1, <2>2
<1>7. CASE BeginFails(t)
  BY <1>3, <1>7 DEF BeginFails
<1>8. CASE FinishRun(t)
  <2> DEFINE u == Moved(t, "leaving")
  <2>1. u.job = t.job /\ u.by = t.by /\ u.at = "leaving"
    BY <1>1, MovedTask
  <2>2. tasks' = (tasks \ {t}) \union {u} /\ t.at # "asked" /\ running' = running
    BY <1>8 DEF FinishRun, Becomes, Moved
  <2> HIDE DEF u
  <2> QED
    BY <1>4, <2>1, <2>2
<1>9. CASE Leave(t)
  BY <1>3, <1>9 DEF Leave
<1> QED
  BY <1>5, <1>6, <1>7, <1>8, <1>9

LEMMA NextRunning == Shapes /\ Exact /\ [Next]_vars => Exact'
<1> SUFFICES ASSUME Shapes, Exact, [Next]_vars PROVE Exact'
  OBVIOUS
<1>1. CASE Aside
  BY <1>1 DEF Aside, Exact
<1>2. CASE DropHistory
  BY <1>2 DEF DropHistory, Exact
<1>3. ASSUME NEW id \in Ids, StartDue(id) PROVE Exact'
  <2> DEFINE u == [job |-> id, by |-> "loop", run |-> 0, at |-> "opening"]
  <2>1. u.job = id /\ Counts(u)
    BY DEF Counts
  <2>2. \/ running' = running /\ tasks' = tasks
        \/ id \notin running /\ running' = running \union {id} /\ tasks' = tasks \union {u}
    BY <1>3 DEF StartDue
  <2> HIDE DEF u
  <2> QED
    BY <2>1, <2>2 DEF Exact
<1>4. ASSUME NEW id \in Ids, NEW by \in {"api", "cli"}, Ask(id, by) PROVE Exact'
  <2> DEFINE u == [job |-> id, by |-> by, run |-> 0, at |-> "asked"]
  <2>1. ~Counts(u)
    BY DEF Counts
  <2>2. running' = running /\ tasks' = tasks \union {u}
    BY <1>4 DEF Ask
  <2> HIDE DEF u
  <2> QED
    BY <2>1, <2>2 DEF Exact
<1>5. CASE \E t \in tasks :
             Spawn(t) \/ BeginRun(t) \/ BeginFails(t) \/ FinishRun(t) \/ Leave(t)
  BY <1>5, TaskRunning
<1>6. CASE Restart
  BY <1>6 DEF Restart, Die, Exact, Counts, Daemon
<1>7. CASE KillCli
  BY <1>7 DEF KillCli, Die, Exact, Counts
<1> QED
  BY <1>1, <1>2, <1>3, <1>4, <1>5, <1>6, <1>7, StepKinds

(* RUNNING names exactly the jobs the daemon executes, each once, whatever *)
(* the loop, the API and failing or dying runs do to it.                   *)
THEOREM RunsAreExact == Spec => []RunningIsExact
<1>1. Shapes /\ Exact /\ [Next]_vars => (Shapes /\ Exact)'
  BY NextShapes, NextRunning
<1> QED
  BY <1>1, InitShapes, InitRunning, ExactRunning, PTL DEF Spec

-----------------------------------------------------------------------------
(* Open runs                                                               *)

LEMMA InitAlive == Init => OpenRunsAreAlive
BY DEF Init, OpenRunsAreAlive

LEMMA TaskAlive ==
  ASSUME Shapes, OpenRunsAreAlive, NEW t \in tasks,
         Spawn(t) \/ BeginRun(t) \/ BeginFails(t) \/ FinishRun(t) \/ Leave(t)
  PROVE  OpenRunsAreAlive'
<1>1. t \in SomeTask /\ t.job \in Ids /\ t.run \in Nat /\ opened \in Nat
      /\ history[t.job] \in Seq(SomeRun) /\ history \in [Ids -> Seq(SomeRun)]
  BY DEF Shapes, SomeTask
(* A task that does not execute leaves, or moves.                          *)
<1>2. ASSUME t.at # "executing", tasks \ {t} \subseteq tasks', lost' = lost, history' = history
      PROVE  OpenRunsAreAlive'
  BY <1>2 DEF OpenRunsAreAlive
<1>3. CASE Spawn(t)
  BY <1>2, <1>3 DEF Spawn, Becomes, store
<1>4. CASE BeginFails(t)
  BY <1>2, <1>4 DEF BeginFails, store
<1>5. CASE Leave(t)
  BY <1>2, <1>5 DEF Leave, store
<1>6. CASE BeginRun(t)
  <2> DEFINE u == Started(t, opened')
             run == [id |-> opened', status |-> "running"]
             runs == Capped(Append(history[t.job], run))
  <2>1. opened' \in Nat /\ run \in SomeRun /\ run.id = opened'
    BY <1>1, <1>6 DEF BeginRun, SomeRun
  <2>2. u.job = t.job /\ u.at = "executing" /\ u.run = opened'
    BY <1>1, <2>1, StartedTask
  <2>3. tasks' = (tasks \ {t}) \union {u} /\ lost' = lost /\ t.at = "opening"
    BY <1>6 DEF BeginRun, Started
  <2>4. history' = [history EXCEPT ![t.job] = runs]
    BY <1>6 DEF BeginRun
  <2>5. \A i \in DOMAIN runs : runs[i] = run \/ \E j \in DOMAIN history[t.job] : runs[i] = history[t.job][j]
    BY <1>1, <2>1, CappedRuns
  <2> HIDE DEF u, run, runs
  <2> SUFFICES ASSUME NEW id \in Ids, NEW i \in DOMAIN history'[id],
                      history'[id][i].status = "running"
               PROVE  \/ history'[id][i].id \in lost'
                      \/ \E v \in tasks' : v.job = id /\ v.run = history'[id][i].id /\ v.at = "executing"
    BY DEF OpenRunsAreAlive
  <2>6. CASE id # t.job
    BY <1>1, <2>3, <2>4, <2>6 DEF OpenRunsAreAlive
  <2>7. CASE id = t.job /\ runs[i] = run
    BY <1>1, <2>1, <2>2, <2>3, <2>4, <2>7
  <2>8. CASE id = t.job /\ \E j \in DOMAIN history[t.job] : runs[i] = history[t.job][j]
    BY <1>1, <2>3, <2>4, <2>8 DEF OpenRunsAreAlive
  <2>9. id = t.job => i \in DOMAIN runs
    BY <1>1, <2>4
  <2> QED
    BY <2>5, <2>6, <2>7, <2>8, <2>9
<1>7. CASE FinishRun(t)
  <2> DEFINE u == Moved(t, "leaving")
             runs == Finished(history[t.job], t.run)
  <2>1. tasks' = (tasks \ {t}) \union {u}
    BY <1>7 DEF FinishRun, Becomes, Moved
  <2>2. CASE lost' = lost \union {t.run} /\ history' = history
    BY <2>1, <2>2 DEF OpenRunsAreAlive
  <2>3. CASE lost' = lost /\ history' = [history EXCEPT ![t.job] = runs]
    <3>1. /\ DOMAIN runs = DOMAIN history[t.job]
          /\ \A i \in DOMAIN history[t.job] :
               /\ runs[i].id = history[t.job][i].id
               /\ runs[i].status = "running" =>
                    history[t.job][i].status = "running" /\ history[t.job][i].id # t.run
      BY <1>1, FinishedRuns
    <3> HIDE DEF u, runs
    <3> QED
      BY <1>1, <2>1, <2>3, <3>1 DEF OpenRunsAreAlive
  <2> QED
    BY <1>7, <2>2, <2>3 DEF FinishRun
<1> QED
  BY <1>3, <1>4, <1>5, <1>6, <1>7

LEMMA NextAlive == Shapes /\ OpenRunsAreAlive /\ [Next]_vars => OpenRunsAreAlive'
<1> SUFFICES ASSUME Shapes, OpenRunsAreAlive, [Next]_vars PROVE OpenRunsAreAlive'
  OBVIOUS
<1>1. CASE Aside
  BY <1>1 DEF Aside, OpenRunsAreAlive
<1>2. CASE DropHistory
  <2>1. \A id \in Ids : history'[id] = <<>> \/ history'[id] = history[id]
    BY <1>2 DEF DropHistory, Shapes
  <2>2. tasks' = tasks /\ lost' = lost
    BY <1>2 DEF DropHistory
  <2>3. DOMAIN <<>> = {}
    OBVIOUS
  <2> QED
    BY <2>1, <2>2, <2>3 DEF OpenRunsAreAlive
<1>3. CASE \E id \in Ids : StartDue(id)
  <2>1. tasks \subseteq tasks' /\ UNCHANGED <<history, lost>>
    BY <1>3 DEF StartDue, store
  <2> QED
    BY <2>1 DEF OpenRunsAreAlive
<1>4. CASE \E id \in Ids, by \in {"api", "cli"} : Ask(id, by)
  <2>1. tasks \subseteq tasks' /\ UNCHANGED <<history, lost>>
    BY <1>4 DEF Ask, store
  <2> QED
    BY <2>1 DEF OpenRunsAreAlive
<1>5. CASE \E t \in tasks :
             Spawn(t) \/ BeginRun(t) \/ BeginFails(t) \/ FinishRun(t) \/ Leave(t)
  BY <1>5, TaskAlive
<1>6. ASSUME NEW by, Die(by), UNCHANGED history PROVE OpenRunsAreAlive'
  <2>1. \A t \in tasks : t.at = "executing" => t \in tasks' \/ t.run \in lost'
    BY <1>6 DEF Die
  <2>2. lost \subseteq lost'
    BY <1>6 DEF Die
  <2> QED
    BY <1>6, <2>1, <2>2 DEF OpenRunsAreAlive
<1>7. CASE Restart
  BY <1>6, <1>7 DEF Restart
<1>8. CASE KillCli
  BY <1>6, <1>8 DEF KillCli
<1> QED
  BY <1>1, <1>2, <1>3, <1>4, <1>5, <1>7, <1>8, StepKinds

(* A run that is shown as running is executed by somebody, or its process  *)
(* died or could not record its end: no run of another job, an older run   *)
(* dropped from the history or a failing write leaves one open.            *)
THEOREM OpenRunsAlive == Spec => []OpenRunsAreAlive
<1>1. Shapes /\ OpenRunsAreAlive /\ [Next]_vars => (Shapes /\ OpenRunsAreAlive)'
  BY NextShapes, NextAlive
<1> QED
  BY <1>1, InitShapes, InitAlive, PTL DEF Spec

-----------------------------------------------------------------------------
(* Starts by the minute                                                    *)

MinuteShapes ==
  /\ clock \in Minutes /\ back \in Nat /\ deaths \in Nat /\ slept \in BOOLEAN
  /\ last \subseteq Minutes
  /\ loop \in Loop
  /\ starts \in [Ids \X Minutes -> 0..2]

(* How far the loop has come: a minute that was served is behind the clock *)
(* by as much as the clock was stepped back, and by one more once the loop *)
(* has slept.  Until a death the last minute served is known.              *)
Behind(m) == m + (IF slept THEN 1 ELSE 0) <= clock + back
ClockInv ==
  /\ \A m, n \in last : m = n
  /\ \A m \in last : Behind(m)
  /\ loop.at # "asleep" => last = {loop.stamp}
  /\ \A p \in Ids \X Minutes : starts[p] > 0 => Behind(p[2])
  /\ deaths = 0 /\ back <= 1 =>
       \A p \in Ids \X Minutes : starts[p] > 0 => \E m \in last : p[2] <= m

(* The loop has one run at a time to open, of a job it has taken off its   *)
(* list.                                                                   *)
LoopOpens(t) == t.by = "loop" /\ t.at = "opening"
LoopInv ==
  /\ \A t \in tasks : t.by = "loop" => t.at # "asked"
  /\ \A t \in tasks : LoopOpens(t) => loop.at = "start" /\ t.job \notin loop.todo
  /\ \A t, u \in tasks : LoopOpens(t) /\ LoopOpens(u) => t = u

(* What the loop still has to start was not started for this minute.       *)
Forward == back = 0 \/ (back = 1 /\ deaths = 0)
StartInv ==
  Forward =>
    /\ StartedOnce
    /\ loop.at \in {"backups", "list"} => \A id \in Ids : starts[<<id, loop.stamp>>] = 0
    /\ loop.at = "start" => \A id \in loop.todo : starts[<<id, loop.stamp>>] = 0
    /\ \A t \in tasks : LoopOpens(t) => starts[<<t.job, loop.stamp>>] = 0

MinuteInv == MinuteShapes /\ ClockInv /\ LoopInv /\ StartInv

LEMMA AsleepLoop == Asleep \in Loop /\ Asleep.at = "asleep" /\ 0 \in Minutes
<1>1. MaxMinute \in Nat
  BY SchedulerAssumption
<1> QED
  BY <1>1 DEF Asleep, Loop, Minutes

LEMMA InitMinute == Init => MinuteInv
<1> SUFFICES ASSUME Init PROVE MinuteInv
  OBVIOUS
<1>1. MinuteShapes
  <2>1. starts \in [Ids \X Minutes -> 0..2]
    BY DEF Init
  <2>2. clock = 0 /\ back = 0 /\ deaths = 0 /\ slept = FALSE /\ last = {} /\ loop = Asleep
    BY DEF Init
  <2> QED
    BY <2>1, <2>2, AsleepLoop DEF MinuteShapes
<1>2. ClockInv /\ LoopInv
  BY DEF Init, ClockInv, LoopInv, Asleep
<1>3. StartInv
  BY DEF Init, StartInv, StartedOnce, Asleep
<1> QED
  BY <1>1, <1>2, <1>3 DEF MinuteInv

LEMMA Numbers ==
  MinuteShapes => /\ clock \in Nat /\ back \in Nat /\ Minutes \subseteq Nat
                  /\ loop.stamp \in Minutes /\ loop.todo \subseteq Ids
                  /\ \A p \in Ids \X Minutes : p[2] \in Nat /\ starts[p] \in Nat
BY SchedulerAssumption DEF MinuteShapes, Minutes, Loop

(* A step that leaves the clock and the loop alone, and gives the loop no  *)
(* new run to open.                                                        *)
LEMMA MinuteAside ==
  ASSUME MinuteInv, UNCHANGED <<time, loop, last, starts>>,
         deaths' \in Nat, deaths' >= deaths,
         \A t \in tasks' : t.by = "loop" => t \in tasks \/ t.at \notin {"asked", "opening"}
  PROVE  MinuteInv'
<1> USE DEF MinuteInv, time
<1>1. MinuteShapes'
  BY DEF MinuteShapes
<1>2. ClockInv'
  BY DEF ClockInv, Behind, MinuteShapes
<1>3. \A t \in tasks' : LoopOpens(t) => t \in tasks
  BY DEF LoopOpens
<1>4. LoopInv'
  BY <1>3 DEF LoopInv, LoopOpens
<1>5. Forward' => Forward
  BY DEF Forward, MinuteShapes
<1>6. StartInv'
  BY <1>3, <1>5 DEF StartInv, StartedOnce, LoopOpens
<1> QED
  BY <1>1, <1>2, <1>4, <1>6

(* The loop wakes up to a minute it has not served: nobody has.            *)
LEMMA MinuteWake == MinuteInv /\ Wake => MinuteInv'
<1> SUFFICES ASSUME MinuteInv, Wake PROVE MinuteInv'
  OBVIOUS
<1> USE DEF MinuteInv
<1>1. /\ loop.at = "asleep" /\ slept /\ slept' = FALSE
      /\ UNCHANGED <<clock, back, tasks, starts, deaths>>
  BY DEF Wake, bounds
<1>2. \A t \in tasks : ~LoopOpens(t)
  BY <1>1 DEF LoopInv
<1>3. ASSUME NEW m \in Nat, Behind(m) PROVE Behind(m)' /\ m + 1 <= clock + back
  BY <1>1, <1>3, Numbers DEF Behind
<1>4. CASE UNCHANGED <<last, loop>>
  <2>1. MinuteShapes' /\ LoopInv'
    BY <1>1, <1>4 DEF MinuteShapes, LoopInv, LoopOpens
  <2>2. last \subseteq Nat
    BY Numbers DEF MinuteShapes
  <2>3. ClockInv'
    BY <1>1, <1>3, <1>4, <2>2, Numbers DEF ClockInv
  <2>4. StartInv'
    BY <1>1, <1>2, <1>4 DEF StartInv, StartedOnce, Forward, LoopOpens
  <2> QED
    BY <2>1, <2>3, <2>4
<1>5. CASE /\ last # {clock} /\ last' = {clock}
           /\ loop' = [at |-> "backups", stamp |-> clock, todo |-> {}]
  <2>1. MinuteShapes'
    BY <1>1, <1>5 DEF MinuteShapes, Loop
  <2>2. LoopInv'
    BY <1>1, <1>2 DEF LoopInv, LoopOpens
  <2>3. ASSUME NEW p \in Ids \X Minutes, starts[p] > 0
        PROVE  Behind(p[2])' /\ p[2] \in Nat /\ p[2] + 1 <= clock + back
    BY <1>3, <2>3, Numbers DEF ClockInv
  <2>4. ASSUME NEW p \in Ids \X Minutes, starts[p] > 0, back <= 1 PROVE p[2] <= clock
    BY <2>3, <2>4, Numbers
  <2>5. ClockInv'
    <3>1. Behind(clock)'
      BY <1>1, Numbers DEF Behind
    <3> QED
      BY <1>1, <1>5, <2>3, <2>4, <3>1 DEF ClockInv
  <2>6. ASSUME NEW p \in Ids \X Minutes, starts[p] > 0, Forward PROVE p[2] # clock
    <3>1. CASE back = 0
      BY <2>3, <2>6, <3>1, Numbers
    <3>2. CASE back = 1 /\ deaths = 0
      <4>1. PICK m \in last : p[2] <= m
        BY <2>6, <3>2 DEF ClockInv
      <4>2. m \in Nat /\ last = {m} /\ m + 1 <= clock + 1
        BY <1>3, <3>2, <4>1, Numbers DEF ClockInv, MinuteShapes
      <4>3. m # clock
        BY <1>5, <4>2
      <4> QED
        BY <2>3, <2>6, <4>1, <4>2, <4>3, Numbers
    <3> QED
      BY <2>6, <3>1, <3>2 DEF Forward
  <2>7. StartInv'
    <3>1. \A id \in Ids : Forward => starts[<<id, clock>>] = 0
      <4> SUFFICES ASSUME NEW id \in Ids, Forward PROVE starts[<<id, clock>>] = 0
        OBVIOUS
      <4>1. <<id, clock>> \in Ids \X Minutes /\ <<id, clock>>[2] = clock
        BY DEF MinuteShapes
      <4>2. ~(starts[<<id, clock>>] > 0) /\ starts[<<id, clock>>] \in Nat
        BY <2>6, <4>1, Numbers
      <4> QED
        BY <4>2
    <3> QED
      BY <1>1, <1>2, <1>5, <3>1 DEF StartInv, StartedOnce, Forward, LoopOpens
  <2> QED
    BY <2>1, <2>2, <2>5, <2>7
<1> QED
  BY <1>1, <1>4, <1>5 DEF Wake

(* The loop goes on with the minute it serves.                             *)
LEMMA MinuteLoop ==
  ASSUME MinuteInv, BackupsDone \/ ListJobs \/ Sleep
  PROVE  MinuteInv'
<1> USE DEF MinuteInv
<1>1. /\ UNCHANGED <<clock, back, slept, last, tasks, starts, deaths>>
      /\ loop.at # "asleep" /\ loop' \in Loop
      /\ \/ loop' = Asleep
         \/ /\ loop.at \in {"backups", "list"} /\ loop'.at \in {"list", "start"}
            /\ loop'.stamp = loop.stamp
      /\ \A t \in tasks : ~LoopOpens(t)
  <2>1. CASE BackupsDone
    <3>1. loop \in Loop /\ loop.at = "backups" /\ loop' = [loop EXCEPT !.at = "list"]
      BY <2>1 DEF BackupsDone, MinuteShapes
    <3>2. loop' \in Loop /\ loop'.at = "list" /\ loop'.stamp = loop.stamp
      BY <3>1 DEF Loop
    <3> QED
      BY <2>1, <3>1, <3>2 DEF BackupsDone, bounds, time, LoopInv
  <2>2. CASE ListJobs
    <3>1. loop \in Loop /\ loop.at = "list" /\ Due \subseteq Ids
      BY <2>2 DEF ListJobs, MinuteShapes, Due, Known
    <3>2. loop' = Asleep \/ loop' = [loop EXCEPT !.at = "start", !.todo = Due]
      BY <2>2 DEF ListJobs
    <3>3. ASSUME NEW due, due \subseteq Ids, loop' = [loop EXCEPT !.at = "start",
    !.todo = due]
          PROVE  loop' \in Loop /\ loop'.at = "start" /\ loop'.stamp = loop.stamp
      BY <3>1, <3>3 DEF Loop
    <3> QED
      BY <2>2, <3>1, <3>2, <3>3, AsleepLoop DEF ListJobs, time, LoopInv
  <2>3. CASE Sleep
    BY <2>3, AsleepLoop DEF Sleep, bounds, time, LoopOpening, LoopOpens
  <2> QED
    BY <2>1, <2>2, <2>3
<1>2. MinuteShapes'
  BY <1>1 DEF MinuteShapes
<1>3. ClockInv'
  BY <1>1 DEF ClockInv, Behind, Asleep
<1>4. LoopInv'
  BY <1>1 DEF LoopInv, LoopOpens
<1>5. StartInv'
  <2>1. Forward' <=> Forward
    BY <1>1 DEF Forward
  <2>2. loop'.todo \subseteq Ids
    BY <1>1 DEF Loop
  <2> QED
    BY <1>1, <2>1, <2>2 DEF StartInv, StartedOnce, LoopOpens, Asleep
<1> QED
  BY <1>2, <1>3, <1>4, <1>5

LEMMA MinuteStart ==
  ASSUME MinuteInv, NEW id \in Ids, StartDue(id)
  PROVE  MinuteInv'
<1> USE DEF MinuteInv
<1> DEFINE u == [job |-> id, by |-> "loop", run |-> 0, at |-> "opening"]
<1>1. /\ UNCHANGED <<clock, back, slept, last, starts, deaths>>
      /\ loop.at = "start" /\ id \in loop.todo
      /\ loop' = [loop EXCEPT !.todo = loop.todo \ {id}]
      /\ tasks' = tasks \/ tasks' = tasks \union {u}
      /\ \A t \in tasks : ~LoopOpens(t)
  BY DEF StartDue, time, bounds, LoopOpening, LoopOpens
<1>2. loop' \in Loop /\ loop'.at = "start" /\ loop'.stamp = loop.stamp
      /\ loop'.todo = loop.todo \ {id}
  BY <1>1 DEF MinuteShapes, Loop
<1>3. u.job = id /\ u.by = "loop" /\ u.at = "opening"
  OBVIOUS
<1> HIDE DEF u
<1>4. MinuteShapes'
  BY <1>1, <1>2 DEF MinuteShapes
<1>5. ClockInv'
  BY <1>1, <1>2 DEF ClockInv, Behind
<1>6. LoopInv'
  BY <1>1, <1>2, <1>3 DEF LoopInv, LoopOpens
<1>7. StartInv'
  BY <1>1, <1>2, <1>3 DEF StartInv, StartedOnce, Forward, LoopOpens
<1> QED
  BY <1>4, <1>5, <1>6, <1>7

(* A run is opened; only the loop's own counts for its minute.             *)
LEMMA MinuteBegin ==
  ASSUME Shapes, MinuteInv, NEW t \in tasks, BeginRun(t)
  PROVE  MinuteInv'
<1> USE DEF MinuteInv
<1> DEFINE u == Started(t, opened')
<1>1. t \in SomeTask /\ t.job \in Ids /\ opened' \in Nat
  BY DEF Shapes, SomeTask, BeginRun
<1>2. u.by = t.by /\ u.at = "executing"
  BY <1>1, StartedTask
<1>3. tasks' = (tasks \ {t}) \union {u} /\ t.at = "opening"
      /\ UNCHANGED <<time, loop, last, bounds>>
  BY DEF BeginRun, Started
<1> HIDE DEF u
<1>4. CASE starts' = starts
  BY <1>2, <1>3, <1>4, MinuteAside DEF bounds, MinuteShapes
<1>5. CASE t.by = "loop" /\ starts' # starts
  <2> DEFINE q == <<t.job, loop.stamp>>
  <2>1. /\ LoopOpens(t) /\ loop.at = "start" /\ last = {loop.stamp}
        /\ UNCHANGED <<clock, back, slept, loop, last, deaths>>
    BY <1>3, <1>5 DEF LoopOpens, LoopInv, ClockInv, time, bounds
  <2>2. q \in Ids \X Minutes /\ q[2] = loop.stamp /\ starts[q] \in 0..2 /\ starts[q] < 2
        /\ starts' = [starts EXCEPT ![q] = starts[q] + 1]
    BY <1>1, <1>5, Numbers DEF BeginRun, MinuteShapes
  <2>3. \A v \in tasks' : ~LoopOpens(v)
    BY <1>2, <1>3, <2>1 DEF LoopInv, LoopOpens
  <2> HIDE DEF q
  <2>4. /\ starts' \in [Ids \X Minutes -> 0..2] /\ starts'[q] = starts[q] + 1
        /\ \A p \in Ids \X Minutes : p # q => starts'[p] = starts[p]
    BY <2>2 DEF MinuteShapes
  <2>5. MinuteShapes'
    BY <2>1, <2>4 DEF MinuteShapes
  <2>6. ClockInv'
    <3>1. \A p \in Ids \X Minutes : p = q \/ starts'[p] = starts[p]
      BY <2>4
    <3>2. loop.stamp \in Nat /\ q[2] <= loop.stamp /\ loop.stamp \in last /\ Behind(q[2])
      BY <2>1, <2>2, Numbers DEF ClockInv
    <3> QED
      BY <2>1, <3>1, <3>2 DEF ClockInv, Behind
  <2>7. LoopInv'
    BY <1>2, <1>3, <2>1, <2>3 DEF LoopInv, LoopOpens
  <2>8. StartInv'
    <3> SUFFICES ASSUME Forward PROVE StartedOnce' /\ \A id \in loop.todo : starts'[<<id, loop.stamp>>] = 0
      BY <2>1, <2>3 DEF StartInv, Forward, LoopOpens
    <3>1. starts[q] = 0 /\ t.job \notin loop.todo
      BY <2>1 DEF StartInv, LoopInv, q
    <3>2. StartedOnce'
      BY <2>2, <2>4, <3>1 DEF StartInv, StartedOnce
    <3>3. \A id \in loop.todo : <<id, loop.stamp>> \in Ids \X Minutes /\ <<id,
    loop.stamp>> # q
      BY <3>1, Numbers DEF q
    <3> QED
      BY <2>1, <2>4, <3>2, <3>3 DEF StartInv
  <2> QED
    BY <2>5, <2>6, <2>7, <2>8
<1> QED
  BY <1>4, <1>5 DEF BeginRun

LEMMA MinuteClock ==
  ASSUME MinuteInv, Tick \/ StepBack
  PROVE  MinuteInv'
<1> USE DEF MinuteInv
<1>1. /\ UNCHANGED <<loop, last, tasks, starts, deaths>>
      /\ \/ clock < MaxMinute /\ clock' = clock + 1 /\ slept' = TRUE /\ back' = back
         \/ clock > 0 /\ clock' = clock - 1 /\ slept' = slept /\ back' = back + 1
  BY DEF Tick, StepBack, bounds
<1>2. MinuteShapes'
  <2>1. MaxMinute \in Nat
    BY SchedulerAssumption
  <2>2. clock' \in Minutes /\ back' \in Nat
    BY <1>1, <2>1 DEF MinuteShapes, Minutes
  <2> QED
    BY <1>1, <2>2 DEF MinuteShapes
<1>3. ASSUME NEW m \in Nat, Behind(m) PROVE Behind(m)'
  BY <1>1, <1>3, Numbers DEF Behind
<1>4. last \subseteq Nat
  BY Numbers DEF MinuteShapes
<1>5. back' <= 1 => back <= 1
  BY <1>1, Numbers
<1>6. ClockInv'
  BY <1>1, <1>3, <1>4, <1>5, Numbers DEF ClockInv
<1>7. Forward' => Forward
  BY <1>1, Numbers DEF Forward
<1>8. LoopInv' /\ StartInv'
  BY <1>1, <1>7 DEF LoopInv, StartInv, StartedOnce, LoopOpens
<1> QED
  BY <1>2, <1>6, <1>8

(* The daemon starts again: it sleeps before it serves anything, so every  *)
(* minute served so far is behind the one it wakes up to.                  *)
LEMMA MinuteRestart == MinuteInv /\ Restart => MinuteInv'
<1> SUFFICES ASSUME MinuteInv, Restart PROVE MinuteInv'
  OBVIOUS
<1> USE DEF MinuteInv
<1>1. /\ UNCHANGED <<clock, back, starts>> /\ slept' = FALSE /\ last' = {} /\ loop' = Asleep
      /\ deaths' = deaths + 1 /\ \A t \in tasks' : t.by # "loop"
  BY DEF Restart, Die, Daemon
<1>2. MinuteShapes'
  <2>1. loop' \in Loop /\ deaths' \in Nat
    BY <1>1, AsleepLoop DEF MinuteShapes
  <2> QED
    BY <1>1, <2>1 DEF MinuteShapes
<1>3. deaths' # 0
  BY <1>1 DEF MinuteShapes
<1>4. ClockInv'
  BY <1>1, <1>3, Numbers DEF ClockInv, Behind, Asleep
<1>5. Forward' => Forward
  BY <1>1, <1>3 DEF Forward
<1>6. LoopInv' /\ StartInv'
  BY <1>1, <1>5 DEF LoopInv, StartInv, StartedOnce, LoopOpens, Asleep
<1> QED
  BY <1>2, <1>4, <1>6

LEMMA NextMinute == Shapes /\ MinuteInv /\ [Next]_vars => MinuteInv'
<1> SUFFICES ASSUME Shapes, MinuteInv, [Next]_vars PROVE MinuteInv'
  OBVIOUS
<1>1. ASSUME UNCHANGED <<time, loop, last, starts, deaths>>,
             \A t \in tasks' : t.by = "loop" => t \in tasks \/ t.at \notin {"asked", "opening"}
      PROVE  MinuteInv'
  BY <1>1, MinuteAside DEF MinuteInv, MinuteShapes
<1>2. CASE Editing \/ DropHistory \/ UNCHANGED vars
  BY <1>1, <1>2 DEF Editing, Upsert, SetEnabled, Remove, ReplaceManaged, DropHistory,
     vars, time
<1>3. CASE LoopStep
  BY <1>3, MinuteWake, MinuteLoop, MinuteStart DEF LoopStep
<1>4. ASSUME NEW id \in Ids, NEW by \in {"api", "cli"}, Ask(id, by) PROVE MinuteInv'
  <2>1. \A t \in tasks' : t.by = "loop" => t \in tasks
    BY <1>4 DEF Ask
  <2> QED
    BY <1>1, <1>4, <2>1 DEF Ask, bounds
<1>5. ASSUME NEW t \in tasks, Spawn(t) \/ BeginFails(t) \/ FinishRun(t) \/ Leave(t)
      PROVE  MinuteInv'
  <2>1. t \in SomeTask /\ (t.by = "loop" => t.at # "asked")
    BY DEF Shapes, MinuteInv, LoopInv
  <2>2. UNCHANGED <<time, loop, last, starts, deaths>>
    BY <1>5 DEF Spawn, BeginFails, FinishRun, Leave, bounds
  <2>3. tasks' \subseteq tasks \/ \E at \in {"opening", "leaving"} :
          /\ tasks' \subseteq tasks \union {Moved(t, at)}
          /\ at = "opening" => t.at = "asked"
    BY <1>5 DEF Spawn, BeginFails, FinishRun, Leave, Becomes, Moved
  <2> QED
    BY <1>1, <2>1, <2>2, <2>3, MovedTask
<1>6. ASSUME NEW t \in tasks, BeginRun(t) PROVE MinuteInv'
  BY <1>6, MinuteBegin
<1>7. CASE Tick \/ StepBack
  BY <1>7, MinuteClock
<1>8. CASE Restart
  BY <1>8, MinuteRestart
<1>9. CASE KillCli
  <2>1. deaths' \in Nat /\ deaths' >= deaths /\ UNCHANGED <<time, loop, last, starts>>
    BY <1>9 DEF KillCli, Die, MinuteInv, MinuteShapes
  <2>2. tasks' \subseteq tasks
    BY <1>9 DEF KillCli, Die
  <2> QED
    BY <2>1, <2>2, MinuteAside
<1> QED
  BY <1>2, <1>3, <1>4, <1>5, <1>6, <1>7, <1>8, <1>9 DEF Next, TaskStep

(* No job is started twice for a minute while the clock goes forward, nor  *)
(* after one step back by a minute that no restart came with: whatever is  *)
(* edited, however long a pass takes and however many minutes pass by it.  *)
THEOREM StartedOncePerMinute == Spec => []OncePerMinute
<1>1. Shapes /\ MinuteInv /\ [Next]_vars => (Shapes /\ MinuteInv)'
  BY NextShapes, NextMinute
<1>2. MinuteInv => OncePerMinute
  BY DEF MinuteInv, StartInv, Forward, OncePerMinute
<1> QED
  BY <1>1, <1>2, InitShapes, InitMinute, PTL DEF Spec

-----------------------------------------------------------------------------
(* The next minute of a schedule: hours and days that cannot match are     *)
(* skipped, and nothing is missed.                                         *)

(* Division by a length, in the words of multiplication.                   *)
LEMMA Product ==
  ASSUME NEW b \in Nat \ {0}, NEW k \in Int
  PROVE  (k >= 1 => b * k >= b) /\ (k <= -1 => b * k <= -b) /\ b * k \in Int
BY SMTT(60)

LEMMA Division ==
  ASSUME NEW b \in Nat \ {0}, NEW x \in Int
  PROVE  x \div b \in Int /\ x % b \in 0..b - 1 /\ x = b * (x \div b) + (x % b)
BY SMTT(60)

LEMMA Quotient ==
  ASSUME NEW b \in Nat \ {0}, NEW x \in Int, NEW q \in Int, b * q <= x, x < b * q + b
  PROVE  x \div b = q
<1> DEFINE p == x \div b
<1>1. p \in Int /\ x % b \in 0..b - 1 /\ x = b * p + (x % b)
  BY Division
<1> HIDE DEF p
<1>2. b * (p - q) = b * p - b * q
  BY <1>1, SMTT(60)
<1>3. b * p <= x /\ x < b * p + b /\ b * p \in Int /\ b * q \in Int
  BY <1>1, Product
<1>4. b * (p - q) < b /\ b * (p - q) > -b
  BY <1>2, <1>3
<1>5. p - q = 0
  BY <1>1, <1>4, Product
<1> QED
  BY <1>1, <1>5 DEF p

(* The quotients and remainders of a minute.                               *)
LEMMA LengthsAre ==
  ASSUME CronAssumption
  PROVE  /\ MinutesPerHour \in Nat \ {0} /\ HoursPerDay \in Nat \ {0}
         /\ MinutesPerDay \in Nat \ {0} /\ Year \in Nat /\ Year >= 1
         /\ Shift \in Nat /\ Offset \in Int /\ Jump \in Int
<1>1. MinutesPerHour \in Nat \ {0} /\ HoursPerDay \in Nat \ {0}
      /\ DaysPerMonth \in Nat \ {0} /\ MonthsPerYear \in Nat \ {0}
  BY DEF CronAssumption
<1>2. \A a, b \in Nat \ {0} : a * b \in Nat \ {0}
  BY SMTT(60)
<1>3. MinutesPerDay \in Nat \ {0} /\ DaysPerMonth * MonthsPerYear + 1 \in Nat \ {0}
  BY <1>1, <1>2 DEF MinutesPerDay
<1>4. Year \in Nat \ {0}
  BY <1>2, <1>3 DEF Year
<1> QED
  BY <1>1, <1>3, <1>4 DEF CronAssumption

LEMMA HourEnds ==
  ASSUME CronAssumption, NEW x \in Int
  PROVE  /\ UtcMoment(x).minute \in 0..MinutesPerHour - 1
         /\ \A y \in Int : x <= y /\ y < x + (MinutesPerHour - UtcMoment(x).minute)
                             => y \div MinutesPerHour = x \div MinutesPerHour
<1> DEFINE q == x \div MinutesPerHour
           r == x % MinutesPerHour
<1>1. MinutesPerHour \in Nat \ {0}
  BY LengthsAre
<1>2. q \in Int /\ r \in 0..MinutesPerHour - 1 /\ x = MinutesPerHour * q + r
  BY <1>1, Division
<1>3. UtcMoment(x).minute = r
  BY DEF UtcMoment
<1> HIDE DEF q, r
<1>4. MinutesPerHour * q \in Int
  BY <1>1, <1>2, Product
<1>5. ASSUME NEW y \in Int, x <= y, y < x + (MinutesPerHour - r)
      PROVE  y \div MinutesPerHour = q
  <2>1. MinutesPerHour * q <= y /\ y < MinutesPerHour * q + MinutesPerHour
    BY <1>1, <1>2, <1>4, <1>5
  <2> QED
    BY <1>1, <1>2, <2>1, Quotient
<1> QED
  BY <1>2, <1>3, <1>5 DEF q

(* The minutes of the day of x are those from DayStart(x) to the end that  *)
(* a skip to the next day leads to.                                        *)
DayStart(x) == MinutesPerDay * (x \div MinutesPerDay)
ToMidnight(m) ==
  (HoursPerDay - 1 - m.hour) * MinutesPerHour + (MinutesPerHour - m.minute)

LEMMA DayEnds ==
  ASSUME CronAssumption, NEW x \in Int
  PROVE  /\ DayStart(x) \in Int /\ DayStart(x) <= x
         /\ ToMidnight(UtcMoment(x)) \in Nat \ {0}
         /\ \A y \in Int : DayStart(x) <= y /\ y < x + ToMidnight(UtcMoment(x))
                             => y \div MinutesPerDay = x \div MinutesPerDay
<1> DEFINE M == MinutesPerHour
           H == HoursPerDay
           q == x \div M
           r == x % M
           v == q \div H
           h == q % H
<1>1. M \in Nat \ {0} /\ H \in Nat \ {0} /\ MinutesPerDay \in Nat \ {0}
  BY LengthsAre
<1>2. q \in Int /\ r \in 0..M - 1 /\ x = M * q + r
  BY <1>1, Division
<1>3. v \in Int /\ h \in 0..H - 1 /\ q = H * v + h
  BY <1>1, <1>2, Division
<1>4. UtcMoment(x).minute = r /\ UtcMoment(x).hour = h
  BY DEF UtcMoment
<1>5. MinutesPerDay = H * M
  BY DEF MinutesPerDay
<1> HIDE DEF M, H, q, r, v, h
<1>6. x = MinutesPerDay * v + (M * h + r)
  <2>1. M * (H * v + h) = (H * M) * v + M * h
    BY <1>1, <1>3, SMTT(60)
  <2>2. (H * M) * v \in Int /\ M * h \in Int
    BY <1>1, <1>3, SMTT(60)
  <2> QED
    BY <1>2, <1>3, <1>5, <2>1, <2>2
<1>7. ToMidnight(UtcMoment(x)) = MinutesPerDay - (M * h + r)
  <2>1. (H - 1 - h) * M = H * M - M - M * h
    BY <1>1, <1>3, SMTT(60)
  <2>2. M * h \in Int /\ H * M \in Int
    BY <1>1, <1>3, SMTT(60)
  <2> QED
    BY <1>1, <1>2, <1>4, <1>5, <2>1, <2>2 DEF ToMidnight, M, H
<1>8. M * h + r \in Int /\ 0 <= M * h + r /\ M * h + r < MinutesPerDay
  <2>1. M * h \in Nat /\ M * (H - 1 - h) \in Nat /\ M * h + M * (H - 1 - h) = H * M - M
    BY <1>1, <1>3, SMTT(60)
  <2> QED
    BY <1>1, <1>2, <1>5, <2>1
<1>9. MinutesPerDay * v \in Int
  BY <1>1, <1>3, Product
<1>10. x \div MinutesPerDay = v
  BY <1>1, <1>3, <1>6, <1>8, <1>9, Quotient
<1>11. ASSUME NEW y \in Int, MinutesPerDay * v <= y, y < MinutesPerDay * v + MinutesPerDay
       PROVE  y \div MinutesPerDay = v
  BY <1>1, <1>3, <1>11, Quotient
<1>12. x + ToMidnight(UtcMoment(x)) = MinutesPerDay * v + MinutesPerDay
  BY <1>1, <1>6, <1>7, <1>8, <1>9
<1> QED
  BY <1>1, <1>6, <1>7, <1>8, <1>9, <1>10, <1>11, <1>12 DEF DayStart

(* What the clock shows, as a minute of UTC's calendar.                    *)
Clock(t, inUtc) ==
  IF inUtc THEN t ELSE t + Offset + (IF t < Shift THEN 0 ELSE Jump)

LEMMA MomentIsClock ==
  ASSUME NEW t, NEW inUtc \in BOOLEAN
  PROVE  MomentAt(t, inUtc) = UtcMoment(Clock(t, inUtc))
BY DEF MomentAt, LocalMoment, Clock

(* From t to y the clock runs on, or it is set back on the way.            *)
LEMMA ClockRuns ==
  ASSUME CronAssumption, StepsBack, NEW inUtc \in BOOLEAN,
         NEW t \in Nat, NEW y \in Nat, t <= y
  PROVE  /\ Clock(t, inUtc) \in Int /\ Clock(y, inUtc) \in Int
         /\ \/ Clock(y, inUtc) = Clock(t, inUtc) + (y - t)
            \/ /\ Jump < 0
               /\ Clock(t, inUtc) < Shift + Offset
               /\ Shift + Offset + Jump <= Clock(y, inUtc)
               /\ Clock(y, inUtc) < Clock(t, inUtc) + (y - t)
               /\ Shift + Offset <= Clock(t, inUtc) + (y - t)
BY LengthsAre DEF Clock, StepsBack

(* A skip is at least a minute, and no minute it passes fires.             *)
LEMMA SkipIsSafe ==
  ASSUME CronAssumption, StepsBack, NEW s, NEW inUtc \in BOOLEAN, NEW t \in Nat,
         ~Matches(s, MomentAt(t, inUtc))
  PROVE  /\ Skip(s, MomentAt(t, inUtc)) \in Nat \ {0}
         /\ \A y \in Nat : t <= y /\ y < t + Skip(s, MomentAt(t, inUtc))
                             => ~Matches(s, MomentAt(y, inUtc))
<1> DEFINE x == Clock(t, inUtc)
           m == UtcMoment(x)
           k == Skip(s, m)
<1>1. MomentAt(t, inUtc) = m
  BY MomentIsClock
<1>2. x \in Int
  BY ClockRuns
<1> HIDE DEF x
<1> SUFFICES /\ k \in Nat \ {0}
             /\ \A y \in Nat : t <= y /\ y < t + k => ~Matches(s, UtcMoment(Clock(y, inUtc)))
  BY <1>1, MomentIsClock
<1>3. CASE ~DateMatches(s, m)
  <2>1. k = ToMidnight(m)
    BY <1>3 DEF Skip, ToMidnight
  <2>2. k \in Nat \ {0} /\ DayStart(x) \in Int /\ DayStart(x) <= x
    BY <1>2, <2>1, DayEnds
  <2>3. \A z \in Int : DayStart(x) <= z /\ z < x + k
                         => z \div MinutesPerDay = x \div MinutesPerDay
    BY <1>2, <2>1, DayEnds
  <2>4. ASSUME NEW z \in Int, z \div MinutesPerDay = x \div MinutesPerDay
        PROVE  ~Matches(s, UtcMoment(z))
    BY <1>3, <2>4 DEF Matches, DateMatches, UtcMoment
  <2> HIDE DEF k
  <2>5. ASSUME NEW y \in Nat, t <= y, y < t + k
        PROVE  ~Matches(s, UtcMoment(Clock(y, inUtc)))
    <3> DEFINE z == Clock(y, inUtc)
    <3>1. z \in Int
      BY <2>5, ClockRuns
    <3>2. \/ z = x + (y - t)
          \/ /\ Jump < 0 /\ x < Shift + Offset /\ Shift + Offset + Jump <= z
             /\ z < x + (y - t) /\ Shift + Offset <= x + (y - t)
      BY <2>5, ClockRuns DEF x
    <3> HIDE DEF z
    <3>3. DayStart(x) <= z /\ z < x + k
      <4>1. CASE z = x + (y - t)
        BY <1>2, <2>2, <2>5, <4>1
      <4>2. CASE /\ Jump < 0 /\ x < Shift + Offset /\ Shift + Offset + Jump <= z
                 /\ z < x + (y - t) /\ Shift + Offset <= x + (y - t)
        <5>1. Shift \in Nat /\ Offset \in Int /\ Jump \in Int /\ MinutesPerDay \in Nat \ {0}
          BY LengthsAre
        <5>2. (Shift + Offset - 1) \div MinutesPerDay = x \div MinutesPerDay
          <6>1. /\ Shift + Offset - 1 \in Int
                /\ DayStart(x) <= Shift + Offset - 1 /\ Shift + Offset - 1 < x + k
            BY <1>2, <2>2, <2>5, <4>2, <5>1
          <6> QED
            BY <2>3, <6>1
        <5>3. (Shift + Offset + Jump) \div MinutesPerDay = x \div MinutesPerDay
          BY <4>2, <5>1, <5>2 DEF StepsBack, MinutesPerDay
        <5>4. DayStart(x) <= Shift + Offset + Jump
          <6>1. /\ Shift + Offset + Jump \in Int
                /\ DayStart(Shift + Offset + Jump) <= Shift + Offset + Jump
            BY <5>1, DayEnds
          <6> QED
            BY <5>3, <6>1 DEF DayStart
        <5> QED
          BY <1>2, <2>2, <2>5, <3>1, <4>2, <5>1, <5>4
      <4> QED
        BY <3>2, <4>1, <4>2
    <3> QED
      BY <2>3, <2>4, <3>1, <3>3 DEF z
  <2> QED
    BY <2>2, <2>5
<1>4. CASE DateMatches(s, m) /\ m.hour \notin s.hour
  <2>1. k = MinutesPerHour - m.minute
    BY <1>4 DEF Skip
  <2>2. k \in Nat \ {0}
    BY <1>2, <2>1, HourEnds, LengthsAre
  <2>3. \A z \in Int : x <= z /\ z < x + k => z \div MinutesPerHour = x \div MinutesPerHour
    BY <1>2, <2>1, HourEnds
  <2>4. ASSUME NEW z \in Int, z \div MinutesPerHour = x \div MinutesPerHour
        PROVE  ~Matches(s, UtcMoment(z))
    BY <1>4, <2>4 DEF Matches, UtcMoment
  <2> HIDE DEF k
  <2>5. ASSUME NEW y \in Nat, t <= y, y < t + k
        PROVE  ~Matches(s, UtcMoment(Clock(y, inUtc)))
    <3> DEFINE z == Clock(y, inUtc)
    <3>1. z \in Int
      BY <2>5, ClockRuns
    <3>2. \/ z = x + (y - t)
          \/ /\ Jump < 0 /\ x < Shift + Offset /\ Shift + Offset + Jump <= z
             /\ z < x + (y - t) /\ Shift + Offset <= x + (y - t)
      BY <2>5, ClockRuns DEF x
    <3> HIDE DEF z
    <3>3. CASE z = x + (y - t)
      <4>1. x <= z /\ z < x + k
        BY <1>2, <2>2, <2>5, <3>3
      <4> QED
        BY <2>3, <2>4, <3>1, <4>1 DEF z
    <3>4. CASE Jump < 0 /\ x < Shift + Offset /\ Shift + Offset <= x + (y - t)
      <4> DEFINE b == Shift + Offset
                 q == x \div MinutesPerHour
      <4>1. b \in Int /\ MinutesPerHour \in Nat \ {0} /\ b % MinutesPerHour = 0
        BY <3>4, LengthsAre DEF StepsBack
      <4>2. b \div MinutesPerHour = q
        <5>1. x <= b /\ b < x + k
          BY <1>2, <2>2, <2>5, <3>4, <4>1
        <5> QED
          BY <2>3, <4>1, <5>1
      <4>3. b = MinutesPerHour * (b \div MinutesPerHour) + (b % MinutesPerHour)
        BY <4>1, Division
      <4>4. /\ q \in Int /\ MinutesPerHour * q \in Int
            /\ x % MinutesPerHour \in Nat /\ x = MinutesPerHour * q + (x % MinutesPerHour)
        <5>1. x \div MinutesPerHour \in Int /\ x % MinutesPerHour \in 0..MinutesPerHour - 1
          BY <1>2, <4>1, Division
        <5>2. x = MinutesPerHour * q + (x % MinutesPerHour)
          BY <1>2, <4>1, Division
        <5> QED
          BY <4>1, <5>1, <5>2, Product
      <4> HIDE DEF b, q
      <4>5. b = MinutesPerHour * q
        BY <4>1, <4>2, <4>3, <4>4
      <4> QED
        BY <1>2, <3>4, <4>1, <4>4, <4>5 DEF b
    <3> QED
      BY <3>2, <3>3, <3>4
  <2> QED
    BY <2>2, <2>5
<1>5. CASE DateMatches(s, m) /\ m.hour \in s.hour
  <2>1. k = 1
    BY <1>5 DEF Skip
  <2>2. \A y \in Nat : t <= y /\ y < t + 1 => y = t
    OBVIOUS
  <2> QED
    BY <1>1, <2>1, <2>2, MomentIsClock DEF x
<1> QED
  BY <1>3, <1>4, <1>5

(* A nonempty set of naturals has a least element.                         *)
Least(S) == CHOOSE x \in S : \A y \in S : x <= y

LEMMA LeastIsThere ==
  ASSUME NEW S, S \subseteq Nat, S # {}
  PROVE  Least(S) \in S /\ \A i \in S : Least(S) <= i
<1> DEFINE Less == {pair \in Nat \X Nat : pair[1] < pair[2]}
<1>1. IsWellFoundedOn(Less, Nat)
  BY NatLessThanWellFounded, Zenon DEF OpToRel
<1>2. PICK x \in S : \A y \in S : ~(<<y, x>> \in Less)
  <2> HIDE DEF Less
  <2> QED
    BY <1>1, WFMin, Zenon
<1>3. \A y \in S : ~(y < x)
  BY <1>2
<1>4. \E x1 \in S : \A y \in S : x1 <= y
  BY <1>3
<1> QED
  BY <1>4 DEF Least

(* The search, step by step: what a function that goes on like it returns. *)
Goes(f, s, limit, inUtc) ==
  f = [t \in Nat |->
        IF t > limit THEN Never
        ELSE IF Matches(s, MomentAt(t, inUtc)) THEN t
        ELSE f[t + Skip(s, MomentAt(t, inUtc))]]

Later(s, limit, inUtc, t) == {u \in Nat : t <= u /\ u <= limit /\ Matches(s, MomentAt(u, inUtc))}
FirstOf(S) == IF S = {} THEN Never ELSE Least(S)

LEMMA NextAfterGoes ==
  ASSUME NEW s, NEW inUtc, NEW t0
  PROVE  NextAfter(s, t0, inUtc) = (CHOOSE f : Goes(f, s, t0 + Year, inUtc))[t0 + 1]
BY DEF NextAfter, Goes

LEMMA FirstsGo ==
  ASSUME CronAssumption, StepsBack, NEW s, NEW inUtc \in BOOLEAN, NEW limit \in Nat
  PROVE  Goes([t \in Nat |-> FirstOf(Later(s, limit, inUtc, t))], s, limit, inUtc)
<1> DEFINE g == [t \in Nat |-> FirstOf(Later(s, limit, inUtc, t))]
           L(t) == Later(s, limit, inUtc, t)
<1>1. SUFFICES ASSUME NEW t \in Nat
               PROVE  g[t] = IF t > limit THEN Never
                             ELSE IF Matches(s, MomentAt(t, inUtc)) THEN t
                             ELSE g[t + Skip(s, MomentAt(t, inUtc))]
  BY DEF Goes
<1>2. CASE t > limit
  <2>1. L(t) = {}
    BY <1>2 DEF Later
  <2> QED
    BY <1>2, <2>1 DEF FirstOf
<1>3. CASE t <= limit /\ Matches(s, MomentAt(t, inUtc))
  <2>1. t \in L(t) /\ L(t) \subseteq Nat /\ \A u \in L(t) : t <= u
    BY <1>3 DEF Later
  <2> HIDE DEF L
  <2>2. Least(L(t)) \in L(t) /\ Least(L(t)) <= t
    BY <2>1, LeastIsThere
  <2>3. Least(L(t)) = t
    BY <2>1, <2>2
  <2> QED
    BY <1>3, <2>1, <2>3 DEF FirstOf, L
<1>4. CASE t <= limit /\ ~Matches(s, MomentAt(t, inUtc))
  <2> DEFINE k == Skip(s, MomentAt(t, inUtc))
  <2>1. k \in Nat \ {0} /\ \A y \in Nat : t <= y /\ y < t + k => ~Matches(s, MomentAt(y, inUtc))
    BY <1>4, SkipIsSafe
  <2> HIDE DEF k
  <2>2. t + k \in Nat
    BY <2>1
  <2>3. L(t) = L(t + k)
    BY <2>1 DEF Later
  <2> QED
    BY <1>4, <2>2, <2>3 DEF k
<1> QED
  BY <1>2, <1>3, <1>4

LEMMA GoesToFirst ==
  ASSUME CronAssumption, StepsBack, NEW s, NEW inUtc \in BOOLEAN, NEW limit \in Nat,
         NEW f, Goes(f, s, limit, inUtc), NEW t0 \in Nat
  PROVE  f[t0] = FirstOf(Later(s, limit, inUtc, t0))
<1> DEFINE g == [t \in Nat |-> FirstOf(Later(s, limit, inUtc, t))]
           Off == {n \in Nat : \E t \in Nat : n = limit - t /\ f[t] # g[t]}
           Step(h, t) == IF t > limit THEN Never
                         ELSE IF Matches(s, MomentAt(t, inUtc)) THEN t
                         ELSE h[t + Skip(s, MomentAt(t, inUtc))]
<1>1. \A t \in Nat : f[t] = Step(f, t)
  BY DEF Goes
<1>2. \A t \in Nat : g[t] = Step(g, t)
  BY FirstsGo DEF Goes
<1> HIDE DEF g
<1>3. ASSUME NEW t \in Nat, f[t] # g[t]
      PROVE  /\ t <= limit /\ t + Skip(s, MomentAt(t, inUtc)) \in Nat
             /\ t < t + Skip(s, MomentAt(t, inUtc))
             /\ f[t + Skip(s, MomentAt(t, inUtc))] # g[t + Skip(s, MomentAt(t, inUtc))]
  <2>1. t <= limit /\ ~Matches(s, MomentAt(t, inUtc))
    BY <1>1, <1>2, <1>3
  <2>2. Skip(s, MomentAt(t, inUtc)) \in Nat \ {0}
    BY <2>1, SkipIsSafe
  <2> QED
    BY <1>1, <1>2, <1>3, <2>1, <2>2
<1>4. ASSUME f[t0] # g[t0] PROVE FALSE
  <2>1. limit - t0 \in Off /\ Off \subseteq Nat
    BY <1>3, <1>4
  <2>2. PICK t \in Nat : Least(Off) = limit - t /\ f[t] # g[t]
    <3> HIDE DEF Off
    <3>1. Least(Off) \in Off
      BY <2>1, LeastIsThere
    <3> QED
      BY <3>1 DEF Off
  <2> DEFINE n == t + Skip(s, MomentAt(t, inUtc))
  <2>3. n \in Nat /\ t < n /\ f[n] # g[n] /\ n <= limit
    BY <1>3, <2>2
  <2> HIDE DEF n
  <2>4. limit - n \in Off
    BY <2>3
  <2>5. Least(Off) <= limit - n
    <3> HIDE DEF Off
    <3> QED
      BY <2>1, <2>4, LeastIsThere
  <2> QED
    BY <2>2, <2>3, <2>5
<1> QED
  BY <1>4 DEF g

LEMMA NextAfterIsFirst ==
  ASSUME CronAssumption, StepsBack, NEW s, NEW inUtc \in BOOLEAN, NEW t0 \in Nat
  PROVE  NextAfter(s, t0, inUtc) = FirstOf(Later(s, t0 + Year, inUtc, t0 + 1))
<1>1. t0 + Year \in Nat /\ t0 + 1 \in Nat
  BY LengthsAre
<1> DEFINE f == CHOOSE f : Goes(f, s, t0 + Year, inUtc)
<1>2. \E h : Goes(h, s, t0 + Year, inUtc)
  BY <1>1, FirstsGo
<1>3. Goes(f, s, t0 + Year, inUtc)
  BY <1>2
<1> HIDE DEF f
<1>4. f[t0 + 1] = FirstOf(Later(s, t0 + Year, inUtc, t0 + 1))
  BY <1>1, <1>3, GoesToFirst
<1> QED
  BY <1>4, NextAfterGoes DEF f

(* At every minute the search finds the least later one, within a year, at *)
(* which the schedule fires, or none when there is none: whatever the      *)
(* lengths of the calendar, the schedule and the zone's distance are, on   *)
(* every clock that does not jump or is set back at the end of an hour     *)
(* within a day.                                                           *)
THEOREM SearchFindsFirst ==
  ASSUME CronAssumption, StepsBack
  PROVE  CronSpec => []NextIsFirst
<1> DEFINE IInv == now \in Nat /\ utc \in BOOLEAN
<1>1. CronInit => IInv
  BY DEF CronInit, CronAssumption
<1>2. IInv /\ [CronNext]_cronVars => IInv'
  BY DEF CronNext, MinutePasses, cronVars
<1>3. IInv => NextIsFirst
  <2> SUFFICES ASSUME IInv PROVE NextIsFirst
    OBVIOUS
  <2>1. NextAfter(schedule, now, utc) = FirstOf(Later(schedule, now + Year, utc, now + 1))
    BY NextAfterIsFirst
  <2>2. Year \in Nat /\ now \in Nat
    BY LengthsAre
  <2> DEFINE L == Later(schedule, now + Year, utc, now + 1)
  <2>3. L = {u \in now + 1..now + Year : Fires(u)}
    BY <2>2 DEF Later, Fires
  <2>4. L \subseteq Nat /\ \A u \in L : u \in now + 1..now + Year
    BY <2>2, <2>3
  <2> HIDE DEF L
  <2>5. CASE L = {}
    <3>1. NextAfter(schedule, now, utc) = Never
      BY <2>1, <2>5 DEF L, FirstOf
    <3>2. \A u \in now + 1..now + Year : ~Fires(u)
      BY <2>3, <2>5
    <3> QED
      BY <3>1, <3>2 DEF NextIsFirst, IsFirst
  <2>6. CASE L # {}
    <3>1. PICK t : t = Least(L)
      OBVIOUS
    <3>2. t \in L /\ \A u \in L : t <= u
      BY <2>4, <2>6, <3>1, LeastIsThere
    <3>3. NextAfter(schedule, now, utc) = t
      BY <2>1, <2>6, <3>1 DEF L, FirstOf
    <3>4. t \in now + 1..now + Year /\ t # Never /\ Fires(t)
      BY <2>2, <2>3, <2>4, <3>2 DEF Never
    <3>5. \A u \in now + 1..t - 1 : ~Fires(u)
      BY <2>2, <2>3, <3>2, <3>4
    <3> QED
      BY <3>3, <3>4, <3>5 DEF NextIsFirst, IsFirst
  <2> QED
    BY <2>5, <2>6
<1> HIDE DEF IInv
<1> QED
  BY <1>1, <1>2, <1>3, PTL DEF CronSpec
=============================================================================
