--------------------------- MODULE WebServer_proofs ---------------------------
(***************************************************************************)
(* The files nginx starts from, the certificates they name, what           *)
(* status.json tells of them and what one bad site does to the others, for *)
(* any number of sites, edits, orders, failures and crashes.               *)
(***************************************************************************)
EXTENDS WebServer, FiniteSetTheorems, TLAPS

(* More orders are numbered than the certificate files of all sites bear.  *)
LEMMA FreeOrder ==
  ASSUME NEW key \in [Sites -> Orders], NEW chain \in [Sites -> Orders]
  PROVE  \E n \in Orders \ {0} : \A s \in Sites : n \notin {key[s], chain[s]}
<1> DEFINE keys == {key[s] : s \in Sites}
           chains == {chain[s] : s \in Sites}
           size == Cardinality(Sites)
<1>1. IsFiniteSet(Sites) /\ size \in Nat
  BY SiteAssumption, FS_CardinalityType
<1>2. IsFiniteSet(keys) /\ Cardinality(keys) <= size
  <2>1. key \in Surjection(Sites, keys)
    BY DEF Surjection
  <2> QED
    BY <1>1, <2>1, FS_Surjection
<1>3. IsFiniteSet(chains) /\ Cardinality(chains) <= size
  <2>1. chain \in Surjection(Sites, chains)
    BY DEF Surjection
  <2> QED
    BY <1>1, <2>1, FS_Surjection
<1>4. /\ IsFiniteSet(keys \cup chains) /\ Cardinality(keys \cup chains) <= 2 * size
  <2>1. /\ IsFiniteSet(keys \cup chains)
        /\ Cardinality(keys \cup chains)
             = Cardinality(keys) + Cardinality(chains) - Cardinality(keys \cap chains)
    BY <1>2, <1>3, FS_Union
  <2>2. /\ Cardinality(keys) \in Nat /\ Cardinality(chains) \in Nat
        /\ Cardinality(keys \cap chains) \in Nat
    BY <1>2, <1>3, FS_CardinalityType, FS_Subset
  <2> HIDE DEF keys, chains, size
  <2> QED
    BY <1>1, <1>2, <1>3, <2>1, <2>2
<1>5. Cardinality(1 .. 2 * size + 1) = 2 * size + 1
  <2>1. 1 \in Int /\ 2 * size + 1 \in Int /\ ~(1 > 2 * size + 1)
    BY <1>1
  <2> QED
    BY <1>1, <2>1, FS_Interval
<1>6. ASSUME 1 .. 2 * size + 1 \subseteq keys \cup chains
      PROVE  FALSE
  <2>1. Cardinality(1 .. 2 * size + 1) <= Cardinality(keys \cup chains)
    BY <1>4, <1>6, FS_Subset
  <2> QED
    BY <1>1, <1>4, <1>5, <2>1, FS_CardinalityType
<1>7. PICK n \in 1 .. 2 * size + 1 : n \notin keys \cup chains
  BY <1>6
<1> QED
  BY <1>1, <1>7 DEF Orders

-----------------------------------------------------------------------------
(* Types                                                                   *)
Mem == [sites : Statuses, err : BOOLEAN, ok : BOOLEAN]
Op == [kind : {"free", "commit", "reapply", "issue"},
       step : {"free", "key", "chain", "record", "apply", "save"},
       site : Sites \cup {None}, cfg : Configs \cup {None},
       who : {"pass", "renew", None}, mem : {None} \cup Mem]
Task == [at : {"rest", "moved", "sites", "mark", "order", "issue"},
         todo : [Sites -> Configs \cup {None}],
         site : Sites \cup {None}, cfg : Configs \cup {None}]

(* What a step of an operation or of a task relies on.                     *)
OpFormed(o) ==
  /\ o.step = "save" => o.mem \in Mem
  /\ o.step \in {"key", "chain", "record"} => o.site \in Sites /\ o.cfg \in Configs
TaskFormed(t) == t.at \in {"mark", "order"} => t.site \in Sites /\ t.cfg \in Configs
Formed == OpFormed(op) /\ TaskFormed(pass) /\ TaskFormed(renew)

Shapes ==
  /\ desired \in [Sites -> Configs \cup {None}]
  /\ status \in Statuses
  /\ live \in [Sites -> Files \cup {None}] /\ nginx \in [Sites -> Files \cup {None}]
  /\ pem \in [Sites -> Pems] /\ port \in [Sites -> Ports \cup {Gone}]
  /\ op \in Op /\ pass \in Task /\ renew \in Task
  /\ lastError \in BOOLEAN /\ unseen \in BOOLEAN /\ lost \in SUBSET Sites
Counters == events \in 0 .. MaxEvents /\ faults \in 0 .. MaxFaults

LEMMA TypeParts == TypeOK <=> Shapes /\ Counters
BY DEF TypeOK, Shapes, Counters, Op, Task, Mem

LEMMA ConfigFields ==
  ASSUME NEW c \in Configs
  PROVE  /\ c # None /\ c.good \in BOOLEAN /\ c.off \in BOOLEAN
         /\ c.name \in {"n1", "n2"} /\ c.tls \in {"none", "acme"}
         /\ c.owner \in {"local", "platform"}
BY ConfigAssumption DEF ConfigType

LEMMA Entries ==
  /\ NoTls \in Entry /\ NoTls.name = None
  /\ \A e \in Entry :
       /\ \A st \in {"pending", "applied", "error", "disabled"} :
            /\ [e EXCEPT !.state = st] \in Entry /\ [e EXCEPT !.state = st].name = e.name
            /\ \A p \in Ports \cup {None} :
                 /\ [e EXCEPT !.state = st, !.port = p] \in Entry
                 /\ [e EXCEPT !.state = st, !.port = p].name = e.name
       /\ \A st \in {"none", "pending_dns", "issuing", "active", "error"} :
            /\ [e EXCEPT !.tls = st] \in Entry /\ [e EXCEPT !.tls = st].name = e.name
            /\ Failed(e, st) \in Entry /\ Failed(e, st).name = e.name
       /\ [e EXCEPT !.fresh = FALSE] \in Entry /\ [e EXCEPT !.fresh = FALSE].name = e.name
       /\ [e EXCEPT !.wait = FALSE] \in Entry /\ [e EXCEPT !.wait = FALSE].name = e.name
       /\ e.state \in {"pending", "applied", "error", "disabled"}
       /\ e.port \in Ports \cup {None}
<1>1. NoTls \in Entry /\ NoTls.name = None
  BY DEF NoTls, Entry
<1>2. ASSUME NEW e \in Entry, NEW st \in {"pending", "applied", "error", "disabled"}
      PROVE  /\ [e EXCEPT !.state = st] \in Entry /\ [e EXCEPT !.state = st].name = e.name
             /\ \A p \in Ports \cup {None} :
                  /\ [e EXCEPT !.state = st, !.port = p] \in Entry
                  /\ [e EXCEPT !.state = st, !.port = p].name = e.name
  BY DEF Entry
<1>3. ASSUME NEW e \in Entry, NEW st \in {"none", "pending_dns", "issuing", "active", "error"}
      PROVE  /\ [e EXCEPT !.tls = st] \in Entry /\ [e EXCEPT !.tls = st].name = e.name
             /\ Failed(e, st) \in Entry /\ Failed(e, st).name = e.name
  BY DEF Failed, Entry
<1>4. ASSUME NEW e \in Entry
      PROVE  /\ [e EXCEPT !.fresh = FALSE] \in Entry /\ [e EXCEPT !.fresh = FALSE].name = e.name
             /\ [e EXCEPT !.wait = FALSE] \in Entry /\ [e EXCEPT !.wait = FALSE].name = e.name
             /\ e.state \in {"pending", "applied", "error", "disabled"}
             /\ e.port \in Ports \cup {None}
  BY DEF Entry
<1> QED
  BY <1>1, <1>2, <1>3, <1>4, Zenon

LEMMA EntryState ==
  ASSUME NEW e \in Entry, NEW st \in {"pending", "applied", "error", "disabled"}
  PROVE  /\ [e EXCEPT !.state = st] \in Entry /\ [e EXCEPT !.state = st].name = e.name
         /\ \A p \in Ports \cup {None} :
              /\ [e EXCEPT !.state = st, !.port = p] \in Entry
              /\ [e EXCEPT !.state = st, !.port = p].name = e.name
BY DEF Entry

LEMMA EntryFailed ==
  ASSUME NEW e \in Entry, NEW st \in {"none", "pending_dns", "issuing", "active", "error"}
  PROVE  Failed(e, st) \in Entry /\ Failed(e, st).name = e.name
BY DEF Failed, Entry

LEMMA EntryAges ==
  ASSUME NEW e \in Entry
  PROVE  [e EXCEPT !.fresh = FALSE] \in Entry /\ [e EXCEPT !.wait = FALSE] \in Entry
BY DEF Entry

(* An entry is never worse than the one it starts from: it names the same  *)
(* certificate, or none.                                                   *)
Follows(new, base) ==
  /\ new \in Statuses
  /\ \A s \in Sites : new[s] # None =>
       new[s].name = None \/ (base[s] # None /\ new[s].name = base[s].name)

(* The first phase of an apply gives every site it looks at an entry.      *)
LEMMA ResolveFollows ==
  ASSUME Shapes, NEW base \in Statuses
  PROVE  /\ Follows(Resolved(base), base)
         /\ \A s \in Candidates :
              /\ Resolved(base)[s] \in Entry
              /\ \/ Resolved(base)[s].name = None
                 \/ base[s] # None /\ Resolved(base)[s].name = base[s].name
<1> DEFINE new == Resolved(base)
           From(s) == IF base[s] = None THEN NoTls ELSE base[s]
<1>1. ASSUME NEW s \in Sites
      PROVE  /\ From(s) \in Entry
             /\ From(s).name = None \/ (base[s] # None /\ From(s).name = base[s].name)
  BY Entries DEF Statuses
<1>2. ASSUME NEW s \in Sites
      PROVE  new[s] = IF desired[s] = None THEN base[s]
                      ELSE IF desired[s].off THEN [From(s) EXCEPT !.state = "disabled"]
                      ELSE IF s \notin Candidates THEN [From(s) EXCEPT !.state = "error"]
                      ELSE IF desired[s].tls = "none"
                           THEN [NoTls EXCEPT !.state = From(s).state, !.port = From(s).port]
                      ELSE IF ~HasCert(s) /\ From(s).tls = "none"
                           THEN [From(s) EXCEPT !.tls = "pending_dns"]
                      ELSE From(s)
  BY DEF Resolved
<1>3. ASSUME NEW s \in Sites, desired[s] # None
      PROVE  /\ new[s] \in Entry
             /\ new[s].name = None \/ (base[s] # None /\ new[s].name = base[s].name)
  <2> HIDE DEF new, From
  <2>0. /\ From(s).state \in {"pending", "applied", "error", "disabled"}
        /\ From(s).port \in Ports \cup {None}
    BY <1>1, Entries
  <2>1. [NoTls EXCEPT !.state = From(s).state, !.port = From(s).port] \in Entry
        /\ [NoTls EXCEPT !.state = From(s).state, !.port = From(s).port].name = None
    BY <2>0 DEF NoTls, Entry
  <2>2. /\ [From(s) EXCEPT !.state = "disabled"] \in Entry
        /\ [From(s) EXCEPT !.state = "disabled"].name = From(s).name
        /\ [From(s) EXCEPT !.state = "error"] \in Entry
        /\ [From(s) EXCEPT !.state = "error"].name = From(s).name
        /\ [From(s) EXCEPT !.tls = "pending_dns"] \in Entry
        /\ [From(s) EXCEPT !.tls = "pending_dns"].name = From(s).name
    BY <1>1, Entries
  <2> QED
    BY <1>1, <1>2, <1>3, <2>1, <2>2, Zenon
<1>4. \A s \in Candidates : s \in Sites /\ desired[s] # None
  BY DEF Candidates, Resolves
<1>5. new \in Statuses
  <2>1. \A s \in Sites : new[s] \in Entry \cup {None}
    BY <1>2, <1>3 DEF Statuses
  <2>2. new = [s \in Sites |-> new[s]]
    BY DEF Resolved
  <2> HIDE DEF new
  <2> QED
    BY <2>1, <2>2 DEF Statuses
<1> QED
  BY <1>2, <1>3, <1>4, <1>5 DEF Follows

LEMMA JudgeFollows ==
  ASSUME Shapes, NEW base \in Statuses
  PROVE  Follows(Judged(Resolved(base)), base)
<1> DEFINE r == Resolved(base)
           new == Judged(r)
<1>1. /\ r \in Statuses /\ Follows(r, base)
      /\ \A s \in Candidates :
           r[s] \in Entry /\ (r[s].name = None \/ (base[s] # None /\ r[s].name = base[s].name))
  BY ResolveFollows DEF Follows
<1> HIDE DEF r
<1>2. Blamed \subseteq Candidates /\ Candidates \subseteq Sites
      /\ \A s \in Candidates : port[s] \in Ports
  BY DEF Blamed, Candidates, Resolves, Shapes
<1>3. \A s \in Sites :
        new[s] = IF s \in Blamed THEN [r[s] EXCEPT !.state = "error"]
                 ELSE IF s \in Candidates THEN [r[s] EXCEPT !.state = "applied", !.port = port[s]]
                 ELSE r[s]
  BY DEF Judged
<1>4. ASSUME NEW s \in Candidates
      PROVE  /\ [r[s] EXCEPT !.state = "error"] \in Entry
             /\ [r[s] EXCEPT !.state = "error"].name = r[s].name
             /\ [r[s] EXCEPT !.state = "applied", !.port = port[s]] \in Entry
             /\ [r[s] EXCEPT !.state = "applied", !.port = port[s]].name = r[s].name
  <2>1. r[s] \in Entry /\ port[s] \in Ports \cup {None}
    BY <1>1, <1>2
  <2> QED
    BY <2>1, EntryState
<1>5. \A s \in Candidates : new[s] \in Entry /\ new[s].name = r[s].name
  BY <1>2, <1>3, <1>4
<1>6. \A s \in Sites \ Candidates : new[s] = r[s]
  BY <1>2, <1>3
<1>7. new \in Statuses
  <2>1. \A s \in Sites : new[s] \in Entry \cup {None}
    BY <1>1, <1>5, <1>6 DEF Statuses
  <2>2. new = [s \in Sites |-> new[s]]
    BY DEF Judged
  <2> HIDE DEF new
  <2> QED
    BY <2>1, <2>2 DEF Statuses
<1> HIDE DEF new
<1>8. Follows(new, base)
  BY <1>1, <1>5, <1>6, <1>7 DEF Follows
<1> QED
  BY <1>8 DEF new, r

LEMMA BaseFollows == Shapes => Base \in Statuses /\ Follows(Base, status)
BY DEF Shapes, Base, Follows, Statuses

LEMMA FollowsThrough ==
  ASSUME NEW a, NEW b, NEW c, Follows(a, b), Follows(b, c)
  PROVE  Follows(a, c)
BY DEF Follows

(* What an apply keeps in memory to save follows what was saved.           *)
LEMMA MemFollows ==
  ASSUME Shapes
  PROVE  Follows(Resolved(Base), status) /\ Follows(Judged(Resolved(Base)), status)
BY BaseFollows, ResolveFollows, JudgeFollows, FollowsThrough

-----------------------------------------------------------------------------
(* The files of an apply                                                   *)

(* nginx takes each file, and the certificate it names is there.           *)
Fit(set) ==
  /\ set \in [Sites -> Files \cup {None}]
  /\ \A s \in Sites : set[s] # None => set[s].cfg.good /\ (set[s].cert => HasCert(s))

LEMMA StagedFits ==
  ASSUME Shapes, Fit(live), NEW s \in Candidates
  PROVE  /\ Staged(s) \in Files \cup {None}
         /\ Staged(s) # None => Staged(s).cfg.good /\ (Staged(s).cert => HasCert(s))
<1>1. s \in Sites /\ desired[s] \in Configs /\ port[s] \in Ports
  BY DEF Candidates, Resolves, Shapes
<1>2. CASE s \notin Blamed
  <2>1. Staged(s) = [cfg |-> desired[s], cert |-> UsesCert(s), port |-> port[s]]
    BY <1>2 DEF Staged, Rendered
  <2>2. UsesCert(s) \in BOOLEAN /\ (UsesCert(s) => HasCert(s))
    BY DEF UsesCert
  <2>3. desired[s].good = TRUE
    BY <1>1, <1>2, ConfigFields DEF Blamed
  <2> HIDE DEF Staged
  <2> QED
    BY <1>1, <2>1, <2>2, <2>3 DEF Files
<1>3. CASE s \in Blamed
  <2>1. Staged(s) = IF s \in KeptLive THEN live[s] ELSE None
    BY <1>3 DEF Staged
  <2> QED
    BY <1>1, <2>1 DEF Fit
<1> QED
  BY <1>2, <1>3

LEMMA SwapFits ==
  ASSUME Shapes, Fit(live)
  PROVE  Fit(Pruned) /\ \A set \in HalfSwapped : Fit(set)
<1>1. Candidates \subseteq Sites
  BY DEF Candidates
<1>2. ASSUME NEW set, set = [s \in Sites |-> set[s]],
             \A s \in Sites : \/ s \in Candidates /\ set[s] = Staged(s)
                             \/ set[s] \in {live[s], None}
      PROVE  Fit(set)
  <2>1. \A s \in Sites :
          /\ set[s] \in Files \cup {None}
          /\ set[s] # None => set[s].cfg.good /\ (set[s].cert => HasCert(s))
    BY <1>2, StagedFits DEF Fit
  <2> QED
    BY <1>2, <2>1 DEF Fit
<1>3. Fit(Pruned)
  <2>1. Pruned = [s \in Sites |-> Pruned[s]]
        /\ \A s \in Sites : Pruned[s] = IF s \in Candidates THEN Staged(s) ELSE None
    BY DEF Pruned
  <2> QED
    BY <1>2, <2>1
<1>4. ASSUME NEW done PROVE Fit(Swapped(done))
  <2>1. /\ Swapped(done) = [s \in Sites |-> Swapped(done)[s]]
        /\ \A s \in Sites :
             Swapped(done)[s] = IF s \in done /\ s \in Candidates \ KeptLive /\ Staged(s) # None
                                THEN Staged(s) ELSE live[s]
    BY DEF Swapped
  <2> QED
    BY <1>2, <2>1
<1> QED
  BY <1>3, <1>4 DEF HalfSwapped

-----------------------------------------------------------------------------
(* Every step keeps the types                                              *)

LEMMA OpSteps ==
  ASSUME NEW o \in Op,
         NEW step \in {"free", "key", "chain", "record", "apply", "save"},
         NEW mem \in {None} \cup Mem
  PROVE  /\ [o EXCEPT !.step = step] \in Op /\ [o EXCEPT !.step = step].step = step
         /\ [o EXCEPT !.step = step].site = o.site /\ [o EXCEPT !.step = step].cfg = o.cfg
         /\ [o EXCEPT !.step = step, !.mem = mem] \in Op
         /\ [o EXCEPT !.step = step, !.mem = mem].step = step
         /\ [o EXCEPT !.step = step, !.mem = mem].mem = mem
         /\ [o EXCEPT !.step = step, !.mem = mem].site = o.site
BY DEF Op

LEMMA TaskSteps ==
  ASSUME NEW t \in Task,
         NEW at \in {"rest", "moved", "sites", "mark", "order", "issue"},
         NEW todo \in [Sites -> Configs \cup {None}]
  PROVE  /\ [t EXCEPT !.at = at] \in Task /\ [t EXCEPT !.at = at].at = at
         /\ [t EXCEPT !.at = at].site = t.site /\ [t EXCEPT !.at = at].cfg = t.cfg
         /\ [t EXCEPT !.todo = todo] \in Task /\ [t EXCEPT !.todo = todo].at = t.at
         /\ [t EXCEPT !.at = at, !.todo = todo] \in Task
         /\ [t EXCEPT !.at = at, !.todo = todo].at = at
BY DEF Task

LEMMA Starts ==
  /\ Free \in Op /\ Free.step = "free" /\ Free.site = None
  /\ Idle \in Task /\ Idle.at = "rest" /\ Idle.todo \in [Sites -> Configs \cup {None}]
  /\ \A todo \in [Sites -> Configs \cup {None}] :
       Onward(todo) \in Task /\ TaskFormed(Onward(todo))
<1>1. /\ Free \in Op /\ Free.step = "free" /\ Free.site = None
      /\ Idle \in Task /\ Idle.at = "rest" /\ Idle.todo \in [Sites -> Configs \cup {None}]
  BY DEF Free, Op, Idle, Task
<1>2. ASSUME NEW todo \in [Sites -> Configs \cup {None}]
      PROVE  Onward(todo) \in Task /\ TaskFormed(Onward(todo))
  <2>1. /\ [Idle EXCEPT !.at = "sites", !.todo = todo] \in Task
        /\ [Idle EXCEPT !.at = "sites", !.todo = todo].at = "sites"
    BY <1>1 DEF Task
  <2> QED
    BY <1>1, <2>1 DEF Onward, TaskFormed
<1> QED
  BY <1>1, <1>2

LEMMA EntryTypes ==
  ASSUME Shapes, NEW s \in Sites
  PROVE  EntryOf(s) \in Entry
<1>1. status[s] \in Entry \cup {None}
  BY DEF Shapes, Statuses
<1>2. NoTls \in Entry
  BY Entries
<1> QED
  BY <1>1, <1>2 DEF EntryOf

LEMMA WithEntry ==
  ASSUME Shapes, NEW s \in Sites, NEW e \in Entry
  PROVE  [status EXCEPT ![s] = e] \in Statuses
BY DEF Shapes, Statuses

(* A step uses up at most one event and one fault.                         *)
LEMMA NextCounters ==
  ASSUME Counters, [Next]_vars
  PROVE  Counters'
<1>1. Event => events' \in 0 .. MaxEvents
  BY BoundAssumption DEF Counters, Event
<1>2. Fault => faults' \in 0 .. MaxFaults
  BY BoundAssumption DEF Counters, Fault
<1>3. /\ events' = events \/ Event
      /\ faults' = faults \/ Fault
  <2>1. CASE \E s \in Sites : \/ \E c \in Configs : Upsert(s, c)
                             \/ RemoveSite(s) \/ AskRenewal(s)
                             \/ AppMoves(s) \/ Ages(s) \/ BackoffEnds(s)
    BY <2>1 DEF Upsert, RemoveSite, AskRenewal, AppMoves, Ages, BackoffEnds, Commit
  <2>2. CASE \E incoming \in [Sites -> {c \in Configs : c.owner = "platform"} \cup {None}] :
               ReplaceSites(incoming)
    BY <2>2 DEF ReplaceSites, Commit
  <2>3. CASE Reload \/ Pass
    BY <2>3 DEF Reload, Pass, Tick, TickApplies, AcmeSites, Consider
  <2>4. CASE Issue
    BY <2>4 DEF Issue, Mark, OrderFails, OrderIssued, WriteFails, WriteKey, WriteChain,
       Record
  <2>5. CASE Apply
    BY <2>5 DEF Apply, ApplyDone, ApplyRejected, ApplyFails, ReloadFails, SaveStatus
  <2>6. CASE Crash \/ NginxRestarts
    BY <2>6 DEF Crash, NginxRestarts
  <2>7. CASE UNCHANGED vars
    BY <2>7 DEF vars
  <2> QED
    BY <2>1, <2>2, <2>3, <2>4, <2>5, <2>6, <2>7 DEF Next
<1> QED
  BY <1>1, <1>2, <1>3 DEF Counters

(* The calls of the API and the pass that start an apply, or change a task. *)
LEMMA CallTypes ==
  ASSUME Shapes, Formed, Fit(live),
         \/ Reload \/ Pass
         \/ \E s \in Sites : \/ \E c \in Configs : Upsert(s, c)
                            \/ RemoveSite(s) \/ AskRenewal(s)
         \/ \E incoming \in [Sites -> {c \in Configs : c.owner = "platform"} \cup {None}] :
               ReplaceSites(incoming)
  PROVE  Shapes' /\ Formed'
<1> USE DEF Shapes, Formed
<1>1. ASSUME NEW next \in [Sites -> Configs \cup {None}], Commit(next) PROVE Shapes' /\ Formed'
  <2>1. op' \in Op /\ op'.step = "apply"
    BY <1>1 DEF Commit, Free, Op
  <2> QED
    BY <1>1, <2>1 DEF Commit, OpFormed
<1>2. ASSUME NEW who \in {"pass", None}, StartApply(who) PROVE op' \in Op /\ op'.step = "apply"
  BY <1>2 DEF StartApply, Free, Op
<1>3. CASE Reload
  <2>1. UNCHANGED <<files, port, pass, renew, unseen, lost>> /\ StartApply(None)
    BY <1>3 DEF Reload
  <2> QED
    BY <1>2, <2>1 DEF files, OpFormed
<1>4. CASE Pass
  <2>1. CASE Tick
    <3>1. \/ pass' = [pass EXCEPT !.at = "moved"]
          \/ pass' = [pass EXCEPT !.at = "sites"]
      BY <2>1 DEF Tick
    <3>2. pass' \in Task /\ pass'.at \in {"moved", "sites"}
      BY <3>1 DEF Task
    <3> QED
      BY <2>1, <3>2 DEF Tick, files, TaskFormed
  <2>2. CASE TickApplies
    <3>1. UNCHANGED <<files, port, pass, renew, unseen, lost>> /\ StartApply("pass")
      BY <2>2 DEF TickApplies
    <3> QED
      BY <1>2, <3>1 DEF files, OpFormed
  <2>3. CASE AcmeSites
    <3> DEFINE todo == [s \in Sites |->
                          IF desired[s] # None /\ ~desired[s].off /\ desired[s].tls = "acme"
                          THEN desired[s] ELSE None]
    <3>1. todo \in [Sites -> Configs \cup {None}]
      OBVIOUS
    <3>2. pass' = Idle \/ pass' = [pass EXCEPT !.todo = todo]
      BY <2>3 DEF AcmeSites
    <3>3. pass.at = "sites" /\ UNCHANGED <<files, port, op, renew, unseen, lost>>
      BY <2>3 DEF AcmeSites
    <3> HIDE DEF todo
    <3>4. [pass EXCEPT !.todo = todo] \in Task /\ [pass EXCEPT !.todo = todo].at = "sites"
      BY <3>1, <3>3 DEF Task
    <3>5. pass' \in Task /\ pass'.at \in {"rest", "sites"}
      BY <3>2, <3>4, Starts
    <3> QED
      BY <3>3, <3>5 DEF files, TaskFormed
  <2>4. ASSUME NEW s \in Sites, Consider(s) PROVE Shapes' /\ Formed'
    <3> DEFINE rest == [pass.todo EXCEPT ![s] = None]
               c == pass.todo[s]
               marked == [at |-> "mark", todo |-> rest, site |-> s, cfg |-> c]
    <3>1. pass.todo \in [Sites -> Configs \cup {None}]
      BY DEF Task
    <3>2. rest \in [Sites -> Configs \cup {None}]
      BY <3>1
    <3>3. c \in Configs
      BY <2>4, <3>1 DEF Consider
    <3>4. marked \in Task /\ TaskFormed(marked)
      BY <3>2, <3>3 DEF Task, TaskFormed
    <3>5. pass' = marked \/ pass' = Onward(rest)
      BY <2>4 DEF Consider
    <3>6. UNCHANGED <<files, port, op, renew, unseen, lost>>
      BY <2>4 DEF Consider
    <3> HIDE DEF rest, c, marked
    <3>7. pass' \in Task /\ TaskFormed(pass')
      BY <3>2, <3>4, <3>5, Starts
    <3> QED
      BY <3>6, <3>7 DEF files, TaskFormed
  <2> QED
    BY <1>4, <2>1, <2>2, <2>3, <2>4 DEF Pass
<1>5. ASSUME NEW s \in Sites, NEW c \in Configs, Upsert(s, c) PROVE Shapes' /\ Formed'
  BY <1>1, <1>5 DEF Upsert
<1>6. ASSUME NEW s \in Sites, RemoveSite(s) PROVE Shapes' /\ Formed'
  BY <1>1, <1>6 DEF RemoveSite
<1>7. ASSUME NEW s \in Sites, AskRenewal(s) PROVE Shapes' /\ Formed'
  <2>1. desired[s] \in Configs /\ UNCHANGED <<files, port, op, pass, unseen, lost>>
    BY <1>7 DEF AskRenewal
  <2>2. renew' \in Task /\ renew'.site = s /\ renew'.cfg = desired[s]
    BY <1>7, <2>1, Starts DEF AskRenewal, Task
  <2> QED
    BY <2>1, <2>2 DEF files, TaskFormed
<1>8. ASSUME NEW incoming \in [Sites -> {c \in Configs : c.owner = "platform"} \cup {None}],
             ReplaceSites(incoming)
      PROVE  Shapes' /\ Formed'
  <2> DEFINE next == [s \in Sites |-> IF desired[s] # None /\ desired[s].owner # "platform"
                                      THEN desired[s] ELSE incoming[s]]
  <2>1. next \in [Sites -> Configs \cup {None}]
    OBVIOUS
  <2>2. Commit(next)
    BY <1>8 DEF ReplaceSites
  <2> HIDE DEF next
  <2> QED
    BY <1>1, <2>1, <2>2
<1> QED
  BY <1>3, <1>4, <1>5, <1>6, <1>7, <1>8

LEMMA NewOrderFree ==
  ASSUME Shapes
  PROVE  NewOrder \in Orders \ {0}
<1> DEFINE key == [s \in Sites |-> pem[s].key]
           chain == [s \in Sites |-> pem[s].chain]
<1>1. key \in [Sites -> Orders] /\ chain \in [Sites -> Orders]
  BY DEF Shapes, Pems
<1>2. \E n \in Orders \ {0} : \A s \in Sites : n \notin {key[s], chain[s]}
  BY <1>1, FreeOrder
<1>3. \E n \in Orders \ {0} : \A s \in Sites : n \notin {pem[s].key, pem[s].chain}
  BY <1>2
<1> QED
  BY <1>3 DEF NewOrder

(* An order and what follows it.                                           *)
LEMMA IssueTypes ==
  ASSUME Shapes, Formed, Issue
  PROVE  Shapes' /\ Formed'
<1> USE DEF Shapes, Formed
<1>1. ASSUME NEW t \in {pass, renew}, NEW at \in {"order", "issue"},
             t.at \in {"mark", "order"}
      PROVE  /\ t.site \in Sites /\ t.cfg \in Configs /\ EntryOf(t.site) \in Entry
             /\ [t EXCEPT !.at = at] \in Task /\ TaskFormed([t EXCEPT !.at = at])
  <2>1. t \in Task /\ t.site \in Sites /\ t.cfg \in Configs
    BY <1>1 DEF TaskFormed
  <2>2. /\ [t EXCEPT !.at = at] \in Task
        /\ [t EXCEPT !.at = at].site = t.site /\ [t EXCEPT !.at = at].cfg = t.cfg
    BY <2>1 DEF Task
  <2> QED
    BY <2>1, <2>2, EntryTypes DEF TaskFormed
<1>2. ASSUME NEW who, NEW t \in {pass, renew}, Mark(who, t) PROVE Shapes' /\ Formed'
  <2>1. t.at = "mark" /\ UNCHANGED <<desired, lastError, live, nginx, pem, port, op, unseen, lost>>
    BY <1>2 DEF Mark
  <2>2. status' \in Statuses
    <3>1. [EntryOf(t.site) EXCEPT !.tls = "issuing"] \in Entry
      BY <1>1, <2>1, Entries
    <3>2. [status EXCEPT ![t.site] = [EntryOf(t.site) EXCEPT !.tls = "issuing"]] \in Statuses
      BY <1>1, <2>1, <3>1, WithEntry
    <3> QED
      BY <1>2, <3>2 DEF Mark
  <2>3. pass' \in Task /\ renew' \in Task /\ TaskFormed(pass') /\ TaskFormed(renew')
    <3> DEFINE y == [t EXCEPT !.at = "order"]
    <3>1. y \in Task /\ TaskFormed(y)
      BY <1>1, <2>1
    <3>2. (pass' = y \/ pass' = pass) /\ (renew' = y \/ renew' = renew)
      BY <1>2 DEF Mark
    <3> HIDE DEF y
    <3> QED
      BY <3>1, <3>2
  <2> QED
    BY <2>1, <2>2, <2>3 DEF TaskFormed, OpFormed
<1>3. ASSUME NEW who \in {"pass", "renew"}, NEW t \in {pass, renew}, t.at = "order",
             NEW step \in {"apply", "key"}, Ordered(who, t, step)
      PROVE  /\ op' \in Op /\ OpFormed(op') /\ op'.step = step
             /\ pass' \in Task /\ renew' \in Task /\ TaskFormed(pass') /\ TaskFormed(renew')
  <2> DEFINE y == [t EXCEPT !.at = "issue"]
             o == [kind |-> "issue", step |-> step, site |-> t.site, cfg |-> t.cfg,
                   who |-> who, mem |-> None]
  <2>1. y \in Task /\ TaskFormed(y) /\ t.site \in Sites /\ t.cfg \in Configs
    BY <1>1, <1>3
  <2>2. o \in Op /\ OpFormed(o) /\ o.step = step
    BY <2>1 DEF Op, OpFormed
  <2>3. op' = o /\ (pass' = y \/ pass' = pass) /\ (renew' = y \/ renew' = renew)
    BY <1>3 DEF Ordered
  <2> HIDE DEF y, o
  <2> QED
    BY <2>1, <2>2, <2>3
<1>4. ASSUME NEW who \in {"pass", "renew"}, NEW t \in {pass, renew}, OrderFails(who, t)
      PROVE  Shapes' /\ Formed'
  <2>1. t.at = "order" /\ Ordered(who, t, "apply")
        /\ UNCHANGED <<desired, lastError, live, nginx, pem, port, unseen, lost>>
    BY <1>4 DEF OrderFails
  <2>2. status' \in Statuses
    <3>1. PICK st \in {"pending_dns", "error"} :
            status' = [status EXCEPT ![t.site] = Failed(EntryOf(t.site), st)]
      BY <1>4 DEF OrderFails
    <3> QED
      BY <1>1, <2>1, <3>1, Entries, WithEntry
  <2> QED
    BY <1>3, <2>1, <2>2 DEF TaskFormed, OpFormed
<1>5. ASSUME NEW who \in {"pass", "renew"}, NEW t \in {pass, renew}, OrderIssued(who, t)
      PROVE  Shapes' /\ Formed'
  <2>1. t.at = "order" /\ Ordered(who, t, "key") /\ UNCHANGED <<files, port, unseen, lost>>
    BY <1>5 DEF OrderIssued
  <2> QED
    BY <1>3, <2>1 DEF TaskFormed, OpFormed, files
<1>6. ASSUME op.step \in {"key", "chain", "record"}, NEW step \in {"chain", "record", "apply"}
      PROVE  /\ op.site \in Sites /\ op.cfg \in Configs /\ EntryOf(op.site) \in Entry
             /\ [op EXCEPT !.step = step] \in Op /\ OpFormed([op EXCEPT !.step = step])
  <2>1. op.site \in Sites /\ op.cfg \in Configs
    BY <1>6 DEF OpFormed
  <2>2. [op EXCEPT !.step = step] \in Op /\ [op EXCEPT !.step = step].step = step
        /\ [op EXCEPT !.step = step].site = op.site /\ [op EXCEPT !.step = step].cfg = op.cfg
    BY DEF Op
  <2> QED
    BY <2>1, <2>2, EntryTypes DEF OpFormed
<1>7. CASE WriteFails
  <2>1. op.step \in {"key", "chain"} /\ op' = [op EXCEPT !.step = "apply"]
        /\ UNCHANGED <<desired, lastError, live, nginx, pem, port, pass, renew, unseen>>
    BY <1>7 DEF WriteFails
  <2>2. status' \in Statuses
    BY <1>6, <1>7, <2>1, Entries, WithEntry DEF WriteFails
  <2>3. lost' \in SUBSET Sites
    BY <1>6, <1>7, <2>1 DEF WriteFails
  <2> QED
    BY <1>6, <2>1, <2>2, <2>3 DEF TaskFormed, OpFormed
<1>8. CASE WriteKey
  <2>1. NewOrder \in Orders \ {0}
    BY NewOrderFree
  <2>2. op.step = "key" /\ op' = [op EXCEPT !.step = "chain"]
        /\ UNCHANGED <<desired, status, lastError, live, nginx, port, pass, renew, unseen, lost>>
        /\ pem' = [pem EXCEPT ![op.site].key = NewOrder]
    BY <1>8 DEF WriteKey
  <2>3. pem' \in [Sites -> Pems]
    BY <1>6, <2>1, <2>2 DEF Pems
  <2> QED
    BY <1>6, <2>2, <2>3 DEF TaskFormed, OpFormed
<1>9. CASE WriteChain
  <2>1. op.step = "chain" /\ op' = [op EXCEPT !.step = "record"]
        /\ UNCHANGED <<desired, status, lastError, live, nginx, port, pass, renew, unseen, lost>>
        /\ pem' = [pem EXCEPT ![op.site].chain = pem[op.site].key, ![op.site].name = op.cfg.name]
    BY <1>9 DEF WriteChain
  <2>2. op.site \in Sites /\ op.cfg.name \in {"n1", "n2"}
    BY <1>6, <2>1, ConfigFields
  <2>3. pem' \in [Sites -> Pems]
    BY <2>1, <2>2 DEF Pems
  <2> QED
    BY <1>6, <2>1, <2>3 DEF TaskFormed, OpFormed
<1>10. CASE Record
  <2> DEFINE e == [EntryOf(op.site) EXCEPT !.tls = "active", !.name = op.cfg.name,
                                           !.fresh = TRUE, !.wait = FALSE]
  <2>1. op.step = "record" /\ op' = [op EXCEPT !.step = "apply"]
        /\ UNCHANGED <<desired, lastError, live, nginx, pem, port, pass, renew, unseen>>
    BY <1>10 DEF Record
  <2>2. e \in Entry
    BY <1>6, <2>1, ConfigFields DEF Entry
  <2>3. status' = [status EXCEPT ![op.site] = e] \/ status' = status
    BY <1>10 DEF Record
  <2> HIDE DEF e
  <2>4. status' \in Statuses
    BY <1>6, <2>1, <2>2, <2>3, WithEntry
  <2>5. lost' \in SUBSET Sites
    BY <1>6, <1>10, <2>1 DEF Record
  <2> QED
    BY <1>6, <2>1, <2>4, <2>5 DEF TaskFormed, OpFormed
<1> QED
  BY <1>2, <1>4, <1>5, <1>7, <1>8, <1>9, <1>10 DEF Issue

(* An apply, and what happens around the operations.                       *)
LEMMA ApplyTypes ==
  ASSUME Shapes, Formed, Fit(live), Apply
  PROVE  Shapes' /\ Formed'
<1> USE DEF Shapes, Formed
<1>1. /\ Pruned \in [Sites -> Files \cup {None}]
      /\ \A set \in HalfSwapped : set \in [Sites -> Files \cup {None}]
  BY SwapFits DEF Fit
<1>2. Resolved(Base) \in Statuses /\ Judged(Resolved(Base)) \in Statuses
  BY MemFollows DEF Follows
<1>3. ASSUME NEW mem \in Statuses, NEW err \in BOOLEAN, NEW ok \in BOOLEAN, ToSave(mem, err, ok)
      PROVE  op' \in Op /\ OpFormed(op')
  <2> DEFINE m == [sites |-> mem, err |-> err, ok |-> ok]
  <2>1. m \in Mem
    BY DEF Mem
  <2>2. op' = [op EXCEPT !.step = "save", !.mem = m]
    BY <1>3 DEF ToSave
  <2> HIDE DEF m
  <2>3. /\ [op EXCEPT !.step = "save", !.mem = m] \in Op
        /\ [op EXCEPT !.step = "save", !.mem = m].step = "save"
        /\ [op EXCEPT !.step = "save", !.mem = m].mem = m
    BY <2>1 DEF Op
  <2> QED
    BY <2>1, <2>2, <2>3 DEF OpFormed
<1>4. CASE ApplyDone
  BY <1>1, <1>2, <1>3, <1>4 DEF ApplyDone, TaskFormed
<1>5. CASE ApplyRejected
  BY <1>1, <1>2, <1>3, <1>5 DEF ApplyRejected, TaskFormed
<1>6. CASE ApplyFails
  BY <1>1, <1>2, <1>3, <1>6 DEF ApplyFails, TaskFormed
<1>7. CASE ReloadFails
  BY <1>1, <1>2, <1>3, <1>7 DEF ReloadFails, TaskFormed
<1>8. CASE SaveStatus
  <2>1. op.mem \in Mem /\ UNCHANGED <<desired, live, nginx, pem, port, lost>>
    BY <1>8 DEF SaveStatus, OpFormed
  <2>2. status' \in Statuses /\ lastError' \in BOOLEAN /\ unseen' \in BOOLEAN
    BY <1>8, <2>1 DEF SaveStatus, Mem
  <2>3. op' \in Op /\ OpFormed(op')
    BY <1>8, Starts DEF SaveStatus, Release, OpFormed
  <2>4. pass' \in Task /\ TaskFormed(pass')
    <3>1. /\ [pass EXCEPT !.at = "sites"] \in Task /\ TaskFormed([pass EXCEPT !.at = "sites"])
          /\ pass.todo \in [Sites -> Configs \cup {None}]
      BY DEF Task, TaskFormed
    <3>2. pass' \in {pass, [pass EXCEPT !.at = "sites"], Onward(pass.todo)}
      BY <1>8 DEF SaveStatus, Release
    <3> QED
      BY <3>1, <3>2, Starts
  <2>5. renew' \in Task /\ TaskFormed(renew')
    BY <1>8, Starts DEF SaveStatus, Release, TaskFormed
  <2> QED
    BY <2>1, <2>2, <2>3, <2>4, <2>5 DEF TaskFormed, OpFormed
<1> QED
  BY <1>4, <1>5, <1>6, <1>7, <1>8 DEF Apply

LEMMA AroundTypes ==
  ASSUME Shapes, Formed, Fit(live),
         \/ \E s \in Sites : AppMoves(s) \/ Ages(s) \/ BackoffEnds(s)
         \/ Crash \/ NginxRestarts
  PROVE  Shapes' /\ Formed'
<1> USE DEF Shapes, Formed
<1>1. ASSUME NEW s \in Sites, AppMoves(s) PROVE Shapes' /\ Formed'
  BY <1>1 DEF AppMoves, files, TaskFormed, OpFormed
<1>2. ASSUME NEW s \in Sites, Ages(s) \/ BackoffEnds(s) PROVE Shapes' /\ Formed'
  <2>1. status[s] \in Entry
    BY <1>2 DEF Ages, BackoffEnds, Statuses
  <2>2. \/ status' = [status EXCEPT ![s] = [status[s] EXCEPT !.fresh = FALSE]]
        \/ status' = [status EXCEPT ![s] = [status[s] EXCEPT !.wait = FALSE]]
    BY <1>2 DEF Ages, BackoffEnds
  <2>3. [status[s] EXCEPT !.fresh = FALSE] \in Entry /\ [status[s] EXCEPT !.wait = FALSE] \in Entry
    BY <2>1, EntryAges
  <2>4. PICK e \in Entry : status' = [status EXCEPT ![s] = e]
    BY <2>2, <2>3
  <2>5. status' \in Statuses
    BY <2>4, WithEntry
  <2> QED
    BY <1>2, <2>5 DEF Ages, BackoffEnds, TaskFormed, OpFormed
<1>3. CASE Crash
  <2>1. live' \in [Sites -> Files \cup {None}]
    BY <1>3, SwapFits DEF Crash, Fit
  <2>2. lost' \in SUBSET Sites
    BY <1>3 DEF Crash, OpFormed
  <2>3. unseen' \in BOOLEAN
    BY <1>3 DEF Crash
  <2> QED
    BY <1>3, <2>1, <2>2, <2>3, Starts DEF Crash, TaskFormed, OpFormed
<1>4. CASE NginxRestarts
  BY <1>4 DEF NginxRestarts, TaskFormed, OpFormed
<1> QED
  BY <1>1, <1>2, <1>3, <1>4

LEMMA NextTypes ==
  ASSUME Shapes, Formed, Fit(live), [Next]_vars
  PROVE  Shapes' /\ Formed'
<1>1. CASE UNCHANGED vars
  BY <1>1 DEF vars, Shapes, Formed, TaskFormed, OpFormed
<1> QED
  BY <1>1, CallTypes, IssueTypes, ApplyTypes, AroundTypes DEF Next

-----------------------------------------------------------------------------
(* Certificates                                                            *)

(* A pair that does not fit is one whose writing was cut off, or is being  *)
(* written; a file of a pair is never missing again once there.            *)
DiskInv ==
  /\ Fit(live)
  /\ \A s \in Sites : Torn(s) => s \in lost \/ (op.site = s /\ op.step = "chain")
  /\ op.step = "chain" => pem[op.site].key > 0
  /\ op.step = "record" => ~Torn(op.site)

(* What status.json names, or is about to be saved, is what is on disk;    *)
(* between the pair and its record, it is what was ordered.                *)
Named(e, s) == e # None /\ e.name # None => pem[s].name = e.name
NameInv ==
  /\ \A s \in Sites \ lost : (op.site = s /\ op.step = "record") \/ Named(status[s], s)
  /\ op.step = "record" => pem[op.site].name = op.cfg.name
  /\ op.step = "save" => \A s \in Sites \ lost : Named(op.mem.sites[s], s)

LEMMA InitDisk == Init => Shapes /\ Counters /\ Formed /\ DiskInv /\ NameInv
<1> SUFFICES ASSUME Init PROVE Shapes /\ Counters /\ Formed /\ DiskInv /\ NameInv
  OBVIOUS
<1>1. 0 \in Orders
  BY SiteAssumption, FS_CardinalityType DEF Orders
<1>2. pem \in [Sites -> Pems] /\ \A s \in Sites : pem[s].key = 0
  BY <1>1 DEF Init, Pems
<1>3. Shapes
  BY <1>2, Starts DEF Init, Shapes, Statuses, Ports
<1>4. Counters
  BY BoundAssumption DEF Init, Counters
<1>5. Formed
  BY Starts DEF Init, Formed, OpFormed, TaskFormed
<1>6. \A s \in Sites : ~HasCert(s)
  BY <1>2 DEF HasCert
<1>7. Fit(live)
  BY <1>3 DEF Init, Shapes, Fit
<1>8. DiskInv /\ NameInv
  BY <1>6, <1>7, Starts DEF Init, DiskInv, NameInv, Torn, Named
<1> QED
  BY <1>3, <1>4, <1>5, <1>8

(* A step that leaves the certificates alone.                              *)
LEMMA FitKept ==
  ASSUME NEW set, Fit(set), live' = set, pem' = pem
  PROVE  Fit(live)'
BY DEF Fit, HasCert

LEMMA Leaves ==
  ASSUME DiskInv, NameInv, Fit(live)', UNCHANGED <<pem, lost>>, Follows(status', status),
         \/ op' = op
         \/ op.step \notin {"chain", "record"} /\ op'.step \in {"free", "apply", "key"}
  PROVE  DiskInv' /\ NameInv'
<1>1. DiskInv'
  BY DEF DiskInv, Torn, HasCert
<1>2. \A s \in Sites \ lost : Named(status[s], s) => Named(status[s], s)'
  BY DEF Follows, Named
<1>3. NameInv'
  <2>1. CASE op' = op
    BY <1>2, <2>1 DEF NameInv, Named
  <2>2. CASE op.step \notin {"chain", "record"} /\ op'.step \in {"free", "apply", "key"}
    BY <1>2, <2>2 DEF NameInv
  <2> QED
    BY <2>1, <2>2
<1> QED
  BY <1>1, <1>3

LEMMA FollowsSelf == Shapes => Follows(status, status)
BY DEF Shapes, Follows

LEMMA FollowsEntry ==
  ASSUME Shapes, NEW s \in Sites, NEW e \in Entry,
         e.name = None \/ (status[s] # None /\ e.name = status[s].name)
  PROVE  Follows([status EXCEPT ![s] = e], status)
BY WithEntry DEF Shapes, Statuses, Follows

LEMMA EntryFollows ==
  ASSUME Shapes, NEW s \in Sites
  PROVE  /\ EntryOf(s) \in Entry
         /\ EntryOf(s).name = None \/ (status[s] # None /\ EntryOf(s).name = status[s].name)
BY Entries, EntryTypes DEF EntryOf

LEMMA CallDisk ==
  ASSUME Shapes, Formed, DiskInv, NameInv,
         \/ Reload \/ Pass
         \/ \E s \in Sites : \/ \E c \in Configs : Upsert(s, c)
                            \/ RemoveSite(s) \/ AskRenewal(s)
         \/ \E incoming \in [Sites -> {c \in Configs : c.owner = "platform"} \cup {None}] :
               ReplaceSites(incoming)
  PROVE  DiskInv' /\ NameInv'
<1>1. UNCHANGED <<status, live, pem, lost>>
  BY DEF Reload, Pass, Tick, TickApplies, AcmeSites, Consider, Upsert, RemoveSite,
     AskRenewal,
         ReplaceSites, Commit, files
<1>2. \/ op' = op
      \/ op = Free /\ op'.step = "apply"
  BY DEF Reload, Pass, Tick, TickApplies, AcmeSites, Consider, Upsert, RemoveSite,
     AskRenewal,
         ReplaceSites, Commit, StartApply, Free
<1>3. Fit(live)'
  BY <1>1, FitKept DEF DiskInv
<1> QED
  BY <1>1, <1>2, <1>3, FollowsSelf, Starts, Leaves

LEMMA IssueDisk ==
  ASSUME Shapes, Formed, DiskInv, NameInv, Issue
  PROVE  DiskInv' /\ NameInv'
<1>1. ASSUME pem' = pem, live' = live PROVE Fit(live)'
  BY <1>1, FitKept DEF DiskInv
<1>2. op.step \in {"key", "chain", "record"} => op.site \in Sites /\ op.cfg \in Configs
  BY DEF Formed, OpFormed
<1>3. ASSUME NEW t \in {pass, renew}, t.at \in {"mark", "order"},
             NEW e \in Entry, e.name = EntryOf(t.site).name
      PROVE  Follows([status EXCEPT ![t.site] = e], status)
  <2>1. t.site \in Sites
    BY <1>3 DEF Formed, TaskFormed
  <2> QED
    BY <1>3, <2>1, EntryFollows, FollowsEntry
<1>4. ASSUME NEW who, NEW t \in {pass, renew}, Mark(who, t) PROVE DiskInv' /\ NameInv'
  <2> DEFINE e == [EntryOf(t.site) EXCEPT !.tls = "issuing"]
  <2>1. t.at = "mark" /\ UNCHANGED <<live, pem, op, lost>>
        /\ (status' = status \/ status' = [status EXCEPT ![t.site] = e])
    BY <1>4 DEF Mark
  <2>2. t.site \in Sites
    BY <2>1 DEF Formed, TaskFormed
  <2>3. e \in Entry /\ e.name = EntryOf(t.site).name
    BY <2>2, EntryFollows, Entries
  <2> HIDE DEF e
  <2>4. Follows(status', status)
    BY <1>3, <2>1, <2>3, FollowsSelf
  <2> QED
    BY <1>1, <2>1, <2>4, Leaves
<1>5. ASSUME NEW who, NEW t \in {pass, renew}, OrderFails(who, t) PROVE DiskInv' /\ NameInv'
  <2>1. t.at = "order" /\ op = Free /\ UNCHANGED <<live, pem, lost>> /\ op'.step = "apply"
    BY <1>5 DEF OrderFails, Ordered
  <2>2. t.site \in Sites
    BY <2>1 DEF Formed, TaskFormed
  <2>3. PICK st \in {"pending_dns", "error"} :
          status' = [status EXCEPT ![t.site] = Failed(EntryOf(t.site), st)]
    BY <1>5 DEF OrderFails
  <2>4. Failed(EntryOf(t.site), st) \in Entry
        /\ Failed(EntryOf(t.site), st).name = EntryOf(t.site).name
    <3>1. EntryOf(t.site) \in Entry
      BY <2>2, EntryTypes
    <3> QED
      BY <3>1, EntryFailed
  <2>5. Follows(status', status)
    BY <1>3, <2>1, <2>3, <2>4
  <2> QED
    BY <1>1, <2>1, <2>5, Starts, Leaves
<1>6. ASSUME NEW who, NEW t \in {pass, renew}, OrderIssued(who, t) PROVE DiskInv' /\ NameInv'
  <2>1. op = Free /\ UNCHANGED <<status, live, pem, lost>> /\ op'.step = "key"
    BY <1>6 DEF OrderIssued, Ordered, files
  <2> QED
    BY <1>1, <2>1, FollowsSelf, Starts, Leaves
<1>7. ASSUME NEW step \in {"chain", "record", "apply"}
      PROVE  /\ [op EXCEPT !.step = step].step = step
             /\ [op EXCEPT !.step = step].site = op.site
             /\ [op EXCEPT !.step = step].cfg = op.cfg
             /\ [op EXCEPT !.step = step].mem = op.mem
  BY DEF Shapes, Op
<1>8. CASE WriteFails
  <2> DEFINE e == Failed(EntryOf(op.site), "error")
  <2>1. /\ op.step \in {"key", "chain"} /\ UNCHANGED <<live, pem>>
        /\ op'.step = "apply" /\ op'.site = op.site
        /\ status' = [status EXCEPT ![op.site] = e]
        /\ lost' = IF op.step = "chain" THEN lost \cup {op.site} ELSE lost
    BY <1>7, <1>8 DEF WriteFails
  <2>2. /\ op.site \in Sites /\ e \in Entry
        /\ e.name = None \/ (status[op.site] # None /\ e.name = status[op.site].name)
    <3>1. op.site \in Sites
      BY <1>2, <2>1
    <3>2. e \in Entry /\ e.name = EntryOf(op.site).name
      BY <3>1, EntryFollows, Entries
    <3> QED
      BY <3>1, <3>2, EntryFollows
  <2> HIDE DEF e
  <2>3. Follows(status', status)
    BY <1>2, <2>1, <2>2, FollowsEntry
  <2>4. Fit(live)'
    BY <1>1, <2>1
  <2>5. DiskInv'
    BY <2>1, <2>4 DEF DiskInv, Torn, HasCert
  <2>6. \A s \in Sites \ lost : Named(status[s], s)'
    BY <2>1, <2>3 DEF NameInv, Named, Follows
  <2> QED
    BY <2>1, <2>5, <2>6 DEF NameInv
<1>9. CASE WriteKey
  <2>1. /\ op.step = "key" /\ op'.step = "chain" /\ op'.site = op.site
        /\ UNCHANGED <<status, live, lost>>
        /\ pem' = [pem EXCEPT ![op.site].key = NewOrder]
    BY <1>7, <1>9 DEF WriteKey
  <2>2. NewOrder \in Nat \ {0}
    BY NewOrderFree DEF Orders
  <2>3. \A s \in Sites :
          /\ pem'[s].key = IF s = op.site THEN NewOrder ELSE pem[s].key
          /\ pem'[s].chain = pem[s].chain /\ pem'[s].name = pem[s].name
    BY <2>1 DEF Shapes, Pems
  <2>4. \A s \in Sites : HasCert(s) => HasCert(s)'
    BY <2>2, <2>3 DEF HasCert
  <2>5. Fit(live)'
    BY <2>1, <2>4 DEF DiskInv, Fit
  <2>6. \A s \in Sites \ {op.site} : Torn(s)' => Torn(s)
    BY <2>3 DEF Torn, HasCert
  <2>7. DiskInv'
    BY <1>2, <2>1, <2>2, <2>3, <2>5, <2>6 DEF DiskInv
  <2> QED
    BY <2>1, <2>3, <2>7 DEF NameInv, Named
<1>10. CASE WriteChain
  <2>1. /\ op.step = "chain" /\ op'.step = "record" /\ op'.site = op.site /\ op'.cfg = op.cfg
        /\ UNCHANGED <<status, live, lost>>
        /\ pem' = [pem EXCEPT ![op.site].chain = pem[op.site].key, ![op.site].name = op.cfg.name]
    BY <1>7, <1>10 DEF WriteChain
  <2>2. \A s \in Sites :
          /\ pem'[s].key = pem[s].key
          /\ s = op.site => pem'[s].chain = pem[s].key /\ pem'[s].name = op.cfg.name
          /\ s # op.site => pem'[s].chain = pem[s].chain /\ pem'[s].name = pem[s].name
    BY <2>1 DEF Shapes, Pems
  <2>3. \A s \in Sites : HasCert(s) => HasCert(s)'
    BY <2>1, <2>2 DEF HasCert
  <2>4. Fit(live)'
    BY <2>1, <2>3 DEF DiskInv, Fit
  <2>5. /\ \A s \in Sites \ {op.site} : Torn(s)' => Torn(s)
        /\ op.site \in Sites => ~Torn(op.site)'
    BY <2>1, <2>2 DEF Torn, HasCert
  <2>6. DiskInv'
    BY <1>2, <2>1, <2>4, <2>5 DEF DiskInv
  <2>7. \A s \in Sites \ lost : s # op.site => Named(status[s], s)
    BY <2>1 DEF NameInv
  <2>8. \A s \in Sites \ lost : s # op.site => Named(status[s], s)'
    BY <2>1, <2>2, <2>7 DEF Named
  <2>9. pem'[op.site].name = op'.cfg.name
    BY <1>2, <2>1, <2>2
  <2> QED
    BY <2>1, <2>6, <2>8, <2>9 DEF NameInv
<1>11. CASE Record
  <2> DEFINE e == [EntryOf(op.site) EXCEPT !.tls = "active", !.name = op.cfg.name,
                                           !.fresh = TRUE, !.wait = FALSE]
  <2>1. /\ op.step = "record" /\ op'.step = "apply" /\ op'.site = op.site
        /\ UNCHANGED <<live, pem>>
        /\ \/ status' = [status EXCEPT ![op.site] = e] /\ lost' = lost \ {op.site}
           \/ status' = status /\ lost' = lost \cup {op.site}
    BY <1>7, <1>11 DEF Record
  <2>2. e.name = op.cfg.name
    BY <1>2, <2>1, EntryFollows DEF Entry
  <2> HIDE DEF e
  <2>3. Fit(live)'
    BY <1>1, <2>1
  <2>4. DiskInv'
    BY <2>1, <2>3 DEF DiskInv, Torn, HasCert
  <2>5. \A s \in Sites \ lost' :
          \/ s = op.site /\ status'[s].name = pem[s].name
          \/ s # op.site /\ s \notin lost /\ status'[s] = status[s]
    BY <1>2, <2>1, <2>2 DEF Shapes, Statuses, NameInv
  <2>6. \A s \in Sites \ lost' : Named(status[s], s)'
    BY <2>1, <2>5 DEF NameInv, Named
  <2> QED
    BY <2>1, <2>4, <2>6 DEF NameInv
<1> QED
  BY <1>4, <1>5, <1>6, <1>8, <1>9, <1>10, <1>11 DEF Issue

LEMMA ApplyDisk ==
  ASSUME Shapes, Formed, DiskInv, NameInv, Apply
  PROVE  DiskInv' /\ NameInv'
<1>1. CASE ApplyDone \/ ApplyRejected \/ ApplyFails \/ ReloadFails
  <2>1. PICK mem \in {Resolved(Base), Judged(Resolved(Base))}, err \in {FALSE, TRUE, lastError}, ok \in BOOLEAN :
          ToSave(mem, err, ok)
    BY <1>1 DEF ApplyDone, ApplyRejected, ApplyFails, ReloadFails
  <2>2. op.step = "apply" /\ UNCHANGED <<status, pem, lost>>
    BY <1>1 DEF ApplyDone, ApplyRejected, ApplyFails, ReloadFails, Applying
  <2>3. op'.step = "save" /\ op'.site = op.site /\ op'.mem.sites = mem
    BY <2>1 DEF ToSave, Shapes, Op
  <2>4. Follows(mem, status)
    BY <2>1, MemFollows
  <2>5. live' = live \/ live' = Pruned \/ live' \in HalfSwapped
    BY <1>1 DEF ApplyDone, ApplyRejected, ApplyFails, ReloadFails
  <2>6. Fit(live)'
    BY <2>2, <2>5, SwapFits, FitKept DEF DiskInv
  <2>7. DiskInv'
    BY <2>2, <2>3, <2>6 DEF DiskInv, Torn, HasCert
  <2>8. \A s \in Sites \ lost : Named(status[s], s) /\ Named(mem[s], s)
    BY <2>2, <2>4 DEF NameInv, Named, Follows
  <2>9. \A s \in Sites \ lost' : Named(status[s], s)' /\ Named(op.mem.sites[s], s)'
    BY <2>2, <2>3, <2>8 DEF Named
  <2> QED
    BY <2>3, <2>7, <2>9 DEF NameInv
<1>2. CASE SaveStatus
  <2>1. /\ op.step = "save" /\ op' = Free /\ UNCHANGED <<live, pem, lost>>
        /\ status' = op.mem.sites \/ status' = status
    BY <1>2 DEF SaveStatus, Release
  <2>2. Fit(live)'
    BY <2>1, FitKept DEF DiskInv
  <2>3. DiskInv'
    BY <2>1, <2>2, Starts DEF DiskInv, Torn, HasCert
  <2>4. \A s \in Sites \ lost : Named(status[s], s)'
    BY <2>1 DEF NameInv, Named
  <2> QED
    BY <2>1, <2>3, <2>4, Starts DEF NameInv
<1> QED
  BY <1>1, <1>2 DEF Apply

LEMMA AroundDisk ==
  ASSUME Shapes, Formed, DiskInv, NameInv,
         \/ \E s \in Sites : AppMoves(s) \/ Ages(s) \/ BackoffEnds(s)
         \/ Crash \/ NginxRestarts
  PROVE  DiskInv' /\ NameInv'
<1>1. ASSUME pem' = pem, live' = live PROVE Fit(live)'
  BY <1>1, FitKept DEF DiskInv
<1>2. ASSUME NEW s \in Sites, AppMoves(s) PROVE DiskInv' /\ NameInv'
  <2>1. UNCHANGED <<status, live, pem, lost, op>>
    BY <1>2 DEF AppMoves, files
  <2> QED
    BY <1>1, <2>1, FollowsSelf, Leaves
<1>3. ASSUME NEW s \in Sites, Ages(s) \/ BackoffEnds(s) PROVE DiskInv' /\ NameInv'
  <2>1. UNCHANGED <<live, pem, lost, op>> /\ status[s] # None
    BY <1>3 DEF Ages, BackoffEnds
  <2>2. \/ status' = [status EXCEPT ![s] = [status[s] EXCEPT !.fresh = FALSE]]
        \/ status' = [status EXCEPT ![s] = [status[s] EXCEPT !.wait = FALSE]]
    BY <1>3 DEF Ages, BackoffEnds
  <2>3. status[s] \in Entry
    BY <2>1 DEF Shapes, Statuses
  <2>4. /\ [status[s] EXCEPT !.fresh = FALSE] \in Entry /\ [status[s] EXCEPT !.wait = FALSE] \in Entry
        /\ [status[s] EXCEPT !.fresh = FALSE].name = status[s].name
        /\ [status[s] EXCEPT !.wait = FALSE].name = status[s].name
    BY <2>3, Entries
  <2>5. Follows(status', status)
    BY <2>1, <2>2, <2>4, FollowsEntry
  <2> QED
    BY <1>1, <2>1, <2>5, Leaves
<1>4. CASE Crash
  <2>1. /\ op' = Free /\ UNCHANGED <<status, pem>>
        /\ lost' = IF op.step \in {"chain", "record"} THEN lost \cup {op.site} ELSE lost
        /\ live' = live \/ live' = Pruned \/ live' \in HalfSwapped
    BY <1>4 DEF Crash
  <2>2. Fit(live)'
    BY <2>1, SwapFits, FitKept DEF DiskInv
  <2>3. DiskInv'
    BY <2>1, <2>2, Starts DEF DiskInv, Torn, HasCert
  <2>4. \A s \in Sites \ lost' : Named(status[s], s)'
    BY <2>1 DEF NameInv, Named
  <2> QED
    BY <2>1, <2>3, <2>4, Starts DEF NameInv
<1>5. CASE NginxRestarts
  <2>1. UNCHANGED <<status, live, pem, lost, op>>
    BY <1>5 DEF NginxRestarts
  <2> QED
    BY <1>1, <2>1, FollowsSelf, Leaves
<1> QED
  BY <1>2, <1>3, <1>4, <1>5

LEMMA NextDisk ==
  ASSUME Shapes, Formed, DiskInv, NameInv, [Next]_vars
  PROVE  DiskInv' /\ NameInv'
<1>1. CASE UNCHANGED vars
  <2>1. UNCHANGED <<status, live, pem, lost, op>>
    BY <1>1 DEF vars
  <2>2. Fit(live)'
    BY <2>1, FitKept DEF DiskInv
  <2> QED
    BY <2>1, <2>2, FollowsSelf, Leaves
<1> QED
  BY <1>1, CallDisk, IssueDisk, ApplyDisk, AroundDisk DEF Next

-----------------------------------------------------------------------------
IInv == Shapes /\ Counters /\ Formed /\ DiskInv /\ NameInv

LEMMA Invariant == Spec => []IInv
<1>1. Init => IInv
  BY InitDisk DEF IInv
<1>2. IInv /\ [Next]_vars => IInv'
  BY NextTypes, NextCounters, NextDisk DEF IInv, DiskInv
<1> QED
  BY <1>1, <1>2, PTL DEF Spec

(* Every variable keeps its type; a certificate order that is free always  *)
(* exists, however many sites there are.                                   *)
THEOREM TypeCorrect == Spec => []TypeOK
<1>1. IInv => TypeOK
  BY TypeParts DEF IInv
<1> QED
  BY <1>1, Invariant, PTL

(* Wherever an apply or an order is cut off, nginx can start from the      *)
(* files on disk, except for a certificate whose renewal was cut off.      *)
THEOREM DiskLoads == Spec => []DiskAlwaysLoads
<1>1. IInv => DiskAlwaysLoads
  BY DEF IInv, DiskInv, Fit, DiskAlwaysLoads
<1> QED
  BY <1>1, Invariant, PTL

(* status.json names the certificate that is on disk, whichever of two     *)
(* orders ended first, unless a write or its record failed.                *)
THEOREM RecordsMatch == Spec => []RecordMatchesDisk
<1>1. IInv => RecordMatchesDisk
  BY DEF IInv, DiskInv, NameInv, Named, RecordMatchesDisk
<1> QED
  BY <1>1, Invariant, PTL

-----------------------------------------------------------------------------
(* What status.json tells                                                  *)

(* `sites` tells what is served from the files in `set`.                   *)
Tells(sites, set) ==
  \A s \in Sites :
    /\ desired[s] # None /\ sites[s] # None /\ sites[s].state = "applied"
         => set[s] # None /\ set[s].cfg = desired[s]
    /\ set[s] # None => /\ desired[s] # None /\ sites[s] # None
                        /\ sites[s].state \in {"applied", "error"}

(* No two sites that it calls applied claim one name.                      *)
Unclashed(sites) ==
  \A s, t \in Sites :
    /\ s # t /\ None \notin {desired[s], desired[t], sites[s], sites[t]}
    /\ sites[s].state = "applied" /\ sites[t].state = "applied"
    => desired[s].name # desired[t].name

(* An apply that went through holds the truth in memory until it is saved, *)
(* and nginx, started again meanwhile, comes back with the same files.     *)
TruthInv ==
  /\ AtRest => Tells(status, nginx) /\ Unclashed(status)
  /\ op.step = "save" /\ op.mem.ok =>
       /\ Tells(op.mem.sites, nginx) /\ Unclashed(op.mem.sites)
       /\ live = nginx /\ Loads(live)

(* Of two sites that resolve, one claims its name first.                   *)
LEMMA OneBefore ==
  ASSUME Shapes, NEW s \in Sites, NEW t \in Sites, s # t, Resolves(s), Resolves(t)
  PROVE  Before(s, t) \/ Before(t, s)
<1>1. desired[s] \in Configs /\ desired[t] \in Configs
  BY DEF Resolves, Shapes
<1>2. desired[s].owner \in {"local", "platform"} /\ desired[t].owner \in {"local", "platform"}
  BY <1>1, ConfigFields
<1>3. s < t \/ t < s
  BY SiteAssumption
<1> QED
  BY <1>2, <1>3 DEF Before

LEMMA CandidatesDiffer ==
  ASSUME Shapes, NEW s \in Candidates, NEW t \in Candidates, s # t
  PROVE  desired[s].name # desired[t].name
<1>1. /\ s \in Sites /\ Resolves(s) /\ ~Clashes(s)
      /\ t \in Sites /\ Resolves(t) /\ ~Clashes(t)
  BY DEF Candidates
<1>2. Before(s, t) \/ Before(t, s)
  BY <1>1, OneBefore
<1> QED
  BY <1>1, <1>2 DEF Clashes

(* The states the two phases of an apply give.                             *)
LEMMA JudgedStates ==
  ASSUME Shapes, NEW base \in Statuses, NEW s \in Sites, desired[s] # None
  PROVE  LET new == Judged(Resolved(base)) IN
         /\ s \in Blamed => new[s] \in Entry /\ new[s].state = "error"
         /\ s \in Candidates \ Blamed => new[s] \in Entry /\ new[s].state = "applied"
         /\ s \notin Candidates => new[s].state \in {"disabled", "error"}
<1> DEFINE r == Resolved(base)
           new == Judged(r)
           from == IF base[s] = None THEN NoTls ELSE base[s]
<1>1. from \in Entry
  <2>1. NoTls \in Entry
    BY Entries
  <2>2. base[s] \in Entry \cup {None}
    BY DEF Statuses
  <2> QED
    BY <2>1, <2>2
<1>2. Blamed \subseteq Candidates /\ (s \in Candidates => r[s] \in Entry /\ port[s] \in Ports)
  <2>1. s \in Candidates => r[s] \in Entry
    BY ResolveFollows
  <2> QED
    BY <2>1 DEF Blamed, Candidates, Resolves, Shapes
<1>3. s \notin Candidates =>
        r[s] = [from EXCEPT !.state = "disabled"] \/ r[s] = [from EXCEPT !.state = "error"]
  BY DEF Resolved, Candidates
<1>4. new[s] = IF s \in Blamed THEN [r[s] EXCEPT !.state = "error"]
               ELSE IF s \in Candidates THEN [r[s] EXCEPT !.state = "applied", !.port = port[s]]
               ELSE r[s]
  BY DEF Judged
<1> HIDE DEF from, r, new
<1>5. s \in Blamed => new[s] \in Entry /\ new[s].state = "error"
  BY <1>2, <1>4 DEF Entry
<1>6. s \in Candidates \ Blamed => new[s] \in Entry /\ new[s].state = "applied"
  BY <1>2, <1>4 DEF Entry
<1>7. s \notin Candidates => new[s].state \in {"disabled", "error"}
  <2>1. /\ [from EXCEPT !.state = "disabled"].state = "disabled"
        /\ [from EXCEPT !.state = "error"].state = "error"
    BY <1>1 DEF Entry
  <2> QED
    BY <1>2, <1>3, <1>4, <2>1
<1> QED
  BY <1>5, <1>6, <1>7 DEF new, r

(* What an apply that went through tells is what nginx serves.             *)
LEMMA JudgedTells ==
  ASSUME Shapes, NEW base \in Statuses
  PROVE  LET new == Judged(Resolved(base)) IN Tells(new, Pruned) /\ Unclashed(new)
<1> DEFINE new == Judged(Resolved(base))
<1>1. Candidates \subseteq Sites /\ Blamed \subseteq Candidates
      /\ \A s \in Candidates : desired[s] # None
  BY DEF Candidates, Blamed, Resolves
<1>2. ASSUME NEW s \in Sites, desired[s] # None
      PROVE  /\ s \in Blamed => new[s] \in Entry /\ new[s].state = "error"
             /\ s \in Candidates \ Blamed => new[s] \in Entry /\ new[s].state = "applied"
             /\ s \notin Candidates => new[s].state \in {"disabled", "error"}
  BY <1>2, JudgedStates
<1> HIDE DEF new
<1>3. ASSUME NEW s \in Candidates \ Blamed PROVE Pruned[s] # None /\ Pruned[s].cfg = desired[s]
  <2>1. Pruned[s] = [cfg |-> desired[s], cert |-> UsesCert(s), port |-> port[s]]
    BY <1>1 DEF Pruned, Staged, Rendered
  <2>2. desired[s] \in Configs /\ UsesCert(s) \in BOOLEAN /\ port[s] \in Ports
    BY DEF Candidates, Resolves, Shapes, UsesCert
  <2>3. Pruned[s] \in Files
    BY <2>1, <2>2 DEF Files
  <2> QED
    BY <2>1, <2>3, NoneAssumption
<1>4. ASSUME NEW s \in Sites, Pruned[s] # None PROVE s \in Candidates
  BY <1>4 DEF Pruned
<1>5. ASSUME NEW s \in Sites, desired[s] # None, new[s].state = "applied"
      PROVE  s \in Candidates \ Blamed
  BY <1>1, <1>2, <1>5
<1>6. ASSUME NEW s \in Candidates PROVE new[s] # None /\ new[s].state \in {"applied", "error"}
  BY <1>1, <1>2, NoneAssumption
<1>7. Tells(new, Pruned)
  BY <1>1, <1>3, <1>4, <1>5, <1>6 DEF Tells
<1>8. Unclashed(new)
  BY <1>5, CandidatesDiffer DEF Unclashed
<1> QED
  BY <1>7, <1>8 DEF new

LEMMA PrunedLoads ==
  ASSUME Shapes, Fit(live), ~Unblamable
  PROVE  Loads(Pruned)
<1>1. Fit(Pruned)
  BY SwapFits
<1>2. ASSUME NEW s \in Sites, Pruned[s] # None PROVE ~(Pruned[s].cert /\ Torn(s))
  <2>1. s \in Candidates /\ Pruned[s] = Staged(s)
    BY <1>2 DEF Pruned
  <2> QED
    BY <1>2, <2>1 DEF Unblamable
<1> QED
  BY <1>1, <1>2 DEF Fit, Loads

(* A certificate's progress does not change what is served.                *)
LEMMA TellsKept ==
  ASSUME Shapes, Tells(status, nginx), Unclashed(status), UNCHANGED <<desired, nginx>>,
         NEW x \in Sites, NEW e \in Entry, e.state = EntryOf(x).state,
         status' = [status EXCEPT ![x] = e]
  PROVE  Tells(status, nginx)' /\ Unclashed(status)'
<1>1. ASSUME NEW s \in Sites, status'[s] # None
      PROVE  \/ status[s] # None /\ status'[s].state = status[s].state
             \/ status[s] = None /\ status'[s].state = "pending"
  <2>1. CASE s = x
    <3>1. status'[s] = e
      BY <2>1 DEF Shapes, Statuses
    <3> QED
      BY <2>1, <3>1 DEF EntryOf, NoTls
  <2>2. CASE s # x
    BY <1>1, <2>2 DEF Shapes, Statuses
  <2> QED
    BY <2>1, <2>2
<1>2. \A s \in Sites : status[s] # None => status'[s] # None
  BY NoneAssumption DEF Shapes, Statuses
<1>3. Tells(status, nginx)'
  BY <1>1, <1>2 DEF Tells
<1>4. Unclashed(status)'
  BY <1>1 DEF Unclashed
<1> QED
  BY <1>3, <1>4

LEMMA EntryStates ==
  ASSUME NEW e \in Entry
  PROVE  /\ \A st \in {"none", "pending_dns", "issuing", "active", "error"} :
              [e EXCEPT !.tls = st].state = e.state /\ [e EXCEPT !.tls = st] \in Entry
         /\ [e EXCEPT !.fresh = FALSE].state = e.state /\ [e EXCEPT !.fresh = FALSE] \in Entry
         /\ [e EXCEPT !.wait = FALSE].state = e.state /\ [e EXCEPT !.wait = FALSE] \in Entry
BY DEF Entry

LEMMA FreeStep == Free.step = "free"
BY DEF Free

(* Nothing is in flight that the truth depends on.                         *)
LEMMA Busy ==
  ASSUME op' # Free, op'.step # "save"
  PROVE  TruthInv'
BY DEF TruthInv, AtRest

(* Nothing changed that it depends on.                                     *)
LEMMA Aside ==
  ASSUME TruthInv, UNCHANGED <<desired, status, nginx, live, pem, op, lastError>>, unseen' = unseen
  PROVE  TruthInv'
BY DEF TruthInv, AtRest, Tells, Unclashed, Loads, Torn, HasCert

LEMMA CallTruth ==
  ASSUME TruthInv,
         \/ Reload \/ Pass
         \/ \E s \in Sites : \/ \E c \in Configs : Upsert(s, c)
                            \/ RemoveSite(s) \/ AskRenewal(s) \/ AppMoves(s)
         \/ \E incoming \in [Sites -> {c \in Configs : c.owner = "platform"} \cup {None}] :
               ReplaceSites(incoming)
  PROVE  TruthInv'
<1>1. ASSUME NEW next, Commit(next) PROVE TruthInv'
  <2>1. op'.step = "apply"
    BY <1>1 DEF Commit, Free
  <2> QED
    BY <2>1, Busy, FreeStep
<1>2. ASSUME NEW who, StartApply(who) PROVE TruthInv'
  <2>1. op'.step = "apply"
    BY <1>2 DEF StartApply, Free
  <2> QED
    BY <2>1, Busy, FreeStep
<1>3. CASE Reload
  BY <1>2, <1>3 DEF Reload
<1>4. CASE Pass
  <2>1. CASE TickApplies
    BY <1>2, <2>1 DEF TickApplies
  <2>2. CASE Tick \/ AcmeSites \/ \E s \in Sites : Consider(s)
    BY <2>2, Aside DEF Tick, AcmeSites, Consider, files
  <2> QED
    BY <1>4, <2>1, <2>2 DEF Pass
<1>5. ASSUME NEW s \in Sites, NEW c \in Configs, Upsert(s, c) PROVE TruthInv'
  BY <1>1, <1>5 DEF Upsert
<1>6. ASSUME NEW s \in Sites, RemoveSite(s) PROVE TruthInv'
  BY <1>1, <1>6 DEF RemoveSite
<1>7. ASSUME NEW s \in Sites, AskRenewal(s) \/ AppMoves(s) PROVE TruthInv'
  BY <1>7, Aside DEF AskRenewal, AppMoves, files
<1>8. ASSUME NEW incoming, ReplaceSites(incoming) PROVE TruthInv'
  BY <1>1, <1>8 DEF ReplaceSites
<1> QED
  BY <1>3, <1>4, <1>5, <1>6, <1>7, <1>8

LEMMA IssueTruth ==
  ASSUME Shapes, Formed, TruthInv, Issue
  PROVE  TruthInv'
<1>1. ASSUME NEW who \in {"pass", "renew"}, NEW t \in Task, TaskFormed(t), Mark(who, t)
      PROVE  TruthInv'
  <2>1. op = Free /\ op' = op /\ UNCHANGED <<desired, nginx, live, pem, unseen, lastError>>
        /\ t.site \in Sites
    BY <1>1 DEF Mark, TaskFormed
  <2>2. CASE status' = status
    BY <2>1, <2>2, Aside
  <2>3. CASE status' = [status EXCEPT ![t.site] = [EntryOf(t.site) EXCEPT !.tls = "issuing"]]
    <3>1. EntryOf(t.site) \in Entry
      BY <2>1, EntryTypes
    <3>2. PICK e \in Entry : /\ e.state = EntryOf(t.site).state
                             /\ status' = [status EXCEPT ![t.site] = e]
      BY <2>3, <3>1, EntryStates
    <3>3. AtRest' => Tells(status, nginx)' /\ Unclashed(status)'
      BY <2>1, <3>2, TellsKept DEF TruthInv, AtRest
    <3> QED
      BY <2>1, <3>3, FreeStep DEF TruthInv
  <2> QED
    BY <1>1, <2>2, <2>3 DEF Mark
<1>2. ASSUME NEW who, NEW t, OrderFails(who, t) \/ OrderIssued(who, t) PROVE TruthInv'
  <2>1. op'.step \in {"apply", "key"}
    BY <1>2 DEF OrderFails, OrderIssued, Ordered
  <2> QED
    BY <2>1, Busy, FreeStep
<1>3. CASE WriteFails \/ WriteKey \/ WriteChain \/ Record
  <2>1. op' = [op EXCEPT !.step = "apply"] \/ op' = [op EXCEPT !.step = "chain"]
        \/ op' = [op EXCEPT !.step = "record"]
    BY <1>3 DEF WriteFails, WriteKey, WriteChain, Record
  <2>2. op'.step \in {"apply", "chain", "record"}
    BY <2>1 DEF Shapes, Op
  <2> QED
    BY <2>2, Busy, FreeStep
<1> QED
  BY <1>1, <1>2, <1>3 DEF Issue, Shapes, Formed

LEMMA ApplyTruth ==
  ASSUME Shapes, Formed, Fit(live), TruthInv, Apply
  PROVE  TruthInv'
<1>1. ASSUME NEW mem, NEW err, NEW ok, ToSave(mem, err, ok)
      PROVE  op'.step = "save" /\ op'.mem = [sites |-> mem, err |-> err, ok |-> ok] /\ op' # Free
  <2>1. op' = [op EXCEPT !.step = "save", !.mem = [sites |-> mem, err |-> err, ok |-> ok]]
    BY <1>1 DEF ToSave
  <2>2. op'.step = "save" /\ op'.mem = [sites |-> mem, err |-> err, ok |-> ok]
    BY <2>1 DEF Shapes, Op
  <2> QED
    BY <2>2, FreeStep
<1>2. ASSUME NEW mem, NEW err, ToSave(mem, err, FALSE) PROVE TruthInv'
  <2>1. op'.mem = [sites |-> mem, err |-> err, ok |-> FALSE] /\ op' # Free
    BY <1>1, <1>2
  <2>2. op'.mem.ok = FALSE
    BY <2>1
  <2> QED
    BY <2>1, <2>2 DEF TruthInv, AtRest
<1>3. CASE ApplyDone
  <2> DEFINE new == Judged(Resolved(Base))
  <2>1. ToSave(new, FALSE, TRUE) /\ live' = Pruned /\ nginx' = Pruned /\ ~Unblamable
        /\ UNCHANGED <<desired, pem>>
    BY <1>3 DEF ApplyDone
  <2>2. Tells(new, Pruned) /\ Unclashed(new)
    BY BaseFollows, JudgedTells
  <2>3. Loads(Pruned)
    BY <2>1, PrunedLoads
  <2> HIDE DEF new
  <2>4. op'.mem.sites = new /\ op' # Free
    <3>1. op'.mem = [sites |-> new, err |-> FALSE, ok |-> TRUE] /\ op' # Free
      BY <1>1, <2>1
    <3> QED
      BY <3>1
  <2>5. Tells(op.mem.sites, nginx)' /\ Unclashed(op.mem.sites)'
    BY <2>1, <2>2, <2>4 DEF Tells, Unclashed
  <2>6. (live = nginx)' /\ Loads(live)'
    BY <2>1, <2>3 DEF Loads, Torn, HasCert
  <2> QED
    BY <2>4, <2>5, <2>6 DEF TruthInv, AtRest
<1>4. CASE ApplyRejected
  BY <1>2, <1>4 DEF ApplyRejected
<1>5. CASE ApplyFails
  BY <1>2, <1>5 DEF ApplyFails
<1>6. CASE ReloadFails
  BY <1>2, <1>6 DEF ReloadFails
<1>7. CASE SaveStatus
  <2>1. op' = Free /\ op.step = "save" /\ op.mem \in Mem /\ UNCHANGED <<desired, nginx>>
    BY <1>7 DEF SaveStatus, Release, Formed, OpFormed
  <2>2. CASE unseen'
    BY <2>1, <2>2, FreeStep DEF TruthInv, AtRest
  <2>3. CASE /\ status' = op.mem.sites /\ lastError' = op.mem.err
             /\ unseen' = IF op.mem.ok THEN FALSE ELSE unseen \/ ~op.mem.err
    <3>1. CASE op.mem.ok
      <4>1. Tells(status, nginx)' /\ Unclashed(status)'
        BY <2>1, <2>3, <3>1 DEF TruthInv, Tells, Unclashed
      <4> QED
        BY <2>1, <4>1, FreeStep DEF TruthInv
    <3>2. CASE ~op.mem.ok
      <4>1. ~AtRest'
        BY <2>3, <3>2 DEF AtRest
      <4> QED
        BY <2>1, <4>1, FreeStep DEF TruthInv
    <3> QED
      BY <3>1, <3>2
  <2> QED
    BY <1>7, <2>2, <2>3 DEF SaveStatus
<1> QED
  BY <1>3, <1>4, <1>5, <1>6, <1>7 DEF Apply

LEMMA AroundTruth ==
  ASSUME Shapes, TruthInv,
         \/ \E s \in Sites : Ages(s) \/ BackoffEnds(s)
         \/ Crash \/ NginxRestarts
  PROVE  TruthInv'
<1>1. ASSUME NEW s \in Sites, Ages(s) \/ BackoffEnds(s) PROVE TruthInv'
  <2>1. op = Free /\ op' = op /\ UNCHANGED <<desired, nginx, unseen, lastError>>
        /\ status[s] # None
    BY <1>1 DEF Ages, BackoffEnds
  <2>2. status[s] \in Entry /\ EntryOf(s) = status[s]
    BY <2>1 DEF Shapes, Statuses, EntryOf
  <2>3. \/ status' = [status EXCEPT ![s] = [status[s] EXCEPT !.fresh = FALSE]]
        \/ status' = [status EXCEPT ![s] = [status[s] EXCEPT !.wait = FALSE]]
    BY <1>1 DEF Ages, BackoffEnds
  <2>4. PICK e \in Entry : e.state = status[s].state /\ status' = [status EXCEPT ![s] = e]
    BY <2>2, <2>3, EntryStates
  <2>5. AtRest' => Tells(status, nginx)' /\ Unclashed(status)'
    BY <2>1, <2>2, <2>4, TellsKept DEF TruthInv, AtRest
  <2> QED
    BY <2>1, <2>5, FreeStep DEF TruthInv
<1>2. CASE Crash
  <2>1. op' = Free /\ UNCHANGED <<desired, status, nginx, lastError>> /\ unseen' = (unseen \/ op # Free)
    BY <1>2 DEF Crash
  <2>2. AtRest' => AtRest
    BY <2>1 DEF AtRest
  <2>3. AtRest' => Tells(status, nginx)' /\ Unclashed(status)'
    BY <2>1, <2>2 DEF TruthInv, Tells, Unclashed
  <2> QED
    BY <2>1, <2>3, FreeStep DEF TruthInv
<1>3. CASE NginxRestarts
  <2>1. /\ UNCHANGED <<desired, status, live, pem, op, lastError>>
        /\ nginx' = IF Loads(live) THEN live ELSE [s \in Sites |-> None]
        /\ unseen' = (unseen \/ nginx' # nginx)
    BY <1>3 DEF NginxRestarts
  <2>2. CASE nginx' = nginx
    <3>1. AtRest' => AtRest
      BY <2>1, <2>2 DEF AtRest
    <3>2. Tells(status, nginx)' <=> Tells(status, nginx)
      BY <2>1, <2>2 DEF Tells
    <3>3. Unclashed(status)' <=> Unclashed(status)
      BY <2>1 DEF Unclashed
    <3>4. Tells(op.mem.sites, nginx)' <=> Tells(op.mem.sites, nginx)
      BY <2>1, <2>2 DEF Tells
    <3>5. Unclashed(op.mem.sites)' <=> Unclashed(op.mem.sites)
      BY <2>1 DEF Unclashed
    <3>6. Loads(live)' <=> Loads(live)
      BY <2>1 DEF Loads, Torn, HasCert
    <3>7. CASE op.step = "save" /\ op.mem.ok
      BY <2>1, <2>2, <3>1, <3>2, <3>3, <3>4, <3>5, <3>6, <3>7 DEF TruthInv
    <3> QED
      BY <2>1, <3>1, <3>2, <3>3, <3>7 DEF TruthInv
  <2>3. CASE nginx' # nginx
    <3>1. ~AtRest'
      BY <2>1, <2>3 DEF AtRest
    <3>2. ~(op.step = "save" /\ op.mem.ok)
      BY <2>1, <2>3 DEF TruthInv
    <3> QED
      BY <2>1, <3>1, <3>2 DEF TruthInv
  <2> QED
    BY <2>2, <2>3
<1> QED
  BY <1>1, <1>2, <1>3

LEMMA Truth == Spec => []TruthInv
<1>1. Init => TruthInv
  <2> SUFFICES ASSUME Init PROVE TruthInv
    OBVIOUS
  <2>1. op.step = "free" /\ \A s \in Sites : status[s] = None /\ nginx[s] = None
    BY FreeStep DEF Init
  <2> QED
    BY <2>1 DEF TruthInv, Tells, Unclashed
<1>2. IInv /\ TruthInv /\ [Next]_vars => TruthInv'
  <2> SUFFICES ASSUME IInv, TruthInv, [Next]_vars PROVE TruthInv'
    OBVIOUS
  <2>1. Shapes /\ Formed /\ Fit(live)
    BY DEF IInv, DiskInv
  <2>2. CASE UNCHANGED vars
    BY <2>2, Aside DEF vars
  <2> QED
    BY <2>1, <2>2, CallTruth, IssueTruth, ApplyTruth, AroundTruth DEF Next
<1> QED
  BY <1>1, <1>2, Invariant, PTL DEF Spec

(* Once an apply is over, and nothing happened that it could not tell of,  *)
(* a site is called applied only when nginx serves its configuration, and  *)
(* whatever nginx serves belongs to a site that status.json knows.         *)
THEOREM StatusTrue == Spec => []StatusIsTrue
<1>1. TruthInv => StatusIsTrue
  BY DEF TruthInv, Tells, StatusIsTrue
<1> QED
  BY <1>1, Truth, PTL

(* Two sites that are both called applied never claim one name.            *)
THEOREM ClashRejected == Spec => []ClashRejectsOne
<1>1. TruthInv => ClashRejectsOne
  BY DEF TruthInv, Unclashed, ClashRejectsOne
<1> QED
  BY <1>1, Truth, PTL

-----------------------------------------------------------------------------
(* One bad site among the others                                           *)

(* What an apply leaves for a site: its file, or what it had before.  The  *)
(* live file of a refused site is good, if there is one, so it is kept.    *)
LEMMA StagedStands ==
  ASSUME Shapes, Fit(live), NEW s \in Candidates
  PROVE  Staged(s) = IF desired[s].good THEN Rendered(s) ELSE live[s]
<1>1. s \in Sites /\ desired[s] \in Configs
  BY DEF Candidates, Resolves, Shapes
<1>2. CASE desired[s].good
  BY <1>2 DEF Staged, Blamed
<1>3. CASE ~desired[s].good
  <2>1. s \in Blamed
    BY <1>3 DEF Blamed
  <2>2. CASE live[s] = None
    BY <1>3, <2>1, <2>2 DEF Staged
  <2>3. CASE live[s] # None
    <3>1. s \in KeptLive
      BY <1>1, <2>1, <2>3 DEF KeptLive, Fit
    <3> QED
      BY <1>3, <2>1, <3>1 DEF Staged
  <2> QED
    BY <2>2, <2>3
<1> QED
  BY <1>2, <1>3

(* Only an apply that nothing disturbs gets from its start to its end      *)
(* without a failure: it went through, or nginx blamed no site.            *)
LEMMA ApplyEnds ==
  ASSUME Counters, [Next]_vars, op.step = "apply", op'.step = "save", faults' = faults
  PROVE  ApplyDone \/ Unblamable
<1>1. faults' # faults + 1
  BY DEF Counters
<1>2. op # Free /\ op' # op
  BY FreeStep
<1>3. Next
  BY <1>2 DEF vars
<1>4. ~Crash /\ ~NginxRestarts /\ ~ApplyFails /\ ~ReloadFails
  BY <1>1 DEF Crash, NginxRestarts, ApplyFails, ReloadFails, Fault
<1>5. ~Issue
  BY <1>2 DEF Issue, Mark, OrderFails, OrderIssued, WriteFails, WriteKey, WriteChain, Record
<1>6. ~Pass /\ ~Reload
  BY <1>2 DEF Pass, Reload, Tick, TickApplies, AcmeSites, Consider
<1>7. ASSUME NEW s \in Sites
      PROVE  /\ \A c \in Configs : ~Upsert(s, c)
             /\ ~RemoveSite(s) /\ ~AskRenewal(s) /\ ~AppMoves(s) /\ ~Ages(s) /\ ~BackoffEnds(s)
  BY <1>2 DEF Upsert, RemoveSite, AskRenewal, AppMoves, Ages, BackoffEnds
<1>8. \A incoming : ~ReplaceSites(incoming)
  BY <1>2 DEF ReplaceSites
<1>9. Apply
  BY <1>3, <1>4, <1>5, <1>6, <1>7, <1>8 DEF Next
<1>10. ~SaveStatus
  BY DEF SaveStatus
<1>11. ApplyRejected => Unblamable
  BY <1>1 DEF ApplyRejected, Fault
<1> QED
  BY <1>4, <1>9, <1>10, <1>11 DEF Apply

(* An apply beside which nothing fails, where every certificate pair is    *)
(* whole, serves each good site as configured and each refused one as it   *)
(* was.                                                                    *)
THEOREM BadStandAlone == Spec => BadSitesStandAlone
<1> DEFINE Ends == /\ op.step = "apply" /\ op'.step = "save" /\ faults' = faults
                   /\ \A s \in Sites : ~Torn(s)
           Stands == \A s \in Candidates :
                       nginx'[s] = IF desired[s].good THEN Rendered(s) ELSE live[s]
<1>1. IInv /\ [Next]_vars => [Ends => Stands]_vars
  <2> SUFFICES ASSUME IInv, [Next]_vars, Ends PROVE Stands
    OBVIOUS
  <2>1. Shapes /\ Counters /\ Fit(live)
    BY DEF IInv, DiskInv
  <2>2. ~Unblamable
    BY DEF Unblamable, Candidates
  <2>3. nginx' = Pruned
    BY <2>1, <2>2, ApplyEnds DEF ApplyDone
  <2> SUFFICES ASSUME NEW s \in Candidates
               PROVE  nginx'[s] = IF desired[s].good THEN Rendered(s) ELSE live[s]
    OBVIOUS
  <2>4. nginx'[s] = Staged(s)
    BY <2>3 DEF Pruned, Candidates
  <2> QED
    BY <2>1, <2>4, StagedStands
<1> QED
  BY <1>1, Invariant, PTL DEF Spec, BadSitesStandAlone

=============================================================================
