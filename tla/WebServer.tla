------------------------------ MODULE WebServer ------------------------------
(***************************************************************************)
(* The node's web server (daemon/webserver/mod.rs, apply.rs): the sites    *)
(* nginx serves, the one operation that puts them into force (`apply`),    *)
(* and the certificates the daemon orders for them.                        *)
(*                                                                         *)
(* One mutex serialises every change.  What it does not cover is modelled  *)
(* step by step: the background pass and a renewal read the sites, decide  *)
(* and order a certificate without it, the daemon can die between any two  *)
(* writes, and a write, nginx -t or the reload can fail.                   *)
(*                                                                         *)
(* A site's configuration is one value: the name it claims, its TLS mode,  *)
(* whether it is disabled, who owns it, and whether nginx takes the file   *)
(* rendered from it.  Certificate files are numbered by the order that     *)
(* brought them, so a key and a chain of different orders do not fit.      *)
(***************************************************************************)
EXTENDS Naturals, FiniteSets

CONSTANTS Sites,      \* site ids; a smaller number is claimed for first
          Configs,    \* the configurations sites are given
          None,       \* no such site, file, or name
          MaxEvents,  \* edits, renewals, moves, expiries
          MaxFaults   \* failures and crashes

ConfigType == [name : {"n1", "n2"}, tls : {"none", "acme"}, off : BOOLEAN,
               owner : {"local", "platform"}, good : BOOLEAN]
Ports == {"p1", "p2"}
Gone == "gone"       \* the app behind the site is not installed

ASSUME SiteAssumption == Sites \subseteq Nat /\ IsFiniteSet(Sites)
ASSUME ConfigAssumption == Configs \subseteq ConfigType /\ None \notin ConfigType
ASSUME BoundAssumption == {MaxEvents, MaxFaults} \subseteq Nat

VARIABLES desired,   \* sites.json
          status,    \* status.json: one entry per site
          lastError, \* status.json: last_error is set
          live,      \* sites/<id>.conf under the live root
          nginx,     \* the files the running nginx has loaded
          pem,       \* acme/certs/<id>: privkey.pem and fullchain.pem
          port,      \* the host port of each site's app
          op,        \* what the holder of the mutex is doing
          pass,      \* the background pass
          renew,     \* a renewal asked for through the API
          unseen,    \* a failure status.json does not tell of (history)
          lost,      \* sites whose certificate files were written and not
                     \* recorded, or only one of the two (history)
          events, faults

files == <<desired, status, lastError, live, nginx, pem>>
vars == <<desired, status, lastError, live, nginx, pem, port, op, pass, renew,
          unseen, lost, events, faults>>

Orders == 0 .. 2 * Cardinality(Sites) + 1
Files == [cfg : Configs, cert : BOOLEAN, port : Ports]
Pems == [key : Orders, chain : Orders, name : {"n1", "n2", None}]
Entry == [state : {"pending", "applied", "error", "disabled"},
          tls : {"none", "pending_dns", "issuing", "active", "error"},
          name : {"n1", "n2", None},  \* tls.names
          fresh : BOOLEAN,            \* not_after is more than 30 days away
          wait : BOOLEAN,             \* next_attempt is still ahead
          port : Ports \cup {None}]   \* upstream_addresses
Statuses == [Sites -> Entry \cup {None}]
ASSUME NoneAssumption == None \notin Files \cup Entry

NoTls == [state |-> "pending", tls |-> "none", name |-> None, fresh |-> FALSE,
          wait |-> FALSE, port |-> None]
Free == [kind |-> "free", step |-> "free", site |-> None, cfg |-> None,
         who |-> None, mem |-> None]
Idle == [at |-> "rest", todo |-> [s \in Sites |-> None], site |-> None, cfg |-> None]

TypeOK ==
  /\ desired \in [Sites -> Configs \cup {None}]
  /\ status \in Statuses /\ lastError \in BOOLEAN
  /\ live \in [Sites -> Files \cup {None}] /\ nginx \in [Sites -> Files \cup {None}]
  /\ pem \in [Sites -> Pems] /\ port \in [Sites -> Ports \cup {Gone}]
  /\ op \in [kind : {"free", "commit", "reapply", "issue"},
             step : {"free", "key", "chain", "record", "apply", "save"},
             site : Sites \cup {None}, cfg : Configs \cup {None},
             who : {"pass", "renew", None},
             mem : {None} \cup [sites : Statuses, err : BOOLEAN, ok : BOOLEAN]]
  /\ {pass, renew} \subseteq [at : {"rest", "moved", "sites", "mark", "order", "issue"},
                              todo : [Sites -> Configs \cup {None}],
                              site : Sites \cup {None}, cfg : Configs \cup {None}]
  /\ unseen \in BOOLEAN /\ lost \in SUBSET Sites
  /\ events \in 0 .. MaxEvents /\ faults \in 0 .. MaxFaults

Init ==
  /\ desired = [s \in Sites |-> None] /\ status = [s \in Sites |-> None]
  /\ live = [s \in Sites |-> None] /\ nginx = [s \in Sites |-> None]
  /\ pem = [s \in Sites |-> [key |-> 0, chain |-> 0, name |-> None]]
  /\ port = [s \in Sites |-> "p1"]
  /\ op = Free /\ pass = Idle /\ renew = Idle
  /\ lastError = FALSE /\ unseen = FALSE /\ lost = {} /\ events = 0 /\ faults = 0

(* ------------------------------ certificates --------------------------- *)
\* acme_material: both files exist; nothing compares them.
HasCert(s) == pem[s].key > 0 /\ pem[s].chain > 0
Torn(s) == HasCert(s) /\ pem[s].key # pem[s].chain

\* fail: the next attempt is an hour or more away.
Failed(e, state) == [e EXCEPT !.tls = state, !.wait = TRUE]

\* entry(id).or_default()
EntryOf(s) == IF status[s] = None THEN NoTls ELSE status[s]

(* -------------------------------- apply -------------------------------- *)
\* Mutant: nothing decides between two sites of one owner.
BeforeByOwner(s, t) == desired[s].owner = "local" /\ desired[t].owner # "local"

\* Local sites claim their names first, then the rest in id order.
Before(s, t) == \/ desired[s].owner = "local" /\ desired[t].owner # "local"
                \/ desired[s].owner = desired[t].owner /\ s < t

Resolves(s) == desired[s] # None /\ ~desired[s].off /\ port[s] # Gone
Clashes(s) == \E t \in Sites : /\ Resolves(t) /\ Before(t, s)
                               /\ desired[t].name = desired[s].name
Candidates == {s \in Sites : Resolves(s) /\ ~Clashes(s)}

UsesCert(s) == desired[s].tls = "acme" /\ HasCert(s)
Rendered(s) == [cfg |-> desired[s], cert |-> UsesCert(s), port |-> port[s]]

\* A file nginx -t blames falls back to the live one, or is left out.
Blamed == {s \in Candidates : ~desired[s].good}
\* Mutant: a refused site is left out even if it had a working file.
KeptNone == {}

KeptLive == {s \in Blamed : live[s] # None /\ live[s].cfg.good}
\* Mutant: a refused site without a live file stays in.
StagedAnyhow(s) == IF s \in KeptLive THEN live[s] ELSE Rendered(s)

Staged(s) == IF s \notin Blamed THEN Rendered(s)
             ELSE IF s \in KeptLive THEN live[s] ELSE None
\* An ACME certificate lies outside the staging directory: nobody is blamed.
Unblamable == \E s \in Candidates : Staged(s) # None /\ Staged(s).cert /\ Torn(s)

\* The statuses of the first phase, written into memory whatever follows.
Resolved(base) ==
  [s \in Sites |->
     LET e == IF base[s] = None THEN NoTls ELSE base[s] IN
     IF desired[s] = None THEN base[s]
     ELSE IF desired[s].off THEN [e EXCEPT !.state = "disabled"]
     ELSE IF s \notin Candidates THEN [e EXCEPT !.state = "error"]
     ELSE IF desired[s].tls = "none" THEN [NoTls EXCEPT !.state = e.state, !.port = e.port]
     ELSE IF ~HasCert(s) /\ e.tls = "none" THEN [e EXCEPT !.tls = "pending_dns"]
     ELSE e]

\* Mutant: a site that kept its previous file is reported as applied.
JudgedKept(base) ==
  [s \in Sites |->
     IF s \in Blamed \ KeptLive THEN [base[s] EXCEPT !.state = "error"]
     ELSE IF s \in Candidates THEN [base[s] EXCEPT !.state = "applied", !.port = port[s]]
     ELSE base[s]]

Judged(base) ==
  [s \in Sites |->
     IF s \in Blamed THEN [base[s] EXCEPT !.state = "error"]
     ELSE IF s \in Candidates THEN [base[s] EXCEPT !.state = "applied", !.port = port[s]]
     ELSE base[s]]

\* commit_sites drops the entries of sites that are gone; reapply does not.
Base == IF op.kind = "commit"
        THEN [s \in Sites |-> IF desired[s] = None THEN None ELSE status[s]]
        ELSE status

\* What the files are once the swap has come as far as the sites in `done`.
Swapped(done) == [s \in Sites |-> IF s \in done /\ s \in Candidates \ KeptLive
                                     /\ Staged(s) # None
                                  THEN Staged(s) ELSE live[s]]
HalfSwapped == {Swapped({t \in Candidates : Before(t, s) \/ t = s}) : s \in Candidates}
Pruned == [s \in Sites |-> IF s \in Candidates THEN Staged(s) ELSE None]

ToSave(mem, err, ok) ==
  op' = [op EXCEPT !.step = "save", !.mem = [sites |-> mem, err |-> err, ok |-> ok]]

Fault == faults < MaxFaults /\ faults' = faults + 1

Applying == op.step = "apply"

ApplyDone ==
  /\ Applying /\ ~Unblamable
  /\ live' = Pruned /\ nginx' = Pruned
  /\ ToSave(Judged(Resolved(Base)), FALSE, TRUE)
  /\ UNCHANGED <<desired, status, lastError, pem, port, pass, renew, unseen, lost,
                 events, faults>>

\* nginx rejected the configuration and no site can be blamed: either a
\* certificate pair that does not fit, or something outside the sites.
ApplyRejected ==
  /\ Applying
  /\ \/ Unblamable /\ UNCHANGED faults
     \/ Fault
  /\ ToSave(Resolved(Base), TRUE, FALSE)
  /\ UNCHANGED <<desired, status, lastError, live, nginx, pem, port, pass, renew,
                 unseen, lost, events>>

\* Docker, nginx itself or the staging directory is out of reach, or a live
\* file cannot be written: an error for the caller, none in status.json.
ApplyFails ==
  /\ Applying /\ Fault
  /\ \/ UNCHANGED live
     \/ ~Unblamable /\ live' \in HalfSwapped
  /\ ToSave(Resolved(Base), lastError, FALSE)
  /\ UNCHANGED <<desired, status, lastError, nginx, pem, port, pass, renew, unseen,
                 lost, events>>

ReloadFails ==
  /\ Applying /\ ~Unblamable /\ Fault
  /\ live' = Pruned
  /\ ToSave(Resolved(Base), TRUE, FALSE)
  /\ UNCHANGED <<desired, status, lastError, nginx, pem, port, pass, renew, unseen,
                 lost, events>>

\* What the background pass does after a site, and after a re-apply.
Onward(todo) == IF todo = Idle.todo THEN Idle ELSE [Idle EXCEPT !.at = "sites", !.todo = todo]

Release ==
  /\ op' = Free
  /\ pass' = IF op.who # "pass" THEN pass
             ELSE IF op.kind = "reapply" THEN [pass EXCEPT !.at = "sites"]
             ELSE Onward(pass.todo)
  /\ renew' = IF op.who = "renew" THEN Idle ELSE renew

SaveStatus ==
  /\ op.step = "save"
  /\ \/ /\ status' = op.mem.sites /\ lastError' = op.mem.err
        /\ unseen' = IF op.mem.ok THEN FALSE ELSE unseen \/ ~op.mem.err
        /\ UNCHANGED faults
     \/ /\ Fault /\ unseen' = TRUE /\ UNCHANGED <<status, lastError>>
  /\ Release
  /\ UNCHANGED <<desired, live, nginx, pem, port, lost, events>>

(* ------------------------------ the API -------------------------------- *)
Event == events < MaxEvents /\ events' = events + 1

Commit(next) ==
  /\ desired' = next
  /\ op' = [Free EXCEPT !.kind = "commit", !.step = "apply"]
  /\ UNCHANGED <<status, lastError, live, nginx, pem, port, pass, renew, unseen,
                 lost, faults>>

Upsert(s, c) ==
  /\ op = Free /\ Event
  /\ desired[s] # None => desired[s].owner = c.owner
  /\ Commit([desired EXCEPT ![s] = c])

RemoveSite(s) ==
  /\ op = Free /\ Event /\ desired[s] # None
  /\ Commit([desired EXCEPT ![s] = None])

\* replace_sites: the platform sends all of its sites at once.
ReplaceSites(incoming) ==
  /\ op = Free /\ Event
  /\ \A s \in Sites : incoming[s] # None /\ desired[s] # None
                        => desired[s].owner = "platform"
  /\ Commit([s \in Sites |-> IF desired[s] # None /\ desired[s].owner # "platform"
                             THEN desired[s] ELSE incoming[s]])

StartApply(who) == op' = [Free EXCEPT !.kind = "reapply", !.step = "apply", !.who = who]

Reload ==
  /\ op = Free /\ Event /\ StartApply(None)
  /\ UNCHANGED <<files, port, pass, renew, unseen, lost, faults>>

AskRenewal(s) ==
  /\ renew.at = "rest" /\ Event
  /\ desired[s] # None /\ desired[s].tls = "acme"
  /\ renew' = [Idle EXCEPT !.at = "mark", !.site = s, !.cfg = desired[s]]
  /\ UNCHANGED <<files, port, op, pass, unseen, lost, faults>>

(* -------------------------- the background pass ------------------------ *)
\* Mutant: only sites that were never applied count as moved.
MovedNew == \E s \in Sites : Resolves(s) /\ status[s] = None

Moved == \E s \in Sites : /\ Resolves(s)
                          /\ status[s] = None \/ status[s].port # port[s]

Tick ==
  /\ pass.at = "rest"
  /\ pass' = [pass EXCEPT !.at = IF Moved THEN "moved" ELSE "sites"]
  /\ UNCHANGED <<files, port, op, renew, unseen, lost, events, faults>>

TickApplies ==
  /\ pass.at = "moved" /\ op = Free /\ StartApply("pass")
  /\ UNCHANGED <<files, port, pass, renew, unseen, lost, events, faults>>

AcmeSites ==
  /\ pass.at = "sites" /\ pass.todo = Idle.todo
  /\ LET todo == [s \in Sites |->
                    IF desired[s] # None /\ ~desired[s].off /\ desired[s].tls = "acme"
                    THEN desired[s] ELSE None]
     IN  pass' = IF todo = Idle.todo THEN Idle ELSE [pass EXCEPT !.todo = todo]
  /\ UNCHANGED <<files, port, op, renew, unseen, lost, events, faults>>

\* One site of acme_pass, judged by the site as the pass first read it.
Due(s, c) ==
  LET e == EntryOf(s) IN
    /\ e.state = "applied" /\ ~e.wait
    /\ ~HasCert(s) \/ e.name # c.name \/ ~e.fresh

Consider(s) ==
  /\ pass.at = "sites" /\ pass.todo[s] # None
  /\ LET rest == [pass.todo EXCEPT ![s] = None] IN
       pass' = IF Due(s, pass.todo[s])
               THEN [at |-> "mark", todo |-> rest, site |-> s, cfg |-> pass.todo[s]]
               ELSE Onward(rest)
  /\ UNCHANGED <<files, port, op, renew, unseen, lost, events, faults>>

(* ------------------------------- issue --------------------------------- *)
\* The first lock: the status says that an order is under way.
Mark(who, t) ==
  /\ op = Free /\ t.at = "mark"
  /\ \/ /\ status' = [status EXCEPT ![t.site] = [EntryOf(t.site) EXCEPT !.tls = "issuing"]]
        /\ UNCHANGED faults
     \/ Fault /\ UNCHANGED status
  /\ IF who = "pass" THEN pass' = [t EXCEPT !.at = "order"] /\ UNCHANGED renew
                     ELSE renew' = [t EXCEPT !.at = "order"] /\ UNCHANGED pass
  /\ UNCHANGED <<desired, lastError, live, nginx, pem, port, op, unseen, lost, events>>

\* The order is over: the second lock is taken for what follows.
Ordered(who, t, step) ==
  /\ op' = [kind |-> "issue", step |-> step, site |-> t.site, cfg |-> t.cfg,
            who |-> who, mem |-> None]
  /\ IF who = "pass" THEN pass' = [t EXCEPT !.at = "issue"] /\ UNCHANGED renew
                     ELSE renew' = [t EXCEPT !.at = "issue"] /\ UNCHANGED pass

OrderFails(who, t) ==
  /\ op = Free /\ t.at = "order" /\ Fault
  /\ \E state \in {"pending_dns", "error"} :
       status' = [status EXCEPT ![t.site] = Failed(EntryOf(t.site), state)]
  /\ Ordered(who, t, "apply")
  /\ UNCHANGED <<desired, lastError, live, nginx, pem, port, unseen, lost, events>>

OrderIssued(who, t) ==
  /\ op = Free /\ t.at = "order"
  /\ Ordered(who, t, "key")
  /\ UNCHANGED <<files, port, unseen, lost, events, faults>>

WriteFails ==
  /\ op.step \in {"key", "chain"} /\ Fault
  /\ status' = [status EXCEPT ![op.site] = Failed(EntryOf(op.site), "error")]
  /\ lost' = IF op.step = "chain" THEN lost \cup {op.site} ELSE lost
  /\ op' = [op EXCEPT !.step = "apply"]
  /\ UNCHANGED <<desired, lastError, live, nginx, pem, port, pass, renew, unseen,
                 events>>

\* Orders are numbered anew for each pair; a number no file bears is free.
NewOrder == CHOOSE n \in Orders \ {0} : \A s \in Sites : n \notin {pem[s].key, pem[s].chain}

WriteKey ==
  /\ op.step = "key"
  /\ pem' = [pem EXCEPT ![op.site].key = NewOrder]
  /\ op' = [op EXCEPT !.step = "chain"]
  /\ UNCHANGED <<desired, status, lastError, live, nginx, port, pass, renew, unseen,
                 lost, events, faults>>

WriteChain ==
  /\ op.step = "chain"
  /\ pem' = [pem EXCEPT ![op.site].chain = pem[op.site].key, ![op.site].name = op.cfg.name]
  /\ op' = [op EXCEPT !.step = "record"]
  /\ UNCHANGED <<desired, status, lastError, live, nginx, port, pass, renew, unseen,
                 lost, events, faults>>

\* Mutant: the status names the site as it is by now.
RecordCurrent ==
  /\ op.step = "record" /\ op' = [op EXCEPT !.step = "apply"]
  /\ status' = [status EXCEPT ![op.site] =
        [EntryOf(op.site) EXCEPT !.tls = "active", !.fresh = TRUE, !.wait = FALSE,
           !.name = IF desired[op.site] = None THEN None ELSE desired[op.site].name]]
  /\ lost' = lost \ {op.site}
  /\ UNCHANGED <<desired, lastError, live, nginx, pem, port, pass, renew, unseen, events,
                 faults>>

\* The status names what was ordered, which the site may no longer ask for.
Record ==
  /\ op.step = "record"
  /\ \/ /\ status' = [status EXCEPT ![op.site] =
                        [EntryOf(op.site) EXCEPT !.tls = "active", !.name = op.cfg.name,
                                                 !.fresh = TRUE, !.wait = FALSE]]
        /\ lost' = lost \ {op.site} /\ UNCHANGED faults
     \/ Fault /\ lost' = lost \cup {op.site} /\ UNCHANGED status
  /\ op' = [op EXCEPT !.step = "apply"]
  /\ UNCHANGED <<desired, lastError, live, nginx, pem, port, pass, renew, unseen, events>>

(* ---------------------------- surroundings ----------------------------- *)
\* The app behind a site is recreated on another port, removed, or is back.
AppMoves(s) ==
  /\ Event /\ \E p \in Ports \cup {Gone} : p # port[s] /\ port' = [port EXCEPT ![s] = p]
  /\ UNCHANGED <<files, op, pass, renew, unseen, lost, faults>>

\* Time passes: a certificate comes near its end, a backoff runs out.
Ages(s) ==
  /\ op = Free /\ status[s] # None /\ status[s].fresh /\ Event
  /\ status' = [status EXCEPT ![s].fresh = FALSE]
  /\ UNCHANGED <<desired, lastError, live, nginx, pem, port, op, pass, renew, unseen,
                 lost, faults>>

BackoffEnds(s) ==
  /\ op = Free /\ status[s] # None /\ status[s].wait
  /\ status' = [status EXCEPT ![s].wait = FALSE]
  /\ UNCHANGED <<desired, lastError, live, nginx, pem, port, op, pass, renew, unseen,
                 lost, events, faults>>

\* The daemon dies, anywhere in the swap if it was applying.
Crash ==
  /\ Fault
  /\ op' = Free /\ pass' = Idle /\ renew' = Idle
  /\ \/ UNCHANGED live
     \/ Applying /\ ~Unblamable /\ live' \in HalfSwapped \cup {Pruned}
  /\ unseen' = (unseen \/ op # Free)
  /\ lost' = IF op.step \in {"chain", "record"} THEN lost \cup {op.site} ELSE lost
  /\ UNCHANGED <<desired, status, lastError, nginx, pem, port, events>>

\* nginx takes a set of files as a whole, or does not start.
Loads(set) == \A s \in Sites : set[s] # None =>
                 set[s].cfg.good /\ ~(set[s].cert /\ Torn(s))

NginxRestarts ==
  /\ Fault
  /\ nginx' = IF Loads(live) THEN live ELSE [s \in Sites |-> None]
  /\ unseen' = (unseen \/ nginx' # nginx)
  /\ UNCHANGED <<desired, status, lastError, live, pem, port, op, pass, renew, lost,
                 events>>

Apply == ApplyDone \/ ApplyRejected \/ ApplyFails \/ ReloadFails \/ SaveStatus
Issue == \/ Mark("pass", pass) \/ Mark("renew", renew)
         \/ OrderFails("pass", pass) \/ OrderFails("renew", renew)
         \/ OrderIssued("pass", pass) \/ OrderIssued("renew", renew)
         \/ WriteFails \/ WriteKey \/ WriteChain \/ Record
Pass == Tick \/ TickApplies \/ AcmeSites \/ \E s \in Sites : Consider(s)

Next ==
  \/ \E s \in Sites : \/ \E c \in Configs : Upsert(s, c)
                      \/ RemoveSite(s) \/ AskRenewal(s)
                      \/ AppMoves(s) \/ Ages(s) \/ BackoffEnds(s)
  \/ \E incoming \in [Sites -> {c \in Configs : c.owner = "platform"} \cup {None}] :
       ReplaceSites(incoming)
  \/ Reload \/ Pass \/ Issue \/ Apply \/ Crash \/ NginxRestarts

\* The pass runs every ten minutes, calls run to their end, time passes.
Spec == /\ Init /\ [][Next]_vars
        /\ WF_vars(Pass) /\ WF_vars(Issue \/ Apply)
        /\ WF_vars(\E s \in Sites : BackoffEnds(s))

(* ------------------------------ properties ----------------------------- *)
AtRest == op = Free /\ ~unseen /\ ~lastError

\* status.json tells what nginx serves, once an apply is over and nothing it
\* could not tell of happened: `applied` means this configuration is loaded,
\* whatever is loaded belongs to a site, and a site in error serves nothing
\* or its previous configuration (commit_sites, apply_locked).
StatusIsTrue ==
  AtRest => \A s \in Sites :
    /\ desired[s] # None /\ status[s] # None /\ status[s].state = "applied"
         => nginx[s] # None /\ nginx[s].cfg = desired[s]
    /\ nginx[s] # None => /\ desired[s] # None /\ status[s] # None
                          /\ status[s].state \in {"applied", "error"}

\* Two sites that are both reported as served never claim one name, whichever
\* was there first and whatever order they were edited in (apply_locked).
ClashRejectsOne ==
  AtRest => \A s, t \in Sites :
    /\ s # t /\ None \notin {desired[s], desired[t], status[s], status[t]}
    /\ status[s].state = "applied" /\ status[t].state = "applied"
    => desired[s].name # desired[t].name

\* However an apply ends, and wherever it is cut off, nginx can start from
\* the files on disk: every one of them passed nginx -t, and the only
\* certificate that may not fit is one whose renewal was cut off.
DiskAlwaysLoads ==
  \A s \in Sites : live[s] # None =>
    /\ live[s].cfg.good
    /\ live[s].cert => /\ HasCert(s)
                       /\ Torn(s) => s \in lost \/ op.site = s

\* The certificate on disk is the one status.json names, whichever of two
\* orders ended first and whatever became of the site meanwhile (issue).
RecordMatchesDisk ==
  \A s \in Sites \ lost : op.site # s \/ op.step \notin {"chain", "record"} =>
    /\ ~Torn(s)
    /\ status[s] # None /\ status[s].name # None => pem[s].name = status[s].name

\* "One bad site must not take the others down": an apply beside which
\* nothing fails goes through (apply.rs, head comment).
OneBadSite ==
  [][op.step = "apply" /\ op'.step = "save" /\ faults' = faults => op'.mem.ok]_vars

\* The same where every certificate pair is whole, and what it comes to: each
\* good site is served as configured, each bad one as it was.
BadSitesStandAlone ==
  [][(/\ op.step = "apply" /\ op'.step = "save" /\ faults' = faults
      /\ \A s \in Sites : ~Torn(s))
     => \A s \in Candidates :
          nginx'[s] = IF desired[s].good THEN Rendered(s) ELSE live[s]]_vars

\* Where nothing fails and no app goes away, every site that can be served
\* is in the end, with a certificate for its name where it asks for one.
Served(s) == /\ nginx[s] # None /\ nginx[s].cfg = desired[s] /\ nginx[s].port = port[s]
             /\ desired[s].tls = "acme" => /\ nginx[s].cert /\ ~Torn(s)
                                           /\ pem[s].name = desired[s].name
SitesArrive ==
  [](faults = 0 /\ \A s \in Sites : port[s] # Gone) =>
    <>[](\A s \in Candidates : desired[s].good => Served(s))
=============================================================================
