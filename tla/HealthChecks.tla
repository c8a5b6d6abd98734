---------------------------- MODULE HealthChecks ----------------------------
(***************************************************************************)
(* Active health checks of a site's servers (src/src/daemon/webserver/     *)
(* health.rs, and the loop in mod.rs): a registry in memory, probes that   *)
(* report to it, and re-applies that carry what it says into nginx, where  *)
(* it stays.  Requests apply the same site beside the loop, under a lock.  *)
(*                                                                         *)
(* Servers of one site share their check, so they are due together.        *)
(***************************************************************************)
EXTENDS Naturals, FiniteSets

CONSTANTS
  Servers,      \* addresses a site may have
  Fails,        \* failures in a row that take a server out
  Passes,       \* passes in a row that bring it back
  ApplyFails,   \* a re-apply may fail
  MaxMoves,     \* bound: servers that die or come back
  MaxRequests,  \* bound: edits of the site, and applies of other requests
  MaxRestarts,  \* bound: restarts of the daemon
  MaxEvents     \* bound: both together

HealthAssumption ==
  /\ {Fails, Passes} \subseteq Nat \ {0} /\ ApplyFails \in BOOLEAN
  /\ {MaxMoves, MaxRequests, MaxRestarts, MaxEvents} \subseteq Nat

VARIABLES
  alive,     \* servers that answer
  site,      \* the site: its servers and its check
  registry,  \* by server: its entry
  out,       \* servers marked `down` in nginx
  loop,      \* where the loop stands
  applying,  \* who holds the lock, the servers and the mask it resolved
  forgot,    \* what nginx was told rests on entries that are gone
  limits     \* bounds: moves, requests and restarts so far

healthVars == <<alive, site, registry, out, loop, applying, forgot, limits>>

(* Two checks a site may have; 0 is none.                                  *)
Kinds == {1, 2}
Entry == [known : BOOLEAN, checked : BOOLEAN, healthy : BOOLEAN,
          fails : 0..Fails, passes : 0..Passes, check : Kinds]
NoEntry == [known |-> FALSE, checked |-> FALSE, healthy |-> TRUE,
            fails |-> 0, passes |-> 0, check |-> 1]
Loop == [at : {"scan", "probe", "decide", "apply"}, probing : SUBSET Servers,
         flipped : BOOLEAN, pending : BOOLEAN]
FreshLoop == [at |-> "scan", probing |-> {}, flipped |-> FALSE, pending |-> FALSE]
Nobody == [who |-> "nobody", servers |-> {}, down |-> {}]

HealthTypeOK ==
  /\ alive \subseteq Servers /\ out \subseteq Servers
  /\ site \in [servers : SUBSET Servers, check : Kinds \cup {0}]
  /\ registry \in [Servers -> Entry] /\ loop \in Loop
  /\ applying \in [who : {"nobody", "request", "loop"}, servers : SUBSET Servers,
                   down : SUBSET Servers]
  /\ forgot \in BOOLEAN
  /\ limits \in [moves : 0..MaxMoves, requests : 0..MaxRequests, restarts : 0..MaxRestarts]

HealthInit ==
  /\ alive = Servers /\ out = {}
  /\ site = [servers |-> Servers, check |-> 1]
  /\ registry = [s \in Servers |-> NoEntry]
  /\ loop = FreshLoop /\ applying = Nobody /\ forgot = FALSE
  /\ limits = [moves |-> 0, requests |-> 0, restarts |-> 0]

-----------------------------------------------------------------------------
(* The registry                                                            *)

IsDown(s) == registry[s].checked /\ ~registry[s].healthy

(* "When every server of a site is failing, none is marked down."          *)
Mask(servers, down) == IF servers \subseteq down THEN {} ELSE servers \cap down
Down(servers) == {s \in servers : IsDown(s)}
Resolved(who, servers) == [who |-> who, servers |-> servers, down |-> Down(servers)]
Rendered == Mask(applying.servers, applying.down)

(* A site without a check has nothing to probe.                            *)
Probed == IF site.check = 0 THEN {} ELSE site.servers

(* retain and due: entries nobody probes go, new ones start healthy, and   *)
(* a changed check restarts the counters.                                  *)
Due ==
  [s \in Servers |->
    IF s \notin Probed THEN NoEntry
    ELSE IF ~registry[s].known THEN [NoEntry EXCEPT !.known = TRUE, !.check = site.check]
    ELSE IF registry[s].check # site.check
      THEN [registry[s] EXCEPT !.check = site.check, !.fails = 0, !.passes = 0]
    ELSE registry[s]]

(* Counters stop at what the check asks for.                               *)
UpTo(bound, n) == IF n < bound THEN n ELSE bound
Passed(e) ==
  [e EXCEPT !.fails = 0, !.passes = UpTo(Passes, @ + 1), !.checked = TRUE,
            !.healthy = @ \/ ~e.checked \/ e.passes + 1 >= Passes]
Failed(e) ==
  [e EXCEPT !.passes = 0, !.fails = UpTo(Fails, @ + 1), !.checked = TRUE,
            !.healthy = @ /\ e.fails + 1 < Fails]
Recorded(s) == IF s \in alive THEN Passed(registry[s]) ELSE Failed(registry[s])

-----------------------------------------------------------------------------
(* The loop                                                                *)

Scan ==
  /\ loop.at = "scan"
  /\ registry' = Due
  /\ loop' = [loop EXCEPT !.at = "probe", !.probing = Probed]
  /\ UNCHANGED <<alive, site, out, applying, forgot, limits>>

(* Probes run side by side and report in any order.                        *)
ProbeReports(s) ==
  /\ loop.at = "probe" /\ s \in loop.probing
  /\ registry' = [registry EXCEPT ![s] = Recorded(s)]
  /\ loop' = [loop EXCEPT !.probing = @ \ {s},
                          !.flipped = @ \/ (IsDown(s) # (~Recorded(s).healthy))]
  /\ UNCHANGED <<alive, site, out, applying, forgot, limits>>

(* Mutant: a round without a flip forgets the one before.                  *)
OnlyThisRound == loop.flipped
StillPending == loop.pending \/ loop.flipped
Join ==
  /\ loop.at = "probe" /\ loop.probing = {}
  /\ loop' = [loop EXCEPT !.at = "decide", !.pending = StillPending, !.flipped = FALSE]
  /\ UNCHANGED <<alive, site, registry, out, applying, forgot, limits>>

(* Three seconds have to be between two re-applies.                        *)
TooSoon ==
  /\ loop.at = "decide"
  /\ loop' = [loop EXCEPT !.at = "scan"]
  /\ UNCHANGED <<alive, site, registry, out, applying, forgot, limits>>
Ripe ==
  /\ loop.at = "decide" /\ loop.pending
  /\ loop' = [loop EXCEPT !.at = "apply", !.pending = FALSE]
  /\ UNCHANGED <<alive, site, registry, out, applying, forgot, limits>>

LoopResolves ==
  /\ loop.at = "apply" /\ applying = Nobody
  /\ applying' = Resolved("loop", site.servers)
  /\ UNCHANGED <<alive, site, registry, out, loop, forgot, limits>>
LoopApplies ==
  /\ applying.who = "loop"
  /\ \/ out' = Rendered /\ forgot' = FALSE
     \/ ApplyFails /\ UNCHANGED <<out, forgot>>
  /\ applying' = Nobody
  /\ loop' = [loop EXCEPT !.at = "scan"]
  /\ UNCHANGED <<alive, site, registry, limits>>

-----------------------------------------------------------------------------
EventsLeft == limits.requests + limits.restarts < MaxEvents

(* Requests: other servers, another check, or anything that re-applies.    *)
(* The check is saved first, the addresses when they are applied: until    *)
(* then a scan drops the entries of servers the request adds again.        *)
Gone == \E s \in applying.down : ~registry[s].known

RequestResolves ==
  /\ applying = Nobody /\ limits.requests < MaxRequests /\ EventsLeft
  /\ limits' = [limits EXCEPT !.requests = @ + 1]
  /\ \E check \in Kinds \cup {0} : site' = [site EXCEPT !.check = check]
  /\ \E servers \in SUBSET Servers \ {{}} : applying' = Resolved("request", servers)
  /\ UNCHANGED <<alive, registry, out, loop, forgot>>
RequestApplies ==
  /\ applying.who = "request"
  /\ out' = Rendered /\ forgot' = Gone
  /\ site' = [site EXCEPT !.servers = applying.servers]
  /\ applying' = Nobody
  /\ UNCHANGED <<alive, registry, loop, limits>>

(* The world                                                               *)
Move(s) ==
  /\ limits.moves < MaxMoves
  /\ limits' = [limits EXCEPT !.moves = @ + 1]
  /\ alive' = IF s \in alive THEN alive \ {s} ELSE alive \cup {s}
  /\ UNCHANGED <<site, registry, out, loop, applying, forgot>>

(* The registry lives in memory, nginx's configuration on disk.            *)
Restart ==
  /\ limits.restarts < MaxRestarts /\ EventsLeft
  /\ limits' = [limits EXCEPT !.restarts = @ + 1]
  /\ registry' = [s \in Servers |-> NoEntry]
  /\ loop' = FreshLoop /\ applying' = Nobody
  /\ forgot' = (out # {})
  /\ UNCHANGED <<alive, site, out>>

LoopMoves == \/ Scan \/ Join \/ Ripe \/ LoopResolves \/ LoopApplies
             \/ \E s \in Servers : ProbeReports(s)
HealthNext ==
  \/ LoopMoves \/ TooSoon \/ RequestResolves \/ RequestApplies \/ Restart
  \/ \E s \in Servers : Move(s)

HealthSpec == HealthInit /\ [][HealthNext]_healthVars

(* The loop runs on; a wish to re-apply is ripe again and again.           *)
HealthFairness ==
  /\ WF_healthVars(LoopMoves \/ TooSoon) /\ SF_healthVars(Ripe)
  /\ WF_healthVars(RequestApplies)
HealthFairSpec == HealthSpec /\ HealthFairness

-----------------------------------------------------------------------------
(* Properties                                                              *)

(* "A server taken out of rotation keeps being probed and comes back on    *)
(* its own", "the first probes settle it": when servers stop dying and     *)
(* coming back, nginx leaves out exactly those that do not answer, and     *)
(* none if none does.                                                      *)
InRotation == out = Mask(site.servers, Servers \ alive)
ComesBack == <>[]InRotation

LoopOwes == loop.flipped \/ loop.pending \/ loop.at = "apply"
OutAsProbed == out = Mask(site.servers, Down(site.servers))

(* No flip is lost: unless entries are gone that nginx was told of, what   *)
(* it leaves out is what the registry says, or an apply is on its way.     *)
NoFlipIsLost ==
  ApplyFails \/ forgot \/ site.check = 0 \/ applying # Nobody \/ LoopOwes \/ OutAsProbed

(* The same as ComesBack as long as the site has a check and no entry is   *)
(* gone that nginx was told of.                                            *)
RotationSettles == <>[](forgot \/ site.check = 0 \/ InRotation)
=============================================================================
