---------------------------- MODULE Credentials ----------------------------
(***************************************************************************)
(* The credentials for private repositories and registries (pkg/auth.rs):  *)
(* one auth.json for the system and one for a user, the private keys that  *)
(* entries name, and the calls of the API and the command line that edit   *)
(* them, each by reading the whole file and writing the whole file, with   *)
(* no lock.                                                                *)
(***************************************************************************)
EXTENDS Integers, Sequences

CONSTANTS
  Askers,     \* calls of the API and commands, numbered
  Apps,       \* what an app answers to: its id, its uuid
  MaxAsks,
  MaxAskFails    \* failing writes and calls cut off

CredentialsAssumption ==
  Askers \subseteq Nat /\ "any" \notin Apps /\ {MaxAsks, MaxAskFails} \subseteq Nat

VARIABLES
  authfile,  \* auth.json, by scope
  legacy,    \* the file of an older version, by scope
  keyfile,   \* the key files this program owns: the call that wrote each, by scope and slot
  home,      \* the user's own key is there
  asker,     \* what each call is doing
  asked,     \* history: what the completed calls asked for
  doubt,     \* history: slots whose calls failed, were cut off or overlapped
  spent
credentialsVars == <<authfile, legacy, keyfile, home, asker, asked, doubt, spent>>

-----------------------------------------------------------------------------
Scopes == {"system", "user"}

(* An entry is identified by its type, its pattern and the app it is bound *)
(* to.  Entries of one type (repo, registry) do not touch the other: one   *)
(* type stands for both.  A pattern is the length of the prefix it         *)
(* matches: a host, an organisation of that host.                          *)
Patterns == 1..2
Slots == [pattern : Patterns, app : Apps \union {"any"}]

(* own: a key file whose name is derived from the slot; home: a key of the *)
(* user's.                                                                 *)
Entry == [slot : Slots, method : {"token", "own", "home"}, secret : Nat,
          managed : BOOLEAN]
Nothing == [method |-> "none", n |-> 0]

(* Secrets are numbered by the calls that brought them, from Former on.    *)
Former == 1
Missing == 0
Torn == Former + MaxAsks + 1

AskPlaces == {"idle", "key", "clean", "open", "fill"}
NoAsk == [at |-> "idle", scope |-> "user", adds |-> <<>>, slots |-> {}, n |-> 0, list |-> <<>>,
         mixed |-> FALSE]

(* load_paths: the older file counts while there is no auth.json.          *)
Load(scope) == IF authfile[scope].state = "absent" THEN legacy[scope] ELSE authfile[scope].list
In(list, slot) == {i \in DOMAIN list : list[i].slot = slot}

CredentialsTypeOK ==
  /\ \A scope \in Scopes :
       /\ authfile[scope].state \in {"absent", "whole", "torn"}
       /\ \A i \in DOMAIN authfile[scope].list : authfile[scope].list[i] \in Entry
       /\ keyfile[scope] \in [Slots -> 0..Torn]
       /\ doubt[scope] \subseteq Slots
  /\ home \in BOOLEAN
  /\ \A a \in Askers : asker[a].at \in AskPlaces /\ asker[a].scope \in Scopes
  /\ spent \in [calls : 0..MaxAsks, fails : 0..MaxAskFails]

(* The file of an older version had no bindings.  The system may also hold *)
(* a key the platform pushed.                                              *)
Host == [pattern |-> 1, app |-> "any"]
Old(method) == [slot |-> Host, method |-> method, managed |-> FALSE,
                secret |-> IF method = "token" THEN Former ELSE 0]
Pushed == [slot |-> Host, method |-> "own", managed |-> TRUE, secret |-> 0]

CredentialsInit ==
  /\ legacy \in [system : {<<>>, <<Old("token")>>}, user : {<<>>, <<Old("home")>>}]
  /\ \/ authfile = [scope \in Scopes |-> [state |-> "absent", list |-> <<>>]]
     \/ authfile = [system |-> [state |-> "whole", list |-> <<Pushed>>],
                 user |-> [state |-> "absent", list |-> <<>>]]
  /\ keyfile = [scope \in Scopes |-> [slot \in Slots |->
       IF \E i \in In(authfile[scope].list, slot) : authfile[scope].list[i].method = "own"
         THEN Former ELSE Missing]]
  /\ home = TRUE
  /\ asker = [a \in Askers |-> NoAsk]
  /\ asked = [scope \in Scopes |-> [slot \in Slots |->
       IF In(Load(scope), slot) = {} THEN Nothing
       ELSE [method |-> Load(scope)[1].method, n |-> Former]]]
  /\ doubt = [scope \in Scopes |-> {}]
  /\ spent = [calls |-> 0, fails |-> 0]

-----------------------------------------------------------------------------
(* The calls                                                               *)

Busy(scope) == {a \in Askers : asker[a].at # "idle" /\ asker[a].scope = scope}

(* A call takes the first number that is free.                             *)
Callers ==
  {a \in Askers : /\ asker[a].at = "idle" /\ \A b \in Askers : b < a => asker[b].at # "idle"
                  /\ spent.calls < MaxAsks}

(* It reads the file; one that is torn fails it.                           *)
BeginAsk(a, scope, adds, slots) ==
  /\ authfile[scope].state # "torn"
  /\ spent' = [spent EXCEPT !.calls = @ + 1]
  /\ asker' = [asker EXCEPT ![a] =
       [at |-> IF adds # <<>> /\ adds[1].method = "own" THEN "key" ELSE "clean",
        scope |-> scope, adds |-> adds, slots |-> slots, n |-> Former + spent'.calls,
        list |-> Load(scope), mixed |-> FALSE]]
  /\ doubt' = [doubt EXCEPT ![scope] =
       IF Busy(scope) = {} THEN @ ELSE @ \union slots \union UNION {asker[b].slots : b \in Busy(scope)}]
  /\ UNCHANGED <<authfile, legacy, keyfile, home, asked>>

(* The API puts tokens and keys into the system store, the platform's with *)
(* a mark; a command adds tokens and names keys of the user's own.         *)
UpsertCredential(a, scope, slot, method, managed) ==
  /\ managed => scope = "system" /\ method # "home"
  /\ method = "own" => scope = "system"
  /\ BeginAsk(a, scope,
       <<[slot |-> slot, method |-> method, managed |-> managed,
          secret |-> IF method = "token" THEN Former + spent.calls + 1 ELSE 0]>>, {slot})

Removes(cred, pattern, managed) == cred.slot.pattern = pattern /\ (managed => cred.managed)
RemoveCredential(a, scope, pattern, managed) ==
  LET gone == {i \in DOMAIN Load(scope) : Removes(Load(scope)[i], pattern, managed)}
  IN  /\ managed => scope = "system"
      /\ gone # {}
      /\ BeginAsk(a, scope, <<>>, {Load(scope)[i].slot : i \in gone})

AskFails == spent.fails < MaxAskFails /\ spent' = [spent EXCEPT !.fails = @ + 1]

(* What is left of a call that fails or is cut off.                        *)
AskEnds(a) == asker' = [asker EXCEPT ![a] = NoAsk]
InDoubt(a) == doubt' = [doubt EXCEPT ![asker[a].scope] = @ \union asker[a].slots]

(* add_ssh_key: the file is truncated and written in place.                *)
WriteKey(a) ==
  /\ asker[a].at = "key"
  /\ keyfile' = [keyfile EXCEPT ![asker[a].scope][asker[a].adds[1].slot] = asker[a].n]
  /\ asker' = [asker EXCEPT ![a].at = "clean"]
  /\ UNCHANGED <<authfile, legacy, home, asked, doubt, spent>>

(* The key files of the entries that are replaced or removed are deleted,  *)
(* whoever they belong to, but for the one the new entry names.  Then the  *)
(* list is edited in memory.                                               *)
Replaced(a) == {i \in DOMAIN asker[a].list : asker[a].list[i].slot \in asker[a].slots}
Orphans(a) ==
  {i \in Replaced(a) : asker[a].adds = <<>> \/ asker[a].adds[1].method # asker[a].list[i].method}

(* The entries at the positions that are kept (retain, filter).            *)
Retained(list, kept) ==
  LET upto[i \in 0..Len(list)] ==
        IF i = 0 THEN <<>>
        ELSE IF i \in kept THEN Append(upto[i - 1], list[i]) ELSE upto[i - 1]
  IN  upto[Len(list)]

(* Mutant: an entry is identified by its pattern alone.                   *)
EditedByPattern(a) ==
  LET patterns == {s.pattern : s \in asker[a].slots}
      list == asker[a].list
  IN  Retained(list, {i \in DOMAIN list : list[i].slot.pattern \notin patterns}) \o asker[a].adds
Edited(a) ==
  LET list == asker[a].list
  IN  Retained(list, {i \in DOMAIN list : list[i].slot \notin asker[a].slots}) \o asker[a].adds

Clean(a) ==
  LET old == {asker[a].list[i] : i \in Orphans(a)}
  IN  /\ asker[a].at = "clean"
      /\ keyfile' = [keyfile EXCEPT ![asker[a].scope] =
           [slot \in Slots |-> IF \E e \in old : e.slot = slot /\ e.method = "own" THEN Missing ELSE @[slot]]]
      /\ home' = (home /\ \A e \in old : e.method # "home")
      /\ asker' = [asker EXCEPT ![a].at = "open", ![a].list = Edited(a)]
      /\ UNCHANGED <<authfile, legacy, asked, doubt, spent>>

(* fs::write truncates the file, then fills it.  Two that overlap may      *)
(* leave the end of the longer one behind the shorter.                     *)
Open(a) ==
  /\ asker[a].at = "open"
  /\ authfile' = [authfile EXCEPT ![asker[a].scope] = [state |-> "torn", list |-> <<>>]]
  /\ asker' = [asker EXCEPT ![a].at = "fill"]
  /\ UNCHANGED <<legacy, keyfile, home, asked, doubt, spent>>

Fill(a) ==
  LET scope == asker[a].scope
  IN  /\ asker[a].at = "fill"
      /\ \/ authfile' = [authfile EXCEPT ![scope] = [state |-> "whole", list |-> asker[a].list]]
         \/ asker[a].mixed /\ authfile' = [authfile EXCEPT ![scope] = [state |-> "torn", list |-> <<>>]]
      /\ asker' = [b \in Askers |->
           CASE b = a -> NoAsk
             [] b # a /\ asker[b].at = "fill" /\ asker[b].scope = scope
                  -> [asker[b] EXCEPT !.mixed = TRUE]
             [] OTHER -> asker[b]]
      /\ asked' = [asked EXCEPT ![scope] = [slot \in Slots |->
           IF slot \notin asker[a].slots THEN @[slot]
           ELSE IF asker[a].adds = <<>> THEN Nothing
           ELSE [method |-> asker[a].adds[1].method, n |-> asker[a].n]]]
      /\ UNCHANGED <<legacy, keyfile, home, doubt, spent>>

(* A write fails, or the daemon or the command dies, at any step.          *)
AskCutOff(a) ==
  /\ asker[a].at # "idle" /\ AskFails
  /\ IF asker[a].at = "key"
       THEN \E left \in {Torn, keyfile[asker[a].scope][asker[a].adds[1].slot]} :
              keyfile' = [keyfile EXCEPT ![asker[a].scope][asker[a].adds[1].slot] = left]
       ELSE UNCHANGED keyfile
  /\ AskEnds(a) /\ InDoubt(a)
  /\ UNCHANGED <<authfile, legacy, home, asked>>

CredentialsNext ==
  \/ \E a \in Askers :
       \/ WriteKey(a) \/ Clean(a) \/ Open(a) \/ Fill(a) \/ AskCutOff(a)
  \/ \E a \in Callers, scope \in Scopes, managed \in BOOLEAN :
       \/ \E slot \in Slots, method \in {"token", "own", "home"} :
            UpsertCredential(a, scope, slot, method, managed)
       \/ \E pattern \in Patterns : RemoveCredential(a, scope, pattern, managed)

CredentialsSpec == CredentialsInit /\ [][CredentialsNext]_credentialsVars

-----------------------------------------------------------------------------
(* The lookup                                                              *)

NoEntry == [Pushed EXCEPT !.method = "none"]
Applies(cred, target, app) ==
  cred.slot.pattern <= target /\ cred.slot.app \in {"any", app}

(* Mutant: a binding does not count among equally long patterns.           *)
BetterByLength(c, b) == c.slot.pattern > b.slot.pattern
Better(c, b) ==
  \/ c.slot.pattern > b.slot.pattern
  \/ c.slot.pattern = b.slot.pattern /\ c.slot.app # "any" /\ b.slot.app = "any"

LookupFor(list, target, app) ==
  LET best[i \in 0..Len(list)] ==
        IF i = 0 THEN NoEntry
        ELSE IF /\ Applies(list[i], target, app)
                /\ best[i - 1] = NoEntry \/ Better(list[i], best[i - 1])
          THEN list[i] ELSE best[i - 1]
  IN  best[Len(list)]

(* The first identity that finds anything decides.                         *)
LookupRegistry(list, target, apps) ==
  LET found == {i \in DOMAIN apps : LookupFor(list, target, apps[i]) # NoEntry}
  IN  IF found = {} THEN LookupFor(list, target, "any")
      ELSE LookupFor(list, target, apps[CHOOSE i \in found : \A j \in found : i <= j])

(* The daemon reads a user's store on his behalf: keys that are not there  *)
(* do not count.                                                           *)
Vetted ==
  LET list == Load("user")
  IN  Retained(list, {i \in DOMAIN list :
                    /\ list[i].method = "own" => keyfile["user"][list[i].slot] # Missing
                    /\ list[i].method = "home" => home})

-----------------------------------------------------------------------------
(* Properties                                                              *)

(* A slot is as the last call that named it asked, its key file included,  *)
(* and nothing is left of one that was removed: whatever calls about other *)
(* slots failed, died or overlapped beside it.  The file is unreadable     *)
(* only after a save was cut off or met another.                           *)
SlotAsAsked(scope, slot) ==
  LET here == {Load(scope)[i] : i \in In(Load(scope), slot)}
      want == asked[scope][slot]
  IN  IF want = Nothing THEN here = {} /\ keyfile[scope][slot] = Missing
      ELSE \E e \in here :
             /\ here = {e} /\ e.method = want.method
             /\ e.method = "token" => e.secret = want.n
             /\ e.method = "own" => keyfile[scope][slot] = want.n
AsAsked ==
  \A scope \in Scopes :
    Busy(scope) = {} =>
      IF authfile[scope].state = "torn" THEN doubt[scope] # {}
      ELSE \A slot \in Slots \ doubt[scope] : SlotAsAsked(scope, slot)

(* "The longest prefix at a path boundary wins, and user entries take      *)
(* priority over system ones"; one bound to the app "beats an equally      *)
(* specific unbound one for its own app" and serves no other.              *)
Best(mine, theirs, target, app) ==
  LET fits(list) == {list[i] : i \in {j \in DOMAIN list : Applies(list[j], target, app)}}
      all == fits(mine) \union fits(theirs)
      top == {c \in all : \A b \in all : ~Better(b, c)}
  IN  IF all = {} THEN {NoEntry}
      ELSE IF top \intersect fits(mine) # {} THEN top \intersect fits(mine) ELSE top
LookupIsBest ==
  LET mine == Vetted
      theirs == Load("system")
  IN  \A target \in 0..2, app \in Apps \union {"any"} :
        LookupFor(mine \o theirs, target, app) \in Best(mine, theirs, target, app)

(* An image is pulled with a credential whenever one fits, and with one    *)
(* bound to the first identity where that is as specific (lookup_registry  *)
(* says so of every identity).                                             *)
RegistryIsServed ==
  LET list == Vetted \o Load("system")
  IN  \A target \in Patterns, first \in Apps : \A second \in Apps \ {first} :
        LET hit == LookupRegistry(list, target, <<first, second>>)
            fits(app) == {i \in DOMAIN list : list[i].slot.app = app /\ list[i].slot.pattern <= target}
        IN  IF hit = NoEntry THEN fits(first) \union fits(second) \union fits("any") = {}
            ELSE hit.slot.app # first =>
                   \A i \in fits(first) : list[i].slot.pattern < hit.slot.pattern

CredentialsServe ==
  AsAsked /\ (UNION {Busy(scope) : scope \in Scopes} = {} => LookupIsBest /\ RegistryIsServed)
=============================================================================
