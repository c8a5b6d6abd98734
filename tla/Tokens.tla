------------------------------- MODULE Tokens -------------------------------
(***************************************************************************)
(* The API's bearer tokens (src/src/daemon/api/tokens.rs), the file        *)
(* api.token that keeps the primary (write_token, ensure_api_token in      *)
(* src/src/daemon/api/mod.rs), the check in front of every request (auth), *)
(* the token routes (src/src/daemon/api/rest.rs), and the platform that    *)
(* holds a primary and rotates it.                                         *)
(*                                                                         *)
(* Tokens are numbered in the order in which they are drawn.  A deadline   *)
(* is the moment at which an action lets it pass.                          *)
(***************************************************************************)
EXTENDS Naturals, FiniteSets, Sequences, SequencesExt

CONSTANTS
  Requests,     \* requests the daemon may serve at the same time
  MaxAccess,    \* MAX_LIVE_ACCESS
  OneAtATime,   \* the platform rotates and commits one after the other
  MaxTokens,    \* bound: tokens drawn
  MaxFails,     \* bound: system calls that fail, and answers that are lost
  MaxCrashes    \* bound: crashes of the daemon

ASSUME TokensAssumption ==
  /\ {MaxAccess, MaxTokens} \subseteq Nat \ {0} /\ OneAtATime \in BOOLEAN
  /\ {MaxFails, MaxCrashes} \subseteq Nat

VARIABLES
  primary,   \* current and previous primary, in memory
  access,    \* live access tokens, soonest to expire first
  disk,      \* api.token, its temporary, and what the files hold
  request,   \* by request: where its handler stands
  platform,  \* the token the platform keeps, and whether it must have lost it
  drawn,     \* tokens drawn so far
  budget     \* bounds: failures and crashes left

tokensVars == <<primary, access, disk, request, platform, drawn, budget>>

None == 0
Token == 1..MaxTokens

(* Files by inode: 0 is no file, what a file holds is a token or None,     *)
(* which is an empty file.  At most one file is a temporary at a time, and *)
(* a request keeps the one it opened.                                      *)
Inode == 1..MaxTokens

Steps == {"idle", "granted", "open", "write", "rename", "swap", "answer"}
Ops == {"none", "issue", "revoke", "rotate", "commit"}
Request ==
  [at : Steps, op : Ops, grace : BOOLEAN, token : 0..MaxTokens, fd : 0..MaxTokens]
Idle == [at |-> "idle", op |-> "none", grace |-> FALSE, token |-> None, fd |-> 0]

TokensTypeOK ==
  /\ primary \in [current : 0..MaxTokens, previous : 0..MaxTokens]
  /\ access \in Seq(Token) /\ Len(access) <= MaxAccess
  /\ disk \in [api : Inode, temp : {0} \cup Inode, holds : [Inode -> 0..MaxTokens]]
  /\ request \in [Requests -> Request]
  /\ platform \in [token : Token, excused : BOOLEAN]
  /\ drawn \in 0..MaxTokens
  /\ budget \in [fails : 0..MaxFails, crashes : 0..MaxCrashes]

(* The first start drew token 1, wrote it, and the platform enrolled.      *)
TokensInit ==
  /\ primary = [current |-> 1, previous |-> None]
  /\ access = <<>>
  /\ disk = [api |-> 1, temp |-> 0, holds |-> [i \in Inode |-> IF i = 1 THEN 1 ELSE None]]
  /\ request = [r \in Requests |-> Idle]
  /\ platform = [token |-> 1, excused |-> FALSE]
  /\ drawn = 1
  /\ budget = [fails |-> MaxFails, crashes |-> MaxCrashes]

-----------------------------------------------------------------------------
(* TokenStore::resolve, require_primary and reject_grace                   *)

IsCurrent(t) == t = primary.current
IsGrace(t) == t = primary.previous /\ ~IsCurrent(t)
IsPrimary(t) == t # None /\ (IsCurrent(t) \/ IsGrace(t))

Managing == {r \in Requests : request[r].op \in {"rotate", "commit"}}

(* The platform presents its token; what is decided here is used later.    *)
Authenticate(r, op) ==
  /\ request[r].at = "idle" /\ IsPrimary(platform.token)
  /\ op = "commit" => ~IsGrace(platform.token)
  /\ op \in {"rotate", "issue"} => drawn < MaxTokens
  /\ op \in {"rotate", "commit"} /\ OneAtATime => Managing = {}
  /\ request' = [request EXCEPT ![r] = [Idle EXCEPT !.at = "granted", !.op = op]]
  /\ UNCHANGED <<primary, access, disk, platform, drawn, budget>>

-----------------------------------------------------------------------------
Finish(r) == request' = [request EXCEPT ![r] = Idle]

(* A place among the live tokens by its expiry; beyond the cap the one     *)
(* that expires soonest goes.                                              *)
Issue(r, i) ==
  /\ request[r].at = "granted" /\ request[r].op = "issue" /\ drawn < MaxTokens
  /\ drawn' = drawn + 1
  /\ LET kept == IF Len(access) >= MaxAccess THEN Tail(access) ELSE access
     IN /\ i \in 1..Len(kept) + 1
        /\ access' = InsertAt(kept, i, drawn + 1)
  /\ Finish(r)
  /\ UNCHANGED <<primary, disk, platform, budget>>

Revoke(r) ==
  /\ request[r].at = "granted" /\ request[r].op = "revoke"
  /\ access' = <<>>
  /\ Finish(r)
  /\ UNCHANGED <<primary, disk, platform, drawn, budget>>

Commit(r) ==
  /\ request[r].at = "granted" /\ request[r].op = "commit"
  /\ primary' = [primary EXCEPT !.previous = None]
  /\ Finish(r)
  /\ UNCHANGED <<access, disk, platform, drawn, budget>>

-----------------------------------------------------------------------------
(* TokenStore::rotate: revoke, draw, persist, swap                         *)

Rotate(r, grace) ==
  /\ request[r].at = "granted" /\ request[r].op = "rotate" /\ drawn < MaxTokens
  /\ access' = <<>>
  /\ drawn' = drawn + 1
  /\ request' = [request EXCEPT ![r].at = "open", ![r].grace = grace,
                                ![r].token = drawn + 1]
  /\ UNCHANGED <<primary, disk, platform, budget>>

(* write_token.  The temporary has one name: opening it truncates the file *)
(* another rotation may be writing.                                        *)
Unused == CHOOSE i \in Inode : /\ i # disk.api /\ i # disk.temp
                               /\ \A r \in Requests : request[r].fd # i
(* Mutant: the target itself is truncated.                                 *)
OpenTarget(r) ==
  /\ request[r].at = "open"
  /\ disk' = [disk EXCEPT !.temp = disk.api, !.holds[disk.api] = None]
  /\ request' = [request EXCEPT ![r].at = "write", ![r].fd = disk.api]
  /\ UNCHANGED <<primary, access, platform, drawn, budget>>
OpenTemp(r) ==
  /\ request[r].at = "open"
  /\ LET i == IF disk.temp = 0 THEN Unused ELSE disk.temp
     IN /\ disk' = [disk EXCEPT !.temp = i, !.holds[i] = None]
        /\ request' = [request EXCEPT ![r].at = "write", ![r].fd = i]
  /\ UNCHANGED <<primary, access, platform, drawn, budget>>

WriteTemp(r) ==
  /\ request[r].at = "write"
  /\ disk' = [disk EXCEPT !.holds[request[r].fd] = request[r].token]
  /\ request' = [request EXCEPT ![r].at = "rename"]
  /\ UNCHANGED <<primary, access, platform, drawn, budget>>

RenameTemp(r) ==
  /\ request[r].at = "rename" /\ disk.temp # 0
  /\ disk' = [disk EXCEPT !.api = disk.temp, !.temp = 0]
  /\ request' = [request EXCEPT ![r].at = "swap", ![r].fd = 0]
  /\ UNCHANGED <<primary, access, platform, drawn, budget>>

(* Any of these calls may fail; a rename fails when another rotation took  *)
(* the temporary away.  The rotation returns the error, and the temporary  *)
(* stays.                                                                  *)
PersistFails(r) ==
  /\ request[r].at \in {"open", "write", "rename"}
  /\ \/ /\ request[r].at = "rename" /\ disk.temp = 0 /\ UNCHANGED budget
     \/ /\ budget.fails > 0 /\ budget' = [budget EXCEPT !.fails = @ - 1]
  /\ Finish(r)
  /\ UNCHANGED <<primary, access, disk, platform, drawn>>

Swap(r) ==
  /\ request[r].at = "swap"
  /\ primary' = [current |-> request[r].token,
                 previous |-> IF request[r].grace THEN primary.current ELSE None]
  /\ request' = [request EXCEPT ![r].at = "answer"]
  /\ UNCHANGED <<access, disk, platform, drawn, budget>>

(* The platform stores what it is told, or never hears of it.  From then   *)
(* on only the grace window keeps its token.                               *)
Answer(r) ==
  /\ request[r].at = "answer"
  /\ \/ platform' = [token |-> request[r].token, excused |-> FALSE] /\ UNCHANGED budget
     \/ /\ budget.fails > 0 /\ budget' = [budget EXCEPT !.fails = @ - 1]
        /\ platform' = [platform EXCEPT !.excused = @ \/ ~request[r].grace
                                                      \/ primary.previous # platform.token]
  /\ Finish(r)
  /\ UNCHANGED <<primary, access, disk, drawn>>

-----------------------------------------------------------------------------
(* Time, and the daemon's own end                                          *)

(* The grace window closes.  A platform whose answer is still on its way,  *)
(* or was lost, has had its time.                                          *)
GracePasses ==
  /\ primary.previous # None
  /\ platform' = [platform EXCEPT !.excused = @ \/ primary.previous = platform.token]
  /\ primary' = [primary EXCEPT !.previous = None]
  /\ UNCHANGED <<access, disk, request, drawn, budget>>

AccessExpires ==
  /\ access # <<>>
  /\ access' = Tail(access)
  /\ UNCHANGED <<primary, disk, request, platform, drawn, budget>>

(* The daemon dies and starts again: memory is gone, the file is read.     *)
(* "A daemon restart ends the window early": a platform that was not       *)
(* answered may be left with a token nobody knows.                         *)
Unanswered == \E r \in Requests : request[r].at \in {"swap", "answer"}
Restart ==
  /\ budget.crashes > 0
  /\ budget' = [budget EXCEPT !.crashes = @ - 1]
  /\ primary' = [current |-> disk.holds[disk.api], previous |-> None]
  /\ access' = <<>>
  /\ request' = [r \in Requests |-> Idle]
  /\ platform' = [platform EXCEPT !.excused = @ \/ Unanswered
                                                \/ primary.previous = platform.token]
  /\ UNCHANGED <<disk, drawn>>

-----------------------------------------------------------------------------
TokensNext ==
  \/ \E r \in Requests :
       \/ \E op \in {"issue", "revoke", "rotate", "commit"} : Authenticate(r, op)
       \/ \E i \in 1..MaxAccess : Issue(r, i)
       \/ \E grace \in BOOLEAN : Rotate(r, grace)
       \/ Revoke(r) \/ Commit(r) \/ OpenTemp(r) \/ WriteTemp(r) \/ RenameTemp(r)
       \/ PersistFails(r) \/ Swap(r) \/ Answer(r)
  \/ GracePasses \/ AccessExpires \/ Restart

TokensSpec == TokensInit /\ [][TokensNext]_tokensVars

-----------------------------------------------------------------------------
(* Properties                                                              *)

(* With every rotation answered or refused, the file and the memory agree  *)
(* on the primary: a restart changes nothing but the grace window.         *)
StoreIsOnDisk == Managing = {} => disk.holds[disk.api] = primary.current

(* "A crash or a full disk in the middle of it leaves an empty api.token,  *)
(* and the platform can never authenticate again": not here.  The file     *)
(* always holds a token, the one in memory; and the platform's own token   *)
(* is accepted, now and after a restart, unless an answer was lost and its *)
(* grace is over.                                                          *)
NoLockout ==
  /\ disk.holds[disk.api] # None
  /\ StoreIsOnDisk
  /\ ~platform.excused =>
       \/ IsPrimary(platform.token)
       \/ \E r \in Requests : request[r].at = "answer"
  /\ ~platform.excused /\ ~Unanswered /\ primary.previous # platform.token
       => disk.holds[disk.api] = platform.token
=============================================================================
