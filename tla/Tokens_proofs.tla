---------------------------- MODULE Tokens_proofs ----------------------------
(***************************************************************************)
(* That the platform is not locked out, for any number of requests, tokens *)
(* and failures, as long as it rotates and commits one after the other;    *)
(* and that credentials are what the last call that named them asked for,  *)
(* and the best of them is used, for any calls and apps.                   *)
(***************************************************************************)
EXTENDS Tokens, Credentials, WellFoundedInduction, TLAPS

Shapes ==
  /\ primary \in [current : Token, previous : 0..MaxTokens]
  /\ disk \in [api : Inode, temp : {0} \union Inode, holds : [Inode -> 0..MaxTokens]]
  /\ request \in [Requests -> Request]
  /\ platform \in [token : Token, excused : BOOLEAN]
  /\ drawn \in Token

(* What holds for a request by the step it is at.                          *)
Rotating == {"open", "write", "rename", "swap", "answer"}
Stands(x) ==
  /\ x.at = "idle" => x.op = "none"
  /\ x.at \in Rotating => x.op = "rotate" /\ x.token \in Token \ {1}
  /\ x.at \in {"write", "rename"} => disk.temp # 0 /\ x.fd = disk.temp
  /\ x.at \notin {"write", "rename"} => x.fd = 0
  /\ x.at = "rename" => disk.holds[disk.temp] = x.token
  /\ x.at = "swap" => disk.holds[disk.api] = x.token
  /\ x.at = "answer" => primary.current = x.token
  /\ x.at = "granted" /\ x.op = "commit" => platform.token = primary.current
Stages == \A r \in Requests : Stands(request[r])

Single == \A r, q \in Managing : r = q

(* The file is whole, and ahead of the memory only between rename and swap. *)
FileInv ==
  /\ disk.temp # disk.api
  /\ disk.holds[disk.api] \in Token
  /\ (\A r \in Requests : request[r].at # "swap") => disk.holds[disk.api] = primary.current

Accepted ==
  ~platform.excused => \/ IsPrimary(platform.token)
                       \/ \E r \in Requests : request[r].at = "answer"
Durable ==
  ~platform.excused /\ ~Unanswered /\ primary.previous # platform.token
    => disk.holds[disk.api] = platform.token

IInv == Shapes /\ Stages /\ Single /\ FileInv /\ Accepted /\ Durable

LEMMA Numbers ==
  /\ 0 \in 0..MaxTokens /\ None \in 0..MaxTokens /\ None \notin Token
  /\ Token \subseteq 0..MaxTokens /\ Inode \subseteq 0..MaxTokens /\ 0 \notin Inode
BY TokensAssumption DEF Token, Inode, None

LEMMA InitIInv == TokensInit => IInv
<1> SUFFICES ASSUME TokensInit PROVE IInv
  OBVIOUS
<1> USE TokensAssumption
<1>1. Shapes
  BY DEF TokensInit, Shapes, Token, Inode, Request, Idle, Steps, Ops, None
<1>2. Stages /\ Single
  BY DEF TokensInit, Stages, Stands, Single, Managing, Idle, Rotating
<1>3. FileInv /\ Accepted /\ Durable
  BY DEF TokensInit, FileInv, Accepted, Durable, Inode, Token, IsPrimary, IsCurrent, None
<1> QED
  BY <1>1, <1>2, <1>3 DEF IInv

(* A request that rotates or commits is the only one at it; the others     *)
(* have been granted something else, or nothing.                           *)
LEMMA Others ==
  ASSUME IInv, NEW r \in Managing, NEW q \in Requests, q # r
  PROVE  request[q].at \in {"idle", "granted"} /\ request[q].op \notin {"rotate", "commit"}
BY DEF IInv, Shapes, Stages, Stands, Single, Managing, Rotating, Request, Steps

(* One step of one request, seen from the whole.                           *)
LEMMA StagesKept ==
  ASSUME IInv, NEW r \in Managing, NEW x \in Request,
         request' = [request EXCEPT ![r] = x], Stands(x)'
  PROVE  Shapes' => Stages'
<1> SUFFICES ASSUME NEW q \in Requests, q # r PROVE Stands(request[q])'
  BY DEF Stages, IInv, Shapes, Managing
<1> QED
  BY Others DEF Stands, IInv, Shapes, Rotating, Managing, Stages

(* A step after which the same requests are at the swap and the answer.    *)
LEMMA SameView ==
  ASSUME IInv, UNCHANGED <<primary, disk, platform>>,
         \A q \in Requests :
               /\ request'[q].at = "swap" <=> request[q].at = "swap"
               /\ request'[q].at = "answer" <=> request[q].at = "answer"
  PROVE  FileInv' /\ Accepted' /\ Durable' /\ (Managing' \subseteq Managing => Single')
<1>1. FileInv'
  BY DEF IInv, FileInv
<1>2. Accepted'
  BY DEF IInv, Accepted, IsPrimary, IsCurrent, IsGrace
<1>3. Unanswered' <=> Unanswered
  BY DEF Unanswered
<1>4. Durable'
  BY <1>3 DEF IInv, Durable
<1>5. ASSUME Managing' \subseteq Managing PROVE Single'
  BY <1>5 DEF IInv, Single
<1> QED
  BY <1>1, <1>2, <1>4, <1>5

LEMMA Blank ==
  Idle \in Request /\ Idle.op = "none" /\ Idle.at = "idle" /\ Idle.fd = 0
BY TokensAssumption DEF Idle, Request, Steps, Ops, None

(* Requests that neither rotate nor commit leave the store alone.          *)
LEMMA Quiet ==
  ASSUME IInv, NEW r \in Requests, request[r].op \notin {"rotate", "commit"},
         NEW x \in Request, x.op \notin {"rotate", "commit"}, x.at \in {"idle", "granted"},
         x.at = "idle" => x.op = "none", x.fd = 0,
         request' = [request EXCEPT ![r] = x], drawn' \in Token,
         UNCHANGED <<primary, disk, platform>>
  PROVE  IInv'
<1>1. Shapes'
  BY DEF IInv, Shapes
<1>2. request[r].at \in {"idle", "granted"}
  BY DEF IInv, Shapes, Stages, Stands, Rotating, Request, Steps
<1>3. Stages'
  BY DEF IInv, Shapes, Stages, Stands, Rotating
<1>4. Managing' = Managing
  BY DEF Managing, IInv, Shapes
<1>6. \A q \in Requests :
      /\ request'[q].at = "swap" <=> request[q].at = "swap"
      /\ request'[q].at = "answer" <=> request[q].at = "answer"
  BY <1>2 DEF IInv, Shapes
<1>7. Single' /\ FileInv' /\ Accepted' /\ Durable'
  <2>1. UNCHANGED <<primary, disk, platform>>
    OBVIOUS
  <2>2. Managing' \subseteq Managing
    BY <1>4
  <2> QED
    BY <1>6, <2>1, <2>2, SameView
<1> QED
  BY <1>1, <1>3, <1>7 DEF IInv

(* A step of the one that rotates or commits.                              *)
LEMMA Turn ==
  ASSUME IInv, NEW r \in Requests, request[r].op \in {"rotate", "commit"}, NEW x \in Request,
         x.op \in {"none", request[r].op},
         request' = [request EXCEPT ![r] = x], Shapes', Stands(x)'
  PROVE  /\ Stages' /\ Single' /\ request'[r] = x
         /\ \A q \in Requests : q # r =>
              request[q].at \notin Rotating /\ request'[q] = request[q]
<1>1. r \in Managing
  BY DEF Managing
<1>2. Stages'
  BY <1>1, StagesKept
<1>3. \A q \in Requests : q # r =>
         request[q].at \notin Rotating /\ request'[q] = request[q] /\ q \notin Managing
  BY <1>1, Others DEF Rotating, Managing, IInv, Shapes
<1>4. request'[r] = x
  BY DEF IInv, Shapes
<1>5. Managing' \subseteq {r}
  BY <1>3 DEF Managing
<1>6. Single'
  BY <1>5 DEF Single
<1> QED
  BY <1>2, <1>3, <1>4, <1>6

(* A step of a rotation before its rename: it touches only the temporary.  *)
LEMMA Kept ==
  ASSUME IInv, UNCHANGED <<primary, platform>>,
         disk'.api = disk.api, disk'.holds[disk.api] = disk.holds[disk.api],
         disk'.temp # disk.api,
         \A q \in Requests : request[q].at \notin {"swap", "answer"},
         \A q \in Requests : request'[q].at \notin {"swap", "answer"}
  PROVE  FileInv' /\ Accepted' /\ Durable'
<1>1. FileInv'
  BY DEF IInv, FileInv
<1>2. Accepted'
  BY DEF IInv, Accepted, IsPrimary, IsCurrent, IsGrace
<1>3. Durable'
  BY DEF IInv, Durable, Unanswered
<1> QED
  BY <1>1, <1>2, <1>3

(* A rotation under way: it is alone, and the platform's token is accepted *)
(* until it answers.                                                       *)
LEMMA Alone ==
  ASSUME IInv, NEW r \in Requests, request[r].at \in Rotating
  PROVE  /\ request[r] \in Request /\ request[r].op = "rotate"
         /\ request[r].token \in Token \ {1} /\ Stands(request[r])
         /\ \A q \in Requests : q # r => request[q].at \in {"idle", "granted"}
<1>1. request[r] \in Request /\ Stands(request[r])
  BY DEF IInv, Shapes, Stages
<1>2. request[r].op = "rotate" /\ request[r].token \in Token \ {1}
  BY <1>1 DEF Stands
<1>3. r \in Managing
  BY <1>2 DEF Managing
<1> QED
  BY <1>1, <1>2, <1>3, Others

LEMMA RotateStep ==
  ASSUME IInv, NEW r \in Requests, NEW grace \in BOOLEAN, Rotate(r, grace)
  PROVE  IInv'
<1> DEFINE y == request[r]
<1>0. PICK x : x = [y EXCEPT !.at = "open", !.grace = grace, !.token = drawn + 1]
  OBVIOUS
<1>1. y \in Request /\ y.at = "granted" /\ y.op = "rotate" /\ y.fd = 0
  BY DEF Rotate, IInv, Shapes, Stages, Stands
<1>2. drawn + 1 \in Token \ {1}
  BY TokensAssumption DEF Rotate, IInv, Shapes, Token
<1>3. request' = [request EXCEPT ![r] = x]
  BY <1>0 DEF Rotate, IInv, Shapes
<1>4. x \in Request
  BY <1>0, <1>1, <1>2, Numbers DEF Request, Steps
<1>5. x.at = "open" /\ x.op = "rotate" /\ x.token \in Token \ {1} /\ x.fd = 0
  BY <1>0, <1>1, <1>2 DEF Request
<1>6. Shapes' /\ UNCHANGED <<primary, disk, platform>>
  <2>1. drawn' \in Token /\ UNCHANGED <<primary, disk, platform>>
    BY <1>2 DEF Rotate
  <2>2. request' \in [Requests -> Request]
    BY <1>3, <1>4 DEF IInv, Shapes
  <2> QED
    BY <2>1, <2>2 DEF IInv, Shapes
<1>7. Stands(x)'
  BY <1>5 DEF Stands, Rotating
<1>8. /\ Stages' /\ Single' /\ request'[r] = x
      /\ \A q \in Requests : q # r => request'[q] = request[q]
  <2>1. request[r].op = "rotate" /\ x.op = "rotate" /\ x \in Request
    BY <1>1, <1>4, <1>5
  <2>2. request' = [request EXCEPT ![r] = x] /\ Shapes'
    BY <1>3, <1>6
  <2> QED
    BY <1>7, <2>1, <2>2, Turn
<1>9. \A q \in Requests :
         /\ request'[q].at = "swap" <=> request[q].at = "swap"
         /\ request'[q].at = "answer" <=> request[q].at = "answer"
  BY <1>1, <1>5, <1>8
<1>10. FileInv' /\ Accepted' /\ Durable'
  BY <1>6, <1>9, SameView
<1> QED
  BY <1>6, <1>8, <1>10 DEF IInv

(* There is a file to create: the temporary gets an inode of its own.      *)
LEMMA Fresh ==
  ASSUME IInv, NEW r \in Requests, request[r].at = "open", disk.temp = 0
  PROVE  Unused \in Inode /\ Unused # disk.api
<1>1. request[r].token \in Token \ {1} /\ request[r].fd = 0
  BY Alone DEF Rotating, Stands
<1>2. \A q \in Requests : request[q].fd = 0
  BY <1>1, Alone DEF Rotating, IInv, Stages, Stands
<1>3. disk.api \in Inode
  BY DEF IInv, Shapes
<1>4. {1, 2} \subseteq Inode
  BY <1>1, TokensAssumption DEF Token, Inode
<1>5. \E i \in {1, 2} : i # disk.api /\ i # 0
  OBVIOUS
<1>6. \E i \in Inode : /\ i # disk.api /\ i # disk.temp
                       /\ \A q \in Requests : request[q].fd # i
  BY <1>2, <1>4, <1>5
<1> QED
  BY <1>6 DEF Unused

LEMMA OpenStep ==
  ASSUME IInv, NEW r \in Requests, OpenTemp(r)
  PROVE  IInv'
<1> DEFINE i == IF disk.temp = 0 THEN Unused ELSE disk.temp
           y == request[r]
<1>0. PICK x : x = [y EXCEPT !.at = "write", !.fd = i]
  OBVIOUS
<1>1. y \in Request /\ y.op = "rotate" /\ y.token \in Token \ {1} /\ y.at = "open"
  BY Alone DEF OpenTemp, Rotating
<1>2. \A q \in Requests : request[q].at \notin {"swap", "answer"}
  BY <1>1, Alone DEF Rotating
<1>3. i \in Inode /\ i # disk.api /\ i # 0
  BY <1>1, Fresh DEF IInv, Shapes, FileInv, Inode
<1>4. /\ disk' = [disk EXCEPT !.temp = i, !.holds[i] = None]
      /\ request' = [request EXCEPT ![r] = x]
      /\ UNCHANGED <<primary, access, platform, drawn>>
  BY <1>0 DEF OpenTemp, IInv, Shapes
<1>5. /\ x \in Request /\ x.at = "write" /\ x.op = "rotate"
      /\ x.token \in Token \ {1} /\ x.fd = i
  BY <1>0, <1>1, <1>3, Numbers DEF Request, Steps
<1> HIDE DEF i
<1>6. disk' \in [api : Inode, temp : {0} \union Inode, holds : [Inode -> 0..MaxTokens]]
  BY <1>3, <1>4, Numbers DEF IInv, Shapes
<1>7. disk'.temp = i /\ disk'.api = disk.api /\ disk'.holds[disk.api] = disk.holds[disk.api]
  BY <1>3, <1>4 DEF IInv, Shapes
<1>8. Shapes'
  BY <1>4, <1>5, <1>6 DEF IInv, Shapes
<1>9. Stands(x)'
  BY <1>3, <1>5, <1>7 DEF Stands, Rotating
<1>10. /\ Stages' /\ Single' /\ request'[r] = x
       /\ \A q \in Requests : q # r => request'[q] = request[q]
  <2>1. request[r].op = "rotate" /\ x.op = "rotate" /\ x \in Request
    BY <1>1, <1>5
  <2>2. request' = [request EXCEPT ![r] = x]
    BY <1>4
  <2> QED
    BY <1>8, <1>9, <2>1, <2>2, Turn
<1>11. \A q \in Requests : request'[q].at \notin {"swap", "answer"}
  BY <1>2, <1>5, <1>10
<1>12. FileInv' /\ Accepted' /\ Durable'
  BY <1>2, <1>3, <1>4, <1>7, <1>11, Kept
<1> QED
  BY <1>8, <1>10, <1>12 DEF IInv

LEMMA WriteStep ==
  ASSUME IInv, NEW r \in Requests, WriteTemp(r)
  PROVE  IInv'
<1> DEFINE y == request[r]
<1>0. PICK x : x = [y EXCEPT !.at = "rename"]
  OBVIOUS
<1>1. /\ y \in Request /\ y.op = "rotate" /\ y.token \in Token \ {1} /\ y.at = "write"
      /\ disk.temp # 0 /\ y.fd = disk.temp
  BY Alone DEF WriteTemp, Rotating, Stands
<1>2. \A q \in Requests : request[q].at \notin {"swap", "answer"}
  BY <1>1, Alone DEF Rotating
<1>3. disk.temp \in Inode /\ disk.temp # disk.api
  BY <1>1 DEF IInv, Shapes, FileInv
<1>4. /\ disk' = [disk EXCEPT !.holds[disk.temp] = y.token]
      /\ request' = [request EXCEPT ![r] = x]
      /\ UNCHANGED <<primary, access, platform, drawn>>
  BY <1>0, <1>1 DEF WriteTemp, IInv, Shapes
<1>5. /\ x \in Request /\ x.at = "rename" /\ x.op = "rotate"
      /\ x.token = y.token /\ x.fd = disk.temp
  BY <1>0, <1>1 DEF Request, Steps
<1>6. disk' \in [api : Inode, temp : {0} \union Inode, holds : [Inode -> 0..MaxTokens]]
  BY <1>1, <1>3, <1>4, Numbers DEF IInv, Shapes
<1>7. /\ disk'.temp = disk.temp /\ disk'.api = disk.api
      /\ disk'.holds[disk.api] = disk.holds[disk.api] /\ disk'.holds[disk.temp] = y.token
  BY <1>3, <1>4 DEF IInv, Shapes
<1>8. Shapes'
  BY <1>4, <1>5, <1>6 DEF IInv, Shapes
<1>9. Stands(x)'
  BY <1>1, <1>5, <1>7 DEF Stands, Rotating
<1>10. /\ Stages' /\ Single' /\ request'[r] = x
       /\ \A q \in Requests : q # r => request'[q] = request[q]
  <2>1. request[r].op = "rotate" /\ x.op = "rotate" /\ x \in Request
    BY <1>1, <1>5
  <2>2. request' = [request EXCEPT ![r] = x]
    BY <1>4
  <2> QED
    BY <1>8, <1>9, <2>1, <2>2, Turn
<1>11. \A q \in Requests : request'[q].at \notin {"swap", "answer"}
  BY <1>2, <1>5, <1>10
<1>12. FileInv' /\ Accepted' /\ Durable'
  BY <1>2, <1>3, <1>4, <1>7, <1>11, Kept
<1> QED
  BY <1>8, <1>10, <1>12 DEF IInv

LEMMA RenameStep ==
  ASSUME IInv, NEW r \in Requests, RenameTemp(r)
  PROVE  IInv'
<1> DEFINE y == request[r]
<1>0. PICK x : x = [y EXCEPT !.at = "swap", !.fd = 0]
  OBVIOUS
<1>1. /\ y \in Request /\ y.op = "rotate" /\ y.token \in Token \ {1} /\ y.at = "rename"
      /\ disk.temp # 0 /\ disk.holds[disk.temp] = y.token
  BY Alone DEF RenameTemp, Rotating, Stands
<1>2. \A q \in Requests : request[q].at \notin {"swap", "answer"}
  BY <1>1, Alone DEF Rotating
<1>3. disk.temp \in Inode
  BY <1>1 DEF IInv, Shapes
<1>4. /\ disk' = [disk EXCEPT !.api = disk.temp, !.temp = 0]
      /\ request' = [request EXCEPT ![r] = x]
      /\ UNCHANGED <<primary, access, platform, drawn>>
  BY <1>0 DEF RenameTemp, IInv, Shapes
<1>5. /\ x \in Request /\ x.at = "swap" /\ x.op = "rotate"
      /\ x.token = y.token /\ x.fd = 0
  BY <1>0, <1>1, Numbers DEF Request, Steps
<1>6. disk' \in [api : Inode, temp : {0} \union Inode, holds : [Inode -> 0..MaxTokens]]
  BY <1>3, <1>4 DEF IInv, Shapes
<1>7. disk'.temp = 0 /\ disk'.api = disk.temp /\ disk'.holds[disk'.api] = y.token
  BY <1>1, <1>4 DEF IInv, Shapes
<1>8. Shapes'
  BY <1>4, <1>5, <1>6 DEF IInv, Shapes
<1>9. Stands(x)'
  BY <1>1, <1>5, <1>7 DEF Stands, Rotating
<1>10. Stages' /\ Single' /\ request'[r] = x
  <2>1. request[r].op = "rotate" /\ x.op = "rotate" /\ x \in Request
    BY <1>1, <1>5
  <2>2. request' = [request EXCEPT ![r] = x]
    BY <1>4
  <2> QED
    BY <1>8, <1>9, <2>1, <2>2, Turn
<1>11. FileInv'
  BY <1>1, <1>3, <1>5, <1>7, <1>10 DEF FileInv, Inode
<1>12. Accepted'
  BY <1>2, <1>4 DEF IInv, Accepted, IsPrimary, IsCurrent, IsGrace
<1>13. Durable'
  BY <1>5, <1>10 DEF Durable, Unanswered
<1> QED
  BY <1>8, <1>10, <1>11, <1>12, <1>13 DEF IInv

LEMMA FailStep ==
  ASSUME IInv, NEW r \in Requests, PersistFails(r)
  PROVE  IInv'
<1>1. request[r].op = "rotate" /\ request[r].at \in {"open", "write", "rename"}
  BY Alone DEF PersistFails, Rotating
<1>2. request' = [request EXCEPT ![r] = Idle] /\ UNCHANGED <<primary, disk, platform, drawn>>
  BY DEF PersistFails, Finish
<1>3. Shapes'
  BY <1>2, Blank DEF IInv, Shapes
<1>4. Stands(Idle)'
  BY DEF Idle, Stands, Rotating
<1>5. /\ Stages' /\ Single' /\ request'[r] = Idle
      /\ \A q \in Requests : q # r => request'[q] = request[q]
  BY <1>1, <1>2, <1>3, <1>4, Blank, Turn
<1>6. \A q \in Requests :
         /\ request'[q].at = "swap" <=> request[q].at = "swap"
         /\ request'[q].at = "answer" <=> request[q].at = "answer"
  BY <1>1, <1>5, Blank
<1>7. UNCHANGED <<primary, disk, platform>>
  BY <1>2
<1>8. FileInv' /\ Accepted' /\ Durable'
  BY <1>6, <1>7, SameView
<1> QED
  BY <1>3, <1>5, <1>8 DEF IInv

LEMMA SwapStep ==
  ASSUME IInv, NEW r \in Requests, Swap(r)
  PROVE  IInv'
<1> DEFINE y == request[r]
<1>0. PICK x : x = [y EXCEPT !.at = "answer"]
  OBVIOUS
<1>1. /\ y \in Request /\ y.op = "rotate" /\ y.token \in Token \ {1} /\ y.at = "swap"
      /\ y.fd = 0 /\ disk.holds[disk.api] = y.token
  BY Alone DEF Swap, Rotating, Stands
<1>2. /\ primary'.current = y.token
      /\ primary' \in [current : Token, previous : 0..MaxTokens]
      /\ request' = [request EXCEPT ![r] = x]
      /\ UNCHANGED <<disk, platform, drawn>>
  BY <1>0, <1>1, Numbers DEF Swap, IInv, Shapes
<1>3. /\ x \in Request /\ x.at = "answer" /\ x.op = "rotate"
      /\ x.token = y.token /\ x.fd = 0
  BY <1>0, <1>1 DEF Request, Steps
<1>4. Shapes'
  BY <1>2, <1>3 DEF IInv, Shapes
<1>5. Stands(x)'
  BY <1>1, <1>2, <1>3 DEF Stands, Rotating
<1>6. Stages' /\ Single' /\ request'[r] = x
  <2>1. request[r].op = "rotate" /\ x.op = "rotate" /\ x \in Request
    BY <1>1, <1>3
  <2>2. request' = [request EXCEPT ![r] = x]
    BY <1>2
  <2> QED
    BY <1>4, <1>5, <2>1, <2>2, Turn
<1>7. FileInv'
  BY <1>1, <1>2 DEF IInv, FileInv
<1>8. Accepted' /\ Durable'
  BY <1>3, <1>6 DEF Accepted, Durable, Unanswered
<1> QED
  BY <1>4, <1>6, <1>7, <1>8 DEF IInv

LEMMA AnswerStep ==
  ASSUME IInv, NEW r \in Requests, Answer(r)
  PROVE  IInv'
<1>1. /\ request[r].op = "rotate" /\ request[r].token \in Token \ {1}
      /\ primary.current = request[r].token
  BY Alone DEF Answer, Rotating, Stands
<1>2. \A q \in Requests : request[q].at # "swap"
  BY Alone DEF Answer, Rotating
<1>3. disk.holds[disk.api] = primary.current
  BY <1>2 DEF IInv, FileInv
<1>4. request' = [request EXCEPT ![r] = Idle] /\ UNCHANGED <<primary, disk, drawn>>
  BY DEF Answer, Finish
<1>5. platform' \in [token : Token, excused : BOOLEAN]
  <2>1. CASE platform' = [token |-> request[r].token, excused |-> FALSE]
    BY <1>1, <2>1
  <2>2. PICK e \in BOOLEAN : platform' \in {[token |-> request[r].token, excused |-> FALSE],
                                           [platform EXCEPT !.excused = e]}
    BY DEF Answer, IInv, Shapes
  <2> QED
    BY <1>1, <2>1, <2>2 DEF IInv, Shapes
<1>6. Shapes'
  BY <1>4, <1>5, Blank DEF IInv, Shapes
<1>7. Stands(Idle)'
  BY DEF Idle, Stands, Rotating
<1>8. Stages' /\ Single'
  BY <1>1, <1>4, <1>6, <1>7, Blank, Turn
<1>9. FileInv'
  BY <1>3, <1>4 DEF IInv, FileInv
<1>10. Accepted' /\ Durable'
  <2>1. CASE platform' = [token |-> request[r].token, excused |-> FALSE]
    BY <1>1, <1>3, <1>4, <2>1 DEF Accepted, Durable, IsPrimary, IsCurrent, Token, None
  <2>2. CASE platform' = [platform EXCEPT !.excused = @ \/ ~request[r].grace
                                                        \/ primary.previous # platform.token]
    <3>1. /\ platform'.token = platform.token /\ platform.token \in Token
          /\ ~platform'.excused => primary.previous = platform.token
      BY <2>2 DEF IInv, Shapes
    <3> QED
      BY <1>4, <3>1 DEF Accepted, Durable, IsPrimary, IsCurrent, IsGrace, Token, None
  <2> QED
    BY <2>1, <2>2 DEF Answer
<1> QED
  BY <1>6, <1>8, <1>9, <1>10 DEF IInv

LEMMA GraceStep ==
  ASSUME IInv, GracePasses
  PROVE  IInv'
<1>1. /\ primary'.current = primary.current /\ primary'.previous = None
      /\ platform'.token = platform.token /\ platform.token \in Token
      /\ ~platform'.excused => ~platform.excused /\ primary.previous # platform.token
      /\ UNCHANGED <<disk, request, drawn>>
  BY DEF GracePasses, IInv, Shapes
<1>2. Shapes'
  BY Numbers DEF GracePasses, IInv, Shapes
<1>3. Stages'
  BY <1>1 DEF IInv, Stages, Stands
<1>4. Single' /\ FileInv'
  BY <1>1 DEF IInv, Single, Managing, FileInv
<1>5. Accepted'
  BY <1>1 DEF IInv, Accepted, IsPrimary, IsCurrent, IsGrace
<1>6. Durable'
  BY <1>1 DEF IInv, Durable, Unanswered
<1> QED
  BY <1>2, <1>3, <1>4, <1>5, <1>6 DEF IInv

LEMMA RestartStep ==
  ASSUME IInv, Restart
  PROVE  IInv'
<1>1. /\ primary'.current = disk.holds[disk.api] /\ disk.holds[disk.api] \in Token
      /\ platform'.token = platform.token /\ platform.token \in Token
      /\ ~platform'.excused =>
           ~platform.excused /\ ~Unanswered /\ primary.previous # platform.token
      /\ UNCHANGED <<disk, drawn>>
  BY DEF Restart, IInv, Shapes, FileInv
<1>2. \A q \in Requests : request'[q] = Idle
  BY DEF Restart
<1>3. Shapes'
  <2>1. request' \in [Requests -> Request]
    BY Blank DEF Restart
  <2>2. primary' \in [current : Token, previous : 0..MaxTokens]
    BY <1>1, TokensAssumption DEF Restart, None
  <2>3. platform' \in [token : Token, excused : BOOLEAN]
    BY DEF Restart, IInv, Shapes
  <2> QED
    BY <1>1, <2>1, <2>2, <2>3 DEF IInv, Shapes
<1>4. Stages' /\ Single'
  BY <1>2, Blank DEF Stages, Stands, Rotating, Single, Managing, Idle
<1>5. FileInv'
  BY <1>1 DEF IInv, FileInv
<1>6. Accepted' /\ Durable'
  BY <1>1 DEF IInv, Accepted, Durable, IsPrimary, IsCurrent, Token, None
<1> QED
  BY <1>3, <1>4, <1>5, <1>6 DEF IInv

LEMMA StillStep ==
  ASSUME IInv, UNCHANGED <<primary, disk, request, platform, drawn>>
  PROVE  IInv'
BY DEF IInv, Shapes, Stages, Stands, Single, Managing, FileInv, Accepted, Durable, Unanswered,
   IsPrimary, IsCurrent, IsGrace

LEMMA TokenStep ==
  ASSUME OneAtATime, IInv, TokensNext
  PROVE  IInv'
<1> USE TokensAssumption
<1>1. ASSUME NEW r \in Requests, NEW op \in {"issue", "revoke", "rotate", "commit"},
             Authenticate(r, op)
      PROVE  IInv'
  <2> DEFINE x == [Idle EXCEPT !.at = "granted", !.op = op]
  <2>1. /\ x \in Request /\ x.at = "granted" /\ x.op = op /\ x.fd = 0
        /\ request' = [request EXCEPT ![r] = x]
    <3>1. op \in Ops /\ "granted" \in Steps
      BY DEF Ops, Steps
    <3>2. x \in Request /\ x.at = "granted" /\ x.op = op /\ x.fd = 0
      BY <3>1, Blank DEF Request
    <3> QED
      BY <1>1, <3>2 DEF Authenticate
  <2> HIDE DEF x
  <2>2. /\ request[r].at = "idle" /\ request[r].op = "none"
        /\ UNCHANGED <<primary, disk, platform, drawn>>
    BY <1>1 DEF Authenticate, IInv, Stages, Stands
  <2>3. CASE op \in {"issue", "revoke"}
    BY <2>1, <2>2, <2>3, Quiet DEF IInv, Shapes
  <2>4. CASE op \in {"rotate", "commit"}
    <3>1. Managing = {} /\ (op = "commit" => platform.token = primary.current)
      BY <1>1, <2>4 DEF Authenticate, IsPrimary, IsGrace, IsCurrent
    <3>2. Shapes'
      BY <2>1, <2>2 DEF IInv, Shapes
    <3>3. Stages'
      BY <2>1, <2>2, <3>1 DEF IInv, Shapes, Stages, Stands, Rotating
    <3>4. Single'
      BY <2>1, <3>1 DEF IInv, Shapes, Single, Managing
    <3>5. \A q \in Requests :
          /\ request'[q].at = "swap" <=> request[q].at = "swap"
          /\ request'[q].at = "answer" <=> request[q].at = "answer"
      BY <2>1, <2>2 DEF IInv, Shapes
    <3>6. FileInv' /\ Accepted' /\ Durable'
      <4>1. UNCHANGED <<primary, disk, platform>>
        BY <2>2
      <4> QED
        BY <3>5, <4>1, SameView
    <3> QED
      BY <3>2, <3>3, <3>4, <3>6 DEF IInv
  <2> QED
    BY <2>3, <2>4
<1>2. ASSUME NEW r \in Requests, NEW i \in 1..MaxAccess, Issue(r, i)
      PROVE  IInv'
  <2>2. drawn' \in Token
    BY <1>2 DEF Issue, IInv, Shapes, Token
  <2> QED
    BY <1>2, <2>2, Blank, Quiet DEF Issue, Finish
<1>3. ASSUME NEW r \in Requests, Revoke(r)
      PROVE  IInv'
  <2>2. drawn' \in Token
    BY <1>3 DEF Revoke, IInv, Shapes, Token
  <2> QED
    BY <1>3, <2>2, Blank, Quiet DEF Revoke, Finish
<1>4. ASSUME NEW r \in Requests, Commit(r)
      PROVE  IInv'
  <2>1. Shapes' /\ request[r].op = "commit" /\ Stands(Idle)'
    BY <1>4, Blank DEF Commit, Finish, IInv, Shapes, None, Stands, Rotating
  <2>2. Stages' /\ Single' /\ (\A q \in Requests : request[q].at \notin {"swap", "answer"})
    BY <1>4, <2>1, Blank, Turn DEF Commit, Finish, Rotating
  <2>3. platform.token = primary.current /\ disk.holds[disk.api] = primary.current
    BY <1>4, <2>2 DEF Commit, IInv, Stages, Stands, FileInv
  <2>4. FileInv' /\ Accepted' /\ Durable'
    BY <1>4, <2>3 DEF Commit, IInv, Shapes, FileInv, Accepted, Durable, IsPrimary, IsCurrent,
       None, Token
  <2> QED
    BY <2>1, <2>2, <2>4 DEF IInv
<1>5. ASSUME NEW r \in Requests
      PROVE  /\ \A grace \in BOOLEAN : Rotate(r, grace) => IInv'
             /\ OpenTemp(r) \/ WriteTemp(r) \/ RenameTemp(r) => IInv'
             /\ PersistFails(r) \/ Swap(r) \/ Answer(r) => IInv'
  BY RotateStep, OpenStep, WriteStep, RenameStep, FailStep, SwapStep, AnswerStep
<1>6. GracePasses \/ AccessExpires \/ Restart => IInv'
  BY GraceStep, StillStep, RestartStep DEF AccessExpires
<1> QED
  BY <1>1, <1>2, <1>3, <1>4, <1>5, <1>6 DEF TokensNext

(* The platform is not locked out: api.token always holds the primary, and *)
(* the token the platform keeps is accepted, now and after a restart,      *)
(* unless the answer to a rotation was lost and its grace is over.         *)
THEOREM NeverLockedOut ==
  ASSUME OneAtATime
  PROVE  TokensSpec => []NoLockout
<1>1. IInv /\ [TokensNext]_tokensVars => IInv'
  BY TokenStep, StillStep DEF tokensVars
<1>2. IInv => NoLockout
  <2> SUFFICES ASSUME IInv PROVE NoLockout
    OBVIOUS
  <2>1. Managing = {} => \A r \in Requests : request[r].at # "swap"
    BY DEF IInv, Stages, Stands, Managing, Rotating
  <2>2. StoreIsOnDisk
    BY <2>1 DEF IInv, FileInv, StoreIsOnDisk
  <2>3. disk.holds[disk.api] # None
    BY TokensAssumption DEF IInv, FileInv, Token, None
  <2> QED
    BY <2>2, <2>3 DEF IInv, Accepted, Durable, NoLockout
<1> QED
  BY InitIInv, <1>1, <1>2, PTL DEF TokensSpec

-----------------------------------------------------------------------------
(* Credentials.  What a list keeps, and what the lookup finds in it.       *)

(* A nonempty set of naturals has a least element.                         *)
LEMMA LeastIsThere ==
  ASSUME NEW S, S \subseteq Nat, S # {}
  PROVE  \E x \in S : \A y \in S : x <= y
<1> DEFINE Less == {pair \in Nat \X Nat : pair[1] < pair[2]}
<1>1. IsWellFoundedOn(Less, Nat)
  BY NatLessThanWellFounded, Zenon DEF OpToRel
<1>2. PICK x \in S : \A y \in S : ~(<<y, x>> \in Less)
  <2> HIDE DEF Less
  <2> QED
    BY <1>1, WFMin, Zenon
<1>3. \A y \in S : ~(y < x)
  BY <1>2
<1> QED
  BY <1>3

(* A walk along a list: there is a function that takes the steps.          *)
Walk(f, n, v0, step) == \A i \in 0..n : f[i] = IF i = 0 THEN v0 ELSE step[i][f[i - 1]]

LEMMA WalkExists ==
  ASSUME NEW V, NEW v0 \in V, NEW len \in Nat,
         NEW step \in [1..len -> [V -> V]]
  PROVE  \E f \in [0..len -> V] : Walk(f, len, v0, step)
<1> DEFINE Lost == {n \in 0..len : ~\E f \in [0..n -> V] : Walk(f, n, v0, step)}
<1>1. SUFFICES ASSUME Lost # {} PROVE FALSE
  OBVIOUS
<1>2. PICK n \in Lost : \A m \in Lost : n <= m
  <2>1. Lost \subseteq Nat
    OBVIOUS
  <2> HIDE DEF Lost
  <2> QED
    BY <1>1, <2>1, LeastIsThere
<1>3. n \in 0..len
  OBVIOUS
<1>4. n # 0
  <2>1. SUFFICES ASSUME n = 0 PROVE \E f \in [0..n -> V] : Walk(f, n, v0, step)
    OBVIOUS
  <2>2. PICK f : f = [i \in 0..n |-> v0]
    OBVIOUS
  <2>3. f \in [0..n -> V] /\ Walk(f, n, v0, step)
    BY <2>1, <2>2 DEF Walk
  <2> QED
    BY <2>3
<1>5. n - 1 \in 0..len /\ n - 1 \notin Lost
  BY <1>2, <1>3, <1>4
<1>6. PICK f \in [0..n - 1 -> V] : Walk(f, n - 1, v0, step)
  BY <1>5
<1>7. PICK g : g = [i \in 0..n |-> IF i = n THEN step[n][f[n - 1]] ELSE f[i]]
  OBVIOUS
<1>8. f[n - 1] \in V /\ step[n][f[n - 1]] \in V
  BY <1>3, <1>4
<1>9. g \in [0..n -> V]
  BY <1>3, <1>7, <1>8
<1>10. Walk(g, n, v0, step)
  <2>1. \A i \in 0..n - 1 : g[i] = f[i]
    BY <1>3, <1>7
  <2>2. g[n] = step[n][g[n - 1]]
    BY <1>3, <1>4, <1>7, <2>1
  <2>3. ASSUME NEW i \in 0..n, i # n PROVE g[i] = IF i = 0 THEN v0 ELSE step[i][g[i - 1]]
    <3>1. i \in 0..n - 1 /\ (i # 0 => i - 1 \in 0..n - 1)
      BY <1>3, <2>3
    <3>2. f[i] = IF i = 0 THEN v0 ELSE step[i][f[i - 1]]
      BY <1>6, <3>1 DEF Walk
    <3> QED
      BY <2>1, <3>1, <3>2
  <2> QED
    BY <1>4, <2>2, <2>3 DEF Walk
<1> QED
  BY <1>3, <1>9, <1>10

(* What is kept of a list.                                                 *)
Keeps(f, list, kept) ==
  f = [i \in 0..Len(list) |->
        IF i = 0 THEN <<>>
        ELSE IF i \in kept THEN Append(f[i - 1], list[i]) ELSE f[i - 1]]
KeptUpTo(s, n, list, kept, E) ==
  /\ s \in Seq(E)
  /\ \A x : (\E j \in 1..Len(s) : s[j] = x) <=> (\E i \in 1..n : i \in kept /\ list[i] = x)

LEMMA KeepsExists ==
  ASSUME NEW E, NEW list \in Seq(E), NEW kept
  PROVE  \E f : Keeps(f, list, kept)
<1> DEFINE step == [i \in 1..Len(list) |->
                     [v \in Seq(E) |-> IF i \in kept THEN Append(v, list[i]) ELSE v]]
<1>1. /\ step \in [1..Len(list) -> [Seq(E) -> Seq(E)]]
      /\ \A i \in 1..Len(list), v \in Seq(E) :
           step[i][v] = IF i \in kept THEN Append(v, list[i]) ELSE v
  OBVIOUS
<1>2. Len(list) \in Nat /\ <<>> \in Seq(E)
  OBVIOUS
<1> HIDE DEF step
<1>3. PICK f \in [0..Len(list) -> Seq(E)] : Walk(f, Len(list), <<>>, step)
  BY <1>1, <1>2, WalkExists
<1>4. ASSUME NEW i \in 0..Len(list)
      PROVE  f[i] = IF i = 0 THEN <<>>
                    ELSE IF i \in kept THEN Append(f[i - 1], list[i]) ELSE f[i - 1]
  <2>1. CASE i = 0
    BY <1>3, <2>1 DEF Walk
  <2>2. CASE i # 0
    <3>1. i \in 1..Len(list) /\ i - 1 \in 0..Len(list)
      BY <1>2, <2>2
    <3>2. f[i - 1] \in Seq(E)
      BY <3>1
    <3>3. f[i] = step[i][f[i - 1]]
      BY <1>3, <2>2 DEF Walk
    <3> QED
      BY <1>1, <2>2, <3>1, <3>2, <3>3
  <2> QED
    BY <2>1, <2>2
<1> QED
  BY <1>4 DEF Keeps

LEMMA KeepsSome ==
  ASSUME NEW E, NEW list \in Seq(E), NEW kept, NEW f, Keeps(f, list, kept)
  PROVE  KeptUpTo(f[Len(list)], Len(list), list, kept, E)
<1> DEFINE Bad == {n \in 0..Len(list) : ~KeptUpTo(f[n], n, list, kept, E)}
<1>1. Len(list) \in Nat /\ Bad \subseteq Nat
  OBVIOUS
<1>2. SUFFICES ASSUME Bad # {} PROVE FALSE
  BY <1>1
<1>3. PICK n \in Bad : \A m \in Bad : n <= m
  <2> HIDE DEF Bad
  <2> QED
    BY <1>1, <1>2, LeastIsThere
<1>4. n \in 0..Len(list) /\ ~KeptUpTo(f[n], n, list, kept, E)
  OBVIOUS
<1>5. f[n] = IF n = 0 THEN <<>> ELSE IF n \in kept THEN Append(f[n - 1], list[n]) ELSE f[n - 1]
  BY <1>4 DEF Keeps
<1>6. n # 0
  <2>1. ASSUME n = 0 PROVE KeptUpTo(<<>>, 0, list, kept, E)
    BY DEF KeptUpTo
  <2> QED
    BY <1>4, <1>5, <2>1
<1>7. KeptUpTo(f[n - 1], n - 1, list, kept, E)
  BY <1>1, <1>3, <1>4, <1>6
<1>8. n \in 1..Len(list) /\ list[n] \in E
  BY <1>4, <1>6
<1>9. PICK s : s = f[n - 1]
  OBVIOUS
<1>10. s \in Seq(E) /\ \A x : (\E j \in 1..Len(s) : s[j] = x)
                               <=> (\E i \in 1..n - 1 : i \in kept /\ list[i] = x)
  BY <1>7, <1>9 DEF KeptUpTo
<1>11. CASE n \in kept
  <2>1. PICK t : t = Append(s, list[n])
    OBVIOUS
  <2>2. /\ t \in Seq(E) /\ Len(t) = Len(s) + 1 /\ t[Len(s) + 1] = list[n] /\ Len(s) \in Nat
        /\ \A j \in 1..Len(s) : t[j] = s[j]
    BY <1>8, <1>10, <2>1
  <2>3. ASSUME NEW x
        PROVE  (\E j \in 1..Len(t) : t[j] = x) <=> (\E i \in 1..n : i \in kept /\ list[i] = x)
    <3>1. (\E j \in 1..Len(t) : t[j] = x) <=> ((\E j \in 1..Len(s) : s[j] = x) \/ list[n] = x)
      BY <2>2
    <3>2. (\E i \in 1..n : i \in kept /\ list[i] = x)
            <=> ((\E i \in 1..n - 1 : i \in kept /\ list[i] = x) \/ list[n] = x)
      BY <1>8, <1>11
    <3> QED
      BY <1>10, <3>1, <3>2
  <2>4. f[n] = t
    BY <1>5, <1>6, <1>9, <1>11, <2>1
  <2>5. KeptUpTo(t, n, list, kept, E)
    BY <2>2, <2>3 DEF KeptUpTo
  <2> QED
    BY <1>4, <2>4, <2>5
<1>12. CASE n \notin kept
  <2>1. \A x : (\E i \in 1..n : i \in kept /\ list[i] = x)
                 <=> (\E i \in 1..n - 1 : i \in kept /\ list[i] = x)
    BY <1>8, <1>12
  <2>2. f[n] = s
    BY <1>5, <1>6, <1>9, <1>12
  <2>3. KeptUpTo(s, n, list, kept, E)
    BY <1>10, <2>1 DEF KeptUpTo
  <2> QED
    BY <1>4, <2>2, <2>3
<1> QED
  BY <1>11, <1>12

LEMMA RetainedIsKept ==
  ASSUME NEW E, NEW list \in Seq(E), NEW kept
  PROVE  KeptUpTo(Retained(list, kept), Len(list), list, kept, E)
<1>1. PICK f : f = CHOOSE h : Keeps(h, list, kept)
  OBVIOUS
<1>2. Keeps(f, list, kept)
  BY <1>1, KeepsExists
<1>3. Retained(list, kept) = f[Len(list)]
  BY <1>1 DEF Retained, Keeps
<1> QED
  BY <1>2, <1>3, KeepsSome

(* What the lookup finds: the first of the best that apply.                *)
Rank(e) == 2 * e.slot.pattern + (IF e.slot.app = "any" THEN 0 ELSE 1)
Finds(f, list, target, app) ==
  f = [i \in 0..Len(list) |->
        IF i = 0 THEN NoEntry
        ELSE IF /\ Applies(list[i], target, app)
                /\ f[i - 1] = NoEntry \/ Better(list[i], f[i - 1])
          THEN list[i] ELSE f[i - 1]]
FirstBest(k, n, list, target, app) ==
  /\ k \in 1..n /\ Applies(list[k], target, app)
  /\ \A j \in 1..n : Applies(list[j], target, app) =>
       Rank(list[j]) <= Rank(list[k]) /\ (j < k => Rank(list[j]) < Rank(list[k]))
FoundUpTo(v, n, list, target, app) ==
  \/ v = NoEntry /\ \A j \in 1..n : ~Applies(list[j], target, app)
  \/ \E k \in 1..n : v = list[k] /\ FirstBest(k, n, list, target, app)

LEMMA RankIsNatural == ASSUME NEW e \in Entry PROVE Rank(e) \in Nat
<1>1. e.slot \in Slots /\ e.slot.pattern \in Nat
  BY DEF Entry, Slots, Patterns
<1> QED
  BY <1>1 DEF Rank

(* The comparison of the lookup goes by rank.                              *)
LEMMA BetterIsRank ==
  ASSUME NEW c \in Entry, NEW b \in Entry
  PROVE  Better(c, b) <=> Rank(b) < Rank(c)
<1>1. c.slot.pattern \in Nat /\ b.slot.pattern \in Nat
  BY DEF Entry, Slots, Patterns
<1> QED
  BY <1>1 DEF Better, Rank

LEMMA NoEntryIsNone == NoEntry \notin Entry
<1>1. NoEntry.method = "none"
  BY DEF NoEntry, Pushed
<1>2. \A e \in Entry : e.method # "none"
  BY DEF Entry
<1> QED
  BY <1>1, <1>2

LEMMA FindsExists ==
  ASSUME NEW list \in Seq(Entry), NEW target, NEW app
  PROVE  \E f : Finds(f, list, target, app)
<1> DEFINE V == Entry \union {NoEntry}
           Takes(i, v) == Applies(list[i], target, app) /\ (v = NoEntry \/ Better(list[i], v))
           step == [i \in 1..Len(list) |-> [v \in V |-> IF Takes(i, v) THEN list[i] ELSE v]]
<1>1. Len(list) \in Nat /\ NoEntry \in V /\ \A i \in 1..Len(list) : list[i] \in V
  OBVIOUS
<1>2. \A f : Finds(f, list, target, app) <=>
        f = [i \in 0..Len(list) |->
              IF i = 0 THEN NoEntry ELSE IF Takes(i, f[i - 1]) THEN list[i] ELSE f[i - 1]]
  BY DEF Finds
<1> HIDE DEF Takes, V
<1>3. /\ step \in [1..Len(list) -> [V -> V]]
      /\ \A i \in 1..Len(list), v \in V : step[i][v] = IF Takes(i, v) THEN list[i] ELSE v
  BY <1>1
<1> HIDE DEF step
<1>4. PICK f \in [0..Len(list) -> V] : Walk(f, Len(list), NoEntry, step)
  BY <1>1, <1>3, WalkExists
<1>5. ASSUME NEW i \in 0..Len(list)
      PROVE  f[i] = IF i = 0 THEN NoEntry ELSE IF Takes(i, f[i - 1]) THEN list[i] ELSE f[i - 1]
  <2>1. CASE i = 0
    BY <1>4, <2>1 DEF Walk
  <2>2. CASE i # 0
    <3>1. i \in 1..Len(list) /\ i - 1 \in 0..Len(list)
      BY <1>1, <2>2
    <3>2. f[i - 1] \in V
      BY <1>4, <3>1
    <3>3. f[i] = step[i][f[i - 1]]
      BY <1>4, <2>2 DEF Walk
    <3> QED
      BY <1>3, <2>2, <3>1, <3>2, <3>3
  <2> QED
    BY <2>1, <2>2
<1>6. f = [i \in 0..Len(list) |->
            IF i = 0 THEN NoEntry ELSE IF Takes(i, f[i - 1]) THEN list[i] ELSE f[i - 1]]
  BY <1>4, <1>5
<1> QED
  BY <1>2, <1>6

LEMMA FindsBest ==
  ASSUME NEW list \in Seq(Entry), NEW target, NEW app, NEW f, Finds(f, list, target, app)
  PROVE  FoundUpTo(f[Len(list)], Len(list), list, target, app)
<1> DEFINE Bad == {n \in 0..Len(list) : ~FoundUpTo(f[n], n, list, target, app)}
<1>1. Len(list) \in Nat /\ Bad \subseteq Nat
  OBVIOUS
<1>2. SUFFICES ASSUME Bad # {} PROVE FALSE
  BY <1>1
<1>3. PICK n \in Bad : \A m \in Bad : n <= m
  <2> HIDE DEF Bad
  <2> QED
    BY <1>1, <1>2, LeastIsThere
<1>4. n \in 0..Len(list) /\ ~FoundUpTo(f[n], n, list, target, app)
  OBVIOUS
<1>5. f[n] = IF n = 0 THEN NoEntry
             ELSE IF /\ Applies(list[n], target, app)
                     /\ f[n - 1] = NoEntry \/ Better(list[n], f[n - 1])
               THEN list[n] ELSE f[n - 1]
  BY <1>4 DEF Finds
<1>6. n # 0
  BY <1>4, <1>5 DEF FoundUpTo
<1>7. FoundUpTo(f[n - 1], n - 1, list, target, app)
  BY <1>1, <1>3, <1>4, <1>6
<1>8. n \in 1..Len(list) /\ n - 1 \in Nat /\ list[n] \in Entry /\ 1..n = 1..(n - 1) \union {n}
  BY <1>1, <1>4, <1>6
<1>9. \A j \in 1..n : list[j] \in Entry /\ Rank(list[j]) \in Nat
  BY <1>8, RankIsNatural
<1>10. CASE f[n - 1] = NoEntry
  <2>1. \A j \in 1..(n - 1) : ~Applies(list[j], target, app)
    BY <1>7, <1>8, <1>9, <1>10, NoEntryIsNone DEF FoundUpTo
  <2>2. CASE Applies(list[n], target, app)
    <3>1. f[n] = list[n]
      BY <1>5, <1>6, <1>10, <2>2
    <3>2. FirstBest(n, n, list, target, app)
      BY <1>8, <1>9, <2>1, <2>2 DEF FirstBest
    <3> QED
      BY <1>4, <1>8, <3>1, <3>2 DEF FoundUpTo
  <2>3. CASE ~Applies(list[n], target, app)
    <3>1. f[n] = NoEntry
      BY <1>5, <1>6, <1>10, <2>3
    <3> QED
      BY <1>4, <1>8, <2>1, <2>3, <3>1 DEF FoundUpTo
  <2> QED
    BY <2>2, <2>3
<1>11. CASE f[n - 1] # NoEntry
  <2>1. PICK k \in 1..(n - 1) : f[n - 1] = list[k] /\ FirstBest(k, n - 1, list, target, app)
    BY <1>7, <1>11 DEF FoundUpTo
  <2>2. /\ k \in 1..n /\ k < n /\ list[k] \in Entry /\ Applies(list[k], target, app)
        /\ \A j \in 1..(n - 1) : Applies(list[j], target, app) =>
             Rank(list[j]) <= Rank(list[k]) /\ (j < k => Rank(list[j]) < Rank(list[k]))
    BY <1>8, <1>9, <2>1 DEF FirstBest
  <2>3. Better(list[n], f[n - 1]) <=> Rank(list[k]) < Rank(list[n])
    BY <1>8, <2>1, <2>2, BetterIsRank
  <2>4. CASE Applies(list[n], target, app) /\ Rank(list[k]) < Rank(list[n])
    <3>1. f[n] = list[n]
      BY <1>5, <1>6, <2>3, <2>4
    <3>2. FirstBest(n, n, list, target, app)
      BY <1>8, <1>9, <2>2, <2>4 DEF FirstBest
    <3> QED
      BY <1>4, <1>8, <3>1, <3>2 DEF FoundUpTo
  <2>5. CASE ~(Applies(list[n], target, app) /\ Rank(list[k]) < Rank(list[n]))
    <3>1. f[n] = list[k]
      BY <1>5, <1>6, <1>11, <2>1, <2>3, <2>5
    <3>2. FirstBest(k, n, list, target, app)
      BY <1>8, <1>9, <2>2, <2>5 DEF FirstBest
    <3> QED
      BY <1>4, <2>2, <3>1, <3>2 DEF FoundUpTo
  <2> QED
    BY <2>4, <2>5
<1> QED
  BY <1>10, <1>11

LEMMA LookupFinds ==
  ASSUME NEW list \in Seq(Entry), NEW target, NEW app
  PROVE  FoundUpTo(LookupFor(list, target, app), Len(list), list, target, app)
<1>1. PICK f : f = CHOOSE h : Finds(h, list, target, app)
  OBVIOUS
<1>2. Finds(f, list, target, app)
  BY <1>1, FindsExists
<1>3. LookupFor(list, target, app) = f[Len(list)]
  BY <1>1 DEF LookupFor, Finds
<1> QED
  BY <1>2, <1>3, FindsBest

(* The lookup in the user's list and then the system's takes the best of   *)
(* both, and the user's where the two are equal.                           *)
LEMMA LookupTakesBest ==
  ASSUME NEW mine \in Seq(Entry), NEW theirs \in Seq(Entry), NEW target, NEW app
  PROVE  LookupFor(mine \o theirs, target, app) \in Best(mine, theirs, target, app)
<1> DEFINE fits(list) == {list[i] : i \in {j \in DOMAIN list : Applies(list[j], target, app)}}
           all == fits(mine) \union fits(theirs)
           top == {c \in all : \A b \in all : ~Better(b, c)}
<1>1. PICK list : list = mine \o theirs
  OBVIOUS
<1>2. PICK hit : hit = LookupFor(list, target, app)
  OBVIOUS
<1>3. /\ list \in Seq(Entry) /\ Len(mine) \in Nat /\ Len(list) = Len(mine) + Len(theirs)
      /\ DOMAIN mine = 1..Len(mine) /\ DOMAIN theirs = 1..Len(theirs) /\ Len(theirs) \in Nat
  BY <1>1
<1>4. /\ \A i \in 1..Len(mine) : list[i] = mine[i] /\ mine[i] \in Entry
      /\ \A i \in 1..Len(theirs) : list[Len(mine) + i] = theirs[i] /\ theirs[i] \in Entry
      /\ \A i \in 1..Len(list) : i \in 1..Len(mine) \/ i - Len(mine) \in 1..Len(theirs)
  BY <1>1, <1>3
<1>5. \A x : x \in all <=> \E i \in 1..Len(list) : x = list[i] /\ Applies(list[i], target, app)
  <2>1. ASSUME NEW i \in 1..Len(list), Applies(list[i], target, app) PROVE list[i] \in all
    <3>1. CASE i \in 1..Len(mine)
      BY <1>3, <1>4, <2>1, <3>1
    <3>2. CASE i - Len(mine) \in 1..Len(theirs)
      <4>1. PICK j : j = i - Len(mine)
        OBVIOUS
      <4>2. j \in 1..Len(theirs) /\ i = Len(mine) + j
        BY <1>3, <3>2, <4>1
      <4> QED
        BY <1>3, <1>4, <2>1, <4>2
    <3> QED
      BY <1>4, <3>1, <3>2
  <2>2. ASSUME NEW x \in fits(mine)
        PROVE  \E i \in 1..Len(list) : x = list[i] /\ Applies(list[i], target, app)
    <3>1. PICK i \in 1..Len(mine) : x = mine[i] /\ Applies(mine[i], target, app)
      BY <1>3
    <3>2. i \in 1..Len(list)
      BY <1>3
    <3> QED
      BY <1>4, <3>1, <3>2
  <2>3. ASSUME NEW x \in fits(theirs)
        PROVE  \E i \in 1..Len(list) : x = list[i] /\ Applies(list[i], target, app)
    <3>1. PICK i \in 1..Len(theirs) : x = theirs[i] /\ Applies(theirs[i], target, app)
      BY <1>3
    <3>2. Len(mine) + i \in 1..Len(list)
      BY <1>3
    <3> QED
      BY <1>4, <3>1, <3>2
  <2> QED
    BY <2>1, <2>2, <2>3
<1>6. FoundUpTo(hit, Len(list), list, target, app)
  BY <1>2, <1>3, LookupFinds
<1>7. Best(mine, theirs, target, app) =
        IF all = {} THEN {NoEntry}
        ELSE IF top \intersect fits(mine) # {} THEN top \intersect fits(mine) ELSE top
  BY DEF Best
<1>8. CASE all = {}
  <2>1. \A i \in 1..Len(list) : ~Applies(list[i], target, app)
    BY <1>5, <1>8
  <2>2. hit = NoEntry
    BY <1>6, <2>1 DEF FoundUpTo, FirstBest
  <2> QED
    BY <1>1, <1>2, <1>7, <1>8, <2>2
<1>9. CASE all # {}
  <2>1. \E i \in 1..Len(list) : Applies(list[i], target, app)
    BY <1>5, <1>9
  <2>2. PICK k \in 1..Len(list) : hit = list[k] /\ FirstBest(k, Len(list), list, target, app)
    BY <1>6, <2>1 DEF FoundUpTo
  <2>3. /\ Applies(list[k], target, app)
        /\ \A j \in 1..Len(list) : Applies(list[j], target, app) =>
             Rank(list[j]) <= Rank(list[k]) /\ (j < k => Rank(list[j]) < Rank(list[k]))
    BY <2>2 DEF FirstBest
  <2>4. \A i \in 1..Len(list) : list[i] \in Entry /\ Rank(list[i]) \in Nat
    BY <1>3, RankIsNatural
  <2>5. hit \in all
    BY <1>5, <2>2, <2>3
  <2>6. ASSUME NEW b \in all PROVE ~Better(b, hit)
    <3>1. PICK i \in 1..Len(list) : b = list[i] /\ Applies(list[i], target, app)
      BY <1>5
    <3>2. Rank(list[i]) <= Rank(list[k])
      BY <2>3, <3>1
    <3> QED
      BY <2>2, <2>4, <3>1, <3>2, BetterIsRank
  <2>7. hit \in top
    BY <2>5, <2>6
  <2>8. ASSUME NEW c \in top \intersect fits(mine) PROVE hit \in fits(mine)
    <3>1. PICK i \in 1..Len(mine) : c = mine[i] /\ Applies(mine[i], target, app)
      BY <1>3
    <3>2. i \in 1..Len(list) /\ c = list[i] /\ Applies(list[i], target, app)
      BY <1>3, <1>4, <3>1
    <3>3. ~Better(hit, c)
      BY <2>5
    <3>4. ~(Rank(list[i]) < Rank(list[k]))
      BY <2>2, <2>4, <3>2, <3>3, BetterIsRank
    <3>5. ~(i < k)
      BY <2>3, <3>2, <3>4
    <3>6. k \in 1..Len(mine)
      BY <1>3, <3>5
    <3> QED
      BY <1>3, <1>4, <2>2, <2>3, <3>6
  <2> HIDE DEF all, top, fits
  <2> QED
    BY <1>1, <1>2, <1>7, <1>9, <2>7, <2>8
<1> QED
  BY <1>8, <1>9

(* An image is pulled with what fits an identity, and with what is bound   *)
(* to the first where it is as specific.                                   *)
Served(list, target, first, second) ==
  LET hit == LookupRegistry(list, target, <<first, second>>)
      fits(app) == {i \in DOMAIN list : list[i].slot.app = app /\ list[i].slot.pattern <= target}
  IN  IF hit = NoEntry THEN fits(first) \union fits(second) \union fits("any") = {}
      ELSE hit.slot.app # first =>
             \A i \in fits(first) : list[i].slot.pattern < hit.slot.pattern

LEMMA RegistryServes ==
  ASSUME CredentialsAssumption, NEW list \in Seq(Entry), NEW target,
         NEW first \in Apps, NEW second \in Apps
  PROVE  Served(list, target, first, second)
<1> DEFINE fits(app) == {i \in DOMAIN list : list[i].slot.app = app /\ list[i].slot.pattern <= target}
           apps == <<first, second>>
           found == {i \in DOMAIN apps : LookupFor(list, target, apps[i]) # NoEntry}
           hit == LookupRegistry(list, target, apps)
<1>1. first # "any" /\ DOMAIN list = 1..Len(list) /\ \A i \in 1..Len(list) : list[i] \in Entry
  BY DEF CredentialsAssumption
<1>2. DOMAIN apps = {1, 2} /\ apps[1] = first /\ apps[2] = second
  OBVIOUS
<1>3. ASSUME NEW app, LookupFor(list, target, app) = NoEntry
      PROVE  fits(app) = {} /\ fits("any") = {}
  <2>1. FoundUpTo(NoEntry, Len(list), list, target, app)
    BY <1>3, LookupFinds
  <2>2. \A j \in 1..Len(list) : ~Applies(list[j], target, app)
    BY <1>1, <2>1, NoEntryIsNone DEF FoundUpTo
  <2> QED
    BY <1>1, <2>2 DEF Applies
<1>4. ASSUME NEW i \in fits(first), hit # NoEntry, hit.slot.app # first
      PROVE  list[i].slot.pattern < hit.slot.pattern
  <2>1. LookupFor(list, target, first) # NoEntry
    BY <1>3, <1>4
  <2>2. 1 \in found
    BY <1>2, <2>1
  <2>3. hit = LookupFor(list, target, first)
    <3>1. PICK m : m = CHOOSE n \in found : \A j \in found : n <= j
      OBVIOUS
    <3>2. \A j \in found : 1 <= j
      BY <1>2
    <3>3. m \in found /\ \A j \in found : m <= j
      BY <2>2, <3>1, <3>2
    <3>4. m = 1
      BY <1>2, <2>2, <3>3
    <3>5. hit = LookupFor(list, target, apps[m])
      BY <2>2, <3>1 DEF LookupRegistry
    <3> QED
      BY <1>2, <3>4, <3>5
  <2>4. FoundUpTo(hit, Len(list), list, target, first)
    BY <2>3, LookupFinds
  <2>5. PICK k \in 1..Len(list) : hit = list[k] /\ FirstBest(k, Len(list), list, target, first)
    BY <1>4, <2>4 DEF FoundUpTo
  <2>6. i \in 1..Len(list) /\ Applies(list[i], target, first)
    BY <1>1 DEF Applies
  <2>7. Rank(list[i]) <= Rank(hit) /\ Applies(hit, target, first)
    BY <2>5, <2>6 DEF FirstBest
  <2>8. hit.slot.app = "any" /\ list[i].slot.app = first
    BY <1>4, <2>7 DEF Applies
  <2>9. list[i].slot.pattern \in Nat /\ hit.slot.pattern \in Nat
    BY <1>1, <2>5, <2>6 DEF Entry, Slots, Patterns
  <2> QED
    BY <1>1, <2>7, <2>8, <2>9 DEF Rank
<1>5. ASSUME hit = NoEntry PROVE fits(first) \union fits(second) \union fits("any") = {}
  <2>1. found = {}
    <3>1. SUFFICES ASSUME found # {} PROVE FALSE
      OBVIOUS
    <3>2. PICK m : m = CHOOSE n \in found : \A j \in found : n <= j
      OBVIOUS
    <3>3. m \in found
      <4>1. \E n \in found : \A j \in found : n <= j
        <5>1. found \subseteq Nat
          BY <1>2
        <5> HIDE DEF found
        <5> QED
          BY <3>1, <5>1, LeastIsThere
      <4> QED
        BY <3>2, <4>1
    <3>4. hit = LookupFor(list, target, apps[m])
      BY <3>1, <3>2 DEF LookupRegistry
    <3> QED
      BY <1>5, <3>3, <3>4
  <2>2. LookupFor(list, target, first) = NoEntry /\ LookupFor(list, target, second) = NoEntry
    BY <1>2, <2>1
  <2> QED
    BY <1>3, <2>2
<1> QED
  BY <1>4, <1>5 DEF Served

-----------------------------------------------------------------------------
(* What a list holds of a slot, and that it is what was asked for.         *)
Here(list, slot) == {list[i] : i \in In(list, slot)}
Good(list, want, slot) ==
  IF want = Nothing THEN Here(list, slot) = {}
  ELSE \E e \in Here(list, slot) :
         /\ Here(list, slot) = {e} /\ e.method = want.method
         /\ e.method = "token" => e.secret = want.n

Brings(x, method) == x.adds # <<>> /\ x.adds[1].method = method
Aim(x) == IF Brings(x, "own") THEN x.n ELSE Missing
KeyFor(want) == IF want.method = "own" THEN want.n ELSE Missing

(* What holds of a slot that is not in doubt, in its file, in the list of  *)
(* each call that is at work, and in its key file.                         *)
CallGood(x, want, key, slot) ==
  /\ (slot \notin x.slots \/ x.at \in {"key", "clean"}) => Good(x.list, want, slot)
  /\ slot \in x.slots =>
       /\ ~x.mixed
       /\ x.at = "key" => key = KeyFor(want)
       /\ x.at = "clean" => key = IF Brings(x, "own") THEN x.n ELSE KeyFor(want)
       /\ x.at \in {"open", "fill"} => key = Aim(x) /\ Here(x.list, slot) = Here(x.adds, slot)
SlotGood(scope, slot) ==
  /\ authfile[scope].state # "torn" => Good(Load(scope), asked[scope][slot], slot)
  /\ \A a \in Busy(scope) : CallGood(asker[a], asked[scope][slot], keyfile[scope][slot], slot)
  /\ \A a \in Busy(scope) : slot \in asker[a].slots => Busy(scope) = {a}
  /\ \/ \E a \in Busy(scope) : slot \in asker[a].slots
     \/ keyfile[scope][slot] = KeyFor(asked[scope][slot])

(* A file is torn while it is saved, or since a save was disturbed.        *)
TornInDoubt(scope) ==
  authfile[scope].state = "torn" =>
    doubt[scope] # {} \/ \E a \in Busy(scope) : asker[a].at = "fill"

StoreGood(scope) ==
  TornInDoubt(scope) /\ \A slot \in Slots \ doubt[scope] : SlotGood(scope, slot)

AskerShape ==
  [at : AskPlaces, scope : Scopes, adds : Seq(Entry), slots : SUBSET Slots,
   n : 0..Torn, list : Seq(Entry), mixed : BOOLEAN]
PlacedAsker ==
  {x \in AskerShape :
     /\ x.at # "idle" =>
          /\ x.slots # {}
          /\ \/ x.adds = <<>>
             \/ \E e \in Entry : /\ x.adds = <<e>> /\ x.slots = {e.slot}
                                 /\ e.method = "token" => e.secret = x.n
     /\ x.at = "key" => Brings(x, "own")}
File == [state : {"absent", "whole", "torn"}, list : Seq(Entry)]
Wish == {Nothing} \union [method : {"token", "own", "home"}, n : 0..Torn]
CredentialShapes ==
  /\ authfile \in [Scopes -> File]
  /\ legacy \in [Scopes -> Seq(Entry)]
  /\ keyfile \in [Scopes -> [Slots -> 0..Torn]]
  /\ home \in BOOLEAN
  /\ asker \in [Askers -> PlacedAsker]
  /\ asked \in [Scopes -> [Slots -> Wish]]
  /\ doubt \in [Scopes -> SUBSET Slots]
  /\ spent \in [calls : 0..MaxAsks, fails : 0..MaxAskFails]

CredentialsInv == CredentialShapes /\ \A scope \in Scopes : StoreGood(scope)

LEMMA HereIs ==
  ASSUME NEW list, NEW slot, NEW E, list \in Seq(E)
  PROVE  \A x : x \in Here(list, slot) <=> (x.slot = slot /\ \E j \in 1..Len(list) : list[j] = x)
<1>1. DOMAIN list = 1..Len(list)
  OBVIOUS
<1> QED
  BY <1>1 DEF Here, In

LEMMA PlacedHere ==
  ASSUME NEW x \in PlacedAsker, x.at # "idle", NEW slot
  PROVE  /\ slot \notin x.slots => Here(x.adds, slot) = {}
         /\ x.adds = <<>> => Here(x.adds, slot) = {}
         /\ \A e : x.adds = <<e>> /\ slot = e.slot => Here(x.adds, slot) = {e}
<1>1. x.adds \in Seq(Entry)
  BY DEF PlacedAsker, AskerShape
<1>2. \A y : y \in Here(x.adds, slot) <=> (y.slot = slot /\ \E j \in 1..Len(x.adds) : x.adds[j] = y)
  BY <1>1, HereIs
<1>3. ASSUME x.adds = <<>> PROVE Here(x.adds, slot) = {}
  BY <1>2, <1>3
<1>4. ASSUME NEW e, x.adds = <<e>>
      PROVE  \A y : y \in Here(x.adds, slot) <=> (y.slot = slot /\ y = e)
  <2>1. Len(x.adds) = 1 /\ x.adds[1] = e
    BY <1>4
  <2>2. \A y : (\E j \in 1..Len(x.adds) : x.adds[j] = y) <=> y = e
    BY <2>1
  <2> QED
    BY <1>2, <2>2
<1>5. x.adds = <<>> \/ \E e \in Entry : x.adds = <<e>> /\ x.slots = {e.slot}
  BY DEF PlacedAsker
<1> QED
  BY <1>3, <1>4, <1>5

(* The edit takes what the list held of the slots that a call names, and   *)
(* puts in what the call brings.                                           *)
LEMMA EditedHere ==
  ASSUME NEW a, asker[a] \in PlacedAsker, asker[a].at # "idle", NEW slot
  PROVE  /\ Edited(a) \in Seq(Entry)
         /\ Here(Edited(a), slot) = IF slot \in asker[a].slots THEN Here(asker[a].adds, slot)
                                    ELSE Here(asker[a].list, slot)
<1>1. PICK list : list = asker[a].list
  OBVIOUS
<1>2. PICK adds : adds = asker[a].adds
  OBVIOUS
<1>3. PICK slots : slots = asker[a].slots
  OBVIOUS
<1>4. PICK kept : kept = {i \in DOMAIN list : list[i].slot \notin slots}
  OBVIOUS
<1>5. PICK rest : rest = Retained(list, kept)
  OBVIOUS
<1>6. list \in Seq(Entry) /\ adds \in Seq(Entry) /\ DOMAIN list = 1..Len(list)
  BY <1>1, <1>2 DEF PlacedAsker, AskerShape
<1>7. /\ rest \in Seq(Entry)
      /\ \A x : (\E j \in 1..Len(rest) : rest[j] = x) <=> (\E i \in 1..Len(list) : i \in kept /\ list[i] = x)
  <2>1. list \in Seq(Entry)
    BY <1>6
  <2>2. KeptUpTo(Retained(list, kept), Len(list), list, kept, Entry)
    BY <2>1, RetainedIsKept
  <2> QED
    BY <1>5, <2>2 DEF KeptUpTo
<1>8. PICK all : all = rest \o adds
  OBVIOUS
<1>9. Edited(a) = all
  BY <1>1, <1>2, <1>3, <1>4, <1>5, <1>8 DEF Edited
<1>10. \A x : (\E i \in 1..Len(list) : i \in kept /\ list[i] = x)
                <=> (x.slot \notin slots /\ \E i \in 1..Len(list) : list[i] = x)
  BY <1>4, <1>6
<1>11. all \in Seq(Entry)
  BY <1>6, <1>7, <1>8
<1>12. \A x : (\E j \in 1..Len(all) : all[j] = x)
               <=> ((\E j \in 1..Len(rest) : rest[j] = x) \/ (\E j \in 1..Len(adds) : adds[j] = x))
  <2>1. /\ Len(rest) \in Nat /\ Len(adds) \in Nat /\ Len(all) = Len(rest) + Len(adds)
        /\ \A j \in 1..Len(rest) : all[j] = rest[j]
        /\ \A j \in 1..Len(adds) : all[Len(rest) + j] = adds[j]
    BY <1>6, <1>7, <1>8
  <2>2. ASSUME NEW j \in 1..Len(all)
        PROVE  j \in 1..Len(rest) \/ \E i \in 1..Len(adds) : j = Len(rest) + i
    <3>1. PICK i : i = j - Len(rest)
      OBVIOUS
    <3>2. j = Len(rest) + i /\ (j \in 1..Len(rest) \/ i \in 1..Len(adds))
      BY <2>1, <2>2, <3>1
    <3> QED
      BY <3>2
  <2>3. (\A j \in 1..Len(rest) : j \in 1..Len(all)) /\ \A j \in 1..Len(adds) : Len(rest) + j \in 1..Len(all)
    BY <2>1
  <2>4. ASSUME NEW x, NEW j \in 1..Len(all), all[j] = x
        PROVE  (\E i \in 1..Len(rest) : rest[i] = x) \/ (\E i \in 1..Len(adds) : adds[i] = x)
    <3>1. CASE j \in 1..Len(rest)
      BY <2>1, <2>4, <3>1
    <3>2. CASE \E i \in 1..Len(adds) : j = Len(rest) + i
      BY <2>1, <2>4, <3>2
    <3> QED
      BY <2>2, <3>1, <3>2
  <2>5. ASSUME NEW x, NEW j \in 1..Len(rest), rest[j] = x PROVE \E i \in 1..Len(all) : all[i] = x
    BY <2>1, <2>3, <2>5
  <2>6. ASSUME NEW x, NEW j \in 1..Len(adds), adds[j] = x PROVE \E i \in 1..Len(all) : all[i] = x
    BY <2>1, <2>3, <2>6
  <2> QED
    BY <2>4, <2>5, <2>6
<1>13. \A x : x \in Here(all, slot) <=> (x.slot = slot /\ \E j \in 1..Len(all) : all[j] = x)
  BY <1>11, HereIs
<1>14. \A x : x \in Here(list, slot) <=> (x.slot = slot /\ \E j \in 1..Len(list) : list[j] = x)
  BY <1>6, HereIs
<1>15. \A x : x \in Here(adds, slot) <=> (x.slot = slot /\ \E j \in 1..Len(adds) : adds[j] = x)
  BY <1>6, HereIs
<1>16. slot \notin slots => Here(adds, slot) = {}
  BY <1>2, <1>3, PlacedHere
<1>17. \A x : x \in Here(all, slot)
                <=> ((x.slot = slot /\ x.slot \notin slots /\ \E i \in 1..Len(list) : list[i] = x)
                       \/ (x.slot = slot /\ \E j \in 1..Len(adds) : adds[j] = x))
  BY <1>7, <1>10, <1>12, <1>13
<1>18. CASE slot \in slots
  <2>1. \A x : x \in Here(all, slot) <=> x \in Here(adds, slot)
    BY <1>15, <1>17, <1>18
  <2>2. Here(all, slot) = Here(adds, slot)
    BY <2>1
  <2> QED
    BY <1>2, <1>3, <1>9, <1>11, <1>18, <2>2
<1>19. CASE slot \notin slots
  <2>1. \A x : x \in Here(all, slot) <=> x \in Here(list, slot)
    BY <1>14, <1>15, <1>16, <1>17, <1>19
  <2>2. Here(all, slot) = Here(list, slot)
    BY <2>1
  <2> QED
    BY <1>1, <1>3, <1>9, <1>11, <1>19, <2>2
<1> QED
  BY <1>18, <1>19

LEMMA LoadShape ==
  ASSUME CredentialShapes, NEW scope \in Scopes
  PROVE  Load(scope) \in Seq(Entry)
BY DEF CredentialShapes, Load, File

LEMMA CredentialShapesInit ==
  ASSUME CredentialsAssumption, CredentialsInit PROVE CredentialShapes
<1>1. {MaxAsks, MaxAskFails} \subseteq Nat /\ Former = 1 /\ Torn \in Nat /\ Torn > 1 /\ Missing = 0
  BY DEF CredentialsAssumption, Former, Torn, Missing
<1>2. Host \in Slots
  BY DEF Host, Slots, Patterns
<1>3. Old("token") \in Entry /\ Old("home") \in Entry /\ Pushed \in Entry
  BY <1>1, <1>2 DEF Old, Pushed, Entry
<1>4. legacy \in [Scopes -> Seq(Entry)] /\ authfile \in [Scopes -> File]
  <2> DEFINE Short(list) == list = <<>> \/ \E e \in Entry : list = <<e>>
  <2>4. \A list : Short(list) => list \in Seq(Entry)
    <3>1. <<>> \in Seq(Entry) /\ \A e \in Entry : <<e>> \in Seq(Entry)
      OBVIOUS
    <3> QED
      BY <3>1, Zenon
  <2>5. Short(<<>>) /\ Short(<<Old("token")>>) /\ Short(<<Old("home")>>) /\ Short(<<Pushed>>)
    BY <1>3
  <2>1. \A list \in {<<>>, <<Old("token")>>, <<Old("home")>>, <<Pushed>>} : list \in Seq(Entry)
    <3> HIDE DEF Short
    <3> QED
      BY <2>4, <2>5
  <2>2. legacy \in [Scopes -> Seq(Entry)]
    BY <2>1 DEF CredentialsInit, Scopes
  <2>3. authfile \in [Scopes -> File]
    <3>1. [state |-> "absent", list |-> <<>>] \in File /\ [state |-> "whole", list |-> <<Pushed>>] \in File
      BY <2>1 DEF File
    <3> QED
      BY <3>1 DEF CredentialsInit, Scopes
  <2> QED
    BY <2>2, <2>3
<1>5. keyfile \in [Scopes -> [Slots -> 0..Torn]]
  BY <1>1 DEF CredentialsInit
<1>6. NoAsk \in PlacedAsker
  BY <1>1 DEF NoAsk, PlacedAsker, AskerShape, AskPlaces, Scopes, Brings
<1>7. asked \in [Scopes -> [Slots -> Wish]]
  <2>1. \A scope \in Scopes : Load(scope) \in {<<>>, <<Old("token")>>, <<Old("home")>>, <<Pushed>>}
    BY DEF CredentialsInit, Load, Scopes
  <2>2. \A scope \in Scopes, slot \in Slots : In(Load(scope), slot) # {} =>
          Load(scope)[1].method \in {"token", "own", "home"}
    BY <2>1 DEF In, Old, Pushed
  <2>3. \A scope \in Scopes, slot \in Slots :
          (IF In(Load(scope), slot) = {} THEN Nothing
           ELSE [method |-> Load(scope)[1].method, n |-> Former]) \in Wish
    BY <1>1, <2>2 DEF Wish
  <2> QED
    BY <2>3 DEF CredentialsInit
<1> QED
  BY <1>1, <1>4, <1>5, <1>6, <1>7 DEF CredentialsInit, CredentialShapes

(* What a call brings: nothing, or one entry for the slot that it names.   *)
Brought(adds, slots, n) ==
  \/ adds = <<>>
  \/ \E e \in Entry : /\ adds = <<e>> /\ slots = {e.slot}
                      /\ e.method = "token" => e.secret = n

LEMMA BeginShapes ==
  ASSUME CredentialsAssumption, CredentialShapes, NEW a \in Callers, NEW scope \in Scopes,
         NEW adds \in Seq(Entry), NEW slots \in SUBSET Slots, slots # {},
         Brought(adds, slots, Former + spent.calls + 1), BeginAsk(a, scope, adds, slots)
  PROVE  CredentialShapes' /\ asker'[a] \in PlacedAsker /\ asker'[a].at # "idle"
<1>1. /\ spent.calls \in Nat /\ MaxAsks \in Nat /\ spent.calls < MaxAsks /\ a \in Askers
      /\ spent \in [calls : 0..MaxAsks, fails : 0..MaxAskFails]
  BY DEF CredentialsAssumption, CredentialShapes, Callers
<1>2. spent' \in [calls : 0..MaxAsks, fails : 0..MaxAskFails] /\ spent'.calls = spent.calls + 1
  BY <1>1 DEF BeginAsk
<1>3. PICK x : x = [at |-> IF adds # <<>> /\ adds[1].method = "own" THEN "key" ELSE "clean",
                    scope |-> scope, adds |-> adds, slots |-> slots, n |-> Former + spent'.calls,
                    list |-> Load(scope), mixed |-> FALSE]
  OBVIOUS
<1>4. x.n = Former + spent.calls + 1 /\ x.n \in 0..Torn
  BY <1>1, <1>2, <1>3 DEF Former, Torn
<1>5. x \in AskerShape
  BY <1>3, <1>4, LoadShape DEF AskerShape, AskPlaces
<1>6. x.slots # {} /\ x.at # "idle" /\ (x.at = "key" => Brings(x, "own")) /\ x.adds = adds /\ x.slots = slots
  BY <1>3 DEF Brings
<1>7. x \in PlacedAsker
  BY <1>4, <1>5, <1>6 DEF PlacedAsker, Brought
<1>8. asker' = [asker EXCEPT ![a] = x]
  BY <1>3 DEF BeginAsk
<1>9. doubt' \in [Scopes -> SUBSET Slots]
  <2>1. UNION {asker[b].slots : b \in Busy(scope)} \subseteq Slots
    BY DEF CredentialShapes, Busy, PlacedAsker, AskerShape
  <2> QED
    BY <2>1 DEF CredentialShapes, BeginAsk
<1>10. asker' \in [Askers -> PlacedAsker] /\ asker'[a] = x
  BY <1>1, <1>7, <1>8 DEF CredentialShapes
<1> QED
  BY <1>2, <1>6, <1>7, <1>9, <1>10 DEF CredentialShapes, BeginAsk

LEMMA UpsertBegins ==
  ASSUME CredentialsAssumption, CredentialShapes, NEW a \in Callers, NEW scope \in Scopes,
         NEW slot \in Slots, NEW method \in {"token", "own", "home"}, NEW managed \in BOOLEAN,
         UpsertCredential(a, scope, slot, method, managed)
  PROVE  \E adds \in Seq(Entry) : /\ Brought(adds, {slot}, Former + spent.calls + 1)
                                  /\ BeginAsk(a, scope, adds, {slot})
<1>1. PICK e : e = [slot |-> slot, method |-> method, managed |-> managed,
                    secret |-> IF method = "token" THEN Former + spent.calls + 1 ELSE 0]
  OBVIOUS
<1>2. spent.calls \in Nat
  BY DEF CredentialsAssumption, CredentialShapes
<1>3. e \in Entry
  BY <1>1, <1>2 DEF Entry, Former
<1>4. BeginAsk(a, scope, <<e>>, {slot})
  BY <1>1 DEF UpsertCredential
<1>5. e.slot = slot /\ (e.method = "token" => e.secret = Former + spent.calls + 1) /\ <<e>> \in Seq(Entry)
  BY <1>1, <1>3
<1>6. Brought(<<e>>, {slot}, Former + spent.calls + 1)
  BY <1>3, <1>5 DEF Brought
<1> QED
  BY <1>4, <1>5, <1>6

LEMMA RemoveBegins ==
  ASSUME CredentialShapes, NEW a \in Callers, NEW scope \in Scopes,
         NEW pattern \in Patterns, NEW managed \in BOOLEAN, RemoveCredential(a, scope, pattern, managed)
  PROVE  \E slots \in SUBSET Slots : /\ slots # {} /\ <<>> \in Seq(Entry)
                                     /\ Brought(<<>>, slots, Former + spent.calls + 1)
                                     /\ BeginAsk(a, scope, <<>>, slots)
<1>1. PICK list : list = Load(scope)
  OBVIOUS
<1>2. list \in Seq(Entry)
  BY <1>1, LoadShape
<1>3. PICK gone : gone = {i \in DOMAIN list : Removes(list[i], pattern, managed)}
  OBVIOUS
<1>4. gone # {} /\ BeginAsk(a, scope, <<>>, {list[i].slot : i \in gone})
  BY <1>1, <1>3 DEF RemoveCredential
<1>5. {list[i].slot : i \in gone} \in SUBSET Slots
  <2>1. \A i \in DOMAIN list : list[i] \in Entry
    BY <1>2
  <2> QED
    BY <1>3, <2>1 DEF Entry
<1>6. PICK slots : slots = {list[i].slot : i \in gone}
  OBVIOUS
<1>7. slots \in SUBSET Slots /\ slots # {} /\ BeginAsk(a, scope, <<>>, slots)
  BY <1>4, <1>5, <1>6
<1>8. <<>> \in Seq(Entry) /\ Brought(<<>>, slots, Former + spent.calls + 1)
  BY DEF Brought
<1> QED
  BY <1>7, <1>8

(* A step of a call that is at work.                                       *)
LEMMA CredentialShapesMove ==
  ASSUME CredentialsAssumption, CredentialShapes, NEW a \in Askers,
         WriteKey(a) \/ Clean(a) \/ Open(a) \/ Fill(a) \/ AskCutOff(a)
  PROVE  CredentialShapes'
<1>1. PICK x : x = asker[a]
  OBVIOUS
<1>2. x \in PlacedAsker /\ x \in AskerShape /\ x.scope \in Scopes /\ x.n \in 0..Torn
  BY <1>1 DEF CredentialShapes, PlacedAsker, AskerShape
<1>3. /\ authfile \in [Scopes -> File] /\ legacy \in [Scopes -> Seq(Entry)] /\ home \in BOOLEAN
      /\ keyfile \in [Scopes -> [Slots -> 0..Torn]] /\ asker \in [Askers -> PlacedAsker]
      /\ asked \in [Scopes -> [Slots -> Wish]] /\ doubt \in [Scopes -> SUBSET Slots]
      /\ spent \in [calls : 0..MaxAsks, fails : 0..MaxAskFails]
  BY DEF CredentialShapes
<1>4. NoAsk \in PlacedAsker /\ Torn \in Nat /\ Missing = 0
  BY DEF CredentialsAssumption, Torn, Missing, Former, NoAsk, PlacedAsker, AskerShape, AskPlaces, Scopes, Brings
<1>5. x.at = "key" => \E e \in Entry : x.adds = <<e>>
  BY <1>2 DEF PlacedAsker, Brings
<1>6. ASSUME NEW y, y = [x EXCEPT !.at = "clean"], x.at = "key" PROVE y \in PlacedAsker
  BY <1>2, <1>6 DEF PlacedAsker, AskerShape, AskPlaces, Brings
<1>7. ASSUME NEW y, y = [x EXCEPT !.at = "fill"], x.at = "open" PROVE y \in PlacedAsker
  BY <1>2, <1>7 DEF PlacedAsker, AskerShape, AskPlaces, Brings
<1>8. ASSUME NEW y, NEW list \in Seq(Entry), y = [x EXCEPT !.at = "open", !.list = list], x.at = "clean"
      PROVE  y \in PlacedAsker
  BY <1>2, <1>8 DEF PlacedAsker, AskerShape, AskPlaces, Brings
<1>9. ASSUME NEW z \in PlacedAsker, NEW y, y = [z EXCEPT !.mixed = TRUE] PROVE y \in PlacedAsker
  BY <1>9 DEF PlacedAsker, AskerShape, Brings
<1>10. ASSUME WriteKey(a) PROVE CredentialShapes'
  <2>1. keyfile' = [keyfile EXCEPT ![x.scope][x.adds[1].slot] = x.n]
    BY <1>1, <1>10 DEF WriteKey
  <2>2. keyfile' \in [Scopes -> [Slots -> 0..Torn]]
    BY <1>2, <1>3, <2>1
  <2>3. asker' \in [Askers -> PlacedAsker]
    BY <1>1, <1>3, <1>6, <1>10 DEF WriteKey
  <2> QED
    BY <1>3, <1>10, <2>2, <2>3 DEF WriteKey, CredentialShapes
<1>11. ASSUME Clean(a) PROVE CredentialShapes'
  <2>1. Edited(a) \in Seq(Entry)
    BY <1>1, <1>2, <1>11, EditedHere DEF Clean
  <2>2. asker' \in [Askers -> PlacedAsker]
    BY <1>1, <1>3, <1>8, <1>11, <2>1 DEF Clean
  <2>3. keyfile' \in [Scopes -> [Slots -> 0..Torn]]
    <3>1. PICK row : row = [slot \in Slots |->
            IF \E e \in {asker[a].list[i] : i \in Orphans(a)} : e.slot = slot /\ e.method = "own"
              THEN Missing ELSE keyfile[x.scope][slot]]
      OBVIOUS
    <3>2. row \in [Slots -> 0..Torn]
      BY <1>2, <1>3, <1>4, <3>1
    <3>3. keyfile' = [keyfile EXCEPT ![x.scope] = row]
      BY <1>1, <1>11, <3>1 DEF Clean
    <3> QED
      BY <1>3, <3>2, <3>3
  <2>4. home' \in BOOLEAN
    BY <1>11 DEF Clean
  <2> QED
    BY <1>3, <1>11, <2>2, <2>3, <2>4 DEF Clean, CredentialShapes
<1>12. ASSUME Open(a) PROVE CredentialShapes'
  <2>1. asker' \in [Askers -> PlacedAsker]
    BY <1>1, <1>3, <1>7, <1>12 DEF Open
  <2>2. authfile' \in [Scopes -> File]
    <3>1. [state |-> "torn", list |-> <<>>] \in File
      BY DEF File
    <3> QED
      BY <1>3, <1>12, <3>1 DEF Open
  <2> QED
    BY <1>3, <1>12, <2>1, <2>2 DEF Open, CredentialShapes
<1>13. ASSUME Fill(a) PROVE CredentialShapes'
  <2>1. authfile' \in [Scopes -> File]
    <3>1. x.list \in Seq(Entry)
      BY <1>2 DEF AskerShape
    <3>2. [state |-> "torn", list |-> <<>>] \in File /\ [state |-> "whole", list |-> x.list] \in File
      BY <3>1 DEF File
    <3> QED
      BY <1>1, <1>3, <1>13, <3>2 DEF Fill
  <2>2. asker' \in [Askers -> PlacedAsker]
    <3>1. \A b \in Askers : asker[b] \in PlacedAsker /\ [asker[b] EXCEPT !.mixed = TRUE] \in PlacedAsker
      BY <1>3, <1>9
    <3> QED
      BY <1>4, <1>13, <3>1 DEF Fill
  <2>3. asked' \in [Scopes -> [Slots -> Wish]]
    <3>1. ASSUME x.adds # <<>> PROVE [method |-> x.adds[1].method, n |-> x.n] \in Wish
      <4>1. x.at # "idle"
        BY <1>1, <1>13 DEF Fill
      <4>2. PICK e \in Entry : x.adds = <<e>>
        BY <1>2, <3>1, <4>1 DEF PlacedAsker
      <4>3. x.adds[1].method \in {"token", "own", "home"}
        BY <4>2 DEF Entry
      <4> QED
        BY <1>2, <4>3 DEF Wish
    <3>2. PICK row : row = [slot \in Slots |->
             IF slot \notin x.slots THEN asked[x.scope][slot]
             ELSE IF x.adds = <<>> THEN Nothing
             ELSE [method |-> x.adds[1].method, n |-> x.n]]
      OBVIOUS
    <3>3. row \in [Slots -> Wish]
      BY <1>2, <1>3, <3>1, <3>2 DEF Wish
    <3>4. asked' = [asked EXCEPT ![x.scope] = row]
      BY <1>1, <1>13, <3>2 DEF Fill
    <3> QED
      BY <1>3, <3>3, <3>4
  <2> QED
    BY <1>3, <1>13, <2>1, <2>2, <2>3 DEF Fill, CredentialShapes
<1>14. ASSUME AskCutOff(a) PROVE CredentialShapes'
  <2>1. asker' \in [Askers -> PlacedAsker]
    BY <1>3, <1>4, <1>14 DEF AskCutOff, AskEnds
  <2>2. doubt' \in [Scopes -> SUBSET Slots]
    BY <1>1, <1>2, <1>3, <1>14 DEF AskCutOff, InDoubt, AskerShape
  <2>3. spent' \in [calls : 0..MaxAsks, fails : 0..MaxAskFails]
    <3>1. spent.fails < MaxAskFails /\ spent' = [spent EXCEPT !.fails = @ + 1]
      BY <1>14 DEF AskCutOff, AskFails
    <3>2. MaxAskFails \in Nat
      BY DEF CredentialsAssumption
    <3> QED
      BY <1>3, <3>1, <3>2
  <2>4. keyfile' \in [Scopes -> [Slots -> 0..Torn]]
    <3>1. CASE x.at = "key"
      <4>1. PICK e \in Entry : x.adds = <<e>>
        BY <1>5, <3>1
      <4>2. PICK slot : slot = x.adds[1].slot
        OBVIOUS
      <4>3. slot \in Slots
        BY <4>1, <4>2 DEF Entry
      <4>4. \E left \in {Torn, keyfile[x.scope][slot]} : keyfile' = [keyfile EXCEPT ![x.scope][slot] = left]
        BY <1>1, <1>14, <3>1, <4>2 DEF AskCutOff
      <4>5. Torn \in 0..Torn
        BY <1>4
      <4> QED
        BY <1>2, <1>3, <4>3, <4>4, <4>5
    <3>2. CASE x.at # "key"
      BY <1>1, <1>3, <1>14, <3>2 DEF AskCutOff
    <3> QED
      BY <3>1, <3>2
  <2> QED
    BY <1>3, <1>14, <2>1, <2>2, <2>3, <2>4 DEF AskCutOff, CredentialShapes
<1> QED
  BY <1>10, <1>11, <1>12, <1>13, <1>14

LEMMA CredentialShapesNext ==
  ASSUME CredentialsAssumption, CredentialShapes, [CredentialsNext]_credentialsVars
  PROVE  CredentialShapes'
<1>1. CASE UNCHANGED credentialsVars
  BY <1>1 DEF credentialsVars, CredentialShapes
<1>2. CASE \E a \in Askers : WriteKey(a) \/ Clean(a) \/ Open(a) \/ Fill(a) \/ AskCutOff(a)
  BY <1>2, CredentialShapesMove
<1>3. CASE \E a \in Callers, scope \in Scopes, managed \in BOOLEAN, slot \in Slots,
              method \in {"token", "own", "home"} : UpsertCredential(a, scope, slot, method, managed)
  <2>1. PICK a \in Callers, scope \in Scopes, managed \in BOOLEAN, slot \in Slots,
             method \in {"token", "own", "home"} : UpsertCredential(a, scope, slot, method, managed)
    BY <1>3
  <2>2. PICK adds \in Seq(Entry) : /\ Brought(adds, {slot}, Former + spent.calls + 1)
                                   /\ BeginAsk(a, scope, adds, {slot})
    BY <2>1, UpsertBegins
  <2>3. {slot} \in SUBSET Slots /\ {slot} # {}
    OBVIOUS
  <2> QED
    BY <2>2, <2>3, BeginShapes
<1>4. CASE \E a \in Callers, scope \in Scopes, managed \in BOOLEAN, pattern \in Patterns :
             RemoveCredential(a, scope, pattern, managed)
  <2>1. PICK a \in Callers, scope \in Scopes, managed \in BOOLEAN, pattern \in Patterns :
             RemoveCredential(a, scope, pattern, managed)
    BY <1>4
  <2>2. PICK slots \in SUBSET Slots : /\ slots # {} /\ <<>> \in Seq(Entry)
                                      /\ Brought(<<>>, slots, Former + spent.calls + 1)
                                      /\ BeginAsk(a, scope, <<>>, slots)
    BY <2>1, RemoveBegins
  <2> QED
    BY <2>2, BeginShapes
<1> QED
  BY <1>1, <1>2, <1>3, <1>4 DEF CredentialsNext

(* What one step leaves of a slot when nothing about it is touched.        *)
LEMMA SlotUntouched ==
  ASSUME NEW scope, NEW slot, SlotGood(scope, slot),
         authfile'[scope] = authfile[scope], legacy'[scope] = legacy[scope],
         keyfile'[scope][slot] = keyfile[scope][slot], asked'[scope][slot] = asked[scope][slot],
         Busy(scope)' = Busy(scope), \A b \in Busy(scope) : asker'[b] = asker[b]
  PROVE  SlotGood(scope, slot)'
<1>1. Load(scope)' = Load(scope)
  BY DEF Load
<1>2. PICK busy : busy = Busy(scope) /\ busy = Busy(scope)'
  OBVIOUS
<1>3. /\ \A b \in busy : CallGood(asker[b], asked[scope][slot], keyfile[scope][slot], slot)
      /\ \A b \in busy : slot \in asker[b].slots => busy = {b}
      /\ (\E b \in busy : slot \in asker[b].slots) \/ keyfile[scope][slot] = KeyFor(asked[scope][slot])
      /\ authfile[scope].state # "torn" => Good(Load(scope), asked[scope][slot], slot)
  BY <1>2 DEF SlotGood
<1>4. /\ \A b \in busy : CallGood(asker'[b], asked'[scope][slot], keyfile'[scope][slot], slot)
      /\ \A b \in busy : slot \in asker'[b].slots => busy = {b}
      /\ (\E b \in busy : slot \in asker'[b].slots) \/ keyfile'[scope][slot] = KeyFor(asked'[scope][slot])
      /\ authfile'[scope].state # "torn" => Good(Load(scope)', asked'[scope][slot], slot)
  BY <1>1, <1>2, <1>3
<1> QED
  BY <1>2, <1>4 DEF SlotGood

(* A call on one store leaves the slots of the other as they are.          *)
Aside(a, scope) ==
  /\ authfile'[scope] = authfile[scope] /\ legacy' = legacy
  /\ keyfile'[scope] = keyfile[scope] /\ asked'[scope] = asked[scope]
  /\ doubt[scope] \subseteq doubt'[scope]
  /\ \A b \in Askers \ {a} : asker'[b] = asker[b] \/ (asker[b].scope # scope /\ asker'[b].scope # scope)
  /\ asker[a].at # "idle" => asker[a].scope # scope
  /\ asker'[a].at # "idle" => asker'[a].scope # scope

LEMMA AsideIsGood ==
  ASSUME NEW a \in Askers, NEW scope \in Scopes, Aside(a, scope), StoreGood(scope)
  PROVE  StoreGood(scope)'
<1>1. \A b \in Askers : (b \in Busy(scope)' <=> b \in Busy(scope)) /\ (b \in Busy(scope) => asker'[b] = asker[b])
  BY DEF Aside, Busy
<1>2. Busy(scope)' = Busy(scope) /\ \A b \in Busy(scope) : asker'[b] = asker[b]
  BY <1>1 DEF Busy
<1>3. TornInDoubt(scope)'
  BY <1>2 DEF StoreGood, TornInDoubt, Aside
<1>4. ASSUME NEW slot \in Slots \ doubt'[scope] PROVE SlotGood(scope, slot)'
  <2>1. SlotGood(scope, slot)
    BY DEF Aside, StoreGood
  <2> QED
    BY <1>2, <2>1, SlotUntouched DEF Aside
<1> QED
  BY <1>3, <1>4 DEF StoreGood

(* What a slot that is not in doubt is known by.                           *)
LEMMA SlotFacts ==
  ASSUME NEW scope, NEW slot, SlotGood(scope, slot)
  PROVE  /\ authfile[scope].state # "torn" => Good(Load(scope), asked[scope][slot], slot)
         /\ \A b \in Busy(scope) :
              /\ CallGood(asker[b], asked[scope][slot], keyfile[scope][slot], slot)
              /\ slot \in asker[b].slots => Busy(scope) = {b}
         /\ (\A b \in Busy(scope) : slot \notin asker[b].slots) =>
              keyfile[scope][slot] = KeyFor(asked[scope][slot])
BY DEF SlotGood

(* The slots of its store after a step of a call that goes on.             *)
LEMMA GoesOn ==
  ASSUME NEW a \in Askers, NEW scope \in Scopes, NEW slot, SlotGood(scope, slot),
         asker \in [Askers -> PlacedAsker], a \in Busy(scope),
         NEW x, asker' = [asker EXCEPT ![a] = x], x.at # "idle", x.scope = scope,
         x.slots = asker[a].slots, asked' = asked, legacy' = legacy,
         authfile'[scope] = authfile[scope] \/ authfile'[scope].state = "torn",
         slot \notin x.slots => keyfile'[scope][slot] = keyfile[scope][slot],
         CallGood(x, asked[scope][slot], keyfile'[scope][slot], slot)
  PROVE  SlotGood(scope, slot)'
<1>1. Busy(scope)' = Busy(scope) /\ asker'[a] = x /\ \A b \in Askers \ {a} : asker'[b] = asker[b]
  BY DEF Busy
<1>2. PICK busy : busy = Busy(scope) /\ busy = Busy(scope)' /\ busy \subseteq Askers
  BY <1>1 DEF Busy
<1>3. /\ \A b \in busy : CallGood(asker[b], asked[scope][slot], keyfile[scope][slot], slot)
      /\ \A b \in busy : slot \in asker[b].slots => busy = {b}
      /\ (\E b \in busy : slot \in asker[b].slots) \/ keyfile[scope][slot] = KeyFor(asked[scope][slot])
      /\ authfile[scope].state # "torn" => Good(Load(scope), asked[scope][slot], slot)
  BY <1>2 DEF SlotGood
<1>4. \A b \in busy : slot \in asker'[b].slots <=> slot \in asker[b].slots
  BY <1>1, <1>2
<1>5. authfile'[scope].state # "torn" => Good(Load(scope)', asked'[scope][slot], slot)
  BY <1>3 DEF Load
<1>6. ASSUME NEW b \in busy
      PROVE  CallGood(asker'[b], asked'[scope][slot], keyfile'[scope][slot], slot)
  <2>1. CASE b = a
    BY <1>1, <2>1
  <2>2. CASE b # a
    <3>1. slot \notin x.slots
      BY <1>2, <1>3, <2>2
    <3> QED
      BY <1>1, <1>2, <1>3, <2>2, <3>1
  <2> QED
    BY <2>1, <2>2
<1>7. (\E b \in busy : slot \in asker'[b].slots) \/ keyfile'[scope][slot] = KeyFor(asked'[scope][slot])
  <2>1. CASE slot \in x.slots
    BY <1>1, <1>2, <2>1
  <2>2. CASE slot \notin x.slots
    BY <1>3, <1>4, <2>2
  <2> QED
    BY <2>1, <2>2
<1>8. \A b \in busy : slot \in asker'[b].slots => busy = {b}
  BY <1>3, <1>4
<1> QED
  BY <1>2, <1>5, <1>6, <1>7, <1>8 DEF SlotGood

(* And after the last step of one.                                         *)
LEMMA Leaves ==
  ASSUME NEW a \in Askers, NEW scope \in Scopes, NEW slot, SlotGood(scope, slot),
         a \in Busy(scope), asker'[a] = NoAsk,
         \A b \in Askers \ {a} :
           asker'[b] = asker[b] \/ (/\ asker'[b].at = asker[b].at /\ asker'[b].scope = asker[b].scope
                                    /\ asker'[b].slots = asker[b].slots /\ asker'[b].list = asker[b].list
                                    /\ asker[b].at = "fill"),
         authfile'[scope].state # "torn" => Good(Load(scope)', asked'[scope][slot], slot),
         IF slot \in asker[a].slots THEN keyfile'[scope][slot] = KeyFor(asked'[scope][slot])
         ELSE asked'[scope][slot] = asked[scope][slot] /\ keyfile'[scope][slot] = keyfile[scope][slot]
  PROVE  SlotGood(scope, slot)'
<1>1. Busy(scope)' = Busy(scope) \ {a}
  BY DEF Busy, NoAsk
<1>2. PICK busy : busy = Busy(scope) /\ busy \subseteq Askers
  BY DEF Busy
<1>3. /\ \A b \in busy : CallGood(asker[b], asked[scope][slot], keyfile[scope][slot], slot)
      /\ \A b \in busy : slot \in asker[b].slots => busy = {b}
      /\ (\E b \in busy : slot \in asker[b].slots) \/ keyfile[scope][slot] = KeyFor(asked[scope][slot])
  BY <1>2 DEF SlotGood
<1>4. \A b \in busy \ {a} : slot \notin asker[b].slots
  BY <1>2, <1>3
<1>5. \A b \in busy \ {a} : asker'[b].slots = asker[b].slots
  BY <1>2
<1>6. keyfile'[scope][slot] = KeyFor(asked'[scope][slot])
  BY <1>3, <1>4
<1>7. ASSUME NEW b \in busy \ {a}
      PROVE  CallGood(asker'[b], asked'[scope][slot], keyfile'[scope][slot], slot)
  <2>1. slot \notin asker[b].slots /\ CallGood(asker[b], asked[scope][slot], keyfile[scope][slot], slot)
    BY <1>3, <1>4
  <2>2. Good(asker[b].list, asked[scope][slot], slot)
    BY <2>1 DEF CallGood
  <2>3. Good(asker'[b].list, asked'[scope][slot], slot)
    <3>1. asked'[scope][slot] = asked[scope][slot]
      BY <1>2, <1>3
    <3>2. asker'[b].list = asker[b].list
      BY <1>2
    <3> QED
      BY <2>2, <3>1, <3>2
  <2> QED
    BY <1>5, <2>1, <2>3 DEF CallGood
<1> QED
  BY <1>1, <1>2, <1>4, <1>5, <1>6, <1>7 DEF SlotGood

LEMMA BeginStores ==
  ASSUME CredentialShapes, NEW a \in Callers, NEW scope \in Scopes,
         NEW adds \in Seq(Entry), NEW slots \in SUBSET Slots,
         BeginAsk(a, scope, adds, slots), \A s \in Scopes : StoreGood(s)
  PROVE  \A s \in Scopes : StoreGood(s)'
<1>1. PICK x : x = [at |-> IF adds # <<>> /\ adds[1].method = "own" THEN "key" ELSE "clean",
                    scope |-> scope, adds |-> adds, slots |-> slots, n |-> Former + spent'.calls,
                    list |-> Load(scope), mixed |-> FALSE]
  OBVIOUS
<1>2. /\ asker' = [asker EXCEPT ![a] = x] /\ authfile[scope].state # "torn"
      /\ authfile' = authfile /\ legacy' = legacy /\ keyfile' = keyfile /\ asked' = asked
      /\ doubt' = [doubt EXCEPT ![scope] =
           IF Busy(scope) = {} THEN @ ELSE @ \union slots \union UNION {asker[b].slots : b \in Busy(scope)}]
  BY <1>1 DEF BeginAsk
<1>3. /\ a \in Askers /\ asker[a].at = "idle" /\ asker'[a] = x /\ \A b \in Askers \ {a} : asker'[b] = asker[b]
      /\ doubt \in [Scopes -> SUBSET Slots]
  BY <1>2 DEF Callers, CredentialShapes
<1>4. /\ x.scope = scope /\ x.at \in {"key", "clean"} /\ x.adds = adds /\ x.slots = slots
      /\ x.list = Load(scope) /\ x.mixed = FALSE /\ (x.at = "key" <=> Brings(x, "own"))
  BY <1>1 DEF Brings
<1>5. ASSUME NEW s \in Scopes, s # scope PROVE StoreGood(s)'
  <2>1. Aside(a, s)
    BY <1>2, <1>3, <1>4, <1>5 DEF Aside
  <2> QED
    BY <1>3, <2>1, AsideIsGood
<1>6. Busy(scope)' = Busy(scope) \union {a}
  BY <1>3, <1>4 DEF Busy
<1>7. TornInDoubt(scope)'
  BY <1>2 DEF TornInDoubt
<1>8. ASSUME NEW slot \in Slots \ doubt'[scope] PROVE SlotGood(scope, slot)'
  <2>1. SlotGood(scope, slot)
    BY <1>2, <1>3 DEF StoreGood
  <2>2. PICK want, key : want = asked[scope][slot] /\ key = keyfile[scope][slot]
    OBVIOUS
  <2>3. Good(Load(scope), want, slot) /\ (\A b \in Busy(scope) : CallGood(asker[b], want, key, slot))
    BY <1>2, <2>1, <2>2 DEF SlotGood
  <2>4. slot \in slots => Busy(scope) = {}
    BY <1>2, <1>3, <1>8
  <2>5. \A b \in Busy(scope) : slot \notin asker[b].slots
    BY <1>2, <1>3, <1>8
  <2>6. key = KeyFor(want)
    BY <2>1, <2>2, <2>5 DEF SlotGood
  <2>7. CallGood(x, want, key, slot)
    BY <1>4, <2>3, <2>6 DEF CallGood
  <2>8. \A b \in Busy(scope) : asker'[b] = asker[b] /\ b # a
    BY <1>3 DEF Busy
  <2>9. Load(scope)' = Load(scope)
    BY <1>2 DEF Load
  <2>10. \A b \in Busy(scope)' : CallGood(asker'[b], want, key, slot)
    BY <1>3, <1>6, <2>3, <2>7, <2>8
  <2>11. \A b \in Busy(scope)' : slot \in asker'[b].slots => Busy(scope)' = {b}
    BY <1>3, <1>4, <1>6, <2>4, <2>5, <2>8
  <2> QED
    BY <1>2, <2>2, <2>3, <2>6, <2>9, <2>10, <2>11 DEF SlotGood
<1>9. StoreGood(scope)'
  BY <1>7, <1>8 DEF StoreGood
<1> QED
  BY <1>5, <1>9

(* What a call that is at work is, and what its step leaves aside.         *)
LEMMA AtWork ==
  ASSUME CredentialShapes, NEW a \in Askers, asker[a].at # "idle"
  PROVE  /\ asker[a] \in PlacedAsker /\ asker[a].scope \in Scopes /\ a \in Busy(asker[a].scope)
         /\ asker[a].slots # {} /\ asker[a].slots \subseteq Slots
         /\ asker \in [Askers -> PlacedAsker] /\ doubt \in [Scopes -> SUBSET Slots]
         /\ keyfile \in [Scopes -> [Slots -> 0..Torn]] /\ authfile \in [Scopes -> File]
         /\ asked \in [Scopes -> [Slots -> Wish]]
         /\ asker[a].adds = <<>> \/ \E e \in Entry : /\ asker[a].adds = <<e>> /\ asker[a].slots = {e.slot}
                                                     /\ e.method = "token" => e.secret = asker[a].n
         /\ asker[a].at = "key" => Brings(asker[a], "own")
         /\ asker[a].at \in AskPlaces
BY DEF CredentialShapes, PlacedAsker, AskerShape, Busy

LEMMA MoveAside ==
  ASSUME NEW a \in Askers, asker[a].at # "idle", asker \in [Askers -> PlacedAsker],
         NEW x, asker' = [asker EXCEPT ![a] = x], x.at = "idle" \/ x.scope = asker[a].scope,
         NEW s \in Scopes, s # asker[a].scope, authfile'[s] = authfile[s], legacy' = legacy,
         keyfile'[s] = keyfile[s], asked' = asked, doubt[s] \subseteq doubt'[s], StoreGood(s)
  PROVE  StoreGood(s)'
<1>1. Aside(a, s)
  BY DEF Aside
<1> QED
  BY <1>1, AsideIsGood

LEMMA WriteKeyStores ==
  ASSUME CredentialShapes, NEW a \in Askers, WriteKey(a), \A s \in Scopes : StoreGood(s)
  PROVE  \A s \in Scopes : StoreGood(s)'
<1>1. PICK x, scope : x = asker[a] /\ scope = x.scope
  OBVIOUS
<1>2. x.at = "key" /\ asker[a].at # "idle"
  BY <1>1 DEF WriteKey
<1>3. PICK y : y = [x EXCEPT !.at = "clean"]
  OBVIOUS
<1>4. /\ asker' = [asker EXCEPT ![a] = y] /\ UNCHANGED <<authfile, legacy, asked, doubt>>
      /\ keyfile' = [keyfile EXCEPT ![scope][x.adds[1].slot] = x.n]
  BY <1>1, <1>3 DEF WriteKey
<1>5. /\ x \in PlacedAsker /\ scope \in Scopes /\ a \in Busy(scope) /\ asker \in [Askers -> PlacedAsker]
      /\ keyfile \in [Scopes -> [Slots -> 0..Torn]] /\ doubt \in [Scopes -> SUBSET Slots]
      /\ Brings(x, "own")
  BY <1>1, <1>2, AtWork
<1>6. /\ y.at = "clean" /\ y.scope = scope /\ y.slots = x.slots /\ y.adds = x.adds /\ y.list = x.list
      /\ y.n = x.n /\ y.mixed = x.mixed /\ Brings(y, "own")
  BY <1>1, <1>3, <1>5 DEF PlacedAsker, AskerShape, Brings
<1>7. PICK e : x.adds = <<e>> /\ x.slots = {e.slot} /\ e.slot \in Slots /\ x.adds[1].slot = e.slot
  BY <1>2, <1>5 DEF PlacedAsker, Brings, Entry
<1>8. ASSUME NEW s \in Scopes, s # scope PROVE StoreGood(s)'
  <2>1. keyfile'[s] = keyfile[s]
    BY <1>4, <1>5, <1>8
  <2> QED
    BY <1>1, <1>2, <1>4, <1>5, <1>6, <1>8, <2>1, MoveAside
<1>9. ASSUME NEW slot \in Slots \ doubt[scope] PROVE SlotGood(scope, slot)'
  <2>1. SlotGood(scope, slot)
    BY <1>5 DEF StoreGood
  <2>2. CallGood(x, asked[scope][slot], keyfile[scope][slot], slot)
    BY <1>1, <1>5, <2>1 DEF SlotGood
  <2>3. slot \in x.slots => keyfile'[scope][slot] = x.n
    BY <1>4, <1>5, <1>7
  <2>4. slot \notin x.slots => keyfile'[scope][slot] = keyfile[scope][slot]
    BY <1>4, <1>5, <1>7
  <2>5. CallGood(y, asked[scope][slot], keyfile'[scope][slot], slot)
    BY <1>2, <1>6, <2>2, <2>3 DEF CallGood
  <2> QED
    BY <1>1, <1>4, <1>5, <1>6, <2>1, <2>4, <2>5, GoesOn
<1>10. TornInDoubt(scope)'
  <2>1. TornInDoubt(scope)
    BY <1>5 DEF StoreGood
  <2>2. \A b \in Busy(scope) : asker[b].at = "fill" => b # a /\ b \in Busy(scope)' /\ asker'[b] = asker[b]
    BY <1>1, <1>2, <1>4, <1>5 DEF Busy
  <2> QED
    BY <1>4, <2>1, <2>2 DEF TornInDoubt
<1>11. StoreGood(scope)'
  BY <1>4, <1>9, <1>10 DEF StoreGood
<1> QED
  BY <1>8, <1>11

LEMMA CleanStores ==
  ASSUME CredentialShapes, NEW a \in Askers, Clean(a), \A s \in Scopes : StoreGood(s)
  PROVE  \A s \in Scopes : StoreGood(s)'
<1>1. PICK x, scope : x = asker[a] /\ scope = x.scope
  OBVIOUS
<1>2. x.at = "clean" /\ asker[a].at # "idle"
  BY <1>1 DEF Clean
<1>3. PICK y : y = [x EXCEPT !.at = "open", !.list = Edited(a)]
  OBVIOUS
<1>4. PICK old : old = {x.list[i] : i \in Orphans(a)}
  OBVIOUS
<1>5. /\ asker' = [asker EXCEPT ![a] = y] /\ UNCHANGED <<authfile, legacy, asked, doubt>>
      /\ keyfile' = [keyfile EXCEPT ![scope] =
           [slot \in Slots |-> IF \E e \in old : e.slot = slot /\ e.method = "own" THEN Missing
                               ELSE keyfile[scope][slot]]]
  <2>1. asker' = [asker EXCEPT ![a] = y] /\ UNCHANGED <<authfile, legacy, asked, doubt>>
    BY <1>1, <1>3 DEF Clean
  <2>2. keyfile' = [keyfile EXCEPT ![asker[a].scope] =
           [slot \in Slots |->
              IF \E e \in {asker[a].list[i] : i \in Orphans(a)} : e.slot = slot /\ e.method = "own"
                THEN Missing ELSE keyfile[asker[a].scope][slot]]]
    BY DEF Clean
  <2> QED
    BY <1>1, <1>4, <2>1, <2>2
<1>6. /\ x \in PlacedAsker /\ scope \in Scopes /\ a \in Busy(scope) /\ asker \in [Askers -> PlacedAsker]
      /\ keyfile \in [Scopes -> [Slots -> 0..Torn]] /\ doubt \in [Scopes -> SUBSET Slots]
  BY <1>1, <1>2, AtWork
<1>7. /\ y.at = "open" /\ y.scope = scope /\ y.slots = x.slots /\ y.adds = x.adds /\ y.list = Edited(a)
      /\ y.n = x.n /\ y.mixed = x.mixed /\ Aim(y) = Aim(x)
  BY <1>1, <1>3, <1>6 DEF PlacedAsker, AskerShape, Aim, Brings
<1>8. ASSUME NEW s \in Scopes, s # scope PROVE StoreGood(s)'
  <2>1. keyfile'[s] = keyfile[s]
    BY <1>5, <1>6, <1>8
  <2> QED
    BY <1>1, <1>2, <1>5, <1>6, <1>7, <1>8, <2>1, MoveAside
<1>9. /\ x.list \in Seq(Entry) /\ \A e \in old : e.slot \in x.slots
      /\ \A e : e \in old <=> \E i \in DOMAIN x.list : /\ e = x.list[i] /\ e.slot \in x.slots
                                                       /\ x.adds = <<>> \/ x.adds[1].method # e.method
  <2>1. x.list \in Seq(Entry)
    BY <1>6 DEF PlacedAsker, AskerShape
  <2>2. \A i : i \in Orphans(a) <=> /\ i \in DOMAIN x.list /\ x.list[i].slot \in x.slots
                                    /\ x.adds = <<>> \/ x.adds[1].method # x.list[i].method
    BY <1>1 DEF Orphans, Replaced
  <2> QED
    BY <1>4, <2>1, <2>2
<1>10. ASSUME NEW slot \in Slots \ doubt[scope] PROVE SlotGood(scope, slot)'
  <2>1. SlotGood(scope, slot)
    BY <1>6 DEF StoreGood
  <2>2. PICK want, key : want = asked[scope][slot] /\ key = keyfile[scope][slot]
    OBVIOUS
  <2>3. CallGood(x, want, key, slot)
    BY <1>1, <1>6, <2>1, <2>2 DEF SlotGood
  <2>4. keyfile'[scope][slot] = IF \E e \in old : e.slot = slot /\ e.method = "own" THEN Missing ELSE key
    BY <1>5, <1>6, <2>2
  <2>5. slot \notin x.slots => keyfile'[scope][slot] = key
    BY <1>9, <2>4
  <2>6. Here(y.list, slot) = IF slot \in x.slots THEN Here(x.adds, slot) ELSE Here(x.list, slot)
    BY <1>1, <1>2, <1>6, <1>7, EditedHere
  <2>7. Good(x.list, want, slot)
    BY <1>2, <2>3 DEF CallGood
  <2>8. ASSUME slot \in x.slots PROVE keyfile'[scope][slot] = Aim(x)
    <3>1. key = IF Brings(x, "own") THEN x.n ELSE KeyFor(want)
      BY <1>2, <2>3, <2>8 DEF CallGood
    <3>2. CASE Brings(x, "own")
      <4>1. \A e \in old : e.method # "own"
        BY <1>9, <3>2 DEF Brings
      <4> QED
        BY <2>4, <3>1, <3>2, <4>1 DEF Aim
    <3>3. CASE ~Brings(x, "own") /\ want.method # "own"
      BY <2>4, <3>1, <3>3 DEF Aim, KeyFor
    <3>4. CASE ~Brings(x, "own") /\ want.method = "own"
      <4>1. want # Nothing
        BY <3>4 DEF Nothing
      <4>2. PICK e \in Here(x.list, slot) : e.method = "own"
        BY <2>7, <3>4, <4>1 DEF Good
      <4>3. e.slot = slot /\ \E i \in DOMAIN x.list : e = x.list[i]
        BY <4>2 DEF Here, In
      <4>4. e \in old
        BY <1>9, <2>8, <3>4, <4>2, <4>3 DEF Brings
      <4> QED
        BY <2>4, <3>4, <4>2, <4>3, <4>4 DEF Aim
    <3> QED
      BY <3>2, <3>3, <3>4
  <2>9. slot \notin x.slots => Good(y.list, want, slot)
    BY <2>6, <2>7 DEF Good
  <2>10. slot \in x.slots => ~y.mixed
    BY <1>7, <2>3 DEF CallGood
  <2>11. CallGood(y, want, keyfile'[scope][slot], slot)
    BY <1>7, <2>6, <2>8, <2>9, <2>10 DEF CallGood
  <2> QED
    BY <1>1, <1>5, <1>6, <1>7, <2>1, <2>2, <2>5, <2>11, GoesOn
<1>11. TornInDoubt(scope)'
  <2>1. TornInDoubt(scope)
    BY <1>6 DEF StoreGood
  <2>2. \A b \in Busy(scope) : asker[b].at = "fill" => b # a /\ b \in Busy(scope)' /\ asker'[b] = asker[b]
    BY <1>1, <1>2, <1>5, <1>6 DEF Busy
  <2> QED
    BY <1>5, <2>1, <2>2 DEF TornInDoubt
<1>12. StoreGood(scope)'
  BY <1>5, <1>10, <1>11 DEF StoreGood
<1> QED
  BY <1>8, <1>12

LEMMA OpenStores ==
  ASSUME CredentialShapes, NEW a \in Askers, Open(a), \A s \in Scopes : StoreGood(s)
  PROVE  \A s \in Scopes : StoreGood(s)'
<1>1. PICK x, scope : x = asker[a] /\ scope = x.scope
  OBVIOUS
<1>2. x.at = "open" /\ asker[a].at # "idle"
  BY <1>1 DEF Open
<1>3. PICK y : y = [x EXCEPT !.at = "fill"]
  OBVIOUS
<1>4. /\ asker' = [asker EXCEPT ![a] = y] /\ UNCHANGED <<legacy, keyfile, asked, doubt>>
      /\ authfile' = [authfile EXCEPT ![scope] = [state |-> "torn", list |-> <<>>]]
  BY <1>1, <1>3 DEF Open
<1>5. /\ x \in PlacedAsker /\ scope \in Scopes /\ a \in Busy(scope) /\ asker \in [Askers -> PlacedAsker]
      /\ authfile \in [Scopes -> File] /\ doubt \in [Scopes -> SUBSET Slots]
  BY <1>1, <1>2, AtWork
<1>6. /\ y.at = "fill" /\ y.scope = scope /\ y.slots = x.slots /\ y.adds = x.adds /\ y.list = x.list
      /\ y.n = x.n /\ y.mixed = x.mixed /\ Aim(y) = Aim(x)
  BY <1>1, <1>3, <1>5 DEF PlacedAsker, AskerShape, Aim, Brings
<1>7. ASSUME NEW s \in Scopes, s # scope PROVE StoreGood(s)'
  <2>1. authfile'[s] = authfile[s]
    BY <1>4, <1>5, <1>7
  <2> QED
    BY <1>1, <1>2, <1>4, <1>5, <1>6, <1>7, <2>1, MoveAside
<1>8. authfile'[scope].state = "torn" /\ asker'[a] = y /\ a \in Busy(scope)'
  BY <1>4, <1>5, <1>6 DEF Busy
<1>9. ASSUME NEW slot \in Slots \ doubt[scope] PROVE SlotGood(scope, slot)'
  <2>1. SlotGood(scope, slot)
    BY <1>5 DEF StoreGood
  <2>2. CallGood(x, asked[scope][slot], keyfile[scope][slot], slot)
    BY <1>1, <1>5, <2>1 DEF SlotGood
  <2>3. CallGood(y, asked[scope][slot], keyfile'[scope][slot], slot)
    BY <1>2, <1>4, <1>6, <2>2 DEF CallGood
  <2> QED
    BY <1>1, <1>4, <1>5, <1>6, <1>8, <2>1, <2>3, GoesOn
<1>10. TornInDoubt(scope)'
  BY <1>6, <1>8 DEF TornInDoubt
<1>11. StoreGood(scope)'
  BY <1>4, <1>9, <1>10 DEF StoreGood
<1> QED
  BY <1>7, <1>11

LEMMA FillStores ==
  ASSUME CredentialShapes, NEW a \in Askers, Fill(a), \A s \in Scopes : StoreGood(s)
  PROVE  \A s \in Scopes : StoreGood(s)'
<1>1. PICK x, scope : x = asker[a] /\ scope = x.scope
  OBVIOUS
<1>2. x.at = "fill" /\ asker[a].at # "idle"
  BY <1>1 DEF Fill
<1>3. /\ x \in PlacedAsker /\ scope \in Scopes /\ a \in Busy(scope) /\ asker \in [Askers -> PlacedAsker]
      /\ authfile \in [Scopes -> File] /\ doubt \in [Scopes -> SUBSET Slots]
      /\ asked \in [Scopes -> [Slots -> Wish]] /\ x.slots # {} /\ x.slots \subseteq Slots
      /\ x.adds = <<>> \/ \E e \in Entry : /\ x.adds = <<e>> /\ x.slots = {e.slot}
                                           /\ e.method = "token" => e.secret = x.n
  BY <1>1, <1>2, AtWork
<1>4. /\ UNCHANGED <<legacy, keyfile, doubt>>
      /\ \/ authfile' = [authfile EXCEPT ![scope] = [state |-> "whole", list |-> x.list]]
         \/ x.mixed /\ authfile' = [authfile EXCEPT ![scope] = [state |-> "torn", list |-> <<>>]]
  BY <1>1 DEF Fill
<1>5. /\ asker'[a] = NoAsk
      /\ \A b \in Askers \ {a} :
           asker'[b] = IF asker[b].at = "fill" /\ asker[b].scope = scope
                         THEN [asker[b] EXCEPT !.mixed = TRUE] ELSE asker[b]
  BY <1>1 DEF Fill
<1>6. \A b \in Askers \ {a} :
        asker'[b] = asker[b] \/ (/\ asker'[b].at = asker[b].at /\ asker'[b].scope = asker[b].scope
                                 /\ asker'[b].slots = asker[b].slots /\ asker'[b].list = asker[b].list
                                 /\ asker[b].at = "fill" /\ asker[b].scope = scope)
  <2>1. ASSUME NEW z \in PlacedAsker, NEW y, y = [z EXCEPT !.mixed = TRUE]
        PROVE  y.at = z.at /\ y.scope = z.scope /\ y.slots = z.slots /\ y.list = z.list
    BY <2>1 DEF PlacedAsker, AskerShape
  <2> QED
    BY <1>3, <1>5, <2>1
<1>7. asked' = [asked EXCEPT ![scope] = [slot \in Slots |->
           IF slot \notin x.slots THEN asked[scope][slot]
           ELSE IF x.adds = <<>> THEN Nothing
           ELSE [method |-> x.adds[1].method, n |-> x.n]]]
  <2>1. asked' = [asked EXCEPT ![asker[a].scope] = [slot \in Slots |->
           IF slot \notin asker[a].slots THEN asked[asker[a].scope][slot]
           ELSE IF asker[a].adds = <<>> THEN Nothing
           ELSE [method |-> asker[a].adds[1].method, n |-> asker[a].n]]]
    BY DEF Fill
  <2> QED
    BY <1>1, <2>1
<1>8. ASSUME NEW s \in Scopes, s # scope PROVE StoreGood(s)'
  <2>1. authfile'[s] = authfile[s] /\ asked'[s] = asked[s]
    BY <1>3, <1>4, <1>7, <1>8
  <2>2. Aside(a, s)
    BY <1>1, <1>4, <1>5, <1>6, <1>8, <2>1 DEF Aside, NoAsk
  <2> QED
    BY <2>2, AsideIsGood
<1>9. ASSUME NEW slot \in Slots \ doubt[scope] PROVE SlotGood(scope, slot)'
  <2>1. SlotGood(scope, slot)
    BY <1>3 DEF StoreGood
  <2>2. PICK want, key : want = asked[scope][slot] /\ key = keyfile[scope][slot]
    OBVIOUS
  <2>3. CallGood(x, want, key, slot)
    BY <1>1, <1>3, <2>1, <2>2 DEF SlotGood
  <2>4. PICK then : then = asked'[scope][slot]
    OBVIOUS
  <2>5. then = IF slot \notin x.slots THEN want
               ELSE IF x.adds = <<>> THEN Nothing ELSE [method |-> x.adds[1].method, n |-> x.n]
    BY <1>3, <1>7, <2>2, <2>4
  <2>6. ASSUME slot \in x.slots PROVE ~x.mixed /\ key = Aim(x) /\ Here(x.list, slot) = Here(x.adds, slot)
    BY <1>2, <2>3, <2>6 DEF CallGood
  <2>7. Good(x.list, then, slot)
    <3>1. CASE slot \notin x.slots
      BY <2>3, <2>5, <3>1 DEF CallGood
    <3>2. CASE slot \in x.slots /\ x.adds = <<>>
      <4>1. Here(x.adds, slot) = {}
        BY <1>1, <1>2, <1>3, <3>2, PlacedHere
      <4>2. then = Nothing
        BY <2>5, <3>2
      <4> QED
        BY <2>6, <3>2, <4>1, <4>2 DEF Good
    <3>3. CASE slot \in x.slots /\ x.adds # <<>>
      <4>1. PICK e \in Entry : x.adds = <<e>> /\ x.slots = {e.slot} /\ (e.method = "token" => e.secret = x.n)
        BY <1>3, <3>3
      <4>2. slot = e.slot /\ Here(x.adds, slot) = {e}
        BY <1>1, <1>2, <1>3, <3>3, <4>1, PlacedHere
      <4>3. then = [method |-> e.method, n |-> x.n]
        BY <2>5, <3>3, <4>1
      <4>4. then.method = e.method /\ then.n = x.n /\ then # Nothing
        BY <4>3 DEF Entry, Nothing
      <4>5. Here(x.list, slot) = {e}
        BY <2>6, <3>3, <4>2
      <4> QED
        BY <4>1, <4>4, <4>5 DEF Good
    <3> QED
      BY <3>1, <3>2, <3>3
  <2>8. slot \in x.slots => key = KeyFor(then)
    <3>1. CASE slot \in x.slots /\ x.adds = <<>>
      BY <2>5, <2>6, <3>1 DEF Aim, KeyFor, Nothing, Brings
    <3>2. CASE slot \in x.slots /\ x.adds # <<>>
      BY <2>5, <2>6, <3>2 DEF Aim, KeyFor, Brings
    <3> QED
      BY <3>1, <3>2
  <2>9. authfile'[scope].state # "torn" => Good(Load(scope)', then, slot)
    <3>1. ASSUME authfile'[scope].state # "torn" PROVE Load(scope)' = x.list
      BY <1>3, <1>4, <3>1 DEF Load
    <3> QED
      BY <2>7, <3>1
  <2>10. keyfile'[scope][slot] = keyfile[scope][slot]
    BY <1>4
  <2>11. IF slot \in x.slots THEN keyfile'[scope][slot] = KeyFor(asked'[scope][slot])
         ELSE asked'[scope][slot] = asked[scope][slot] /\ keyfile'[scope][slot] = keyfile[scope][slot]
    BY <2>2, <2>4, <2>5, <2>8, <2>10
  <2>12. \A b \in Askers \ {a} :
           asker'[b] = asker[b] \/ (/\ asker'[b].at = asker[b].at /\ asker'[b].scope = asker[b].scope
                                    /\ asker'[b].slots = asker[b].slots /\ asker'[b].list = asker[b].list
                                    /\ asker[b].at = "fill")
    BY <1>6
  <2>13. authfile'[scope].state # "torn" => Good(Load(scope)', asked'[scope][slot], slot)
    BY <2>4, <2>9
  <2> QED
    BY <1>1, <1>3, <1>5, <2>1, <2>11, <2>12, <2>13, Leaves
<1>10. TornInDoubt(scope)'
  <2>1. ASSUME authfile'[scope].state = "torn" PROVE doubt[scope] # {}
    <3>1. x.mixed
      BY <1>3, <1>4, <2>1
    <3>2. PICK slot \in x.slots : slot \in Slots
      BY <1>3
    <3>3. ASSUME slot \notin doubt[scope] PROVE FALSE
      <4>1. SlotGood(scope, slot)
        BY <1>3, <3>2, <3>3 DEF StoreGood
      <4>2. CallGood(x, asked[scope][slot], keyfile[scope][slot], slot)
        BY <1>1, <1>3, <4>1 DEF SlotGood
      <4> QED
        BY <3>1, <3>2, <4>2 DEF CallGood
    <3> QED
      BY <3>3
  <2> QED
    BY <1>4, <2>1 DEF TornInDoubt
<1>11. StoreGood(scope)'
  BY <1>4, <1>9, <1>10 DEF StoreGood
<1> QED
  BY <1>8, <1>11

LEMMA CutOffStores ==
  ASSUME CredentialShapes, NEW a \in Askers, AskCutOff(a), \A s \in Scopes : StoreGood(s)
  PROVE  \A s \in Scopes : StoreGood(s)'
<1>1. PICK x, scope : x = asker[a] /\ scope = x.scope
  OBVIOUS
<1>2. asker[a].at # "idle"
  BY DEF AskCutOff
<1>3. /\ x \in PlacedAsker /\ scope \in Scopes /\ a \in Busy(scope) /\ asker \in [Askers -> PlacedAsker]
      /\ doubt \in [Scopes -> SUBSET Slots] /\ x.slots # {} /\ x.slots \subseteq Slots
      /\ keyfile \in [Scopes -> [Slots -> 0..Torn]] /\ (x.at = "key" => Brings(x, "own"))
      /\ x.adds = <<>> \/ \E e \in Entry : /\ x.adds = <<e>> /\ x.slots = {e.slot}
                                           /\ e.method = "token" => e.secret = x.n
  BY <1>1, <1>2, AtWork
<1>4. /\ UNCHANGED <<authfile, legacy, asked>> /\ asker' = [asker EXCEPT ![a] = NoAsk]
      /\ doubt' = [doubt EXCEPT ![scope] = @ \union x.slots]
  BY <1>1 DEF AskCutOff, AskEnds, InDoubt
<1>5. keyfile' = keyfile \/ \E slot \in x.slots : \E left : keyfile' = [keyfile EXCEPT ![scope][slot] = left]
  <2>1. CASE x.at = "key"
    <3>1. PICK left : keyfile' = [keyfile EXCEPT ![scope][x.adds[1].slot] = left]
      BY <1>1, <2>1 DEF AskCutOff
    <3>2. x.adds[1].slot \in x.slots
      BY <1>3, <2>1 DEF Brings
    <3> QED
      BY <3>1, <3>2
  <2>2. CASE x.at # "key"
    BY <1>1, <2>2 DEF AskCutOff
  <2> QED
    BY <2>1, <2>2
<1>6. \A s \in Scopes : s # scope => keyfile'[s] = keyfile[s]
  BY <1>3, <1>5
<1>7. \A slot \in Slots : slot \notin x.slots => keyfile'[scope][slot] = keyfile[scope][slot]
  BY <1>3, <1>5
<1>8. ASSUME NEW s \in Scopes, s # scope PROVE StoreGood(s)'
  <2>1. NoAsk.at = "idle" /\ doubt[s] \subseteq doubt'[s]
    BY <1>3, <1>4, <1>8 DEF NoAsk
  <2> QED
    BY <1>1, <1>2, <1>3, <1>4, <1>6, <1>8, <2>1, MoveAside
<1>9. doubt'[scope] = doubt[scope] \union x.slots /\ asker'[a] = NoAsk
      /\ \A b \in Askers \ {a} : asker'[b] = asker[b]
  BY <1>3, <1>4
<1>10. ASSUME NEW slot \in Slots \ doubt'[scope] PROVE SlotGood(scope, slot)'
  <2>1. SlotGood(scope, slot) /\ slot \notin x.slots
    BY <1>3, <1>9 DEF StoreGood
  <2>2. authfile'[scope].state # "torn" => Good(Load(scope)', asked'[scope][slot], slot)
    BY <1>4, <2>1 DEF SlotGood, Load
  <2> QED
    BY <1>1, <1>3, <1>4, <1>7, <1>9, <2>1, <2>2, Leaves
<1>11. TornInDoubt(scope)'
  BY <1>3, <1>9 DEF TornInDoubt
<1>12. StoreGood(scope)'
  BY <1>10, <1>11 DEF StoreGood
<1> QED
  BY <1>8, <1>12

LEMMA CredentialsInvInit ==
  ASSUME CredentialsAssumption, CredentialsInit PROVE CredentialsInv
<1>1. CredentialShapes
  BY CredentialShapesInit
<1>2. ASSUME NEW scope \in Scopes PROVE StoreGood(scope)
  <2>1. authfile[scope].state # "torn" /\ Busy(scope) = {} /\ doubt[scope] = {}
    BY DEF CredentialsInit, Scopes, Busy, NoAsk
  <2>2. TornInDoubt(scope)
    BY <2>1 DEF TornInDoubt
  <2>3. PICK list : list = Load(scope)
    OBVIOUS
  <2>4. \/ list = <<>> /\ authfile[scope].list = <<>>
        \/ list = <<Old("token")>> /\ authfile[scope].list = <<>>
        \/ list = <<Old("home")>> /\ authfile[scope].list = <<>>
        \/ list = <<Pushed>> /\ authfile[scope].list = <<Pushed>>
    BY <2>3 DEF CredentialsInit, Load, Scopes
  <2>5. ASSUME NEW slot \in Slots PROVE SlotGood(scope, slot)
    <3>1. PICK want, key : want = asked[scope][slot] /\ key = keyfile[scope][slot]
      OBVIOUS
    <3>2. /\ want = IF In(list, slot) = {} THEN Nothing ELSE [method |-> list[1].method, n |-> Former]
          /\ key = IF \E i \in In(authfile[scope].list, slot) : authfile[scope].list[i].method = "own"
                     THEN Former ELSE Missing
      BY <2>3, <3>1 DEF CredentialsInit
    <3>3. CASE list = <<>> /\ authfile[scope].list = <<>>
      <4>1. In(list, slot) = {} /\ Here(list, slot) = {}
        BY <3>3 DEF In, Here
      <4>2. want = Nothing /\ key = Missing
        BY <3>2, <3>3, <4>1
      <4>3. Good(list, want, slot) /\ key = KeyFor(want)
        BY <4>1, <4>2 DEF Good, KeyFor, Nothing
      <4> QED
        BY <2>1, <2>3, <3>1, <4>3 DEF SlotGood
    <3>4. ASSUME NEW e, list = <<e>>, e.method \in {"token", "own", "home"},
                 e.method = "token" => e.secret = Former,
                 authfile[scope].list = IF e.method = "own" THEN <<e>> ELSE <<>>
          PROVE  SlotGood(scope, slot)
      <4>1. In(list, slot) = IF e.slot = slot THEN {1} ELSE {}
        BY <3>4 DEF In
      <4>2. Here(list, slot) = IF e.slot = slot THEN {e} ELSE {}
        BY <3>4, <4>1 DEF Here
      <4>3. e.method # "own" => In(authfile[scope].list, slot) = {}
        BY <3>4 DEF In
      <4>4. CASE e.slot # slot
        <5>1. want = Nothing /\ key = Missing
          BY <3>2, <3>4, <4>1, <4>3, <4>4
        <5>2. Good(list, want, slot) /\ key = KeyFor(want)
          BY <4>2, <4>4, <5>1 DEF Good, KeyFor, Nothing
        <5> QED
          BY <2>1, <2>3, <3>1, <5>2 DEF SlotGood
      <4>5. CASE e.slot = slot
        <5>1. want = [method |-> e.method, n |-> Former] /\ want # Nothing
          BY <3>2, <3>4, <4>1, <4>5 DEF Nothing
        <5>2. key = IF e.method = "own" THEN Former ELSE Missing
          BY <3>2, <3>4, <4>1, <4>3, <4>5
        <5>3. Good(list, want, slot) /\ key = KeyFor(want)
          BY <3>4, <4>2, <4>5, <5>1, <5>2 DEF Good, KeyFor
        <5> QED
          BY <2>1, <2>3, <3>1, <5>3 DEF SlotGood
      <4> QED
        BY <4>4, <4>5
    <3>5. /\ Old("token").method = "token" /\ Old("token").secret = Former
          /\ Old("home").method = "home" /\ Pushed.method = "own"
      BY DEF Old, Pushed
    <3> QED
      BY <2>4, <3>3, <3>4, <3>5
  <2> QED
    BY <2>2, <2>5 DEF StoreGood
<1> QED
  BY <1>1, <1>2 DEF CredentialsInv

LEMMA CredentialsInvNext ==
  ASSUME CredentialsAssumption, CredentialsInv, [CredentialsNext]_credentialsVars
  PROVE  CredentialsInv'
<1>1. CredentialShapes'
  BY CredentialShapesNext DEF CredentialsInv
<1>2. CredentialShapes /\ \A s \in Scopes : StoreGood(s)
  BY DEF CredentialsInv
<1>3. CASE UNCHANGED credentialsVars
  <2>1. ASSUME NEW s \in Scopes PROVE StoreGood(s)'
    <3>1. StoreGood(s)
      BY <1>2
    <3> QED
      BY <1>3, <3>1 DEF credentialsVars, StoreGood, TornInDoubt, SlotGood, Busy, Load
  <2> QED
    BY <1>1, <2>1 DEF CredentialsInv
<1>4. CASE \E a \in Askers : WriteKey(a) \/ Clean(a) \/ Open(a) \/ Fill(a) \/ AskCutOff(a)
  <2>1. \A s \in Scopes : StoreGood(s)'
    BY <1>2, <1>4, WriteKeyStores, CleanStores, OpenStores, FillStores, CutOffStores
  <2> QED
    BY <1>1, <2>1 DEF CredentialsInv
<1>5. CASE \E a \in Callers, scope \in Scopes, managed \in BOOLEAN, slot \in Slots,
              method \in {"token", "own", "home"} : UpsertCredential(a, scope, slot, method, managed)
  <2>1. PICK a \in Callers, scope \in Scopes, managed \in BOOLEAN, slot \in Slots,
             method \in {"token", "own", "home"} : UpsertCredential(a, scope, slot, method, managed)
    BY <1>5
  <2>2. PICK adds \in Seq(Entry) : /\ Brought(adds, {slot}, Former + spent.calls + 1)
                                   /\ BeginAsk(a, scope, adds, {slot})
    BY <1>2, <2>1, UpsertBegins
  <2>3. {slot} \in SUBSET Slots
    OBVIOUS
  <2>4. \A s \in Scopes : StoreGood(s)'
    BY <1>2, <2>2, <2>3, BeginStores
  <2> QED
    BY <1>1, <2>4 DEF CredentialsInv
<1>6. CASE \E a \in Callers, scope \in Scopes, managed \in BOOLEAN, pattern \in Patterns :
             RemoveCredential(a, scope, pattern, managed)
  <2>1. PICK a \in Callers, scope \in Scopes, managed \in BOOLEAN, pattern \in Patterns :
             RemoveCredential(a, scope, pattern, managed)
    BY <1>6
  <2>2. PICK slots \in SUBSET Slots : /\ slots # {} /\ <<>> \in Seq(Entry)
                                      /\ Brought(<<>>, slots, Former + spent.calls + 1)
                                      /\ BeginAsk(a, scope, <<>>, slots)
    BY <1>2, <2>1, RemoveBegins
  <2>3. \A s \in Scopes : StoreGood(s)'
    BY <1>2, <2>2, BeginStores
  <2> QED
    BY <1>1, <2>3 DEF CredentialsInv
<1> QED
  BY <1>3, <1>4, <1>5, <1>6 DEF CredentialsNext

LEMMA CredentialsInvServes ==
  ASSUME CredentialsAssumption, CredentialsInv PROVE CredentialsServe
<1>1. AsAsked
  <2>1. ASSUME NEW scope \in Scopes, Busy(scope) = {}, authfile[scope].state = "torn"
        PROVE  doubt[scope] # {}
    BY <2>1 DEF CredentialsInv, StoreGood, TornInDoubt
  <2>2. ASSUME NEW scope \in Scopes, Busy(scope) = {}, authfile[scope].state # "torn",
               NEW slot \in Slots \ doubt[scope]
        PROVE  SlotAsAsked(scope, slot)
    <3>1. SlotGood(scope, slot)
      BY DEF CredentialsInv, StoreGood
    <3>2. PICK want, list : want = asked[scope][slot] /\ list = Load(scope)
      OBVIOUS
    <3>3. Good(list, want, slot) /\ keyfile[scope][slot] = KeyFor(want)
      BY <2>2, <3>1, <3>2 DEF SlotGood
    <3>4. CASE want = Nothing
      BY <3>2, <3>3, <3>4 DEF Good, Here, KeyFor, Nothing, SlotAsAsked
    <3>5. CASE want # Nothing
      <4>1. PICK e \in Here(list, slot) : /\ Here(list, slot) = {e} /\ e.method = want.method
                                          /\ e.method = "token" => e.secret = want.n
        BY <3>3, <3>5 DEF Good
      <4>2. e.method = "own" => keyfile[scope][slot] = want.n
        BY <3>3, <4>1 DEF KeyFor
      <4> QED
        BY <3>2, <3>5, <4>1, <4>2 DEF SlotAsAsked, Here
    <3> QED
      BY <3>4, <3>5
  <2> QED
    BY <2>1, <2>2 DEF AsAsked
<1>2. PICK mine, theirs : mine = Vetted /\ theirs = Load("system")
  OBVIOUS
<1>3. mine \in Seq(Entry) /\ theirs \in Seq(Entry)
  <2>1. CredentialShapes /\ "user" \in Scopes /\ "system" \in Scopes
    BY DEF CredentialsInv, Scopes
  <2>2. PICK list : list = Load("user")
    OBVIOUS
  <2>3. list \in Seq(Entry) /\ theirs \in Seq(Entry)
    BY <1>2, <2>1, <2>2, LoadShape
  <2>4. PICK kept : kept = {i \in DOMAIN list :
                    /\ list[i].method = "own" => keyfile["user"][list[i].slot] # Missing
                    /\ list[i].method = "home" => home}
    OBVIOUS
  <2>5. mine = Retained(list, kept)
    BY <1>2, <2>2, <2>4 DEF Vetted
  <2>6. KeptUpTo(Retained(list, kept), Len(list), list, kept, Entry)
    BY <2>3, RetainedIsKept
  <2> QED
    BY <2>3, <2>5, <2>6 DEF KeptUpTo
<1>4. LookupIsBest
  BY <1>2, <1>3, LookupTakesBest DEF LookupIsBest
<1>5. RegistryIsServed
  <2>1. PICK list : list = mine \o theirs
    OBVIOUS
  <2>2. list \in Seq(Entry)
    BY <1>3, <2>1
  <2>3. \A target \in Patterns, first \in Apps : \A second \in Apps \ {first} :
          Served(list, target, first, second)
    BY <2>2, RegistryServes
  <2>4. list = Vetted \o Load("system")
    BY <1>2, <2>1
  <2>5. (\A target \in Patterns, first \in Apps : \A second \in Apps \ {first} :
           Served(Vetted \o Load("system"), target, first, second)) => RegistryIsServed
    BY DEF RegistryIsServed, Served
  <2> QED
    BY <2>3, <2>4, <2>5
<1> QED
  BY <1>1, <1>4, <1>5 DEF CredentialsServe

(* The state of the credentials keeps its shape (pkg/auth.rs).             *)
THEOREM CredentialsTypeCorrect ==
  ASSUME CredentialsAssumption PROVE CredentialsSpec => []CredentialsTypeOK
<1>1. CredentialsInit => CredentialsInv
  BY CredentialsInvInit
<1>2. CredentialsInv /\ [CredentialsNext]_credentialsVars => CredentialsInv'
  BY CredentialsInvNext
<1>3. CredentialsInv => CredentialsTypeOK
  <2>1. SUFFICES ASSUME CredentialShapes PROVE CredentialsTypeOK
    BY DEF CredentialsInv
  <2>2. ASSUME NEW scope \in Scopes
        PROVE  /\ authfile[scope].state \in {"absent", "whole", "torn"}
               /\ \A i \in DOMAIN authfile[scope].list : authfile[scope].list[i] \in Entry
               /\ keyfile[scope] \in [Slots -> 0..Torn] /\ doubt[scope] \subseteq Slots
    <3>1. authfile[scope].state \in {"absent", "whole", "torn"} /\ authfile[scope].list \in Seq(Entry)
      BY <2>1 DEF CredentialShapes, File
    <3> QED
      BY <2>1, <3>1 DEF CredentialShapes
  <2>3. \A a \in Askers : asker[a].at \in AskPlaces /\ asker[a].scope \in Scopes
    BY <2>1 DEF CredentialShapes, PlacedAsker, AskerShape
  <2> QED
    BY <2>1, <2>2, <2>3 DEF CredentialsTypeOK, CredentialShapes
<1> QED
  BY <1>1, <1>2, <1>3, PTL DEF CredentialsSpec

(* While no call is at work on its store, a slot that none left in doubt   *)
(* is as the last call that named it asked, its key file included, and the *)
(* file is torn only if some slot is in doubt; and the lookup takes the    *)
(* longest pattern, a bound entry before an equal one, the user's before   *)
(* the system's (add_ssh_key, add, remove, save, lookup_for and            *)
(* lookup_registry in pkg/auth.rs).                                        *)
THEOREM CredentialsAreServed ==
  ASSUME CredentialsAssumption PROVE CredentialsSpec => []CredentialsServe
<1>1. CredentialsInit => CredentialsInv
  BY CredentialsInvInit
<1>2. CredentialsInv /\ [CredentialsNext]_credentialsVars => CredentialsInv'
  BY CredentialsInvNext
<1>3. CredentialsInv => CredentialsServe
  BY CredentialsInvServes
<1> QED
  BY <1>1, <1>2, <1>3, PTL DEF CredentialsSpec
=============================================================================
