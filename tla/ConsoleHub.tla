----------------------------- MODULE ConsoleHub -----------------------------
(***************************************************************************)
(* The shared console of one app (src/src/daemon/console/hub.rs) and the   *)
(* WebSocket sessions that join it (attach_docker in                       *)
(* src/src/daemon/api/ws.rs): one source of output, a pump that publishes  *)
(* it to a bounded broadcast channel and a bounded replay, many clients,   *)
(* and one queue of input.                                                 *)
(*                                                                         *)
(* The chunks of a source are numbered 1, 2, ... in the order in which the *)
(* source yields them.  A session is what `spawn` returns; sessions are    *)
(* numbered in the order in which they are made.                           *)
(***************************************************************************)
EXTENDS Naturals, FiniteSets, FiniteSetsExt, Sequences, SequencesExt

CONSTANTS
  Clients,        \* tabs that may open the app's console
  Capacity,       \* BROADCAST_CAPACITY, in chunks
  ReplayLimit,    \* REPLAY_LIMIT_BYTES
  Size,           \* the bytes of a chunk, by its number
  StdinCapacity,  \* STDIN_CAPACITY
  PipeCapacity,   \* what the transport holds each way
  MaxChunks,      \* bound: chunks of one source
  MaxSessions,    \* bound: sources opened
  MaxJoins,       \* bound: consoles opened
  MaxInputs       \* bound: frames typed

ConsoleAssumption ==
  /\ {Capacity, StdinCapacity, PipeCapacity} \subseteq Nat \ {0}
  /\ {ReplayLimit, MaxChunks, MaxSessions, MaxJoins, MaxInputs} \subseteq Nat
  /\ Size \in [1..MaxChunks -> Nat \ {0}]
  /\ "nobody" \notin Clients

VARIABLES
  session,  \* by number: the pump, what it published, the channel, the pipes
  current,  \* the number the hub's map holds for the app; 0 for none
  lock,     \* the client inside subscribe's connect; NoOne for none
  client,   \* by tab: where its handler stands and what the tab was sent
  left      \* bounds: consoles and frames left

consoleVars == <<session, current, lock, client, left>>

NoOne == "nobody"
Sessions == 1..MaxSessions

(* published: chunks sent.  kept: the oldest of them in the replay.  open: *)
(* the sender is there.  queue, sink: input queued, and in the transport.  *)
(* out: output the transport holds.  stream: the source has not ended.     *)
Session ==
  [pump : {"none", "loop", "writing", "ending", "done", "aborted"},
   published : 0..MaxChunks, kept : 1..MaxChunks + 1, open : BOOLEAN,
   queue : 0..StdinCapacity, sink : 0..PipeCapacity, out : 0..PipeCapacity,
   stream : BOOLEAN]
NoSession ==
  [pump |-> "none", published |-> 0, kept |-> 1, open |-> FALSE,
   queue |-> 0, sink |-> 0, out |-> 0, stream |-> FALSE]

(* from..upto: what is left of the replay.  next: the receiver's position. *)
(* first: the chunk its console starts at.  tab: the browser's end is      *)
(* there.                                                                  *)
Client ==
  [at : {"away", "connecting", "live", "sending", "heard_end"}, on : 0..MaxSessions,
   from : 1..MaxChunks + 1, upto : 0..MaxChunks, next : 1..MaxChunks + 1,
   first : 1..MaxChunks + 1, seen : Seq(1..MaxChunks), lagged : BOOLEAN, tab : BOOLEAN]
NoClient ==
  [at |-> "away", on |-> 0, from |-> 1, upto |-> 0, next |-> 1,
   first |-> 1, seen |-> <<>>, lagged |-> FALSE, tab |-> FALSE]

ConsoleTypeOK ==
  /\ session \in [Sessions -> Session]
  /\ current \in 0..MaxSessions
  /\ lock \in Clients \cup {NoOne}
  /\ client \in [Clients -> Client]
  /\ left \in [joins : 0..MaxJoins, inputs : 0..MaxInputs]

ConsoleInit ==
  /\ session = [s \in Sessions |-> NoSession]
  /\ current = 0
  /\ lock = NoOne
  /\ client = [c \in Clients |-> NoClient]
  /\ left = [joins |-> MaxJoins, inputs |-> MaxInputs]

(* A client's handler holds its session until it returns.                  *)
Holding == {"live", "sending"}
Holders(s) == {c \in Clients : client[c].on = s /\ client[c].at \in Holding}

-----------------------------------------------------------------------------
(* AttachHub::subscribe                                                    *)

(* The weak reference upgrades while a client holds the session, and join  *)
(* succeeds while the sender is there.                                     *)
Joinable(s) == s # 0 /\ Holders(s) # {} /\ session[s].open

(* Under the replay lock and the sender's lock: the replay as it is, and a *)
(* receiver that starts behind it.                                         *)
(* Mutant: the snapshot is taken after the subscription, without the lock. *)
JoinedLate(s) ==
  [at |-> "live", on |-> s, from |-> session[s].kept, upto |-> session[s].published,
   next |-> IF session[s].published = 0 THEN 1 ELSE session[s].published,
   first |-> session[s].kept, seen |-> <<>>, lagged |-> FALSE, tab |-> TRUE]
Joined(s) ==
  [at |-> "live", on |-> s, from |-> session[s].kept, upto |-> session[s].published,
   next |-> session[s].published + 1, first |-> session[s].kept, seen |-> <<>>,
   lagged |-> FALSE, tab |-> TRUE]

Opens(c) ==
  /\ client[c].at \in {"away", "heard_end"} /\ left.joins > 0 /\ lock = NoOne
  /\ left' = [left EXCEPT !.joins = @ - 1]

Join(c) ==
  /\ Opens(c) /\ Joinable(current)
  /\ client' = [client EXCEPT ![c] = Joined(current)]
  /\ UNCHANGED <<session, current, lock>>

(* Nothing to join: the hub's lock is held while the source is opened.     *)
Connect(c) ==
  /\ Opens(c) /\ ~Joinable(current)
  /\ \E s \in Sessions : session[s].pump = "none"
  /\ lock' = c
  /\ client' = [client EXCEPT ![c] = [NoClient EXCEPT !.at = "connecting", !.tab = TRUE]]
  /\ UNCHANGED <<session, current>>

(* spawn: the first receiver is there before the pump runs.                *)
Spawn(c) ==
  /\ lock = c
  /\ LET s == Min({n \in Sessions : session[n].pump = "none"})
     IN /\ session' = [session EXCEPT ![s] =
                         [NoSession EXCEPT !.pump = "loop", !.open = TRUE, !.stream = TRUE]]
        /\ current' = s
        /\ client' = [client EXCEPT ![c].at = "live", ![c].on = s]
  /\ lock' = NoOne
  /\ UNCHANGED left
ConnectFails(c) ==
  /\ lock = c
  /\ lock' = NoOne
  /\ client' = [client EXCEPT ![c] = NoClient]
  /\ UNCHANGED <<session, current, left>>

-----------------------------------------------------------------------------
(* The app at the other end of the transport.                              *)

AppWrites(s) ==
  /\ session[s].stream /\ session[s].out < PipeCapacity
  /\ session[s].published + session[s].out < MaxChunks
  /\ session' = [session EXCEPT ![s].out = @ + 1]
  /\ UNCHANGED <<current, lock, client, left>>
AppReads(s) ==
  /\ session[s].stream /\ session[s].sink > 0
  /\ session' = [session EXCEPT ![s].sink = @ - 1]
  /\ UNCHANGED <<current, lock, client, left>>
AppStops(s) ==
  /\ session[s].stream
  /\ session' = [session EXCEPT ![s].stream = FALSE]
  /\ UNCHANGED <<current, lock, client, left>>

-----------------------------------------------------------------------------
(* The pump                                                                *)

(* Replay::push drops the oldest chunks until the rest fits or none is     *)
(* left.                                                                   *)
Bytes(a, b) == MapThenSumSet(LAMBDA i : Size[i], a..b)
Trimmed(k, n) == Min({i \in k..n + 1 : i = n + 1 \/ Bytes(i, n) <= ReplayLimit})

Published(x) ==
  [x EXCEPT !.published = @ + 1, !.kept = Trimmed(x.kept, x.published + 1)]

Publish(s) ==
  /\ session[s].pump = "loop" /\ session[s].out > 0
  /\ session' = [session EXCEPT ![s] = [Published(session[s]) EXCEPT !.out = @ - 1]]
  /\ UNCHANGED <<current, lock, client, left>>

(* The stream ends, or fails: then the error's text is one more chunk.     *)
SourceEnds(s) ==
  /\ session[s].pump = "loop" /\ session[s].out = 0 /\ ~session[s].stream
  /\ \/ session' = [session EXCEPT ![s].pump = "ending"]
     \/ /\ session[s].published < MaxChunks
        /\ session' =
             [session EXCEPT ![s] = [Published(session[s]) EXCEPT !.pump = "ending"]]
  /\ UNCHANGED <<current, lock, client, left>>

(* write_all is awaited inside the loop: no output is read meanwhile.      *)
TakeInput(s) ==
  /\ session[s].pump = "loop" /\ session[s].queue > 0
  /\ session' = [session EXCEPT ![s].queue = @ - 1, ![s].pump = "writing"]
  /\ UNCHANGED <<current, lock, client, left>>
WriteInput(s) ==
  /\ session[s].pump = "writing"
  /\ \/ /\ session[s].sink < PipeCapacity
        /\ session' = [session EXCEPT ![s].sink = @ + 1, ![s].pump = "loop"]
     \/ /\ ~session[s].stream
        /\ session' = [session EXCEPT ![s].pump = "ending"]
  /\ UNCHANGED <<current, lock, client, left>>

(* The sender is dropped: receivers drain the channel and see it closed.   *)
End(s) ==
  /\ session[s].pump = "ending"
  /\ session' = [session EXCEPT ![s].pump = "done", ![s].open = FALSE]
  /\ UNCHANGED <<current, lock, client, left>>

-----------------------------------------------------------------------------
(* A client's handler                                                      *)

Open(c) == client[c].at = "live"

SendReplay(c) ==
  /\ Open(c) /\ client[c].tab /\ client[c].from <= client[c].upto
  /\ client' = [client EXCEPT ![c].seen = Append(@, client[c].from), ![c].from = @ + 1]
  /\ UNCHANGED <<session, current, lock, left>>

Following(c) == Open(c) /\ client[c].from > client[c].upto
Behind(c) == session[client[c].on].published - (client[c].next - 1) > Capacity

(* Lagged: the oldest chunks are lost to this client, the receiver moves   *)
(* to the oldest chunk the channel still holds.                            *)
Lag(c) ==
  /\ Following(c) /\ Behind(c)
  /\ client' = [client EXCEPT ![c].next = session[client[c].on].published - Capacity + 1,
                              ![c].lagged = TRUE]
  /\ UNCHANGED <<session, current, lock, left>>
Receive(c) ==
  /\ Following(c) /\ client[c].tab /\ ~Behind(c)
  /\ client[c].next <= session[client[c].on].published
  /\ client' = [client EXCEPT ![c].seen = Append(@, client[c].next), ![c].next = @ + 1]
  /\ UNCHANGED <<session, current, lock, left>>

(* Dropping the last client drops the session: the pump is aborted.        *)
(* Mutant: it is not.                                                      *)
LeftBehind(c) == session
WithoutLast(c) ==
  LET s == client[c].on
  IN IF Holders(s) = {c} /\ session[s].pump \in {"loop", "writing", "ending"}
       THEN [session EXCEPT ![s] = [NoSession EXCEPT !.pump = "aborted"]]
       ELSE session

(* Closed: everything in the channel was received and the sender is gone.  *)
HearEnd(c) ==
  /\ Following(c) /\ ~session[client[c].on].open
  /\ client[c].next > session[client[c].on].published
  /\ client' = [client EXCEPT ![c].at = "heard_end"]
  /\ session' = WithoutLast(c)
  /\ UNCHANGED <<current, lock, left>>

(* A frame from the tab goes to the queue; the handler waits for a place   *)
(* in it and sees nothing else of its socket meanwhile.                    *)
Type(c) ==
  /\ Following(c) /\ client[c].tab /\ left.inputs > 0
  /\ left' = [left EXCEPT !.inputs = @ - 1]
  /\ client' = [client EXCEPT ![c].at = "sending"]
  /\ UNCHANGED <<session, current, lock>>
Queue(c) ==
  /\ client[c].at = "sending"
  /\ session[client[c].on].pump \in {"loop", "writing", "ending"}
  /\ session[client[c].on].queue < StdinCapacity
  /\ session' = [session EXCEPT ![client[c].on].queue = @ + 1]
  /\ client' = [client EXCEPT ![c].at = "live"]
  /\ UNCHANGED <<current, lock, left>>
QueueFails(c) ==
  /\ client[c].at = "sending" /\ session[client[c].on].pump = "done"
  /\ client' = [client EXCEPT ![c] = NoClient]
  /\ session' = WithoutLast(c)
  /\ UNCHANGED <<current, lock, left>>

(* The tab is closed; the handler notices where it looks at the socket.    *)
TabCloses(c) ==
  /\ client[c].at \in Holding /\ client[c].tab
  /\ client' = [client EXCEPT ![c].tab = FALSE]
  /\ UNCHANGED <<session, current, lock, left>>
LeaveConsole(c) ==
  /\ Open(c) /\ ~client[c].tab
  /\ client' = [client EXCEPT ![c] = NoClient]
  /\ session' = WithoutLast(c)
  /\ UNCHANGED <<current, lock, left>>

-----------------------------------------------------------------------------
App(s) == AppWrites(s) \/ AppReads(s) \/ AppStops(s)
Pump(s) == Publish(s) \/ SourceEnds(s) \/ TakeInput(s) \/ WriteInput(s) \/ End(s)
Subscribe(c) == Join(c) \/ Connect(c)
Handler(c) == \/ Spawn(c) \/ ConnectFails(c) \/ SendReplay(c) \/ Lag(c) \/ Receive(c)
              \/ HearEnd(c) \/ Queue(c) \/ QueueFails(c) \/ LeaveConsole(c)
Tab(c) == Type(c) \/ TabCloses(c)
ConsoleNext == \/ \E s \in Sessions : App(s) \/ Pump(s)
        \/ \E c \in Clients : Subscribe(c) \/ Handler(c) \/ Tab(c)

ConsoleSpec == ConsoleInit /\ [][ConsoleNext]_consoleVars

(* The runtime polls every task that can move: the pump and each handler.  *)
(* The app reads its input, but need not write or stop; tabs need not type *)
(* or close.                                                               *)
ConsoleFairness ==
  /\ \A s \in Sessions : WF_consoleVars(Pump(s)) /\ WF_consoleVars(AppReads(s))
  /\ \A c \in Clients : WF_consoleVars(Handler(c))
ConsoleFairSpec == ConsoleSpec /\ ConsoleFairness

-----------------------------------------------------------------------------
(* Properties                                                              *)

(* "Every chunk is seen exactly once, in the replay or on the receiver": a *)
(* client is sent the chunks from where it joined without a gap and        *)
(* without a repetition, gaps only once it lagged; whoever opened the      *)
(* source starts at its first chunk; and who hears of the end has had the  *)
(* last chunk.                                                             *)
ExactlyOnce ==
  \A c \in Clients :
    LET x == client[c]
    IN /\ \A i, j \in 1..Len(x.seen) : i < j => x.seen[i] < x.seen[j]
       /\ ~x.lagged => \A i \in 1..Len(x.seen) : x.seen[i] = x.first + i - 1
       /\ x.at = "heard_end" /\ session[x.on].published >= x.first =>
            x.seen # <<>> /\ Last(x.seen) = session[x.on].published

(* Once the source ended every client is told, whatever else it does.      *)
Ended(c) == client[c].at \in Holding /\ session[client[c].on].pump = "done"
EndIsHeard == \A c \in Clients : []<>~Ended(c)

(* "The source lives exactly as long as the last client": when every tab   *)
(* of a source is closed, it ends, unless another tab joins it.            *)
Pumping(s) == session[s].pump \in {"loop", "writing", "ending"}
Unwatched(s) == Pumping(s) /\ \A c \in Holders(s) : ~client[c].tab
SourceEndsWithTabs == \A s \in Sessions : []<>~Unwatched(s)

(* What the app wrote is published: neither a slow client nor input on its *)
(* way keeps it back from the others for ever.  (A source writes at most   *)
(* MaxChunks chunks, so it catches up.)                                    *)
KeptBack(s) == Pumping(s) /\ session[s].out > 0
OutputMoves == \A s \in Sessions : []<>~KeptBack(s)

(* The three of them.                                                      *)
ConsoleMoves == EndIsHeard /\ SourceEndsWithTabs /\ OutputMoves
=============================================================================
