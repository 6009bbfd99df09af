------------------------------ MODULE Services ------------------------------
(***************************************************************************)
(* app::ServiceRouter with its two services, GameService and               *)
(* BroadcastService, each a lane with a thread of its own (app/service.cpp *)
(* and app/handlers.cpp). I/O threads post the coming and going of a       *)
(* connection to one service after the other; the game lane issues the     *)
(* session key and relays it to the chat lane; database answers come back  *)
(* to the lane that asked. A handler may throw in the middle.              *)
(* A session key is told apart by its connection; a member either has it   *)
(* as its name or has none.                                                *)
(***************************************************************************)
EXTENDS Naturals, Sequences, FiniteSets, SequencesExt

CONSTANTS
  Conns,
  InboundCap,    \* inbound_cap_ of each lane, which refuses what is more
  MaxMessages,   \* bound on the requests of one connection
  MaxFaults      \* bound on handlers that throw

ASSUME ServicesAssumption ==
  Conns # {} /\ InboundCap \in Nat \ {0} /\ MaxMessages \in Nat /\ MaxFaults \in Nat

Lanes == {"game", "chat"}
Requests == {"echo", "db", "chat"}

(* ServiceRouter's table_: the service of each message.                    *)
Route(kind) == IF kind = "chat" THEN "chat" ELSE "game"

VARIABLES
  stage,      \* how far ServiceRouter::post_connected is
  closed,     \* Connection::closed_
  closing,    \* closed, and the chat service is not told yet
  asked,      \* requests each client sent
  replied,    \* the answers it was sent
  inbound,    \* Lane::inbound
  inbox,      \* GameService's db_inbox, the chat lane's service_inbox
  lane,       \* run_step of each lane: position and swapped out batches
  table,      \* the sessions_ of the game lane, the members_ of the chat
  named,      \* the members whose name is set
  pending,    \* pending_names_
  pool,       \* requests of each connection the database pool works on
  faults,     \* number of handlers that threw
  (* history *)
  relayed,    \* the connections whose session key was relayed
  missed,     \* keys the chat lane had before Connected was in its queue
  orphaned,   \* keys dropped at the end of a round
  early,      \* closed before the chat service was told of the connection
  deaf        \* a handler threw and on_fault found no entry to remove

io == <<stage, closed, closing>>
client == <<asked, replied>>
history == <<relayed, missed, orphaned, early, deaf>>
vars == <<io, client, inbound, inbox, lane, table, named, pending, pool, faults, history>>

Idle == [pc |-> "idle", first |-> <<>>, batch |-> <<>>]

Init ==
  /\ stage = [c \in Conns |-> "new"]
  /\ closed = {} /\ closing = {}
  /\ asked = [c \in Conns |-> 0] /\ replied = [c \in Conns |-> 0]
  /\ inbound = [s \in Lanes |-> <<>>] /\ inbox = [s \in Lanes |-> <<>>]
  /\ lane = [s \in Lanes |-> Idle]
  /\ table = [s \in Lanes |-> {}]
  /\ named = {} /\ pending = {}
  /\ pool = [c \in Conns |-> 0]
  /\ faults = 0
  /\ relayed = {} /\ missed = {} /\ orphaned = {} /\ early = {} /\ deaf = {}

Event(kind, c) == [kind |-> kind, conn |-> c]
Post(s, e) == [inbound EXCEPT ![s] = Append(@, e)]

-----------------------------------------------------------------------------
(* post_connected: the game service is told, then the chat service, then   *)
(* the first receive is posted.                                            *)
ConnectedToGame(c) ==
  /\ stage[c] = "new"
  /\ stage' = [stage EXCEPT ![c] = "game"]
  /\ inbound' = Post("game", Event("connected", c))
  /\ UNCHANGED <<closed, closing, client, inbox, lane, table, named, pending, pool,
                 faults, history>>

ConnectedToChat(c) ==
  /\ stage[c] = "game"
  /\ stage' = [stage EXCEPT ![c] = "chat"]
  /\ inbound' = Post("chat", Event("connected", c))
  /\ UNCHANGED <<closed, closing, client, inbox, lane, table, named, pending, pool,
                 faults, history>>

(* close, by whichever thread: post_disconnected tells game, then chat.    *)
(* Mutant: the game service has no session yet and is not told.            *)
SkipUnknown(c) == IF c \in table["game"] THEN Post("game", Event("disconnected", c)) ELSE inbound
Disconnected(c) == Post("game", Event("disconnected", c))

DoClose(c) ==
  /\ closed' = closed \union {c}
  /\ IF c \in closed
     THEN UNCHANGED <<closing, inbound, early>>
     ELSE /\ closing' = closing \union {c}
          /\ inbound' = Disconnected(c)
          /\ early' = IF stage[c] = "chat" THEN early ELSE early \union {c}

(* Until both services are told, only a game session has the connection:   *)
(* what closes it then is a send of the game service. A handler that sends *)
(* a fatal error closes its connection in its own step: here this is the   *)
(* handler's action, then Close.                                           *)
Close(c) ==
  /\ stage[c] = "chat" \/ c \in table["game"]
  /\ c \notin closed
  /\ DoClose(c)
  /\ UNCHANGED <<stage, client, inbox, lane, table, named, pending, pool, faults, relayed,
                 missed, orphaned, deaf>>

DisconnectedToChat(c) ==
  /\ c \in closing
  /\ closing' = closing \ {c}
  /\ inbound' = Post("chat", Event("disconnected", c))
  /\ UNCHANGED <<stage, closed, client, inbox, lane, table, named, pending, pool,
                 faults, history>>

(* post_message: a request in the queue of its service, or refused with an *)
(* error when the queue is full or nobody handles its id.                  *)
Ask(c, kind) ==
  /\ stage[c] = "chat" /\ c \notin closed
  /\ asked[c] < MaxMessages
  /\ asked' = [asked EXCEPT ![c] = @ + 1]
  /\ IF Len(inbound[Route(kind)]) < InboundCap
     THEN inbound' = Post(Route(kind), Event(kind, c)) /\ UNCHANGED replied
     ELSE replied' = [replied EXCEPT ![c] = @ + 1] /\ UNCHANGED inbound
  /\ UNCHANGED <<io, inbox, lane, table, named, pending, pool, faults, history>>

(* The pool answers a request and post_db_response queues the answer.      *)
PoolAnswers(c) ==
  /\ pool[c] > 0
  /\ pool' = [pool EXCEPT ![c] = @ - 1]
  /\ inbox' = [inbox EXCEPT !["game"] = Append(@, c)]
  /\ UNCHANGED <<io, client, inbound, lane, table, named, pending, faults, history>>

-----------------------------------------------------------------------------
(* run_step: the database answers or the relayed keys are swapped out and  *)
(* handled first, then the inbound queue is.                               *)
StartRound(s) ==
  /\ lane[s].pc = "idle"
  /\ inbox[s] # <<>> \/ inbound[s] # <<>>
  /\ lane' = [lane EXCEPT ![s] = [pc |-> "first", first |-> inbox[s], batch |-> <<>>]]
  /\ inbox' = [inbox EXCEPT ![s] = <<>>]
  /\ UNCHANGED <<io, client, inbound, table, named, pending, pool, faults, history>>

SwapInbound(s) ==
  /\ lane[s].pc = "first" /\ lane[s].first = <<>>
  /\ lane' = [lane EXCEPT ![s].pc = "batch", ![s].batch = inbound[s]]
  /\ inbound' = [inbound EXCEPT ![s] = <<>>]
  /\ missed' = IF s = "chat" THEN missed \union {c \in pending : stage[c] # "chat"} ELSE missed
  /\ UNCHANGED <<io, client, inbox, table, named, pending, pool, faults, relayed,
                 orphaned, early, deaf>>

(* on_after_batch: a key nobody took has no owner.                         *)
EndRound(s) ==
  /\ lane[s].pc = "batch" /\ lane[s].batch = <<>>
  /\ lane' = [lane EXCEPT ![s] = Idle]
  /\ IF s = "chat"
     THEN pending' = {} /\ orphaned' = orphaned \union pending
     ELSE UNCHANGED <<pending, orphaned>>
  /\ UNCHANGED <<io, client, inbound, inbox, table, named, pool, faults, relayed,
                 missed, early, deaf>>

(* process_db_response: the answer or an error, if the session is there.   *)
GameReply(c) ==
  /\ replied' = IF c \in table["game"] THEN [replied EXCEPT ![c] = @ + 1] ELSE replied
  /\ UNCHANGED <<table, named, pending>>

(* BroadcastService::on_service: the name of a member, or kept for one     *)
(* that is about to come. Mutant: not kept.                                *)
KeepNone(c) == pending
KeptNames(c) == IF c \in table["chat"] THEN pending ELSE pending \union {c}

ChatName(c) ==
  /\ named' = named \union ({c} \intersect table["chat"])
  /\ pending' = KeptNames(c)
  /\ UNCHANGED <<table, replied>>

HandleFirst(s) ==
  /\ lane[s].pc = "first" /\ lane[s].first # <<>>
  /\ lane' = [lane EXCEPT ![s].first = Tail(@)]
  /\ LET c == Head(lane[s].first)
     IN  IF s = "game" THEN GameReply(c) ELSE ChatName(c)
  /\ UNCHANGED <<io, asked, inbound, inbox, pool, faults, history>>

(* on_connected, on_disconnected, on_message of the game service. A        *)
(* request for the database goes to the pool or is refused with an error.  *)
(* Mutant: a refused request is not answered.                              *)
RefuseSilently(c) == replied
RefuseWithError(c) == [replied EXCEPT ![c] = @ + 1]

(* post_service: the key goes past the inbound queue of the chat lane.     *)
PostService(c) == [inbox EXCEPT !["chat"] = Append(@, c)]

GameConnected(c) ==
  /\ table' = [table EXCEPT !["game"] = @ \union {c}]
  /\ inbox' = PostService(c)
  /\ relayed' = relayed \union {c}
  /\ UNCHANGED <<replied, pool>>

GameDisconnected(c) ==
  /\ table' = [table EXCEPT !["game"] = @ \ {c}]
  /\ UNCHANGED <<replied, pool, inbox, relayed>>

(* Echo and Ping: the answer or an error.                                  *)
GameEcho(c) ==
  /\ replied' = IF c \in table["game"] THEN [replied EXCEPT ![c] = @ + 1] ELSE replied
  /\ UNCHANGED <<table, pool, inbox, relayed>>

GameDb(c) ==
  /\ \/ c \notin table["game"] /\ UNCHANGED <<pool, replied>>
     \/ /\ c \in table["game"]
        /\ pool' = [pool EXCEPT ![c] = @ + 1]
        /\ UNCHANGED replied
     \/ /\ c \in table["game"]
        /\ replied' = RefuseWithError(c)
        /\ UNCHANGED pool
  /\ UNCHANGED <<table, inbox, relayed>>

GameEvent(e) ==
  /\ \/ e.kind = "connected" /\ GameConnected(e.conn)
     \/ e.kind = "disconnected" /\ GameDisconnected(e.conn)
     \/ e.kind = "echo" /\ GameEcho(e.conn)
     \/ e.kind = "db" /\ GameDb(e.conn)
  /\ UNCHANGED <<named, pending>>

(* BroadcastService::on_event and broadcast: the push goes to the members  *)
(* whose connection is open, the sender among them, or he gets an error.   *)
(* Mutant: the key that becomes a name is not taken from pending_names_.   *)
LeaveName(c) == pending
TakenName(c) == pending \ {c}

Broadcast(c) ==
  /\ replied' = IF c \in table["chat"] THEN [replied EXCEPT ![c] = @ + 1] ELSE replied
  /\ UNCHANGED <<table, named, pending>>

ChatEvent(e) ==
  LET c == e.conn
  IN  /\ \/ /\ e.kind = "connected"
            /\ table' = [table EXCEPT !["chat"] = @ \union {c}]
            /\ named' = named \union ({c} \intersect pending)
            /\ pending' = TakenName(c)
            /\ UNCHANGED replied
         \/ /\ e.kind = "disconnected"
            /\ table' = [table EXCEPT !["chat"] = @ \ {c}]
            /\ named' = named \ {c}
            /\ pending' = pending \ {c}
            /\ UNCHANGED replied
         \/ e.kind = "chat" /\ Broadcast(c)
      /\ UNCHANGED <<pool, inbox, relayed>>

HandleEvent(s) ==
  /\ lane[s].pc = "batch" /\ lane[s].batch # <<>>
  /\ lane' = [lane EXCEPT ![s].batch = Tail(@)]
  /\ LET e == Head(lane[s].batch)
     IN  IF s = "game" THEN GameEvent(e) ELSE ChatEvent(e)
  /\ UNCHANGED <<io, asked, inbound, faults, missed, orphaned, early, deaf>>

(* A handler throws: note_fault and on_fault. What it had inserted or what *)
(* was there is removed and the connection closed; with nothing there the  *)
(* connection stays as it is. Mutant: the entry is removed and the         *)
(* connection left open.                                                   *)
Current(s) == IF lane[s].pc = "first" THEN Head(lane[s].first) ELSE Head(lane[s].batch).conn
Inserting(s) == lane[s].pc = "batch" /\ Head(lane[s].batch).kind = "connected"

RemoveOnly(s, c) == UNCHANGED <<closed, closing, inbound, early>>
CloseFaulted(s, c) ==
  IF c \in table[s] THEN DoClose(c)
  ELSE \/ UNCHANGED <<closed, closing, inbound, early>>
       \/ Inserting(s) /\ DoClose(c)

Fault(s) ==
  /\ faults < MaxFaults
  /\ \/ lane[s].pc = "first" /\ lane[s].first # <<>>
     \/ lane[s].pc = "batch" /\ lane[s].batch # <<>>
  /\ faults' = faults + 1
  /\ lane' = IF lane[s].pc = "first" THEN [lane EXCEPT ![s].first = Tail(@)]
             ELSE [lane EXCEPT ![s].batch = Tail(@)]
  /\ LET c == Current(s)
     IN  /\ CloseFaulted(s, c)
         /\ table' = [table EXCEPT ![s] = @ \ {c}]
         /\ IF s = "chat" THEN named' = named \ {c} /\ pending' = pending \ {c}
            ELSE UNCHANGED <<named, pending>>
         /\ deaf' = IF c \in table[s] THEN deaf ELSE deaf \union {c}
  /\ UNCHANGED <<stage, client, inbox, pool, relayed, missed, orphaned>>

-----------------------------------------------------------------------------
Lane(s) ==
  StartRound(s) \/ SwapInbound(s) \/ EndRound(s) \/ HandleFirst(s) \/ HandleEvent(s)

Poster(c) == ConnectedToChat(c) \/ DisconnectedToChat(c)

Next ==
  \/ \E c \in Conns : ConnectedToGame(c) \/ Poster(c) \/ Close(c) \/ PoolAnswers(c)
  \/ \E c \in Conns, kind \in Requests : Ask(c, kind)
  \/ \E s \in Lanes : Lane(s) \/ Fault(s)

Spec == Init /\ [][Next]_vars

(* The lanes run (their threads are woken by every post), and a thread     *)
(* that told one service goes on to tell the other.                        *)
FairSpec ==
  /\ Spec
  /\ \A s \in Lanes : WF_vars(Lane(s))
  /\ \A c \in Conns : WF_vars(ConnectedToChat(c)) /\ WF_vars(DisconnectedToChat(c))

-----------------------------------------------------------------------------
TypeOK ==
  /\ stage \in [Conns -> {"new", "game", "chat"}]
  /\ closing \subseteq closed /\ closed \subseteq Conns
  /\ \A c \in Conns : asked[c] \in 0..MaxMessages /\ replied[c] \in Nat /\ pool[c] \in Nat
  /\ table \in [Lanes -> SUBSET Conns]
  /\ named \subseteq table["chat"] /\ pending \subseteq Conns \ table["chat"]
  /\ \A s \in Lanes : lane[s].pc \in {"idle", "first", "batch"}

Coming(s, kind, c) ==
  Event(kind, c) \in Range(inbound[s]) \union Range(lane[s].batch)

(* service.cpp:348 - no session or member stays for a connection that is   *)
(* gone: its end is on the way, behind the notice that made the entry.     *)
(* Except: one that closes before post_connected comes to the chat service *)
(* (early) can have its two notices in the wrong order there.              *)
NoOrphan ==
  \A c \in closed, s \in Lanes :
    c \in table[s] \/ Coming(s, "connected", c)
    => Coming(s, "disconnected", c) \/ (s = "chat" /\ c \in closing \union early)

(* Requests of c on their way to an answer.                                *)
Count(q, S) == Cardinality({i \in DOMAIN q : q[i] \in S})
Mine(c) == {Event(kind, c) : kind \in Requests}
Queued(s, c) == Count(inbound[s], Mine(c)) + Count(lane[s].batch, Mine(c))
Underway(c) ==
  Queued("game", c) + Queued("chat", c) + pool[c]
  + Count(inbox["game"], {c}) + Count(lane["game"].first, {c})

(* service.cpp:363 - a client never waits for an answer that will not      *)
(* come: while its connection is open each of its requests is answered     *)
(* once or on its way, through queues, pool, refusals and handlers that    *)
(* throw. Except: deaf, when a handler threw for a connection its service  *)
(* has no entry of (Connected before it made one, a database answer, a     *)
(* relayed key, a message); on_fault then leaves the connection open.      *)
EveryRequestAnswered ==
  \A c \in Conns \ (closed \union deaf) : asked[c] = replied[c] + Underway(c)

(* broadcast_service.h:53-60 - the key that overtook Connected is kept and *)
(* becomes the member's name, if Connected is in the chat lane's queue     *)
(* when the lane swaps it out.                                             *)
NoNameLost ==
  \A c \in table["chat"] \ (named \union deaf \union closed) :
    c \in relayed /\ c \notin Range(inbox["chat"]) \union Range(lane["chat"].first)
    => c \in missed

(* broadcast_service.cpp:111-113 - what is left at the end of a round has  *)
(* no owner: its connection has come and gone.                             *)
LeftoversHaveNoOwner == orphaned \subseteq closed

(* A closed connection leaves both tables and does not come back.          *)
EventuallyRemoved ==
  \A c \in Conns : c \in closed ~>
    [](c \notin table["game"] /\ (c \notin table["chat"] \/ c \in early))
=============================================================================
