------------------------- MODULE ConnectionLifetime -------------------------
(***************************************************************************)
(* Who keeps a net::Connection alive: the registry of net::IoService, the  *)
(* threads and sessions that hold a shared_ptr to it, and the operations   *)
(* that refer to it by a raw pointer and are counted in pending_.          *)
(*                                                                         *)
(* The object is destroyed when it is not registered and nobody holds it.  *)
(* A test of closed_ and what is done on its account are two steps, and so *)
(* are the parts of close(): the mark, the socket, a notice to each        *)
(* service. What the operations carry is left to ConnectionSend and        *)
(* ConnectionReceive. The overflow policy is refusal: a receive is never   *)
(* paused (ConnectionReceive has that). A call on a closed socket is       *)
(* refused: that its handle may stand for another socket by then is left   *)
(* out.                                                                    *)
(***************************************************************************)
EXTENDS Naturals, Sequences, FiniteSets

CONSTANTS
  Conns,           \* the connections that come, each with its own id
  Workers,         \* the IOCP workers
  ServiceCount,    \* kServiceCount
  MaxConnections,  \* opt_.max_connections; 0 is no limit
  NoConn           \* what a thread holds that holds no connection

Services == 1..ServiceCount    \* in the order of service_at
Threads == Workers \union Services

ASSUME LifetimeAssumption ==
  /\ IsFiniteSet(Conns) /\ IsFiniteSet(Workers)
  /\ ServiceCount \in Nat \ {0}
  /\ Workers \intersect Services = {}
  /\ MaxConnections \in Nat
  /\ NoConn \notin Conns

KernelOps == {"receive", "send"}
Ops == KernelOps \union {"flush"}

VARIABLES
  stage,        \* how far IoService::adopt is with the connection
  registered,   \* connections_
  told,         \* how many services post_connected has told
  closed,       \* closed_
  shut,         \* socket_ is closed
  ended,        \* how many services post_disconnected has told
  pending,      \* pending_
  ops,          \* where each operation is: "none", in the "kernel", on the
                \* "port", or "lost": its notification found no connection
  queue,        \* per service, the notices in its inbound queue
  session,      \* per service, the connections its sessions hold
  at, conn,     \* where each thread is, and with which connection
  back,         \* where a thread goes on when the call it is in returns
  expired,      \* the connections the sweeper is about to close
  sweeping,     \* the one it is closing
  overtaken     \* history: a service was told of the end before the beginning

adoption == <<stage, registered, told>>
closing == <<closed, shut, ended, overtaken>>
lanes == <<queue, session>>
threads == <<at, conn, back>>
sweeper == <<expired, sweeping>>
vars == <<adoption, closing, pending, ops, lanes, threads, sweeper>>

Init ==
  /\ stage = [c \in Conns |-> "unused"]
  /\ registered = {}
  /\ told = [c \in Conns |-> 0]
  /\ closed = [c \in Conns |-> FALSE]
  /\ shut = [c \in Conns |-> FALSE]
  /\ ended = [c \in Conns |-> 0]
  /\ pending = [c \in Conns |-> 0]
  /\ ops = [c \in Conns |-> [k \in Ops |-> "none"]]
  /\ queue = [s \in Services |-> <<>>]
  /\ session = [s \in Services |-> {}]
  /\ at = [t \in Threads |-> "idle"]
  /\ conn = [t \in Threads |-> NoConn]
  /\ back = [t \in Threads |-> "idle"]
  /\ expired = {} /\ sweeping = NoConn
  /\ overtaken = {}

Notice(c, k) == [conn |-> c, kind |-> k]
Queued(s, c, k) == \E i \in DOMAIN queue[s] : queue[s][i] = Notice(c, k)

(* The shared_ptrs to c: the caller of adopt, the Connected notices and    *)
(* the sessions they become, the handlers and the sweeper. A service       *)
(* thread in send or close goes by its session's.                          *)
HeldByAdopt(c) == stage[c] \in {"made", "registered", "starting", "closing", "failed"}
Held(c) ==
  \/ HeldByAdopt(c)
  \/ \E s \in Services : c \in session[s] \/ Queued(s, c, "connected")
  \/ \E w \in Workers : conn[w] = c
  \/ c \in expired

Destroyed(c) == stage[c] # "unused" /\ c \notin registered /\ ~Held(c)

-----------------------------------------------------------------------------
(* close(): the first caller goes in, closes the socket and tells every    *)
(* service, one after the other; to the others it is a mere test.          *)
Mark(c) == closed' = [closed EXCEPT ![c] = TRUE]

CloseSocket(c) ==
  /\ closed[c] /\ ~shut[c]
  /\ shut' = [shut EXCEPT ![c] = TRUE]
  /\ UNCHANGED <<adoption, closed, ended, overtaken, pending, ops, lanes, threads, sweeper>>

PostDisconnected(c) ==
  LET s == ended[c] + 1
  IN  /\ shut[c] /\ ended[c] < ServiceCount
      /\ ended' = [ended EXCEPT ![c] = s]
      /\ queue' = [queue EXCEPT ![s] = Append(@, Notice(c, "disconnected"))]
      /\ overtaken' = IF told[c] < s THEN overtaken \union {c} ELSE overtaken
      /\ UNCHANGED <<adoption, closed, shut, pending, ops, session, threads, sweeper>>

CloseDone(c) == ended[c] = ServiceCount

(* A thread moves on; an idle one has no connection.                       *)
Go(t, pos) ==
  /\ at' = [at EXCEPT ![t] = pos]
  /\ conn' = IF pos = "idle" THEN [conn EXCEPT ![t] = NoConn] ELSE conn
  /\ UNCHANGED back

Return(t) == Go(t, back[t])

CallClose(t, inside) ==
  /\ Mark(conn[t])
  /\ IF closed[conn[t]] THEN Return(t) ELSE Go(t, inside)

CloseReturns(t) ==
  /\ at[t] \in {"closing", "failing"}
  /\ CloseDone(conn[t])
  /\ Return(t)
  /\ UNCHANGED <<adoption, closing, pending, ops, lanes, sweeper>>

(* pending_.fetch_add and the system call that takes the operation. The    *)
(* count alone would keep the sweeper away, so one step will do.           *)
Issue(c, k, where) ==
  /\ ops' = [ops EXCEPT ![c][k] = where]
  /\ pending' = [pending EXCEPT ![c] = @ + 1]

-----------------------------------------------------------------------------
(* adopt: the object is made.                                              *)
Make(c) ==
  /\ stage[c] = "unused"
  /\ stage' = [stage EXCEPT ![c] = "made"]
  /\ UNCHANGED <<registered, told, closing, pending, ops, lanes, threads, sweeper>>

(* The limit is tested and the connection registered under one lock; there *)
(* may be no slot, or the socket was not bound.                            *)
HasSlot == MaxConnections = 0 \/ Cardinality(registered) < MaxConnections

Register(c) ==
  /\ stage[c] = "made"
  /\ \/ /\ HasSlot
        /\ registered' = registered \union {c}
        /\ stage' = [stage EXCEPT ![c] = "registered"]
     \/ /\ stage' = [stage EXCEPT ![c] = "refused"]
        /\ UNCHANGED registered
  /\ UNCHANGED <<told, closing, pending, ops, lanes, threads, sweeper>>

(* The setup callback: the router tells one service after the other.       *)
PostConnected(c) ==
  LET s == told[c] + 1
  IN  /\ stage[c] = "registered" /\ told[c] < ServiceCount
      /\ told' = [told EXCEPT ![c] = s]
      /\ queue' = [queue EXCEPT ![s] = Append(@, Notice(c, "connected"))]
      /\ UNCHANGED <<stage, registered, closing, pending, ops, session, threads, sweeper>>

(* start: the test of post_receive, then its call, which the kernel takes  *)
(* or refuses; refused, the connection is closed, and erased in any case.  *)
Start(c) ==
  /\ stage[c] = "registered" /\ told[c] = ServiceCount
  /\ stage' = [stage EXCEPT ![c] = IF closed[c] THEN "failed" ELSE "starting"]
  /\ UNCHANGED <<registered, told, closing, pending, ops, lanes, threads, sweeper>>

FirstReceive(c) ==
  /\ stage[c] = "starting"
  /\ \/ /\ ~shut[c]
        /\ Issue(c, "receive", "kernel")
        /\ stage' = [stage EXCEPT ![c] = "started"]
        /\ UNCHANGED closed
     \/ /\ Mark(c)
        /\ stage' = [stage EXCEPT ![c] = IF closed[c] THEN "failed" ELSE "closing"]
        /\ UNCHANGED <<pending, ops>>
  /\ UNCHANGED <<registered, told, shut, ended, overtaken, lanes, threads, sweeper>>

StartFails(c) ==
  /\ stage[c] = "closing" /\ CloseDone(c)
  /\ stage' = [stage EXCEPT ![c] = "failed"]
  /\ UNCHANGED <<registered, told, closing, pending, ops, lanes, threads, sweeper>>

EraseFailed(c) ==
  /\ stage[c] = "failed"
  /\ stage' = [stage EXCEPT ![c] = "erased"]
  /\ registered' = registered \ {c}
  /\ UNCHANGED <<told, closing, pending, ops, lanes, threads, sweeper>>

-----------------------------------------------------------------------------
(* The kernel completes an operation, at the latest when the socket closes.*)
KernelDone(c, k) ==
  /\ ops[c][k] = "kernel"
  /\ ops' = [ops EXCEPT ![c][k] = "port"]
  /\ UNCHANGED <<adoption, closing, pending, lanes, threads, sweeper>>

(* dispatch: find holds the connection for the handler; the notification   *)
(* of one that is not registered any more is dropped. (dispatch reads the  *)
(* operation's kind before that: DestroyedIdle is what makes it safe.)     *)
Handler(k) == CASE k = "receive" -> "on_receive"
                [] k = "send" -> "on_send"
                [] k = "flush" -> "on_flush"

Dispatch(w, c, k) ==
  /\ at[w] = "idle"
  /\ ops[c][k] = "port"
  /\ IF c \in registered
     THEN /\ ops' = [ops EXCEPT ![c][k] = "none"]
          /\ at' = [at EXCEPT ![w] = Handler(k)]
          /\ conn' = [conn EXCEPT ![w] = c]
          /\ back' = [back EXCEPT ![w] = IF k = "receive" THEN "on_receive" ELSE "release"]
     ELSE ops' = [ops EXCEPT ![c][k] = "lost"] /\ UNCHANGED threads
  /\ UNCHANGED <<adoption, closing, pending, lanes, sweeper>>

(* on_receive_done: the receive or one of its frames fails and the         *)
(* connection is closed; a refused frame is answered; in the end, unless   *)
(* somebody has closed the connection, the next receive is posted.         *)
OnReceive(w) ==
  /\ at[w] = "on_receive"
  /\ \/ CallClose(w, "closing")
     \/ ~closed[conn[w]] /\ Go(w, "append") /\ UNCHANGED closed
     \/ Go(w, IF closed[conn[w]] THEN "release" ELSE "post") /\ UNCHANGED closed
  /\ UNCHANGED <<adoption, shut, ended, overtaken, pending, ops, lanes, sweeper>>

PostReceive(w) ==
  /\ at[w] = "post"
  /\ \/ /\ ~shut[conn[w]]
        /\ Issue(conn[w], "receive", "kernel")
        /\ Go(w, "release")
        /\ UNCHANGED closed
     \/ CallClose(w, "closing") /\ UNCHANGED <<pending, ops>>
  /\ UNCHANGED <<adoption, shut, ended, overtaken, lanes, sweeper>>

(* send_mutex_, which a thread holds while it issues a send and in a       *)
(* close() because the send was refused.                                   *)
Locked(c) == \E t \in Threads : conn[t] = c /\ at[t] \in {"issue", "failing"}

(* flush_queued_ and sending_, until the handler takes send_mutex_.        *)
Underway(c, k) ==
  ops[c][k] # "none" \/ \E w \in Workers : conn[w] = c /\ at[w] = Handler(k)
FlushQueued(c) == Underway(c, "flush")
Sending(c) == Underway(c, "send")

(* post_send_locked: a send is under way, the connection closed or nothing *)
(* waits; otherwise the bytes are issued, which may be refused.            *)
PostSendLocked(t, sending) ==
  \/ Return(t)
  \/ ~sending /\ ~closed[conn[t]] /\ Go(t, "issue")

IssueSend(t) ==
  /\ at[t] = "issue"
  /\ \/ /\ ~shut[conn[t]]
        /\ Issue(conn[t], "send", "kernel")
        /\ Return(t)
        /\ UNCHANGED closed
     \/ CallClose(t, "failing") /\ UNCHANGED <<pending, ops>>
  /\ UNCHANGED <<adoption, shut, ended, overtaken, lanes, sweeper>>

OnFlush(w) ==
  /\ at[w] = "on_flush" /\ ~Locked(conn[w])
  /\ PostSendLocked(w, Sending(conn[w]))
  /\ UNCHANGED <<adoption, closing, pending, ops, lanes, sweeper>>

(* on_send_done: sending_ is cleared, and the next send may follow; or the *)
(* send failed, which closes after the lock.                               *)
OnSend(w) ==
  /\ at[w] = "on_send" /\ ~Locked(conn[w])
  /\ PostSendLocked(w, FALSE) \/ Go(w, "failed")
  /\ UNCHANGED <<adoption, closing, pending, ops, lanes, sweeper>>

OnSendFailed(w) ==
  /\ at[w] = "failed"
  /\ CallClose(w, "closing")
  /\ UNCHANGED <<adoption, shut, ended, overtaken, pending, ops, lanes, sweeper>>

(* pending_.fetch_sub, and the handler's shared_ptr is gone. Mutants: a    *)
(* closed connection is not counted down; an operation counts twice.       *)
ReleasedTwice(c) == [pending EXCEPT ![c] = @ - 2]
ReleasedUnlessClosed(c) == [pending EXCEPT ![c] = IF closed[c] THEN @ ELSE @ - 1]
Released(c) == [pending EXCEPT ![c] = @ - 1]

Release(w) ==
  /\ at[w] = "release"
  /\ at' = [at EXCEPT ![w] = "idle"]
  /\ conn' = [conn EXCEPT ![w] = NoConn]
  /\ back' = [back EXCEPT ![w] = "idle"]
  /\ pending' = Released(conn[w])
  /\ UNCHANGED <<adoption, closing, ops, lanes, sweeper>>

-----------------------------------------------------------------------------
(* A service takes a notice: the session keeps the connection, or lets go. *)
TakeNotice(s) ==
  /\ at[s] = "idle"
  /\ queue[s] # <<>>
  /\ queue' = [queue EXCEPT ![s] = Tail(@)]
  /\ LET n == Head(queue[s])
     IN  session' = [session EXCEPT ![s] = IF n.kind = "connected"
                                           THEN @ \union {n.conn} ELSE @ \ {n.conn}]
  /\ UNCHANGED <<adoption, closing, pending, ops, threads, sweeper>>

(* send to a session: closed_ is tested first.                             *)
SendEnter(s, c) ==
  /\ at[s] = "idle"
  /\ c \in session[s]
  /\ ~closed[c]
  /\ at' = [at EXCEPT ![s] = "append"]
  /\ conn' = [conn EXCEPT ![s] = c]
  /\ UNCHANGED <<back, adoption, closing, pending, ops, lanes, sweeper>>

(* The rest of send, under the lock: leave it to a flush or a send under   *)
(* way; queue a flush; issue at once (direct_send, or the flush could not  *)
(* be queued).                                                             *)
SendAppend(t) ==
  LET c == conn[t]
  IN  /\ at[t] = "append" /\ ~Locked(c)
      /\ \/ FlushQueued(c) /\ Return(t) /\ UNCHANGED <<ops, pending>>
         \/ /\ ~FlushQueued(c) /\ ~Sending(c)
            /\ Issue(c, "flush", "port")
            /\ Return(t)
         \/ /\ ~FlushQueued(c)
            /\ PostSendLocked(t, Sending(c))
            /\ UNCHANGED <<ops, pending>>
      /\ UNCHANGED <<adoption, closing, lanes, sweeper>>

(* ... or find the limit overrun, or the body too large, and close without *)
(* the lock.                                                               *)
SendOverflows(t) ==
  /\ at[t] = "append"
  /\ CallClose(t, "closing")
  /\ UNCHANGED <<adoption, shut, ended, overtaken, pending, ops, lanes, sweeper>>

-----------------------------------------------------------------------------
(* sweep_loop under the lock: reclaim what is closed and has nothing       *)
(* outstanding, then note what is idle for too long. Mutant: closed is     *)
(* enough.                                                                 *)
ClosedIsEnough(c) == closed[c]
Reclaimable(c) == closed[c] /\ pending[c] = 0

SweepReclaim(c) ==
  /\ expired = {} /\ c \in registered
  /\ Reclaimable(c)
  /\ registered' = registered \ {c}
  /\ UNCHANGED <<stage, told, closing, pending, ops, lanes, threads, sweeper>>

(* A connection adopt still works on was made a moment ago.                *)
SweepExpire(c) ==
  /\ sweeping = NoConn
  /\ c \in registered \ expired
  /\ stage[c] = "started" /\ ~closed[c]
  /\ expired' = expired \union {c}
  /\ UNCHANGED <<sweeping, adoption, closing, pending, ops, lanes, threads>>

SweepClose(c) ==
  /\ c \in expired /\ sweeping = NoConn
  /\ Mark(c)
  /\ IF closed[c] THEN expired' = expired \ {c} /\ UNCHANGED sweeping
     ELSE sweeping' = c /\ UNCHANGED expired
  /\ UNCHANGED <<adoption, shut, ended, overtaken, pending, ops, lanes, threads>>

SweepNext(c) ==
  /\ sweeping = c /\ CloseDone(c)
  /\ expired' = expired \ {c} /\ sweeping' = NoConn
  /\ UNCHANGED <<adoption, closing, pending, ops, lanes, threads>>

-----------------------------------------------------------------------------
Adopting(c) ==
  \/ Register(c) \/ PostConnected(c) \/ Start(c) \/ FirstReceive(c) \/ StartFails(c)
  \/ EraseFailed(c)
Closing(c) == CloseSocket(c) \/ PostDisconnected(c)
Worker(w) ==
  OnReceive(w) \/ PostReceive(w) \/ OnFlush(w) \/ OnSend(w) \/ OnSendFailed(w) \/ Release(w)
Sender(t) == SendAppend(t) \/ SendOverflows(t) \/ IssueSend(t) \/ CloseReturns(t)
Sweeper(c) == SweepReclaim(c) \/ SweepClose(c) \/ SweepNext(c)

Next ==
  \/ \E c \in Conns : Make(c) \/ Adopting(c) \/ Closing(c) \/ Sweeper(c) \/ SweepExpire(c)
  \/ \E c \in Conns, k \in Ops : KernelDone(c, k)
  \/ \E w \in Workers, c \in Conns, k \in Ops : Dispatch(w, c, k)
  \/ \E w \in Workers : Worker(w)
  \/ \E t \in Threads : Sender(t)
  \/ \E s \in Services : TakeNotice(s) \/ \E c \in Conns : SendEnter(s, c)

(* adopt, the workers, the sweeper, the service threads and whoever is in  *)
(* close() keep running, and the kernel completes the operations of a      *)
(* closed socket. A service takes its notices however much it sends.       *)
(* Nobody has to connect, send or be idle.                                 *)
Fairness ==
  /\ \A c \in Conns : /\ WF_vars(Adopting(c)) /\ WF_vars(Closing(c)) /\ WF_vars(Sweeper(c))
                     /\ WF_vars(shut[c] /\ \E k \in Ops : KernelDone(c, k))
                     /\ WF_vars(\E w \in Workers, k \in Ops : Dispatch(w, c, k))
  /\ \A w \in Workers : WF_vars(Worker(w))
  /\ \A t \in Threads : WF_vars(Sender(t))
  /\ \A s \in Services : SF_vars(TakeNotice(s))

Spec == Init /\ [][Next]_vars

FairSpec == Spec /\ Fairness

-----------------------------------------------------------------------------
Positions == {"idle", "on_receive", "on_flush", "on_send", "post", "append", "issue",
              "closing", "failing", "failed", "release"}

TypeOK ==
  /\ stage \in [Conns -> {"unused", "made", "registered", "starting", "closing", "started",
                          "refused", "failed", "erased"}]
  /\ registered \in SUBSET Conns
  /\ told \in [Conns -> 0..ServiceCount] /\ ended \in [Conns -> 0..ServiceCount]
  /\ closed \in [Conns -> BOOLEAN] /\ shut \in [Conns -> BOOLEAN]
  /\ pending \in [Conns -> Nat]
  /\ ops \in [Conns -> [Ops -> {"none", "kernel", "port", "lost"}]]
  /\ queue \in [Services -> Seq([conn : Conns, kind : {"connected", "disconnected"}])]
  /\ session \in [Services -> SUBSET Conns]
  /\ at \in [Threads -> Positions]
  /\ conn \in [Threads -> Conns \union {NoConn}]
  /\ back \in [Threads -> {"idle", "on_receive", "release"}]
  /\ expired \in SUBSET Conns /\ sweeping \in Conns \union {NoConn}
  /\ overtaken \in SUBSET Conns

(* connection.cpp:17 - when a connection that was in service is destroyed  *)
(* nothing is outstanding: no operation refers to the object any more.     *)
DestroyedIdle ==
  \A c \in Conns : stage[c] = "started" /\ Destroyed(c) =>
     pending[c] = 0 /\ \A k \in Ops : ops[c][k] = "none"

(* io_service.cpp:283-284 - whatever the sweeper takes out of the registry *)
(* has nothing outstanding at that moment: no operation in the kernel or   *)
(* on the port refers to it and no handler is at it. (The socket may be    *)
(* open still, and a thread that tested closed_ before may come later: see *)
(* DestroyedIdle.)                                                         *)
Outstanding(c) ==
  (\E k \in Ops : ops[c][k] # "none") \/ \E w \in Workers : conn[w] = c

ReclaimedIdle ==
  [][\A c \in registered \ registered' :
       stage[c] = "failed" \/ (closed[c] /\ ~Outstanding(c))]_vars

(* io_service.cpp:171-172 - the limit holds with any number of adopters.   *)
WithinLimit ==
  MaxConnections > 0 => Cardinality(registered) <= MaxConnections

(* A closed connection is taken out of the registry and destroyed. Except: *)
(* overtaken, one whose end was posted to a service in front of its        *)
(* beginning; the session made afterwards keeps it.                        *)
EventuallyDestroyed ==
  \A c \in Conns : closed[c] ~> Destroyed(c) \/ c \in overtaken
=============================================================================
