-------------------------- MODULE ConnectionReceive --------------------------
(***************************************************************************)
(* The receive side of net::Connection with what it feeds: IOCP workers    *)
(* take receive completions, cut frames out of the connection's buffer and *)
(* queue them on the lane of the service that owns the message id; a full  *)
(* lane either refuses the frame or pauses the connection, and the lane's  *)
(* logic thread resumes it through the completion port.                    *)
(*                                                                         *)
(* A frame is two units, its header and its body; the buffer is counted in *)
(* these units, and its content is the stream from the frames consumed on. *)
(* recv_paused_, resume_queued_, closed_ and the queues are each read or   *)
(* written in a step of their own; nothing else is shared by intention.    *)
(***************************************************************************)
EXTENDS Naturals, Sequences, FiniteSets, ReceiveBuffer

CONSTANTS
  Conns,         \* the connections
  Workers,       \* the IOCP workers
  Lanes,         \* the lanes of the services, one for each service
  Unknown, Huge, \* kinds of frames no lane takes: unrouted id, body too large
  InboundCap,    \* inbound_cap_
  Setups         \* how the server is set up and what the peers send (a bound)

Kinds == Lanes \union {Unknown, Huge}

ASSUME ReceiveAssumption ==
  /\ Conns # {} /\ IsFiniteSet(Workers)
  /\ Unknown \notin Lanes /\ Huge \notin Lanes /\ Unknown # Huge
  /\ InboundCap \in Nat \ {0}
  /\ \A s \in Setups : /\ s.policy \in {"backpressure", "reject"}
                       /\ s.threads \in SUBSET Workers
                       /\ DOMAIN s.script \subseteq Conns
                       /\ \A c \in DOMAIN s.script : s.script[c] \in Seq(Kinds)

VARIABLES
  setup,         \* Service::policy_, the workers IoService::start created,
                 \* and, for the connections that come, what their peers send
  adopted,       \* IoService::adopt has run for the connection
  closed,        \* closed_
  recvPaused,    \* recv_paused_
  resumeQueued,  \* resume_queued_
  pending,       \* pending_, of the receive side
  buf,           \* recv_buf_
  consumed,      \* history: frames consumed from recv_buf_
  posted,        \* WSARecv operations the kernel has not completed
  completions,   \* receive completions on the port: units, 0 if it failed
  resumePackets, \* resume notifications on the port
  wpc,           \* where each worker is in a handler
  wconn,         \* the connection it handles
  inbound,       \* per lane, the events queued
  batch,         \* per lane, the events of the running batch
  paused,        \* per lane, Lane::paused
  waking,        \* per lane, the connections resume_paused still has to wake
  lpc,           \* where each lane's logic thread is in run_step
  refused,       \* history: frames answered with an error by the worker
  fatal,         \* history: the frame a fatal error was sent for, 0 if none
  handled,       \* history: per lane, the events handled
  stranded       \* history: connections whose resume could not be posted

connVars == <<adopted, closed, recvPaused, resumeQueued, pending, buf, consumed>>
portVars == <<posted, completions, resumePackets>>
workVars == <<wpc, wconn>>
laneVars == <<inbound, batch, paused, waking, lpc>>
histVars == <<refused, fatal, handled, stranded>>
vars == <<setup, connVars, portVars, workVars, laneVars, histVars>>

(* What an idle worker holds is of no account.                             *)
NoConn == CHOOSE c \in Conns : TRUE

Init ==
  /\ setup \in Setups
  /\ adopted = [c \in Conns |-> FALSE]
  /\ closed = [c \in Conns |-> FALSE]
  /\ recvPaused = [c \in Conns |-> FALSE]
  /\ resumeQueued = [c \in Conns |-> FALSE]
  /\ pending = [c \in Conns |-> 0]
  /\ buf = [c \in Conns |-> NoMemory] /\ consumed = [c \in Conns |-> 0]
  /\ posted = [c \in Conns |-> 0]
  /\ completions = [c \in Conns |-> <<>>]
  /\ resumePackets = [c \in Conns |-> 0]
  /\ wpc = [w \in Workers |-> "idle"]
  /\ wconn = [w \in Workers |-> NoConn]
  /\ inbound = [l \in Lanes |-> <<>>] /\ batch = [l \in Lanes |-> <<>>]
  /\ paused = [l \in Lanes |-> <<>>] /\ waking = [l \in Lanes |-> <<>>]
  /\ lpc = [l \in Lanes |-> "idle"]
  /\ refused = [c \in Conns |-> {}] /\ fatal = [c \in Conns |-> 0]
  /\ handled = [l \in Lanes |-> <<>>]
  /\ stranded = {}

-----------------------------------------------------------------------------
(* An InboundEvent: a message with the number of its frame, or a notice.   *)
Event(c, k, n) == [conn |-> c, kind |-> k, frame |-> n]

ToAll(e) == [l \in Lanes |-> Append(inbound[l], e)]

(* close(): the first call closes the socket and tells every service.      *)
Close(c) ==
  /\ closed' = [closed EXCEPT ![c] = TRUE]
  /\ inbound' = IF closed[c] THEN inbound ELSE ToAll(Event(c, "disconnected", 0))

(* post_receive, of an open connection: there is room and the kernel takes *)
(* the receive, or the connection is closed.                               *)
PostReceive(c) ==
  /\ buf' = [buf EXCEPT ![c] = ReserveFree(@)]
  /\ \/ /\ HasRoom(buf'[c])
        /\ posted' = [posted EXCEPT ![c] = @ + 1]
        /\ pending' = [pending EXCEPT ![c] = @ + 1]
        /\ UNCHANGED <<closed, inbound>>
     \/ /\ Close(c)
        /\ UNCHANGED <<posted, pending>>

(* adopt: the connection is announced to the services, then started; no    *)
(* handler can run in between, for no receive was posted.                  *)
Adopt(c) ==
  LET connected == ToAll(Event(c, "connected", 0))
  IN  /\ c \in DOMAIN setup.script /\ ~adopted[c]
      /\ adopted' = [adopted EXCEPT ![c] = TRUE]
      /\ buf' = [buf EXCEPT ![c] = ReserveFree(@)]
      /\ \/ /\ posted' = [posted EXCEPT ![c] = 1]
            /\ pending' = [pending EXCEPT ![c] = 1]
            /\ inbound' = connected
            /\ UNCHANGED closed
         \/ /\ closed' = [closed EXCEPT ![c] = TRUE]
            /\ inbound' = [l \in Lanes |->
                             Append(connected[l], Event(c, "disconnected", 0))]
            /\ UNCHANGED <<posted, pending>>
      /\ UNCHANGED <<setup, recvPaused, resumeQueued, consumed,
                     completions, resumePackets, workVars, batch, paused,
                     waking, lpc, histVars>>

(* The kernel completes a receive: some of the units the peer still has to *)
(* send, or an orderly or abortive end.                                    *)
KernelReceive(c) ==
  /\ posted[c] > 0
  /\ posted' = [posted EXCEPT ![c] = @ - 1]
  /\ \E n \in 0..WritableSize(buf[c]) :
       /\ 2 * consumed[c] + ReadableSize(buf[c]) + n <= 2 * Len(setup.script[c])
       /\ closed[c] => n = 0
       /\ completions' = [completions EXCEPT ![c] = Append(@, n)]
  /\ UNCHANGED <<setup, connVars, resumePackets, workVars, laneVars, histVars>>

-----------------------------------------------------------------------------
Go(w, to) == wpc' = [wpc EXCEPT ![w] = to]

(* on_receive_done, of a receive that failed or ended the stream.          *)
ReceiveFailed(w, c) ==
  /\ w \in setup.threads /\ wpc[w] = "idle"
  /\ completions[c] # <<>> /\ Head(completions[c]) = 0
  /\ completions' = [completions EXCEPT ![c] = Tail(@)]
  /\ wconn' = [wconn EXCEPT ![w] = c]
  /\ Go(w, "release")
  /\ Close(c)
  /\ UNCHANGED <<setup, adopted, recvPaused, resumeQueued, pending, buf,
                 consumed, posted, resumePackets, batch, paused, waking, lpc,
                 histVars>>

(* on_receive_done, up to drain_frames.                                    *)
ReceiveDone(w, c) ==
  /\ w \in setup.threads /\ wpc[w] = "idle"
  /\ completions[c] # <<>> /\ Head(completions[c]) > 0
  /\ completions' = [completions EXCEPT ![c] = Tail(@)]
  /\ buf' = [buf EXCEPT ![c] = CommitWrite(@, Head(completions[c]))]
  /\ wconn' = [wconn EXCEPT ![w] = c]
  /\ Go(w, "drain")
  /\ UNCHANGED <<setup, adopted, closed, recvPaused, resumeQueued, pending,
                 consumed, posted, resumePackets, laneVars, histVars>>

(* on_resume, up to drain_frames: two stores.                              *)
OnResume(w, c) ==
  /\ w \in setup.threads /\ wpc[w] = "idle"
  /\ resumePackets[c] > 0
  /\ resumePackets' = [resumePackets EXCEPT ![c] = @ - 1]
  /\ wconn' = [wconn EXCEPT ![w] = c]
  /\ recvPaused' = [recvPaused EXCEPT ![c] = FALSE]
  /\ Go(w, "resume")
  /\ UNCHANGED <<setup, adopted, closed, resumeQueued, pending, buf,
                 consumed, posted, completions, laneVars, histVars>>

(* resume_queued_.store(false). Mutant: the flag stays set.                *)
ResumeStaysQueued(c) == resumeQueued
ResumeUnqueued(c) == [resumeQueued EXCEPT ![c] = FALSE]

ClearResume(w) ==
  /\ wpc[w] = "resume"
  /\ resumeQueued' = ResumeUnqueued(wconn[w])
  /\ Go(w, "resumedDrain")
  /\ UNCHANGED <<setup, adopted, closed, recvPaused, pending, buf,
                 consumed, portVars, wconn, laneVars, histVars>>

(* drain_frames runs in either handler.                                    *)
Draining(w) == wpc[w] \in {"drain", "resumedDrain"}
Leave(w) == IF wpc[w] = "drain" THEN "repost" ELSE "resumedRepost"

(* peek_frame. Mutant: the header alone makes a frame.                     *)
Buffered(c) == ReadableSize(buf[c])
Kind(c) == setup.script[c][consumed[c] + 1]
Incomplete(c) == Buffered(c) = 0 \/ (Buffered(c) = 1 /\ Kind(c) # Huge)
TooLarge(c) == Buffered(c) > 0 /\ Kind(c) = Huge
HeaderIsEnough(c) == Buffered(c) >= 1 /\ Kind(c) # Huge
Complete(c) == Buffered(c) >= 2 /\ Kind(c) # Huge

DrainIncomplete(w) ==
  /\ Draining(w)
  /\ Incomplete(wconn[w])
  /\ Go(w, Leave(w))
  /\ UNCHANGED <<setup, connVars, portVars, wconn, laneVars, histVars>>

DrainTooLarge(w) ==
  /\ Draining(w)
  /\ TooLarge(wconn[w])
  /\ Close(wconn[w])
  /\ Go(w, Leave(w))
  /\ UNCHANGED <<setup, adopted, recvPaused, resumeQueued, pending, buf,
                 consumed, portVars, wconn, batch, paused, waking, lpc, histVars>>

(* consume, then drain on unless the connection was closed meanwhile.      *)
(* Mutant: the buffer is drained to its end.                               *)
DrainOn(w, c) == wpc[w]
AfterFrame(w, c) == IF closed[c] THEN Leave(w) ELSE wpc[w]

Consume(w, c) ==
  /\ consumed' = [consumed EXCEPT ![c] = @ + 1]
  /\ buf' = [buf EXCEPT ![c] = ConsumeRead(@, 2)]
  /\ Go(w, AfterFrame(w, c))

(* try_emplace refuses at the cap. Notices are queued past it.             *)
Full(l) == Len(inbound[l]) >= InboundCap

(* post_message: the lane takes the frame.                                 *)
DrainQueued(w) ==
  LET c == wconn[w]
  IN  /\ Draining(w) /\ Complete(c)
      /\ Kind(c) \in Lanes /\ ~Full(Kind(c))
      /\ inbound' = [inbound EXCEPT ![Kind(c)] =
                       Append(@, Event(c, "message", consumed[c] + 1))]
      /\ Consume(w, c)
      /\ UNCHANGED <<setup, adopted, closed, recvPaused, resumeQueued, pending,
                     portVars, wconn, batch, paused, waking, lpc, histVars>>

(* No service owns the id: send_error closes the connection, for the error *)
(* is a fatal one. The frame is consumed afterwards.                       *)
DrainFatal(w) ==
  LET c == wconn[w]
  IN  /\ Draining(w) /\ Complete(c)
      /\ Kind(c) = Unknown /\ ~closed[c]
      /\ Close(c)
      /\ fatal' = [fatal EXCEPT ![c] = consumed[c] + 1]
      /\ UNCHANGED <<setup, adopted, recvPaused, resumeQueued, pending, buf,
                     consumed, portVars, workVars, batch, paused, waking, lpc,
                     refused, handled, stranded>>

(* The frame is answered with an error: the rate limiter is out of tokens, *)
(* no service owns the id, or the lane is full and its policy is to refuse.*)
DrainRefused(w) ==
  LET c == wconn[w]
  IN  /\ Draining(w) /\ Complete(c)
      /\ refused' = [refused EXCEPT ![c] = @ \union {consumed[c] + 1}]
      /\ Consume(w, c)
      /\ UNCHANGED <<setup, adopted, closed, recvPaused, resumeQueued, pending,
                     portVars, wconn, laneVars, fatal, handled, stranded>>

(* The lane is full and the connection is to slow down: pause_receive, put *)
(* it on the lane's list, and leave the frame in the buffer.               *)
WhenFull(w) == Draining(w) /\ Complete(wconn[w]) /\ Kind(wconn[w]) \in Lanes
               /\ setup.policy = "backpressure" /\ Full(Kind(wconn[w]))

Pause(w) ==
  /\ WhenFull(w)
  /\ recvPaused' = [recvPaused EXCEPT ![wconn[w]] = TRUE]
  /\ Go(w, IF wpc[w] = "drain" THEN "list" ELSE "resumedList")
  /\ UNCHANGED <<setup, adopted, closed, resumeQueued, pending, buf,
                 consumed, portVars, wconn, laneVars, histVars>>

(* What happens to the refused frame: it stays. Mutant: it is consumed.    *)
DropsFrame(c) ==
  /\ consumed' = [consumed EXCEPT ![c] = @ + 1]
  /\ buf' = [buf EXCEPT ![c] = ConsumeRead(@, 2)]
KeepsFrame(c) == UNCHANGED <<consumed, buf>>

ListPaused(w) ==
  LET c == wconn[w]
  IN  /\ wpc[w] \in {"list", "resumedList"}
      /\ paused' = [paused EXCEPT ![Kind(c)] = Append(@, c)]
      /\ KeepsFrame(c)
      /\ Go(w, IF wpc[w] = "list" THEN "repost" ELSE "resumedRepost")
      /\ UNCHANGED <<setup, adopted, closed, recvPaused, resumeQueued, pending,
                     portVars, wconn, inbound, batch, waking, lpc,
                     histVars>>

(* The end of both handlers: the next receive, unless closed or paused.    *)
(* Mutants: it ignores the pause; it is skipped after a resume.            *)
IgnorePause(w) == ~closed[wconn[w]]
OnlyAfterReceive(w) == ~closed[wconn[w]] /\ ~recvPaused[wconn[w]] /\ wpc[w] = "repost"
MayRepost(w) == ~closed[wconn[w]] /\ ~recvPaused[wconn[w]]

Repost(w) ==
  /\ wpc[w] \in {"repost", "resumedRepost"}
  /\ \/ /\ MayRepost(w)
        /\ PostReceive(wconn[w])
     \/ /\ ~MayRepost(w)
        /\ UNCHANGED <<posted, pending, closed, inbound, buf>>
  /\ Go(w, "release")
  /\ UNCHANGED <<setup, adopted, recvPaused, resumeQueued, consumed,
                 completions, resumePackets, wconn, batch, paused, waking, lpc,
                 histVars>>

(* pending_.fetch_sub. Mutant: a closed connection is not counted down.    *)
ReleasedUnlessClosed(c) == [pending EXCEPT ![c] = IF closed[c] THEN @ ELSE @ - 1]
Released(c) == [pending EXCEPT ![c] = @ - 1]

Release(w) ==
  /\ wpc[w] = "release"
  /\ pending' = Released(wconn[w])
  /\ Go(w, "idle")
  /\ wconn' = [wconn EXCEPT ![w] = NoConn]
  /\ UNCHANGED <<setup, adopted, closed, recvPaused, resumeQueued, buf,
                 consumed, portVars, laneVars, histVars>>

-----------------------------------------------------------------------------
(* run_step of a lane: swap the queue. A round that finds neither an event *)
(* nor a paused connection changes nothing and is left out.                *)
LaneSwap(l) ==
  /\ lpc[l] = "idle"
  /\ inbound[l] # <<>> \/ paused[l] # <<>>
  /\ batch' = [batch EXCEPT ![l] = inbound[l]]
  /\ inbound' = [inbound EXCEPT ![l] = <<>>]
  /\ lpc' = [lpc EXCEPT ![l] = "batch"]
  /\ UNCHANGED <<setup, connVars, portVars, workVars, paused, waking, histVars>>

(* The rest of run_step: the events are handled in order, which nobody     *)
(* else sees, and resume_paused takes the list of paused connections.      *)
LaneBatch(l) ==
  /\ lpc[l] = "batch"
  /\ handled' = [handled EXCEPT ![l] = @ \o batch[l]]
  /\ batch' = [batch EXCEPT ![l] = <<>>]
  /\ waking' = [waking EXCEPT ![l] = paused[l]]
  /\ paused' = [paused EXCEPT ![l] = <<>>]
  /\ lpc' = [lpc EXCEPT ![l] = IF paused[l] = <<>> THEN "idle" ELSE "wake"]
  /\ UNCHANGED <<setup, connVars, portVars, workVars, inbound, refused, fatal, stranded>>

(* resume_receive: nothing to do, post the notification, or fail to.       *)
ResumeReceive(c) ==
  LET due == recvPaused[c] /\ ~resumeQueued[c]
  IN  \/ /\ due
         /\ resumeQueued' = [resumeQueued EXCEPT ![c] = TRUE]
         /\ resumePackets' = [resumePackets EXCEPT ![c] = @ + 1]
         /\ pending' = [pending EXCEPT ![c] = @ + 1]
         /\ UNCHANGED stranded
      \/ /\ due
         /\ stranded' = stranded \union {c}
         /\ UNCHANGED <<resumeQueued, resumePackets, pending>>
      \/ /\ ~due
         /\ UNCHANGED <<resumeQueued, resumePackets, pending, stranded>>

(* resume_paused wakes them one by one, outside the lock of the list.      *)
LaneWake(l) ==
  /\ lpc[l] = "wake"
  /\ waking' = [waking EXCEPT ![l] = Tail(@)]
  /\ lpc' = [lpc EXCEPT ![l] = IF Len(waking[l]) > 1 THEN "wake" ELSE "idle"]
  /\ ResumeReceive(Head(waking[l]))
  /\ UNCHANGED <<setup, adopted, closed, recvPaused, buf, consumed, posted,
                 completions, workVars, inbound, batch, paused, refused, fatal,
                 handled>>

(* close() by the sweeper, by a sender or by stop.                         *)
CloseElsewhere(c) ==
  /\ adopted[c] /\ ~closed[c]
  /\ Close(c)
  /\ UNCHANGED <<setup, adopted, recvPaused, resumeQueued, pending, buf,
                 consumed, portVars, workVars, batch, paused, waking, lpc, histVars>>

-----------------------------------------------------------------------------
WorkerTakes(w) ==
  \E c \in Conns : ReceiveFailed(w, c) \/ ReceiveDone(w, c) \/ OnResume(w, c)

WorkerGoesOn(w) ==
  \/ ClearResume(w) \/ DrainIncomplete(w) \/ DrainTooLarge(w)
  \/ DrainQueued(w) \/ DrainFatal(w) \/ DrainRefused(w) \/ Pause(w)
  \/ ListPaused(w) \/ Repost(w) \/ Release(w)

Lane(l) == LaneSwap(l) \/ LaneBatch(l) \/ LaneWake(l)

Next ==
  \/ \E c \in Conns : Adopt(c) \/ KernelReceive(c) \/ CloseElsewhere(c)
  \/ \E w \in Workers : WorkerTakes(w) \/ WorkerGoesOn(w)
  \/ \E l \in Lanes : Lane(l)

(* Workers and logic threads keep running: a logic thread sleeps at most   *)
(* max_idle_wait_ms. The port hands out the notifications of one           *)
(* connection before long. Nobody has to connect, send or close.           *)
Fairness ==
  /\ \A w \in Workers : WF_vars(WorkerGoesOn(w))
  /\ \A c \in Conns : WF_vars(\E w \in Workers :
                         ReceiveFailed(w, c) \/ ReceiveDone(w, c) \/ OnResume(w, c))
  /\ \A l \in Lanes : WF_vars(Lane(l))

Spec == Init /\ [][Next]_vars

FairSpec == Spec /\ Fairness

-----------------------------------------------------------------------------
(* What the queues and handled hold is the matter of DeliveredInOrder.     *)
TypeOK ==
  /\ setup \in Setups
  /\ adopted \in [Conns -> BOOLEAN]
  /\ closed \in [Conns -> BOOLEAN]
  /\ recvPaused \in [Conns -> BOOLEAN] /\ resumeQueued \in [Conns -> BOOLEAN]
  /\ pending \in [Conns -> Nat]
  /\ buf \in [Conns -> [cap : 0..MaxCapacity, read : Nat, write : Nat]]
  /\ \A c \in Conns : buf[c].read <= buf[c].write /\ buf[c].write <= buf[c].cap
  /\ consumed \in [Conns -> Nat]
  /\ posted \in [Conns -> Nat] /\ resumePackets \in [Conns -> Nat]
  /\ completions \in [Conns -> Seq(0..MaxCapacity)]
  /\ wpc \in [Workers -> {"idle", "drain", "list", "repost", "resume",
                          "resumedDrain", "resumedList", "resumedRepost", "release"}]
  /\ wconn \in [Workers -> Conns]
  /\ paused \in [Lanes -> Seq(Conns)] /\ waking \in [Lanes -> Seq(Conns)]
  /\ lpc \in [Lanes -> {"idle", "batch", "wake"}]
  /\ refused \in [Conns -> SUBSET Nat] /\ fatal \in [Conns -> Nat]
  /\ stranded \in SUBSET Conns

(* The workers inside a handler of c that may still touch its buffer.      *)
Handling(c) == {w \in Workers : wpc[w] \notin {"idle", "release"} /\ wconn[w] = c}

(* recv_buf_ and recv_op_ have one owner at a time, without a lock: the    *)
(* outstanding receive or the worker in a handler; and a resume is only    *)
(* due while no receive is outstanding.                                    *)
Outstanding(c) == posted[c] + Len(completions[c])

OneReceiver ==
  \A c \in Conns : /\ Outstanding(c) + Cardinality(Handling(c)) <= 1
                   /\ Outstanding(c) + resumePackets[c] <= 1

(* connection.cpp:148 - when on_resume posts the next receive, none is     *)
(* outstanding, because none was posted while the connection was paused.   *)
NoReceiveWhilePaused ==
  \A w \in Workers : wpc[w] \in {"resumedDrain", "resumedRepost"} =>
     Outstanding(wconn[w]) = 0

(* receive_buffer.h:24-35 - a receive always finds kMinFree units, and a   *)
(* connection never needs more than its first chunk: whatever the receives *)
(* cut and the lanes refuse, only a part of a frame is left when the next  *)
(* receive is posted. So reserve_free refuses nobody.                      *)
RoomToReceive ==
  \A c \in Conns : Outstanding(c) > 0 => HasRoom(buf[c]) /\ buf[c].cap = Chunk

(* pending_ counts what still owes a notification or its bookkeeping.      *)
PendingCount ==
  \A c \in Conns :
     pending[c] = Outstanding(c) + resumePackets[c]
                  + Cardinality({w \in Workers : wpc[w] # "idle" /\ wconn[w] = c})

Listed(c) ==
  \E l \in Lanes : \E i \in DOMAIN (paused[l] \o waking[l]) : (paused[l] \o waking[l])[i] = c

(* A connection in service is never forgotten: a receive is outstanding,   *)
(* a worker or a resume notification has it, or a lane has it on its list. *)
NeverForgotten ==
  \A c \in Conns :
     adopted[c] /\ ~closed[c] /\ c \notin stranded =>
        \/ Outstanding(c) + resumePackets[c] > 0
        \/ Handling(c) # {}
        \/ recvPaused[c] /\ Listed(c)

(* Every frame cut from the stream reaches the lane of its kind once and   *)
(* in the order of the stream, unless it was answered with an error: a     *)
(* frame that backpressure leaves in the buffer is neither lost nor        *)
(* delivered twice.                                                        *)
Delivered(l) == handled[l] \o batch[l] \o inbound[l]

DeliveredInOrder ==
  \A l \in Lanes, c \in Conns :
     LET got == Delivered(l)
         mine == {i \in DOMAIN got : got[i].conn = c /\ got[i].kind = "message"}
     IN  /\ \A i, j \in mine : i < j => got[i].frame < got[j].frame
         /\ {got[i].frame : i \in mine}
              = {n \in 1..consumed[c] : setup.script[c][n] = l /\ n \notin refused[c]}

(* reply.cpp:19 - behind a fatal error the bytes are not trusted: no frame *)
(* is cut from the stream any more, neither by the handler that sent it    *)
(* nor by a resume or a receive that was under way.                        *)
NothingBehindFatal == \A c \in Conns : fatal[c] # 0 => consumed[c] <= fatal[c]

(* Whole frames do not stay in the buffer, however full the lanes are: a   *)
(* paused connection is resumed and drained, while it is open.             *)
EventuallyDrained ==
  \A c \in Conns : (Buffered(c) >= 2) ~> (Buffered(c) < 2 \/ closed[c] \/ c \in stranded)
=============================================================================
