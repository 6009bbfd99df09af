--------------------------- MODULE ConnectionSend ---------------------------
(***************************************************************************)
(* The send side of net::Connection (net/connection.cpp): service threads  *)
(* append encoded messages to a buffer under send_mutex_, one WSASend at a *)
(* time carries the buffer to the socket, and IOCP workers handle its      *)
(* completion and the flush notification.                                  *)
(*                                                                         *)
(* A section under send_mutex_ is one step: every field but closed_ and    *)
(* pending_ is touched under that mutex only. What a function does before  *)
(* it locks and after it unlocks are steps of their own.                   *)
(***************************************************************************)
EXTENDS Naturals, Sequences, FiniteSets

CONSTANTS
  Senders,         \* the service threads that call send
  Workers,         \* the IOCP workers
  Messages,        \* the messages to send, each of them once (a bound)
  Size,            \* the encoded size of each message, header included
  MaxSize,         \* header + proto::kMaxOutboundBody
  SendLimit,       \* send_limit_, in bytes; 0 is no limit
  FailureIsFinal   \* of the socket: after a send that failed or moved no
                   \* byte, no later send on that socket moves one

ASSUME SendAssumption ==
  /\ IsFiniteSet(Workers)
  /\ Messages # {}
  /\ Size \in [Messages -> Nat \ {0}]
  /\ MaxSize \in Nat
  /\ SendLimit \in Nat
  /\ FailureIsFinal \in BOOLEAN

VARIABLES
  closed,        \* closed_
  sendPending,   \* send_pending_, the bytes appended and not yet issued
  sendStaging,   \* send_staging_, the buffer handed to WSASend
  sending,       \* sending_
  flushQueued,   \* flush_queued_
  directSend,    \* direct_send_, set once at start-up
  pending,       \* pending_, the operations that still owe a notification
  spc,           \* where each sender is in send()
  msg,           \* the message it is sending
  wpc,           \* where each worker is in a completion handler
  flushPackets,  \* flush notifications on the completion port
  issued,        \* WSASend operations the kernel has not completed
  completions,   \* send completions on the port: bytes moved and success
  broken,        \* the socket will move no byte again
  todo,          \* messages nobody has sent yet
  accepted,      \* history: every byte appended by send(), in order
  wire           \* history: every byte the socket took, in order

vars == <<closed, sendPending, sendStaging, sending, flushQueued, directSend,
          pending, spc, msg, wpc, flushPackets, issued, completions, broken,
          todo, accepted, wire>>

Bytes(m) == [i \in 1..Size[m] |-> <<m, i>>]

Init ==
  /\ closed = FALSE
  /\ sendPending = <<>> /\ sendStaging = <<>>
  /\ sending = FALSE /\ flushQueued = FALSE
  /\ directSend \in BOOLEAN
  /\ pending = 0
  /\ spc = [s \in Senders |-> "idle"]
  /\ msg = [s \in Senders |-> CHOOSE m \in Messages : TRUE]
  /\ wpc = [w \in Workers |-> "idle"]
  /\ flushPackets = 0 /\ issued = 0 /\ completions = <<>>
  /\ broken = FALSE
  /\ todo = Messages
  /\ accepted = <<>> /\ wire = <<>>

-----------------------------------------------------------------------------
(* The early return of post_send_locked. Mutants: it forgets the running   *)
(* send; it leaves everything to a queued flush.                           *)
IssueWhileSending(buf, busy) == closed \/ buf = <<>>
LeaveToFlush(buf, busy) == busy \/ closed \/ flushQueued \/ buf = <<>>
NothingToIssue(buf, busy) == busy \/ closed \/ buf = <<>>

(* post_send_locked, entered with buf accumulated, staged in the staging   *)
(* buffer, busy as sending_ and ops operations owed: it leaves at once,    *)
(* WSASend takes the whole buffer, or WSASend fails on the spot (and the   *)
(* staged bytes stay where they are).                                      *)
PostSendLocked(buf, staged, busy, ops) ==
  \/ /\ NothingToIssue(buf, busy)
     /\ sendPending' = buf /\ sendStaging' = staged /\ sending' = busy
     /\ pending' = ops
     /\ UNCHANGED <<issued, closed>>
  \/ /\ ~NothingToIssue(buf, busy)
     /\ sendPending' = <<>> /\ sendStaging' = buf
     /\ \/ /\ sending' = TRUE /\ pending' = ops + 1 /\ issued' = issued + 1
           /\ UNCHANGED closed
        \/ /\ sending' = FALSE /\ pending' = ops /\ closed' = TRUE
           /\ UNCHANGED issued

(* send, up to the lock: a closed connection drops the message, one that   *)
(* cannot be framed closes the connection.                                 *)
SendEnter(s, m) ==
  /\ spc[s] = "idle"
  /\ m \in todo
  /\ todo' = todo \ {m}
  /\ msg' = [msg EXCEPT ![s] = m]
  /\ spc' = [spc EXCEPT ![s] = IF closed THEN "idle"
                               ELSE IF Size[m] > MaxSize THEN "close"
                               ELSE "append"]
  /\ UNCHANGED <<closed, sendPending, sendStaging, sending, flushQueued,
                 directSend, pending, wpc, flushPackets, issued, completions,
                 broken, accepted, wire>>

(* The limit counts the bytes handed to WSASend too: they have not left.   *)
(* Mutant: it counts the accumulated bytes only.                           *)
OverflowsPending(m) ==
  SendLimit > 0 /\ Len(sendPending) + Size[m] > SendLimit
Overflows(m) ==
  /\ SendLimit > 0
  /\ Len(sendPending) + Len(sendStaging) + Size[m] > SendLimit

(* send under the lock, when the limit is hit: nothing is appended, and    *)
(* the connection is closed once the lock is released.                     *)
SendOverflow(s) ==
  /\ spc[s] = "append"
  /\ Overflows(msg[s])
  /\ spc' = [spc EXCEPT ![s] = "close"]
  /\ UNCHANGED <<closed, sendPending, sendStaging, sending, flushQueued,
                 directSend, pending, msg, wpc, flushPackets, issued,
                 completions, broken, todo, accepted, wire>>

(* send under the lock: append, then issue (direct), leave it to whoever   *)
(* already owes a flush or a completion, notify a worker, or issue because *)
(* the notification could not be posted.                                   *)
SendAppend(s) ==
  LET buf == sendPending \o Bytes(msg[s])
  IN  /\ spc[s] = "append"
      /\ ~Overflows(msg[s])
      /\ spc' = [spc EXCEPT ![s] = "idle"]
      /\ accepted' = accepted \o Bytes(msg[s])
      /\ \/ /\ directSend
            /\ PostSendLocked(buf, sendStaging, sending, pending)
            /\ UNCHANGED <<flushQueued, flushPackets>>
         \/ /\ ~directSend
            /\ sending \/ flushQueued
            /\ sendPending' = buf
            /\ UNCHANGED <<closed, sendStaging, sending, flushQueued, pending,
                           flushPackets, issued>>
         \/ /\ ~directSend /\ ~sending /\ ~flushQueued
            /\ sendPending' = buf
            /\ flushQueued' = TRUE
            /\ flushPackets' = flushPackets + 1
            /\ pending' = pending + 1
            /\ UNCHANGED <<closed, sendStaging, sending, issued>>
         \/ /\ ~directSend /\ ~sending /\ ~flushQueued
            /\ PostSendLocked(buf, sendStaging, sending, pending)
            /\ UNCHANGED <<flushQueued, flushPackets>>
      /\ UNCHANGED <<directSend, msg, wpc, completions, broken, todo, wire>>

(* close() after an overflow or a message that cannot be framed.           *)
SenderClose(s) ==
  /\ spc[s] = "close"
  /\ spc' = [spc EXCEPT ![s] = "idle"]
  /\ closed' = TRUE
  /\ UNCHANGED <<sendPending, sendStaging, sending, flushQueued, directSend,
                 pending, msg, wpc, flushPackets, issued, completions, broken,
                 todo, accepted, wire>>

-----------------------------------------------------------------------------
(* on_flush under the lock. The operation is given back after it.          *)
OnFlush(w) ==
  /\ wpc[w] = "idle"
  /\ flushPackets > 0
  /\ flushPackets' = flushPackets - 1
  /\ flushQueued' = FALSE
  /\ PostSendLocked(sendPending, sendStaging, sending, pending)
  /\ wpc' = [wpc EXCEPT ![w] = "release"]
  /\ UNCHANGED <<directSend, spc, msg, completions, broken, todo, accepted, wire>>

(* requeue_unsent: the part of staged after the first sent bytes goes in   *)
(* front of what has accumulated meanwhile. Mutants: it goes behind it; it *)
(* starts one byte late.                                                   *)
RequeueBehind(buf, staged, sent) ==
  IF sent >= Len(staged) THEN buf
  ELSE buf \o SubSeq(staged, sent + 1, Len(staged))
RequeueShort(buf, staged, sent) ==
  IF sent >= Len(staged) THEN buf
  ELSE SubSeq(staged, sent + 2, Len(staged)) \o buf
RequeueUnsent(buf, staged, sent) ==
  IF sent >= Len(staged) THEN buf
  ELSE SubSeq(staged, sent + 1, Len(staged)) \o buf

(* on_send_done under the lock: put back what was not sent, then go on     *)
(* with whatever has accumulated. A failure closes the connection, but     *)
(* only after the lock is released.                                        *)
OnSendDone(w) ==
  LET c     == Head(completions)
      short == c.moved < Len(sendStaging)
      fail  == ~c.ok \/ (short /\ c.moved = 0)
      buf   == IF fail THEN sendPending
               ELSE RequeueUnsent(sendPending, sendStaging, c.moved)
  IN  /\ wpc[w] = "idle"
      /\ completions # <<>>
      /\ completions' = Tail(completions)
      /\ wpc' = [wpc EXCEPT ![w] = IF fail THEN "close" ELSE "release"]
      /\ \/ /\ ~fail /\ ~closed
            /\ PostSendLocked(buf, <<>>, FALSE, pending)
         \/ /\ fail \/ closed
            /\ sendPending' = buf /\ sendStaging' = <<>> /\ sending' = FALSE
            /\ UNCHANGED <<closed, pending, issued>>
      /\ UNCHANGED <<flushQueued, directSend, spc, msg, flushPackets, broken,
                     todo, accepted, wire>>

WorkerClose(w) ==
  /\ wpc[w] = "close"
  /\ wpc' = [wpc EXCEPT ![w] = "release"]
  /\ closed' = TRUE
  /\ UNCHANGED <<sendPending, sendStaging, sending, flushQueued, directSend,
                 pending, spc, msg, flushPackets, issued, completions, broken,
                 todo, accepted, wire>>

(* pending_.fetch_sub at the end of either handler. Mutants of the count:  *)
(* a closed connection is not counted down; an operation counts twice.     *)
ReleasedUnlessClosed == IF closed THEN pending ELSE pending - 1
ReleasedTwice == pending - 2
Released == pending - 1

Release(w) ==
  /\ wpc[w] = "release"
  /\ wpc' = [wpc EXCEPT ![w] = "idle"]
  /\ pending' = Released
  /\ UNCHANGED <<closed, sendPending, sendStaging, sending, flushQueued,
                 directSend, spc, msg, flushPackets, issued, completions,
                 broken, todo, accepted, wire>>

-----------------------------------------------------------------------------
(* The kernel completes a WSASend: some bytes moved, or none, or an error  *)
(* after some. A closed or broken socket moves nothing.                    *)
KernelSend ==
  /\ issued > 0
  /\ issued' = issued - 1
  /\ \E moved \in 0..Len(sendStaging), ok \in BOOLEAN :
       /\ closed \/ broken => moved = 0 /\ ~ok
       /\ wire' = wire \o SubSeq(sendStaging, 1, moved)
       /\ completions' = Append(completions,
                                [moved |-> IF ok THEN moved ELSE 0, ok |-> ok])
       /\ broken' = (broken \/ (FailureIsFinal /\ (moved = 0 \/ ~ok)))
  /\ UNCHANGED <<closed, sendPending, sendStaging, sending, flushQueued,
                 directSend, pending, spc, msg, wpc, flushPackets, todo,
                 accepted>>

(* close() from elsewhere: the heartbeat sweep, a failed receive, stop.    *)
CloseElsewhere ==
  /\ ~closed
  /\ closed' = TRUE
  /\ UNCHANGED <<sendPending, sendStaging, sending, flushQueued, directSend,
                 pending, spc, msg, wpc, flushPackets, issued, completions,
                 broken, todo, accepted, wire>>

Sender(s) == (\E m \in Messages : SendEnter(s, m))
             \/ SendOverflow(s) \/ SendAppend(s) \/ SenderClose(s)

Worker(w) == OnFlush(w) \/ OnSendDone(w) \/ WorkerClose(w) \/ Release(w)

Next ==
  \/ \E s \in Senders : Sender(s)
  \/ \E w \in Workers : Worker(w)
  \/ KernelSend
  \/ CloseElsewhere

(* Worker threads and the kernel keep running. Nobody has to send or close.*)
Fairness ==
  /\ \A w \in Workers : WF_vars(Worker(w))
  /\ WF_vars(KernelSend)

Spec == Init /\ [][Next]_vars

FairSpec == Spec /\ Fairness

-----------------------------------------------------------------------------
TypeOK ==
  /\ closed \in BOOLEAN /\ sending \in BOOLEAN /\ flushQueued \in BOOLEAN
  /\ directSend \in BOOLEAN /\ broken \in BOOLEAN
  /\ sendPending \in Seq(Messages \X Nat) /\ sendStaging \in Seq(Messages \X Nat)
  /\ accepted \in Seq(Messages \X Nat) /\ wire \in Seq(Messages \X Nat)
  /\ pending \in Nat /\ flushPackets \in Nat /\ issued \in Nat
  /\ completions \in Seq([moved : Nat, ok : BOOLEAN])
  /\ spc \in [Senders -> {"idle", "append", "close"}]
  /\ msg \in [Senders -> Messages]
  /\ wpc \in [Workers -> {"idle", "close", "release"}]
  /\ todo \in SUBSET Messages

(* connection.h:11 - at most one WSASend is outstanding, and sending_ says *)
(* whether there is one, from the call to the handling of its completion.  *)
OneOutstandingSend ==
  issued + Len(completions) = IF sending THEN 1 ELSE 0

(* Bytes appended to send_pending_ are never stranded: while the           *)
(* connection is open, either the completion of a running send or a flush  *)
(* notification that is still queued will pick them up, or a failure that  *)
(* was seen is about to close the connection.                              *)
NoLostFlush ==
  ~closed /\ sendPending # <<>> =>
     \/ sending
     \/ flushQueued /\ flushPackets = 1
     \/ \E w \in Workers : wpc[w] = "close"

(* pending_ counts what still owes a notification or its bookkeeping, so   *)
(* that reclaiming at pending_ = 0 (IoService::sweep_loop) is safe.        *)
PendingCount ==
  pending = issued + Len(completions) + flushPackets
            + Cardinality({w \in Workers : wpc[w] # "idle"})

(* The two send buffers together never exceed send_limit_, whatever a      *)
(* partial send puts back.                                                 *)
WithinLimit ==
  SendLimit > 0 => Len(sendPending) + Len(sendStaging) <= SendLimit

(* The bytes of the running send that have not reached the peer.           *)
InFlight ==
  IF ~sending THEN <<>>
  ELSE IF completions = <<>> THEN sendStaging
  ELSE SubSeq(sendStaging, completions[1].moved + 1, Len(sendStaging))

(* While the connection is open and no send has failed, every accepted     *)
(* byte is sent, in flight or waiting: partial sends lose and repeat none. *)
NothingDropped ==
  ~closed /\ ~broken => wire \o InFlight \o sendPending = accepted

(* What the senders see is the stream of OutboundStream, liveness included:*)
(* accepted bytes keep reaching the peer until the connection closes.      *)
Stream == INSTANCE OutboundStream
ImplementsStream == Stream!Spec
=============================================================================
