------------------------------ MODULE Shutdown ------------------------------
(***************************************************************************)
(* The end of main() (main.cpp): stop accepting, drain the database pool,  *)
(* then the services, then the send buffers, close the connections, and    *)
(* stop one component after the other. Around it the way of each request:  *)
(* from the queue of a lane, through the pool when it needs the database,  *)
(* to the send buffer and the socket. Each drain gives up at its deadline. *)
(***************************************************************************)
EXTENDS Naturals, FiniteSets

CONSTANTS
  Requests,
  DbRequests   \* those that go through the database pool

VARIABLES
  main,       \* the call main() is in
  draining,   \* WorkerPool::draining_
  timedOut,   \* a drain ended at its deadline
  at,         \* where each request, or its answer, is
  lane,       \* run_step of the lane: what it has swapped out
  received    \* history: the requests the server had when it was told to stop

vars == <<main, draining, timedOut, at, lane, received>>

In(place) == {r \in Requests : at[r] = place}
MoveAll(from, to) == [r \in Requests |-> IF at[r] = from THEN to ELSE at[r]]

Init ==
  /\ main = "serving" /\ draining = FALSE /\ timedOut = FALSE
  /\ at = [r \in Requests |-> "client"]
  /\ lane = "idle"
  /\ received = {}

(* io.stop has closed the connections.                                     *)
Closed == main \in {"db.stop", "services.stop", "end"}

(* An open connection goes on receiving while the server drains.           *)
Receive(r) ==
  /\ at[r] = "client" /\ ~Closed
  /\ at' = [at EXCEPT ![r] = "inbound"]
  /\ UNCHANGED <<main, draining, timedOut, lane, received>>

(* run_step: the database answers, then the inbound queue. What is swapped *)
(* out is in no queue while it is being handled.                           *)
SwapAnswers ==
  /\ lane = "idle" /\ main # "end"
  /\ lane' = "answers"
  /\ at' = MoveAll("db_inbox", "answers")
  /\ UNCHANGED <<main, draining, timedOut, received>>

SwapInbound ==
  /\ lane = "answers" /\ In("answers") = {}
  /\ lane' = "batch"
  /\ at' = MoveAll("inbound", "batch")
  /\ UNCHANGED <<main, draining, timedOut, received>>

RoundEnds ==
  /\ lane = "batch" /\ In("batch") = {}
  /\ lane' = "idle"
  /\ UNCHANGED <<main, draining, timedOut, at, received>>

(* send: into the send buffer of an open connection.                       *)
Reply(r) == [at EXCEPT ![r] = IF Closed THEN "lost" ELSE "unsent"]

(* A request for the pool is refused with an error once it drains.         *)
Handle(r) ==
  /\ at[r] \in {"answers", "batch"}
  /\ at' = IF at[r] = "batch" /\ r \in DbRequests /\ ~draining
           THEN [at EXCEPT ![r] = "pool"] ELSE Reply(r)
  /\ UNCHANGED <<main, draining, timedOut, lane, received>>

(* A worker hands the answer to the sink before it counts the request off. *)
PoolAnswers(r) ==
  /\ at[r] = "pool"
  /\ at' = [at EXCEPT ![r] = "db_inbox"]
  /\ UNCHANGED <<main, draining, timedOut, lane, received>>

Send(r) ==
  /\ at[r] = "unsent" /\ ~Closed
  /\ at' = [at EXCEPT ![r] = "sent"]
  /\ UNCHANGED <<main, draining, timedOut, lane, received>>

-----------------------------------------------------------------------------
AcceptorStop ==
  /\ main = "serving"
  /\ main' = "acceptor.stop"
  /\ received' = Requests \ In("client")
  /\ UNCHANGED <<draining, timedOut, at, lane>>

DbDrainBegins ==
  /\ main = "acceptor.stop"
  /\ main' = "db.drain"
  /\ draining' = TRUE
  /\ UNCHANGED <<timedOut, at, lane, received>>

(* queued(), pending() and has_unsent(): what each drain waits for.        *)
DbQueued == In("pool")
ServicesPending == In("inbound") \union In("db_inbox")
Unsent == In("unsent")

Drain(from, left, to) ==
  /\ main = from
  /\ \/ left = {} /\ UNCHANGED timedOut
     \/ left # {} /\ timedOut' = TRUE
  /\ main' = to
  /\ UNCHANGED <<draining, at, lane, received>>

DbDrain == Drain("db.drain", DbQueued, "services.drain")
ServicesDrain == Drain("services.drain", ServicesPending, "flush_pending")
FlushPending == Drain("flush_pending", Unsent, "io.stop")

IoStop ==
  /\ main = "io.stop"
  /\ main' = "db.stop"
  /\ at' = MoveAll("unsent", "lost")
  /\ UNCHANGED <<draining, timedOut, lane, received>>

(* The pool's workers are joined and what they left is rejected.           *)
DbStop ==
  /\ main = "db.stop"
  /\ main' = "services.stop"
  /\ at' = MoveAll("pool", "db_inbox")
  /\ UNCHANGED <<draining, timedOut, lane, received>>

(* The lanes run a last step each and are joined.                          *)
ServicesStop ==
  /\ main = "services.stop" /\ lane = "idle"
  /\ In("inbound") \union In("db_inbox") = {}
  /\ main' = "end"
  /\ UNCHANGED <<draining, timedOut, at, lane, received>>

Next ==
  \/ \E r \in Requests : Receive(r) \/ Handle(r) \/ PoolAnswers(r) \/ Send(r)
  \/ SwapAnswers \/ SwapInbound \/ RoundEnds
  \/ AcceptorStop \/ DbDrainBegins \/ DbDrain \/ ServicesDrain \/ FlushPending
  \/ IoStop \/ DbStop \/ ServicesStop

Spec == Init /\ [][Next]_vars

-----------------------------------------------------------------------------
(* main.cpp:274 - the connections are closed after the work that was taken *)
(* on is finished and its answers have left through the socket, unless a   *)
(* drain ran out of time.                                                  *)
AnsweredBeforeClose ==
  Closed /\ ~timedOut => \A r \in received : at[r] = "sent"
=============================================================================
