-------------------------- MODULE RequestDispatcher --------------------------
(***************************************************************************)
(* db::RequestDispatcher (db/request_dispatcher.cpp), the queue that the   *)
(* database workers share under dynamic dispatch, and the way the workers  *)
(* of db::WorkerPool use it: take one request or a batch of them, then     *)
(* finish all of them in order. Each operation runs under mutex_ from      *)
(* beginning to end and is one step.                                       *)
(***************************************************************************)
EXTENDS Naturals, Sequences, FiniteSets

CONSTANTS
  Keys,        \* session keys
  Requests,    \* request slots; a slot is used again once it is answered
  KeyOf,       \* the session key of each request
  Workers,     \* the workers of the pool
  Cap,         \* kMaxQueuePerWorker * workers_.size()
  BatchSize    \* batch_size_, the most requests a worker holds at once

ASSUME DispatcherAssumption ==
  /\ IsFiniteSet(Requests)
  /\ KeyOf \in [Requests -> Keys]
  /\ Cap \in Nat
  /\ BatchSize \in Nat \ {0}

VARIABLES
  table,      \* the keys queues_ has an entry for
  waiting,    \* KeyQueue::waiting
  working,    \* KeyQueue::working
  ready,      \* ready_
  depth,      \* depth_
  held,       \* the requests each worker took and has not finished
  flushing    \* whether it is past taking and finishes what it holds

vars == <<table, waiting, working, ready, depth, held, flushing>>

Elements(seq) == {seq[i] : i \in DOMAIN seq}

Init ==
  /\ table = {}
  /\ waiting = [k \in Keys |-> <<>>]
  /\ working = [k \in Keys |-> FALSE]
  /\ ready = <<>>
  /\ depth = 0
  /\ held = [w \in Workers |-> <<>>]
  /\ flushing = [w \in Workers |-> FALSE]

(* A slot in use cannot be submitted: requests are unique_ptrs.            *)
InUse(r) ==
  \/ r \in Elements(waiting[KeyOf[r]])
  \/ \E w \in Workers : r \in Elements(held[w])

(* push: only a key nobody works on, and whose first request this is, goes *)
(* on the ready list. Mutants: a key that is worked on is listed too; a    *)
(* request more than the cap is accepted.                                  *)
ListEvenIfWorking(k) == waiting[k] = <<>>
BecomesReady(k) == ~working[k] /\ waiting[k] = <<>>
HasRoomInclusive == depth <= Cap
HasRoom == depth < Cap

Push(r) ==
  LET k == KeyOf[r]
  IN  /\ ~InUse(r)
      /\ HasRoom
      /\ table' = table \union {k}
      /\ waiting' = [waiting EXCEPT ![k] = Append(@, r)]
      /\ depth' = depth + 1
      /\ ready' = IF BecomesReady(k) THEN Append(ready, k) ELSE ready
      /\ UNCHANGED <<working, held, flushing>>

(* take: the first key of the ready list that can be served; the ones the  *)
(* loop passes over are dropped.                                           *)
CanServe(k) == k \in table /\ ~working[k] /\ waiting[k] # <<>>

(* A worker stops taking when its batch is full. Mutant: off by one.       *)
RoomPastBatch(w) == ~flushing[w] /\ Len(held[w]) <= BatchSize
MayTake(w) == ~flushing[w] /\ Len(held[w]) < BatchSize

(* kq.working = true. Mutant: the key is not marked.                       *)
Unmarked(k) == working
Marked(k) == [working EXCEPT ![k] = TRUE]

Take(w) ==
  /\ MayTake(w)
  /\ \E i \in 1..Len(ready) :
       LET k == ready[i]
       IN  /\ CanServe(k)
           /\ \A j \in 1..(i - 1) : ~CanServe(ready[j])
           /\ ready' = SubSeq(ready, i + 1, Len(ready))
           /\ working' = Marked(k)
           /\ waiting' = [waiting EXCEPT ![k] = Tail(@)]
           /\ held' = [held EXCEPT ![w] = Append(@, Head(waiting[k]))]
  /\ UNCHANGED <<table, depth, flushing>>

(* take finds nothing: nullptr. The worker goes on with what it holds.     *)
TakeNothing(w) ==
  /\ MayTake(w)
  /\ \A i \in 1..Len(ready) : ~CanServe(ready[i])
  /\ ready' = <<>>
  /\ flushing' = [flushing EXCEPT ![w] = held[w] # <<>>]
  /\ UNCHANGED <<table, waiting, working, depth, held>>

(* finish, for the oldest request the worker holds. The worker comes here  *)
(* when it took enough, found nothing more, or took one it cannot batch,   *)
(* and takes again only when it has finished all. Mutant: a key that has   *)
(* more requests is not listed again.                                      *)
ForgetReady(k) == ready
ListAgain(k) == IF waiting[k] = <<>> THEN ready ELSE Append(ready, k)

Finish(w) ==
  /\ held[w] # <<>>
  /\ LET k == KeyOf[Head(held[w])]
     IN  IF k \in table
         THEN /\ working' = [working EXCEPT ![k] = FALSE]
              /\ depth' = IF depth > 0 THEN depth - 1 ELSE 0
              /\ table' = IF waiting[k] = <<>> THEN table \ {k} ELSE table
              /\ ready' = ListAgain(k)
         ELSE UNCHANGED <<working, depth, table, ready>>
  /\ held' = [held EXCEPT ![w] = Tail(@)]
  /\ flushing' = [flushing EXCEPT ![w] = Len(held[w]) > 1]
  /\ UNCHANGED waiting

(* take_all: every waiting request is handed back (a unique_ptr: each is   *)
(* in one place), entries and the marks of the keys worked on stay.        *)
WaitingSet == UNION {Elements(waiting[k]) : k \in Keys}

TakeAll ==
  /\ waiting' = [k \in Keys |-> <<>>]
  /\ depth' = IF depth > Cardinality(WaitingSet)
               THEN depth - Cardinality(WaitingSet) ELSE 0
  /\ ready' = <<>>
  /\ UNCHANGED <<table, working, held, flushing>>

Worker(w) == Take(w) \/ TakeNothing(w) \/ Finish(w)

Next ==
  \/ \E r \in Requests : Push(r)
  \/ \E w \in Workers : Worker(w)
  \/ TakeAll

(* The workers keep running; nobody has to submit a request.               *)
Fairness ==
  /\ WF_vars(\E w \in Workers : Take(w))
  /\ \A w \in Workers : WF_vars(Finish(w))

Spec == Init /\ [][Next]_vars

FairSpec == Spec /\ Fairness

-----------------------------------------------------------------------------
TypeOK ==
  /\ table \in SUBSET Keys
  /\ waiting \in [Keys -> Seq(Requests)]
  /\ working \in [Keys -> BOOLEAN]
  /\ ready \in Seq(Keys)
  /\ depth \in Nat
  /\ held \in [Workers -> Seq(Requests)]
  /\ \A w \in Workers : Len(held[w]) <= BatchSize
  /\ flushing \in [Workers -> BOOLEAN]

(* request_dispatcher.h:5-7 - no two requests of one session key are in    *)
(* the hands of the workers at the same time, not even of the same worker. *)
KeyExclusive ==
  \A v, w \in Workers : \A i \in DOMAIN held[v], j \in DOMAIN held[w] :
     KeyOf[held[v][i]] = KeyOf[held[w][j]] => v = w /\ i = j

(* ready_ lists exactly the keys that have requests and no worker, each    *)
(* once: a missing key would never be served, a second entry would let two *)
(* workers at it, a stale one makes ready() wake workers for nothing.      *)
ReadyExact ==
  /\ \A k \in Keys : k \in Elements(ready) <=> CanServe(k)
  /\ \A i, j \in DOMAIN ready : ready[i] = ready[j] => i = j

(* depth() is the number of requests accepted and not yet answered (what   *)
(* WorkerPool::drain waits for), and never exceeds the cap.                *)
DepthExact ==
  /\ depth = Cardinality({r \in Requests : InUse(r)})
  /\ depth <= Cap

(* Per key one request at a time, in order, and each key gets its turn.    *)
HeldOf(k) ==
  {r \in Requests : KeyOf[r] = k /\ \E w \in Workers : r \in Elements(held[w])}

Serial == INSTANCE KeySerial WITH
  line <- [k \in Keys |-> IF working[k]
                          THEN <<CHOOSE r \in HeldOf(k) : TRUE>> \o waiting[k]
                          ELSE waiting[k]],
  serving <- working

ImplementsKeySerial == Serial!Spec
=============================================================================
