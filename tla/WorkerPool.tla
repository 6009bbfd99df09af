----------------------------- MODULE WorkerPool -----------------------------
(***************************************************************************)
(* db::WorkerPool (db/db_worker_pool.cpp) with the connections it drives   *)
(* (db/mysql_connection.cpp) and the database behind them. Lanes submit    *)
(* requests; a worker takes them, collects Saves into one transaction,     *)
(* executes, retries what is safe to retry, answers through the sink and   *)
(* releases the key. Connections break before, during and after a commit.  *)
(* Under dynamic dispatch the shared queue is used through what module     *)
(* RequestDispatcher implements: one line per key, one request at a time.  *)
(* Waits are timed (50 ms), so a worker always comes round again.          *)
(***************************************************************************)
EXTENDS Integers, Sequences, FiniteSets, SequencesExt

CONSTANTS
  Keys,        \* session keys; the requests of a key come from one lane
  Script,      \* the requests of each key, in the order they are submitted
  Kind,        \* RequestKind of each request: "Save", "History", "Counter"
  RequestKey,  \* the idempotency key of each Counter request
  Limit,       \* the most rows each History request asks for
  Deadlined,   \* the requests whose deadline can pass while they wait
  Workers,
  Shard,       \* shard_of: the worker of each key under static dispatch
  Cap,         \* kMaxQueuePerWorker
  BatchSize,   \* batch_size_
  MaxFaults    \* bound on lost connections and refused statements

Shared == "shared"
Requests == UNION {Range(Script[k]) : k \in Keys}
KeyOf == [r \in Requests |-> CHOOSE k \in Keys : r \in Range(Script[k])]
SaveRequests == {r \in Requests : Kind[r] = "Save"}
Statuses == {"none", "Ok", "Failed", "Unavailable", "Expired"}

ASSUME PoolAssumption ==
  /\ IsFiniteSet(Keys) /\ IsFiniteSet(Workers) /\ Keys \intersect Workers = {}
  /\ Shared \notin Workers
  /\ IsFiniteSet(Requests)
  /\ \A k \in Keys : Script[k] \in Seq(Requests)
  /\ \A k, l \in Keys : \A i \in DOMAIN Script[k], j \in DOMAIN Script[l] :
       Script[k][i] = Script[l][j] => k = l /\ i = j
  /\ Kind \in [Requests -> {"Save", "History", "Counter"}]
  /\ \A r \in Requests : Kind[r] = "History" => Limit[r] \in Nat \ {0}
  /\ Shard \in [Keys -> Workers]
  /\ Cap \in Nat \ {0} /\ BatchSize \in Nat \ {0} /\ MaxFaults \in Nat

VARIABLES
  dispatch,   \* dispatch_
  running, draining, joined,   \* running_, draining_, stop has returned
  (* the lanes inside submit *)
  pos,        \* how far each lane is with its script
  checked,    \* the keys whose lane is past submit's checks
  (* the queues *)
  line,       \* Worker::queue, or the dispatcher's queue of each key
  serving,    \* the keys a worker holds a request of (dynamic)
  depth,      \* Worker::depth, or the dispatcher's depth_
  (* the workers *)
  worker,     \* thread position, local vectors and conn.usable()
  expired,    \* requests whose deadline has passed
  (* what came out *)
  accepted,   \* pushed while the pool was running
  status,     \* the status each request was answered with
  answers,    \* <<r, s>>: of one key, and the sink got the answer to r first
  rows,       \* the rows a History answer carries
  (* the database *)
  session,    \* the server's end of each worker's connection
  echo_log, counter_request, echo_counter,   \* the tables
  log_order,  \* <<r, s>>: of one key, and the row of s has the larger log_id
  running_on, \* transactions the server still runs for a client that is gone
  faults

lanes == <<pos, checked>>
queues == <<line, serving, depth>>
sink == <<status, answers, rows>>
tables == <<echo_log, log_order, counter_request, echo_counter>>
db == <<session, tables, running_on, faults>>
flags == <<dispatch, running, draining, joined>>
vars == <<flags, lanes, queues, worker, expired, accepted, sink, db>>

Static == dispatch = "Static"
LineOf(r) == IF Static THEN Shard[KeyOf[r]] ELSE KeyOf[r]
DepthOf(r) == IF Static THEN Shard[KeyOf[r]] ELSE Shared
CapOf(r) == IF Static THEN Cap ELSE Cap * Cardinality(Workers)

NewSession == [alive |-> TRUE, open |-> FALSE, rows |-> <<>>]
DeadSession == [alive |-> FALSE, open |-> FALSE, rows |-> <<>>]

(* start, with the database there or not: the first connect may fail.      *)
Init ==
  /\ dispatch \in {"Static", "Dynamic"}
  /\ running = TRUE /\ draining = FALSE /\ joined = FALSE
  /\ pos = [k \in Keys |-> 1]
  /\ checked = {}
  /\ line = [l \in Workers \union Keys |-> <<>>]
  /\ serving = {}
  /\ depth = [l \in Workers \union {Shared} |-> 0]
  /\ \E up \in BOOLEAN :
       /\ worker = [w \in Workers |->
            [pc |-> "top", batch |-> <<>>, saves |-> <<>>, hand |-> <<>>,
             done |-> 0, usable |-> up]]
       /\ session = [w \in Workers |-> IF up THEN NewSession ELSE DeadSession]
  /\ expired = {}
  /\ accepted = {}
  /\ status = [r \in Requests |-> "none"]
  /\ answers = {}
  /\ rows = [r \in Requests |-> {}]
  /\ echo_log = [r \in SaveRequests |-> 0] /\ log_order = {}
  /\ counter_request = {}
  /\ echo_counter = [k \in Keys |-> 0]
  /\ running_on = {}
  /\ faults = 0

-----------------------------------------------------------------------------
(* submit. The checks and the push are two steps: other lanes, drain and   *)
(* stop run in between. Mutant: the depth is not looked at.                *)
NextOf(k) == Script[k][pos[k]]
MaySubmit(k) == pos[k] <= Len(Script[k]) /\ k \notin checked
AdmitAny(k) == running /\ ~draining
Admitted(k) ==
  /\ running /\ ~draining
  /\ Static => depth[DepthOf(NextOf(k))] < CapOf(NextOf(k))

SubmitCheck(k) ==
  /\ MaySubmit(k)
  /\ IF Admitted(k)
     THEN checked' = checked \union {k} /\ UNCHANGED pos
     ELSE pos' = [pos EXCEPT ![k] = @ + 1] /\ UNCHANGED checked
  /\ UNCHANGED <<flags, queues, worker, expired, accepted, sink, db>>

SubmitPush(k) ==
  LET r == NextOf(k)
      push == Static \/ depth[Shared] < CapOf(r)
  IN  /\ k \in checked
      /\ checked' = checked \ {k}
      /\ pos' = [pos EXCEPT ![k] = @ + 1]
      /\ IF push
         THEN /\ line' = [line EXCEPT ![LineOf(r)] = Append(@, r)]
              /\ depth' = [depth EXCEPT ![DepthOf(r)] = @ + 1]
              /\ accepted' = IF running THEN accepted \union {r} ELSE accepted
         ELSE UNCHANGED <<line, depth, accepted>>
      /\ UNCHANGED <<flags, serving, worker, expired, sink, db>>

(* Time passes: the deadline of a request that is about to be compared     *)
(* with the clock, in batchable or in handle.                              *)
MissDeadline(r) ==
  /\ r \in Deadlined \ expired
  /\ \E w \in Workers :
       \/ worker[w].batch # <<>> /\ r = Head(worker[w].batch)
       \/ worker[w].pc = "handle" /\ r = Head(worker[w].hand)
  /\ expired' = expired \union {r}
  /\ UNCHANGED <<flags, lanes, queues, worker, accepted, sink, db>>

-----------------------------------------------------------------------------
(* shared_.take: the head of a line nobody else serves.                    *)
Takeable(k) == ~Static /\ line[k] # <<>> /\ k \notin serving
SomeWork(w) == (Static /\ line[w] # <<>>) \/ \E k \in Keys : Takeable(k)

(* run: the top of a worker's loop. It reconnects when it may, pings when  *)
(* it is time and, under static dispatch, swaps its queue out. A round     *)
(* that finds no work is left out: what it does to the connection can as   *)
(* well happen at the top of the next one.                                 *)
Top(w) ==
  /\ worker[w].pc = "top"
  /\ running /\ SomeWork(w)
  /\ \E up \in BOOLEAN :
       /\ worker[w].usable /\ session[w].alive => up
       /\ session' = IF up /\ ~worker[w].usable
                     THEN [session EXCEPT ![w] = NewSession] ELSE session
       /\ worker' = [worker EXCEPT ![w].pc = "loop", ![w].usable = up,
                       ![w].batch = IF Static THEN line[w] ELSE <<>>]
  /\ line' = IF Static THEN [line EXCEPT ![w] = <<>>] ELSE line
  /\ UNCHANGED <<flags, lanes, serving, depth, expired, accepted, sink, tables,
                 running_on, faults>>

Take(w) ==
  /\ worker[w].pc = "loop" /\ worker[w].batch = <<>>
  /\ Len(worker[w].saves) < BatchSize
  /\ \E k \in Keys :
       /\ Takeable(k)
       /\ worker' = [worker EXCEPT ![w].batch = <<Head(line[k])>>]
       /\ line' = [line EXCEPT ![k] = Tail(@)]
       /\ serving' = serving \union {k}
  /\ UNCHANGED <<flags, lanes, depth, expired, accepted, sink, db>>

(* batchable: a Counter opens a transaction of its own, a History has      *)
(* nothing to commit, and what is too late is not executed.                *)
Batchable(r) == BatchSize > 1 /\ Kind[r] = "Save" /\ r \notin expired

(* Under dynamic dispatch the worker stops taking once the pool stops.     *)
Resume == IF ~Static /\ ~running THEN "last" ELSE "loop"
Looping(w) == worker[w].pc \in {"loop", "last"}

Collect(w) ==
  /\ Looping(w)
  /\ worker[w].batch # <<>> /\ Batchable(Head(worker[w].batch))
  /\ Len(worker[w].saves) < BatchSize
  /\ worker' = [worker EXCEPT ![w].batch = Tail(@), ![w].pc = Resume,
                  ![w].saves = Append(@, Head(worker[w].batch))]
  /\ UNCHANGED <<flags, lanes, queues, expired, accepted, sink, db>>

(* What was collected goes first: when the batch is full, before a request *)
(* of another kind, and when nothing is left. Mutant: only at the end, so  *)
(* that a request overtakes the Saves in front of it.                      *)
NoMore(w) ==
  /\ worker[w].batch = <<>>
  /\ worker[w].pc = "last" \/ \A k \in Keys : ~Takeable(k)
FlushAtEnd(w) == NoMore(w) \/ Len(worker[w].saves) >= BatchSize
FlushDue(w) ==
  \/ Len(worker[w].saves) >= BatchSize
  \/ worker[w].batch # <<>> /\ ~Batchable(Head(worker[w].batch))
  \/ NoMore(w)

(* flush_saves: a single one takes the ordinary way.                       *)
Flush(w) ==
  /\ Looping(w) /\ worker[w].saves # <<>>
  /\ FlushDue(w)
  /\ worker' = [worker EXCEPT ![w].hand = worker[w].saves, ![w].saves = <<>>,
                  ![w].done = 0,
                  ![w].pc = IF Len(worker[w].saves) = 1 THEN "handle" ELSE "begin"]
  /\ UNCHANGED <<flags, lanes, queues, expired, accepted, sink, db>>

Pick(w) ==
  /\ Looping(w) /\ worker[w].batch # <<>>
  /\ ~Batchable(Head(worker[w].batch))
  /\ worker[w].saves = <<>> \/ ~FlushDue(w)
  /\ worker' = [worker EXCEPT ![w].hand = <<Head(worker[w].batch)>>,
                  ![w].batch = Tail(@), ![w].pc = "handle"]
  /\ UNCHANGED <<flags, lanes, queues, expired, accepted, sink, db>>

LoopEnd(w) ==
  /\ Looping(w) /\ worker[w].saves = <<>> /\ NoMore(w)
  /\ worker' = [worker EXCEPT ![w].pc = "top"]
  /\ UNCHANGED <<flags, lanes, queues, expired, accepted, sink, db>>

-----------------------------------------------------------------------------
(* sink_: the answers of what the worker has in hand, one after the other  *)
(* and behind all there were before; then the worker releases.             *)
Behind(reqs) ==
  {p \in Requests \X Requests :
     /\ KeyOf[p[1]] = KeyOf[p[2]]
     /\ \E j \in DOMAIN reqs :
          reqs[j] = p[2] /\ (status[p[1]] # "none" \/ \E i \in 1..j - 1 : reqs[i] = p[1])}

Answer(reqs, st) ==
  /\ status' = [r \in Requests |-> IF r \in Range(reqs) THEN st ELSE status[r]]
  /\ answers' = answers \union Behind(reqs)

Done(w, up) == [worker EXCEPT ![w].pc = "release", ![w].usable = up]

(* What a committed transaction leaves in the tables: its Saves are rows   *)
(* of echo_log; a Counter claims its request key and counts, unless the    *)
(* key is claimed already (ER_DUP_ENTRY, v_duplicate): rolled back.        *)
Stored == {r \in SaveRequests : echo_log[r] > 0}
CountsIn(t) == {r \in Range(t) : Kind[r] = "Counter"}

CountAgain(t) == CountsIn(t)
Unclaimed(t) == {r \in CountsIn(t) :
  \A row \in counter_request : row.request_key # RequestKey[r]}

(* The rows of t in the order of log_id: in front of later, behind those   *)
(* that are stored otherwise.                                              *)
Ranked(t, later) ==
  {p \in SaveRequests \X SaveRequests :
     /\ KeyOf[p[1]] = KeyOf[p[2]]
     /\ \/ p[1] \in Stored \ later /\ p[2] \in Range(t)
        \/ p[1] \in Range(t) /\ p[2] \in later
        \/ \E i, j \in DOMAIN t : i < j /\ p = <<t[i], t[j]>>}

CommitBefore(t, later) ==
  LET new == Unclaimed(t)
  IN  /\ echo_log' = [r \in SaveRequests |->
           IF r \in Range(t) THEN echo_log[r] + 1 ELSE echo_log[r]]
      /\ log_order' = log_order \union Ranked(t, later)
      /\ counter_request' = counter_request \union
           {[request_key |-> RequestKey[r], session_key |-> KeyOf[r]] : r \in new}
      /\ echo_counter' = [k \in Keys |->
           echo_counter[k] + Cardinality({r \in new : KeyOf[r] = k})]

Commit(t) == CommitBefore(t, {})

(* The connection is lost with the transaction t under way on the server:  *)
(* it never arrived, it took effect, or the server runs it to its end      *)
(* later although nobody listens (MYSQL_OPT_READ_TIMEOUT).                 *)
Lose(w, t) ==
  /\ session' = [session EXCEPT ![w] = DeadSession]
  /\ \/ UNCHANGED <<tables, running_on>>
     \/ /\ session[w].alive /\ t # <<>>
        /\ \/ Commit(t) /\ UNCHANGED running_on
           \/ running_on' = running_on \union {t} /\ UNCHANGED tables

(* A connection that is dead already costs no further fault.               *)
Fault(w) == IF session[w].alive
            THEN faults < MaxFaults /\ faults' = faults + 1
            ELSE UNCHANGED faults

(* What was stored since may have smaller ids than its rows or larger ones.*)
Since(t) ==
  {s \in Stored : \E i, j \in DOMAIN Script[KeyOf[s]] :
     i < j /\ Script[KeyOf[s]][i] \in Range(t) /\ Script[KeyOf[s]][j] = s}

RunsOn ==
  \E t \in running_on :
    /\ \/ \E later \in SUBSET Since(t) :
            /\ \A p \in log_order : p[1] \in later => p[2] \in later
            /\ CommitBefore(t, later)
       \/ UNCHANGED tables
    /\ running_on' = running_on \ {t}
    /\ UNCHANGED <<flags, lanes, queues, worker, expired, accepted, sink, session, faults>>

(* The server or the network drops a connection; nobody notices yet. Only  *)
(* where a worker goes on to use it does the moment make a difference.     *)
Drop(w) ==
  /\ session[w].alive
  /\ worker[w].pc \in {"loop", "insert"}
  /\ Fault(w)
  /\ session' = [session EXCEPT ![w] = DeadSession]
  /\ UNCHANGED <<flags, lanes, queues, worker, expired, accepted, sink, tables, running_on>>

(* is_retry_safe. Mutant: a Save counts as safe.                           *)
AlwaysRetry(r) == TRUE
RetrySafe(r) == Kind[r] \in {"History", "Counter"}

InHand(w) == Head(worker[w].hand)

(* handle: too late, or no connection.                                     *)
TurnDown(w) ==
  LET r == InHand(w)
  IN  /\ worker[w].pc = "handle"
      /\ r \in expired \/ ~worker[w].usable
      /\ Answer(<<r>>, IF r \in expired THEN "Expired" ELSE "Unavailable")
      /\ worker' = Done(w, worker[w].usable)
      /\ UNCHANGED <<flags, lanes, queues, expired, accepted, rows, db>>

(* ORDER BY log_id DESC LIMIT: the rows of the session, or as many of the  *)
(* newest as were asked for.                                               *)
MostRecent(r, found) ==
  LET mine == {s \in Stored : KeyOf[s] = KeyOf[r]}
  IN  /\ found \subseteq mine /\ Cardinality(found) <= Limit[r]
      /\ \A s \in mine \ found :
           Cardinality(found) = Limit[r] /\ \A t \in found : <<s, t>> \in log_order

(* run_once, the first time or after a reconnect: save, history, counter.  *)
Execute(w) ==
  LET r == InHand(w)
  IN  /\ \/ worker[w].pc = "handle" /\ r \notin expired /\ worker[w].usable
         \/ worker[w].pc = "retry"
      /\ \/ /\ session[w].alive
            /\ Commit(<<r>>)
            /\ \/ Kind[r] # "History" /\ UNCHANGED rows
               \/ \E found \in SUBSET Stored :
                    /\ Kind[r] = "History" /\ MostRecent(r, found)
                    /\ rows' = [rows EXCEPT ![r] = found]
            /\ Answer(<<r>>, "Ok")
            /\ worker' = Done(w, TRUE)
            /\ UNCHANGED <<session, running_on, faults>>
         \/ /\ session[w].alive
            /\ Fault(w)
            /\ Answer(<<r>>, "Failed")
            /\ worker' = Done(w, TRUE)
            /\ UNCHANGED <<rows, session, tables, running_on>>
         \/ /\ Fault(w)
            /\ Lose(w, <<r>>)
            /\ IF RetrySafe(r) /\ worker[w].pc = "handle"
               THEN /\ worker' = [worker EXCEPT ![w].pc = "reopen", ![w].usable = FALSE]
                    /\ UNCHANGED <<status, answers>>
               ELSE Answer(<<r>>, "Unavailable") /\ worker' = Done(w, FALSE)
            /\ UNCHANGED rows
      /\ UNCHANGED <<flags, lanes, queues, expired, accepted>>

Reopen(w) ==
  /\ worker[w].pc = "reopen"
  /\ \/ /\ session' = [session EXCEPT ![w] = NewSession]
        /\ worker' = [worker EXCEPT ![w].pc = "retry", ![w].usable = TRUE]
        /\ UNCHANGED <<status, answers>>
     \/ /\ Answer(<<InHand(w)>>, "Unavailable")
        /\ worker' = Done(w, FALSE)
        /\ UNCHANGED session
  /\ UNCHANGED <<flags, lanes, queues, expired, accepted, rows, tables, running_on, faults>>

(* The batch of flush_saves: START TRANSACTION, an insert for each Save,   *)
(* COMMIT; whatever fails, ROLLBACK and one answer for all of them.        *)
FailBatch(w, up) ==
  /\ Answer(worker[w].hand, IF up THEN "Failed" ELSE "Unavailable")
  /\ worker' = Done(w, up)

(* Mutant: the transaction is not opened, each insert commits by itself.   *)
AutoCommit(w) == session[w]
Opened(w) == [session[w] EXCEPT !.open = TRUE]

BeginBatch(w) ==
  /\ worker[w].pc = "begin"
  /\ \/ /\ worker[w].usable /\ session[w].alive
        /\ session' = [session EXCEPT ![w] = Opened(w)]
        /\ worker' = [worker EXCEPT ![w].pc = "insert"]
        /\ UNCHANGED <<status, answers, faults>>
     \/ /\ worker[w].usable /\ session[w].alive
        /\ Fault(w)
        /\ FailBatch(w, TRUE)
        /\ UNCHANGED session
     \/ /\ ~(worker[w].usable /\ session[w].alive)
        /\ FailBatch(w, FALSE)
        /\ UNCHANGED <<session, faults>>
  /\ UNCHANGED <<flags, lanes, queues, expired, accepted, rows, tables, running_on>>

InsertBatch(w) ==
  LET r == worker[w].hand[worker[w].done + 1]
  IN  /\ worker[w].pc = "insert"
      /\ \/ /\ session[w].alive
            /\ IF session[w].open
               THEN /\ session' = [session EXCEPT ![w].rows = Append(@, r)]
                    /\ UNCHANGED tables
               ELSE Commit(<<r>>) /\ UNCHANGED session
            /\ worker' = [worker EXCEPT ![w].done = @ + 1, ![w].pc =
                 IF worker[w].done + 1 = Len(worker[w].hand) THEN "commit" ELSE "insert"]
            /\ UNCHANGED <<status, answers, faults>>
         \/ /\ session[w].alive
            /\ Fault(w)
            /\ session' = [session EXCEPT ![w] = NewSession]
            /\ FailBatch(w, TRUE)
            /\ UNCHANGED tables
         \/ /\ ~session[w].alive
            /\ FailBatch(w, FALSE)
            /\ UNCHANGED <<session, tables, faults>>
      /\ UNCHANGED <<flags, lanes, queues, expired, accepted, rows, running_on>>

CommitBatch(w) ==
  /\ worker[w].pc = "commit"
  /\ \/ /\ session[w].alive
        /\ Commit(session[w].rows)
        /\ session' = [session EXCEPT ![w] = NewSession]
        /\ Answer(worker[w].hand, "Ok")
        /\ worker' = Done(w, TRUE)
        /\ UNCHANGED <<running_on, faults>>
     \/ /\ session[w].alive
        /\ Fault(w)
        /\ session' = [session EXCEPT ![w] = NewSession]
        /\ FailBatch(w, TRUE)
        /\ UNCHANGED <<tables, running_on>>
     \/ /\ Fault(w)
        /\ Lose(w, session[w].rows)
        /\ FailBatch(w, FALSE)
  /\ UNCHANGED <<flags, lanes, queues, expired, accepted, rows>>

(* release, or shared_.finish: only now may the next request of the key be *)
(* taken, and only now does drain stop waiting for this one.               *)
Release(w) ==
  /\ worker[w].pc = "release"
  /\ serving' = serving \ {KeyOf[r] : r \in Range(worker[w].hand)}
  /\ depth' = LET l == DepthOf(InHand(w))
              IN  [depth EXCEPT ![l] = @ - Len(worker[w].hand)]
  /\ worker' = [worker EXCEPT ![w].hand = <<>>, ![w].pc = Resume]
  /\ UNCHANGED <<flags, lanes, line, expired, accepted, sink, db>>

-----------------------------------------------------------------------------
(* A worker leaves: under static dispatch it rejects what is left for it.  *)
(* Mutant: it does not look again.                                         *)
LeaveTail(w) == <<>>
TailOf(w) == IF Static THEN line[w] ELSE <<>>

Exit(w) ==
  /\ worker[w].pc = "top"
  /\ ~running
  /\ Answer(TailOf(w), "Unavailable")
  /\ line' = [line EXCEPT ![w] = <<>>]
  /\ depth' = [depth EXCEPT ![w] = @ - Len(TailOf(w))]
  /\ worker' = [worker EXCEPT ![w].pc = "gone"]
  /\ UNCHANGED <<flags, lanes, serving, expired, accepted, rows, db>>

Drain ==
  /\ running /\ ~draining
  /\ draining' = TRUE
  /\ UNCHANGED <<dispatch, running, joined, lanes, queues, worker, expired,
                 accepted, sink, db>>

(* stop, which main calls after drain returned or ran out of time.         *)
Stop ==
  /\ running /\ draining
  /\ running' = FALSE
  /\ UNCHANGED <<dispatch, draining, joined, lanes, queues, worker, expired,
                 accepted, sink, db>>

(* The rest of stop: every worker is joined and its connection closed;     *)
(* what is left in the shared queue is rejected, key by key.               *)
Waiting == UNION {Range(line[k]) : k \in Keys}

Join ==
  /\ ~running /\ ~joined
  /\ \A w \in Workers : worker[w].pc = "gone"
  /\ joined' = TRUE
  /\ session' = [w \in Workers |-> DeadSession]
  /\ IF Static
     THEN UNCHANGED <<status, answers, line, depth>>
     ELSE /\ status' = [r \in Requests |-> IF r \in Waiting THEN "Unavailable" ELSE status[r]]
          /\ answers' = answers \union UNION {Behind(line[k]) : k \in Keys}
          /\ line' = [l \in DOMAIN line |-> IF l \in Keys THEN <<>> ELSE line[l]]
          /\ depth' = [depth EXCEPT ![Shared] = @ - Cardinality(Waiting)]
  /\ UNCHANGED <<dispatch, running, draining, lanes, serving, worker, expired,
                 accepted, rows, tables, running_on, faults>>

(* Nothing is left to happen once stop has returned.                       *)
Stopped == joined /\ UNCHANGED vars

Worker(w) ==
  \/ Top(w) \/ Take(w) \/ Collect(w) \/ Flush(w) \/ Pick(w) \/ LoopEnd(w)
  \/ TurnDown(w) \/ Execute(w) \/ Reopen(w)
  \/ BeginBatch(w) \/ InsertBatch(w) \/ CommitBatch(w)
  \/ Release(w) \/ Exit(w)

Next ==
  \/ \E k \in Keys : SubmitCheck(k) \/ SubmitPush(k)
  \/ \E r \in Requests : MissDeadline(r)
  \/ \E w \in Workers : Worker(w) \/ Drop(w)
  \/ RunsOn \/ Drain \/ Stop \/ Join \/ Stopped

Spec == Init /\ [][Next]_vars

-----------------------------------------------------------------------------
(* queued() is 0, what drain waits for. Mutant: nothing is left to take.   *)
NothingToTake == \A l \in DOMAIN line : line[l] = <<>>
NothingQueued == IF Static THEN \A w \in Workers : depth[w] = 0 ELSE depth[Shared] = 0

TypeOK ==
  /\ checked \subseteq Keys /\ serving \subseteq Keys
  /\ line \in [Workers \union Keys -> Seq(Requests)]
  /\ \A l \in DOMAIN depth : depth[l] \in Nat
  /\ Static => \A w \in Workers : depth[w] <= Cap + Cardinality(Keys) - 1
  /\ depth[Shared] <= Cap * Cardinality(Workers)
  /\ \A w \in Workers : Len(worker[w].saves) <= BatchSize
  /\ expired \subseteq Requests /\ accepted \subseteq Requests
  /\ status \in [Requests -> Statuses]
  /\ echo_counter \in [Keys -> Nat]
  /\ faults \in 0..MaxFaults

(* drain returns when queued() is 0: by then every request that was pushed *)
(* has been answered, the ones a worker had in hand included. (A lane past *)
(* submit's checks may still push afterwards.)                             *)
DrainComplete ==
  NothingQueued => \A r \in accepted : status[r] # "none"

(* A request that was taken on is not overtaken by a later one of its      *)
(* session: not by one that is rejected, and not across a change of worker.*)
NoneOvertaken ==
  \A k \in Keys : \A i, j \in DOMAIN Script[k] :
    i < j /\ status[Script[k][j]] # "none" /\ Script[k][i] \in accepted
    => status[Script[k][i]] # "none"

(* db_worker_pool.h:26-27 - the requests of one session key are answered   *)
(* in the order they were submitted, each once, across batches, retries,   *)
(* rejects at stop and changing workers. A second answer would be behind   *)
(* the first.                                                              *)
AnsweredInOrder ==
  /\ \A k \in Keys : \A i, j \in DOMAIN Script[k] :
       <<Script[k][i], Script[k][j]>> \in answers <=>
         i < j /\ status[Script[k][i]] # "none" /\ status[Script[k][j]] # "none"
  /\ NoneOvertaken

(* The rows a Save has, or may still get from a transaction that runs on.  *)
RowsOf(r) ==
  echo_log[r] + Cardinality({t \in running_on : r \in Range(t)})

(* is_retry_safe's comment: a Save is never stored twice, although the     *)
(* worker cannot know whether an attempt that broke was committed.         *)
SavedOnce == \A r \in SaveRequests : RowsOf(r) <= 1

(* An answer is true: Ok means the row is there; Failed and Expired mean   *)
(* it is not and never will be, though other Saves shared the transaction. *)
AnswerTrue ==
  \A r \in SaveRequests :
    /\ status[r] = "Ok" => RowsOf(r) = 1
    /\ status[r] \in {"Failed", "Expired"} => RowsOf(r) = 0

(* Each request key counts once, whoever sends it and however often it is  *)
(* tried, and the counter is the number of keys claimed for the session.   *)
CountedOnce ==
  /\ \A k \in Keys :
       echo_counter[k] = Cardinality({row \in counter_request : row.session_key = k})
  /\ \A a, b \in counter_request : a.request_key = b.request_key => a = b
  /\ \A r \in Requests : Kind[r] = "Counter" /\ status[r] = "Ok" =>
       \E row \in counter_request : row.request_key = RequestKey[r]

(* run's comment on flushing before other kinds: a History carries every   *)
(* Save of its session that was submitted before it and succeeded, or as   *)
(* many newer ones as it asked for.                                        *)
Carries(h, s) ==
  \/ s \in rows[h]
  \/ Cardinality(rows[h]) = Limit[h] /\ \A t \in rows[h] : <<s, t>> \in log_order

ReadsOwnSaves ==
  \A k \in Keys : \A i, j \in DOMAIN Script[k] :
    LET s == Script[k][i]
        h == Script[k][j]
    IN  i < j /\ Kind[s] = "Save" /\ Kind[h] = "History"
          /\ status[s] = "Ok" /\ status[h] = "Ok"
        => Carries(h, s)

(* Nobody whose request was pushed while running_ was set waits for ever:  *)
(* whatever breaks and whenever stop comes, when it has returned all those *)
(* are answered. (submit also returns TRUE when stop came between its test *)
(* and its push; such a request may stay in the queue unanswered.)         *)
(* The scripts are finite and no step repeats, so with TLC's deadlock      *)
(* check this says that every request accepted in time gets its answer.    *)
NoneForgotten == joined => \A r \in accepted : status[r] # "none"
=============================================================================
