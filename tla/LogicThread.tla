----------------------------- MODULE LogicThread -----------------------------
(***************************************************************************)
(* core::LogicThread, the thread of a lane, with the core::SwapQueue it    *)
(* consumes (core/logic_thread.cpp, core/swap_queue.h). Producers push and *)
(* wake; wake takes no lock when the signal is up already. The thread      *)
(* clears the signal, runs a step, and sleeps on a condition variable when *)
(* the signal is still down. Its wait is timed for the sake of its timers; *)
(* nothing below needs the timeout to happen.                              *)
(* The thread holds mutex_ at "decide" and "going". wake and stop hold it  *)
(* for the length of one step, which needs the mutex free.                 *)
(***************************************************************************)
EXTENDS Naturals

CONSTANTS
  Producers,   \* threads that push and wake
  MaxItems     \* bound on the items of one producer

ASSUME MaxItemsAssumption == MaxItems \in Nat

Items == Producers \X (1..MaxItems)

VARIABLES
  running, signaled,   \* running_, signaled_
  thread,     \* position of the thread in run()
  stopper,    \* position of the caller in stop()
  producer,   \* position of each producer in push and wake
  sent,       \* number of items each producer has pushed
  buffers, write,      \* SwapQueue: buffers_, write_
  handled     \* how often step_ has handled each item

queue == <<buffers, write>>
vars == <<running, signaled, thread, stopper, producer, sent, queue, handled>>

Init ==
  /\ running = TRUE /\ signaled = FALSE
  /\ thread = "top" /\ stopper = "out"
  /\ producer = [p \in Producers |-> "out"]
  /\ sent = [p \in Producers |-> 0]
  /\ buffers = [b \in 0..1 |-> {}] /\ write = 0
  /\ handled = [i \in Items |-> 0]

MutexFree == thread \notin {"decide", "going"}

(* cv_: only the thread waits. A notification nobody waits for is lost.    *)
Notified == IF thread = "waiting" THEN "woken" ELSE thread

-----------------------------------------------------------------------------
Push(p) ==
  /\ producer[p] = "out" /\ sent[p] < MaxItems
  /\ sent' = [sent EXCEPT ![p] = @ + 1]
  /\ buffers' = [buffers EXCEPT ![write] = @ \union {<<p, sent[p] + 1>>}]
  /\ producer' = [producer EXCEPT ![p] = "wake"]
  /\ UNCHANGED <<running, signaled, thread, stopper, write, handled>>

(* wake: whoever raises the signal notifies, after it went through mutex_. *)
(* Mutant: it notifies at once.                                            *)
NotifyAtOnce == "notify"
Raised == "lock"

Wake(p) ==
  /\ producer[p] = "wake"
  /\ signaled' = TRUE
  /\ producer' = [producer EXCEPT ![p] = IF signaled THEN "out" ELSE Raised]
  /\ UNCHANGED <<running, thread, stopper, sent, queue, handled>>

WakeLock(p) ==
  /\ producer[p] = "lock" /\ MutexFree
  /\ producer' = [producer EXCEPT ![p] = "notify"]
  /\ UNCHANGED <<running, signaled, thread, stopper, sent, queue, handled>>

WakeNotify(p) ==
  /\ producer[p] = "notify"
  /\ producer' = [producer EXCEPT ![p] = "out"]
  /\ thread' = Notified
  /\ UNCHANGED <<running, signaled, stopper, sent, queue, handled>>

(* stop: running_ down, the signal raised under mutex_, all notified, join *)
Stop ==
  /\ stopper = "out"
  /\ running' = FALSE
  /\ stopper' = "lock"
  /\ UNCHANGED <<signaled, thread, producer, sent, queue, handled>>

StopLock ==
  /\ stopper = "lock" /\ MutexFree
  /\ signaled' = TRUE
  /\ stopper' = "notify"
  /\ UNCHANGED <<running, thread, producer, sent, queue, handled>>

StopNotify ==
  /\ stopper = "notify"
  /\ stopper' = "join"
  /\ thread' = Notified
  /\ UNCHANGED <<running, signaled, producer, sent, queue, handled>>

Join ==
  /\ stopper = "join" /\ thread = "gone"
  /\ stopper' = "joined"
  /\ UNCHANGED <<running, signaled, thread, producer, sent, queue, handled>>

-----------------------------------------------------------------------------
(* run(). The order of a round: first the signal is cleared, then the step *)
(* runs. Mutant: the step runs first.                                      *)
ClearLast == [top |-> "swap", step |-> "clear", clear |-> "check"]
Round == [top |-> "clear", clear |-> "swap", step |-> "check"]

Top ==
  /\ thread = "top"
  /\ thread' = IF running THEN Round.top ELSE "lastswap"
  /\ UNCHANGED <<running, signaled, stopper, producer, sent, queue, handled>>

Clear ==
  /\ thread = "clear"
  /\ signaled' = FALSE
  /\ thread' = Round.clear
  /\ UNCHANGED <<running, stopper, producer, sent, queue, handled>>

(* SwapQueue::swap: the buffers change places and the one that is to be    *)
(* filled, which was handled last time, is emptied. Mutant: it is not.     *)
KeepBuffer(b) == buffers[b]
Cleared(b) == {}

Swap ==
  /\ thread \in {"swap", "lastswap"}
  /\ write' = 1 - write
  /\ buffers' = [buffers EXCEPT ![1 - write] = Cleared(1 - write)]
  /\ thread' = IF thread = "swap" THEN "step" ELSE "laststep"
  /\ UNCHANGED <<running, signaled, stopper, producer, sent, handled>>

(* step_ handles the buffer that is not being filled; timers whose time    *)
(* has come run behind it. After the last step the thread is gone.         *)
Step ==
  /\ thread \in {"step", "laststep"}
  /\ handled' = [i \in Items |->
       IF i \in buffers[1 - write] THEN handled[i] + 1 ELSE handled[i]]
  /\ thread' = IF thread = "step" THEN Round.step ELSE "gone"
  /\ UNCHANGED <<running, signaled, stopper, producer, sent, queue>>

(* The look at the signal, which spinning only repeats.                    *)
Check ==
  /\ thread = "check"
  /\ thread' = IF signaled \/ ~running THEN "top" ELSE "lock"
  /\ UNCHANGED <<running, signaled, stopper, producer, sent, queue, handled>>

(* cv_.wait_for: the predicate is looked at with mutex_ held, which is     *)
(* given up in the same moment as the wait begins.                         *)
Lock ==
  /\ thread \in {"lock", "woken"}
  /\ thread' = "decide"
  /\ UNCHANGED <<running, signaled, stopper, producer, sent, queue, handled>>

Decide ==
  /\ thread = "decide"
  /\ thread' = IF signaled \/ ~running THEN "top" ELSE "going"
  /\ UNCHANGED <<running, signaled, stopper, producer, sent, queue, handled>>

Wait ==
  /\ thread = "going"
  /\ thread' = "waiting"
  /\ UNCHANGED <<running, signaled, stopper, producer, sent, queue, handled>>

(* The wait ends without a notification: out of time, or spuriously.       *)
WaitEnds ==
  /\ thread = "waiting"
  /\ thread' \in {"top", "woken"}
  /\ UNCHANGED <<running, signaled, stopper, producer, sent, queue, handled>>

(* Nothing is left to happen after stop has returned.                      *)
Stopped == stopper = "joined" /\ UNCHANGED vars

Producer(p) == Push(p) \/ Wake(p) \/ WakeLock(p) \/ WakeNotify(p)
Stopper == Stop \/ StopLock \/ StopNotify \/ Join
Run == Top \/ Clear \/ Swap \/ Step \/ Check \/ Lock \/ Decide \/ Wait

Next ==
  \/ \E p \in Producers : Producer(p)
  \/ Stopper
  \/ Run \/ WaitEnds
  \/ Stopped

Spec == Init /\ [][Next]_vars

(* The threads get their turn. The end of the wait by itself is left out:  *)
(* what is promised does not rest on the timeout.                          *)
FairSpec ==
  /\ Spec
  /\ WF_vars(Run)
  /\ \A p \in Producers : WF_vars(Wake(p) \/ WakeLock(p) \/ WakeNotify(p))
  /\ WF_vars(StopLock \/ StopNotify \/ Join)

-----------------------------------------------------------------------------
Positions ==
  {"top", "clear", "swap", "step", "check", "lock", "decide", "going", "waiting",
   "woken", "lastswap", "laststep", "gone"}

(* Types; no item is handled a second time although its buffer is filled   *)
(* again after every other round.                                          *)
TypeOK ==
  /\ running \in BOOLEAN /\ signaled \in BOOLEAN
  /\ thread \in Positions
  /\ stopper \in {"out", "lock", "notify", "join", "joined"}
  /\ producer \in [Producers -> {"out", "wake", "lock", "notify"}]
  /\ sent \in [Producers -> 0..MaxItems]
  /\ buffers \in [0..1 -> SUBSET Items] /\ write \in 0..1
  /\ handled \in [Items -> 0..1]

(* Comment at logic_thread.cpp:99 and wake's early return: the thread does *)
(* not sleep over an item or over stop, unless somebody is still on his    *)
(* way to notify it.                                                       *)
NoLostWakeup ==
  thread = "waiting" /\ (buffers[write] # {} \/ ~running) =>
    \/ \E p \in Producers : producer[p] # "out"
    \/ stopper \in {"lock", "notify"}

(* Whatever is pushed while the thread runs is handled, at the latest by   *)
(* the step after the loop; and stop returns.                              *)
EventuallyHandled ==
  /\ \A i \in Items : i \in buffers[write] /\ running ~> handled[i] = 1
  /\ ~running ~> stopper = "joined"
=============================================================================
