-------------------------- MODULE LogicThreadProofs --------------------------
(***************************************************************************)
(* Theorems about LogicThread, for any set of producers and any number of  *)
(* items: types with no item handled twice, and no lost wakeup.            *)
(***************************************************************************)
EXTENDS LogicThread, TLAPS

(* What has been pushed was counted, and sits in one buffer at most.       *)
Pushed ==
  /\ \A b \in 0..1, i \in Items : i \in buffers[b] => i[2] <= sent[i[1]]
  /\ \A i \in Items : handled[i] # 0 => i[2] <= sent[i[1]]
  /\ buffers[0] \intersect buffers[1] = {}

(* An item in a buffer that is still to be handled has not been handled.   *)
Fresh ==
  /\ \A i \in buffers[write] : handled[i] = 0
  /\ thread \in {"step", "laststep"} =>
       \A i \in buffers[1 - write] : handled[i] = 0

(* A filled buffer has raised the signal, or its producer is about to. The *)
(* thread lowers the signal only right before it swaps.                    *)
SignalUp ==
  buffers[write] # {} /\ thread # "swap" =>
    signaled \/ \E p \in Producers : producer[p] = "wake"

(* Whoever raised the signal after the thread decided to sleep still has   *)
(* to go through mutex_, or has not notified yet.                          *)
SignalTold ==
  /\ thread = "going" /\ signaled => \E p \in Producers : producer[p] = "lock"
  /\ thread = "waiting" /\ signaled =>
       \/ \E p \in Producers : producer[p] \in {"lock", "notify"}
       \/ stopper = "notify"

(* The same of stop.                                                       *)
StopTold ==
  /\ thread = "going" /\ ~running => stopper = "lock"
  /\ thread = "waiting" /\ ~running => stopper \in {"lock", "notify"}

IInv == TypeOK /\ Pushed /\ Fresh /\ SignalUp /\ SignalTold /\ StopTold

-----------------------------------------------------------------------------
(* The new item is beyond its producer's count: it is in no buffer and was
   not handled. Its producer goes on to wake.                              *)
LEMMA PushKeeps ==
  ASSUME IInv, NEW p \in Producers, Push(p)
  PROVE IInv'
<1>1. TypeOK'
  BY MaxItemsAssumption DEF IInv, TypeOK, Push, Items, Positions
<1>2. Pushed'
  BY MaxItemsAssumption DEF IInv, TypeOK, Pushed, Push, Items
<1>3. Fresh'
  BY MaxItemsAssumption DEF IInv, TypeOK, Pushed, Fresh, Push, Items
<1>4. SignalUp'
  BY MaxItemsAssumption DEF IInv, TypeOK, SignalUp, Push, Items
<1>5. SignalTold'
  BY MaxItemsAssumption DEF IInv, TypeOK, SignalTold, Push, Items
<1>6. StopTold'
  BY DEF IInv, StopTold, Push
<1> QED
  BY <1>1, <1>2, <1>3, <1>4, <1>5, <1>6 DEF IInv

(* Whoever raises the signal goes on to the lock.                           *)
LEMMA WakeKeeps ==
  ASSUME IInv, NEW p \in Producers, Wake(p)
  PROVE IInv'
<1>1. TypeOK'
  BY MaxItemsAssumption DEF IInv, TypeOK, Wake, Raised, Items, Positions, queue
<1>2. SignalUp'
  BY DEF IInv, TypeOK, SignalUp, Wake, Raised, queue
<1>3. SignalTold'
  BY DEF IInv, TypeOK, SignalTold, Wake, Raised, queue
<1>4. Pushed' /\ Fresh' /\ StopTold'
  BY DEF IInv, Pushed, Fresh, StopTold, Wake, queue
<1> QED
  BY <1>1, <1>2, <1>3, <1>4 DEF IInv

(* mutex_ is free: the thread is not between its decision and its wait.     *)
LEMMA WakeLockKeeps ==
  ASSUME IInv, NEW p \in Producers, WakeLock(p)
  PROVE IInv'
<1>1. TypeOK'
  BY MaxItemsAssumption DEF IInv, TypeOK, WakeLock, MutexFree, Items, Positions, queue
<1>2. SignalUp'
  BY DEF IInv, TypeOK, SignalUp, WakeLock, MutexFree, queue
<1>3. SignalTold'
  BY DEF IInv, TypeOK, SignalTold, WakeLock, MutexFree, queue
<1>4. Pushed' /\ Fresh' /\ StopTold'
  BY DEF IInv, Pushed, Fresh, StopTold, WakeLock, queue
<1> QED
  BY <1>1, <1>2, <1>3, <1>4 DEF IInv

(* The thread does not wait any more.                                       *)
LEMMA WakeNotifyKeeps ==
  ASSUME IInv, NEW p \in Producers, WakeNotify(p)
  PROVE IInv'
<1>1. TypeOK'
  BY MaxItemsAssumption DEF IInv, TypeOK, WakeNotify, Notified, Items, Positions, queue
<1>2. Pushed'
  BY DEF IInv, TypeOK, Pushed, WakeNotify, Notified, queue
<1>3. Fresh'
  BY DEF IInv, TypeOK, Fresh, WakeNotify, Notified, queue
<1>4. SignalUp'
  BY DEF IInv, TypeOK, SignalUp, WakeNotify, Notified, queue
<1>5. SignalTold'
  BY DEF IInv, TypeOK, SignalTold, WakeNotify, Notified, queue
<1>6. StopTold'
  BY DEF IInv, TypeOK, StopTold, WakeNotify, Notified, queue
<1> QED
  BY <1>1, <1>2, <1>3, <1>4, <1>5, <1>6 DEF IInv

(* Stop preserves the invariant.                                           *)
LEMMA StopKeeps ==
  ASSUME IInv, Stop
  PROVE IInv'
<1>1. TypeOK'
  BY MaxItemsAssumption DEF IInv, TypeOK, Stop, Items, Positions, queue
<1>2. SignalTold'
  BY DEF IInv, TypeOK, SignalTold, Stop, queue
<1>3. StopTold'
  BY DEF IInv, TypeOK, StopTold, Stop, queue
<1>4. Pushed' /\ Fresh' /\ SignalUp'
  BY DEF IInv, Pushed, Fresh, SignalUp, Stop, queue
<1> QED
  BY <1>1, <1>2, <1>3, <1>4 DEF IInv

(* StopLock preserves the invariant.                                       *)
LEMMA StopLockKeeps ==
  ASSUME IInv, StopLock
  PROVE IInv'
<1>1. TypeOK'
  BY MaxItemsAssumption DEF IInv, TypeOK, StopLock, MutexFree, Items, Positions, queue
<1>2. SignalUp'
  BY DEF IInv, TypeOK, SignalUp, StopLock, MutexFree, queue
<1>3. SignalTold'
  BY DEF IInv, TypeOK, SignalTold, StopLock, MutexFree, queue
<1>4. StopTold'
  BY DEF IInv, TypeOK, StopTold, StopLock, MutexFree, queue
<1>5. Pushed' /\ Fresh'
  BY DEF IInv, Pushed, Fresh, StopLock, queue
<1> QED
  BY <1>1, <1>2, <1>3, <1>4, <1>5 DEF IInv

(* StopNotify preserves the invariant.                                     *)
LEMMA StopNotifyKeeps ==
  ASSUME IInv, StopNotify
  PROVE IInv'
<1>1. TypeOK'
  BY MaxItemsAssumption DEF IInv, TypeOK, StopNotify, Notified, Items, Positions, queue
<1>2. Pushed'
  BY DEF IInv, TypeOK, Pushed, StopNotify, Notified, queue
<1>3. Fresh'
  BY DEF IInv, TypeOK, Fresh, StopNotify, Notified, queue
<1>4. SignalUp'
  BY DEF IInv, TypeOK, SignalUp, StopNotify, Notified, queue
<1>5. SignalTold'
  BY DEF IInv, TypeOK, SignalTold, StopNotify, Notified, queue
<1>6. StopTold'
  BY DEF IInv, TypeOK, StopTold, StopNotify, Notified, queue
<1> QED
  BY <1>1, <1>2, <1>3, <1>4, <1>5, <1>6 DEF IInv

(* Join preserves the invariant.                                           *)
LEMMA JoinKeeps ==
  ASSUME IInv, Join
  PROVE IInv'
<1>1. TypeOK'
  BY MaxItemsAssumption DEF IInv, TypeOK, Join, Items, Positions, queue
<1>2. SignalTold'
  BY DEF IInv, TypeOK, SignalTold, Join, queue
<1>3. StopTold'
  BY DEF IInv, TypeOK, StopTold, Join, queue
<1>4. Pushed' /\ Fresh' /\ SignalUp'
  BY DEF IInv, Pushed, Fresh, SignalUp, Join, queue
<1> QED
  BY <1>1, <1>2, <1>3, <1>4 DEF IInv

(* Top preserves the invariant.                                            *)
LEMMA TopKeeps ==
  ASSUME IInv, Top
  PROVE IInv'
<1>1. TypeOK'
  BY MaxItemsAssumption DEF IInv, TypeOK, Top, Round, Items, Positions, queue
<1>2. Fresh'
  BY DEF IInv, TypeOK, Fresh, Top, Round, queue
<1>3. SignalUp'
  BY DEF IInv, TypeOK, SignalUp, Top, Round, queue
<1>4. SignalTold'
  BY DEF IInv, TypeOK, SignalTold, Top, Round, queue
<1>5. StopTold'
  BY DEF IInv, TypeOK, StopTold, Top, Round, queue
<1>6. Pushed'
  BY DEF IInv, Pushed, Top, queue
<1> QED
  BY <1>1, <1>2, <1>3, <1>4, <1>5, <1>6 DEF IInv

(* The signal goes down, the swap comes next.                               *)
LEMMA ClearKeeps ==
  ASSUME IInv, Clear
  PROVE IInv'
<1>1. TypeOK'
  BY MaxItemsAssumption DEF IInv, TypeOK, Clear, Round, Items, Positions, queue
<1>2. Fresh'
  BY DEF IInv, TypeOK, Fresh, Clear, Round, queue
<1>3. SignalUp'
  BY DEF IInv, TypeOK, SignalUp, Clear, Round, queue
<1>4. SignalTold'
  BY DEF IInv, TypeOK, SignalTold, Clear, Round, queue
<1>5. StopTold'
  BY DEF IInv, TypeOK, StopTold, Clear, Round, queue
<1>6. Pushed'
  BY DEF IInv, Pushed, Clear, queue
<1> QED
  BY <1>1, <1>2, <1>3, <1>4, <1>5, <1>6 DEF IInv

(* The filled buffer is now the one to handle; the other one is empty.      *)
LEMMA SwapKeeps ==
  ASSUME IInv, Swap
  PROVE IInv'
<1>1. TypeOK'
  BY MaxItemsAssumption DEF IInv, TypeOK, Swap, Cleared, Items, Positions
<1>2. Pushed'
  BY MaxItemsAssumption DEF IInv, TypeOK, Pushed, Swap, Cleared, Items
<1>3. Fresh'
  BY MaxItemsAssumption DEF IInv, TypeOK, Pushed, Fresh, Swap, Cleared, Items
<1>4. SignalUp'
  BY MaxItemsAssumption DEF IInv, TypeOK, SignalUp, Swap, Cleared, Items
<1>5. SignalTold'
  BY MaxItemsAssumption DEF IInv, TypeOK, SignalTold, Swap, Cleared, Items
<1>6. StopTold'
  BY MaxItemsAssumption DEF IInv, TypeOK, StopTold, Swap, Cleared, Items
<1> QED
  BY <1>1, <1>2, <1>3, <1>4, <1>5, <1>6 DEF IInv

(* What is handled here was fresh, and nothing of it is in the other buffer.*)
LEMMA StepKeeps ==
  ASSUME IInv, Step
  PROVE IInv'
<1>1. TypeOK'
  BY MaxItemsAssumption DEF IInv, Fresh, TypeOK, Step, Round, Items, Positions, queue
<1>2. Pushed'
  BY MaxItemsAssumption DEF IInv, TypeOK, Fresh, Pushed, Step, Round, Items, queue
<1>3. Fresh'
  BY MaxItemsAssumption DEF IInv, TypeOK, Pushed, Fresh, Step, Round, Items, queue
<1>4. SignalUp'
  BY MaxItemsAssumption DEF IInv, TypeOK, SignalUp, Step, Round, Items, queue
<1>5. SignalTold'
  BY MaxItemsAssumption DEF IInv, TypeOK, SignalTold, Step, Round, Items, queue
<1>6. StopTold'
  BY MaxItemsAssumption DEF IInv, TypeOK, StopTold, Step, Round, Items, queue
<1> QED
  BY <1>1, <1>2, <1>3, <1>4, <1>5, <1>6 DEF IInv

(* Check preserves the invariant.                                          *)
LEMMA CheckKeeps ==
  ASSUME IInv, Check
  PROVE IInv'
<1>1. TypeOK'
  BY MaxItemsAssumption DEF IInv, TypeOK, Check, Items, Positions, queue
<1>2. Fresh'
  BY DEF IInv, TypeOK, Fresh, Check, queue
<1>3. SignalUp'
  BY DEF IInv, TypeOK, SignalUp, Check, queue
<1>4. SignalTold'
  BY DEF IInv, TypeOK, SignalTold, Check, queue
<1>5. StopTold'
  BY DEF IInv, TypeOK, StopTold, Check, queue
<1>6. Pushed'
  BY DEF IInv, Pushed, Check, queue
<1> QED
  BY <1>1, <1>2, <1>3, <1>4, <1>5, <1>6 DEF IInv

(* Lock preserves the invariant.                                           *)
LEMMA LockKeeps ==
  ASSUME IInv, Lock
  PROVE IInv'
<1>1. TypeOK'
  BY MaxItemsAssumption DEF IInv, TypeOK, Lock, Items, Positions, queue
<1>2. Fresh'
  BY DEF IInv, TypeOK, Fresh, Lock, queue
<1>3. SignalUp'
  BY DEF IInv, TypeOK, SignalUp, Lock, queue
<1>4. SignalTold'
  BY DEF IInv, TypeOK, SignalTold, Lock, queue
<1>5. StopTold'
  BY DEF IInv, TypeOK, StopTold, Lock, queue
<1>6. Pushed'
  BY DEF IInv, Pushed, Lock, queue
<1> QED
  BY <1>1, <1>2, <1>3, <1>4, <1>5, <1>6 DEF IInv

(* The thread goes to sleep only when the signal is down and running_ up.   *)
LEMMA DecideKeeps ==
  ASSUME IInv, Decide
  PROVE IInv'
<1>1. TypeOK'
  BY MaxItemsAssumption DEF IInv, TypeOK, Decide, Items, Positions, queue
<1>2. Fresh'
  BY DEF IInv, TypeOK, Fresh, Decide, queue
<1>3. SignalUp'
  BY DEF IInv, TypeOK, SignalUp, Decide, queue
<1>4. SignalTold'
  BY DEF IInv, TypeOK, SignalTold, Decide, queue
<1>5. StopTold'
  BY DEF IInv, TypeOK, StopTold, Decide, queue
<1>6. Pushed'
  BY DEF IInv, Pushed, Decide, queue
<1> QED
  BY <1>1, <1>2, <1>3, <1>4, <1>5, <1>6 DEF IInv

(* Wait preserves the invariant.                                           *)
LEMMA WaitKeeps ==
  ASSUME IInv, Wait
  PROVE IInv'
<1>1. TypeOK'
  BY MaxItemsAssumption DEF IInv, TypeOK, Wait, Items, Positions, queue
<1>2. Fresh'
  BY DEF IInv, TypeOK, Fresh, Wait, queue
<1>3. SignalUp'
  BY DEF IInv, TypeOK, SignalUp, Wait, queue
<1>4. SignalTold'
  BY DEF IInv, TypeOK, SignalTold, Wait, queue
<1>5. StopTold'
  BY DEF IInv, TypeOK, StopTold, Wait, queue
<1>6. Pushed'
  BY DEF IInv, Pushed, Wait, queue
<1> QED
  BY <1>1, <1>2, <1>3, <1>4, <1>5, <1>6 DEF IInv

(* WaitEnds preserves the invariant.                                       *)
LEMMA WaitEndsKeeps ==
  ASSUME IInv, WaitEnds
  PROVE IInv'
<1>1. TypeOK'
  BY MaxItemsAssumption DEF IInv, TypeOK, WaitEnds, Items, Positions, queue
<1>2. Fresh'
  BY DEF IInv, TypeOK, Fresh, WaitEnds, queue
<1>3. SignalUp'
  BY DEF IInv, TypeOK, SignalUp, WaitEnds, queue
<1>4. SignalTold'
  BY DEF IInv, TypeOK, SignalTold, WaitEnds, queue
<1>5. StopTold'
  BY DEF IInv, TypeOK, StopTold, WaitEnds, queue
<1>6. Pushed'
  BY DEF IInv, Pushed, WaitEnds, queue
<1> QED
  BY <1>1, <1>2, <1>3, <1>4, <1>5, <1>6 DEF IInv

-----------------------------------------------------------------------------
(* The invariant holds initially and every step keeps it.                  *)
LEMMA Inductive == Spec => []IInv
<1>1. Init => IInv
  <2> SUFFICES ASSUME Init
               PROVE  IInv
    OBVIOUS
  <2>1. TypeOK
    <3>1. sent \in [Producers -> 0..MaxItems] /\ handled \in [Items -> 0..1]
      BY MaxItemsAssumption DEF Init
    <3>2. buffers \in [0..1 -> SUBSET Items] /\ write \in 0..1
      BY DEF Init
    <3>3. producer \in [Producers -> {"out", "wake", "lock", "notify"}]
      BY DEF Init
    <3> QED
      BY <3>1, <3>2, <3>3 DEF Init, TypeOK, Positions
  <2>2. Pushed
    BY DEF Init, Pushed
  <2>3. Fresh /\ SignalUp
    BY DEF Init, Fresh, SignalUp
  <2>4. SignalTold /\ StopTold
    BY DEF Init, SignalTold, StopTold
  <2> QED
    BY <2>1, <2>2, <2>3, <2>4 DEF IInv
<1>2. IInv /\ [Next]_vars => IInv'
  <2> SUFFICES ASSUME IInv, [Next]_vars
               PROVE  IInv'
    OBVIOUS
  <2>1. CASE \E p \in Producers : Producer(p)
    <3>1. PICK p \in Producers : Producer(p)
      BY <2>1
    <3> QED
      BY <3>1, PushKeeps, WakeKeeps, WakeLockKeeps, WakeNotifyKeeps DEF Producer
  <2>2. CASE Stopper
    BY <2>2, StopKeeps, StopLockKeeps, StopNotifyKeeps, JoinKeeps DEF Stopper
  <2>3. CASE Run \/ WaitEnds
    BY <2>3, TopKeeps, ClearKeeps, SwapKeeps, StepKeeps, CheckKeeps, LockKeeps,
       DecideKeeps, WaitKeeps, WaitEndsKeeps
    DEF Run
  <2>4. CASE Stopped \/ UNCHANGED vars
    BY <2>4
    DEF Stopped, vars, queue, IInv, TypeOK, Pushed, Fresh, SignalUp, SignalTold, StopTold
  <2> QED
    BY <2>1, <2>2, <2>3, <2>4 DEF Next
<1> QED
  BY <1>1, <1>2, PTL DEF Spec

(* LogicThread::run and SwapQueue::swap: every variable has its type, and  *)
(* no item is handled a second time although swap hands the same two       *)
(* buffers out again and again.                                            *)
THEOREM TypeCorrect == Spec => []TypeOK
<1>1. IInv => TypeOK
  BY DEF IInv
<1> QED
  BY <1>1, Inductive, PTL

(* LogicThread::wake, stop and run: the thread never sleeps over an item   *)
(* or over stop unless somebody is about to notify it, although wake       *)
(* returns without the lock when the signal is up.                         *)
THEOREM WakeupNotLost == Spec => []NoLostWakeup
<1>1. IInv => NoLostWakeup
  <2> SUFFICES ASSUME IInv, thread = "waiting", buffers[write] # {} \/ ~running
               PROVE  \/ \E p \in Producers : producer[p] # "out"
                      \/ stopper \in {"lock", "notify"}
    BY DEF NoLostWakeup
  <2>1. CASE ~running
    BY <2>1 DEF IInv, StopTold
  <2>2. CASE buffers[write] # {}
    <3>1. signaled \/ \E p \in Producers : producer[p] = "wake"
      BY <2>2 DEF IInv, SignalUp
    <3> QED
      BY <3>1 DEF IInv, SignalTold
  <2> QED
    BY <2>1, <2>2
<1> QED
  BY <1>1, Inductive, PTL
=============================================================================
