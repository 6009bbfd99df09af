---------------------- MODULE ConnectionLifetimeProofs ----------------------
(***************************************************************************)
(* Proofs about ConnectionLifetime, for any connections, workers, services *)
(* and connection limit.                                                   *)
(***************************************************************************)
EXTENDS ConnectionLifetime, FiniteSetTheorems, TLAPS

(* A thread holds a connection exactly while it is in a handler or in send *)
(* or close for a session. A service goes back to its queue, a worker to   *)
(* its handler.                                                            *)
ThreadsHold ==
  /\ \A t \in Threads : at[t] = "idle" <=> conn[t] = NoConn
  /\ \A s \in Services : back[s] = "idle" /\ at[s] \in {"idle", "append", "issue", "closing", "failing"}
  /\ \A w \in Workers : at[w] # "idle" => back[w] # "idle"
  /\ \A w \in Workers : at[w] \in {"on_receive", "post"} => back[w] = "on_receive"

(* There is one receive at a time, outstanding or in its handler, and none *)
(* before start.                                                           *)
Receiving(w, c) == conn[w] = c /\ back[w] = "on_receive" /\ at[w] # "release"
OneReceive ==
  \A c \in Conns :
    /\ \A w \in Workers : Receiving(w, c) =>
          /\ stage[c] = "started" /\ ops[c]["receive"] = "none"
          /\ \A v \in Workers : Receiving(v, c) => v = w
    /\ stage[c] # "started" => ops[c]["receive"] = "none"

(* There is one send at a time: being issued, outstanding or in its        *)
(* handler.                                                                *)
SendingBy(t, c) == conn[t] = c /\ at[t] \in {"issue", "on_send"}
OneSend ==
  \A c \in Conns, t \in Threads : SendingBy(t, c) =>
    /\ ops[c]["send"] = "none"
    /\ \A u \in Threads : SendingBy(u, c) => u = t

(* pending_ counts the operations that were not handed to a worker, lost   *)
(* ones too, and the handlers that have not given theirs back.             *)
OpsOf(c) == {k \in Ops : ops[c][k] # "none"}
WorkersOf(c) == {w \in Workers : conn[w] = c}
PendingExact ==
  \A c \in Conns : pending[c] = Cardinality(OpsOf(c)) + Cardinality(WorkersOf(c))

IInv ==
  TypeOK /\ ThreadsHold /\ OneReceive /\ OneSend /\ PendingExact /\ WithinLimit
-----------------------------------------------------------------------------
(* The count of pending_.                                                  *)
Notices == [conn : Conns, kind : {"connected", "disconnected"}]
States == {"none", "kernel", "port", "lost"}

LEMMA CountsFinite ==
  ASSUME NEW c \in Conns
  PROVE  /\ IsFiniteSet(OpsOf(c)) /\ Cardinality(OpsOf(c)) \in Nat
         /\ IsFiniteSet(WorkersOf(c)) /\ Cardinality(WorkersOf(c)) \in Nat
<1>1. IsFiniteSet(Ops)
  <2>1. Ops = {"receive", "send", "flush"}
    BY DEF Ops, KernelOps
  <2>2. IsFiniteSet({}) /\ IsFiniteSet({} \union {"receive"})
    BY FS_EmptySet, FS_AddElement
  <2>3. IsFiniteSet(({} \union {"receive"}) \union {"send"})
    BY <2>2, FS_AddElement
  <2>4. IsFiniteSet((({} \union {"receive"}) \union {"send"}) \union {"flush"})
    BY <2>3, FS_AddElement
  <2>5. (({} \union {"receive"}) \union {"send"}) \union {"flush"} = Ops
    BY <2>1
  <2>6. QED
    BY <2>4, <2>5
<1>2. OpsOf(c) \subseteq Ops /\ WorkersOf(c) \subseteq Workers
  BY DEF OpsOf, WorkersOf
<1>3. QED
  BY <1>1, <1>2, LifetimeAssumption, FS_Subset, FS_CardinalityType

LEMMA ZeroMeansNone ==
  ASSUME PendingExact, NEW c \in Conns, pending[c] = 0
  PROVE  ~Outstanding(c)
<1>1. /\ pending[c] = Cardinality(OpsOf(c)) + Cardinality(WorkersOf(c))
      /\ Cardinality(OpsOf(c)) \in Nat /\ Cardinality(WorkersOf(c)) \in Nat
  BY CountsFinite DEF PendingExact
<1>2. \A a, b \in Nat : a + b = 0 => a = 0 /\ b = 0
  OBVIOUS
<1>3. Cardinality(OpsOf(c)) = 0 /\ Cardinality(WorkersOf(c)) = 0
  BY <1>1, <1>2
<1>4. OpsOf(c) = {} /\ WorkersOf(c) = {}
  BY <1>3, CountsFinite, FS_EmptySet
<1>5. QED
  BY <1>4 DEF OpsOf, WorkersOf, Outstanding

LEMMA CountsSame ==
  ASSUME PendingExact, UNCHANGED <<pending, ops, conn>>
  PROVE  PendingExact'
BY DEF PendingExact, OpsOf, WorkersOf

LEMMA CountsMove ==
  ASSUME PendingExact, UNCHANGED <<pending, ops>>, \A d \in Conns : WorkersOf(d)' = WorkersOf(d)
  PROVE  PendingExact'
BY DEF PendingExact, OpsOf

LEMMA CountsIssue ==
  ASSUME TypeOK, PendingExact, NEW c \in Conns, NEW k \in Ops, NEW to \in States, to # "none",
         ops[c][k] = "none", Issue(c, k, to), \A d \in Conns : WorkersOf(d)' = WorkersOf(d)
  PROVE  PendingExact' /\ pending' \in [Conns -> Nat]
<1>1. /\ ops'[c][k] = to
      /\ \A d \in Conns, j \in Ops : d # c \/ j # k => ops'[d][j] = ops[d][j]
  BY DEF Issue, TypeOK, States
<1>2. /\ pending \in [Conns -> Nat] /\ pending' = [pending EXCEPT ![c] = pending[c] + 1]
  BY DEF Issue, TypeOK
<1>3. \A d \in Conns : WorkersOf(d)' = WorkersOf(d)
  OBVIOUS
<1>4. \A d \in Conns : d # c => OpsOf(d)' = OpsOf(d)
  BY <1>1 DEF OpsOf
<1>5. OpsOf(c)' = OpsOf(c) \union {k} /\ k \notin OpsOf(c)
  BY <1>1 DEF OpsOf
<1>6. Cardinality(OpsOf(c)') = Cardinality(OpsOf(c)) + 1
  BY <1>5, CountsFinite, FS_AddElement
<1>7. ASSUME NEW d \in Conns
      PROVE  pending'[d] = Cardinality(OpsOf(d)') + Cardinality(WorkersOf(d)')
  <2>1. /\ pending[d] = Cardinality(OpsOf(d)) + Cardinality(WorkersOf(d))
        /\ Cardinality(OpsOf(d)) \in Nat /\ Cardinality(WorkersOf(d)) \in Nat
    BY CountsFinite DEF PendingExact
  <2>2. CASE d = c
    BY <1>2, <1>3, <1>6, <2>1, <2>2
  <2>3. CASE d # c
    BY <1>2, <1>3, <1>4, <2>1, <2>3
  <2>4. QED
    BY <2>2, <2>3
<1>8. QED
  BY <1>2, <1>7 DEF PendingExact

LEMMA CountsKernelDone ==
  ASSUME TypeOK, PendingExact, NEW c \in Conns, NEW k \in Ops, NEW to \in States, to # "none",
         ops[c][k] # "none", ops' = [ops EXCEPT ![c][k] = to], UNCHANGED <<pending, conn>>
  PROVE  PendingExact'
<1>1. /\ ops'[c][k] = to
      /\ \A d \in Conns, j \in Ops : d # c \/ j # k => ops'[d][j] = ops[d][j]
  BY DEF TypeOK, States
<1>2. \A d \in Conns : OpsOf(d)' = OpsOf(d) /\ WorkersOf(d)' = WorkersOf(d)
  BY <1>1 DEF OpsOf, WorkersOf
<1>3. QED
  BY <1>2 DEF PendingExact

LEMMA CountsDispatch ==
  ASSUME TypeOK, PendingExact, NEW w \in Workers, NEW c \in Conns, NEW k \in Ops,
         ops[c][k] # "none", ops' = [ops EXCEPT ![c][k] = "none"],
         conn[w] = NoConn, conn' = [conn EXCEPT ![w] = c], pending' = pending
  PROVE  PendingExact'
<1>1. "none" \in States
  BY DEF States
<1>2. /\ ops'[c][k] = "none"
      /\ \A d \in Conns, j \in Ops : d # c \/ j # k => ops'[d][j] = ops[d][j]
  BY <1>1 DEF TypeOK, States
<1>3. OpsOf(c)' = OpsOf(c) \ {k} /\ k \in OpsOf(c)
  BY <1>2 DEF OpsOf
<1>4. \A d \in Conns : d # c => OpsOf(d)' = OpsOf(d)
  BY <1>2 DEF OpsOf
<1>5. WorkersOf(c)' = WorkersOf(c) \union {w} /\ w \notin WorkersOf(c)
  BY LifetimeAssumption DEF WorkersOf, TypeOK, Threads
<1>6. \A d \in Conns : d # c => WorkersOf(d)' = WorkersOf(d)
  BY LifetimeAssumption DEF WorkersOf, TypeOK, Threads
<1>7. /\ Cardinality(OpsOf(c)') = Cardinality(OpsOf(c)) - 1
      /\ Cardinality(WorkersOf(c)') = Cardinality(WorkersOf(c)) + 1
  <2>1. Cardinality(OpsOf(c)') = Cardinality(OpsOf(c)) - 1
    BY <1>3, CountsFinite, FS_RemoveElement
  <2>2. Cardinality(WorkersOf(c)') = Cardinality(WorkersOf(c)) + 1
    BY <1>5, CountsFinite, FS_AddElement
  <2>3. QED
    BY <2>1, <2>2
<1>8. ASSUME NEW d \in Conns
      PROVE  pending'[d] = Cardinality(OpsOf(d)') + Cardinality(WorkersOf(d)')
  <2>1. /\ pending[d] = Cardinality(OpsOf(d)) + Cardinality(WorkersOf(d))
        /\ Cardinality(OpsOf(d)) \in Nat /\ Cardinality(WorkersOf(d)) \in Nat
    BY CountsFinite DEF PendingExact
  <2>2. CASE d = c
    BY <1>7, <2>1, <2>2
  <2>3. CASE d # c
    BY <1>4, <1>6, <2>1, <2>3
  <2>4. QED
    BY <2>2, <2>3
<1>9. QED
  BY <1>8 DEF PendingExact

LEMMA CountsRelease ==
  ASSUME TypeOK, PendingExact, NEW w \in Workers, NEW c \in Conns, conn[w] = c,
         conn' = [conn EXCEPT ![w] = NoConn], ops' = ops,
         pending' = [pending EXCEPT ![c] = pending[c] - 1]
  PROVE  PendingExact' /\ pending' \in [Conns -> Nat]
<1>1. WorkersOf(c)' = WorkersOf(c) \ {w} /\ w \in WorkersOf(c)
  BY LifetimeAssumption DEF WorkersOf, TypeOK, Threads
<1>2. \A d \in Conns : d # c => WorkersOf(d)' = WorkersOf(d)
  BY LifetimeAssumption DEF WorkersOf, TypeOK, Threads
<1>3. \A d \in Conns : OpsOf(d)' = OpsOf(d)
  BY DEF OpsOf
<1>4. pending \in [Conns -> Nat] /\ pending' = [pending EXCEPT ![c] = pending[c] - 1]
  BY DEF TypeOK
<1>5. /\ Cardinality(WorkersOf(c)') = Cardinality(WorkersOf(c)) - 1
      /\ Cardinality(WorkersOf(c)) # 0
  BY <1>1, CountsFinite, FS_RemoveElement, FS_EmptySet
<1>6. ASSUME NEW d \in Conns
      PROVE  pending'[d] = Cardinality(OpsOf(d)') + Cardinality(WorkersOf(d)') /\ pending'[d] \in Nat
  <2>1. /\ pending[d] = Cardinality(OpsOf(d)) + Cardinality(WorkersOf(d))
        /\ Cardinality(OpsOf(d)) \in Nat /\ Cardinality(WorkersOf(d)) \in Nat
    BY CountsFinite DEF PendingExact
  <2>2. CASE d = c
    BY <1>3, <1>4, <1>5, <2>1, <2>2
  <2>3. CASE d # c
    BY <1>2, <1>3, <1>4, <2>1, <2>3
  <2>4. QED
    BY <2>2, <2>3
<1>7. QED
  BY <1>4, <1>6 DEF PendingExact

(* The limit, when one connection joins and when one leaves.               *)
LEMMA LimitJoin ==
  ASSUME TypeOK, WithinLimit, NEW c \in Conns, HasSlot, registered' = registered \union {c}
  PROVE  WithinLimit'
<1>1. IsFiniteSet(registered)
  BY LifetimeAssumption, FS_Subset DEF TypeOK
<1>2. Cardinality(registered) \in Nat
  BY <1>1, FS_CardinalityType
<1>3. Cardinality(registered') = Cardinality(registered) \/ Cardinality(registered') = Cardinality(registered) + 1
  BY <1>1, FS_AddElement
<1>4. MaxConnections \in Nat
  BY LifetimeAssumption
<1>5. MaxConnections > 0 => Cardinality(registered) < MaxConnections
  BY <1>4 DEF HasSlot
<1>6. \A a, b, m \in Nat : a < m /\ (b = a \/ b = a + 1) => b <= m
  OBVIOUS
<1>7. Cardinality(registered') \in Nat
  BY <1>2, <1>3
<1>8. MaxConnections > 0 => Cardinality(registered') <= MaxConnections
  BY <1>2, <1>3, <1>4, <1>5, <1>6, <1>7
<1>9. QED
  BY <1>8 DEF WithinLimit

LEMMA LimitLeave ==
  ASSUME TypeOK, WithinLimit, NEW c \in Conns, registered' = registered \ {c}
  PROVE  WithinLimit'
<1>1. IsFiniteSet(registered)
  BY LifetimeAssumption, FS_Subset DEF TypeOK
<1>2. Cardinality(registered) \in Nat
  BY <1>1, FS_CardinalityType
<1>3. Cardinality(registered') = Cardinality(registered) \/ Cardinality(registered') = Cardinality(registered) - 1
  BY <1>1, FS_RemoveElement
<1>4. MaxConnections \in Nat
  BY LifetimeAssumption
<1>5. \A a, m \in Nat : \A b : a <= m /\ (b = a \/ b = a - 1) => b <= m
  OBVIOUS
<1>6. MaxConnections > 0 => Cardinality(registered') <= MaxConnections
  BY <1>2, <1>3, <1>4, <1>5 DEF WithinLimit
<1>7. QED
  BY <1>6 DEF WithinLimit

LEMMA NoticeFacts ==
  ASSUME NEW c \in Conns, NEW k \in {"connected", "disconnected"}
  PROVE  /\ Notice(c, k) \in Notices
         /\ \A d \in Conns, j \in {"connected", "disconnected"} :
               Notice(d, j) = Notice(c, k) => d = c /\ j = k
BY DEF Notice, Notices

-----------------------------------------------------------------------------
(* A thread in the middle of a call goes on. What that does to the threads *)
(* is the same for every such step.                                        *)
Targets(t) ==
  IF t \in Services THEN {"idle", "append", "issue", "closing", "failing"}
  ELSE {"on_receive", "post", "append", "issue", "closing", "failing", "failed", "release"}

Moves(t, c, pos) ==
  /\ t \in Threads /\ c \in Conns /\ conn[t] = c
  /\ at[t] # "release" /\ pos \in Targets(t)
  /\ pos \in {"on_receive", "post"} => back[t] = "on_receive"
  /\ Go(t, pos)

(* What a move leaves: the tokens of the others, and only an issue is new. *)
Moved(t, c, pos) ==
  /\ at' \in [Threads -> Positions] /\ conn' \in [Threads -> Conns \union {NoConn}]
  /\ back' = back
  /\ ThreadsHold'
  /\ \A d \in Conns : WorkersOf(d)' = WorkersOf(d)
  /\ \A d \in Conns, w \in Workers : Receiving(w, d)' => Receiving(w, d)
  /\ pos = "release" => \A d \in Conns : ~Receiving(t, d)'
  /\ \A d \in Conns, u \in Threads : u # t => (SendingBy(u, d)' <=> SendingBy(u, d))
  /\ \A d \in Conns : SendingBy(t, d)' => d = c /\ pos = "issue"

LEMMA MoveFacts ==
  ASSUME TypeOK, ThreadsHold, NEW t, NEW c, NEW pos, Moves(t, c, pos)
  PROVE  Moved(t, c, pos)
<1>1. /\ t \in Threads /\ c \in Conns /\ conn[t] = c /\ c # NoConn
      /\ at[t] # "release" /\ at[t] # "idle"
      /\ at' = [at EXCEPT ![t] = pos] /\ back' = back
      /\ conn' = IF pos = "idle" THEN [conn EXCEPT ![t] = NoConn] ELSE conn
  BY LifetimeAssumption DEF Moves, Go, ThreadsHold
<1>2. /\ at \in [Threads -> Positions] /\ conn \in [Threads -> Conns \union {NoConn}]
      /\ back \in [Threads -> {"idle", "on_receive", "release"}]
  BY DEF TypeOK
<1>3. pos \in Positions /\ pos # "on_send"
  BY DEF Moves, Targets, Positions
<1>4. t \in Workers => pos # "idle"
  BY LifetimeAssumption DEF Moves, Targets
<1>5. /\ at' \in [Threads -> Positions] /\ conn' \in [Threads -> Conns \union {NoConn}]
      /\ at'[t] = pos /\ conn'[t] = IF pos = "idle" THEN NoConn ELSE c
      /\ \A u \in Threads : u # t => at'[u] = at[u] /\ conn'[u] = conn[u]
  BY <1>1, <1>2, <1>3
<1>6. ThreadsHold'
  <2>1. \A u \in Threads : at'[u] = "idle" <=> conn'[u] = NoConn
    BY <1>1, <1>5 DEF ThreadsHold
  <2>2. \A s \in Services : back'[s] = "idle" /\ at'[s] \in {"idle", "append", "issue", "closing", "failing"}
    BY <1>1, <1>5 DEF ThreadsHold, Moves, Targets, Threads
  <2>3. \A w \in Workers : at'[w] # "idle" => back'[w] # "idle"
    BY <1>1, <1>5 DEF ThreadsHold, Threads
  <2>4. \A w \in Workers : at'[w] \in {"on_receive", "post"} => back'[w] = "on_receive"
    BY <1>1, <1>5 DEF ThreadsHold, Threads, Moves
  <2>5. QED
    BY <2>1, <2>2, <2>3, <2>4 DEF ThreadsHold
<1>7. \A w \in Workers : conn'[w] = conn[w]
  BY <1>1, <1>4, <1>5 DEF Threads
<1>8. \A d \in Conns : WorkersOf(d)' = WorkersOf(d)
  BY <1>7 DEF WorkersOf
<1>9. \A d \in Conns, w \in Workers : Receiving(w, d)' => Receiving(w, d)
  BY <1>1, <1>5, <1>7 DEF Receiving, Threads
<1>10. pos = "release" => \A d \in Conns : ~Receiving(t, d)'
  BY <1>5 DEF Receiving
<1>11. \A d \in Conns, u \in Threads : u # t => (SendingBy(u, d)' <=> SendingBy(u, d))
  BY <1>5 DEF SendingBy
<1>12. \A d \in Conns : SendingBy(t, d)' => d = c /\ pos = "issue"
  BY <1>1, <1>3, <1>5 DEF SendingBy
<1>13. QED
  BY <1>1, <1>5, <1>6, <1>8, <1>9, <1>10, <1>11, <1>12 DEF Moved

(* Nothing but threads moves: the tokens stay with those who have them.    *)
LEMMA ReceiveMoved ==
  ASSUME OneReceive, NEW t, NEW c, NEW pos, Moved(t, c, pos), UNCHANGED <<stage, ops>>
  PROVE  OneReceive'
BY DEF OneReceive, Moved

LEMMA SendMoved ==
  ASSUME OneSend, NEW t \in Threads, NEW c \in Conns, NEW pos, Moved(t, c, pos),
         \A d \in Conns : ops'[d]["send"] = ops[d]["send"],
         pos = "issue" => /\ ops[c]["send"] = "none"
                          /\ \A u \in Threads : SendingBy(u, c) => u = t
  PROVE  OneSend'
<1>1. ASSUME NEW d \in Conns, NEW u \in Threads, SendingBy(u, d)'
      PROVE  /\ ops[d]["send"] = "none"
             /\ \A v \in Threads : SendingBy(v, d)' => v = u
  <2>1. CASE u = t
    <3>1. d = c /\ pos = "issue"
      BY <1>1, <2>1 DEF Moved
    <3>2. QED
      BY <2>1, <3>1 DEF Moved
  <2>2. CASE u # t
    <3>1. SendingBy(u, d)
      BY <1>1, <2>2 DEF Moved
    <3>2. ~SendingBy(t, d)'
      BY <2>2, <3>1 DEF Moved
    <3>3. QED
      BY <3>1, <3>2 DEF Moved, OneSend
  <2>3. QED
    BY <2>1, <2>2
<1>2. QED
  BY <1>1 DEF OneSend

(* Where return leads.                                                     *)
LEMMA BackTargets ==
  ASSUME TypeOK, ThreadsHold, NEW t \in Threads, at[t] # "idle"
  PROVE  back[t] \in Targets(t) /\ back[t] \notin {"issue", "post"}
BY DEF TypeOK, ThreadsHold, Targets, Threads

LEMMA HasConn ==
  ASSUME TypeOK, ThreadsHold, NEW t \in Threads, at[t] # "idle"
  PROVE  conn[t] \in Conns
BY DEF TypeOK, ThreadsHold

(* A step that leaves the threads, the operations and the registry alone.  *)
LEMMA QuietKeeps ==
  ASSUME IInv, TypeOK', UNCHANGED <<registered, pending, ops, at, conn, back>>,
         \A d \in Conns : stage'[d] = "started" <=> stage[d] = "started"
  PROVE  IInv'
<1>1. ThreadsHold' /\ PendingExact' /\ WithinLimit'
  BY CountsSame DEF IInv, ThreadsHold, WithinLimit
<1>2. OneReceive'
  BY DEF IInv, OneReceive, Receiving
<1>3. OneSend'
  BY DEF IInv, OneSend, SendingBy
<1>4. QED
  BY <1>1, <1>2, <1>3 DEF IInv

(* A step that moves one thread.                                           *)
Rest == <<stage, registered, told, shut, ended, overtaken, queue, session, expired, sweeping>>

LEMMA MoveKeeps ==
  ASSUME IInv, NEW t \in Threads, NEW c \in Conns, NEW pos, Moves(t, c, pos),
         UNCHANGED <<Rest, pending, ops>>, closed' \in [Conns -> BOOLEAN],
         pos = "issue" => /\ ops[c]["send"] = "none"
                          /\ \A u \in Threads : SendingBy(u, c) => u = t
  PROVE  IInv'
<1>1. Moved(t, c, pos)
  BY MoveFacts DEF IInv
<1>2. TypeOK'
  BY <1>1 DEF IInv, TypeOK, Moved, Rest
<1>3. ThreadsHold'
  BY <1>1 DEF Moved
<1>4. OneReceive'
  BY <1>1, ReceiveMoved DEF IInv, Rest
<1>5. OneSend'
  BY <1>1, SendMoved DEF IInv
<1>6. PendingExact'
  BY <1>1, CountsMove DEF IInv, Moved
<1>7. WithinLimit'
  BY DEF IInv, WithinLimit, Rest
<1>8. QED
  BY <1>2, <1>3, <1>4, <1>5, <1>6, <1>7 DEF IInv

(* What an issue does to the operations.                                   *)
LEMMA IssueFacts ==
  ASSUME TypeOK, NEW c \in Conns, NEW k \in Ops, NEW to \in States, Issue(c, k, to)
  PROVE  /\ ops' \in [Conns -> [Ops -> States]] /\ ops'[c][k] = to
         /\ \A d \in Conns, j \in Ops : d # c \/ j # k => ops'[d][j] = ops[d][j]
BY DEF Issue, TypeOK, States

(* A step that moves one thread and issues an operation there is none of.  *)
LEMMA IssueKeeps ==
  ASSUME IInv, NEW t \in Threads, NEW c \in Conns, NEW pos, Moves(t, c, pos), pos # "issue",
         NEW k \in Ops, NEW to \in States, to # "none", Issue(c, k, to), ops[c][k] = "none",
         UNCHANGED <<Rest, closed>>,
         k = "receive" => t \in Workers /\ Receiving(t, c) /\ pos = "release",
         k = "send" => SendingBy(t, c)
  PROVE  IInv'
<1>1. Moved(t, c, pos)
  BY MoveFacts DEF IInv
<1>2. /\ ops' \in [Conns -> [Ops -> States]] /\ ops'[c][k] = to
      /\ \A d \in Conns, j \in Ops : d # c \/ j # k => ops'[d][j] = ops[d][j]
  BY IssueFacts DEF IInv
<1>3. PendingExact' /\ pending' \in [Conns -> Nat]
  BY <1>1, CountsIssue DEF IInv, Moved
<1>4. TypeOK'
  BY <1>1, <1>2, <1>3 DEF IInv, TypeOK, Moved, Rest, States
<1>5. ThreadsHold'
  BY <1>1 DEF Moved
<1>6. OneReceive'
  <2>1. CASE k = "receive"
    <3>1. Receiving(t, c) /\ t \in Workers /\ pos = "release" /\ stage[c] = "started"
      BY <2>1 DEF IInv, OneReceive
    <3>2. \A w \in Workers : ~Receiving(w, c)'
      BY <1>1, <3>1 DEF IInv, OneReceive, Moved
    <3>3. \A d \in Conns, w \in Workers : Receiving(w, d)' => d # c /\ Receiving(w, d)
      BY <1>1, <3>2 DEF Moved
    <3>4. \A d \in Conns : d # c => ops'[d]["receive"] = ops[d]["receive"]
      BY <1>2 DEF Ops, KernelOps
    <3>5. QED
      BY <3>1, <3>3, <3>4 DEF IInv, OneReceive, Rest
  <2>2. CASE k # "receive"
    <3>1. \A d \in Conns : ops'[d]["receive"] = ops[d]["receive"]
      BY <1>2, <2>2 DEF Ops, KernelOps
    <3>2. QED
      BY <1>1, <3>1 DEF IInv, OneReceive, Moved, Rest
  <2>3. QED
    BY <2>1, <2>2
<1>7. OneSend'
  <2>1. CASE k = "send"
    <3>1. \A u \in Threads : ~SendingBy(u, c)'
      BY <1>1, <2>1 DEF IInv, OneSend, Moved
    <3>2. ASSUME NEW d \in Conns, NEW u \in Threads, SendingBy(u, d)'
          PROVE  d # c /\ u # t /\ SendingBy(u, d)
      BY <1>1, <3>1, <3>2 DEF Moved
    <3>3. \A d \in Conns : d # c => ops'[d]["send"] = ops[d]["send"]
      BY <1>2 DEF Ops, KernelOps
    <3>4. QED
      BY <3>2, <3>3 DEF IInv, OneSend
  <2>2. CASE k # "send"
    <3>1. \A d \in Conns : ops'[d]["send"] = ops[d]["send"]
      BY <1>2, <2>2 DEF Ops, KernelOps
    <3>2. QED
      BY <1>1, <3>1, SendMoved DEF IInv
  <2>3. QED
    BY <2>1, <2>2
<1>8. WithinLimit'
  BY DEF IInv, WithinLimit, Rest
<1>9. QED
  BY <1>3, <1>4, <1>5, <1>6, <1>7, <1>8 DEF IInv

-----------------------------------------------------------------------------
(* close(), as a thread in a handler or in send calls it.                  *)
LEMMA MarkType ==
  ASSUME TypeOK, NEW c \in Conns, Mark(c)
  PROVE  closed' \in [Conns -> BOOLEAN]
BY DEF TypeOK, Mark

LEMMA ReturnKeeps ==
  ASSUME IInv, NEW t \in Threads, at[t] \notin {"idle", "release"}, Return(t),
         UNCHANGED <<Rest, pending, ops>>, closed' \in [Conns -> BOOLEAN]
  PROVE  IInv'
<1>1. conn[t] \in Conns /\ back[t] \in Targets(t) /\ back[t] \notin {"issue", "post"}
  BY BackTargets, HasConn DEF IInv
<1>2. Moves(t, conn[t], back[t])
  BY <1>1 DEF Moves, Return
<1>3. QED
  BY <1>1, <1>2, MoveKeeps

LEMMA CallCloseKeeps ==
  ASSUME IInv, NEW t \in Threads, at[t] \notin {"idle", "release"},
         NEW inside \in {"closing", "failing"}, CallClose(t, inside),
         UNCHANGED <<Rest, pending, ops>>
  PROVE  IInv'
<1>1. conn[t] \in Conns
  BY HasConn DEF IInv
<1>2. closed' \in [Conns -> BOOLEAN]
  BY <1>1, MarkType DEF IInv, CallClose
<1>3. CASE Return(t)
  BY <1>2, <1>3, ReturnKeeps
<1>4. CASE Go(t, inside)
  <2>1. Moves(t, conn[t], inside)
    BY <1>1, <1>4 DEF Moves, Targets
  <2>2. inside # "issue"
    OBVIOUS
  <2>3. QED
    BY <1>1, <1>2, <2>1, <2>2, MoveKeeps
<1>5. QED
  BY <1>3, <1>4 DEF CallClose

LEMMA CloseReturnsKeeps ==
  ASSUME IInv, NEW t \in Threads, CloseReturns(t)
  PROVE  IInv'
<1>1. /\ at[t] \notin {"idle", "release"} /\ Return(t)
      /\ UNCHANGED <<Rest, closed, pending, ops>>
  BY DEF CloseReturns, Rest, adoption, closing, lanes, sweeper
<1>2. closed' \in [Conns -> BOOLEAN]
  BY <1>1 DEF IInv, TypeOK
<1>3. QED
  BY <1>1, <1>2, ReturnKeeps

(* The handlers.                                                           *)
LEMMA OnReceiveKeeps ==
  ASSUME IInv, NEW w \in Workers, OnReceive(w)
  PROVE  IInv'
<1>1. /\ w \in Threads /\ w \notin Services
      /\ at[w] = "on_receive" /\ UNCHANGED <<Rest, pending, ops>>
  BY LifetimeAssumption DEF OnReceive, Threads, Rest, adoption, lanes, sweeper
<1>2. CASE CallClose(w, "closing")
  BY <1>1, <1>2, CallCloseKeeps
<1>3. ASSUME NEW pos \in {"append", "release", "post"}, Go(w, pos), UNCHANGED closed
      PROVE  IInv'
  <2>1. conn[w] \in Conns /\ closed' \in [Conns -> BOOLEAN]
    BY <1>1, <1>3, HasConn DEF IInv, TypeOK
  <2>2. Moves(w, conn[w], pos) /\ pos # "issue"
    BY <1>1, <1>3, <2>1 DEF Moves, Targets, IInv, ThreadsHold
  <2>3. QED
    BY <1>1, <2>1, <2>2, MoveKeeps
<1>4. QED
  BY <1>2, <1>3 DEF OnReceive

LEMMA PostReceiveKeeps ==
  ASSUME IInv, NEW w \in Workers, PostReceive(w)
  PROVE  IInv'
<1>1. /\ w \in Threads /\ w \notin Services /\ at[w] = "post" /\ UNCHANGED Rest
  BY LifetimeAssumption DEF PostReceive, Threads, Rest, adoption, lanes, sweeper
<1>2. CASE CallClose(w, "closing") /\ UNCHANGED <<pending, ops>>
  BY <1>1, <1>2, CallCloseKeeps
<1>3. CASE Issue(conn[w], "receive", "kernel") /\ Go(w, "release") /\ UNCHANGED closed
  <2>1. conn[w] \in Conns
    BY <1>1, HasConn DEF IInv
  <2>2. Moves(w, conn[w], "release")
    BY <1>1, <1>3, <2>1 DEF Moves, Targets
  <2>3. Receiving(w, conn[w]) /\ ops[conn[w]]["receive"] = "none"
    <3>1. back[w] = "on_receive"
      BY <1>1 DEF IInv, ThreadsHold
    <3>2. QED
      BY <1>1, <2>1, <3>1 DEF IInv, Receiving, OneReceive
  <2>4. "receive" \in Ops /\ "kernel" \in States /\ "kernel" # "none" /\ "release" # "issue"
    BY DEF Ops, KernelOps, States
  <2>5. QED
    BY <1>1, <1>3, <2>1, <2>2, <2>3, <2>4, IssueKeeps
<1>4. QED
  BY <1>2, <1>3 DEF PostReceive

(* post_send_locked: who goes on to issue is the only one who sends, since *)
(* it holds send_mutex_ and no send is under way.                          *)
LEMMA OnlySender ==
  ASSUME ThreadsHold, NEW t \in Threads, NEW c \in Conns, conn[t] = c, ~Locked(c), ~Sending(c)
  PROVE  /\ ops[c]["send"] = "none"
         /\ \A u \in Threads : SendingBy(u, c) => u = t
<1>1. /\ ops[c]["send"] = "none"
      /\ \A w \in Workers : ~(conn[w] = c /\ at[w] = "on_send")
  BY DEF Sending, Underway, Handler
<1>2. \A u \in Threads : ~(conn[u] = c /\ at[u] = "issue")
  BY DEF Locked
<1>3. \A s \in Services : at[s] # "on_send"
  BY DEF ThreadsHold
<1>4. QED
  BY <1>1, <1>2, <1>3 DEF SendingBy, Threads

LEMMA PostSendLockedKeeps ==
  ASSUME IInv, NEW t \in Threads, at[t] \notin {"idle", "release"},
         NEW sending \in BOOLEAN, PostSendLocked(t, sending),
         UNCHANGED <<Rest, closed, pending, ops>>,
         ~sending => /\ ops[conn[t]]["send"] = "none"
                     /\ \A u \in Threads : SendingBy(u, conn[t]) => u = t
  PROVE  IInv'
<1>1. conn[t] \in Conns /\ closed' \in [Conns -> BOOLEAN]
  BY HasConn DEF IInv, TypeOK
<1>2. CASE Return(t)
  BY <1>1, <1>2, ReturnKeeps
<1>3. CASE ~sending /\ Go(t, "issue")
  <2>1. Moves(t, conn[t], "issue")
    BY <1>1, <1>3 DEF Moves, Targets
  <2>2. QED
    BY <1>1, <1>3, <2>1, MoveKeeps
<1>4. QED
  BY <1>2, <1>3 DEF PostSendLocked

LEMMA OnFlushKeeps ==
  ASSUME IInv, NEW w \in Workers, OnFlush(w)
  PROVE  IInv'
<1>1. /\ w \in Threads /\ at[w] \notin {"idle", "release"} /\ ~Locked(conn[w])
      /\ PostSendLocked(w, Sending(conn[w])) /\ Sending(conn[w]) \in BOOLEAN
      /\ UNCHANGED <<Rest, closed, pending, ops>>
  BY DEF OnFlush, Threads, Rest, adoption, closing, lanes, sweeper, Sending, Underway
<1>2. conn[w] \in Conns
  BY <1>1, HasConn DEF IInv
<1>3. ~Sending(conn[w]) => /\ ops[conn[w]]["send"] = "none"
                           /\ \A u \in Threads : SendingBy(u, conn[w]) => u = w
  BY <1>1, <1>2, OnlySender DEF IInv
<1>4. QED
  BY <1>1, <1>3, PostSendLockedKeeps

LEMMA OnSendKeeps ==
  ASSUME IInv, NEW w \in Workers, OnSend(w)
  PROVE  IInv'
<1>1. /\ w \in Threads /\ w \notin Services /\ at[w] = "on_send"
      /\ PostSendLocked(w, FALSE) \/ Go(w, "failed")
      /\ UNCHANGED <<Rest, closed, pending, ops>>
  BY LifetimeAssumption DEF OnSend, Threads, Rest, adoption, closing, lanes, sweeper
<1>2. conn[w] \in Conns /\ closed' \in [Conns -> BOOLEAN]
  BY <1>1, HasConn DEF IInv, TypeOK
<1>3. /\ ops[conn[w]]["send"] = "none"
      /\ \A u \in Threads : SendingBy(u, conn[w]) => u = w
  BY <1>1, <1>2 DEF IInv, OneSend, SendingBy
<1>4. CASE PostSendLocked(w, FALSE)
  BY <1>1, <1>3, <1>4, PostSendLockedKeeps
<1>5. CASE Go(w, "failed")
  <2>1. Moves(w, conn[w], "failed") /\ "failed" # "issue"
    BY <1>1, <1>2, <1>5 DEF Moves, Targets
  <2>2. QED
    BY <1>1, <1>2, <2>1, MoveKeeps
<1>6. QED
  BY <1>1, <1>4, <1>5

LEMMA OnSendFailedKeeps ==
  ASSUME IInv, NEW w \in Workers, OnSendFailed(w)
  PROVE  IInv'
<1>1. /\ w \in Threads /\ at[w] \notin {"idle", "release"} /\ CallClose(w, "closing")
      /\ UNCHANGED <<Rest, pending, ops>>
  BY DEF OnSendFailed, Threads, Rest, adoption, lanes, sweeper
<1>2. QED
  BY <1>1, CallCloseKeeps

LEMMA SendOverflowsKeeps ==
  ASSUME IInv, NEW t \in Threads, SendOverflows(t)
  PROVE  IInv'
<1>1. /\ at[t] \notin {"idle", "release"} /\ CallClose(t, "closing")
      /\ UNCHANGED <<Rest, pending, ops>>
  BY DEF SendOverflows, Rest, adoption, lanes, sweeper
<1>2. QED
  BY <1>1, CallCloseKeeps

(* A thread that issues and returns.                                       *)
LEMMA IssueReturnKeeps ==
  ASSUME IInv, NEW t \in Threads, at[t] \notin {"idle", "release"}, Return(t),
         NEW k \in Ops, k # "receive", NEW to \in States, to # "none",
         Issue(conn[t], k, to), ops[conn[t]][k] = "none",
         UNCHANGED <<Rest, closed>>,
         k = "send" => SendingBy(t, conn[t])
  PROVE  IInv'
<1>1. conn[t] \in Conns /\ back[t] \in Targets(t) /\ back[t] \notin {"issue", "post"}
  BY BackTargets, HasConn DEF IInv
<1>2. Moves(t, conn[t], back[t])
  BY <1>1 DEF Moves, Return
<1>3. QED
  BY <1>1, <1>2, IssueKeeps

LEMMA IssueSendKeeps ==
  ASSUME IInv, NEW t \in Threads, IssueSend(t)
  PROVE  IInv'
<1>1. at[t] = "issue" /\ UNCHANGED Rest
  BY DEF IssueSend, Rest, adoption, lanes, sweeper
<1>2. CASE CallClose(t, "failing") /\ UNCHANGED <<pending, ops>>
  BY <1>1, <1>2, CallCloseKeeps
<1>3. CASE Issue(conn[t], "send", "kernel") /\ Return(t) /\ UNCHANGED closed
  <2>1. conn[t] \in Conns
    BY <1>1, HasConn DEF IInv
  <2>2. SendingBy(t, conn[t]) /\ ops[conn[t]]["send"] = "none"
    BY <1>1, <2>1 DEF IInv, OneSend, SendingBy
  <2>3. "send" \in Ops /\ "kernel" \in States /\ "kernel" # "none" /\ "send" # "receive"
    BY DEF Ops, KernelOps, States
  <2>4. QED
    BY <1>1, <1>3, <2>2, <2>3, IssueReturnKeeps
<1>4. QED
  BY <1>2, <1>3 DEF IssueSend

LEMMA SendAppendKeeps ==
  ASSUME IInv, NEW t \in Threads, SendAppend(t)
  PROVE  IInv'
<1>1. /\ at[t] \notin {"idle", "release"} /\ ~Locked(conn[t])
      /\ UNCHANGED <<Rest, closed>> /\ Sending(conn[t]) \in BOOLEAN
  BY DEF SendAppend, Rest, adoption, closing, lanes, sweeper, Sending, Underway
<1>2. conn[t] \in Conns /\ closed' \in [Conns -> BOOLEAN]
  BY <1>1, HasConn DEF IInv, TypeOK
<1>3. CASE Return(t) /\ UNCHANGED <<ops, pending>>
  BY <1>1, <1>2, <1>3, ReturnKeeps
<1>4. CASE ~FlushQueued(conn[t]) /\ Issue(conn[t], "flush", "port") /\ Return(t)
  <2>1. ops[conn[t]]["flush"] = "none"
    BY <1>4 DEF FlushQueued, Underway
  <2>2. /\ "flush" \in Ops /\ "port" \in States /\ "port" # "none"
        /\ "flush" # "receive" /\ "flush" # "send"
    BY DEF Ops, KernelOps, States
  <2>3. QED
    BY <1>1, <1>4, <2>1, <2>2, IssueReturnKeeps
<1>5. CASE PostSendLocked(t, Sending(conn[t])) /\ UNCHANGED <<ops, pending>>
  <2>1. ~Sending(conn[t]) => /\ ops[conn[t]]["send"] = "none"
                             /\ \A u \in Threads : SendingBy(u, conn[t]) => u = t
    BY <1>1, <1>2, OnlySender DEF IInv
  <2>2. QED
    BY <1>1, <1>5, <2>1, PostSendLockedKeeps
<1>6. QED
  BY <1>3, <1>4, <1>5 DEF SendAppend

-----------------------------------------------------------------------------
(* The kernel finishes an operation, or its notification is dropped: it is *)
(* still one that was not handed to a worker.                              *)
LEMMA OpsMoveKeeps ==
  ASSUME IInv, NEW c \in Conns, NEW k \in Ops, NEW to \in States, to # "none",
         ops[c][k] # "none", ops' = [ops EXCEPT ![c][k] = to],
         UNCHANGED <<stage, registered, told, closed, shut, ended, overtaken, pending,
                     queue, session, at, conn, back, expired, sweeping>>
  PROVE  IInv'
<1>1. /\ ops' \in [Conns -> [Ops -> States]] /\ ops'[c][k] = to
      /\ \A d \in Conns, j \in Ops : d # c \/ j # k => ops'[d][j] = ops[d][j]
  BY DEF IInv, TypeOK, States
<1>2. \A d \in Conns, j \in Ops : ops[d][j] = "none" <=> ops'[d][j] = "none"
  BY <1>1
<1>3. TypeOK' /\ ThreadsHold' /\ WithinLimit'
  BY <1>1 DEF IInv, TypeOK, ThreadsHold, WithinLimit, States
<1>4. OneReceive' /\ OneSend'
  BY <1>2 DEF IInv, OneReceive, OneSend, Receiving, SendingBy, Ops, KernelOps
<1>5. PendingExact'
  BY CountsKernelDone DEF IInv
<1>6. QED
  BY <1>3, <1>4, <1>5 DEF IInv

LEMMA KernelDoneKeeps ==
  ASSUME IInv, NEW c \in Conns, NEW k \in Ops, KernelDone(c, k)
  PROVE  IInv'
<1>1. /\ ops[c][k] # "none" /\ ops' = [ops EXCEPT ![c][k] = "port"]
      /\ UNCHANGED <<stage, registered, told, closed, shut, ended, overtaken, pending,
                     queue, session, at, conn, back, expired, sweeping>>
  BY DEF KernelDone, adoption, closing, lanes, threads, sweeper
<1>2. "port" \in States /\ "port" # "none"
  BY DEF States
<1>3. QED
  BY <1>1, <1>2, OpsMoveKeeps

(* A worker takes an operation from the port and gives its connection back.*)
LEMMA DispatchKeeps ==
  ASSUME IInv, NEW w \in Workers, NEW c \in Conns, NEW k \in Ops, Dispatch(w, c, k)
  PROVE  IInv'
<1>1. /\ at[w] = "idle" /\ conn[w] = NoConn /\ ops[c][k] = "port" /\ ops[c][k] # "none"
      /\ w \in Threads /\ w \notin Services /\ c # NoConn
      /\ UNCHANGED <<stage, registered, told, closed, shut, ended, overtaken, pending,
                     queue, session, expired, sweeping>>
  BY LifetimeAssumption DEF Dispatch, Threads, IInv, ThreadsHold, adoption, closing, lanes, sweeper
<1>2. \A d \in Conns, v \in Workers : Receiving(v, d) => d # c \/ k # "receive"
  BY <1>1 DEF IInv, OneReceive
<1>3. \A d \in Conns, u \in Threads : SendingBy(u, d) => d # c \/ k # "send"
  BY <1>1 DEF IInv, OneSend
<1>4. k = "receive" => stage[c] = "started"
  BY <1>1 DEF IInv, OneReceive
<1>5. CASE /\ ops' = [ops EXCEPT ![c][k] = "none"]
           /\ at' = [at EXCEPT ![w] = Handler(k)]
           /\ conn' = [conn EXCEPT ![w] = c]
           /\ back' = [back EXCEPT ![w] = IF k = "receive" THEN "on_receive" ELSE "release"]
  <2>1. /\ ops' \in [Conns -> [Ops -> States]] /\ ops'[c][k] = "none"
        /\ \A d \in Conns, j \in Ops : d # c \/ j # k => ops'[d][j] = ops[d][j]
    BY <1>5 DEF IInv, TypeOK, States
  <2>2. /\ Handler(k) \in {"on_receive", "on_send", "on_flush"}
        /\ Handler(k) = "on_receive" <=> k = "receive"
        /\ Handler(k) = "on_send" <=> k = "send"
    BY DEF Handler, Ops, KernelOps
  <2>3. /\ at' \in [Threads -> Positions] /\ conn' \in [Threads -> Conns \union {NoConn}]
        /\ back' \in [Threads -> {"idle", "on_receive", "release"}]
        /\ at'[w] = Handler(k) /\ conn'[w] = c
        /\ back'[w] = IF k = "receive" THEN "on_receive" ELSE "release"
        /\ \A u \in Threads : u # w => at'[u] = at[u] /\ conn'[u] = conn[u] /\ back'[u] = back[u]
    BY <1>1, <1>5, <2>2 DEF IInv, TypeOK, Positions
  <2>4. TypeOK'
    BY <1>1, <2>1, <2>3 DEF IInv, TypeOK, States
  <2>5. ThreadsHold'
    BY <1>1, <2>2, <2>3 DEF IInv, ThreadsHold, Threads
  <2>6. PendingExact'
    BY <1>1, <1>5, CountsDispatch DEF IInv
  <2>7. OneReceive'
    <3>1. \A d \in Conns, v \in Workers : v # w => (Receiving(v, d)' <=> Receiving(v, d))
      BY <2>3 DEF Receiving, Threads
    <3>2. \A d \in Conns : Receiving(w, d)' => d = c /\ k = "receive"
      BY <2>3 DEF Receiving
    <3>3. \A d \in Conns : ops'[d]["receive"] = ops[d]["receive"] \/ ops'[d]["receive"] = "none"
      BY <2>1 DEF Ops, KernelOps
    <3>4. k = "receive" => ops'[c]["receive"] = "none"
      BY <2>1
    <3>5. ASSUME NEW d \in Conns, NEW v \in Workers, Receiving(v, d)'
          PROVE  /\ stage[d] = "started" /\ ops'[d]["receive"] = "none"
                 /\ \A u \in Workers : Receiving(u, d)' => u = v
      <4>1. CASE v = w
        BY <1>2, <1>4, <3>1, <3>2, <3>4, <3>5, <4>1
      <4>2. CASE v # w
        <5>1. Receiving(v, d)
          BY <3>1, <3>5, <4>2
        <5>2. ~Receiving(w, d)'
          BY <1>2, <3>2, <5>1
        <5>3. QED
          BY <3>1, <3>3, <5>1, <5>2 DEF IInv, OneReceive
      <4>3. QED
        BY <4>1, <4>2
    <3>6. \A d \in Conns : stage[d] # "started" => ops'[d]["receive"] = "none"
      BY <3>3 DEF IInv, OneReceive
    <3>7. QED
      BY <1>1, <3>5, <3>6 DEF OneReceive
  <2>8. OneSend'
    <3>1. \A d \in Conns, u \in Threads : u # w => (SendingBy(u, d)' <=> SendingBy(u, d))
      BY <2>3 DEF SendingBy
    <3>2. \A d \in Conns : SendingBy(w, d)' => d = c /\ k = "send"
      BY <2>2, <2>3 DEF SendingBy
    <3>3. \A d \in Conns : ops'[d]["send"] = ops[d]["send"] \/ ops'[d]["send"] = "none"
      BY <2>1 DEF Ops, KernelOps
    <3>4. k = "send" => ops'[c]["send"] = "none"
      BY <2>1
    <3>5. ASSUME NEW d \in Conns, NEW v \in Threads, SendingBy(v, d)'
          PROVE  /\ ops'[d]["send"] = "none"
                 /\ \A u \in Threads : SendingBy(u, d)' => u = v
      <4>1. CASE v = w
        BY <1>3, <3>1, <3>2, <3>4, <3>5, <4>1
      <4>2. CASE v # w
        <5>1. SendingBy(v, d)
          BY <3>1, <3>5, <4>2
        <5>2. ~SendingBy(w, d)'
          BY <1>3, <3>2, <5>1
        <5>3. QED
          BY <3>1, <3>3, <5>1, <5>2 DEF IInv, OneSend
      <4>3. QED
        BY <4>1, <4>2
    <3>6. QED
      BY <3>5 DEF OneSend
  <2>9. WithinLimit'
    BY <1>1 DEF IInv, WithinLimit
  <2>10. QED
    BY <2>4, <2>5, <2>6, <2>7, <2>8, <2>9 DEF IInv
<1>6. CASE ops' = [ops EXCEPT ![c][k] = "lost"] /\ UNCHANGED threads
  <2>1. /\ ops' \in [Conns -> [Ops -> States]] /\ ops'[c][k] = "lost"
        /\ \A d \in Conns, j \in Ops : d # c \/ j # k => ops'[d][j] = ops[d][j]
    BY <1>6 DEF IInv, TypeOK, States
  <2>2. QED
    BY <1>1, <1>6, <2>1, OpsMoveKeeps DEF threads, States
<1>7. QED
  BY <1>5, <1>6 DEF Dispatch

LEMMA ReleaseKeeps ==
  ASSUME IInv, NEW w \in Workers, Release(w)
  PROVE  IInv'
<1>1. w \in Threads /\ w \notin Services /\ conn[w] \in Conns
  BY LifetimeAssumption, HasConn DEF IInv, Release, Threads
<1>2. PICK c \in Conns : conn[w] = c
  BY <1>1
<1>3. /\ at' = [at EXCEPT ![w] = "idle"] /\ conn' = [conn EXCEPT ![w] = NoConn]
      /\ back' = [back EXCEPT ![w] = "idle"] /\ pending' = [pending EXCEPT ![c] = pending[c] - 1]
      /\ UNCHANGED <<stage, registered, told, closed, shut, ended, overtaken, ops,
                     queue, session, expired, sweeping>>
  BY <1>2 DEF Release, Released, adoption, closing, lanes, sweeper
<1>4. PendingExact' /\ pending' \in [Conns -> Nat]
  BY <1>2, <1>3, CountsRelease DEF IInv
<1>5. /\ at' \in [Threads -> Positions] /\ conn' \in [Threads -> Conns \union {NoConn}]
      /\ back' \in [Threads -> {"idle", "on_receive", "release"}]
      /\ at'[w] = "idle" /\ conn'[w] = NoConn /\ back'[w] = "idle"
      /\ \A u \in Threads : u # w => at'[u] = at[u] /\ conn'[u] = conn[u] /\ back'[u] = back[u]
  BY <1>1, <1>3 DEF IInv, TypeOK, Positions
<1>6. TypeOK'
  BY <1>3, <1>4, <1>5 DEF IInv, TypeOK
<1>7. ThreadsHold'
  BY <1>1, <1>5 DEF IInv, ThreadsHold, Threads
<1>8. OneReceive'
  <2>1. \A d \in Conns, v \in Workers : Receiving(v, d)' => Receiving(v, d)
    BY <1>5, LifetimeAssumption DEF Receiving, Threads
  <2>2. QED
    BY <1>3, <2>1 DEF IInv, OneReceive
<1>9. OneSend'
  <2>1. \A d \in Conns, u \in Threads : SendingBy(u, d)' => SendingBy(u, d)
    BY <1>5 DEF SendingBy
  <2>2. QED
    BY <1>3, <2>1 DEF IInv, OneSend
<1>10. WithinLimit'
  BY <1>3 DEF IInv, WithinLimit
<1>11. QED
  BY <1>4, <1>6, <1>7, <1>8, <1>9, <1>10 DEF IInv

(* A service enters send for one of its sessions.                          *)
LEMMA SendEnterKeeps ==
  ASSUME IInv, NEW s \in Services, NEW c \in Conns, SendEnter(s, c)
  PROVE  IInv'
<1>1. /\ s \in Threads /\ s \notin Workers /\ c # NoConn /\ at[s] = "idle"
      /\ at' = [at EXCEPT ![s] = "append"] /\ conn' = [conn EXCEPT ![s] = c]
      /\ UNCHANGED <<back, stage, registered, told, closed, shut, ended, overtaken, pending,
                     ops, queue, session, expired, sweeping>>
  BY LifetimeAssumption DEF SendEnter, Threads, adoption, closing, lanes, sweeper
<1>2. /\ at' \in [Threads -> Positions] /\ conn' \in [Threads -> Conns \union {NoConn}]
      /\ at'[s] = "append" /\ conn'[s] = c
      /\ \A u \in Threads : u # s => at'[u] = at[u] /\ conn'[u] = conn[u]
  BY <1>1 DEF IInv, TypeOK, Positions
<1>3. TypeOK'
  BY <1>1, <1>2 DEF IInv, TypeOK
<1>4. ThreadsHold'
  BY <1>1, <1>2 DEF IInv, ThreadsHold, Threads
<1>5. \A w \in Workers : conn'[w] = conn[w] /\ at'[w] = at[w]
  BY <1>1, <1>2 DEF Threads
<1>6. OneReceive'
  BY <1>1, <1>5 DEF IInv, OneReceive, Receiving
<1>7. OneSend'
  <2>1. \A d \in Conns, u \in Threads : SendingBy(u, d)' => SendingBy(u, d)
    BY <1>2 DEF SendingBy
  <2>2. QED
    BY <1>1, <2>1 DEF IInv, OneSend
<1>8. PendingExact'
  <2>1. \A d \in Conns : WorkersOf(d)' = WorkersOf(d)
    BY <1>5 DEF WorkersOf
  <2>2. QED
    BY <1>1, <2>1, CountsMove DEF IInv
<1>9. WithinLimit'
  BY <1>1 DEF IInv, WithinLimit
<1>10. QED
  BY <1>3, <1>4, <1>6, <1>7, <1>8, <1>9 DEF IInv

-----------------------------------------------------------------------------
(* adopt.                                                                  *)
LEMMA MakeKeeps ==
  ASSUME IInv, NEW c \in Conns, Make(c)
  PROVE  IInv'
<1>1. TypeOK' /\ \A d \in Conns : stage'[d] = "started" <=> stage[d] = "started"
  BY DEF IInv, Make, TypeOK, closing, lanes, threads, sweeper
<1>2. QED
  BY <1>1, QuietKeeps DEF Make, threads

LEMMA StartKeeps ==
  ASSUME IInv, NEW c \in Conns, Start(c) \/ StartFails(c)
  PROVE  IInv'
<1>1. /\ stage[c] # "started"
      /\ \E to \in {"starting", "failed"} : stage' = [stage EXCEPT ![c] = to]
      /\ UNCHANGED <<registered, told, closing, pending, ops, lanes, threads, sweeper>>
  BY DEF Start, StartFails
<1>2. TypeOK' /\ \A d \in Conns : stage'[d] = "started" <=> stage[d] = "started"
  BY <1>1 DEF IInv, TypeOK, closing, lanes, threads, sweeper
<1>3. QED
  BY <1>1, <1>2, QuietKeeps DEF threads

(* The registry changes, or a stage that is not the service.               *)
LEMMA RegistryKeeps ==
  ASSUME IInv, WithinLimit', registered' \in SUBSET Conns, NEW c \in Conns,
         NEW to \in {"registered", "refused", "erased"}, stage[c] # "started",
         stage' = [stage EXCEPT ![c] = to],
         UNCHANGED <<told, closing, pending, ops, lanes, threads, sweeper>>
  PROVE  IInv'
<1>1. TypeOK' /\ \A d \in Conns : stage'[d] = "started" <=> stage[d] = "started"
  BY DEF IInv, TypeOK, closing, lanes, threads, sweeper
<1>2. ThreadsHold' /\ PendingExact'
  BY CountsSame DEF IInv, ThreadsHold, threads
<1>3. OneReceive' /\ OneSend'
  BY <1>1 DEF IInv, OneReceive, OneSend, Receiving, SendingBy, threads
<1>4. QED
  BY <1>1, <1>2, <1>3 DEF IInv

LEMMA RegisterKeeps ==
  ASSUME IInv, NEW c \in Conns, Register(c)
  PROVE  IInv'
<1>1. /\ stage[c] # "started"
      /\ UNCHANGED <<told, closing, pending, ops, lanes, threads, sweeper>>
      /\ TypeOK /\ WithinLimit
  BY DEF IInv, Register
<1>2. CASE /\ HasSlot /\ registered' = registered \union {c}
           /\ stage' = [stage EXCEPT ![c] = "registered"]
  <2>1. registered' \in SUBSET Conns
    BY <1>1, <1>2 DEF TypeOK
  <2>2. WithinLimit'
    BY <1>1, <1>2, LimitJoin
  <2>3. QED
    BY <1>1, <1>2, <2>1, <2>2, RegistryKeeps
<1>3. CASE stage' = [stage EXCEPT ![c] = "refused"] /\ UNCHANGED registered
  <2>1. registered' \in SUBSET Conns /\ WithinLimit'
    BY <1>1, <1>3 DEF TypeOK, WithinLimit
  <2>2. QED
    BY <1>1, <1>3, <2>1, RegistryKeeps
<1>4. QED
  BY <1>2, <1>3 DEF Register

LEMMA EraseFailedKeeps ==
  ASSUME IInv, NEW c \in Conns, EraseFailed(c)
  PROVE  IInv'
<1>1. /\ stage[c] # "started" /\ stage' = [stage EXCEPT ![c] = "erased"]
      /\ registered' = registered \ {c}
      /\ UNCHANGED <<told, closing, pending, ops, lanes, threads, sweeper>>
  BY DEF EraseFailed
<1>2. registered' \in SUBSET Conns /\ WithinLimit'
  BY <1>1, LimitLeave DEF IInv, TypeOK
<1>3. QED
  BY <1>1, <1>2, RegistryKeeps

(* The first receive is the only one: there was none before start.         *)
LEMMA FirstReceiveKeeps ==
  ASSUME IInv, NEW c \in Conns, FirstReceive(c)
  PROVE  IInv'
<1>1. /\ stage[c] = "starting"
      /\ UNCHANGED <<registered, told, shut, ended, overtaken, queue, session, at, conn, back,
                     expired, sweeping>>
  BY DEF FirstReceive, lanes, threads, sweeper
<1>2. /\ ops[c]["receive"] = "none"
      /\ \A w \in Workers : ~Receiving(w, c)
  BY <1>1 DEF IInv, OneReceive
<1>3. ThreadsHold' /\ WithinLimit'
  BY <1>1 DEF IInv, ThreadsHold, WithinLimit
<1>4. \A d \in Conns, w \in Workers : Receiving(w, d)' <=> Receiving(w, d)
  BY <1>1 DEF Receiving
<1>5. \A d \in Conns, u \in Threads : SendingBy(u, d)' <=> SendingBy(u, d)
  BY <1>1 DEF SendingBy
<1>6. \A d \in Conns : WorkersOf(d)' = WorkersOf(d)
  BY <1>1 DEF WorkersOf
<1>7. CASE Issue(c, "receive", "kernel") /\ stage' = [stage EXCEPT ![c] = "started"] /\ closed' = closed
  <2>1. "receive" \in Ops /\ "kernel" \in States /\ "kernel" # "none"
    BY DEF Ops, KernelOps, States
  <2>2. /\ ops' \in [Conns -> [Ops -> States]]
        /\ \A d \in Conns, j \in Ops : d # c \/ j # "receive" => ops'[d][j] = ops[d][j]
    BY <1>7, <2>1, IssueFacts DEF IInv
  <2>3. PendingExact' /\ pending' \in [Conns -> Nat]
    BY <1>2, <1>6, <1>7, <2>1, CountsIssue DEF IInv
  <2>4. TypeOK'
    BY <1>1, <1>7, <2>2, <2>3 DEF IInv, TypeOK, States
  <2>5. stage'[c] = "started" /\ \A d \in Conns : d # c => stage'[d] = stage[d]
    BY <1>7 DEF IInv, TypeOK
  <2>6. OneReceive'
    BY <1>2, <1>4, <2>2, <2>5 DEF IInv, OneReceive, Ops, KernelOps
  <2>7. OneSend'
    BY <1>5, <2>2 DEF IInv, OneSend, Ops, KernelOps
  <2>8. QED
    BY <1>3, <2>3, <2>4, <2>6, <2>7 DEF IInv
<1>8. CASE /\ Mark(c) /\ UNCHANGED <<pending, ops>>
           /\ stage' = [stage EXCEPT ![c] = IF closed[c] THEN "failed" ELSE "closing"]
  <2>1. TypeOK' /\ \A d \in Conns : stage'[d] = "started" <=> stage[d] = "started"
    <3>1. closed' \in [Conns -> BOOLEAN]
      BY <1>8, MarkType DEF IInv
    <3>2. QED
      BY <1>1, <1>8, <3>1 DEF IInv, TypeOK
  <2>2. QED
    BY <1>1, <1>8, <2>1, QuietKeeps
<1>9. QED
  BY <1>7, <1>8 DEF FirstReceive

-----------------------------------------------------------------------------
(* The notices to the services, one after the other.                       *)
LEMMA PostNotice ==
  ASSUME TypeOK, NEW s \in Services, NEW n \in Notices,
         queue' = [queue EXCEPT ![s] = Append(@, n)]
  PROVE  queue' \in [Services -> Seq(Notices)]
<1>1. queue \in [Services -> Seq(Notices)]
  BY DEF TypeOK, Notices
<1>2. Append(queue[s], n) \in Seq(Notices)
  BY <1>1
<1>3. QED
  BY <1>1, <1>2

LEMMA Next1 ==
  ASSUME NEW i \in 0..ServiceCount, i < ServiceCount
  PROVE  i + 1 \in Services /\ i + 1 \in 0..ServiceCount
BY LifetimeAssumption DEF Services

LEMMA PostConnectedKeeps ==
  ASSUME IInv, NEW c \in Conns, PostConnected(c)
  PROVE  IInv'
<1>1. /\ told[c] \in 0..ServiceCount /\ told[c] < ServiceCount
      /\ told' = [told EXCEPT ![c] = told[c] + 1]
      /\ queue' = [queue EXCEPT ![told[c] + 1] = Append(@, Notice(c, "connected"))]
      /\ UNCHANGED <<stage, registered, closing, pending, ops, session, threads, sweeper>>
  BY DEF IInv, TypeOK, PostConnected
<1>2. told[c] + 1 \in Services /\ told[c] + 1 \in 0..ServiceCount
  BY <1>1, Next1
<1>3. Notice(c, "connected") \in Notices
  BY NoticeFacts
<1>4. queue' \in [Services -> Seq(Notices)]
  BY <1>1, <1>2, <1>3, PostNotice DEF IInv
<1>5. TypeOK'
  BY <1>1, <1>2, <1>4 DEF IInv, TypeOK, Notices, closing, threads, sweeper
<1>6. QED
  BY <1>1, <1>5, QuietKeeps DEF threads

LEMMA ClosingKeeps ==
  ASSUME IInv, NEW c \in Conns, Closing(c)
  PROVE  IInv'
<1>1. CASE CloseSocket(c)
  <2>1. TypeOK'
    BY <1>1 DEF CloseSocket, IInv, TypeOK, adoption, lanes, threads, sweeper
  <2>2. QED
    BY <1>1, <2>1, QuietKeeps DEF CloseSocket, adoption, threads
<1>2. CASE PostDisconnected(c)
  <2>1. /\ ended[c] \in 0..ServiceCount /\ ended[c] < ServiceCount
        /\ ended' = [ended EXCEPT ![c] = ended[c] + 1]
        /\ queue' = [queue EXCEPT ![ended[c] + 1] = Append(@, Notice(c, "disconnected"))]
        /\ overtaken' \in SUBSET Conns
        /\ UNCHANGED <<adoption, closed, shut, pending, ops, session, threads, sweeper>>
    BY <1>2 DEF IInv, TypeOK, PostDisconnected
  <2>2. ended[c] + 1 \in Services /\ ended[c] + 1 \in 0..ServiceCount
    BY <2>1, Next1
  <2>3. Notice(c, "disconnected") \in Notices
    BY NoticeFacts
  <2>4. queue' \in [Services -> Seq(Notices)]
    BY <2>1, <2>2, <2>3, PostNotice DEF IInv
  <2>5. TypeOK'
    BY <2>1, <2>2, <2>4 DEF IInv, TypeOK, Notices, adoption, threads, sweeper
  <2>6. QED
    BY <2>1, <2>5, QuietKeeps DEF adoption, threads
<1>3. QED
  BY <1>1, <1>2 DEF Closing

LEMMA TakeNoticeKeeps ==
  ASSUME IInv, NEW s \in Services, TakeNotice(s)
  PROVE  IInv'
<1>1. /\ queue[s] # <<>> /\ queue' = [queue EXCEPT ![s] = Tail(queue[s])]
      /\ session' = [session EXCEPT ![s] = IF Head(queue[s]).kind = "connected"
                                           THEN session[s] \union {Head(queue[s]).conn}
                                           ELSE session[s] \ {Head(queue[s]).conn}]
      /\ UNCHANGED <<adoption, closing, pending, ops, threads, sweeper>>
  BY DEF TakeNotice
<1>2. queue \in [Services -> Seq(Notices)] /\ session \in [Services -> SUBSET Conns]
  BY DEF IInv, TypeOK, Notices
<1>3. Head(queue[s]) \in Notices /\ Tail(queue[s]) \in Seq(Notices)
  BY <1>1, <1>2
<1>4. queue' \in [Services -> Seq(Notices)] /\ session' \in [Services -> SUBSET Conns]
  BY <1>1, <1>2, <1>3 DEF Notices
<1>5. TypeOK'
  BY <1>1, <1>4 DEF IInv, TypeOK, Notices, adoption, closing, threads, sweeper
<1>6. QED
  BY <1>1, <1>5, QuietKeeps DEF adoption, threads

-----------------------------------------------------------------------------
(* The sweeper: what it takes out of the registry is closed, and pending_  *)
(* says that nothing is outstanding.                                       *)
LEMMA SweepReclaimKeeps ==
  ASSUME IInv, NEW c \in Conns, SweepReclaim(c)
  PROVE  IInv' /\ closed[c] /\ ~Outstanding(c)
<1>1. /\ closed[c] /\ pending[c] = 0 /\ registered' = registered \ {c}
      /\ UNCHANGED <<stage, told, closed, shut, ended, overtaken, pending, ops, queue, session,
                     at, conn, back, expired, sweeping>>
  BY DEF SweepReclaim, Reclaimable, closing, lanes, threads, sweeper
<1>2. TypeOK' /\ ThreadsHold'
  BY <1>1 DEF IInv, TypeOK, ThreadsHold
<1>3. OneReceive' /\ OneSend'
  BY <1>1 DEF IInv, OneReceive, OneSend, Receiving, SendingBy
<1>4. PendingExact' /\ WithinLimit'
  BY <1>1, CountsSame, LimitLeave DEF IInv
<1>5. ~Outstanding(c)
  BY <1>1, ZeroMeansNone DEF IInv
<1>6. QED
  BY <1>1, <1>2, <1>3, <1>4, <1>5 DEF IInv

LEMMA SweepQuietKeeps ==
  ASSUME IInv, NEW c \in Conns, SweepExpire(c) \/ SweepClose(c) \/ SweepNext(c)
  PROVE  IInv'
<1>1. /\ closed' \in [Conns -> BOOLEAN] /\ expired' \in SUBSET Conns
      /\ sweeping' \in Conns \union {NoConn}
  BY MarkType DEF IInv, TypeOK, SweepExpire, SweepClose, SweepNext, closing
<1>2. UNCHANGED <<adoption, shut, ended, overtaken, pending, ops, lanes, threads>>
  BY DEF SweepExpire, SweepClose, SweepNext, closing
<1>3. TypeOK'
  BY <1>1, <1>2 DEF IInv, TypeOK, adoption, lanes, threads
<1>4. QED
  BY <1>2, <1>3, QuietKeeps DEF adoption, threads

-----------------------------------------------------------------------------
LEMMA InitIInv == Init => IInv
<1>1. SUFFICES ASSUME Init PROVE IInv
  OBVIOUS
<1>2. TypeOK /\ ThreadsHold
  BY <1>1, LifetimeAssumption DEF Init, TypeOK, ThreadsHold, Positions, Threads
<1>3. OneReceive
  BY <1>1 DEF Init, OneReceive, Receiving, Threads, Ops, KernelOps
<1>4. OneSend
  BY <1>1 DEF Init, OneSend, SendingBy
<1>5. PendingExact
  <2>1. ASSUME NEW c \in Conns PROVE OpsOf(c) = {} /\ WorkersOf(c) = {}
    BY <1>1, LifetimeAssumption DEF Init, OpsOf, WorkersOf, Threads
  <2>2. Cardinality({}) = 0 /\ \A c \in Conns : pending[c] = 0
    BY <1>1, FS_EmptySet DEF Init
  <2>3. 0 = 0 + 0
    OBVIOUS
  <2>4. QED
    BY <2>1, <2>2, <2>3 DEF PendingExact
<1>6. WithinLimit
  BY <1>1, LifetimeAssumption, FS_EmptySet DEF Init, WithinLimit
<1>7. QED
  BY <1>2, <1>3, <1>4, <1>5, <1>6 DEF IInv

LEMMA StutterKeeps == IInv /\ UNCHANGED vars => IInv'
<1>1. SUFFICES ASSUME IInv, UNCHANGED vars PROVE IInv'
  OBVIOUS
<1>2. TypeOK'
  BY <1>1 DEF IInv, vars, adoption, closing, lanes, threads, sweeper, TypeOK
<1>3. QED
  BY <1>1, <1>2, QuietKeeps DEF vars, adoption, threads

(* One step, by who takes it.                                              *)
LEMMA NextIInv == IInv /\ [Next]_vars => IInv'
<1>1. SUFFICES ASSUME IInv, Next PROVE IInv'
  BY StutterKeeps
<1>2. ASSUME NEW c \in Conns, Make(c) \/ Adopting(c) \/ Closing(c) \/ Sweeper(c) \/ SweepExpire(c)
      PROVE  IInv'
  BY <1>1, <1>2, MakeKeeps, RegisterKeeps, PostConnectedKeeps, StartKeeps, FirstReceiveKeeps,
     EraseFailedKeeps, ClosingKeeps, SweepReclaimKeeps, SweepQuietKeeps DEF Adopting, Sweeper
<1>3. ASSUME NEW c \in Conns, NEW k \in Ops, KernelDone(c, k)
      PROVE  IInv'
  BY <1>1, <1>3, KernelDoneKeeps
<1>4. ASSUME NEW w \in Workers, NEW c \in Conns, NEW k \in Ops, Dispatch(w, c, k)
      PROVE  IInv'
  BY <1>1, <1>4, DispatchKeeps
<1>5. ASSUME NEW w \in Workers, Worker(w)
      PROVE  IInv'
  BY <1>1, <1>5, OnReceiveKeeps, PostReceiveKeeps, OnFlushKeeps, OnSendKeeps, OnSendFailedKeeps,
     ReleaseKeeps DEF Worker
<1>6. ASSUME NEW t \in Threads, Sender(t)
      PROVE  IInv'
  BY <1>1, <1>6, SendAppendKeeps, SendOverflowsKeeps, IssueSendKeeps, CloseReturnsKeeps DEF Sender
<1>7. ASSUME NEW s \in Services, TakeNotice(s) \/ \E c \in Conns : SendEnter(s, c)
      PROVE  IInv'
  BY <1>1, <1>7, TakeNoticeKeeps, SendEnterKeeps
<1>8. QED
  BY <1>1, <1>2, <1>3, <1>4, <1>5, <1>6, <1>7 DEF Next

LEMMA Invariance == Spec => []IInv
BY InitIInv, NextIInv, PTL DEF Spec

-----------------------------------------------------------------------------
(* Every reachable state is one the declarations of Connection, IoService  *)
(* and Session allow; pending_ never runs below zero.                      *)
THEOREM TypeCorrect == Spec => []TypeOK
<1>1. IInv => TypeOK
  BY DEF IInv
<1>2. QED
  BY <1>1, Invariance, PTL

(* pending_ counts exactly the operations that refer to the connection by  *)
(* a raw pointer and the handlers on its behalf, whoever issues, completes *)
(* or drops them: what the sweeper's test of it means.                     *)
THEOREM PendingCounts == Spec => []PendingExact
<1>1. IInv => PendingExact
  BY DEF IInv
<1>2. QED
  BY <1>1, Invariance, PTL

(* The sweeper takes a connection out of the registry only when it is      *)
(* closed and nothing is outstanding: no operation in the kernel or on the *)
(* port, no handler at work. Only adopt takes out others, those it could   *)
(* not start.                                                              *)
THEOREM ReclaimsOnlyIdle == Spec => ReclaimedIdle
<1> DEFINE Allowed == \A c \in registered \ registered' :
                        stage[c] = "failed" \/ (closed[c] /\ ~Outstanding(c))
<1>1. ASSUME IInv, Next PROVE Allowed
  <2>1. ASSUME NEW c \in Conns, Sweeper(c) PROVE Allowed
    <3>1. CASE SweepReclaim(c)
      <4>1. registered' = registered \ {c} /\ closed[c] /\ ~Outstanding(c)
        BY <1>1, <3>1, SweepReclaimKeeps DEF SweepReclaim
      <4>2. QED
        BY <4>1
    <3>2. CASE SweepClose(c) \/ SweepNext(c)
      BY <3>2 DEF SweepClose, SweepNext, adoption
    <3>3. QED
      BY <2>1, <3>1, <3>2 DEF Sweeper
  <2>2. ASSUME NEW c \in Conns, Adopting(c) PROVE Allowed
    <3>1. CASE EraseFailed(c)
      BY <3>1 DEF EraseFailed
    <3>2. CASE ~EraseFailed(c)
      BY <2>2, <3>2 DEF Adopting, Register, PostConnected, Start, FirstReceive, StartFails
    <3>3. QED
      BY <3>1, <3>2
  <2>3. ASSUME NEW c \in Conns, Make(c) \/ Closing(c) \/ SweepExpire(c) PROVE Allowed
    BY <2>3 DEF Make, Closing, CloseSocket, PostDisconnected, SweepExpire, adoption
  <2>4. ASSUME NEW c \in Conns, NEW k \in Ops,
               KernelDone(c, k) \/ \E w \in Workers : Dispatch(w, c, k)
        PROVE  Allowed
    BY <2>4 DEF KernelDone, Dispatch, adoption
  <2>5. ASSUME NEW w \in Workers, Worker(w) PROVE Allowed
    BY <2>5 DEF Worker, OnReceive, PostReceive, OnFlush, OnSend, OnSendFailed, Release, adoption
  <2>6. ASSUME NEW t \in Threads, Sender(t) PROVE Allowed
    BY <2>6 DEF Sender, SendAppend, SendOverflows, IssueSend, CloseReturns, adoption
  <2>7. ASSUME NEW s \in Services, TakeNotice(s) \/ \E c \in Conns : SendEnter(s, c) PROVE Allowed
    BY <2>7 DEF TakeNotice, SendEnter, adoption
  <2>8. QED
    BY <1>1, <2>1, <2>2, <2>3, <2>4, <2>5, <2>6, <2>7 DEF Next
<1>2. IInv /\ [Next]_vars => [Allowed]_vars
  BY <1>1
<1> HIDE DEF Allowed
<1>3. Spec => [][Allowed]_vars
  BY <1>2, Invariance, PTL DEF Spec
<1>4. QED
  BY <1>3 DEF ReclaimedIdle, Allowed

(* The registry never exceeds max_connections, with any number of threads  *)
(* in adopt.                                                               *)
THEOREM LimitHolds == Spec => []WithinLimit
<1>1. IInv => WithinLimit
  BY DEF IInv
<1>2. QED
  BY <1>1, Invariance, PTL
=============================================================================
