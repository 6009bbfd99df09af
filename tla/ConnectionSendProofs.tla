------------------------ MODULE ConnectionSendProofs ------------------------
(***************************************************************************)
(* Proofs about ConnectionSend, for any senders, workers, messages and     *)
(* limits: one outstanding send, no stranded bytes, exact accounting, the  *)
(* limit, and that the connection implements OutboundStream's steps.       *)
(***************************************************************************)
EXTENDS ConnectionSend, SequenceTheorems, FiniteSetTheorems, TLAPS

Byte == Messages \X Nat

(* A flush notification is on the port exactly while flush_queued_ is set. *)
FlushExact == flushPackets = IF flushQueued THEN 1 ELSE 0

(* While the connection is open the staging buffer holds bytes only for a  *)
(* running send: a send that fails on the spot leaves them, and closes.    *)
StagingInUse == ~closed /\ ~sending => sendStaging = <<>>

IInv ==
  /\ TypeOK /\ OneOutstandingSend /\ FlushExact /\ StagingInUse
  /\ NoLostFlush /\ PendingCount /\ WithinLimit

(* A socket that is not broken has not failed a send: whatever completion  *)
(* waits moved bytes and says so.                                          *)
NoFailureUnseen ==
  ~broken => \A i \in DOMAIN completions : completions[i].ok /\ completions[i].moved > 0

StreamInv == IInv /\ NoFailureUnseen /\ NothingDropped

-----------------------------------------------------------------------------
(* A message is a sequence of as many bytes as its size, at least one.     *)
LEMMA BytesType ==
  ASSUME NEW m \in Messages
  PROVE  Bytes(m) \in Seq(Byte) /\ Len(Bytes(m)) = Size[m] /\ Size[m] \in Nat \ {0}
<1>1. Size[m] \in Nat \ {0}
  BY SendAssumption
<1>2. Bytes(m) \in [1..Size[m] -> Byte]
  BY <1>1 DEF Bytes, Byte
<1>3. QED
  BY <1>1, <1>2

(* A message put behind the buffer: the buffer is longer by its size.      *)
LEMMA AppendedBuffer ==
  ASSUME NEW b \in Seq(Byte), NEW m \in Messages
  PROVE  /\ b \o Bytes(m) \in Seq(Byte)
         /\ Len(b \o Bytes(m)) = Len(b) + Size[m]
         /\ b \o Bytes(m) # <<>>
<1>1. Bytes(m) \in Seq(Byte) /\ Len(Bytes(m)) = Size[m] /\ Size[m] \in Nat \ {0}
  BY BytesType
<1>2. b \o Bytes(m) \in Seq(Byte) /\ Len(b \o Bytes(m)) = Len(b) + Size[m]
  BY <1>1, ConcatProperties
<1>3. Len(b) \in Nat
  BY LenProperties
<1>4. QED
  BY <1>1, <1>2, <1>3, EmptySeq

(* requeue_unsent puts back exactly what was not sent.                     *)
LEMMA RequeueIsRest ==
  ASSUME NEW b \in Seq(Byte), NEW st \in Seq(Byte), NEW n \in Nat
  PROVE  /\ SubSeq(st, n + 1, Len(st)) \in Seq(Byte)
         /\ RequeueUnsent(b, st, n) = SubSeq(st, n + 1, Len(st)) \o b
         /\ RequeueUnsent(b, st, n) \in Seq(Byte)
         /\ Len(RequeueUnsent(b, st, n)) <= Len(b) + Len(st)
<1>1. Len(st) \in Nat /\ Len(b) \in Nat /\ \A i \in 1..Len(st) : st[i] \in Byte
  BY LenProperties, ElementOfSeq
<1>2. /\ SubSeq(st, n + 1, Len(st)) \in Seq(Byte)
      /\ Len(SubSeq(st, n + 1, Len(st))) <= Len(st)
      /\ Len(SubSeq(st, n + 1, Len(st))) \in Nat
  <2>1. \A i \in (n + 1)..Len(st) : st[i] \in Byte
    BY <1>1
  <2>2. n + 1 \in Int /\ Len(st) \in Int
    BY <1>1
  <2>3. /\ SubSeq(st, n + 1, Len(st)) \in Seq(Byte)
        /\ Len(SubSeq(st, n + 1, Len(st))) = IF n + 1 <= Len(st) THEN Len(st) - (n + 1) + 1 ELSE 0
    BY <2>1, <2>2, SubSeqProperties
  <2>4. QED
    BY <1>1, <2>3
<1>3. CASE n >= Len(st)
  <2>1. SubSeq(st, n + 1, Len(st)) = <<>>
    BY <1>1, <1>3, SubSeqEmpty
  <2>2. RequeueUnsent(b, st, n) = b
    BY <1>3 DEF RequeueUnsent
  <2>3. <<>> \o b = b
    BY ConcatEmptySeq
  <2>4. RequeueUnsent(b, st, n) = SubSeq(st, n + 1, Len(st)) \o b
    BY <2>1, <2>2, <2>3, Zenon
  <2>5. RequeueUnsent(b, st, n) \in Seq(Byte)
    BY <2>2
  <2>6. Len(RequeueUnsent(b, st, n)) <= Len(b) + Len(st)
    BY <1>1, <2>2
  <2>7. QED
    BY <1>2, <2>4, <2>5, <2>6, Zenon
<1>4. CASE ~(n >= Len(st))
  <2>1. RequeueUnsent(b, st, n) = SubSeq(st, n + 1, Len(st)) \o b
    BY <1>4 DEF RequeueUnsent
  <2>2. /\ SubSeq(st, n + 1, Len(st)) \o b \in Seq(Byte)
        /\ Len(SubSeq(st, n + 1, Len(st)) \o b) = Len(SubSeq(st, n + 1, Len(st))) + Len(b)
    BY <1>2, ConcatProperties
  <2>3. QED
    BY <1>1, <1>2, <2>1, <2>2
<1>5. QED
  BY <1>3, <1>4

(* What post_send_locked may do, whatever it is entered with.              *)
LEMMA PostSendFacts ==
  ASSUME NEW b \in Seq(Byte), NEW st \in Seq(Byte), NEW busy \in BOOLEAN, NEW n \in Nat,
         closed \in BOOLEAN, issued \in Nat, PostSendLocked(b, st, busy, n)
  PROVE  /\ sendPending' \in Seq(Byte) /\ sendStaging' \in Seq(Byte)
         /\ sending' \in BOOLEAN /\ closed' \in BOOLEAN
         /\ pending' \in Nat /\ issued' \in Nat
         /\ \/ issued' = issued /\ pending' = n /\ (sending' <=> busy)
            \/ issued' = issued + 1 /\ pending' = n + 1 /\ ~busy /\ sending'
         /\ closed => closed'
         /\ busy \/ closed => sendPending' = b /\ sendStaging' = st /\ sending' = busy /\ closed' = closed
         /\ ~closed' /\ sendPending' # <<>> => sending'
         /\ ~closed' /\ ~sending' => sendPending' = b /\ b = <<>> /\ sendStaging' = st
         /\ ~closed' /\ ~busy /\ sending' => sendPending' = <<>> /\ sendStaging' = b
         /\ Len(sendPending') + Len(sendStaging') <= Len(b) + Len(st)
<1>1. Len(b) \in Nat /\ Len(st) \in Nat /\ <<>> \in Seq(Byte) /\ Len(<<>>) = 0
  BY LenProperties, EmptySeq
<1>2. CASE /\ NothingToIssue(b, busy)
           /\ sendPending' = b /\ sendStaging' = st /\ sending' = busy
           /\ pending' = n /\ issued' = issued /\ closed' = closed
  BY <1>1, <1>2 DEF NothingToIssue
<1>3. CASE /\ ~NothingToIssue(b, busy)
           /\ sendPending' = <<>> /\ sendStaging' = b /\ sending' = TRUE
           /\ pending' = n + 1 /\ issued' = issued + 1 /\ closed' = closed
  <2>1. /\ sendPending' \in Seq(Byte) /\ sendStaging' \in Seq(Byte)
        /\ Len(sendPending') + Len(sendStaging') <= Len(b) + Len(st)
    BY <1>1, <1>3
  <2>2. /\ pending' \in Nat /\ issued' \in Nat
        /\ pending' = n + 1 /\ issued' = issued + 1
    BY <1>3
  <2>3. sending' /\ sending' \in BOOLEAN /\ closed' \in BOOLEAN /\ ~busy /\ ~closed
    BY <1>3 DEF NothingToIssue
  <2>4. sendPending' = <<>> /\ sendStaging' = b
    BY <1>3
  <2>5. QED
    BY <2>1, <2>2, <2>3, <2>4, Zenon
<1>4. CASE /\ ~NothingToIssue(b, busy)
           /\ sendPending' = <<>> /\ sendStaging' = b /\ sending' = FALSE
           /\ pending' = n /\ issued' = issued /\ closed' = TRUE
  <2>1. /\ sendPending' \in Seq(Byte) /\ sendStaging' \in Seq(Byte)
        /\ Len(sendPending') + Len(sendStaging') <= Len(b) + Len(st)
    BY <1>1, <1>4
  <2>2. /\ pending' \in Nat /\ issued' \in Nat
        /\ pending' = n /\ issued' = issued
    BY <1>4
  <2>3. ~sending' /\ sending' \in BOOLEAN /\ closed' /\ closed' \in BOOLEAN /\ ~busy /\ ~closed
    BY <1>4 DEF NothingToIssue
  <2>4. QED
    BY <2>1, <2>2, <2>3
<1>5. QED
  BY <1>2, <1>3, <1>4 DEF PostSendLocked

-----------------------------------------------------------------------------
Busy == {w \in Workers : wpc[w] # "idle"}

LEMMA BusyFinite == IsFiniteSet(Busy) /\ Cardinality(Busy) \in Nat
<1>1. Busy \subseteq Workers
  BY DEF Busy
<1>2. QED
  BY <1>1, SendAssumption, FS_Subset, FS_CardinalityType

(* A worker that enters a handler counts one more, one that only goes on   *)
(* in it counts the same, one that leaves it counts one less.              *)
LEMMA BusyEnter ==
  ASSUME TypeOK, NEW w \in Workers, wpc[w] = "idle",
         NEW to, to # "idle", wpc' = [wpc EXCEPT ![w] = to]
  PROVE  Cardinality(Busy') = Cardinality(Busy) + 1
<1>1. Busy' = Busy \union {w} /\ w \notin Busy
  BY DEF Busy, TypeOK
<1>2. QED
  BY <1>1, BusyFinite, FS_AddElement

LEMMA BusyStays ==
  ASSUME TypeOK, NEW w \in Workers, wpc[w] # "idle",
         NEW to, to # "idle", wpc' = [wpc EXCEPT ![w] = to]
  PROVE  Busy' = Busy
BY DEF Busy, TypeOK

LEMMA BusyLeave ==
  ASSUME TypeOK, NEW w \in Workers, wpc[w] # "idle", wpc' = [wpc EXCEPT ![w] = "idle"]
  PROVE  /\ Cardinality(Busy') = Cardinality(Busy) - 1
         /\ Cardinality(Busy) > 0
<1>1. Busy' = Busy \ {w} /\ w \in Busy
  BY DEF Busy, TypeOK
<1>2. Cardinality(Busy') = Cardinality(Busy) - 1
  BY <1>1, BusyFinite, FS_RemoveElement
<1>3. Cardinality(Busy) # 0
  BY <1>1, BusyFinite, FS_EmptySet
<1>4. QED
  BY <1>2, <1>3, BusyFinite

-----------------------------------------------------------------------------
LEMMA InitIInv == Init => IInv
<1> SUFFICES ASSUME Init PROVE IInv
  OBVIOUS
<1>1. <<>> \in Seq(Byte) /\ <<>> \in Seq([moved : Nat, ok : BOOLEAN]) /\ Len(<<>>) = 0
  BY EmptySeq
<1>2. (CHOOSE m \in Messages : TRUE) \in Messages
  BY SendAssumption
<1>3. TypeOK
  BY <1>1, <1>2 DEF Init, TypeOK, Byte
<1>4. OneOutstandingSend /\ FlushExact /\ StagingInUse /\ NoLostFlush
  BY <1>1 DEF Init, OneOutstandingSend, FlushExact, StagingInUse, NoLostFlush
<1>5. PendingCount
  <2>1. Busy = {}
    BY DEF Init, Busy
  <2>2. Cardinality(Busy) = 0
    BY <2>1, FS_EmptySet
  <2>3. QED
    BY <1>1, <2>2 DEF Init, PendingCount, Busy
<1>6. WithinLimit
  BY <1>1, SendAssumption DEF Init, WithinLimit
<1>7. QED
  BY <1>3, <1>4, <1>5, <1>6 DEF IInv

(* A step that leaves the buffers, the operations and the workers alone,   *)
(* and opens no closed connection, keeps everything but the types.         *)
LEMMA QuietStep ==
  ASSUME IInv, TypeOK', closed => closed',
         UNCHANGED <<sendPending, sendStaging, sending, flushQueued, pending, wpc,
                     flushPackets, issued, completions>>
  PROVE  IInv'
<1>1. OneOutstandingSend' /\ FlushExact'
  BY DEF IInv, OneOutstandingSend, FlushExact
<1>2. StagingInUse'
  BY DEF IInv, StagingInUse
<1>3. NoLostFlush'
  BY DEF IInv, NoLostFlush
<1>4. PendingCount'
  BY DEF IInv, PendingCount
<1>5. WithinLimit'
  BY DEF IInv, WithinLimit
<1>6. QED
  BY <1>1, <1>2, <1>3, <1>4, <1>5 DEF IInv

LEMMA SendEnterKeeps ==
  ASSUME IInv, NEW s \in Senders, NEW m \in Messages, SendEnter(s, m)
  PROVE  IInv'
<1>1. TypeOK'
  BY DEF IInv, TypeOK, SendEnter
<1>2. QED
  BY <1>1, QuietStep DEF SendEnter

LEMMA SendOverflowKeeps ==
  ASSUME IInv, NEW s \in Senders, SendOverflow(s)
  PROVE  IInv'
<1>1. TypeOK'
  BY DEF IInv, TypeOK, SendOverflow
<1>2. QED
  BY <1>1, QuietStep DEF SendOverflow

LEMMA SenderCloseKeeps ==
  ASSUME IInv, NEW s \in Senders, SenderClose(s)
  PROVE  IInv'
<1>1. TypeOK'
  BY DEF IInv, TypeOK, SenderClose
<1>2. QED
  BY <1>1, QuietStep DEF SenderClose

LEMMA CloseElsewhereKeeps ==
  ASSUME IInv, CloseElsewhere
  PROVE  IInv'
<1>1. TypeOK'
  BY DEF IInv, TypeOK, CloseElsewhere
<1>2. QED
  BY <1>1, QuietStep DEF CloseElsewhere

LEMMA UnchangedKeeps ==
  ASSUME IInv, UNCHANGED vars
  PROVE  IInv'
<1>1. TypeOK'
  BY DEF IInv, TypeOK, vars
<1>2. QED
  BY <1>1, QuietStep DEF vars

LEMMA WorkerCloseKeeps ==
  ASSUME IInv, NEW w \in Workers, WorkerClose(w)
  PROVE  IInv'
<1>1. TypeOK'
  BY DEF IInv, TypeOK, WorkerClose
<1>2. closed'
  BY DEF WorkerClose
<1>3. OneOutstandingSend' /\ FlushExact'
  BY DEF IInv, OneOutstandingSend, FlushExact, WorkerClose
<1>4. StagingInUse' /\ NoLostFlush'
  BY <1>2 DEF StagingInUse, NoLostFlush
<1>5. PendingCount'
  <2>1. Busy' = Busy
    BY BusyStays DEF IInv, WorkerClose
  <2>2. QED
    BY <2>1 DEF IInv, PendingCount, Busy, WorkerClose
<1>6. WithinLimit'
  BY DEF IInv, WithinLimit, WorkerClose
<1>7. QED
  BY <1>1, <1>3, <1>4, <1>5, <1>6 DEF IInv

LEMMA ReleaseKeeps ==
  ASSUME IInv, NEW w \in Workers, Release(w)
  PROVE  IInv'
<1>1. /\ Cardinality(Busy') = Cardinality(Busy) - 1
      /\ Cardinality(Busy) > 0 /\ Cardinality(Busy) \in Nat
  BY BusyLeave, BusyFinite DEF IInv, Release
<1>2. /\ pending = issued + Len(completions) + flushPackets + Cardinality(Busy)
      /\ issued \in Nat /\ Len(completions) \in Nat /\ flushPackets \in Nat
  BY LenProperties DEF IInv, TypeOK, PendingCount, Busy
<1>3. pending' = pending - 1
  BY DEF Release, Released
<1>4. pending' \in Nat
  BY <1>1, <1>2, <1>3
<1>5. TypeOK'
  BY <1>4 DEF IInv, TypeOK, Release
<1>6. OneOutstandingSend' /\ FlushExact' /\ StagingInUse' /\ WithinLimit'
  BY DEF IInv, OneOutstandingSend, FlushExact, StagingInUse, WithinLimit, Release
<1>7. NoLostFlush'
  <2>1. \A v \in Workers : wpc[v] = "close" => wpc'[v] = "close"
    BY DEF IInv, TypeOK, Release
  <2>2. QED
    BY <2>1 DEF IInv, NoLostFlush, Release
<1>8. PendingCount'
  <2>1. pending' = issued' + Len(completions') + flushPackets' + Cardinality(Busy')
    BY <1>1, <1>2, <1>3 DEF Release
  <2>2. QED
    BY <2>1 DEF PendingCount, Busy
<1>9. QED
  BY <1>5, <1>6, <1>7, <1>8 DEF IInv

(* The facts of a state that the steps below need.                         *)
LEMMA StateFacts ==
  ASSUME IInv
  PROVE  /\ sendPending \in Seq(Byte) /\ sendStaging \in Seq(Byte)
         /\ Len(sendPending) \in Nat /\ Len(sendStaging) \in Nat
         /\ sending \in BOOLEAN /\ closed \in BOOLEAN
         /\ pending \in Nat /\ issued \in Nat /\ flushPackets \in Nat
         /\ completions \in Seq([moved : Nat, ok : BOOLEAN]) /\ Len(completions) \in Nat
         /\ issued + Len(completions) = IF sending THEN 1 ELSE 0
         /\ flushPackets = IF flushQueued THEN 1 ELSE 0
         /\ pending = issued + Len(completions) + flushPackets + Cardinality(Busy)
         /\ Cardinality(Busy) \in Nat
BY LenProperties, BusyFinite
   DEF IInv, TypeOK, Byte, OneOutstandingSend, FlushExact, PendingCount, Busy

LEMMA CountFacts ==
  ASSUME IInv
  PROVE  /\ pending \in Nat /\ issued \in Nat /\ flushPackets \in Nat
         /\ Len(completions) \in Nat /\ Cardinality(Busy) \in Nat
         /\ issued + Len(completions) = IF sending THEN 1 ELSE 0
         /\ pending = issued + Len(completions) + flushPackets + Cardinality(Busy)
BY StateFacts

LEMMA SendAppendKeeps ==
  ASSUME IInv, NEW s \in Senders, SendAppend(s)
  PROVE  IInv'
<1> DEFINE buf == sendPending \o Bytes(msg[s])
<1>1. msg[s] \in Messages
  BY DEF IInv, TypeOK
<1>2. buf \in Seq(Byte) /\ Len(buf) = Len(sendPending) + Size[msg[s]] /\ buf # <<>>
  BY <1>1, AppendedBuffer, StateFacts
<1> HIDE DEF buf
<1>3. accepted' \in Seq(Byte)
  <2>1. accepted' = accepted \o Bytes(msg[s])
    BY DEF SendAppend
  <2>2. accepted \in Seq(Byte)
    BY DEF IInv, TypeOK, Byte
  <2>3. QED
    BY <1>1, <2>1, <2>2, AppendedBuffer
<1>4. SendLimit > 0 => Len(buf) + Len(sendStaging) <= SendLimit
  <2>1. ~Overflows(msg[s])
    BY DEF SendAppend
  <2>2. Size[msg[s]] \in Nat /\ SendLimit \in Nat
    BY <1>1, SendAssumption
  <2>3. Len(sendPending) \in Nat /\ Len(sendStaging) \in Nat
    BY StateFacts
  <2>4. QED
    BY <1>2, <2>1, <2>2, <2>3 DEF Overflows
<1>5. /\ UNCHANGED <<directSend, msg, wpc, completions, broken, todo, wire>>
      /\ spc' = [spc EXCEPT ![s] = "idle"]
  BY DEF SendAppend
<1>6. Busy' = Busy
  BY <1>5 DEF Busy
<1>7. CASE PostSendLocked(buf, sendStaging, sending, pending) /\ UNCHANGED <<flushQueued, flushPackets>>
  <2>1. /\ sendPending' \in Seq(Byte) /\ sendStaging' \in Seq(Byte)
        /\ sending' \in BOOLEAN /\ closed' \in BOOLEAN
        /\ pending' \in Nat /\ issued' \in Nat
        /\ \/ issued' = issued /\ pending' = pending /\ (sending' <=> sending)
           \/ issued' = issued + 1 /\ pending' = pending + 1 /\ ~sending /\ sending'
        /\ closed => closed'
        /\ sending \/ closed => sendPending' = buf /\ sendStaging' = sendStaging
                                /\ sending' = sending /\ closed' = closed
        /\ ~closed' /\ sendPending' # <<>> => sending'
        /\ ~closed' /\ ~sending' => sendPending' = buf /\ buf = <<>> /\ sendStaging' = sendStaging
        /\ Len(sendPending') + Len(sendStaging') <= Len(buf) + Len(sendStaging)
    <3>1. /\ sendStaging \in Seq(Byte) /\ sending \in BOOLEAN /\ pending \in Nat
          /\ closed \in BOOLEAN /\ issued \in Nat
      BY StateFacts
    <3>2. QED
      BY <1>2, <1>7, <3>1, PostSendFacts
  <2>2. TypeOK'
    <3>1. /\ sendPending' \in Seq(Byte) /\ sendStaging' \in Seq(Byte)
          /\ sending' \in BOOLEAN /\ closed' \in BOOLEAN
          /\ pending' \in Nat /\ issued' \in Nat
      BY <2>1
    <3>2. QED
      BY <1>3, <1>5, <1>7, <3>1 DEF IInv, TypeOK, Byte
  <2>a. /\ pending' \in Nat /\ issued' \in Nat
        /\ \/ issued' = issued /\ pending' = pending /\ (sending' <=> sending)
           \/ issued' = issued + 1 /\ pending' = pending + 1 /\ ~sending /\ sending'
    BY <2>1
  <2>b. /\ issued \in Nat /\ pending \in Nat /\ Len(completions) \in Nat
        /\ flushPackets \in Nat /\ Cardinality(Busy) \in Nat
        /\ issued + Len(completions) = IF sending THEN 1 ELSE 0
        /\ pending = issued + Len(completions) + flushPackets + Cardinality(Busy)
    BY CountFacts
  <2>c. completions' = completions /\ Busy' = Busy /\ flushPackets' = flushPackets
    BY <1>5, <1>6, <1>7
  <2>3. OneOutstandingSend'
    BY <2>a, <2>b, <2>c DEF OneOutstandingSend
  <2>4. FlushExact'
    BY <1>7 DEF IInv, FlushExact
  <2>5. StagingInUse' /\ NoLostFlush'
    BY <1>2, <2>1 DEF StagingInUse, NoLostFlush
  <2>6. PendingCount'
    <3>1. pending' = issued' + Len(completions') + flushPackets' + Cardinality(Busy')
      BY <2>a, <2>b, <2>c, SMTT(60)
    <3>2. QED
      BY <3>1 DEF PendingCount, Busy
  <2>7. WithinLimit'
    <3>1. Len(sendPending') \in Nat /\ Len(sendStaging') \in Nat /\ Len(buf) \in Nat
      BY <1>2, <2>1, LenProperties
    <3>2. QED
      BY <1>4, <2>1, <3>1, StateFacts, SendAssumption DEF WithinLimit
  <2>8. QED
    BY <2>2, <2>3, <2>4, <2>5, <2>6, <2>7 DEF IInv
<1>8. CASE /\ sending \/ flushQueued
           /\ sendPending' = buf
           /\ UNCHANGED <<closed, sendStaging, sending, flushQueued, pending,
                          flushPackets, issued>>
  <2>1. TypeOK'
    BY <1>2, <1>3, <1>5, <1>8 DEF IInv, TypeOK, Byte
  <2>2. OneOutstandingSend' /\ FlushExact' /\ StagingInUse'
    BY <1>5, <1>8 DEF IInv, OneOutstandingSend, FlushExact, StagingInUse
  <2>3. NoLostFlush'
    BY <1>8 DEF IInv, NoLostFlush, FlushExact
  <2>4. PendingCount'
    BY <1>5, <1>6, <1>8 DEF IInv, PendingCount, Busy
  <2>5. WithinLimit'
    BY <1>4, <1>8 DEF WithinLimit
  <2>6. QED
    BY <2>1, <2>2, <2>3, <2>4, <2>5 DEF IInv
<1>9. CASE /\ ~sending /\ ~flushQueued
           /\ sendPending' = buf
           /\ flushQueued' = TRUE
           /\ flushPackets' = flushPackets + 1
           /\ pending' = pending + 1
           /\ UNCHANGED <<closed, sendStaging, sending, issued>>
  <2>1. TypeOK'
    BY <1>2, <1>3, <1>5, <1>9 DEF IInv, TypeOK, Byte
  <2>2. OneOutstandingSend' /\ StagingInUse'
    BY <1>5, <1>9 DEF IInv, OneOutstandingSend, StagingInUse
  <2>3. flushQueued' /\ flushPackets' = 1
    BY <1>9, StateFacts
  <2>4. FlushExact' /\ NoLostFlush'
    BY <2>3 DEF FlushExact, NoLostFlush
  <2>5. PendingCount'
    BY <1>5, <1>6, <1>9, StateFacts DEF PendingCount, Busy
  <2>6. WithinLimit'
    BY <1>4, <1>9 DEF WithinLimit
  <2>7. QED
    BY <2>1, <2>2, <2>4, <2>5, <2>6 DEF IInv
<1>10. QED
  BY <1>7, <1>8, <1>9 DEF SendAppend, buf

LEMMA OnFlushKeeps ==
  ASSUME IInv, NEW w \in Workers, OnFlush(w)
  PROVE  IInv'
<1>1. /\ PostSendLocked(sendPending, sendStaging, sending, pending)
      /\ UNCHANGED <<directSend, spc, msg, completions, broken, todo, accepted, wire>>
      /\ wpc[w] = "idle" /\ wpc' = [wpc EXCEPT ![w] = "release"]
      /\ flushPackets > 0 /\ flushPackets' = flushPackets - 1 /\ flushQueued' = FALSE
  BY DEF OnFlush
<1>2. /\ sendPending \in Seq(Byte) /\ sendStaging \in Seq(Byte) /\ sending \in BOOLEAN
      /\ pending \in Nat /\ closed \in BOOLEAN /\ issued \in Nat
  BY StateFacts
<1>3. /\ sendPending' \in Seq(Byte) /\ sendStaging' \in Seq(Byte)
      /\ sending' \in BOOLEAN /\ closed' \in BOOLEAN
      /\ pending' \in Nat /\ issued' \in Nat
      /\ \/ issued' = issued /\ pending' = pending /\ (sending' <=> sending)
         \/ issued' = issued + 1 /\ pending' = pending + 1 /\ ~sending /\ sending'
      /\ closed => closed'
      /\ ~closed' /\ sendPending' # <<>> => sending'
      /\ ~closed' /\ ~sending' => sendStaging' = sendStaging
      /\ Len(sendPending') + Len(sendStaging') <= Len(sendPending) + Len(sendStaging)
  BY <1>1, <1>2, PostSendFacts
<1>4. /\ issued \in Nat /\ pending \in Nat /\ Len(completions) \in Nat
      /\ flushPackets = 1 /\ flushPackets' = 0 /\ Cardinality(Busy) \in Nat
      /\ issued + Len(completions) = IF sending THEN 1 ELSE 0
      /\ pending = issued + Len(completions) + flushPackets + Cardinality(Busy)
  BY <1>1, StateFacts
<1>5. Cardinality(Busy') = Cardinality(Busy) + 1
  BY <1>1, BusyEnter DEF IInv
<1>6. \/ issued' = issued /\ pending' = pending /\ (sending' <=> sending)
      \/ issued' = issued + 1 /\ pending' = pending + 1 /\ ~sending /\ sending'
  BY <1>3
<1>7. TypeOK'
  <2>1. /\ sendPending' \in Seq(Byte) /\ sendStaging' \in Seq(Byte)
        /\ sending' \in BOOLEAN /\ closed' \in BOOLEAN
        /\ pending' \in Nat /\ issued' \in Nat
    BY <1>3
  <2>2. flushPackets' \in Nat
    BY <1>4
  <2>3. QED
    BY <1>1, <2>1, <2>2 DEF IInv, TypeOK, Byte
<1>8. OneOutstandingSend'
  BY <1>1, <1>4, <1>6 DEF OneOutstandingSend
<1>9. FlushExact'
  BY <1>1, <1>4 DEF FlushExact
<1>10. StagingInUse' /\ NoLostFlush'
  BY <1>3, <1>6 DEF IInv, StagingInUse, NoLostFlush
<1>11. PendingCount'
  <2>1. pending' = issued' + Len(completions') + flushPackets' + Cardinality(Busy')
    BY <1>1, <1>4, <1>5, <1>6
  <2>2. QED
    BY <2>1 DEF PendingCount, Busy
<1>12. WithinLimit'
  <2>1. /\ Len(sendPending') \in Nat /\ Len(sendStaging') \in Nat
        /\ Len(sendPending) \in Nat /\ Len(sendStaging) \in Nat
    BY <1>2, <1>3, LenProperties
  <2>2. Len(sendPending') + Len(sendStaging') <= Len(sendPending) + Len(sendStaging)
    BY <1>3
  <2>3. QED
    BY <2>1, <2>2, SendAssumption DEF IInv, WithinLimit
<1>13. QED
  BY <1>7, <1>8, <1>9, <1>10, <1>11, <1>12 DEF IInv

(* A completion is taken: it was the only one, of the only send.           *)
LEMMA OnlyCompletion ==
  ASSUME IInv, completions # <<>>
  PROVE  /\ Len(completions) = 1 /\ issued = 0 /\ sending
         /\ Head(completions) = completions[1]
         /\ Head(completions).moved \in Nat /\ Head(completions).ok \in BOOLEAN
         /\ Tail(completions) = <<>>
<1>1. /\ completions \in Seq([moved : Nat, ok : BOOLEAN]) /\ Len(completions) \in Nat
      /\ issued \in Nat /\ issued + Len(completions) = IF sending THEN 1 ELSE 0
  BY StateFacts
<1>2. Len(completions) \in Nat \ {0}
  BY <1>1, EmptySeq
<1>3. Len(completions) = 1 /\ issued = 0 /\ sending
  <2>1. issued \in Nat /\ issued + Len(completions) = IF sending THEN 1 ELSE 0
    BY <1>1
  <2>2. CASE sending
    <3>1. issued + Len(completions) = 1
      BY <2>1, <2>2
    <3>2. \A a, b \in Nat : a + b = 1 /\ b # 0 => a = 0 /\ b = 1
      OBVIOUS
    <3>3. QED
      BY <1>2, <2>1, <2>2, <3>1, <3>2
  <2>3. CASE ~sending
    BY <1>2, <2>1, <2>3
  <2>4. QED
    BY <2>2, <2>3
<1>4. /\ Head(completions) \in [moved : Nat, ok : BOOLEAN]
      /\ Tail(completions) \in Seq([moved : Nat, ok : BOOLEAN])
      /\ Len(Tail(completions)) = 0
  <2>1. /\ Head(completions) \in [moved : Nat, ok : BOOLEAN]
        /\ Tail(completions) \in Seq([moved : Nat, ok : BOOLEAN])
        /\ Len(Tail(completions)) = Len(completions) - 1
    BY <1>1, HeadTailProperties
  <2>2. QED
    BY <1>3, <2>1
<1>5. Tail(completions) = <<>>
  BY <1>4, EmptySeq
<1>6. Head(completions) = completions[1]
  BY <1>1, <1>3
<1>7. Head(completions).moved \in Nat /\ Head(completions).ok \in BOOLEAN
  BY <1>4
<1>8. QED
  BY <1>3, <1>5, <1>6, <1>7

(* What on_send_done keeps of the two buffers.                             *)
Fails(c) == ~c.ok \/ (c.moved < Len(sendStaging) /\ c.moved = 0)
Kept == IF Fails(Head(completions)) THEN sendPending
        ELSE RequeueUnsent(sendPending, sendStaging, Head(completions).moved)

LEMMA OnSendDoneUnfold ==
  ASSUME NEW w \in Workers, OnSendDone(w)
  PROVE  /\ wpc[w] = "idle" /\ completions # <<>> /\ completions' = Tail(completions)
         /\ wpc' = [wpc EXCEPT ![w] = IF Fails(Head(completions)) THEN "close" ELSE "release"]
         /\ \/ /\ ~Fails(Head(completions)) /\ ~closed
               /\ PostSendLocked(Kept, <<>>, FALSE, pending)
            \/ /\ Fails(Head(completions)) \/ closed
               /\ sendPending' = Kept /\ sendStaging' = <<>> /\ sending' = FALSE
               /\ UNCHANGED <<closed, pending, issued>>
         /\ UNCHANGED <<flushQueued, directSend, spc, msg, flushPackets, broken,
                        todo, accepted, wire>>
BY DEF OnSendDone, Fails, Kept

LEMMA KeptFits ==
  ASSUME IInv, completions # <<>>
  PROVE  Kept \in Seq(Byte) /\ Len(Kept) <= Len(sendPending) + Len(sendStaging)
<1>1. /\ sendPending \in Seq(Byte) /\ sendStaging \in Seq(Byte)
      /\ Len(sendPending) \in Nat /\ Len(sendStaging) \in Nat
  BY StateFacts
<1>2. Head(completions).moved \in Nat
  BY OnlyCompletion
<1>3. CASE Fails(Head(completions))
  BY <1>1, <1>3 DEF Kept
<1>4. CASE ~Fails(Head(completions))
  <2>1. Kept = RequeueUnsent(sendPending, sendStaging, Head(completions).moved)
    BY <1>4 DEF Kept
  <2>2. QED
    BY <1>1, <1>2, <2>1, RequeueIsRest
<1>5. QED
  BY <1>3, <1>4

LEMMA OnSendDoneKeeps ==
  ASSUME IInv, NEW w \in Workers, OnSendDone(w)
  PROVE  IInv'
<1> DEFINE fail == Fails(Head(completions))
<1>1. /\ wpc[w] = "idle" /\ completions # <<>> /\ completions' = Tail(completions)
      /\ wpc' = [wpc EXCEPT ![w] = IF fail THEN "close" ELSE "release"]
      /\ UNCHANGED <<flushQueued, directSend, spc, msg, flushPackets, broken,
                     todo, accepted, wire>>
  BY OnSendDoneUnfold
<1>2. /\ \/ /\ ~fail /\ ~closed
            /\ PostSendLocked(Kept, <<>>, FALSE, pending)
         \/ /\ fail \/ closed
            /\ sendPending' = Kept /\ sendStaging' = <<>> /\ sending' = FALSE
            /\ UNCHANGED <<closed, pending, issued>>
  BY OnSendDoneUnfold
<1> HIDE DEF fail
<1>3. Kept \in Seq(Byte) /\ Len(Kept) <= Len(sendPending) + Len(sendStaging)
  BY <1>1, KeptFits
<1>4. /\ issued = 0 /\ Len(completions) = 1 /\ sending
      /\ completions' = <<>> /\ Len(completions') = 0
  BY <1>1, OnlyCompletion, EmptySeq
<1>5. /\ pending \in Nat /\ flushPackets \in Nat /\ Cardinality(Busy) \in Nat
      /\ pending = 1 + flushPackets + Cardinality(Busy)
      /\ closed \in BOOLEAN
  BY <1>4, StateFacts
<1>6. Cardinality(Busy') = Cardinality(Busy) + 1
  <2>1. (IF fail THEN "close" ELSE "release") # "idle"
    OBVIOUS
  <2>2. QED
    BY <1>1, <2>1, BusyEnter DEF IInv
<1>7. completions' \in Seq([moved : Nat, ok : BOOLEAN])
  BY <1>4, EmptySeq
<1>8. /\ Len(sendPending) \in Nat /\ Len(sendStaging) \in Nat /\ Len(Kept) \in Nat
      /\ <<>> \in Seq(Byte) /\ Len(<<>>) = 0
  BY <1>3, StateFacts, LenProperties, EmptySeq
<1>9. /\ sendPending' \in Seq(Byte) /\ sendStaging' \in Seq(Byte)
      /\ sending' \in BOOLEAN /\ closed' \in BOOLEAN
      /\ \/ issued' = 0 /\ pending' = pending /\ ~sending'
         \/ issued' = 1 /\ pending' = pending + 1 /\ sending'
      /\ ~closed' /\ sendPending' # <<>> => sending' \/ fail
      /\ ~closed' /\ ~sending' => sendStaging' = <<>>
      /\ Len(sendPending') + Len(sendStaging') <= Len(Kept)
  <2>1. CASE /\ ~fail /\ ~closed
             /\ PostSendLocked(Kept, <<>>, FALSE, pending)
    <3>1. FALSE \in BOOLEAN /\ issued \in Nat
      BY <1>4
    <3>2. /\ sendPending' \in Seq(Byte) /\ sendStaging' \in Seq(Byte)
          /\ sending' \in BOOLEAN /\ closed' \in BOOLEAN
          /\ \/ issued' = issued /\ pending' = pending /\ (sending' <=> FALSE)
             \/ issued' = issued + 1 /\ pending' = pending + 1 /\ ~FALSE /\ sending'
          /\ ~closed' /\ sendPending' # <<>> => sending'
          /\ ~closed' /\ ~sending' => sendStaging' = <<>>
          /\ Len(sendPending') + Len(sendStaging') <= Len(Kept) + Len(<<>>)
      BY <1>3, <1>5, <1>8, <2>1, <3>1, PostSendFacts
    <3>3. Len(Kept) + Len(<<>>) = Len(Kept)
      BY <1>8
    <3>4. QED
      BY <1>4, <3>2, <3>3
  <2>2. CASE /\ fail \/ closed
             /\ sendPending' = Kept /\ sendStaging' = <<>> /\ sending' = FALSE
             /\ UNCHANGED <<closed, pending, issued>>
    <3>1. sendPending' \in Seq(Byte) /\ sendStaging' \in Seq(Byte)
      BY <1>3, <1>8, <2>2
    <3>2. ~sending' /\ sending' \in BOOLEAN /\ closed' \in BOOLEAN /\ (~closed' => fail)
      BY <1>5, <2>2
    <3>3. Len(sendPending') + Len(sendStaging') <= Len(Kept)
      BY <1>8, <2>2
    <3>4. issued' = 0 /\ pending' = pending /\ sendStaging' = <<>>
      BY <1>4, <2>2
    <3>5. QED
      BY <3>1, <3>2, <3>3, <3>4
  <2>3. QED
    BY <1>2, <2>1, <2>2
<1>10. \/ issued' = 0 /\ pending' = pending /\ ~sending'
       \/ issued' = 1 /\ pending' = pending + 1 /\ sending'
  BY <1>9
<1>11. TypeOK'
  <2>1. /\ sendPending' \in Seq(Byte) /\ sendStaging' \in Seq(Byte)
        /\ sending' \in BOOLEAN /\ closed' \in BOOLEAN
    BY <1>9
  <2>2. pending' \in Nat /\ issued' \in Nat
    BY <1>5, <1>10
  <2>3. QED
    BY <1>1, <1>7, <2>1, <2>2 DEF IInv, TypeOK, Byte
<1>12. OneOutstandingSend'
  BY <1>4, <1>10 DEF OneOutstandingSend
<1>13. FlushExact'
  BY <1>1 DEF IInv, FlushExact
<1>14. StagingInUse'
  BY <1>9 DEF StagingInUse
<1>15. NoLostFlush'
  <2>1. fail => wpc'[w] = "close"
    BY <1>1 DEF IInv, TypeOK
  <2>2. QED
    BY <1>9, <2>1 DEF NoLostFlush
<1>16. PendingCount'
  <2>1. pending' = issued' + Len(completions') + flushPackets' + Cardinality(Busy')
    <3>1. flushPackets' = flushPackets /\ Len(completions') = 0
      BY <1>1, <1>4
    <3>2. QED
      BY <1>5, <1>6, <1>10, <3>1
  <2>2. QED
    BY <2>1 DEF PendingCount, Busy
<1>17. WithinLimit'
  <2>1. /\ Len(sendPending') \in Nat /\ Len(sendStaging') \in Nat
        /\ Len(sendPending') + Len(sendStaging') <= Len(Kept)
    BY <1>9, LenProperties
  <2>2. Len(sendPending') + Len(sendStaging') <= Len(sendPending) + Len(sendStaging)
    BY <1>3, <1>8, <2>1
  <2>3. QED
    <3>1. SendLimit > 0 => Len(sendPending) + Len(sendStaging) <= SendLimit
      BY DEF IInv, WithinLimit
    <3>2. SendLimit > 0 => Len(sendPending') + Len(sendStaging') <= SendLimit
      BY <1>8, <2>1, <2>2, <3>1, SendAssumption
    <3>3. QED
      BY <3>2 DEF WithinLimit
<1>18. QED
  BY <1>11, <1>12, <1>13, <1>14, <1>15, <1>16, <1>17 DEF IInv

(* The send the kernel completes is the only one, and no completion of an  *)
(* earlier one waits.                                                      *)
LEMMA OnlyIssued ==
  ASSUME IInv, issued > 0
  PROVE  issued = 1 /\ completions = <<>> /\ sending
<1>1. /\ completions \in Seq([moved : Nat, ok : BOOLEAN]) /\ Len(completions) \in Nat
      /\ issued \in Nat /\ issued + Len(completions) = IF sending THEN 1 ELSE 0
  BY StateFacts
<1>2. \A a, b \in Nat : a > 0 => a + b # 0 /\ (a + b = 1 => a = 1 /\ b = 0)
  OBVIOUS
<1>3. issued = 1 /\ Len(completions) = 0 /\ sending
  BY <1>1, <1>2
<1>4. QED
  BY <1>1, <1>3, EmptySeq

LEMMA KernelSendKeeps ==
  ASSUME IInv, KernelSend
  PROVE  IInv'
<1>1. PICK moved \in 0..Len(sendStaging), ok \in BOOLEAN :
        /\ wire' = wire \o SubSeq(sendStaging, 1, moved)
        /\ completions' = Append(completions, [moved |-> IF ok THEN moved ELSE 0, ok |-> ok])
        /\ broken' = (broken \/ (FailureIsFinal /\ (moved = 0 \/ ~ok)))
  BY DEF KernelSend
<1>2. /\ issued > 0 /\ issued' = issued - 1
      /\ UNCHANGED <<closed, sendPending, sendStaging, sending, flushQueued,
                     directSend, pending, spc, msg, wpc, flushPackets, todo, accepted>>
  BY DEF KernelSend
<1>3. issued = 1 /\ completions = <<>> /\ sending
  BY <1>2, OnlyIssued
<1>4. /\ completions' \in Seq([moved : Nat, ok : BOOLEAN])
      /\ Len(completions') = 1
  <2>1. [moved |-> IF ok THEN moved ELSE 0, ok |-> ok] \in [moved : Nat, ok : BOOLEAN]
    BY StateFacts
  <2>2. /\ completions \in Seq([moved : Nat, ok : BOOLEAN]) /\ Len(completions) = 0
    BY <1>3, EmptySeq
  <2>3. /\ completions' \in Seq([moved : Nat, ok : BOOLEAN])
        /\ Len(completions') = Len(completions) + 1
    BY <1>1, <2>1, <2>2, AppendProperties
  <2>4. QED
    BY <2>2, <2>3
<1>5. wire' \in Seq(Byte)
  <2>1. SubSeq(sendStaging, 1, moved) \in Seq(Byte)
    <3>1. sendStaging \in Seq(Byte) /\ Len(sendStaging) \in Nat
      BY StateFacts
    <3>2. moved \in Int /\ 1 \in Int /\ \A j \in 1..moved : sendStaging[j] \in Byte
      BY <3>1, ElementOfSeq
    <3>3. QED
      BY <3>2, SubSeqProperties
  <2>2. wire \in Seq(Byte)
    BY DEF IInv, TypeOK, Byte
  <2>3. QED
    BY <1>1, <2>1, <2>2, ConcatProperties
<1>6. broken' \in BOOLEAN
  BY <1>1
<1>7. issued' = 0
  BY <1>2, <1>3
<1>8. TypeOK'
  BY <1>2, <1>4, <1>5, <1>6, <1>7 DEF IInv, TypeOK, Byte
<1>9. OneOutstandingSend'
  BY <1>2, <1>3, <1>4, <1>7 DEF OneOutstandingSend
<1>10. FlushExact' /\ StagingInUse' /\ NoLostFlush' /\ WithinLimit'
  BY <1>2 DEF IInv, FlushExact, StagingInUse, NoLostFlush, WithinLimit
<1>11. PendingCount'
  <2>1. /\ pending = 1 + flushPackets + Cardinality(Busy)
        /\ flushPackets \in Nat /\ Cardinality(Busy) \in Nat
    <3>1. Len(completions) = 0
      BY <1>3, EmptySeq
    <3>2. QED
      BY <1>3, <3>1, StateFacts
  <2>2. Busy' = Busy
    BY <1>2 DEF Busy
  <2>3. pending' = issued' + Len(completions') + flushPackets' + Cardinality(Busy')
    BY <1>2, <1>4, <1>7, <2>1, <2>2
  <2>4. QED
    BY <2>3 DEF PendingCount, Busy
<1>12. QED
  BY <1>8, <1>9, <1>10, <1>11 DEF IInv

LEMMA StepKeeps == IInv /\ [Next]_vars => IInv'
<1> SUFFICES ASSUME IInv, [Next]_vars PROVE IInv'
  OBVIOUS
<1>1. CASE UNCHANGED vars
  BY <1>1, UnchangedKeeps
<1>2. ASSUME NEW s \in Senders, Sender(s) PROVE IInv'
  BY <1>2, SendEnterKeeps, SendOverflowKeeps, SendAppendKeeps, SenderCloseKeeps DEF Sender
<1>3. ASSUME NEW w \in Workers, Worker(w) PROVE IInv'
  BY <1>3, OnFlushKeeps, OnSendDoneKeeps, WorkerCloseKeeps, ReleaseKeeps DEF Worker
<1>4. CASE KernelSend
  BY <1>4, KernelSendKeeps
<1>5. CASE CloseElsewhere
  BY <1>5, CloseElsewhereKeeps
<1>6. QED
  BY <1>1, <1>2, <1>3, <1>4, <1>5 DEF Next

LEMMA Invariance == Spec => []IInv
BY InitIInv, StepKeeps, PTL DEF Spec

(* Every variable of the send side keeps its type.                         *)
THEOREM TypeCorrect == Spec => []TypeOK
<1>1. IInv => TypeOK
  BY DEF IInv
<1>2. QED
  BY <1>1, Invariance, PTL

(* At most one WSASend is outstanding, and sending_ says whether.          *)
THEOREM OneSendAtATime == Spec => []OneOutstandingSend
<1>1. IInv => OneOutstandingSend
  BY DEF IInv
<1>2. QED
  BY <1>1, Invariance, PTL

(* No appended byte is left without somebody who will issue it.            *)
THEOREM FlushNeverLost == Spec => []NoLostFlush
<1>1. IInv => NoLostFlush
  BY DEF IInv
<1>2. QED
  BY <1>1, Invariance, PTL

(* pending_ counts every operation of the send side, exactly.              *)
THEOREM PendingExact == Spec => []PendingCount
<1>1. IInv => PendingCount
  BY DEF IInv
<1>2. QED
  BY <1>1, Invariance, PTL

(* The two buffers together never exceed send_limit_.                      *)
THEOREM LimitRespected == Spec => []WithinLimit
<1>1. IInv => WithinLimit
  BY DEF IInv
<1>2. QED
  BY <1>1, Invariance, PTL

-----------------------------------------------------------------------------
(* What was sent, what is in flight and what waits, one after the other.   *)
Due == (wire \o InFlight) \o sendPending

LEMMA Regroup ==
  ASSUME NEW a \in Seq(Byte), NEW b \in Seq(Byte), NEW c \in Seq(Byte)
  PROVE  /\ (a \o b) \o c = a \o (b \o c)
         /\ a \o b \in Seq(Byte)
         /\ a \o <<>> = a /\ <<>> \o a = a
         /\ <<>> \in Seq(Byte)
BY ConcatAssociative, ConcatProperties, ConcatEmptySeq, EmptySeq

LEMMA InFlightType ==
  ASSUME IInv
  PROVE  /\ InFlight \in Seq(Byte) /\ wire \in Seq(Byte) /\ accepted \in Seq(Byte)
         /\ sendPending \in Seq(Byte) /\ sendStaging \in Seq(Byte)
<1>1. /\ sendPending \in Seq(Byte) /\ sendStaging \in Seq(Byte)
      /\ wire \in Seq(Byte) /\ accepted \in Seq(Byte)
  BY DEF IInv, TypeOK, Byte
<1>2. CASE ~sending \/ completions = <<>>
  BY <1>1, <1>2, EmptySeq DEF InFlight
<1>3. CASE sending /\ completions # <<>>
  <2>1. completions[1].moved \in Nat
    BY <1>3, OnlyCompletion
  <2>2. InFlight = SubSeq(sendStaging, completions[1].moved + 1, Len(sendStaging))
    BY <1>3 DEF InFlight
  <2>3. QED
    BY <1>1, <2>1, <2>2, RequeueIsRest
<1>4. QED
  BY <1>1, <1>2, <1>3

(* When no send was running, post_send_locked puts the bytes it was given  *)
(* in flight or leaves them waiting: nothing is lost, nothing overtakes.   *)
LEMMA PostFlow ==
  ASSUME NEW b \in Seq(Byte), NEW st \in Seq(Byte), NEW n \in Nat,
         closed \in BOOLEAN, issued \in Nat, wire \in Seq(Byte),
         PostSendLocked(b, st, FALSE, n), ~closed',
         wire' = wire, completions' = <<>>
  PROVE  Due' = wire \o b
<1>1. FALSE \in BOOLEAN
  OBVIOUS
<1>2. /\ sending' \in BOOLEAN
      /\ ~closed' /\ ~sending' => sendPending' = b
      /\ ~closed' /\ ~FALSE /\ sending' => sendPending' = <<>> /\ sendStaging' = b
  BY <1>1, PostSendFacts
<1>3. CASE sending'
  <2>1. sendPending' = <<>> /\ InFlight' = b
    BY <1>2, <1>3 DEF InFlight
  <2>2. wire \o b \in Seq(Byte)
    BY Regroup
  <2>3. (wire \o b) \o <<>> = wire \o b
    BY <2>2, ConcatEmptySeq
  <2>4. QED
    BY <2>1, <2>3, Zenon DEF Due
<1>4. CASE ~sending'
  <2>1. sendPending' = b /\ InFlight' = <<>>
    BY <1>2, <1>4 DEF InFlight
  <2>2. wire \o <<>> = wire
    BY ConcatEmptySeq
  <2>3. QED
    BY <2>1, <2>2, Zenon DEF Due
<1>5. QED
  BY <1>3, <1>4

LEMMA NotSendingFlow ==
  ASSUME IInv, ~sending
  PROVE  Due = wire \o sendPending /\ completions = <<>>
<1>1. wire \in Seq(Byte)
  BY InFlightType
<1>2. InFlight = <<>>
  BY DEF InFlight
<1>3. wire \o <<>> = wire
  BY <1>1, ConcatEmptySeq
<1>4. completions = <<>>
  BY OnlyCompletion
<1>5. QED
  BY <1>2, <1>3, <1>4, Zenon DEF Due

(* A message appended behind what waits.                                   *)
LEMMA AppendedFlow ==
  ASSUME IInv, NEW m \in Messages, Due = accepted,
         wire' = wire, InFlight' = InFlight, sendPending' = sendPending \o Bytes(m),
         accepted' = accepted \o Bytes(m)
  PROVE  Due' = accepted'
<1>1. Bytes(m) \in Seq(Byte)
  BY BytesType
<1>2. wire \o InFlight \in Seq(Byte) /\ sendPending \in Seq(Byte)
  BY InFlightType, Regroup
<1>3. (wire \o InFlight) \o (sendPending \o Bytes(m)) = ((wire \o InFlight) \o sendPending) \o Bytes(m)
  <2> DEFINE f == wire \o InFlight
  <2>1. f \in Seq(Byte)
    BY <1>2
  <2> HIDE DEF f
  <2>2. (f \o sendPending) \o Bytes(m) = f \o (sendPending \o Bytes(m))
    BY <1>1, <1>2, <2>1, ConcatAssociative, SMTT(60)
  <2>3. QED
    BY <2>2 DEF f
<1>4. QED
  BY <1>3, Zenon DEF Due

LEMMA DropsNothing ==
  ASSUME IInv
  PROVE  NothingDropped <=> (~closed /\ ~broken => Due = accepted)
BY DEF NothingDropped, Due

LEMMA SendAppendFlow ==
  ASSUME StreamInv, NEW s \in Senders, SendAppend(s), ~closed', ~broken
  PROVE  Due' = accepted'
<1> DEFINE buf == sendPending \o Bytes(msg[s])
<1>1. /\ accepted' = accepted \o Bytes(msg[s])
      /\ wire' = wire /\ completions' = completions
  BY DEF SendAppend
<1>2. msg[s] \in Messages /\ IInv
  BY DEF StreamInv, IInv, TypeOK
<1>3. buf \in Seq(Byte) /\ Bytes(msg[s]) \in Seq(Byte)
  BY <1>2, AppendedBuffer, BytesType, StateFacts
<1>4. CASE PostSendLocked(buf, sendStaging, sending, pending)
  <2>1. /\ sendStaging \in Seq(Byte) /\ sending \in BOOLEAN /\ pending \in Nat
        /\ closed \in BOOLEAN /\ issued \in Nat
    BY <1>2, StateFacts
  <2>2. /\ closed => closed'
        /\ sending \/ closed => sendPending' = buf /\ sendStaging' = sendStaging
                                /\ sending' = sending /\ closed' = closed
    <3> HIDE DEF buf
    <3>1. QED
      BY <1>3, <1>4, <2>1, PostSendFacts
  <2>3. Due = accepted
    BY <1>2, <2>2, DropsNothing DEF StreamInv
  <2>4. CASE sending
    <3>1. InFlight' = InFlight /\ sendPending' = buf
      BY <1>1, <2>2, <2>4 DEF InFlight
    <3>2. QED
      BY <1>1, <1>2, <2>3, <3>1, AppendedFlow
  <2>5. CASE ~sending
    <3>1. Due = wire \o sendPending /\ completions = <<>>
      BY <1>2, <2>5, NotSendingFlow
    <3>2. sending = FALSE
      BY <2>1, <2>5
    <3>3. PostSendLocked(buf, sendStaging, FALSE, pending)
      BY <1>4, <3>2
    <3>4. wire \in Seq(Byte) /\ sendPending \in Seq(Byte)
      BY <1>2, InFlightType
    <3>5. completions' = <<>>
      BY <1>1, <3>1
    <3>6. Due' = wire \o buf
      <4> HIDE DEF buf
      <4>1. QED
        BY <1>1, <1>3, <2>1, <3>3, <3>4, <3>5, PostFlow
    <3>7. wire \o (sendPending \o Bytes(msg[s])) = (wire \o sendPending) \o Bytes(msg[s])
      BY <1>3, <3>4, Regroup, SMTT(60)
    <3>8. QED
      BY <1>1, <2>3, <3>1, <3>6, <3>7, Zenon
  <2>6. QED
    BY <2>4, <2>5
<1>5. CASE sendPending' = buf /\ UNCHANGED <<closed, sendStaging, sending>>
  <2>1. InFlight' = InFlight
    BY <1>1, <1>5 DEF InFlight
  <2>2. Due = accepted
    BY <1>2, <1>5, DropsNothing DEF StreamInv
  <2>3. QED
    BY <1>1, <1>2, <1>5, <2>1, <2>2, AppendedFlow
<1>6. QED
  BY <1>4, <1>5 DEF SendAppend

LEMMA OnFlushFlow ==
  ASSUME StreamInv, NEW w \in Workers, OnFlush(w), ~closed', ~broken
  PROVE  Due' = accepted'
<1>1. /\ PostSendLocked(sendPending, sendStaging, sending, pending)
      /\ accepted' = accepted /\ wire' = wire /\ completions' = completions
  BY DEF OnFlush
<1>2. /\ IInv
      /\ sendPending \in Seq(Byte) /\ sendStaging \in Seq(Byte) /\ sending \in BOOLEAN
      /\ pending \in Nat /\ closed \in BOOLEAN /\ issued \in Nat
  BY StateFacts DEF StreamInv
<1>3. /\ closed => closed'
      /\ sending \/ closed => sendPending' = sendPending /\ sendStaging' = sendStaging
                              /\ sending' = sending /\ closed' = closed
  BY <1>1, <1>2, PostSendFacts
<1>4. Due = accepted
  BY <1>2, <1>3, DropsNothing DEF StreamInv
<1>5. CASE sending
  <2>1. InFlight' = InFlight /\ sendPending' = sendPending
    BY <1>1, <1>3, <1>5 DEF InFlight
  <2>2. Due' = Due
    BY <1>1, <2>1 DEF Due
  <2>3. QED
    BY <1>1, <1>4, <2>2
<1>6. CASE ~sending
  <2>1. Due = wire \o sendPending /\ completions = <<>>
    BY <1>2, <1>6, NotSendingFlow
  <2>2. PostSendLocked(sendPending, sendStaging, FALSE, pending)
    <3>1. sending = FALSE
      BY <1>2, <1>6
    <3>2. QED
      BY <1>1, <3>1
  <2>3. wire \in Seq(Byte)
    BY <1>2, InFlightType
  <2>4. completions' = <<>>
    BY <1>1, <2>1
  <2>5. Due' = wire \o sendPending
    BY <1>1, <1>2, <2>2, <2>3, <2>4, PostFlow
  <2>6. QED
    BY <1>1, <1>4, <2>1, <2>5, Zenon
<1>7. QED
  BY <1>5, <1>6

LEMMA OnSendDoneFlow ==
  ASSUME StreamInv, NEW w \in Workers, OnSendDone(w), ~closed', ~broken
  PROVE  Due' = accepted'
<1>1. /\ completions # <<>> /\ completions' = Tail(completions)
      /\ accepted' = accepted /\ wire' = wire
      /\ \/ /\ ~Fails(Head(completions)) /\ ~closed
            /\ PostSendLocked(Kept, <<>>, FALSE, pending)
         \/ /\ Fails(Head(completions)) \/ closed
            /\ closed => closed'
  BY OnSendDoneUnfold
<1>2. /\ IInv /\ pending \in Nat /\ closed \in BOOLEAN /\ issued \in Nat
      /\ completions \in Seq([moved : Nat, ok : BOOLEAN])
  BY StateFacts DEF StreamInv
<1>3. /\ Len(completions) = 1 /\ sending /\ Head(completions) = completions[1]
      /\ Head(completions).moved \in Nat /\ completions' = <<>>
  BY <1>1, <1>2, OnlyCompletion
<1>4. Head(completions).ok /\ Head(completions).moved > 0
  <2>1. 1 \in DOMAIN completions
    BY <1>2, <1>3
  <2>2. QED
    BY <1>3, <2>1 DEF StreamInv, NoFailureUnseen
<1>5. ~Fails(Head(completions))
  BY <1>3, <1>4 DEF Fails
<1>6. PostSendLocked(Kept, <<>>, FALSE, pending) /\ ~closed
  BY <1>1, <1>5, Zenon
<1>7. Due = accepted
  BY <1>2, <1>6, DropsNothing DEF StreamInv
<1>8. /\ wire \in Seq(Byte) /\ sendPending \in Seq(Byte) /\ sendStaging \in Seq(Byte)
      /\ InFlight \in Seq(Byte)
  BY <1>2, InFlightType
<1>9. InFlight = SubSeq(sendStaging, Head(completions).moved + 1, Len(sendStaging))
  BY <1>1, <1>3 DEF InFlight
<1>10. Kept = InFlight \o sendPending
  <2>1. Kept = RequeueUnsent(sendPending, sendStaging, Head(completions).moved)
    BY <1>5 DEF Kept
  <2>2. QED
    BY <1>3, <1>8, <1>9, <2>1, RequeueIsRest
<1>11. Kept \in Seq(Byte) /\ <<>> \in Seq(Byte)
  BY <1>1, <1>2, KeptFits, EmptySeq
<1>12. Due' = wire \o Kept
  BY <1>1, <1>2, <1>3, <1>6, <1>8, <1>11, PostFlow
<1>13. (wire \o InFlight) \o sendPending = wire \o (InFlight \o sendPending)
  BY <1>8, Regroup, SMTT(60)
<1>14. QED
  BY <1>1, <1>7, <1>10, <1>12, <1>13, Zenon DEF Due

(* What the kernel does to a send, when the socket does not fail.          *)
LEMMA KernelSendFlow ==
  ASSUME FailureIsFinal, StreamInv, KernelSend, ~broken'
  PROVE  /\ NoFailureUnseen'
         /\ ~closed' => Due' = accepted' /\ Due = accepted
         /\ \E moved \in 1..Len(sendStaging) : wire' = wire \o SubSeq(sendStaging, 1, moved)
         /\ ~closed /\ sending /\ completions = <<>>
<1>1. PICK moved \in 0..Len(sendStaging), ok \in BOOLEAN :
        /\ closed \/ broken => moved = 0 /\ ~ok
        /\ wire' = wire \o SubSeq(sendStaging, 1, moved)
        /\ completions' = Append(completions, [moved |-> IF ok THEN moved ELSE 0, ok |-> ok])
        /\ broken' = (broken \/ (FailureIsFinal /\ (moved = 0 \/ ~ok)))
  BY DEF KernelSend
<1>2. ~broken /\ moved # 0 /\ ok /\ ~closed
  BY <1>1
<1>3. issued > 0 /\ UNCHANGED <<closed, sendPending, sendStaging, sending, accepted>>
  BY DEF KernelSend
<1>4. IInv /\ issued = 1 /\ completions = <<>> /\ sending
  BY <1>3, OnlyIssued DEF StreamInv
<1>5. /\ sendStaging \in Seq(Byte) /\ Len(sendStaging) \in Nat
      /\ wire \in Seq(Byte) /\ sendPending \in Seq(Byte)
  BY <1>4, InFlightType, StateFacts
<1>6. moved \in 1..Len(sendStaging) /\ moved \in Nat
  BY <1>2, <1>5
<1>7. completions' = <<[moved |-> moved, ok |-> TRUE]>>
  BY <1>1, <1>2, <1>4
<1>8. NoFailureUnseen'
  BY <1>6, <1>7 DEF NoFailureUnseen
<1>9. Due = accepted
  BY <1>2, <1>4, DropsNothing DEF StreamInv
<1> DEFINE front == SubSeq(sendStaging, 1, moved)
           rest == SubSeq(sendStaging, moved + 1, Len(sendStaging))
<1>10. InFlight = sendStaging /\ InFlight' = rest
  BY <1>3, <1>4, <1>7 DEF InFlight
<1>11. front \o rest = sendStaging /\ front \in Seq(Byte) /\ rest \in Seq(Byte)
  <2>1. front \o rest = SubSeq(sendStaging, 1, Len(sendStaging))
    <3>1. /\ 1 \in 1..(Len(sendStaging) + 1) /\ moved \in (1 - 1)..Len(sendStaging)
          /\ Len(sendStaging) \in moved..Len(sendStaging)
      BY <1>5, <1>6
    <3>2. QED
      BY <1>5, <3>1, ConcatAdjacentSubSeq
  <2>2. SubSeq(sendStaging, 1, Len(sendStaging)) = sendStaging
    BY <1>5, SubSeqFull
  <2>3. rest \in Seq(Byte)
    BY <1>5, <1>6, RequeueIsRest
  <2>4. front \in Seq(Byte)
    <3>1. moved \in Int /\ 1 \in Int /\ \A j \in 1..moved : sendStaging[j] \in Byte
      BY <1>5, <1>6, ElementOfSeq
    <3>2. QED
      BY <3>1, SubSeqProperties
  <2>5. QED
    BY <2>1, <2>2, <2>3, <2>4
<1> HIDE DEF front, rest
<1>12. Due' = ((wire \o front) \o rest) \o sendPending
  BY <1>1, <1>3, <1>10 DEF Due, front
<1>13. (wire \o front) \o rest = wire \o sendStaging
  <2>1. (wire \o front) \o rest = wire \o (front \o rest)
    <3>1. wire \in Seq(Byte) /\ front \in Seq(Byte) /\ rest \in Seq(Byte)
      BY <1>5, <1>11
    <3>2. QED
      BY <3>1, ConcatAssociative, SMTT(60)
  <2>2. QED
    BY <1>11, <2>1, Zenon
<1>14. Due = (wire \o sendStaging) \o sendPending
  BY <1>10 DEF Due
<1>15. Due' = accepted'
  BY <1>3, <1>9, <1>12, <1>13, <1>14, Zenon
<1>16. QED
  BY <1>1, <1>2, <1>4, <1>6, <1>8, <1>9, <1>15

(* A step that moves no byte and takes no completion.                      *)
LEMMA StillFlow ==
  ASSUME StreamInv, closed => closed',
         UNCHANGED <<sendPending, sendStaging, sending, completions, broken, accepted, wire>>
  PROVE  NoFailureUnseen' /\ NothingDropped'
<1>1. NoFailureUnseen'
  BY DEF StreamInv, NoFailureUnseen
<1>2. InFlight' = InFlight
  BY DEF InFlight
<1>3. QED
  BY <1>1, <1>2 DEF StreamInv, NothingDropped

(* The completions are the same, or one was taken: no failure is new.      *)
LEMMA StillNoFailure ==
  ASSUME StreamInv, completions' = completions \/ completions' = <<>>, broken' = broken
  PROVE  NoFailureUnseen'
BY DEF StreamInv, NoFailureUnseen

LEMMA FlowPrimed ==
  ASSUME ~closed' /\ ~broken' => Due' = accepted'
  PROVE  NothingDropped'
BY DEF NothingDropped, Due

LEMMA StreamStep == ASSUME FailureIsFinal PROVE StreamInv /\ [Next]_vars => StreamInv'
<1> SUFFICES ASSUME StreamInv, [Next]_vars PROVE StreamInv'
  OBVIOUS
<1>1. IInv'
  BY StepKeeps DEF StreamInv
<1> SUFFICES NoFailureUnseen' /\ NothingDropped'
  BY <1>1 DEF StreamInv
<1>2. CASE UNCHANGED vars
  BY <1>2, StillFlow DEF vars
<1>3. ASSUME NEW s \in Senders, Sender(s) PROVE NoFailureUnseen' /\ NothingDropped'
  <2>1. CASE \E m \in Messages : SendEnter(s, m)
    BY <2>1, StillFlow DEF SendEnter
  <2>2. CASE SendOverflow(s)
    BY <2>2, StillFlow DEF SendOverflow
  <2>3. CASE SenderClose(s)
    BY <2>3, StillFlow DEF SenderClose
  <2>4. CASE SendAppend(s)
    <3>1. broken' = broken /\ completions' = completions
      BY <2>4 DEF SendAppend
    <3>2. ~closed' /\ ~broken' => Due' = accepted'
      BY <2>4, <3>1, SendAppendFlow
    <3>3. QED
      BY <3>1, <3>2, StillNoFailure, FlowPrimed
  <2>5. QED
    BY <1>3, <2>1, <2>2, <2>3, <2>4 DEF Sender
<1>4. ASSUME NEW w \in Workers, Worker(w) PROVE NoFailureUnseen' /\ NothingDropped'
  <2>1. CASE OnFlush(w)
    <3>1. broken' = broken /\ completions' = completions
      BY <2>1 DEF OnFlush
    <3>2. ~closed' /\ ~broken' => Due' = accepted'
      BY <2>1, <3>1, OnFlushFlow
    <3>3. QED
      BY <3>1, <3>2, StillNoFailure, FlowPrimed
  <2>2. CASE OnSendDone(w)
    <3>1. broken' = broken /\ completions # <<>> /\ completions' = Tail(completions)
      BY <2>2, OnSendDoneUnfold
    <3>2. completions' = <<>>
      BY <3>1, OnlyCompletion DEF StreamInv
    <3>3. ~closed' /\ ~broken' => Due' = accepted'
      BY <2>2, <3>1, OnSendDoneFlow
    <3>4. QED
      BY <3>1, <3>2, <3>3, StillNoFailure, FlowPrimed
  <2>3. CASE WorkerClose(w)
    BY <2>3, StillFlow DEF WorkerClose
  <2>4. CASE Release(w)
    BY <2>4, StillFlow DEF Release
  <2>5. QED
    BY <1>4, <2>1, <2>2, <2>3, <2>4 DEF Worker
<1>5. CASE KernelSend
  <2>1. CASE broken'
    BY <2>1 DEF NoFailureUnseen, NothingDropped
  <2>2. CASE ~broken'
    BY <1>5, <2>2, KernelSendFlow, FlowPrimed
  <2>3. QED
    BY <2>1, <2>2
<1>6. CASE CloseElsewhere
  BY <1>6, StillFlow DEF CloseElsewhere
<1>7. QED
  BY <1>2, <1>3, <1>4, <1>5, <1>6 DEF Next

LEMMA InitStream == Init => StreamInv
<1> SUFFICES ASSUME Init PROVE StreamInv
  OBVIOUS
<1>1. IInv
  BY InitIInv
<1>2. NoFailureUnseen
  BY DEF Init, NoFailureUnseen
<1>3. wire = <<>> /\ InFlight = <<>> /\ sendPending = <<>> /\ accepted = <<>>
  BY DEF Init, InFlight
<1>4. <<>> \o <<>> = <<>>
  BY EmptySeq, ConcatEmptySeq
<1>5. NothingDropped
  BY <1>3, <1>4, Zenon DEF NothingDropped
<1>6. QED
  BY <1>1, <1>2, <1>5 DEF StreamInv

LEMMA StreamInvariance == ASSUME FailureIsFinal PROVE Spec => []StreamInv
<1>1. StreamInv /\ [Next]_vars => StreamInv'
  BY StreamStep
<1>2. QED
  BY <1>1, InitStream, PTL DEF Spec

(* On a socket for which a failed send is final, partial sends lose and    *)
(* repeat no byte, whatever the senders and workers interleave.            *)
THEOREM NothingLost == ASSUME FailureIsFinal PROVE Spec => []NothingDropped
<1>1. StreamInv => NothingDropped
  BY DEF StreamInv
<1>2. QED
  BY <1>1, StreamInvariance, PTL

-----------------------------------------------------------------------------
(* The refinement of OutboundStream, step by step.                         *)
LEMMA StutterOrClose ==
  ASSUME accepted' = accepted, wire' = wire, closed' = closed \/ (~closed /\ closed' = TRUE)
  PROVE  [Stream!Next]_(Stream!vars)
BY DEF Stream!Next, Stream!Close, Stream!vars

(* The sent bytes are a beginning of the accepted ones, and longer after a *)
(* send that moved some.                                                   *)
LEMMA TransmitStep ==
  ASSUME NEW a \in Seq(Byte), NEW st \in Seq(Byte), NEW p \in Seq(Byte),
         NEW k \in 1..Len(st)
  PROVE  /\ a \o SubSeq(st, 1, k) = SubSeq((a \o st) \o p, 1, Len(a) + k)
         /\ Len(a) + k \in (Len(a) + 1)..Len((a \o st) \o p)
<1>1. Len(a) \in Nat /\ Len(st) \in Nat /\ Len(p) \in Nat
  BY LenProperties
<1>2. /\ a \o st \in Seq(Byte) /\ Len(a \o st) = Len(a) + Len(st)
      /\ \A i \in 1..(Len(a) + Len(st)) : (a \o st)[i] = IF i <= Len(a) THEN a[i] ELSE st[i - Len(a)]
  BY ConcatProperties
<1> DEFINE t == a \o st
<1>3. t \in Seq(Byte) /\ Len(t) = Len(a) + Len(st)
  BY <1>2
<1> HIDE DEF t
<1>4. /\ t \o p \in Seq(Byte) /\ Len(t \o p) = Len(t) + Len(p)
      /\ \A i \in 1..(Len(t) + Len(p)) : (t \o p)[i] = IF i <= Len(t) THEN t[i] ELSE p[i - Len(t)]
  <2>1. t \in Seq(Byte) /\ p \in Seq(Byte)
    BY <1>3
  <2>2. QED
    BY <2>1, ConcatProperties
<1> DEFINE u == t \o p
           front == SubSeq(st, 1, k)
<1>5. u \in Seq(Byte) /\ Len(u) = Len(a) + Len(st) + Len(p)
  BY <1>1, <1>3, <1>4
<1>6. \A i \in 1..(Len(a) + Len(st)) : u[i] = t[i]
  BY <1>1, <1>3, <1>4
<1>7. /\ front \in Seq(Byte) /\ Len(front) = k
      /\ \A i \in 1..k : front[i] = st[i]
  <2>1. 1 \in Int /\ k \in Int /\ \A i \in 1..k : st[i] \in Byte
    BY <1>1, ElementOfSeq
  <2>2. /\ front \in Seq(Byte) /\ Len(front) = IF 1 <= k THEN k - 1 + 1 ELSE 0
        /\ \A i \in 1..(k - 1 + 1) : front[i] = st[1 + i - 1]
    BY <2>1, SubSeqProperties
  <2>3. QED
    BY <1>1, <2>2
<1> HIDE DEF u, front
<1>8. /\ a \o front \in Seq(Byte) /\ Len(a \o front) = Len(a) + k
      /\ \A i \in 1..(Len(a) + k) : (a \o front)[i] = IF i <= Len(a) THEN a[i] ELSE front[i - Len(a)]
  BY <1>7, ConcatProperties
<1>9. /\ SubSeq(u, 1, Len(a) + k) \in Seq(Byte) /\ Len(SubSeq(u, 1, Len(a) + k)) = Len(a) + k
      /\ \A i \in 1..(Len(a) + k) : SubSeq(u, 1, Len(a) + k)[i] = u[i]
  <2> DEFINE n == Len(a) + k
  <2>1. 1 \in Int /\ n \in Int /\ n \in Nat /\ n >= 1 /\ \A i \in 1..n : u[i] \in Byte
    BY <1>1, <1>5, ElementOfSeq
  <2> HIDE DEF n
  <2>2. /\ SubSeq(u, 1, n) \in Seq(Byte) /\ Len(SubSeq(u, 1, n)) = IF 1 <= n THEN n - 1 + 1 ELSE 0
        /\ \A i \in 1..(n - 1 + 1) : SubSeq(u, 1, n)[i] = u[1 + i - 1]
    BY <2>1, SubSeqProperties
  <2>3. /\ SubSeq(u, 1, n) \in Seq(Byte) /\ Len(SubSeq(u, 1, n)) = n
        /\ \A i \in 1..n : SubSeq(u, 1, n)[i] = u[i]
    BY <2>1, <2>2
  <2>4. QED
    BY <2>3 DEF n
<1>10. ASSUME NEW i \in 1..(Len(a) + k)
       PROVE  (a \o front)[i] = u[i]
  <2>1. i \in 1..(Len(a) + Len(st)) /\ i \in Nat
    BY <1>1
  <2>2. u[i] = IF i <= Len(a) THEN a[i] ELSE st[i - Len(a)]
    BY <1>2, <1>6, <2>1 DEF t
  <2>3. CASE i <= Len(a)
    BY <1>8, <2>2, <2>3
  <2>4. CASE ~(i <= Len(a))
    <3>1. i - Len(a) \in 1..k
      BY <1>1, <2>4
    <3>2. QED
      BY <1>7, <1>8, <2>2, <2>4, <3>1
  <2>5. QED
    BY <2>3, <2>4
<1>11. a \o front = SubSeq(u, 1, Len(a) + k)
  <2> DEFINE x == a \o front
             y == SubSeq(u, 1, Len(a) + k)
  <2>1. /\ x \in Seq(Byte) /\ y \in Seq(Byte) /\ Len(x) = Len(a) + k /\ Len(x) = Len(y)
        /\ \A i \in 1..(Len(a) + k) : x[i] = y[i]
    BY <1>8, <1>9, <1>10
  <2> HIDE DEF x, y
  <2>2. x = y
    BY <2>1, SeqEqual
  <2>3. QED
    BY <2>2 DEF x, y
<1>12. Len(a) + k \in (Len(a) + 1)..Len(u)
  BY <1>1, <1>5
<1>13. QED
  BY <1>11, <1>12 DEF u, t, front

LEMMA KernelSendImplements ==
  ASSUME FailureIsFinal, StreamInv, KernelSend
  PROVE  [Stream!Next]_(Stream!vars)
<1>1. PICK moved \in 0..Len(sendStaging), ok \in BOOLEAN :
        /\ closed \/ broken => moved = 0 /\ ~ok
        /\ wire' = wire \o SubSeq(sendStaging, 1, moved)
  BY DEF KernelSend
<1>2. issued > 0 /\ accepted' = accepted /\ closed' = closed
  BY DEF KernelSend
<1>3. /\ IInv /\ sending /\ completions = <<>>
      /\ sendStaging \in Seq(Byte) /\ wire \in Seq(Byte) /\ sendPending \in Seq(Byte)
      /\ Len(sendStaging) \in Nat
  BY <1>2, OnlyIssued, InFlightType, StateFacts DEF StreamInv
<1>4. CASE moved = 0
  <2>1. SubSeq(sendStaging, 1, 0) = <<>>
    BY SubSeqEmpty
  <2>2. wire' = wire
    BY <1>1, <1>3, <1>4, <2>1, ConcatEmptySeq
  <2>3. QED
    BY <1>2, <2>2, StutterOrClose
<1>5. CASE moved # 0
  <2>1. ~closed /\ ~broken /\ moved \in 1..Len(sendStaging)
    BY <1>1, <1>3, <1>5
  <2>2. accepted = (wire \o sendStaging) \o sendPending
    BY <1>3, <2>1 DEF StreamInv, NothingDropped, InFlight
  <2>3. /\ wire' = SubSeq(accepted, 1, Len(wire) + moved)
        /\ Len(wire) + moved \in (Len(wire) + 1)..Len(accepted)
    BY <1>1, <1>3, <2>1, <2>2, TransmitStep
  <2>4. Stream!Transmit
    BY <1>2, <2>1, <2>3 DEF Stream!Transmit
  <2>5. QED
    BY <2>4 DEF Stream!Next
<1>6. QED
  BY <1>4, <1>5

LEMMA SendAppendImplements ==
  ASSUME StreamInv, NEW s \in Senders, SendAppend(s)
  PROVE  [Stream!Next]_(Stream!vars)
<1>1. msg[s] \in Messages /\ closed \in BOOLEAN
  BY DEF StreamInv, IInv, TypeOK
<1>2. accepted' = accepted \o Bytes(msg[s]) /\ wire' = wire
  BY DEF SendAppend
<1>3. closed' = closed \/ closed' = TRUE
  BY DEF SendAppend, PostSendLocked
<1>4. Stream!Bytes(msg[s]) = Bytes(msg[s])
  BY DEF Stream!Bytes, Bytes
<1>5. Stream!Accept(msg[s])
  BY <1>2, <1>3, <1>4 DEF Stream!Accept
<1>6. QED
  BY <1>1, <1>5 DEF Stream!Next

LEMMA StepImplements ==
  ASSUME FailureIsFinal, StreamInv, [Next]_vars
  PROVE  [Stream!Next]_(Stream!vars)
<1>1. closed \in BOOLEAN
  BY DEF StreamInv, IInv, TypeOK
<1>2. CASE UNCHANGED vars
  BY <1>2, StutterOrClose DEF vars
<1>3. ASSUME NEW s \in Senders, Sender(s) PROVE [Stream!Next]_(Stream!vars)
  <2>1. CASE SendAppend(s)
    BY <2>1, SendAppendImplements
  <2>2. CASE (\E m \in Messages : SendEnter(s, m)) \/ SendOverflow(s) \/ SenderClose(s)
    BY <1>1, <2>2, StutterOrClose DEF SendEnter, SendOverflow, SenderClose
  <2>3. QED
    BY <1>3, <2>1, <2>2 DEF Sender
<1>4. ASSUME NEW w \in Workers, Worker(w) PROVE [Stream!Next]_(Stream!vars)
  <2>1. accepted' = accepted /\ wire' = wire
    BY <1>4 DEF Worker, OnFlush, OnSendDone, WorkerClose, Release
  <2>2. closed' = closed \/ closed' = TRUE
    BY <1>4 DEF Worker, OnFlush, OnSendDone, WorkerClose, Release, PostSendLocked
  <2>3. QED
    BY <1>1, <2>1, <2>2, StutterOrClose
<1>5. CASE KernelSend
  BY <1>5, KernelSendImplements
<1>6. CASE CloseElsewhere
  BY <1>1, <1>6, StutterOrClose DEF CloseElsewhere
<1>7. QED
  BY <1>2, <1>3, <1>4, <1>5, <1>6 DEF Next

(* What the senders and the peer see are steps of OutboundStream: messages *)
(* are accepted whole, the bytes on the wire only grow, along the accepted *)
(* ones, and nothing is sent after the connection is closed.               *)
THEOREM ImplementsStreamSteps ==
  ASSUME FailureIsFinal
  PROVE  Spec => Stream!Init /\ [][Stream!Next]_(Stream!vars)
<1>1. Init => Stream!Init
  BY DEF Init, Stream!Init
<1>2. StreamInv /\ [Next]_vars => [Stream!Next]_(Stream!vars)
  BY StepImplements
<1>3. Spec => []StreamInv
  BY StreamInvariance
<1>4. QED
  BY <1>1, <1>2, <1>3, PTL DEF Spec

=============================================================================
