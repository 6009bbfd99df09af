---------------------- MODULE ConnectionReceiveProofs ----------------------
(***************************************************************************)
(* Proofs about ConnectionReceive: for any connections, workers, lanes and *)
(* setups that pending_ counts right and that the lanes get the frames in  *)
(* order; and, when one worker runs or the policy is to refuse, that the   *)
(* buffer has one owner and always room, and that no connection is         *)
(* forgotten.                                                              *)
(***************************************************************************)
EXTENDS ConnectionReceive, Integers, SequenceTheorems, FiniteSetTheorems, TLAPS

-----------------------------------------------------------------------------
(* What holds in every setup. Two receives at once, which two workers      *)
(* under backpressure can bring about, may spoil the buffer, but not what  *)
(* the count in pending_ is about.                                         *)
Places == {"idle", "drain", "list", "repost", "resume", "resumedDrain",
           "resumedList", "resumedRepost", "release"}

CountType ==
  /\ setup \in Setups
  /\ adopted \in [Conns -> BOOLEAN] /\ closed \in [Conns -> BOOLEAN]
  /\ recvPaused \in [Conns -> BOOLEAN] /\ resumeQueued \in [Conns -> BOOLEAN]
  /\ pending \in [Conns -> Nat]
  /\ posted \in [Conns -> Nat] /\ resumePackets \in [Conns -> Nat]
  /\ completions \in [Conns -> Seq(Int)]
  /\ wpc \in [Workers -> Places] /\ wconn \in [Workers -> Conns]
  /\ paused \in [Lanes -> Seq(Conns)] /\ waking \in [Lanes -> Seq(Conns)]
  /\ lpc \in [Lanes -> {"idle", "batch", "wake"}]

(* resume_paused has somebody to wake exactly while it runs.               *)
WakingExact == \A l \in Lanes : lpc[l] = "wake" <=> waking[l] # <<>>

Busy(c) == {w \in Workers : wpc[w] # "idle" /\ wconn[w] = c}

NothingBeforeAdopt ==
  \A c \in Conns : ~adopted[c] =>
     /\ posted[c] = 0 /\ completions[c] = <<>> /\ resumePackets[c] = 0
     /\ ~recvPaused[c] /\ ~closed[c]
     /\ Busy(c) = {}

CountInv == CountType /\ WakingExact /\ NothingBeforeAdopt /\ PendingCount

-----------------------------------------------------------------------------
(* One worker, or a policy that refuses: then the buffer has one owner.    *)
OneWorkerOrRefusal ==
  \A s \in Setups : s.policy = "reject" \/ \A v, w \in s.threads : v = w

(* What is left of an incomplete frame, one unit, and a receive fit in the *)
(* first chunk: 1,029 and 4,096 bytes of 8,192 in the code.                *)
ChunkSuffices == MinFree + 1 <= Chunk

Handles(w, c) == wconn[w] = c /\ wpc[w] \notin {"idle", "release"}
NoneOutstanding(c) == posted[c] = 0 /\ completions[c] = <<>>

InThreads == \A w \in Workers : wpc[w] # "idle" => w \in setup.threads

(* The outstanding receive or the handler owns the buffer.                 *)
OneOwner ==
  /\ \A c \in Conns : Outstanding(c) <= 1
  /\ \A c \in Conns, w \in Workers : Handles(w, c) =>
        NoneOutstanding(c) /\ \A v \in Workers : Handles(v, c) => v = w

(* A connection is paused only under backpressure, and then has no receive *)
(* outstanding; its handler, if it still has one, is past draining.        *)
PausedQuiet ==
  \A c \in Conns : recvPaused[c] =>
     /\ setup.policy = "backpressure" /\ NoneOutstanding(c)
     /\ \A w \in Workers : wconn[w] = c => wpc[w] \notin {"drain", "resume", "resumedDrain"}

(* One notification at a time, of a connection that is paused;             *)
(* resume_queued_ is set from its post to the store of on_resume.          *)
ResumeFlags ==
  \A c \in Conns :
     /\ resumePackets[c] <= 1
     /\ resumePackets[c] > 0 => recvPaused[c] /\ resumeQueued[c]
     /\ resumeQueued[c] => \/ resumePackets[c] > 0
                           \/ \E w \in Workers : wconn[w] = c /\ wpc[w] = "resume"

Listing(w, c) == wconn[w] = c /\ wpc[w] \in {"list", "resumedList"}
ListingPaused ==
  \A c \in Conns, w \in Workers : Listing(w, c) => recvPaused[c] /\ Kind(c) \in Lanes

(* Somebody is going to resume a paused connection.                        *)
PausedKnown ==
  \A c \in Conns : recvPaused[c] /\ c \notin stranded =>
     resumePackets[c] > 0 \/ Listed(c) \/ \E w \in Workers : Listing(w, c)

(* An open connection has a receive outstanding, is in a handler, or is    *)
(* paused.                                                                 *)
InService ==
  \A c \in Conns : adopted[c] /\ ~closed[c] =>
     ~NoneOutstanding(c) \/ (\E w \in Workers : Handles(w, c)) \/ recvPaused[c]

(* The buffer never grows: a receive is posted only when less than a frame *)
(* is left.                                                                *)
BufferSize ==
  \A c \in Conns : buf[c].cap = IF adopted[c] THEN Chunk ELSE 0

LittleLeft ==
  \A c \in Conns, w \in Workers :
     wconn[w] = c /\ wpc[w] \in {"repost", "resumedRepost"} =>
        closed[c] \/ recvPaused[c] \/ ReadableSize(buf[c]) <= 1

(* The kernel has not received more than there was room for.               *)
CompletionsFit ==
  \A c \in Conns : \A i \in DOMAIN completions[c] :
     completions[c][i] <= WritableSize(buf[c])

(* What the types say of the buffer and of the history variables.          *)
Buffers == [cap : 0..MaxCapacity, read : Nat, write : Nat]
DataType ==
  /\ buf \in [Conns -> Buffers]
  /\ \A c \in Conns : buf[c].read <= buf[c].write /\ buf[c].write <= buf[c].cap
  /\ completions \in [Conns -> Seq(0..MaxCapacity)]
  /\ consumed \in [Conns -> Nat] /\ refused \in [Conns -> SUBSET Nat]
  /\ stranded \in SUBSET Conns

OwnerInv == InThreads /\ OneOwner /\ PausedQuiet /\ ResumeFlags /\ ListingPaused
ServiceInv == PausedKnown /\ InService
BufferInv == DataType /\ BufferSize /\ LittleLeft /\ CompletionsFit /\ RoomToReceive

IInv == CountInv /\ OwnerInv /\ ServiceInv /\ BufferInv

-----------------------------------------------------------------------------
(* The count of pending_.                                                  *)
LEMMA BusyFinite ==
  ASSUME NEW c \in Conns
  PROVE  IsFiniteSet(Busy(c)) /\ Cardinality(Busy(c)) \in Nat
<1>1. Busy(c) \subseteq Workers
  BY DEF Busy
<1>2. QED
  BY <1>1, ReceiveAssumption, FS_Subset, FS_CardinalityType

LEMMA BusySame ==
  ASSUME wconn' = wconn, \A w \in Workers : wpc'[w] = "idle" <=> wpc[w] = "idle"
  PROVE  \A c \in Conns : Busy(c)' = Busy(c)
BY DEF Busy

LEMMA BusyTake ==
  ASSUME CountType, NEW w \in Workers, NEW c \in Conns, NEW p \in Places, p # "idle",
         wpc[w] = "idle", wpc' = [wpc EXCEPT ![w] = p], wconn' = [wconn EXCEPT ![w] = c]
  PROVE  /\ Cardinality(Busy(c)') = Cardinality(Busy(c)) + 1
         /\ \A d \in Conns : d # c => Busy(d)' = Busy(d)
<1>1. Busy(c)' = Busy(c) \union {w} /\ w \notin Busy(c)
  BY DEF Busy, CountType
<1>2. \A d \in Conns : d # c => Busy(d)' = Busy(d)
  BY DEF Busy, CountType
<1>3. Cardinality(Busy(c)') = Cardinality(Busy(c)) + 1
  BY <1>1, BusyFinite, FS_AddElement
<1>4. QED
  BY <1>2, <1>3

LEMMA BusyRelease ==
  ASSUME CountType, NEW w \in Workers, NEW c \in Conns, wconn[w] = c, wpc[w] # "idle",
         wpc' = [wpc EXCEPT ![w] = "idle"], NEW b \in Conns, wconn' = [wconn EXCEPT ![w] = b]
  PROVE  /\ Cardinality(Busy(c)') = Cardinality(Busy(c)) - 1
         /\ Cardinality(Busy(c)) # 0
         /\ \A d \in Conns : d # c => Busy(d)' = Busy(d)
<1>1. Busy(c)' = Busy(c) \ {w} /\ w \in Busy(c)
  BY DEF Busy, CountType
<1>2. \A d \in Conns : d # c => Busy(d)' = Busy(d)
  BY DEF Busy, CountType
<1>3. Cardinality(Busy(c)') = Cardinality(Busy(c)) - 1
  BY <1>1, BusyFinite, FS_RemoveElement
<1>4. Cardinality(Busy(c)) # 0
  BY <1>1, BusyFinite, FS_EmptySet
<1>5. QED
  BY <1>2, <1>3, <1>4

(* What is still owed a handler; the kinds of steps that change the count. *)
Owed(c) == posted[c] + Len(completions[c]) + resumePackets[c]

Same(c) == Owed(c)' = Owed(c) /\ Busy(c)' = Busy(c) /\ pending'[c] = pending[c]
Issued(c) == Owed(c)' = Owed(c) + 1 /\ Busy(c)' = Busy(c) /\ pending'[c] = pending[c] + 1
Taken(c) == /\ Owed(c)' = Owed(c) - 1 /\ Cardinality(Busy(c)') = Cardinality(Busy(c)) + 1
            /\ pending'[c] = pending[c]
Finished(c) == /\ Owed(c)' = Owed(c) /\ Cardinality(Busy(c)') = Cardinality(Busy(c)) - 1
               /\ Cardinality(Busy(c)) # 0 /\ pending'[c] = pending[c] - 1

LEMMA CountStep ==
  ASSUME CountType, PendingCount,
         NEW c \in Conns, Same(c) \/ Issued(c) \/ Taken(c) \/ Finished(c)
  PROVE  /\ pending'[c] = Outstanding(c)' + resumePackets'[c]
                          + Cardinality({w \in Workers : wpc'[w] # "idle" /\ wconn'[w] = c})
         /\ pending'[c] \in Nat
<1>1. Owed(c) \in Nat /\ Cardinality(Busy(c)) \in Nat /\ pending[c] \in Nat
  BY BusyFinite DEF CountType, Owed
<1>2. pending[c] = Owed(c) + Cardinality(Busy(c))
  BY DEF PendingCount, Outstanding, Owed, Busy
<1>3. pending'[c] = Owed(c)' + Cardinality(Busy(c)') /\ pending'[c] \in Nat
  <2>1. CASE Same(c)
    BY <1>1, <1>2, <2>1 DEF Same
  <2>2. CASE Issued(c)
    BY <1>1, <1>2, <2>2 DEF Issued
  <2>3. CASE Taken(c)
    BY <1>1, <1>2, <2>3 DEF Taken
  <2>4. CASE Finished(c)
    BY <1>1, <1>2, <2>4 DEF Finished
  <2>5. QED
    BY <2>1, <2>2, <2>3, <2>4
<1>4. QED
  BY <1>3 DEF Outstanding, Owed, Busy

LEMMA CountAll ==
  ASSUME CountType, PendingCount, pending' \in [Conns -> Int],
         \A c \in Conns : Same(c) \/ Issued(c) \/ Taken(c) \/ Finished(c)
  PROVE  PendingCount' /\ pending' \in [Conns -> Nat]
<1>1. PendingCount'
  BY CountStep DEF PendingCount
<1>2. \A c \in Conns : pending'[c] \in Nat
  BY CountStep
<1>3. QED
  BY <1>1, <1>2

(* Steps that move no operation and take or release no worker.             *)
Quiet ==
  /\ UNCHANGED <<posted, completions, resumePackets, pending, wconn>>
  /\ wpc' \in [Workers -> Places]
  /\ \A w \in Workers : wpc'[w] = "idle" <=> wpc[w] = "idle"

LEMMA QuietCounts ==
  ASSUME CountInv, Quiet
  PROVE  PendingCount' /\ \A c \in Conns : Busy(c)' = Busy(c)
<1>1. \A c \in Conns : Busy(c)' = Busy(c)
  BY BusySame DEF Quiet
<1>2. QED
  BY <1>1 DEF CountInv, PendingCount, Outstanding, Busy, Quiet

(* The handler's steps between its first and its last are quiet.           *)
LEMMA GoIsQuiet ==
  ASSUME CountInv, NEW w \in Workers, wpc[w] # "idle", NEW p \in Places, p # "idle", Go(w, p),
         UNCHANGED <<posted, completions, resumePackets, pending, wconn>>
  PROVE  Quiet
BY DEF CountInv, CountType, Go, Quiet

LEMMA CloseType ==
  ASSUME CountInv, NEW c \in Conns, Close(c)
  PROVE  closed' \in [Conns -> BOOLEAN] /\ \A d \in Conns : d # c => closed'[d] = closed[d]
BY DEF CountInv, CountType, Close

(* A quiet step of an adopted connection, which leaves the rest to the     *)
(* types.                                                                  *)
LEMMA QuietKeeps ==
  ASSUME CountInv, Quiet, CountType', WakingExact', adopted' = adopted,
         \A c \in Conns : ~adopted[c] => recvPaused'[c] = recvPaused[c] /\ closed'[c] = closed[c]
  PROVE  CountInv'
<1>1. PendingCount' /\ \A c \in Conns : Busy(c)' = Busy(c)
  BY QuietCounts
<1>2. NothingBeforeAdopt'
  BY <1>1 DEF CountInv, CountType, NothingBeforeAdopt, Quiet
<1>3. QED
  BY <1>1, <1>2 DEF CountInv

LEMMA BusyAdopted ==
  ASSUME CountInv, NEW w \in Workers, wpc[w] # "idle"
  PROVE  wconn[w] \in Conns /\ adopted[wconn[w]]
<1>1. wconn[w] \in Conns
  BY DEF CountInv, CountType
<1>2. w \in Busy(wconn[w])
  BY DEF Busy
<1>3. QED
  BY <1>1, <1>2 DEF CountInv, NothingBeforeAdopt

LEMMA CloseElsewhereCounts ==
  ASSUME CountInv, NEW c \in Conns, CloseElsewhere(c)
  PROVE  CountInv'
<1>1. Quiet
  BY DEF CloseElsewhere, Quiet, portVars, workVars, CountInv, CountType
<1>2. /\ adopted[c] /\ Close(c)
      /\ UNCHANGED <<setup, adopted, recvPaused, resumeQueued, paused, waking, lpc>>
  BY DEF CloseElsewhere
<1>3. closed' \in [Conns -> BOOLEAN] /\ \A d \in Conns : d # c => closed'[d] = closed[d]
  BY <1>2, CloseType
<1>4. CountType' /\ WakingExact'
  BY <1>1, <1>2, <1>3 DEF CountInv, CountType, WakingExact, Quiet
<1>5. QED
  BY <1>1, <1>2, <1>3, <1>4, QuietKeeps

LEMMA DrainFatalCounts ==
  ASSUME CountInv, NEW w \in Workers, DrainFatal(w)
  PROVE  CountInv'
<1>1. Quiet
  BY DEF DrainFatal, Quiet, portVars, workVars, CountInv, CountType
<1>2. PICK c \in Conns : wconn[w] = c /\ adopted[c]
  BY BusyAdopted DEF DrainFatal, Draining
<1>3. /\ Close(c)
      /\ UNCHANGED <<setup, adopted, recvPaused, resumeQueued, paused, waking, lpc>>
  BY <1>2 DEF DrainFatal
<1>4. closed' \in [Conns -> BOOLEAN] /\ \A d \in Conns : d # c => closed'[d] = closed[d]
  BY <1>3, CloseType
<1>5. CountType' /\ WakingExact'
  BY <1>1, <1>3, <1>4 DEF CountInv, CountType, WakingExact, Quiet
<1>6. QED
  BY <1>1, <1>2, <1>3, <1>4, <1>5, QuietKeeps

LEMMA ClearResumeCounts ==
  ASSUME CountInv, NEW w \in Workers, ClearResume(w)
  PROVE  CountInv'
<1>1. Quiet
  BY GoIsQuiet DEF ClearResume, portVars, Places
<1>2. /\ resumeQueued' \in [Conns -> BOOLEAN]
      /\ UNCHANGED <<setup, adopted, closed, recvPaused, paused, waking, lpc>>
  BY DEF ClearResume, ResumeUnqueued, laneVars, CountInv, CountType
<1>3. CountType' /\ WakingExact'
  BY <1>1, <1>2 DEF CountInv, CountType, WakingExact, Quiet
<1>4. QED
  BY <1>1, <1>2, <1>3, QuietKeeps

LEMMA DrainIncompleteCounts ==
  ASSUME CountInv, NEW w \in Workers, DrainIncomplete(w)
  PROVE  CountInv'
<1>1. Quiet
  BY GoIsQuiet DEF DrainIncomplete, Draining, Leave, connVars, portVars, Places
<1>2. UNCHANGED <<setup, adopted, closed, recvPaused, resumeQueued, paused, waking, lpc>>
  BY DEF DrainIncomplete, connVars, laneVars
<1>3. CountType' /\ WakingExact'
  BY <1>1, <1>2 DEF CountInv, CountType, WakingExact, Quiet
<1>4. QED
  BY <1>1, <1>2, <1>3, QuietKeeps

LEMMA DrainTooLargeCounts ==
  ASSUME CountInv, NEW w \in Workers, DrainTooLarge(w)
  PROVE  CountInv'
<1>1. Quiet
  BY GoIsQuiet DEF DrainTooLarge, Draining, Leave, portVars, Places
<1>2. wpc[w] # "idle" /\ UNCHANGED <<setup, adopted, recvPaused, resumeQueued, paused, waking, lpc>>
  BY DEF DrainTooLarge, Draining
<1>3. PICK c \in Conns : wconn[w] = c /\ adopted[c]
  BY <1>2, BusyAdopted
<1>4. closed' \in [Conns -> BOOLEAN] /\ \A d \in Conns : d # c => closed'[d] = closed[d]
  BY <1>3, CloseType DEF DrainTooLarge
<1>5. CountType' /\ WakingExact'
  BY <1>1, <1>2, <1>4 DEF CountInv, CountType, WakingExact, Quiet
<1>6. QED
  BY <1>1, <1>2, <1>3, <1>4, <1>5, QuietKeeps

LEMMA ConsumeCounts ==
  ASSUME CountInv, NEW w \in Workers, DrainQueued(w) \/ DrainRefused(w)
  PROVE  CountInv'
<1>1. Quiet
  <2>1. \E p \in Places : p # "idle" /\ Go(w, p)
    BY DEF DrainQueued, DrainRefused, Consume, AfterFrame, Draining, Leave, Places
  <2>2. wpc[w] # "idle" /\ UNCHANGED <<posted, completions, resumePackets, pending, wconn>>
    BY DEF DrainQueued, DrainRefused, Draining, portVars
  <2>3. QED
    BY <2>1, <2>2, GoIsQuiet
<1>2. UNCHANGED <<setup, adopted, closed, recvPaused, resumeQueued, paused, waking, lpc>>
  BY DEF DrainQueued, DrainRefused, laneVars
<1>3. CountType' /\ WakingExact'
  BY <1>1, <1>2 DEF CountInv, CountType, WakingExact, Quiet
<1>4. QED
  BY <1>1, <1>2, <1>3, QuietKeeps

LEMMA PauseCounts ==
  ASSUME CountInv, NEW w \in Workers, Pause(w)
  PROVE  CountInv'
<1>1. Quiet
  BY GoIsQuiet DEF Pause, WhenFull, Draining, portVars, Places
<1>2. /\ wpc[w] # "idle" /\ recvPaused' = [recvPaused EXCEPT ![wconn[w]] = TRUE]
      /\ UNCHANGED <<setup, adopted, closed, resumeQueued, paused, waking, lpc>>
  BY DEF Pause, WhenFull, Draining, laneVars
<1>3. PICK c \in Conns : wconn[w] = c /\ adopted[c]
  BY <1>2, BusyAdopted
<1>4. CountType' /\ WakingExact'
  BY <1>1, <1>2 DEF CountInv, CountType, WakingExact, Quiet
<1>5. \A d \in Conns : ~adopted[d] => recvPaused'[d] = recvPaused[d]
  BY <1>2, <1>3 DEF CountInv, CountType
<1>6. QED
  BY <1>1, <1>2, <1>4, <1>5, QuietKeeps

LEMMA ListPausedCounts ==
  ASSUME CountInv, NEW w \in Workers, ListPaused(w)
  PROVE  CountInv'
<1>1. Quiet
  BY GoIsQuiet DEF ListPaused, portVars, Places
<1>2. UNCHANGED <<setup, adopted, closed, recvPaused, resumeQueued, waking, lpc>>
  BY DEF ListPaused
<1>3. paused' \in [Lanes -> Seq(Conns)]
  <2>1. PICK c \in Conns : wconn[w] = c
    BY DEF CountInv, CountType
  <2>2. paused' = [paused EXCEPT ![Kind(c)] = Append(@, c)]
    BY <2>1 DEF ListPaused
  <2>3. CASE Kind(c) \in Lanes
    BY <2>2, <2>3 DEF CountInv, CountType
  <2>4. CASE Kind(c) \notin Lanes
    BY <2>2, <2>4 DEF CountInv, CountType
  <2>5. QED
    BY <2>3, <2>4
<1>4. CountType' /\ WakingExact'
  BY <1>1, <1>2, <1>3 DEF CountInv, CountType, WakingExact, Quiet
<1>5. QED
  BY <1>1, <1>2, <1>4, QuietKeeps

(* Steps that move one operation of one connection, which is adopted.      *)
Counted(c) == Issued(c) \/ Taken(c) \/ Finished(c) \/ Same(c)
Others(c) ==
  \A d \in Conns : d # c =>
     /\ posted'[d] = posted[d] /\ completions'[d] = completions[d]
     /\ resumePackets'[d] = resumePackets[d] /\ pending'[d] = pending[d]
     /\ Busy(d)' = Busy(d) /\ recvPaused'[d] = recvPaused[d] /\ closed'[d] = closed[d]
     /\ adopted'[d] = adopted[d]
Shapes ==
  /\ setup \in Setups /\ setup' = setup /\ adopted' \in [Conns -> BOOLEAN]
  /\ closed' \in [Conns -> BOOLEAN] /\ recvPaused' \in [Conns -> BOOLEAN]
  /\ resumeQueued' \in [Conns -> BOOLEAN] /\ pending' \in [Conns -> Int]
  /\ posted' \in [Conns -> Nat] /\ resumePackets' \in [Conns -> Nat]
  /\ completions' \in [Conns -> Seq(Int)]
  /\ wpc' \in [Workers -> Places] /\ wconn' \in [Workers -> Conns]
  /\ UNCHANGED <<paused, waking, lpc>>

LEMMA OneCounts ==
  ASSUME CountInv, NEW c \in Conns, Shapes, Others(c), Counted(c), adopted'[c]
  PROVE  CountInv'
<1>1. ASSUME NEW d \in Conns, d # c PROVE Same(d)
  BY <1>1 DEF Others, Same, Owed
<1>2. PendingCount' /\ pending' \in [Conns -> Nat]
  <2>1. \A d \in Conns : Same(d) \/ Issued(d) \/ Taken(d) \/ Finished(d)
    BY <1>1 DEF Counted
  <2>2. CountType /\ PendingCount /\ pending' \in [Conns -> Int]
    BY DEF CountInv, Shapes
  <2>3. QED
    BY <2>1, <2>2, CountAll
<1>3. CountType' /\ WakingExact'
  BY <1>2 DEF CountInv, CountType, WakingExact, Shapes
<1>4. NothingBeforeAdopt'
  BY DEF CountInv, NothingBeforeAdopt, Others
<1>5. QED
  BY <1>2, <1>3, <1>4 DEF CountInv

LEMMA AdoptCounts ==
  ASSUME CountInv, NEW c \in Conns, Adopt(c)
  PROVE  CountInv'
<1>1. /\ ~adopted[c] /\ adopted' = [adopted EXCEPT ![c] = TRUE]
      /\ \/ posted' = [posted EXCEPT ![c] = 1] /\ pending' = [pending EXCEPT ![c] = 1] /\ closed' = closed
         \/ closed' = [closed EXCEPT ![c] = TRUE] /\ posted' = posted /\ pending' = pending
      /\ UNCHANGED <<setup, recvPaused, resumeQueued, completions, resumePackets, wpc, wconn,
                     paused, waking, lpc>>
  BY DEF Adopt, workVars
<1>2. posted[c] = 0 /\ completions[c] = <<>> /\ resumePackets[c] = 0 /\ Busy(c) = {}
  BY <1>1 DEF CountInv, NothingBeforeAdopt
<1>3. pending[c] = 0 /\ Owed(c) = 0
  <2>1. Len(<<>>) = 0 /\ Cardinality({}) = 0
    BY FS_EmptySet
  <2>2. Owed(c) = 0
    BY <1>2, <2>1 DEF Owed
  <2>3. pending[c] = Owed(c) + Cardinality(Busy(c))
    BY DEF CountInv, PendingCount, Outstanding, Owed, Busy
  <2>4. QED
    BY <1>2, <2>1, <2>2, <2>3
<1>4. \A d \in Conns : Busy(d)' = Busy(d)
  BY <1>1, BusySame
<1>5. Shapes
  <2>1. posted' \in [Conns -> Nat] /\ pending' \in [Conns -> Int]
    <3>1. posted \in [Conns -> Nat] /\ pending \in [Conns -> Nat]
      BY DEF CountInv, CountType
    <3>2. [posted EXCEPT ![c] = 1] \in [Conns -> Nat] /\ [pending EXCEPT ![c] = 1] \in [Conns -> Int]
      BY <3>1
    <3>3. pending \in [Conns -> Int]
      BY <3>1
    <3>4. QED
      BY <1>1, <3>1, <3>2, <3>3, Zenon
  <2>2. adopted' \in [Conns -> BOOLEAN] /\ closed' \in [Conns -> BOOLEAN]
    BY <1>1 DEF CountInv, CountType
  <2>3. QED
    BY <1>1, <2>1, <2>2 DEF Shapes, CountInv, CountType
<1>6. Others(c)
  BY <1>1, <1>4 DEF Others, CountInv, CountType
<1>7. Counted(c)
  <2>1. CASE posted' = posted /\ pending' = pending
    BY <1>1, <1>4, <2>1 DEF Counted, Same, Owed
  <2>2. CASE posted' = [posted EXCEPT ![c] = 1] /\ pending' = [pending EXCEPT ![c] = 1]
    <3>1. posted'[c] = 1 /\ pending'[c] = 1
      BY <2>2 DEF CountInv, CountType
    <3>2. Len(completions'[c]) = 0 /\ resumePackets'[c] = 0
      BY <1>1, <1>2
    <3>3. Owed(c)' = 1
      BY <3>1, <3>2 DEF Owed
    <3>4. QED
      BY <1>3, <1>4, <3>1, <3>3 DEF Counted, Issued
  <2>3. QED
    BY <1>1, <2>1, <2>2
<1>8. adopted'[c]
  BY <1>1 DEF CountInv, CountType
<1>9. QED
  BY <1>5, <1>6, <1>7, <1>8, OneCounts

LEMMA KernelReceiveCounts ==
  ASSUME CountInv, NEW c \in Conns, KernelReceive(c)
  PROVE  CountInv'
<1>1. PICK n \in Int :
        /\ posted[c] > 0 /\ posted' = [posted EXCEPT ![c] = posted[c] - 1]
        /\ completions' = [completions EXCEPT ![c] = Append(completions[c], n)]
  <2>1. PICK n \in 0..WritableSize(buf[c]) :
          completions' = [completions EXCEPT ![c] = Append(completions[c], n)]
    BY DEF KernelReceive
  <2>2. n \in Int
    OBVIOUS
  <2>3. QED
    BY <2>1, <2>2 DEF KernelReceive
<1>2. UNCHANGED <<setup, adopted, closed, recvPaused, resumeQueued, pending, resumePackets,
                  wpc, wconn, paused, waking, lpc>>
  BY DEF KernelReceive, connVars, workVars, laneVars
<1>3. \A d \in Conns : Busy(d)' = Busy(d)
  BY <1>2, BusySame
<1>4. posted[c] \in Nat /\ completions[c] \in Seq(Int) /\ resumePackets[c] \in Nat
  BY DEF CountInv, CountType
<1>5. /\ posted'[c] = posted[c] - 1 /\ completions'[c] = Append(completions[c], n)
      /\ \A d \in Conns : d # c => posted'[d] = posted[d] /\ completions'[d] = completions[d]
      /\ posted' \in [Conns -> Nat] /\ completions' \in [Conns -> Seq(Int)]
  BY <1>1, <1>4 DEF CountInv, CountType
<1>6. Shapes
  BY <1>2, <1>5 DEF Shapes, CountInv, CountType
<1>7. Others(c)
  BY <1>2, <1>3, <1>5 DEF Others
<1>8. Counted(c)
  <2>1. Len(completions'[c]) = Len(completions[c]) + 1 /\ Len(completions[c]) \in Nat
    BY <1>4, <1>5
  <2>2. Owed(c)' = Owed(c)
    BY <1>2, <1>4, <1>5, <2>1, SMTT(60) DEF Owed
  <2>3. QED
    BY <1>2, <1>3, <2>2 DEF Counted, Same
<1>9. adopted'[c]
  BY <1>1, <1>2 DEF CountInv, NothingBeforeAdopt
<1>10. QED
  BY <1>6, <1>7, <1>8, <1>9, OneCounts

(* A worker takes a completion.                                            *)
LEMMA TakeCounts ==
  ASSUME CountInv, NEW w \in Workers, NEW c \in Conns, ReceiveFailed(w, c) \/ ReceiveDone(w, c)
  PROVE  CountInv'
<1>1. /\ wpc[w] = "idle" /\ completions[c] # <<>>
      /\ completions' = [completions EXCEPT ![c] = Tail(completions[c])]
      /\ wconn' = [wconn EXCEPT ![w] = c]
      /\ UNCHANGED <<setup, adopted, recvPaused, resumeQueued, pending, posted, resumePackets,
                     paused, waking, lpc>>
  BY DEF ReceiveFailed, ReceiveDone, laneVars
<1>2. PICK p \in Places : p # "idle" /\ wpc' = [wpc EXCEPT ![w] = p]
  BY DEF ReceiveFailed, ReceiveDone, Go, Places
<1>3. closed' \in [Conns -> BOOLEAN] /\ \A d \in Conns : d # c => closed'[d] = closed[d]
  BY CloseType DEF ReceiveFailed, ReceiveDone, CountInv, CountType
<1>4. /\ Cardinality(Busy(c)') = Cardinality(Busy(c)) + 1
      /\ \A d \in Conns : d # c => Busy(d)' = Busy(d)
  BY <1>1, <1>2, BusyTake DEF CountInv
<1>5. posted[c] \in Nat /\ completions[c] \in Seq(Int) /\ resumePackets[c] \in Nat
  BY DEF CountInv, CountType
<1>6. /\ completions'[c] = Tail(completions[c]) /\ Tail(completions[c]) \in Seq(Int)
      /\ Len(completions[c]) \in Nat /\ Len(completions'[c]) = Len(completions[c]) - 1
  BY <1>1, <1>5 DEF CountInv, CountType
<1>7. /\ completions' \in [Conns -> Seq(Int)]
      /\ \A d \in Conns : d # c => completions'[d] = completions[d]
  BY <1>1, <1>6 DEF CountInv, CountType
<1>8. Shapes
  BY <1>1, <1>2, <1>3, <1>7 DEF Shapes, CountInv, CountType
<1>9. Others(c)
  BY <1>1, <1>3, <1>4, <1>7 DEF Others
<1>10. Counted(c)
  <2>1. Owed(c)' = Owed(c) - 1
    BY <1>1, <1>5, <1>6 DEF Owed
  <2>2. QED
    BY <1>1, <1>4, <2>1 DEF Counted, Taken
<1>11. adopted'[c]
  BY <1>1 DEF CountInv, NothingBeforeAdopt
<1>12. QED
  BY <1>8, <1>9, <1>10, <1>11, OneCounts

LEMMA OnResumeCounts ==
  ASSUME CountInv, NEW w \in Workers, NEW c \in Conns, OnResume(w, c)
  PROVE  CountInv'
<1>1. /\ wpc[w] = "idle" /\ resumePackets[c] > 0
      /\ resumePackets' = [resumePackets EXCEPT ![c] = resumePackets[c] - 1]
      /\ wconn' = [wconn EXCEPT ![w] = c] /\ wpc' = [wpc EXCEPT ![w] = "resume"]
      /\ recvPaused' = [recvPaused EXCEPT ![c] = FALSE]
      /\ UNCHANGED <<setup, adopted, closed, resumeQueued, pending, posted, completions,
                     paused, waking, lpc>>
  BY DEF OnResume, laneVars, Go
<1>2. "resume" \in Places /\ "resume" # "idle"
  BY DEF Places
<1>3. /\ Cardinality(Busy(c)') = Cardinality(Busy(c)) + 1
      /\ \A d \in Conns : d # c => Busy(d)' = Busy(d)
  BY <1>1, <1>2, BusyTake DEF CountInv
<1>4. posted[c] \in Nat /\ Len(completions[c]) \in Nat /\ resumePackets[c] \in Nat
  BY DEF CountInv, CountType
<1>5. /\ resumePackets'[c] = resumePackets[c] - 1 /\ resumePackets' \in [Conns -> Nat]
      /\ \A d \in Conns : d # c => resumePackets'[d] = resumePackets[d]
  BY <1>1, <1>4 DEF CountInv, CountType
<1>6. Shapes
  BY <1>1, <1>2, <1>5 DEF Shapes, CountInv, CountType
<1>7. Others(c)
  BY <1>1, <1>3, <1>5 DEF Others, CountInv, CountType
<1>8. Counted(c)
  <2>1. Owed(c)' = Owed(c) - 1
    BY <1>1, <1>4, <1>5 DEF Owed
  <2>2. QED
    BY <1>1, <1>3, <2>1 DEF Counted, Taken
<1>9. adopted'[c]
  BY <1>1, <1>4 DEF CountInv, NothingBeforeAdopt
<1>10. QED
  BY <1>6, <1>7, <1>8, <1>9, OneCounts

LEMMA RepostCounts ==
  ASSUME CountInv, NEW w \in Workers, Repost(w)
  PROVE  CountInv'
<1>1. /\ wpc[w] # "idle" /\ wpc' = [wpc EXCEPT ![w] = "release"]
      /\ UNCHANGED <<setup, adopted, recvPaused, resumeQueued, completions, resumePackets, wconn,
                     paused, waking, lpc>>
  BY DEF Repost, Go
<1>2. PICK c \in Conns : wconn[w] = c /\ adopted[c]
  BY <1>1, BusyAdopted
<1>3. /\ wpc' \in [Workers -> Places]
      /\ \A v \in Workers : wpc'[v] = "idle" <=> wpc[v] = "idle"
  BY <1>1 DEF CountInv, CountType, Places
<1>4. \A d \in Conns : Busy(d)' = Busy(d)
  BY <1>1, <1>3, BusySame
<1>5. CASE posted' = posted /\ pending' = pending /\ (closed' = closed \/ Close(c))
  <2>1. closed' \in [Conns -> BOOLEAN] /\ \A d \in Conns : d # c => closed'[d] = closed[d]
    BY <1>5, CloseType DEF CountInv, CountType
  <2>2. Quiet
    BY <1>1, <1>3, <1>5 DEF Quiet
  <2>3. CountType' /\ WakingExact'
    BY <1>1, <1>5, <2>1, <1>3 DEF CountInv, CountType, WakingExact
  <2>4. QED
    BY <1>1, <1>2, <2>1, <2>2, <2>3, QuietKeeps
<1>6. CASE /\ posted' = [posted EXCEPT ![c] = posted[c] + 1]
           /\ pending' = [pending EXCEPT ![c] = pending[c] + 1] /\ closed' = closed
  <2>1. posted[c] \in Nat /\ Len(completions[c]) \in Nat /\ resumePackets[c] \in Nat /\ pending[c] \in Nat
    BY DEF CountInv, CountType
  <2>2. /\ posted'[c] = posted[c] + 1 /\ pending'[c] = pending[c] + 1
        /\ posted' \in [Conns -> Nat] /\ pending' \in [Conns -> Int]
        /\ \A d \in Conns : d # c => posted'[d] = posted[d] /\ pending'[d] = pending[d]
    BY <1>6, <2>1 DEF CountInv, CountType
  <2>3. Shapes
    BY <1>1, <1>3, <1>6, <2>2 DEF Shapes, CountInv, CountType
  <2>4. Others(c)
    BY <1>1, <1>4, <1>6, <2>2 DEF Others
  <2>5. Counted(c)
    <3>1. Len(completions'[c]) = Len(completions[c]) /\ resumePackets'[c] = resumePackets[c]
      BY <1>1
    <3>2. Owed(c)' = Owed(c) + 1
      BY <2>1, <2>2, <3>1 DEF Owed
    <3>3. QED
      BY <1>4, <2>2, <3>2 DEF Counted, Issued
  <2>6. adopted'[c]
    BY <1>1, <1>2
  <2>7. QED
    BY <2>3, <2>4, <2>5, <2>6, OneCounts
<1>7. QED
  BY <1>2, <1>5, <1>6 DEF Repost, PostReceive

LEMMA ReleaseCounts ==
  ASSUME CountInv, NEW w \in Workers, Release(w)
  PROVE  CountInv'
<1>1. wpc[w] # "idle"
  BY DEF Release
<1>2. PICK c \in Conns : wconn[w] = c /\ adopted[c]
  BY <1>1, BusyAdopted
<1>3. /\ wpc' = [wpc EXCEPT ![w] = "idle"] /\ wconn' = [wconn EXCEPT ![w] = NoConn]
      /\ pending' = [pending EXCEPT ![c] = pending[c] - 1]
      /\ UNCHANGED <<setup, adopted, closed, recvPaused, resumeQueued, posted, completions,
                     resumePackets, paused, waking, lpc>>
  BY <1>2 DEF Release, Released, Go, portVars, laneVars
<1>4. NoConn \in Conns
  BY ReceiveAssumption DEF NoConn
<1>5. /\ Cardinality(Busy(c)') = Cardinality(Busy(c)) - 1 /\ Cardinality(Busy(c)) # 0
      /\ \A d \in Conns : d # c => Busy(d)' = Busy(d)
  BY <1>1, <1>2, <1>3, <1>4, BusyRelease DEF CountInv
<1>6. /\ pending'[c] = pending[c] - 1 /\ pending' \in [Conns -> Int]
      /\ \A d \in Conns : d # c => pending'[d] = pending[d]
  BY <1>3 DEF CountInv, CountType
<1>7. Shapes
  BY <1>3, <1>4, <1>6 DEF Shapes, CountInv, CountType, Places
<1>8. Others(c)
  BY <1>3, <1>5, <1>6 DEF Others
<1>9. Counted(c)
  BY <1>3, <1>5, <1>6 DEF Counted, Finished, Owed
<1>10. adopted'[c]
  BY <1>2, <1>3
<1>11. QED
  BY <1>7, <1>8, <1>9, <1>10, OneCounts

LEMMA LaneSwapCounts ==
  ASSUME CountInv, NEW l \in Lanes, LaneSwap(l)
  PROVE  CountInv'
<1>1. UNCHANGED <<setup, adopted, closed, recvPaused, resumeQueued, pending, posted, completions,
                  resumePackets, wpc, wconn, paused, waking>>
  BY DEF LaneSwap, connVars, portVars, workVars
<1>2. Quiet
  BY <1>1 DEF Quiet, CountInv, CountType
<1>3. lpc[l] = "idle" /\ lpc' = [lpc EXCEPT ![l] = "batch"]
  BY DEF LaneSwap
<1>4. CountType' /\ WakingExact'
  BY <1>1, <1>3 DEF CountInv, CountType, WakingExact
<1>5. QED
  BY <1>1, <1>2, <1>4, QuietKeeps

LEMMA LaneBatchCounts ==
  ASSUME CountInv, NEW l \in Lanes, LaneBatch(l)
  PROVE  CountInv'
<1>1. UNCHANGED <<setup, adopted, closed, recvPaused, resumeQueued, pending, posted, completions,
                  resumePackets, wpc, wconn>>
  BY DEF LaneBatch, connVars, portVars, workVars
<1>2. Quiet
  BY <1>1 DEF Quiet, CountInv, CountType
<1>3. /\ waking' = [waking EXCEPT ![l] = paused[l]] /\ paused' = [paused EXCEPT ![l] = <<>>]
      /\ lpc' = [lpc EXCEPT ![l] = IF paused[l] = <<>> THEN "idle" ELSE "wake"]
  BY DEF LaneBatch
<1>4. CountType'
  BY <1>1, <1>3 DEF CountInv, CountType
<1>5. WakingExact'
  BY <1>3 DEF CountInv, CountType, WakingExact
<1>6. QED
  BY <1>1, <1>2, <1>4, <1>5, QuietKeeps

(* resume_paused wakes the first of its list.                              *)
LEMMA LaneWakeFacts ==
  ASSUME CountInv, NEW l \in Lanes, LaneWake(l)
  PROVE  /\ waking[l] # <<>> /\ Head(waking[l]) \in Conns
         /\ waking' \in [Lanes -> Seq(Conns)] /\ lpc' \in [Lanes -> {"idle", "batch", "wake"}]
         /\ waking'[l] = Tail(waking[l])
         /\ \A m \in Lanes : m # l => waking'[m] = waking[m]
         /\ WakingExact'
<1>1. /\ lpc[l] = "wake" /\ waking' = [waking EXCEPT ![l] = Tail(waking[l])]
      /\ lpc' = [lpc EXCEPT ![l] = IF Len(waking[l]) > 1 THEN "wake" ELSE "idle"]
  BY DEF LaneWake
<1>2. waking[l] # <<>> /\ waking[l] \in Seq(Conns)
  BY <1>1 DEF CountInv, CountType, WakingExact
<1>3. /\ Head(waking[l]) \in Conns /\ Tail(waking[l]) \in Seq(Conns)
      /\ Tail(waking[l]) # <<>> <=> Len(waking[l]) > 1
  <2>1. Head(waking[l]) \in Conns /\ Tail(waking[l]) \in Seq(Conns) /\ Len(waking[l]) \in Nat
    BY <1>2
  <2>2. Len(Tail(waking[l])) = Len(waking[l]) - 1 /\ Len(waking[l]) # 0
    BY <1>2
  <2>3. Tail(waking[l]) = <<>> => Len(Tail(waking[l])) = 0
    BY EmptySeq
  <2>4. Tail(waking[l]) # <<>> => Len(Tail(waking[l])) \in Nat \ {0}
    BY <2>1, EmptySeq
  <2>5. Tail(waking[l]) # <<>> <=> Len(waking[l]) > 1
    <3>1. PICK n \in Nat : n = Len(waking[l])
      BY <2>1
    <3>2. PICK t \in Seq(Conns) : t = Tail(waking[l])
      BY <2>1
    <3>3. /\ Len(t) = n - 1 /\ n # 0 /\ (t = <<>> => Len(t) = 0)
          /\ (t # <<>> => Len(t) \in Nat \ {0})
      BY <2>2, <2>3, <2>4, <3>1, <3>2
    <3>4. t # <<>> <=> n > 1
      BY <3>3
    <3>5. QED
      BY <3>1, <3>2, <3>4
  <2>6. QED
    BY <2>1, <2>5
<1>4. /\ waking' \in [Lanes -> Seq(Conns)] /\ waking'[l] = Tail(waking[l])
      /\ \A m \in Lanes : m # l => waking'[m] = waking[m]
  BY <1>1, <1>3 DEF CountInv, CountType
<1>5. /\ lpc' \in [Lanes -> {"idle", "batch", "wake"}]
      /\ lpc'[l] = "wake" <=> Len(waking[l]) > 1
      /\ \A m \in Lanes : m # l => lpc'[m] = lpc[m]
  BY <1>1 DEF CountInv, CountType
<1>6. WakingExact'
  BY <1>3, <1>4, <1>5 DEF CountInv, WakingExact
<1>7. QED
  BY <1>2, <1>3, <1>4, <1>5, <1>6

LEMMA LaneWakeCounts ==
  ASSUME CountInv, NEW l \in Lanes, LaneWake(l)
  PROVE  CountInv'
<1>1. PICK c \in Conns : Head(waking[l]) = c
  BY LaneWakeFacts
<1>2. /\ UNCHANGED <<setup, adopted, closed, recvPaused, posted, completions, wpc, wconn, paused>>
      /\ ResumeReceive(c)
  BY <1>1 DEF LaneWake, workVars
<1>3. /\ waking' \in [Lanes -> Seq(Conns)] /\ lpc' \in [Lanes -> {"idle", "batch", "wake"}]
      /\ WakingExact'
  BY LaneWakeFacts
<1>4. resumeQueued' \in [Conns -> BOOLEAN]
  BY <1>2 DEF ResumeReceive, CountInv, CountType
<1>5. CASE UNCHANGED <<resumePackets, pending>>
  <2>1. Quiet
    BY <1>2, <1>5 DEF Quiet, CountInv, CountType
  <2>2. CountType'
    BY <1>2, <1>3, <1>4, <1>5 DEF CountInv, CountType
  <2>3. QED
    BY <1>2, <1>3, <2>1, <2>2, QuietKeeps
<1>6. CASE /\ recvPaused[c] /\ resumePackets' = [resumePackets EXCEPT ![c] = resumePackets[c] + 1]
           /\ pending' = [pending EXCEPT ![c] = pending[c] + 1]
  <2>1. posted[c] \in Nat /\ Len(completions[c]) \in Nat /\ resumePackets[c] \in Nat /\ pending[c] \in Nat
    BY DEF CountInv, CountType
  <2>2. /\ resumePackets'[c] = resumePackets[c] + 1 /\ pending'[c] = pending[c] + 1
        /\ resumePackets' \in [Conns -> Nat] /\ pending' \in [Conns -> Int]
        /\ \A d \in Conns : d # c => resumePackets'[d] = resumePackets[d] /\ pending'[d] = pending[d]
    BY <1>6, <2>1 DEF CountInv, CountType
  <2>3. \A d \in Conns : Busy(d)' = Busy(d)
    BY <1>2, BusySame
  <2>4. \A d \in Conns : d # c => Same(d)
    BY <1>2, <2>2, <2>3 DEF Same, Owed
  <2>5. Issued(c)
    <3>1. Owed(c)' = Owed(c) + 1
      BY <1>2, <2>1, <2>2 DEF Owed
    <3>2. QED
      BY <2>2, <2>3, <3>1 DEF Issued
  <2>6. PendingCount' /\ pending' \in [Conns -> Nat]
    <3>1. \A d \in Conns : Same(d) \/ Issued(d) \/ Taken(d) \/ Finished(d)
      BY <2>4, <2>5
    <3>2. QED
      BY <2>2, <3>1, CountAll DEF CountInv
  <2>7. CountType'
    BY <1>2, <1>3, <1>4, <2>2, <2>6 DEF CountInv, CountType
  <2>8. adopted[c]
    BY <1>6 DEF CountInv, NothingBeforeAdopt
  <2>9. NothingBeforeAdopt'
    BY <1>2, <2>2, <2>3, <2>8 DEF CountInv, NothingBeforeAdopt
  <2>10. QED
    BY <1>3, <2>6, <2>7, <2>9 DEF CountInv
<1>7. QED
  BY <1>2, <1>5, <1>6 DEF ResumeReceive

LEMMA InitCounts == Init => CountInv
<1>1. SUFFICES ASSUME Init PROVE CountInv
  OBVIOUS
<1>2. NoConn \in Conns
  BY ReceiveAssumption DEF NoConn
<1>3. CountType /\ WakingExact
  BY <1>1, <1>2 DEF Init, CountType, WakingExact, Places
<1>4. \A c \in Conns : Busy(c) = {}
  BY <1>1 DEF Init, Busy
<1>5. NothingBeforeAdopt
  BY <1>1, <1>4 DEF Init, NothingBeforeAdopt
<1>6. ASSUME NEW c \in Conns
      PROVE  pending[c] = Outstanding(c) + resumePackets[c] + Cardinality(Busy(c))
  <2>1. /\ pending[c] = 0 /\ posted[c] = 0 /\ resumePackets[c] = 0 /\ Len(completions[c]) = 0
    BY <1>1 DEF Init
  <2>2. Cardinality(Busy(c)) = 0
    BY <1>4, FS_EmptySet
  <2>3. QED
    BY <2>1, <2>2 DEF Outstanding
<1>7. PendingCount
  BY <1>6 DEF PendingCount, Busy
<1>8. QED
  BY <1>3, <1>5, <1>7 DEF CountInv

LEMMA NextCounts == CountInv /\ [Next]_vars => CountInv'
<1>1. SUFFICES ASSUME CountInv, [Next]_vars PROVE CountInv'
  OBVIOUS
<1>2. ASSUME NEW c \in Conns, Adopt(c) \/ KernelReceive(c) \/ CloseElsewhere(c) PROVE CountInv'
  BY <1>1, <1>2, AdoptCounts, KernelReceiveCounts, CloseElsewhereCounts
<1>3. ASSUME NEW w \in Workers, WorkerTakes(w) PROVE CountInv'
  BY <1>1, <1>3, TakeCounts, OnResumeCounts DEF WorkerTakes
<1>4. ASSUME NEW w \in Workers, WorkerGoesOn(w) PROVE CountInv'
  BY <1>1, <1>4, ClearResumeCounts, DrainIncompleteCounts, DrainTooLargeCounts, ConsumeCounts,
     DrainFatalCounts, PauseCounts, ListPausedCounts, RepostCounts, ReleaseCounts DEF WorkerGoesOn
<1>5. ASSUME NEW l \in Lanes, Lane(l) PROVE CountInv'
  BY <1>1, <1>5, LaneSwapCounts, LaneBatchCounts, LaneWakeCounts DEF Lane
<1>6. CASE UNCHANGED vars
  <2>1. UNCHANGED <<setup, adopted, closed, recvPaused, resumeQueued, pending, posted,
                    completions, resumePackets, wpc, wconn, paused, waking, lpc>>
    BY <1>6 DEF vars, connVars, portVars, workVars, laneVars
  <2>2. CountType' /\ WakingExact'
    BY <1>1, <2>1 DEF CountInv, CountType, WakingExact
  <2>3. Quiet
    BY <1>1, <2>1 DEF Quiet, CountInv, CountType
  <2>4. QED
    BY <1>1, <2>1, <2>2, <2>3, QuietKeeps
<1>7. QED
  BY <1>1, <1>2, <1>3, <1>4, <1>5, <1>6 DEF Next

LEMMA CountInvariance == Spec => []CountInv
BY InitCounts, NextCounts, PTL DEF Spec

(* pending_ counts exactly what still owes a notification or the end of a  *)
(* handler, in every setup: even where two workers and backpressure let    *)
(* two receives be outstanding, the sweeper's test of it means what it     *)
(* says.                                                                   *)
THEOREM PendingExact == Spec => []PendingCount
<1>1. CountInv => PendingCount
  BY DEF CountInv
<1>2. QED
  BY <1>1, CountInvariance, PTL

-----------------------------------------------------------------------------
(* reserve_free of a buffer with less than a frame in it makes room within *)
(* the first chunk: it never grows.                                        *)
LEMMA ReserveSmall ==
  ASSUME ChunkSuffices, NEW b \in Buffers, b.read <= b.write, b.write <= b.cap,
         b.cap \in {0, Chunk}, b.cap = 0 => b.read = b.write, ReadableSize(b) <= 1
  PROVE  /\ ReserveFree(b) \in Buffers
         /\ ReserveFree(b).read <= ReserveFree(b).write
         /\ ReserveFree(b).write <= ReserveFree(b).cap
         /\ ReserveFree(b).cap = Chunk /\ HasRoom(ReserveFree(b))
<1>1. /\ Chunk \in Nat /\ MinFree \in Nat /\ MaxCapacity \in Nat /\ Chunk <= MaxCapacity
      /\ MinFree + 1 <= Chunk
  BY BufferAssumption DEF ChunkSuffices
<1>2. b.cap \in Nat /\ b.read \in Nat /\ b.write \in Nat
  BY DEF Buffers
<1>3. CASE b.read = b.write
  <2>1. ReserveFree(b) = Allocate(Chunk)
    <3>1. Renewed(b) = Allocate(Chunk)
      BY <1>3 DEF Renewed
    <3>2. WritableSize(Allocate(Chunk)) >= MinFree
      BY <1>1 DEF Allocate, WritableSize
    <3>3. QED
      BY <3>1, <3>2 DEF ReserveFree, MakeRoom
  <2>2. QED
    BY <1>1, <2>1 DEF Allocate, Buffers, HasRoom, WritableSize
<1>4. CASE b.read # b.write
  <2>1. b.cap = Chunk /\ b.write = b.read + 1 /\ Renewed(b) = b
    BY <1>2, <1>4 DEF Renewed, ReadableSize
  <2>2. CASE WritableSize(b) >= MinFree
    <3>1. ReserveFree(b) = b
      BY <2>1, <2>2 DEF ReserveFree, MakeRoom
    <3>2. QED
      BY <2>1, <2>2, <3>1 DEF HasRoom
  <2>3. CASE ~(WritableSize(b) >= MinFree)
    <3>1. WritableSize(b) + b.read >= MinFree
      BY <1>1, <1>2, <2>1 DEF WritableSize
    <3>2. ReserveFree(b) = Compact(b)
      BY <2>1, <2>3, <3>1 DEF ReserveFree, MakeRoom
    <3>3. Compact(b).cap = Chunk /\ Compact(b).read = 0 /\ Compact(b).write = 1 /\ Compact(b) \in Buffers
      <4>1. ReadableSize(b) = 1
        BY <1>2, <2>1 DEF ReadableSize
      <4>2. Compact(b) = [b EXCEPT !.read = 0, !.write = 1]
        BY <4>1 DEF Compact
      <4>3. b = [cap |-> b.cap, read |-> b.read, write |-> b.write]
        BY DEF Buffers
      <4>4. Compact(b) = [cap |-> Chunk, read |-> 0, write |-> 1]
        BY <2>1, <4>2, <4>3
      <4>5. QED
        BY <1>1, <4>4 DEF Buffers
    <3>4. QED
      BY <1>1, <3>2, <3>3 DEF HasRoom, WritableSize
  <2>4. QED
    BY <2>2, <2>3
<1>5. QED
  BY <1>3, <1>4

LEMMA BufferFacts ==
  ASSUME NEW b \in Buffers, NEW n \in Nat
  PROVE  /\ b.cap \in 0..MaxCapacity /\ b.read \in Nat /\ b.write \in Nat
         /\ CommitWrite(b, n) \in Buffers /\ ConsumeRead(b, n) \in Buffers
         /\ CommitWrite(b, n).cap = b.cap /\ CommitWrite(b, n).read = b.read
         /\ CommitWrite(b, n).write = b.write + n
         /\ ConsumeRead(b, n).cap = b.cap /\ ConsumeRead(b, n).write = b.write
         /\ ConsumeRead(b, n).read = b.read + n
BY DEF Buffers, CommitWrite, ConsumeRead

(* The lists of paused connections.                                        *)
In(q, c) == \E i \in DOMAIN q : q[i] = c

LEMMA InConcat ==
  ASSUME NEW p \in Seq(Conns), NEW q \in Seq(Conns), NEW c
  PROVE  In(p \o q, c) <=> In(p, c) \/ In(q, c)
<1>1. /\ p \o q \in Seq(Conns) /\ Len(p \o q) = Len(p) + Len(q)
      /\ \A i \in 1..Len(p) + Len(q) : (p \o q)[i] = IF i <= Len(p) THEN p[i] ELSE q[i - Len(p)]
  BY ConcatProperties
<1>2. /\ Len(p) \in Nat /\ Len(q) \in Nat /\ DOMAIN p = 1..Len(p) /\ DOMAIN q = 1..Len(q)
      /\ DOMAIN (p \o q) = 1..Len(p) + Len(q)
  BY <1>1, LenProperties
<1>3. ASSUME In(p \o q, c) PROVE In(p, c) \/ In(q, c)
  <2>1. PICK i \in 1..Len(p) + Len(q) : (p \o q)[i] = c
    BY <1>2, <1>3 DEF In
  <2>2. CASE i <= Len(p)
    BY <1>1, <1>2, <2>1, <2>2 DEF In
  <2>3. CASE ~(i <= Len(p))
    <3>1. i - Len(p) \in 1..Len(q) /\ q[i - Len(p)] = c
      BY <1>1, <1>2, <2>1, <2>3
    <3>2. QED
      BY <1>2, <3>1 DEF In
  <2>4. QED
    BY <2>2, <2>3
<1>4. ASSUME In(p, c) PROVE In(p \o q, c)
  <2>1. PICK i \in 1..Len(p) : p[i] = c
    BY <1>2, <1>4 DEF In
  <2>2. i \in 1..Len(p) + Len(q) /\ (p \o q)[i] = c
    BY <1>1, <1>2, <2>1
  <2>3. QED
    BY <1>2, <2>2 DEF In
<1>5. ASSUME In(q, c) PROVE In(p \o q, c)
  <2>1. PICK i \in 1..Len(q) : q[i] = c
    BY <1>2, <1>5 DEF In
  <2>2. i + Len(p) \in 1..Len(p) + Len(q) /\ ~(i + Len(p) <= Len(p)) /\ (i + Len(p)) - Len(p) = i
    BY <1>2
  <2>3. (p \o q)[i + Len(p)] = c
    BY <1>1, <2>1, <2>2
  <2>4. QED
    BY <1>2, <2>2, <2>3 DEF In
<1>6. QED
  BY <1>3, <1>4, <1>5

LEMMA InAppend ==
  ASSUME NEW q \in Seq(Conns), NEW c \in Conns, NEW d
  PROVE  In(Append(q, c), d) <=> In(q, d) \/ d = c
<1>1. /\ Len(q) \in Nat /\ DOMAIN q = 1..Len(q) /\ DOMAIN Append(q, c) = 1..Len(q) + 1
      /\ Append(q, c)[Len(q) + 1] = c
      /\ \A i \in 1..Len(q) : Append(q, c)[i] = q[i]
  BY AppendProperties, LenProperties
<1>2. \A i \in 1..Len(q) + 1 : i \in 1..Len(q) \/ i = Len(q) + 1
  BY <1>1
<1>3. \A i \in 1..Len(q) : i \in 1..Len(q) + 1
  BY <1>1
<1>4. Len(q) + 1 \in 1..Len(q) + 1
  BY <1>1
<1>5. QED
  BY <1>1, <1>2, <1>3, <1>4 DEF In

LEMMA InTail ==
  ASSUME NEW q \in Seq(Conns), q # <<>>, NEW d
  PROVE  In(q, d) <=> d = Head(q) \/ In(Tail(q), d)
<1>1. /\ Len(q) \in Nat \ {0} /\ DOMAIN q = 1..Len(q) /\ Head(q) = q[1]
      /\ Tail(q) \in Seq(Conns) /\ Len(Tail(q)) = Len(q) - 1
      /\ \A i \in 1..Len(Tail(q)) : Tail(q)[i] = q[i + 1]
  BY HeadTailProperties, EmptySeq, LenProperties
<1>2. DOMAIN Tail(q) = 1..Len(q) - 1
  BY <1>1
<1>3. \A i \in 1..Len(q) - 1 : i + 1 \in 1..Len(q)
  BY <1>1
<1>4. \A i \in 1..Len(q) : i = 1 \/ (i - 1 \in 1..Len(q) - 1 /\ (i - 1) + 1 = i)
  BY <1>1
<1>5. 1 \in 1..Len(q)
  BY <1>1
<1>6. ASSUME In(q, d) PROVE d = Head(q) \/ In(Tail(q), d)
  <2>1. PICK i \in 1..Len(q) : q[i] = d
    BY <1>1, <1>6 DEF In
  <2>2. CASE i = 1
    BY <1>1, <2>1, <2>2
  <2>3. CASE i # 1
    BY <1>1, <1>2, <1>4, <2>1, <2>3 DEF In
  <2>4. QED
    BY <2>2, <2>3
<1>7. ASSUME d = Head(q) \/ In(Tail(q), d) PROVE In(q, d)
  BY <1>1, <1>2, <1>3, <1>5, <1>7 DEF In
<1>8. QED
  BY <1>6, <1>7

LEMMA ListedAs ==
  ASSUME CountType, NEW c \in Conns
  PROVE  Listed(c) <=> \E l \in Lanes : In(paused[l], c) \/ In(waking[l], c)
<1>1. ASSUME NEW l \in Lanes
      PROVE  In(paused[l] \o waking[l], c) <=> In(paused[l], c) \/ In(waking[l], c)
  BY InConcat DEF CountType
<1>2. QED
  BY <1>1 DEF Listed, In

LEMMA ListedAsNext ==
  ASSUME CountType', NEW c \in Conns
  PROVE  Listed(c)' <=> \E l \in Lanes : In(paused'[l], c) \/ In(waking'[l], c)
<1>1. ASSUME NEW l \in Lanes
      PROVE  In(paused'[l] \o waking'[l], c) <=> In(paused'[l], c) \/ In(waking'[l], c)
  BY InConcat DEF CountType
<1>2. QED
  BY <1>1 DEF Listed, In

(* Only growing lists keep their connections.                              *)
LEMMA ListedSame ==
  ASSUME UNCHANGED <<paused, waking>>
  PROVE  \A c \in Conns : Listed(c)' <=> Listed(c)
BY DEF Listed

-----------------------------------------------------------------------------
(* A worker in a handler moves on, and may change the buffer of its own    *)
(* connection only: nothing is outstanding of that one.                    *)
HandlerStep(w, c, to) ==
  /\ Handles(w, c) /\ to # "idle" /\ wpc' = [wpc EXCEPT ![w] = to]
  /\ UNCHANGED <<setup, adopted, posted, completions, resumePackets, wconn>>
  /\ \A d \in Conns : d # c => buf'[d] = buf[d]

LEMMA HandlerFacts ==
  ASSUME IInv, NEW w \in Workers, NEW c \in Conns, NEW to \in Places, HandlerStep(w, c, to)
  PROVE  /\ wpc'[w] = to /\ wconn[w] = c /\ wconn' = wconn /\ adopted[c]
         /\ \A v \in Workers : v # w => wpc'[v] = wpc[v]
         /\ NoneOutstanding(c)
         /\ \A d \in Conns : NoneOutstanding(d)' <=> NoneOutstanding(d)
         /\ \A v \in Workers : Handles(v, c) => v = w
         /\ to # "release" => \A v \in Workers, d \in Conns : Handles(v, d)' <=> Handles(v, d)
         /\ \A v \in Workers, d \in Conns : Handles(v, d)' => Handles(v, d)
<1>1. /\ wpc'[w] = to /\ \A v \in Workers : v # w => wpc'[v] = wpc[v]
  BY DEF HandlerStep, IInv, CountInv, CountType
<1>2. /\ wconn[w] = c /\ wconn' = wconn /\ to # "idle" /\ wpc[w] \notin {"idle", "release"}
  BY DEF HandlerStep, Handles
<1>3. adopted[c]
  BY <1>2, BusyAdopted DEF IInv
<1>4. NoneOutstanding(c) /\ \A v \in Workers : Handles(v, c) => v = w
  BY DEF HandlerStep, IInv, OwnerInv, OneOwner
<1>5. \A d \in Conns : NoneOutstanding(d)' <=> NoneOutstanding(d)
  BY DEF HandlerStep, NoneOutstanding
<1>6. /\ to # "release" => \A v \in Workers, d \in Conns : Handles(v, d)' <=> Handles(v, d)
      /\ \A v \in Workers, d \in Conns : Handles(v, d)' => Handles(v, d)
  BY <1>1, <1>2 DEF Handles
<1>7. QED
  BY <1>1, <1>2, <1>3, <1>4, <1>5, <1>6

LEMMA NoneMeansNone ==
  ASSUME NEW c \in Conns, CountType
  PROVE  /\ NoneOutstanding(c) <=> Outstanding(c) = 0
         /\ Outstanding(c) \in Nat
<1>1. posted[c] \in Nat /\ completions[c] \in Seq(Int)
  BY DEF CountType
<1>2. PICK n \in Nat, q \in Seq(Int) : n = posted[c] /\ q = completions[c]
  BY <1>1
<1>3. Len(q) \in Nat /\ (q = <<>> => Len(q) = 0) /\ (q # <<>> => Len(q) \in Nat \ {0})
  BY EmptySeq, LenProperties
<1>4. (n = 0 /\ q = <<>> <=> n + Len(q) = 0) /\ n + Len(q) \in Nat
  BY <1>3
<1>5. QED
  BY <1>2, <1>4 DEF NoneOutstanding, Outstanding

LEMMA HandlerKeeps ==
  ASSUME IInv, NEW w \in Workers, NEW c \in Conns, NEW to \in Places, HandlerStep(w, c, to)
  PROVE  InThreads' /\ OneOwner' /\ CompletionsFit' /\ RoomToReceive'
<1>1. /\ wpc'[w] = to /\ wconn[w] = c /\ wconn' = wconn
      /\ \A v \in Workers : v # w => wpc'[v] = wpc[v]
      /\ NoneOutstanding(c)
      /\ \A d \in Conns : NoneOutstanding(d)' <=> NoneOutstanding(d)
      /\ \A v \in Workers, d \in Conns : Handles(v, d)' => Handles(v, d)
  BY HandlerFacts
<1>2. wpc[w] # "idle" /\ setup' = setup /\ completions' = completions /\ posted' = posted
  BY DEF HandlerStep, Handles
<1>3. InThreads'
  BY <1>1, <1>2 DEF IInv, OwnerInv, InThreads
<1>4. OneOwner'
  <2>1. \A d \in Conns : Outstanding(d)' = Outstanding(d)
    BY <1>2 DEF Outstanding
  <2>2. QED
    BY <1>1, <2>1 DEF IInv, OwnerInv, OneOwner
<1>5. CompletionsFit'
  <2>1. completions[c] = <<>>
    BY <1>1 DEF NoneOutstanding
  <2>2. DOMAIN completions[c] = {}
    BY <2>1
  <2>3. QED
    BY <1>2, <2>2 DEF IInv, BufferInv, CompletionsFit, HandlerStep
<1>6. RoomToReceive'
  <2>1. \A d \in Conns : Outstanding(d)' = Outstanding(d)
    BY <1>2 DEF Outstanding
  <2>2. Outstanding(c) = 0
    BY <1>1, NoneMeansNone DEF IInv, CountInv
  <2>3. QED
    BY <2>1, <2>2 DEF IInv, BufferInv, RoomToReceive, HandlerStep
<1>7. QED
  BY <1>3, <1>4, <1>5, <1>6

LEMMA ClearResumeKeeps ==
  ASSUME IInv, CountInv', NEW w \in Workers, ClearResume(w)
  PROVE  IInv'
<1>1. PICK c \in Conns : wconn[w] = c
  BY DEF IInv, CountInv, CountType
<1>2. /\ wpc[w] = "resume" /\ resumeQueued' = [resumeQueued EXCEPT ![c] = FALSE]
      /\ UNCHANGED <<setup, adopted, closed, recvPaused, buf, consumed, resumePackets,
                     paused, waking, stranded, refused, completions>>
  BY <1>1 DEF ClearResume, ResumeUnqueued, portVars, laneVars, histVars
<1>3. HandlerStep(w, c, "resumedDrain") /\ "resumedDrain" \in Places
  BY <1>1, <1>2 DEF HandlerStep, Handles, ClearResume, Go, portVars, Places
<1>4. /\ wpc'[w] = "resumedDrain" /\ wconn' = wconn
      /\ \A v \in Workers : v # w => wpc'[v] = wpc[v]
      /\ \A d \in Conns : NoneOutstanding(d)' <=> NoneOutstanding(d)
      /\ \A v \in Workers : Handles(v, c) => v = w
      /\ \A v \in Workers, d \in Conns : Handles(v, d)' <=> Handles(v, d)
  BY <1>3, HandlerFacts
<1>5. ~recvPaused[c]
  BY <1>1, <1>2 DEF IInv, OwnerInv, PausedQuiet
<1>6. InThreads' /\ OneOwner' /\ CompletionsFit' /\ RoomToReceive'
  BY <1>3, HandlerKeeps
<1>7. PausedQuiet'
  BY <1>1, <1>2, <1>4, <1>5 DEF IInv, OwnerInv, PausedQuiet
<1>8. ResumeFlags'
  <2>1. resumePackets[c] = 0 /\ ~resumeQueued'[c]
    BY <1>2, <1>5 DEF IInv, OwnerInv, ResumeFlags, CountInv, CountType
  <2>2. \A d \in Conns : d # c => resumeQueued'[d] = resumeQueued[d]
    BY <1>2 DEF IInv, CountInv, CountType
  <2>3. QED
    BY <1>1, <1>2, <1>4, <2>1, <2>2 DEF IInv, OwnerInv, ResumeFlags
<1>9. \A v \in Workers, d \in Conns : Listing(v, d)' <=> Listing(v, d)
  BY <1>2, <1>4 DEF Listing
<1>10. ListingPaused'
  BY <1>2, <1>9 DEF IInv, OwnerInv, ListingPaused, Kind
<1>11. PausedKnown'
  BY <1>2, <1>9, ListedSame DEF IInv, ServiceInv, PausedKnown
<1>12. InService'
  BY <1>2, <1>4 DEF IInv, ServiceInv, InService
<1>13. DataType' /\ BufferSize' /\ LittleLeft'
  BY <1>2, <1>4 DEF IInv, BufferInv, DataType, BufferSize, LittleLeft
<1>14. QED
  BY <1>6, <1>7, <1>8, <1>10, <1>11, <1>12, <1>13 DEF IInv, OwnerInv, ServiceInv, BufferInv

(* A worker inside drain_frames, or about to post the next receive, goes   *)
(* on; the flags of the pause and the lists stay.                          *)
PlainStep(w, c, to) ==
  /\ HandlerStep(w, c, to)
  /\ wpc[w] \in {"drain", "resumedDrain", "repost", "resumedRepost"}
  /\ to \in {wpc[w], "repost", "resumedRepost", "release"}
  /\ UNCHANGED <<recvPaused, resumeQueued, paused, waking, stranded>>
  /\ \A d \in Conns : d # c => closed'[d] = closed[d] /\ consumed'[d] = consumed[d]
  /\ closed[c] => closed'[c]

LEMMA PlainKeeps ==
  ASSUME IInv, NEW w \in Workers, NEW c \in Conns, NEW to \in Places, PlainStep(w, c, to)
  PROVE  /\ OwnerInv' /\ PausedKnown' /\ CompletionsFit' /\ RoomToReceive'
         /\ to # "release" => InService'
         /\ closed'[c] \/ recvPaused[c] => InService'
         /\ to = "release" => LittleLeft'
         /\ closed'[c] \/ recvPaused[c] \/ ReadableSize(buf'[c]) <= 1 => LittleLeft'
<1>1. /\ HandlerStep(w, c, to)
      /\ UNCHANGED <<setup, adopted, recvPaused, resumeQueued, resumePackets, paused, waking, stranded>>
      /\ wpc[w] \in {"drain", "resumedDrain", "repost", "resumedRepost"}
      /\ to \in {wpc[w], "repost", "resumedRepost", "release"}
      /\ \A d \in Conns : d # c => /\ closed'[d] = closed[d] /\ consumed'[d] = consumed[d]
                                   /\ buf'[d] = buf[d]
      /\ closed[c] => closed'[c]
  BY DEF PlainStep, HandlerStep
<1>2. /\ wpc'[w] = to /\ wconn[w] = c /\ wconn' = wconn
      /\ \A v \in Workers : v # w => wpc'[v] = wpc[v]
      /\ \A d \in Conns : NoneOutstanding(d)' <=> NoneOutstanding(d)
      /\ \A v \in Workers : Handles(v, c) => v = w
      /\ to # "release" => \A v \in Workers, d \in Conns : Handles(v, d)' <=> Handles(v, d)
      /\ \A v \in Workers, d \in Conns : d # c /\ Handles(v, d) => Handles(v, d)'
  <2>1. /\ wpc'[w] = to /\ wconn[w] = c /\ wconn' = wconn
        /\ \A v \in Workers : v # w => wpc'[v] = wpc[v]
        /\ \A d \in Conns : NoneOutstanding(d)' <=> NoneOutstanding(d)
        /\ \A v \in Workers : Handles(v, c) => v = w
        /\ to # "release" => \A v \in Workers, d \in Conns : Handles(v, d)' <=> Handles(v, d)
    BY <1>1, HandlerFacts
  <2>2. \A v \in Workers, d \in Conns : d # c /\ Handles(v, d) => Handles(v, d)'
    BY <2>1 DEF Handles
  <2>3. QED
    BY <2>1, <2>2
<1>3. InThreads' /\ OneOwner' /\ CompletionsFit' /\ RoomToReceive'
  BY <1>1, HandlerKeeps
<1>4. PausedQuiet'
  BY <1>1, <1>2 DEF IInv, OwnerInv, PausedQuiet
<1>5. ResumeFlags'
  BY <1>1, <1>2 DEF IInv, OwnerInv, ResumeFlags
<1>6. \A v \in Workers, d \in Conns : /\ Listing(v, d)' <=> Listing(v, d)
                                      /\ Listing(v, d) => d # c
  <2>1. \A v \in Workers, d \in Conns : Listing(v, d)' <=> Listing(v, d)
    BY <1>1, <1>2 DEF Listing
  <2>2. \A v \in Workers : ~Listing(v, c)
    BY <1>1, <1>2 DEF Listing, Handles
  <2>3. QED
    BY <2>1, <2>2
<1>7. ListingPaused'
  BY <1>1, <1>6 DEF IInv, OwnerInv, ListingPaused, Kind
<1>8. PausedKnown'
  BY <1>1, <1>6, ListedSame DEF IInv, ServiceInv, PausedKnown
<1>9. to # "release" => InService'
  BY <1>1, <1>2 DEF IInv, ServiceInv, InService
<1>10. closed'[c] \/ recvPaused[c] => InService'
  BY <1>1, <1>2 DEF IInv, ServiceInv, InService
<1>11. \A v \in Workers : v # w /\ wconn[v] = c => wpc[v] \notin {"repost", "resumedRepost"}
  BY <1>2 DEF Handles
<1>12. to = "release" => LittleLeft'
  BY <1>1, <1>2, <1>11 DEF IInv, BufferInv, LittleLeft
<1>13. closed'[c] \/ recvPaused[c] \/ ReadableSize(buf'[c]) <= 1 => LittleLeft'
  BY <1>1, <1>2, <1>11 DEF IInv, BufferInv, LittleLeft
<1>14. QED
  BY <1>3, <1>4, <1>5, <1>7, <1>8, <1>9, <1>10, <1>12, <1>13 DEF OwnerInv

LEMMA DrainIncompleteKeeps ==
  ASSUME IInv, CountInv', NEW w \in Workers, DrainIncomplete(w)
  PROVE  IInv'
<1>1. PICK c \in Conns : wconn[w] = c
  BY DEF IInv, CountInv, CountType
<1>2. /\ wpc[w] \in {"drain", "resumedDrain"} /\ Incomplete(c) /\ wpc' = [wpc EXCEPT ![w] = Leave(w)]
      /\ UNCHANGED <<setup, adopted, closed, recvPaused, resumeQueued, buf, consumed, posted,
                     completions, resumePackets, wconn, paused, waking, stranded, refused>>
  BY <1>1 DEF DrainIncomplete, Draining, Go, connVars, portVars, laneVars, histVars
<1>3. PICK to \in Places : to = Leave(w) /\ to \in {"repost", "resumedRepost"}
  BY <1>2 DEF Leave, Places
<1>4. PlainStep(w, c, to)
  BY <1>1, <1>2, <1>3 DEF PlainStep, HandlerStep, Handles
<1>5. ReadableSize(buf'[c]) <= 1
  BY <1>2 DEF Incomplete, Buffered
<1>6. OwnerInv' /\ PausedKnown' /\ CompletionsFit' /\ RoomToReceive' /\ InService' /\ LittleLeft'
  BY <1>3, <1>4, <1>5, PlainKeeps
<1>7. DataType' /\ BufferSize'
  BY <1>2 DEF IInv, BufferInv, DataType, BufferSize
<1>8. QED
  BY <1>6, <1>7 DEF IInv, ServiceInv, BufferInv

LEMMA DrainTooLargeKeeps ==
  ASSUME IInv, CountInv', NEW w \in Workers, DrainTooLarge(w)
  PROVE  IInv'
<1>1. PICK c \in Conns : wconn[w] = c
  BY DEF IInv, CountInv, CountType
<1>2. /\ wpc[w] \in {"drain", "resumedDrain"} /\ closed' = [closed EXCEPT ![c] = TRUE]
      /\ wpc' = [wpc EXCEPT ![w] = Leave(w)]
      /\ UNCHANGED <<setup, adopted, recvPaused, resumeQueued, buf, consumed, posted,
                     completions, resumePackets, wconn, paused, waking, stranded, refused>>
  BY <1>1 DEF DrainTooLarge, Draining, Go, Close, portVars, histVars
<1>3. PICK to \in Places : to = Leave(w) /\ to \in {"repost", "resumedRepost"}
  BY <1>2 DEF Leave, Places
<1>4. closed'[c] /\ \A d \in Conns : d # c => closed'[d] = closed[d]
  BY <1>2 DEF IInv, CountInv, CountType
<1>5. PlainStep(w, c, to)
  BY <1>1, <1>2, <1>3, <1>4 DEF PlainStep, HandlerStep, Handles
<1>6. OwnerInv' /\ PausedKnown' /\ CompletionsFit' /\ RoomToReceive' /\ InService' /\ LittleLeft'
  BY <1>3, <1>4, <1>5, PlainKeeps
<1>7. DataType' /\ BufferSize'
  BY <1>2 DEF IInv, BufferInv, DataType, BufferSize
<1>8. QED
  BY <1>6, <1>7 DEF IInv, ServiceInv, BufferInv

(* A frame is consumed, queued or refused.                                 *)
LEMMA ConsumeKeeps ==
  ASSUME IInv, CountInv', NEW w \in Workers, DrainQueued(w) \/ DrainRefused(w)
  PROVE  IInv'
<1>1. PICK c \in Conns : wconn[w] = c
  BY DEF IInv, CountInv, CountType
<1>2. /\ wpc[w] \in {"drain", "resumedDrain"} /\ Complete(c)
      /\ consumed' = [consumed EXCEPT ![c] = consumed[c] + 1]
      /\ buf' = [buf EXCEPT ![c] = ConsumeRead(buf[c], 2)]
      /\ wpc' = [wpc EXCEPT ![w] = IF closed[c] THEN Leave(w) ELSE wpc[w]]
      /\ UNCHANGED <<setup, adopted, closed, recvPaused, resumeQueued, posted,
                     completions, resumePackets, wconn, paused, waking, stranded>>
      /\ refused' = refused \/ refused' = [refused EXCEPT ![c] = refused[c] \union {consumed[c] + 1}]
  BY <1>1 DEF DrainQueued, DrainRefused, Draining, Consume, AfterFrame, Go, portVars, laneVars, histVars
<1>3. PICK to \in Places : /\ to = IF closed[c] THEN Leave(w) ELSE wpc[w]
                           /\ to \in {wpc[w], "repost", "resumedRepost"}
                           /\ to # wpc[w] => closed[c]
  BY <1>2 DEF Leave, Places
<1>4. /\ consumed'[c] = consumed[c] + 1 /\ consumed[c] \in Nat
      /\ \A d \in Conns : d # c => consumed'[d] = consumed[d] /\ buf'[d] = buf[d]
      /\ buf'[c] = ConsumeRead(buf[c], 2) /\ buf[c] \in Buffers
  BY <1>2 DEF IInv, BufferInv, DataType
<1>5. PlainStep(w, c, to)
  BY <1>1, <1>2, <1>3, <1>4 DEF PlainStep, HandlerStep, Handles
<1>6. OwnerInv' /\ PausedKnown' /\ CompletionsFit' /\ RoomToReceive' /\ InService'
  <2>1. to # "release"
    BY <1>2, <1>3
  <2>2. QED
    BY <1>5, <2>1, PlainKeeps
<1>7. LittleLeft'
  <2>1. CASE closed'[c]
    BY <1>5, <2>1, PlainKeeps
  <2>2. CASE ~closed'[c]
    <3>1. /\ wpc'[w] = wpc[w] /\ wpc[w] \notin {"repost", "resumedRepost"} /\ wconn' = wconn
          /\ \A v \in Workers : v # w => wpc'[v] = wpc[v]
      BY <1>2, <2>2 DEF IInv, CountInv, CountType
    <3>2. \A v \in Workers : Handles(v, c) => v = w
      BY <1>1, <1>2 DEF IInv, OwnerInv, OneOwner, Handles
    <3>3. \A v \in Workers : wconn[v] = c => wpc[v] \notin {"repost", "resumedRepost"}
      BY <3>1, <3>2 DEF Handles
    <3>4. QED
      BY <1>2, <1>4, <3>1, <3>3 DEF IInv, BufferInv, LittleLeft
  <2>3. QED
    BY <2>1, <2>2
<1>8. /\ buf'[c] \in Buffers /\ buf'[c].cap = buf[c].cap
      /\ buf'[c].read <= buf'[c].write /\ buf'[c].write <= buf'[c].cap
  <2>1. /\ buf[c].cap \in 0..MaxCapacity /\ buf[c].read \in Nat /\ buf[c].write \in Nat
        /\ buf'[c] \in Buffers /\ buf'[c].cap = buf[c].cap /\ buf'[c].write = buf[c].write
        /\ buf'[c].read = buf[c].read + 2
    <3>1. PICK b \in Buffers : b = buf[c]
      BY <1>4
    <3>2. 2 \in Nat
      OBVIOUS
    <3>3. /\ b.cap \in 0..MaxCapacity /\ b.read \in Nat /\ b.write \in Nat
          /\ ConsumeRead(b, 2) \in Buffers /\ ConsumeRead(b, 2).cap = b.cap
          /\ ConsumeRead(b, 2).write = b.write /\ ConsumeRead(b, 2).read = b.read + 2
      BY <3>2, BufferFacts
    <3>4. QED
      BY <1>4, <3>1, <3>3
  <2>2. buf[c].write - buf[c].read >= 2 /\ buf[c].write <= buf[c].cap
    BY <1>2 DEF Complete, Buffered, ReadableSize, IInv, BufferInv, DataType
  <2>3. QED
    BY <2>1, <2>2
<1>9. buf' \in [Conns -> Buffers] /\ consumed' \in [Conns -> Nat] /\ refused' \in [Conns -> SUBSET Nat]
  <2>1. buf' \in [Conns -> Buffers]
    BY <1>2, <1>4, <1>8 DEF IInv, BufferInv, DataType
  <2>2. consumed' \in [Conns -> Nat]
    BY <1>2, <1>4 DEF IInv, BufferInv, DataType
  <2>3. consumed[c] + 1 \in Nat
    BY <1>4
  <2>4. refused' \in [Conns -> SUBSET Nat]
    BY <1>2, <2>3, ZenonT(60) DEF IInv, BufferInv, DataType
  <2>5. QED
    BY <2>1, <2>2, <2>4
<1>10. DataType' /\ BufferSize'
  BY <1>2, <1>4, <1>8, <1>9 DEF IInv, BufferInv, DataType, BufferSize
<1>11. QED
  BY <1>6, <1>7, <1>10 DEF IInv, ServiceInv, BufferInv

LEMMA PauseKeeps ==
  ASSUME IInv, CountInv', NEW w \in Workers, Pause(w)
  PROVE  IInv'
<1>1. PICK c \in Conns : wconn[w] = c
  BY DEF IInv, CountInv, CountType
<1>2. /\ wpc[w] \in {"drain", "resumedDrain"} /\ setup.policy = "backpressure" /\ Kind(c) \in Lanes
      /\ recvPaused' = [recvPaused EXCEPT ![c] = TRUE]
      /\ wpc' = [wpc EXCEPT ![w] = IF wpc[w] = "drain" THEN "list" ELSE "resumedList"]
      /\ UNCHANGED <<setup, adopted, closed, resumeQueued, buf, consumed, posted,
                     completions, resumePackets, wconn, paused, waking, stranded, refused>>
  BY <1>1 DEF Pause, WhenFull, Draining, Go, portVars, laneVars, histVars
<1>3. PICK to \in Places : /\ to = IF wpc[w] = "drain" THEN "list" ELSE "resumedList"
                           /\ to \in {"list", "resumedList"}
  BY <1>2 DEF Places
<1>4. HandlerStep(w, c, to)
  BY <1>1, <1>2, <1>3 DEF HandlerStep, Handles
<1>5. /\ wpc'[w] = to /\ wconn' = wconn /\ NoneOutstanding(c)
      /\ \A v \in Workers : v # w => wpc'[v] = wpc[v]
      /\ \A d \in Conns : NoneOutstanding(d)' <=> NoneOutstanding(d)
      /\ \A v \in Workers : Handles(v, c) => v = w
      /\ \A v \in Workers, d \in Conns : Handles(v, d)' <=> Handles(v, d)
  BY <1>3, <1>4, HandlerFacts
<1>6. recvPaused'[c] /\ \A d \in Conns : d # c => recvPaused'[d] = recvPaused[d]
  BY <1>2 DEF IInv, CountInv, CountType
<1>7. InThreads' /\ OneOwner' /\ CompletionsFit' /\ RoomToReceive'
  BY <1>4, HandlerKeeps
<1>8. PausedQuiet'
  <2>1. \A v \in Workers : v # w /\ wconn[v] = c => wpc[v] \notin {"drain", "resume", "resumedDrain"}
    BY <1>5 DEF Handles
  <2>2. QED
    BY <1>1, <1>2, <1>3, <1>5, <1>6, <2>1 DEF IInv, OwnerInv, PausedQuiet
<1>9. ResumeFlags'
  BY <1>2, <1>5, <1>6 DEF IInv, OwnerInv, ResumeFlags
<1>10. \A v \in Workers, d \in Conns : Listing(v, d)' <=> Listing(v, d) \/ (v = w /\ d = c)
  BY <1>1, <1>2, <1>3, <1>5 DEF Listing
<1>11. ListingPaused'
  BY <1>2, <1>6, <1>10 DEF IInv, OwnerInv, ListingPaused, Kind
<1>12. PausedKnown'
  BY <1>2, <1>6, <1>10, ListedSame DEF IInv, ServiceInv, PausedKnown
<1>13. InService'
  BY <1>2, <1>5, <1>6 DEF IInv, ServiceInv, InService
<1>14. DataType' /\ BufferSize'
  BY <1>2 DEF IInv, BufferInv, DataType, BufferSize
<1>15. LittleLeft'
  BY <1>2, <1>3, <1>5, <1>6 DEF IInv, BufferInv, LittleLeft
<1>16. QED
  BY <1>7, <1>8, <1>9, <1>11, <1>12, <1>13, <1>14, <1>15 DEF IInv, OwnerInv, ServiceInv, BufferInv

LEMMA ListPausedKeeps ==
  ASSUME IInv, CountInv', NEW w \in Workers, ListPaused(w)
  PROVE  IInv'
<1>1. PICK c \in Conns : wconn[w] = c
  BY DEF IInv, CountInv, CountType
<1>2. /\ wpc[w] \in {"list", "resumedList"}
      /\ paused' = [paused EXCEPT ![Kind(c)] = Append(paused[Kind(c)], c)]
      /\ wpc' = [wpc EXCEPT ![w] = IF wpc[w] = "list" THEN "repost" ELSE "resumedRepost"]
      /\ UNCHANGED <<setup, adopted, closed, recvPaused, resumeQueued, buf, consumed, posted,
                     completions, resumePackets, wconn, waking, stranded, refused>>
  BY <1>1 DEF ListPaused, KeepsFrame, Go, portVars, histVars
<1>3. PICK to \in Places : /\ to = IF wpc[w] = "list" THEN "repost" ELSE "resumedRepost"
                           /\ to \in {"repost", "resumedRepost"}
  BY <1>2 DEF Places
<1>4. HandlerStep(w, c, to)
  BY <1>1, <1>2, <1>3 DEF HandlerStep, Handles
<1>5. /\ wpc'[w] = to /\ wconn' = wconn
      /\ \A v \in Workers : v # w => wpc'[v] = wpc[v]
      /\ \A d \in Conns : NoneOutstanding(d)' <=> NoneOutstanding(d)
      /\ \A v \in Workers : Handles(v, c) => v = w
      /\ \A v \in Workers, d \in Conns : Handles(v, d)' <=> Handles(v, d)
  BY <1>3, <1>4, HandlerFacts
<1>6. recvPaused[c]
  BY <1>1, <1>2 DEF IInv, OwnerInv, ListingPaused, Listing
<1>7. InThreads' /\ OneOwner' /\ CompletionsFit' /\ RoomToReceive'
  BY <1>4, HandlerKeeps
<1>8. PausedQuiet'
  BY <1>2, <1>3, <1>5 DEF IInv, OwnerInv, PausedQuiet
<1>9. ResumeFlags'
  BY <1>2, <1>5 DEF IInv, OwnerInv, ResumeFlags
<1>10. \A v \in Workers, d \in Conns : /\ Listing(v, d)' => Listing(v, d)
                                       /\ Listing(v, d) /\ d # c => Listing(v, d)'
  BY <1>1, <1>2, <1>3, <1>5 DEF Listing
<1>11. ListingPaused'
  BY <1>2, <1>10 DEF IInv, OwnerInv, ListingPaused, Kind
<1>12. Listed(c)' /\ \A d \in Conns : Listed(d) => Listed(d)'
  <2>1. PICK k \in Lanes : Kind(c) = k
    BY <1>1, <1>2 DEF IInv, OwnerInv, ListingPaused, Listing
  <2>2. /\ paused[k] \in Seq(Conns) /\ paused'[k] = Append(paused[k], c)
        /\ \A l \in Lanes : l # k => paused'[l] = paused[l]
    BY <1>2, <2>1 DEF IInv, CountInv, CountType
  <2>3. \A d \in Conns : In(paused'[k], d) <=> In(paused[k], d) \/ d = c
    BY <2>2, InAppend
  <2>4. /\ \A d \in Conns : Listed(d) <=> \E l \in Lanes : In(paused[l], d) \/ In(waking[l], d)
        /\ \A d \in Conns : Listed(d)' <=> \E l \in Lanes : In(paused'[l], d) \/ In(waking'[l], d)
    BY ListedAs, ListedAsNext DEF IInv, CountInv
  <2>5. QED
    BY <1>2, <2>2, <2>3, <2>4
<1>13. PausedKnown'
  BY <1>2, <1>10, <1>12 DEF IInv, ServiceInv, PausedKnown
<1>14. InService'
  BY <1>2, <1>5 DEF IInv, ServiceInv, InService
<1>15. DataType' /\ BufferSize'
  BY <1>2 DEF IInv, BufferInv, DataType, BufferSize
<1>16. LittleLeft'
  BY <1>1, <1>2, <1>3, <1>5, <1>6 DEF IInv, BufferInv, LittleLeft
<1>17. QED
  BY <1>7, <1>8, <1>9, <1>11, <1>13, <1>14, <1>15, <1>16 DEF IInv, OwnerInv, ServiceInv, BufferInv

-----------------------------------------------------------------------------
(* The end of a handler. When the next receive is posted, less than a      *)
(* frame is left, and the worker that leaves was the only owner.           *)
LEMMA ReserveKeeps ==
  ASSUME ChunkSuffices, IInv, NEW c \in Conns, adopted[c], ReadableSize(buf[c]) <= 1,
         buf' = [buf EXCEPT ![c] = ReserveFree(buf[c])]
  PROVE  /\ buf' \in [Conns -> Buffers]
         /\ \A d \in Conns : buf'[d].read <= buf'[d].write /\ buf'[d].write <= buf'[d].cap
         /\ buf'[c].cap = Chunk /\ HasRoom(buf'[c])
         /\ \A d \in Conns : d # c => buf'[d] = buf[d]
<1>1. PICK b \in Buffers : b = buf[c]
  BY DEF IInv, BufferInv, DataType
<1>2. b.read <= b.write /\ b.write <= b.cap /\ b.cap = Chunk /\ ReadableSize(b) <= 1
  BY <1>1 DEF IInv, BufferInv, DataType, BufferSize
<1>3. Chunk # 0
  BY BufferAssumption
<1>4. /\ ReserveFree(b) \in Buffers /\ ReserveFree(b).read <= ReserveFree(b).write
      /\ ReserveFree(b).write <= ReserveFree(b).cap
      /\ ReserveFree(b).cap = Chunk /\ HasRoom(ReserveFree(b))
  BY <1>2, <1>3, ReserveSmall
<1>5. buf'[c] = ReserveFree(b) /\ \A d \in Conns : d # c => buf'[d] = buf[d]
  BY <1>1 DEF IInv, BufferInv, DataType
<1>6. buf' \in [Conns -> Buffers]
  BY <1>1, <1>4 DEF IInv, BufferInv, DataType
<1>7. QED
  BY <1>4, <1>5, <1>6 DEF IInv, BufferInv, DataType

LEMMA RepostPosts ==
  ASSUME ChunkSuffices, IInv, CountInv', NEW w \in Workers, NEW c \in Conns, wconn[w] = c,
         wpc[w] \in {"repost", "resumedRepost"}, ~closed[c], ~recvPaused[c],
         buf' = [buf EXCEPT ![c] = ReserveFree(buf[c])],
         posted' = [posted EXCEPT ![c] = posted[c] + 1],
         wpc' = [wpc EXCEPT ![w] = "release"],
         UNCHANGED <<setup, adopted, closed, recvPaused, resumeQueued, consumed, completions,
                     resumePackets, wconn, paused, waking, stranded, refused>>
  PROVE  IInv'
<1>1. /\ wpc'[w] = "release" /\ \A v \in Workers : v # w => wpc'[v] = wpc[v]
  BY DEF IInv, CountInv, CountType
<1>2. /\ NoneOutstanding(c) /\ \A v \in Workers : Handles(v, c) => v = w
  BY DEF IInv, OwnerInv, OneOwner, Handles
<1>3. /\ \A v \in Workers : ~Handles(v, c)'
      /\ \A v \in Workers, d \in Conns : d # c => (Handles(v, d)' <=> Handles(v, d))
      /\ \A v \in Workers, d \in Conns : Handles(v, d)' => Handles(v, d)
  BY <1>1, <1>2 DEF Handles
<1>4. /\ posted'[c] = posted[c] + 1 /\ posted[c] = 0 /\ completions[c] = <<>>
      /\ \A d \in Conns : d # c => posted'[d] = posted[d]
  BY <1>2 DEF IInv, CountInv, CountType, NoneOutstanding
<1>5. /\ Outstanding(c)' = 1 /\ \A d \in Conns : d # c => Outstanding(d)' = Outstanding(d)
      /\ ~NoneOutstanding(c)' /\ \A d \in Conns : d # c => (NoneOutstanding(d)' <=> NoneOutstanding(d))
  <2>1. Len(completions[c]) = 0
    BY <1>4
  <2>2. QED
    BY <1>4, <2>1 DEF Outstanding, NoneOutstanding
<1>6. adopted[c] /\ ReadableSize(buf[c]) <= 1
  <2>1. adopted[c]
    BY BusyAdopted DEF IInv
  <2>2. ReadableSize(buf[c]) <= 1
    BY DEF IInv, BufferInv, LittleLeft
  <2>3. QED
    BY <2>1, <2>2
<1>7. /\ buf' \in [Conns -> Buffers]
      /\ \A d \in Conns : buf'[d].read <= buf'[d].write /\ buf'[d].write <= buf'[d].cap
      /\ buf'[c].cap = Chunk /\ HasRoom(buf'[c])
      /\ \A d \in Conns : d # c => buf'[d] = buf[d]
  BY <1>6, ReserveKeeps
<1>8. InThreads'
  BY <1>1 DEF IInv, OwnerInv, InThreads
<1>9. OneOwner'
  <2>1. \A d \in Conns : Outstanding(d)' <= 1
    BY <1>5 DEF IInv, OwnerInv, OneOwner
  <2>2. QED
    BY <1>3, <1>5, <2>1 DEF IInv, OwnerInv, OneOwner
<1>10. PausedQuiet'
  BY <1>1, <1>5 DEF IInv, OwnerInv, PausedQuiet
<1>11. ResumeFlags'
  BY <1>1 DEF IInv, OwnerInv, ResumeFlags
<1>12. \A v \in Workers, d \in Conns : Listing(v, d)' <=> Listing(v, d)
  BY <1>1 DEF Listing
<1>13. ListingPaused'
  BY <1>12 DEF IInv, OwnerInv, ListingPaused, Kind
<1>14. PausedKnown'
  BY <1>12, ListedSame DEF IInv, ServiceInv, PausedKnown
<1>15. InService'
  BY <1>3, <1>5 DEF IInv, ServiceInv, InService
<1>16. DataType' /\ BufferSize'
  BY <1>6, <1>7 DEF IInv, BufferInv, DataType, BufferSize
<1>17. LittleLeft'
  <2>1. \A v \in Workers : wconn[v] = c => wpc'[v] \notin {"repost", "resumedRepost"}
    BY <1>3 DEF Handles
  <2>2. QED
    BY <1>1, <1>7, <2>1 DEF IInv, BufferInv, LittleLeft
<1>18. CompletionsFit'
  <2>1. DOMAIN completions[c] = {}
    BY <1>4
  <2>2. QED
    BY <1>7, <2>1 DEF IInv, BufferInv, CompletionsFit
<1>19. RoomToReceive'
  BY <1>5, <1>7 DEF IInv, BufferInv, RoomToReceive
<1>20. QED
  BY <1>8, <1>9, <1>10, <1>11, <1>13, <1>14, <1>15, <1>16, <1>17, <1>18, <1>19
     DEF IInv, OwnerInv, ServiceInv, BufferInv

LEMMA RepostKeeps ==
  ASSUME ChunkSuffices, IInv, CountInv', NEW w \in Workers, Repost(w)
  PROVE  IInv'
<1>1. PICK c \in Conns : wconn[w] = c
  BY DEF IInv, CountInv, CountType
<1>2. /\ wpc[w] \in {"repost", "resumedRepost"} /\ wpc' = [wpc EXCEPT ![w] = "release"]
      /\ UNCHANGED <<setup, adopted, recvPaused, resumeQueued, consumed, completions,
                     resumePackets, wconn, paused, waking, stranded, refused>>
      /\ \/ ~closed[c] /\ ~recvPaused[c] /\ PostReceive(c)
         \/ (closed[c] \/ recvPaused[c]) /\ UNCHANGED <<posted, closed, buf>>
  BY <1>1 DEF Repost, Go, histVars, MayRepost
<1>3. "release" \in Places
  BY DEF Places
<1>4. CASE (closed[c] \/ recvPaused[c]) /\ UNCHANGED <<posted, closed, buf>>
  <2>1. PlainStep(w, c, "release")
    BY <1>1, <1>2, <1>4 DEF PlainStep, HandlerStep, Handles
  <2>2. OwnerInv' /\ PausedKnown' /\ CompletionsFit' /\ RoomToReceive' /\ InService' /\ LittleLeft'
    BY <1>3, <1>4, <2>1, PlainKeeps
  <2>3. DataType' /\ BufferSize'
    BY <1>2, <1>4 DEF IInv, BufferInv, DataType, BufferSize
  <2>4. QED
    BY <2>2, <2>3 DEF IInv, ServiceInv, BufferInv
<1>5. CASE ~closed[c] /\ ~recvPaused[c] /\ PostReceive(c)
  <2>1. buf' = [buf EXCEPT ![c] = ReserveFree(buf[c])]
    BY <1>5 DEF PostReceive
  <2>2. CASE posted' = [posted EXCEPT ![c] = posted[c] + 1] /\ closed' = closed
    <3>1. UNCHANGED <<setup, adopted, closed, recvPaused, resumeQueued, consumed, completions,
                      resumePackets, wconn, paused, waking, stranded, refused>>
      BY <1>2, <2>2
    <3>2. QED
      BY <1>1, <1>2, <1>5, <2>1, <2>2, <3>1, RepostPosts
  <2>3. CASE closed' = [closed EXCEPT ![c] = TRUE] /\ posted' = posted
    <3>1. closed'[c] /\ \A d \in Conns : d # c => closed'[d] = closed[d]
      BY <2>3 DEF IInv, CountInv, CountType
    <3>2. adopted[c]
      BY <1>1, <1>2, BusyAdopted DEF IInv
    <3>3. ReadableSize(buf[c]) <= 1
      BY <1>1, <1>2, <1>5 DEF IInv, BufferInv, LittleLeft
    <3>4. /\ buf' \in [Conns -> Buffers]
          /\ \A d \in Conns : buf'[d].read <= buf'[d].write /\ buf'[d].write <= buf'[d].cap
          /\ buf'[c].cap = Chunk /\ HasRoom(buf'[c])
          /\ \A d \in Conns : d # c => buf'[d] = buf[d]
      BY <2>1, <3>2, <3>3, ReserveKeeps
    <3>5. PlainStep(w, c, "release")
      BY <1>1, <1>2, <2>3, <3>1, <3>4 DEF PlainStep, HandlerStep, Handles
    <3>6. OwnerInv' /\ PausedKnown' /\ CompletionsFit' /\ RoomToReceive' /\ InService' /\ LittleLeft'
      BY <1>3, <3>1, <3>5, PlainKeeps
    <3>7. DataType' /\ BufferSize'
      BY <1>2, <3>2, <3>4 DEF IInv, BufferInv, DataType, BufferSize
    <3>8. QED
      BY <3>6, <3>7 DEF IInv, ServiceInv, BufferInv
  <2>4. QED
    BY <1>5, <2>2, <2>3 DEF PostReceive, Close
<1>6. QED
  BY <1>2, <1>4, <1>5

LEMMA ReleaseKeeps ==
  ASSUME IInv, CountInv', NEW w \in Workers, Release(w)
  PROVE  IInv'
<1>1. /\ wpc[w] = "release" /\ wpc' = [wpc EXCEPT ![w] = "idle"] /\ wconn' = [wconn EXCEPT ![w] = NoConn]
      /\ UNCHANGED <<setup, adopted, closed, recvPaused, resumeQueued, buf, consumed, posted,
                     completions, resumePackets, paused, waking, stranded, refused>>
  BY DEF Release, Go, portVars, laneVars, histVars
<1>2. /\ wpc'[w] = "idle"
      /\ \A v \in Workers : v # w => wpc'[v] = wpc[v] /\ wconn'[v] = wconn[v]
  BY <1>1 DEF IInv, CountInv, CountType
<1>3. \A v \in Workers, d \in Conns : /\ Handles(v, d)' <=> Handles(v, d)
                                      /\ Listing(v, d)' <=> Listing(v, d)
  BY <1>1, <1>2 DEF Handles, Listing
<1>4. \A d \in Conns : /\ NoneOutstanding(d)' <=> NoneOutstanding(d)
                       /\ Outstanding(d)' = Outstanding(d)
  BY <1>1 DEF NoneOutstanding, Outstanding
<1>5. InThreads' /\ OneOwner'
  BY <1>1, <1>2, <1>3, <1>4 DEF IInv, OwnerInv, InThreads, OneOwner
<1>6. PausedQuiet' /\ ResumeFlags'
  BY <1>1, <1>2, <1>4 DEF IInv, OwnerInv, PausedQuiet, ResumeFlags
<1>7. ListingPaused'
  BY <1>1, <1>3 DEF IInv, OwnerInv, ListingPaused, Kind
<1>8. PausedKnown' /\ InService'
  BY <1>1, <1>3, <1>4, ListedSame DEF IInv, ServiceInv, PausedKnown, InService
<1>9. DataType' /\ BufferSize' /\ LittleLeft' /\ CompletionsFit'
  BY <1>1, <1>2 DEF IInv, BufferInv, DataType, BufferSize, LittleLeft, CompletionsFit
<1>10. RoomToReceive'
  BY <1>1, <1>4 DEF IInv, BufferInv, RoomToReceive
<1>11. QED
  BY <1>5, <1>6, <1>7, <1>8, <1>9, <1>10 DEF IInv, OwnerInv, ServiceInv, BufferInv

-----------------------------------------------------------------------------
(* A worker takes the completion of a receive: it was the only one.        *)
LEMMA OnlyCompletion ==
  ASSUME IInv, NEW c \in Conns, completions[c] # <<>>
  PROVE  /\ posted[c] = 0 /\ Tail(completions[c]) = <<>>
         /\ Head(completions[c]) = completions[c][1] /\ 1 \in DOMAIN completions[c]
         /\ Head(completions[c]) \in 0..MaxCapacity
         /\ ~recvPaused[c] /\ \A v \in Workers : ~Handles(v, c)
<1>1. PICK q \in Seq(0..MaxCapacity) : q = completions[c]
  BY DEF IInv, BufferInv, DataType
<1>2. PICK n \in Nat : n = posted[c]
  BY DEF IInv, CountInv, CountType
<1>3. n + Len(q) <= 1
  BY <1>1, <1>2 DEF IInv, OwnerInv, OneOwner, Outstanding
<1>4. Len(q) \in Nat /\ Len(q) # 0
  BY <1>1, EmptySeq, LenProperties
<1>5. n = 0 /\ Len(q) = 1
  <2>1. PICK m \in Nat : m = Len(q)
    BY <1>4
  <2>2. n + m <= 1 /\ m # 0
    BY <1>3, <1>4, <2>1
  <2>3. n = 0 /\ m = 1
    BY <2>2
  <2>4. QED
    BY <2>1, <2>3
<1>6. /\ Tail(q) \in Seq(0..MaxCapacity) /\ Len(Tail(q)) = 0 /\ Head(q) = q[1]
      /\ Head(q) \in 0..MaxCapacity
  <2>1. q # <<>>
    BY <1>1
  <2>2. Tail(q) \in Seq(0..MaxCapacity) /\ Len(Tail(q)) = Len(q) - 1
    BY <2>1, HeadTailProperties
  <2>3. Head(q) \in 0..MaxCapacity
    BY <2>1, HeadTailProperties
  <2>4. Head(q) = q[1]
    BY <1>5
  <2>5. QED
    BY <1>5, <2>2, <2>3, <2>4
<1>7. Tail(q) = <<>>
  BY <1>6, EmptySeq
<1>8. 1 \in DOMAIN q
  BY <1>5
<1>9. ~NoneOutstanding(c)
  BY DEF NoneOutstanding
<1>10. ~recvPaused[c] /\ \A v \in Workers : ~Handles(v, c)
  BY <1>9 DEF IInv, OwnerInv, PausedQuiet, OneOwner
<1>11. QED
  BY <1>1, <1>2, <1>5, <1>6, <1>7, <1>8, <1>10

LEMMA TakeFacts ==
  ASSUME IInv, NEW w \in Workers, NEW c \in Conns, completions[c] # <<>>, wpc[w] = "idle",
         NEW to \in Places, to \in {"drain", "release"}, wpc' = [wpc EXCEPT ![w] = to],
         wconn' = [wconn EXCEPT ![w] = c], w \in setup.threads,
         completions' = [completions EXCEPT ![c] = Tail(completions[c])],
         UNCHANGED <<setup, posted, recvPaused, resumeQueued, resumePackets, consumed>>
  PROVE  /\ wpc'[w] = to /\ wconn'[w] = c
         /\ \A v \in Workers : v # w => wpc'[v] = wpc[v] /\ wconn'[v] = wconn[v]
         /\ \A v \in Workers, d \in Conns : /\ Handles(v, d) => Handles(v, d)'
                                            /\ Handles(v, d)' => Handles(v, d) \/ (v = w /\ d = c)
                                            /\ Listing(v, d)' <=> Listing(v, d)
         /\ completions'[c] = <<>> /\ NoneOutstanding(c)' /\ Outstanding(c)' = 0
         /\ \A d \in Conns : d # c => /\ NoneOutstanding(d)' <=> NoneOutstanding(d)
                                      /\ Outstanding(d)' = Outstanding(d)
                                      /\ completions'[d] = completions[d]
         /\ completions' \in [Conns -> Seq(0..MaxCapacity)]
         /\ OwnerInv'
<1>1. /\ posted[c] = 0 /\ Tail(completions[c]) = <<>> /\ ~recvPaused[c]
      /\ \A v \in Workers : ~Handles(v, c)
  BY OnlyCompletion
<1>2. /\ wpc'[w] = to /\ wconn'[w] = c
      /\ \A v \in Workers : v # w => wpc'[v] = wpc[v] /\ wconn'[v] = wconn[v]
  BY DEF IInv, CountInv, CountType
<1>3. \A v \in Workers, d \in Conns : /\ Handles(v, d) => Handles(v, d)'
                                      /\ Handles(v, d)' => Handles(v, d) \/ (v = w /\ d = c)
                                      /\ Listing(v, d)' <=> Listing(v, d)
  BY <1>2 DEF Handles, Listing
<1>4. /\ completions'[c] = <<>> /\ \A d \in Conns : d # c => completions'[d] = completions[d]
  BY <1>1 DEF IInv, CountInv, CountType
<1>5. completions' \in [Conns -> Seq(0..MaxCapacity)]
  <2>1. Tail(completions[c]) \in Seq(0..MaxCapacity)
    BY <1>1, EmptySeq
  <2>2. QED
    BY <2>1 DEF IInv, BufferInv, DataType
<1>6. /\ NoneOutstanding(c)' /\ Outstanding(c)' = 0
      /\ \A d \in Conns : d # c => /\ NoneOutstanding(d)' <=> NoneOutstanding(d)
                                   /\ Outstanding(d)' = Outstanding(d)
  <2>1. Len(completions'[c]) = 0 /\ posted'[c] = 0
    BY <1>1, <1>4, EmptySeq
  <2>2. QED
    BY <1>1, <1>4, <2>1 DEF NoneOutstanding, Outstanding
<1>7. InThreads'
  BY <1>2 DEF IInv, OwnerInv, InThreads
<1>8. OneOwner'
  <2>1. \A d \in Conns : Outstanding(d)' <= 1
    BY <1>6 DEF IInv, OwnerInv, OneOwner
  <2>2. ASSUME NEW d \in Conns, NEW v \in Workers, Handles(v, d)'
        PROVE  NoneOutstanding(d)' /\ \A u \in Workers : Handles(u, d)' => u = v
    <3>1. CASE d = c
      BY <1>1, <1>3, <1>6, <2>2, <3>1
    <3>2. CASE d # c
      BY <1>3, <1>6, <2>2, <3>2 DEF IInv, OwnerInv, OneOwner
    <3>3. QED
      BY <3>1, <3>2
  <2>3. QED
    BY <2>1, <2>2 DEF OneOwner
<1>9. PausedQuiet'
  BY <1>1, <1>2, <1>6 DEF IInv, OwnerInv, PausedQuiet
<1>10. ResumeFlags'
  BY <1>2 DEF IInv, OwnerInv, ResumeFlags
<1>11. ListingPaused'
  BY <1>3 DEF IInv, OwnerInv, ListingPaused, Kind
<1>12. QED
  BY <1>2, <1>3, <1>4, <1>5, <1>6, <1>7, <1>8, <1>9, <1>10, <1>11 DEF OwnerInv

LEMMA ReceiveFailedKeeps ==
  ASSUME IInv, CountInv', NEW w \in Workers, NEW c \in Conns, ReceiveFailed(w, c)
  PROVE  IInv'
<1>1. /\ completions[c] # <<>> /\ wpc[w] = "idle" /\ wpc' = [wpc EXCEPT ![w] = "release"]
      /\ wconn' = [wconn EXCEPT ![w] = c] /\ w \in setup.threads
      /\ completions' = [completions EXCEPT ![c] = Tail(completions[c])]
      /\ closed' = [closed EXCEPT ![c] = TRUE]
      /\ UNCHANGED <<setup, adopted, posted, recvPaused, resumeQueued, resumePackets, consumed, buf,
                     paused, waking, refused, stranded>>
  BY DEF ReceiveFailed, Go, Close, histVars
<1>2. "release" \in Places /\ "release" \in {"drain", "release"}
  BY DEF Places
<1>3. /\ wpc'[w] = "release" /\ wconn'[w] = c
      /\ \A v \in Workers : v # w => wpc'[v] = wpc[v] /\ wconn'[v] = wconn[v]
      /\ \A v \in Workers, d \in Conns : /\ Handles(v, d) => Handles(v, d)'
                                         /\ Listing(v, d)' <=> Listing(v, d)
      /\ completions'[c] = <<>> /\ Outstanding(c)' = 0
      /\ \A d \in Conns : d # c => /\ NoneOutstanding(d)' <=> NoneOutstanding(d)
                                   /\ Outstanding(d)' = Outstanding(d)
                                   /\ completions'[d] = completions[d]
      /\ completions' \in [Conns -> Seq(0..MaxCapacity)]
      /\ OwnerInv'
  BY <1>1, <1>2, TakeFacts
<1>4. closed'[c] /\ \A d \in Conns : d # c => closed'[d] = closed[d]
  BY <1>1 DEF IInv, CountInv, CountType
<1>5. PausedKnown'
  BY <1>1, <1>3, ListedSame DEF IInv, ServiceInv, PausedKnown
<1>6. InService'
  BY <1>1, <1>3, <1>4 DEF IInv, ServiceInv, InService
<1>7. DataType' /\ BufferSize'
  BY <1>1, <1>3 DEF IInv, BufferInv, DataType, BufferSize
<1>8. LittleLeft'
  BY <1>1, <1>3, <1>4 DEF IInv, BufferInv, LittleLeft
<1>9. CompletionsFit'
  <2>1. DOMAIN completions'[c] = {}
    BY <1>3
  <2>2. QED
    BY <1>1, <1>3, <2>1 DEF IInv, BufferInv, CompletionsFit
<1>10. RoomToReceive'
  BY <1>1, <1>3 DEF IInv, BufferInv, RoomToReceive
<1>11. QED
  BY <1>3, <1>5, <1>6, <1>7, <1>8, <1>9, <1>10 DEF IInv, ServiceInv, BufferInv

LEMMA ReceiveDoneKeeps ==
  ASSUME IInv, CountInv', NEW w \in Workers, NEW c \in Conns, ReceiveDone(w, c)
  PROVE  IInv'
<1>1. /\ completions[c] # <<>> /\ wpc[w] = "idle" /\ wpc' = [wpc EXCEPT ![w] = "drain"]
      /\ wconn' = [wconn EXCEPT ![w] = c] /\ w \in setup.threads
      /\ completions' = [completions EXCEPT ![c] = Tail(completions[c])]
      /\ buf' = [buf EXCEPT ![c] = CommitWrite(buf[c], Head(completions[c]))]
      /\ UNCHANGED <<setup, adopted, posted, recvPaused, resumeQueued, resumePackets, consumed, closed,
                     paused, waking, refused, stranded>>
  BY DEF ReceiveDone, Go, laneVars, histVars
<1>2. "drain" \in Places /\ "drain" \in {"drain", "release"}
  BY DEF Places
<1>3. /\ wpc'[w] = "drain" /\ wconn'[w] = c
      /\ \A v \in Workers : v # w => wpc'[v] = wpc[v] /\ wconn'[v] = wconn[v]
      /\ \A v \in Workers, d \in Conns : /\ Handles(v, d) => Handles(v, d)'
                                         /\ Listing(v, d)' <=> Listing(v, d)
      /\ completions'[c] = <<>> /\ Outstanding(c)' = 0
      /\ \A d \in Conns : d # c => /\ NoneOutstanding(d)' <=> NoneOutstanding(d)
                                   /\ Outstanding(d)' = Outstanding(d)
                                   /\ completions'[d] = completions[d]
      /\ completions' \in [Conns -> Seq(0..MaxCapacity)]
      /\ OwnerInv'
  BY <1>1, <1>2, TakeFacts
<1>4. /\ Head(completions[c]) = completions[c][1] /\ 1 \in DOMAIN completions[c]
      /\ Head(completions[c]) \in 0..MaxCapacity
      /\ \A v \in Workers : ~Handles(v, c)
  BY <1>1, OnlyCompletion
<1>5. PICK n \in Nat : n = Head(completions[c]) /\ n <= WritableSize(buf[c])
  BY <1>4 DEF IInv, BufferInv, CompletionsFit
<1>6. PICK b \in Buffers : b = buf[c]
  BY DEF IInv, BufferInv, DataType
<1>7. /\ b.cap \in 0..MaxCapacity /\ b.read \in Nat /\ b.write \in Nat
      /\ CommitWrite(b, n) \in Buffers /\ CommitWrite(b, n).cap = b.cap
      /\ CommitWrite(b, n).read = b.read /\ CommitWrite(b, n).write = b.write + n
  BY BufferFacts
<1>8. /\ buf'[c] = CommitWrite(b, n) /\ buf' \in [Conns -> Buffers]
      /\ \A d \in Conns : d # c => buf'[d] = buf[d]
  BY <1>1, <1>5, <1>6, <1>7 DEF IInv, BufferInv, DataType
<1>9. /\ buf'[c].cap = buf[c].cap /\ buf'[c].read <= buf'[c].write /\ buf'[c].write <= buf'[c].cap
  <2>1. b.read <= b.write /\ b.write <= b.cap /\ n <= b.cap - b.write
    BY <1>5, <1>6 DEF IInv, BufferInv, DataType, WritableSize
  <2>2. b.read <= b.write + n /\ b.write + n <= b.cap
    BY <1>7, <2>1
  <2>3. QED
    BY <1>6, <1>7, <1>8, <2>2
<1>10. PausedKnown'
  BY <1>1, <1>3, ListedSame DEF IInv, ServiceInv, PausedKnown
<1>11. InService'
  <2>1. Handles(w, c)'
    BY <1>3 DEF Handles
  <2>2. QED
    BY <1>1, <1>3, <2>1 DEF IInv, ServiceInv, InService
<1>12. DataType' /\ BufferSize'
  BY <1>1, <1>3, <1>8, <1>9 DEF IInv, BufferInv, DataType, BufferSize
<1>13. LittleLeft'
  <2>1. \A v \in Workers : wconn[v] = c => wpc[v] \notin {"repost", "resumedRepost"}
    BY <1>4 DEF Handles
  <2>2. QED
    BY <1>1, <1>3, <1>8, <2>1 DEF IInv, BufferInv, LittleLeft
<1>14. CompletionsFit'
  <2>1. DOMAIN completions'[c] = {}
    BY <1>3
  <2>2. QED
    BY <1>3, <1>8, <2>1 DEF IInv, BufferInv, CompletionsFit
<1>15. RoomToReceive'
  BY <1>3, <1>8, SMTT(60) DEF IInv, BufferInv, RoomToReceive
<1>16. QED
  BY <1>3, <1>10, <1>11, <1>12, <1>13, <1>14, <1>15 DEF IInv, ServiceInv, BufferInv

(* A worker takes a resume notification. It is the only one then: with two *)
(* workers the one that paused the connection may still be about to decide *)
(* whether it posts a receive, and see the pause gone.                     *)
LEMMA OnResumeKeeps ==
  ASSUME OneWorkerOrRefusal, IInv, CountInv', NEW w \in Workers, NEW c \in Conns, OnResume(w, c)
  PROVE  IInv'
<1>1. /\ w \in setup.threads /\ wpc[w] = "idle" /\ resumePackets[c] > 0
      /\ resumePackets' = [resumePackets EXCEPT ![c] = resumePackets[c] - 1]
      /\ wconn' = [wconn EXCEPT ![w] = c] /\ wpc' = [wpc EXCEPT ![w] = "resume"]
      /\ recvPaused' = [recvPaused EXCEPT ![c] = FALSE]
      /\ UNCHANGED <<setup, adopted, closed, resumeQueued, buf, consumed, posted, completions,
                     paused, waking, refused, stranded>>
  BY DEF OnResume, Go, laneVars, histVars
<1>2. /\ recvPaused[c] /\ resumeQueued[c] /\ resumePackets[c] <= 1
      /\ setup.policy = "backpressure" /\ NoneOutstanding(c)
  BY <1>1 DEF IInv, OwnerInv, ResumeFlags, PausedQuiet
<1>3. \A v \in Workers : wpc[v] = "idle"
  <2>1. \A v \in setup.threads : v = w
    BY <1>1, <1>2 DEF IInv, CountInv, CountType, OneWorkerOrRefusal
  <2>2. QED
    BY <1>1, <2>1 DEF IInv, OwnerInv, InThreads
<1>4. /\ wpc'[w] = "resume" /\ wconn'[w] = c /\ \A v \in Workers : v # w => wpc'[v] = "idle"
  BY <1>1, <1>3 DEF IInv, CountInv, CountType
<1>5. /\ \A v \in Workers, d \in Conns : Handles(v, d)' <=> v = w /\ d = c
      /\ \A v \in Workers, d \in Conns : ~Handles(v, d)
  BY <1>3, <1>4 DEF Handles
<1>6. \A v \in Workers, d \in Conns : ~Listing(v, d)' /\ ~Listing(v, d)
  BY <1>3, <1>4 DEF Listing
<1>7. /\ resumePackets'[c] = 0 /\ ~recvPaused'[c]
      /\ \A d \in Conns : d # c => resumePackets'[d] = resumePackets[d] /\ recvPaused'[d] = recvPaused[d]
  BY <1>1, <1>2 DEF IInv, CountInv, CountType
<1>8. \A d \in Conns : /\ NoneOutstanding(d)' <=> NoneOutstanding(d)
                       /\ Outstanding(d)' = Outstanding(d)
  BY <1>1 DEF NoneOutstanding, Outstanding
<1>9. InThreads'
  BY <1>1, <1>4 DEF InThreads
<1>10. OneOwner'
  BY <1>2, <1>5, <1>8 DEF IInv, OwnerInv, OneOwner
<1>11. PausedQuiet'
  BY <1>1, <1>4, <1>7, <1>8 DEF IInv, OwnerInv, PausedQuiet
<1>12. ResumeFlags'
  BY <1>1, <1>3, <1>4, <1>7 DEF IInv, OwnerInv, ResumeFlags
<1>13. ListingPaused'
  BY <1>6 DEF ListingPaused
<1>14. PausedKnown'
  BY <1>1, <1>6, <1>7, ListedSame DEF IInv, ServiceInv, PausedKnown
<1>15. InService'
  BY <1>1, <1>5, <1>7, <1>8 DEF IInv, ServiceInv, InService
<1>16. DataType' /\ BufferSize' /\ LittleLeft' /\ CompletionsFit'
  BY <1>1, <1>4 DEF IInv, BufferInv, DataType, BufferSize, LittleLeft, CompletionsFit
<1>17. RoomToReceive'
  BY <1>1, <1>8 DEF IInv, BufferInv, RoomToReceive
<1>18. QED
  BY <1>9, <1>10, <1>11, <1>12, <1>13, <1>14, <1>15, <1>16, <1>17
     DEF IInv, OwnerInv, ServiceInv, BufferInv

-----------------------------------------------------------------------------
(* The first receive, the kernel, a close from elsewhere.                  *)
LEMMA AdoptBuffer ==
  ASSUME ChunkSuffices, IInv, NEW c \in Conns, ~adopted[c],
         buf' = [buf EXCEPT ![c] = ReserveFree(buf[c])]
  PROVE  /\ buf' \in [Conns -> Buffers]
         /\ \A d \in Conns : buf'[d].read <= buf'[d].write /\ buf'[d].write <= buf'[d].cap
         /\ buf'[c].cap = Chunk /\ HasRoom(buf'[c])
         /\ \A d \in Conns : d # c => buf'[d] = buf[d]
<1>1. PICK b \in Buffers : b = buf[c]
  BY DEF IInv, BufferInv, DataType
<1>2. b.read <= b.write /\ b.write <= b.cap /\ b.cap = 0
  BY <1>1 DEF IInv, BufferInv, DataType, BufferSize
<1>3. b.read \in Nat /\ b.write \in Nat
  BY DEF Buffers
<1>4. b.read = b.write /\ ReadableSize(b) <= 1
  BY <1>2, <1>3 DEF ReadableSize
<1>5. /\ ReserveFree(b) \in Buffers /\ ReserveFree(b).read <= ReserveFree(b).write
      /\ ReserveFree(b).write <= ReserveFree(b).cap
      /\ ReserveFree(b).cap = Chunk /\ HasRoom(ReserveFree(b))
  BY <1>2, <1>4, ReserveSmall
<1>6. buf'[c] = ReserveFree(b) /\ \A d \in Conns : d # c => buf'[d] = buf[d]
  BY <1>1 DEF IInv, BufferInv, DataType
<1>7. buf' \in [Conns -> Buffers]
  BY <1>1, <1>5 DEF IInv, BufferInv, DataType
<1>8. QED
  BY <1>5, <1>6, <1>7 DEF IInv, BufferInv, DataType

LEMMA AdoptKeeps ==
  ASSUME ChunkSuffices, IInv, CountInv', NEW c \in Conns, Adopt(c)
  PROVE  IInv'
<1>1. /\ ~adopted[c] /\ adopted' = [adopted EXCEPT ![c] = TRUE]
      /\ buf' = [buf EXCEPT ![c] = ReserveFree(buf[c])]
      /\ \/ posted' = [posted EXCEPT ![c] = 1] /\ closed' = closed
         \/ closed' = [closed EXCEPT ![c] = TRUE] /\ posted' = posted
      /\ UNCHANGED <<setup, recvPaused, resumeQueued, resumePackets, consumed, completions,
                     wpc, wconn, paused, waking, refused, stranded>>
  BY DEF Adopt, workVars, histVars
<1>2. /\ buf' \in [Conns -> Buffers]
      /\ \A d \in Conns : buf'[d].read <= buf'[d].write /\ buf'[d].write <= buf'[d].cap
      /\ buf'[c].cap = Chunk /\ HasRoom(buf'[c])
      /\ \A d \in Conns : d # c => buf'[d] = buf[d]
  BY <1>1, AdoptBuffer
<1>3. /\ posted[c] = 0 /\ completions[c] = <<>> /\ ~recvPaused[c]
      /\ \A v \in Workers : wconn[v] = c => wpc[v] = "idle"
  BY <1>1 DEF IInv, CountInv, NothingBeforeAdopt, Busy
<1>4. /\ adopted'[c] /\ \A d \in Conns : d # c => adopted'[d] = adopted[d] /\ closed'[d] = closed[d]
      /\ posted'[c] \in {0, 1} /\ (posted'[c] = 1 \/ closed'[c])
      /\ \A d \in Conns : d # c => posted'[d] = posted[d]
  BY <1>1, <1>3 DEF IInv, CountInv, CountType
<1>5. /\ Outstanding(c)' <= 1 /\ (posted'[c] = 1 => ~NoneOutstanding(c)')
      /\ \A d \in Conns : d # c => /\ NoneOutstanding(d)' <=> NoneOutstanding(d)
                                   /\ Outstanding(d)' = Outstanding(d)
  <2>1. Len(completions[c]) = 0
    BY <1>3, EmptySeq
  <2>2. QED
    BY <1>1, <1>4, <2>1 DEF Outstanding, NoneOutstanding
<1>6. \A v \in Workers, d \in Conns : /\ Handles(v, d)' <=> Handles(v, d) /\ d # c
                                      /\ Listing(v, d)' <=> Listing(v, d)
                                      /\ Handles(v, d) => d # c
  BY <1>1, <1>3 DEF Handles, Listing
<1>7. InThreads'
  BY <1>1 DEF IInv, OwnerInv, InThreads
<1>8. OneOwner'
  <2>1. \A d \in Conns : Outstanding(d)' <= 1
    BY <1>5 DEF IInv, OwnerInv, OneOwner
  <2>2. QED
    BY <1>5, <1>6, <2>1 DEF IInv, OwnerInv, OneOwner
<1>9. PausedQuiet'
  BY <1>1, <1>3, <1>5 DEF IInv, OwnerInv, PausedQuiet
<1>10. ResumeFlags'
  BY <1>1 DEF IInv, OwnerInv, ResumeFlags
<1>11. ListingPaused'
  BY <1>1, <1>6 DEF IInv, OwnerInv, ListingPaused, Kind
<1>12. PausedKnown'
  BY <1>1, <1>6, ListedSame DEF IInv, ServiceInv, PausedKnown
<1>13. InService'
  BY <1>1, <1>4, <1>5, <1>6 DEF IInv, ServiceInv, InService
<1>14. DataType' /\ BufferSize'
  BY <1>1, <1>2, <1>4 DEF IInv, BufferInv, DataType, BufferSize
<1>15. LittleLeft'
  BY <1>1, <1>2, <1>3, <1>4 DEF IInv, BufferInv, LittleLeft
<1>16. CompletionsFit'
  <2>1. DOMAIN completions[c] = {}
    BY <1>3
  <2>2. QED
    BY <1>1, <1>2, <2>1 DEF IInv, BufferInv, CompletionsFit
<1>17. RoomToReceive'
  BY <1>2, <1>5 DEF IInv, BufferInv, RoomToReceive
<1>18. QED
  BY <1>7, <1>8, <1>9, <1>10, <1>11, <1>12, <1>13, <1>14, <1>15, <1>16, <1>17
     DEF IInv, OwnerInv, ServiceInv, BufferInv

LEMMA KernelReceiveKeeps ==
  ASSUME IInv, CountInv', NEW c \in Conns, KernelReceive(c)
  PROVE  IInv'
<1>1. PICK n \in 0..WritableSize(buf[c]) : completions' = [completions EXCEPT ![c] = Append(completions[c], n)]
  BY DEF KernelReceive
<1>2. /\ posted[c] > 0 /\ posted' = [posted EXCEPT ![c] = posted[c] - 1]
      /\ UNCHANGED <<setup, adopted, closed, recvPaused, resumeQueued, resumePackets, consumed, buf,
                     wpc, wconn, paused, waking, refused, stranded>>
  BY DEF KernelReceive, connVars, workVars, laneVars, histVars
<1>3. PICK q \in Seq(0..MaxCapacity) : q = completions[c]
  BY DEF IInv, BufferInv, DataType
<1>4. PICK p \in Nat : p = posted[c]
  BY DEF IInv, CountInv, CountType
<1>5. p > 0 /\ p + Len(q) <= 1 /\ Len(q) \in Nat
  BY <1>2, <1>3, <1>4, LenProperties DEF IInv, OwnerInv, OneOwner, Outstanding
<1>6. n \in 0..MaxCapacity
  <2>1. PICK b \in Buffers : b = buf[c]
    BY DEF IInv, BufferInv, DataType
  <2>2. b.cap \in 0..MaxCapacity /\ b.write \in Nat /\ MaxCapacity \in Nat /\ b.write <= b.cap
    BY <2>1, BufferAssumption DEF Buffers, IInv, BufferInv, DataType
  <2>3. n \in 0..(b.cap - b.write)
    BY <2>1 DEF WritableSize
  <2>4. QED
    BY <2>2, <2>3
<1>7. p = 1 /\ Len(q) = 0
  <2>1. PICK m \in Nat : m = Len(q)
    BY <1>5
  <2>2. p > 0 /\ p + m <= 1
    BY <1>5, <2>1
  <2>3. p = 1 /\ m = 0
    BY <2>2
  <2>4. QED
    BY <2>1, <2>3
<1>8. /\ Append(q, n) \in Seq(0..MaxCapacity) /\ Len(Append(q, n)) = 1 /\ Append(q, n) # <<>>
      /\ DOMAIN Append(q, n) = 1..1 /\ Append(q, n)[1] = n
  <2>1. /\ Append(q, n) \in Seq(0..MaxCapacity) /\ Len(Append(q, n)) = Len(q) + 1
        /\ Append(q, n)[Len(q) + 1] = n
    BY <1>6, AppendProperties
  <2>2. Len(Append(q, n)) = 1 /\ Append(q, n)[1] = n
    BY <1>7, <2>1
  <2>3. Append(q, n) # <<>> /\ DOMAIN Append(q, n) = 1..1
    BY <2>1, <2>2, EmptySeq, LenProperties
  <2>4. QED
    BY <2>1, <2>2, <2>3
<1>9. /\ completions'[c] = Append(q, n) /\ posted'[c] = 0
      /\ \A d \in Conns : d # c => completions'[d] = completions[d] /\ posted'[d] = posted[d]
      /\ completions' \in [Conns -> Seq(0..MaxCapacity)]
  <2>1. /\ completions'[c] = Append(q, n) /\ posted'[c] = p - 1
        /\ \A d \in Conns : d # c => completions'[d] = completions[d] /\ posted'[d] = posted[d]
    BY <1>1, <1>2, <1>3, <1>4 DEF IInv, CountInv, CountType
  <2>2. completions' \in [Conns -> Seq(0..MaxCapacity)]
    BY <1>1, <1>3, <1>8 DEF IInv, BufferInv, DataType
  <2>3. QED
    BY <1>7, <2>1, <2>2
<1>10. /\ Outstanding(c)' = 1 /\ Outstanding(c) = 1 /\ ~NoneOutstanding(c) /\ ~NoneOutstanding(c)'
       /\ \A d \in Conns : d # c => /\ NoneOutstanding(d)' <=> NoneOutstanding(d)
                                    /\ Outstanding(d)' = Outstanding(d)
  <2>1. Outstanding(c)' = 1 /\ ~NoneOutstanding(c)'
    BY <1>8, <1>9 DEF Outstanding, NoneOutstanding
  <2>2. Outstanding(c) = 1 /\ ~NoneOutstanding(c)
    BY <1>3, <1>4, <1>7 DEF Outstanding, NoneOutstanding
  <2>3. QED
    BY <1>9, <2>1, <2>2 DEF Outstanding, NoneOutstanding
<1>11. \A d \in Conns : /\ NoneOutstanding(d)' <=> NoneOutstanding(d)
                        /\ Outstanding(d)' = Outstanding(d)
  BY <1>10
<1>12. \A v \in Workers, d \in Conns : /\ Handles(v, d)' <=> Handles(v, d)
                                       /\ Listing(v, d)' <=> Listing(v, d)
  BY <1>2 DEF Handles, Listing
<1>13. InThreads' /\ OneOwner'
  BY <1>2, <1>11, <1>12 DEF IInv, OwnerInv, InThreads, OneOwner
<1>14. PausedQuiet' /\ ResumeFlags'
  BY <1>2, <1>11 DEF IInv, OwnerInv, PausedQuiet, ResumeFlags
<1>15. ListingPaused'
  BY <1>2, <1>12 DEF IInv, OwnerInv, ListingPaused, Kind
<1>16. PausedKnown' /\ InService'
  BY <1>2, <1>11, <1>12, ListedSame DEF IInv, ServiceInv, PausedKnown, InService
<1>17. DataType' /\ BufferSize' /\ LittleLeft'
  BY <1>2, <1>9 DEF IInv, BufferInv, DataType, BufferSize, LittleLeft
<1>18. CompletionsFit'
  <2>1. n <= WritableSize(buf[c])
    BY <1>1, <1>6
  <2>2. \A i \in 1..1 : i = 1
    OBVIOUS
  <2>3. QED
    BY <1>2, <1>8, <1>9, <2>1, <2>2 DEF IInv, BufferInv, CompletionsFit
<1>19. RoomToReceive'
  BY <1>2, <1>11 DEF IInv, BufferInv, RoomToReceive
<1>20. QED
  BY <1>13, <1>14, <1>15, <1>16, <1>17, <1>18, <1>19 DEF IInv, OwnerInv, ServiceInv, BufferInv

-----------------------------------------------------------------------------
(* Steps of others: a connection is closed, a lane takes its list.         *)
LEMMA ElsewhereKeeps ==
  ASSUME IInv, CountInv',
         UNCHANGED <<setup, adopted, recvPaused, resumeQueued, resumePackets, consumed, buf, posted,
                     completions, wpc, wconn, refused, stranded>>,
         \A d \in Conns : closed[d] => closed'[d],
         \A d \in Conns : Listed(d) => Listed(d)'
  PROVE  IInv'
<1>1. \A v \in Workers, d \in Conns : /\ Handles(v, d)' <=> Handles(v, d)
                                      /\ Listing(v, d)' <=> Listing(v, d)
  BY DEF Handles, Listing
<1>2. \A d \in Conns : /\ NoneOutstanding(d)' <=> NoneOutstanding(d)
                       /\ Outstanding(d)' = Outstanding(d)
  BY DEF NoneOutstanding, Outstanding
<1>3. InThreads' /\ OneOwner'
  BY <1>1, <1>2 DEF IInv, OwnerInv, InThreads, OneOwner
<1>4. PausedQuiet' /\ ResumeFlags'
  BY <1>2 DEF IInv, OwnerInv, PausedQuiet, ResumeFlags
<1>5. ListingPaused'
  BY <1>1 DEF IInv, OwnerInv, ListingPaused, Kind
<1>6. PausedKnown'
  BY <1>1 DEF IInv, ServiceInv, PausedKnown
<1>7. InService'
  BY <1>1, <1>2 DEF IInv, ServiceInv, InService
<1>8. DataType' /\ BufferSize' /\ LittleLeft' /\ CompletionsFit'
  BY DEF IInv, BufferInv, DataType, BufferSize, LittleLeft, CompletionsFit
<1>9. RoomToReceive'
  BY <1>2 DEF IInv, BufferInv, RoomToReceive
<1>10. QED
  BY <1>3, <1>4, <1>5, <1>6, <1>7, <1>8, <1>9 DEF IInv, OwnerInv, ServiceInv, BufferInv

LEMMA DrainFatalKeeps ==
  ASSUME IInv, CountInv', NEW w \in Workers, DrainFatal(w)
  PROVE  IInv'
<1>1. PICK c \in Conns : wconn[w] = c
  BY DEF IInv, CountInv, CountType
<1>2. /\ closed' = [closed EXCEPT ![c] = TRUE]
      /\ UNCHANGED <<setup, adopted, recvPaused, resumeQueued, resumePackets, consumed, buf, posted,
                     completions, wpc, wconn, refused, stranded>>
      /\ UNCHANGED <<paused, waking>>
  BY <1>1 DEF DrainFatal, Close, portVars, workVars
<1>3. \A d \in Conns : closed[d] => closed'[d]
  BY <1>2 DEF IInv, CountInv, CountType
<1>4. \A d \in Conns : Listed(d) => Listed(d)'
  BY <1>2, ListedSame
<1>5. QED
  BY <1>2, <1>3, <1>4, ElsewhereKeeps

LEMMA CloseElsewhereKeeps ==
  ASSUME IInv, CountInv', NEW c \in Conns, CloseElsewhere(c)
  PROVE  IInv'
<1>1. /\ closed' = [closed EXCEPT ![c] = TRUE]
      /\ UNCHANGED <<setup, adopted, recvPaused, resumeQueued, resumePackets, consumed, buf, posted,
                     completions, wpc, wconn, refused, stranded>>
      /\ UNCHANGED <<paused, waking>>
  BY DEF CloseElsewhere, Close, portVars, workVars, histVars
<1>2. \A d \in Conns : closed[d] => closed'[d]
  BY <1>1 DEF IInv, CountInv, CountType
<1>3. \A d \in Conns : Listed(d) => Listed(d)'
  BY <1>1, ListedSame
<1>4. QED
  BY <1>1, <1>2, <1>3, ElsewhereKeeps

LEMMA LaneSwapKeeps ==
  ASSUME IInv, CountInv', NEW l \in Lanes, LaneSwap(l)
  PROVE  IInv'
<1>1. /\ UNCHANGED <<setup, adopted, recvPaused, resumeQueued, resumePackets, consumed, buf, posted,
                     completions, wpc, wconn, refused, stranded>>
      /\ UNCHANGED <<closed, paused, waking>>
  BY DEF LaneSwap, connVars, portVars, workVars, histVars
<1>2. \A d \in Conns : Listed(d) => Listed(d)'
  BY <1>1, ListedSame
<1>3. QED
  BY <1>1, <1>2, ElsewhereKeeps

(* The list moves from paused to waking, which was empty.                  *)
LEMMA LaneBatchKeeps ==
  ASSUME IInv, CountInv', NEW l \in Lanes, LaneBatch(l)
  PROVE  IInv'
<1>1. /\ UNCHANGED <<setup, adopted, recvPaused, resumeQueued, resumePackets, consumed, buf, posted,
                     completions, wpc, wconn, refused, stranded>>
      /\ UNCHANGED closed
      /\ lpc[l] = "batch"
      /\ waking' = [waking EXCEPT ![l] = paused[l]] /\ paused' = [paused EXCEPT ![l] = <<>>]
  BY DEF LaneBatch, connVars, portVars, workVars
<1>2. /\ waking[l] = <<>> /\ waking'[l] = paused[l]
      /\ \A m \in Lanes : m # l => waking'[m] = waking[m] /\ paused'[m] = paused[m]
  BY <1>1 DEF IInv, CountInv, CountType, WakingExact
<1>3. \A d \in Conns : ~In(waking[l], d)
  BY <1>2 DEF In
<1>4. \A d \in Conns : Listed(d) => Listed(d)'
  <2>1. /\ \A d \in Conns : Listed(d) <=> \E m \in Lanes : In(paused[m], d) \/ In(waking[m], d)
        /\ \A d \in Conns : Listed(d)' <=> \E m \in Lanes : In(paused'[m], d) \/ In(waking'[m], d)
    BY ListedAs, ListedAsNext DEF IInv, CountInv
  <2>2. QED
    BY <1>2, <1>3, <2>1
<1>5. QED
  BY <1>1, <1>4, ElsewhereKeeps

(* The first of the list is woken: it gets its notification, cannot get    *)
(* one, or needs none, for it has one already or is not paused any more.   *)
LEMMA LaneWakeKeeps ==
  ASSUME IInv, CountInv', NEW l \in Lanes, LaneWake(l)
  PROVE  IInv'
<1>1. PICK c \in Conns : Head(waking[l]) = c
  BY LaneWakeFacts DEF IInv
<1>2. /\ UNCHANGED <<setup, adopted, closed, recvPaused, consumed, buf, posted,
                     completions, wpc, wconn, refused, paused>>
      /\ ResumeReceive(c)
  BY <1>1 DEF LaneWake, workVars
<1>3. /\ waking[l] # <<>> /\ waking[l] \in Seq(Conns) /\ waking'[l] = Tail(waking[l])
      /\ \A m \in Lanes : m # l => waking'[m] = waking[m]
  BY LaneWakeFacts DEF IInv, CountInv, CountType
<1>4. \A d \in Conns : d # c /\ Listed(d) => Listed(d)'
  <2>1. /\ \A d \in Conns : Listed(d) <=> \E m \in Lanes : In(paused[m], d) \/ In(waking[m], d)
        /\ \A d \in Conns : Listed(d)' <=> \E m \in Lanes : In(paused'[m], d) \/ In(waking'[m], d)
    BY ListedAs, ListedAsNext DEF IInv, CountInv
  <2>2. \A d \in Conns : In(waking[l], d) <=> d = c \/ In(waking'[l], d)
    BY <1>1, <1>3, InTail
  <2>3. QED
    BY <1>2, <1>3, <2>1, <2>2
<1>5. /\ \A d \in Conns : d # c => resumePackets'[d] = resumePackets[d] /\ resumeQueued'[d] = resumeQueued[d]
      /\ \A d \in Conns : d \in stranded => d \in stranded'
      /\ stranded' \in SUBSET Conns
  <2>1. resumePackets \in [Conns -> Nat] /\ resumeQueued \in [Conns -> BOOLEAN]
        /\ stranded \in SUBSET Conns
    BY DEF IInv, CountInv, CountType, BufferInv, DataType
  <2>2. /\ resumePackets' = resumePackets \/ resumePackets' = [resumePackets EXCEPT ![c] = @ + 1]
        /\ resumeQueued' = resumeQueued \/ resumeQueued' = [resumeQueued EXCEPT ![c] = TRUE]
        /\ stranded' = stranded \/ stranded' = stranded \union {c}
    BY <1>2 DEF ResumeReceive
  <2>3. QED
    BY <2>1, <2>2
<1>6. /\ resumePackets'[c] <= 1
      /\ resumePackets'[c] > 0 => recvPaused[c] /\ resumeQueued'[c]
      /\ resumeQueued'[c] => \/ resumePackets'[c] > 0
                             \/ \E v \in Workers : wconn[v] = c /\ wpc[v] = "resume"
      /\ recvPaused[c] /\ c \notin stranded' => resumePackets'[c] > 0
  <2>1. /\ resumePackets[c] \in Nat /\ resumePackets[c] <= 1
        /\ resumePackets[c] > 0 => recvPaused[c] /\ resumeQueued[c]
        /\ resumeQueued[c] => \/ resumePackets[c] > 0
                              \/ \E v \in Workers : wconn[v] = c /\ wpc[v] = "resume"
    BY DEF IInv, OwnerInv, ResumeFlags, CountInv, CountType
  <2>2. recvPaused[c] /\ resumeQueued[c] => resumePackets[c] > 0
    BY <2>1 DEF IInv, OwnerInv, PausedQuiet
  <2>3. CASE /\ recvPaused[c] /\ ~resumeQueued[c]
             /\ resumeQueued' = [resumeQueued EXCEPT ![c] = TRUE]
             /\ resumePackets' = [resumePackets EXCEPT ![c] = resumePackets[c] + 1]
    <3>1. resumePackets[c] = 0
      BY <2>1, <2>3
    <3>2. resumePackets'[c] = 1 /\ resumeQueued'[c]
      BY <2>3, <3>1 DEF IInv, CountInv, CountType
    <3>3. QED
      BY <2>3, <3>2
  <2>4. CASE UNCHANGED <<resumeQueued, resumePackets>> /\ c \in stranded'
    BY <2>1, <2>4
  <2>5. CASE UNCHANGED <<resumeQueued, resumePackets>> /\ ~(recvPaused[c] /\ ~resumeQueued[c])
    BY <2>1, <2>2, <2>5
  <2>6. QED
    BY <1>2, <2>3, <2>4, <2>5 DEF ResumeReceive
<1>7. \A v \in Workers, d \in Conns : /\ Handles(v, d)' <=> Handles(v, d)
                                      /\ Listing(v, d)' <=> Listing(v, d)
  BY <1>2 DEF Handles, Listing
<1>8. \A d \in Conns : /\ NoneOutstanding(d)' <=> NoneOutstanding(d)
                       /\ Outstanding(d)' = Outstanding(d)
  BY <1>2 DEF NoneOutstanding, Outstanding
<1>9. InThreads' /\ OneOwner'
  BY <1>2, <1>7, <1>8 DEF IInv, OwnerInv, InThreads, OneOwner
<1>10. PausedQuiet'
  BY <1>2, <1>8 DEF IInv, OwnerInv, PausedQuiet
<1>11. ResumeFlags'
  BY <1>2, <1>5, <1>6 DEF IInv, OwnerInv, ResumeFlags
<1>12. ListingPaused'
  BY <1>2, <1>7 DEF IInv, OwnerInv, ListingPaused, Kind
<1>13. PausedKnown'
  BY <1>2, <1>4, <1>5, <1>6, <1>7 DEF IInv, ServiceInv, PausedKnown
<1>14. InService'
  BY <1>2, <1>7, <1>8 DEF IInv, ServiceInv, InService
<1>15. DataType' /\ BufferSize' /\ LittleLeft' /\ CompletionsFit'
  BY <1>2, <1>5 DEF IInv, BufferInv, DataType, BufferSize, LittleLeft, CompletionsFit
<1>16. RoomToReceive'
  BY <1>2, <1>8 DEF IInv, BufferInv, RoomToReceive
<1>17. QED
  BY <1>9, <1>10, <1>11, <1>12, <1>13, <1>14, <1>15, <1>16 DEF IInv, OwnerInv, ServiceInv, BufferInv

-----------------------------------------------------------------------------
LEMMA InitIInv == Init => IInv
<1>1. SUFFICES ASSUME Init PROVE IInv
  OBVIOUS
<1>2. CountInv
  BY <1>1, InitCounts
<1>3. \A c \in Conns : /\ posted[c] = 0 /\ completions[c] = <<>> /\ resumePackets[c] = 0
                       /\ ~recvPaused[c] /\ ~resumeQueued[c] /\ ~adopted[c] /\ buf[c] = NoMemory
  BY <1>1 DEF Init
<1>4. \A w \in Workers : wpc[w] = "idle"
  BY <1>1 DEF Init
<1>5. \A c \in Conns : NoneOutstanding(c) /\ Outstanding(c) = 0
  <2>1. \A c \in Conns : Len(completions[c]) = 0
    BY <1>3, EmptySeq
  <2>2. QED
    BY <1>3, <2>1 DEF NoneOutstanding, Outstanding
<1>6. OwnerInv
  BY <1>3, <1>4, <1>5 DEF OwnerInv, InThreads, OneOwner, PausedQuiet, ResumeFlags, ListingPaused,
     Handles, Listing
<1>7. ServiceInv
  BY <1>3 DEF ServiceInv, PausedKnown, InService
<1>8. NoMemory \in Buffers /\ NoMemory.read <= NoMemory.write /\ NoMemory.write <= NoMemory.cap /\ NoMemory.cap = 0
  BY BufferAssumption DEF NoMemory, Allocate, Buffers
<1>9. DataType
  <2>1. /\ buf \in [Conns -> Buffers] /\ consumed \in [Conns -> Nat]
        /\ refused \in [Conns -> SUBSET Nat] /\ stranded \in SUBSET Conns
    BY <1>1, <1>8 DEF Init
  <2>2. completions \in [Conns -> Seq(0..MaxCapacity)]
    BY <1>1, EmptySeq DEF Init
  <2>3. QED
    BY <1>3, <1>8, <2>1, <2>2 DEF DataType
<1>10. BufferSize /\ LittleLeft /\ CompletionsFit
  BY <1>3, <1>4, <1>8 DEF BufferSize, LittleLeft, CompletionsFit
<1>11. RoomToReceive
  BY <1>5 DEF RoomToReceive
<1>12. QED
  BY <1>2, <1>6, <1>7, <1>9, <1>10, <1>11 DEF IInv, BufferInv

LEMMA NextIInv ==
  ASSUME OneWorkerOrRefusal, ChunkSuffices
  PROVE  IInv /\ [Next]_vars => IInv'
<1>1. SUFFICES ASSUME IInv, [Next]_vars PROVE IInv'
  OBVIOUS
<1>2. CountInv'
  BY <1>1, NextCounts DEF IInv
<1>3. ASSUME NEW c \in Conns, Adopt(c) \/ KernelReceive(c) \/ CloseElsewhere(c) PROVE IInv'
  BY <1>1, <1>2, <1>3, AdoptKeeps, KernelReceiveKeeps, CloseElsewhereKeeps
<1>4. ASSUME NEW w \in Workers, WorkerTakes(w) PROVE IInv'
  BY <1>1, <1>2, <1>4, ReceiveFailedKeeps, ReceiveDoneKeeps, OnResumeKeeps DEF WorkerTakes
<1>5. ASSUME NEW w \in Workers, WorkerGoesOn(w) PROVE IInv'
  BY <1>1, <1>2, <1>5, ClearResumeKeeps, DrainIncompleteKeeps, DrainTooLargeKeeps, ConsumeKeeps,
     DrainFatalKeeps, PauseKeeps, ListPausedKeeps, RepostKeeps, ReleaseKeeps DEF WorkerGoesOn
<1>6. ASSUME NEW l \in Lanes, Lane(l) PROVE IInv'
  BY <1>1, <1>2, <1>6, LaneSwapKeeps, LaneBatchKeeps, LaneWakeKeeps DEF Lane
<1>7. CASE UNCHANGED vars
  <2>1. /\ UNCHANGED <<setup, adopted, recvPaused, resumeQueued, resumePackets, consumed, buf, posted,
                       completions, wpc, wconn, refused, stranded>>
        /\ UNCHANGED <<closed, paused, waking>>
    BY <1>7 DEF vars, connVars, portVars, workVars, laneVars, histVars
  <2>2. \A d \in Conns : Listed(d) => Listed(d)'
    BY <2>1, ListedSame
  <2>3. QED
    BY <1>1, <1>2, <2>1, <2>2, ElsewhereKeeps
<1>8. QED
  BY <1>1, <1>3, <1>4, <1>5, <1>6, <1>7 DEF Next

LEMMA Invariance ==
  ASSUME OneWorkerOrRefusal, ChunkSuffices
  PROVE  Spec => []IInv
<1>1. IInv /\ [Next]_vars => IInv'
  BY NextIInv
<1>2. QED
  BY <1>1, InitIInv, PTL DEF Spec

(* The frame number of a fatal error is one more than those consumed.      *)
FatalType == fatal \in [Conns -> Nat]

LEMMA FatalTyped == IInv /\ FatalType /\ [Next]_vars => FatalType'
<1>1. SUFFICES ASSUME IInv, FatalType, [Next]_vars PROVE FatalType'
  OBVIOUS
<1>2. CASE fatal' = fatal
  BY <1>1, <1>2 DEF FatalType
<1>3. ASSUME NEW w \in Workers, DrainFatal(w) PROVE FatalType'
  <2>1. wconn[w] \in Conns /\ consumed \in [Conns -> Nat]
    BY <1>1 DEF IInv, CountInv, CountType, BufferInv, DataType
  <2>2. fatal' = [fatal EXCEPT ![wconn[w]] = consumed[wconn[w]] + 1]
    BY <1>3 DEF DrainFatal
  <2>3. QED
    BY <1>1, <2>1, <2>2 DEF FatalType
<1>4. ASSUME NEW c \in Conns, Adopt(c) \/ KernelReceive(c) \/ CloseElsewhere(c)
      PROVE  fatal' = fatal
  BY <1>4 DEF Adopt, KernelReceive, CloseElsewhere, histVars
<1>5. ASSUME NEW w \in Workers, WorkerTakes(w) PROVE fatal' = fatal
  BY <1>5 DEF WorkerTakes, ReceiveFailed, ReceiveDone, OnResume, histVars
<1>6. ASSUME NEW w \in Workers, WorkerGoesOn(w) PROVE fatal' = fatal \/ DrainFatal(w)
  BY <1>6 DEF WorkerGoesOn, ClearResume, DrainIncomplete, DrainTooLarge, DrainQueued,
     DrainRefused, Pause, ListPaused, Repost, Release, histVars
<1>7. ASSUME NEW l \in Lanes, Lane(l) PROVE fatal' = fatal
  BY <1>7 DEF Lane, LaneSwap, LaneBatch, LaneWake, histVars
<1>8. UNCHANGED vars => fatal' = fatal
  BY DEF vars, histVars
<1>9. QED
  BY <1>1, <1>2, <1>3, <1>4, <1>5, <1>6, <1>7, <1>8 DEF Next

(* Where one worker runs or the lanes refuse, and the first chunk holds    *)
(* what is left of a frame and a receive, every variable keeps its type:   *)
(* the positions of recv_buf_ stay in order and within the capacity.       *)
THEOREM TypeCorrect ==
  ASSUME OneWorkerOrRefusal, ChunkSuffices
  PROVE  Spec => []TypeOK
<1>1. IInv /\ FatalType => TypeOK
  BY DEF IInv, CountInv, CountType, BufferInv, DataType, Buffers, Places, FatalType, TypeOK
<1>2. Init => FatalType
  BY DEF Init, FatalType
<1>3. QED
  BY <1>1, <1>2, FatalTyped, Invariance, PTL DEF Spec

(* recv_buf_ and recv_op_ have one owner at a time, and a resume is due    *)
(* only while no receive is outstanding: what connection.cpp relies on     *)
(* where it takes no lock.                                                 *)
THEOREM OneOwnerAtATime ==
  ASSUME OneWorkerOrRefusal, ChunkSuffices
  PROVE  Spec => []OneReceiver
<1>1. ASSUME IInv PROVE OneReceiver
  <2>1. ASSUME NEW c \in Conns PROVE Outstanding(c) + Cardinality(Handling(c)) <= 1
    <3>1. Outstanding(c) \in Nat /\ Outstanding(c) <= 1
      BY <1>1, NoneMeansNone DEF IInv, OwnerInv, OneOwner, CountInv
    <3>2. CASE Handling(c) = {}
      <4>1. Cardinality(Handling(c)) = 0
        BY <3>2, FS_EmptySet
      <4>2. QED
        BY <3>1, <4>1
    <3>3. CASE Handling(c) # {}
      <4>1. PICK w \in Workers : Handles(w, c)
        BY <3>3 DEF Handling, Handles
      <4>2. Handling(c) = {w} /\ NoneOutstanding(c)
        BY <1>1, <4>1 DEF Handling, Handles, IInv, OwnerInv, OneOwner
      <4>3. Cardinality(Handling(c)) = 1
        BY <4>2, FS_Singleton
      <4>4. Outstanding(c) = 0
        BY <1>1, <4>2, NoneMeansNone DEF IInv, CountInv
      <4>5. QED
        BY <4>3, <4>4
    <3>4. QED
      BY <3>2, <3>3
  <2>2. ASSUME NEW c \in Conns PROVE Outstanding(c) + resumePackets[c] <= 1
    <3>1. Outstanding(c) \in Nat /\ Outstanding(c) <= 1
      BY <1>1, NoneMeansNone DEF IInv, OwnerInv, OneOwner, CountInv
    <3>2. resumePackets[c] \in Nat /\ resumePackets[c] <= 1
      BY <1>1 DEF IInv, CountInv, CountType, OwnerInv, ResumeFlags
    <3>3. resumePackets[c] > 0 => Outstanding(c) = 0
      BY <1>1, NoneMeansNone DEF IInv, CountInv, OwnerInv, ResumeFlags, PausedQuiet
    <3>4. QED
      BY <3>1, <3>2, <3>3
  <2>3. QED
    BY <2>1, <2>2 DEF OneReceiver
<1>2. QED
  BY <1>1, Invariance, PTL

(* A connection in service always has somebody who goes on with it: the    *)
(* kernel, a worker, a notification, or a lane that has it on its list.    *)
THEOREM NobodyForgotten ==
  ASSUME OneWorkerOrRefusal, ChunkSuffices
  PROVE  Spec => []NeverForgotten
<1>1. ASSUME IInv PROVE NeverForgotten
  <2>1. SUFFICES ASSUME NEW c \in Conns, adopted[c], ~closed[c], c \notin stranded,
                        Handling(c) = {}, ~(recvPaused[c] /\ Listed(c))
                 PROVE  Outstanding(c) + resumePackets[c] > 0
    BY DEF NeverForgotten
  <2>2. \A w \in Workers : ~Handles(w, c) /\ ~Listing(w, c)
    BY <2>1 DEF Handling, Handles, Listing
  <2>3. Outstanding(c) \in Nat /\ resumePackets[c] \in Nat
    BY <1>1, NoneMeansNone DEF IInv, CountInv, CountType
  <2>4. CASE ~recvPaused[c]
    <3>1. Outstanding(c) # 0
      BY <1>1, <2>1, <2>2, <2>4, NoneMeansNone DEF IInv, CountInv, ServiceInv, InService
    <3>2. QED
      BY <2>3, <3>1
  <2>5. CASE recvPaused[c]
    <3>1. resumePackets[c] > 0
      BY <1>1, <2>1, <2>2, <2>5 DEF IInv, ServiceInv, PausedKnown
    <3>2. QED
      BY <2>3, <3>1
  <2>6. QED
    BY <2>4, <2>5
<1>2. QED
  BY <1>1, Invariance, PTL

(* A receive always finds kMinFree free, in the first chunk: reserve_free  *)
(* neither grows the buffer nor refuses.                                   *)
THEOREM AlwaysRoom ==
  ASSUME OneWorkerOrRefusal, ChunkSuffices
  PROVE  Spec => []RoomToReceive
<1>1. IInv => RoomToReceive
  BY DEF IInv, BufferInv
<1>2. QED
  BY <1>1, Invariance, PTL

(* connection.cpp:148, under the same hypotheses: when on_resume is about  *)
(* to post the next receive, none is outstanding. With two workers and     *)
(* backpressure this fails; here is what saves it.                         *)
THEOREM ResumeFindsNone ==
  ASSUME OneWorkerOrRefusal, ChunkSuffices
  PROVE  Spec => []NoReceiveWhilePaused
<1>1. ASSUME IInv PROVE NoReceiveWhilePaused
  <2>1. SUFFICES ASSUME NEW w \in Workers, wpc[w] \in {"resumedDrain", "resumedRepost"}
                 PROVE  Outstanding(wconn[w]) = 0
    BY DEF NoReceiveWhilePaused
  <2>2. PICK c \in Conns : wconn[w] = c
    BY <1>1 DEF IInv, CountInv, CountType
  <2>3. NoneOutstanding(c)
    BY <1>1, <2>1, <2>2 DEF IInv, OwnerInv, OneOwner, Handles
  <2>4. QED
    BY <1>1, <2>2, <2>3, NoneMeansNone DEF IInv, CountInv
<1>2. QED
  BY <1>1, Invariance, PTL

-----------------------------------------------------------------------------
(* What the lanes get. The events of a lane, those it has handled first.   *)
Events == [conn : Conns, kind : {"connected", "disconnected", "message"}, frame : Nat]
Notices == {e \in Events : e.kind # "message"}

QueueType ==
  /\ inbound \in [Lanes -> Seq(Events)] /\ batch \in [Lanes -> Seq(Events)]
  /\ handled \in [Lanes -> Seq(Events)]
  /\ \A l \in Lanes : lpc[l] # "batch" => batch[l] = <<>>

(* Nothing is consumed or refused but what was cut from the stream.        *)
CutType ==
  /\ consumed \in [Conns -> Nat]
  /\ refused \in [Conns -> SUBSET Nat] /\ \A c \in Conns : refused[c] \subseteq 1..consumed[c]

(* The frames of c that the lane is due, and those a queue carries.        *)
Due(l, c) == {n \in 1..consumed[c] : setup.script[c][n] = l /\ n \notin refused[c]}
Mine(q, c) == {i \in DOMAIN q : q[i].conn = c /\ q[i].kind = "message"}
Carries(q, c, D) ==
  /\ \A i, j \in Mine(q, c) : i < j => q[i].frame < q[j].frame
  /\ {q[i].frame : i \in Mine(q, c)} = D

AllCarried == \A l \in Lanes, c \in Conns : Carries(Delivered(l), c, Due(l, c))
DeliveryInv == QueueType /\ CutType /\ AllCarried

LEMMA CarriesAppend ==
  ASSUME NEW q \in Seq(Events), NEW e \in Events, NEW c, NEW D, Carries(q, c, D)
  PROVE  /\ e.conn # c \/ e.kind # "message" => Carries(Append(q, e), c, D)
         /\ e.conn = c /\ e.kind = "message" /\ (\A n \in D : n < e.frame) =>
              Carries(Append(q, e), c, D \union {e.frame})
<1>1. /\ Len(q) \in Nat /\ DOMAIN q = 1..Len(q) /\ DOMAIN Append(q, e) = 1..Len(q) + 1
      /\ Append(q, e)[Len(q) + 1] = e
      /\ \A i \in 1..Len(q) : Append(q, e)[i] = q[i]
  BY AppendProperties, LenProperties
<1>2. Mine(q, c) \subseteq 1..Len(q) /\ Len(q) + 1 \notin Mine(q, c)
  BY <1>1 DEF Mine
<1>3. \A i \in Mine(q, c) : Append(q, e)[i].frame = q[i].frame
  BY <1>1, <1>2
<1>4. ASSUME e.conn # c \/ e.kind # "message" PROVE Carries(Append(q, e), c, D)
  <2>1. Mine(Append(q, e), c) = Mine(q, c)
    BY <1>1, <1>4 DEF Mine
  <2>2. {Append(q, e)[i].frame : i \in Mine(q, c)} = {q[i].frame : i \in Mine(q, c)}
    BY <1>3
  <2>3. ASSUME NEW i \in Mine(q, c), NEW j \in Mine(q, c), i < j
        PROVE  Append(q, e)[i].frame < Append(q, e)[j].frame
    BY <1>3, <2>3 DEF Carries
  <2>4. {q[i].frame : i \in Mine(q, c)} = D
    BY DEF Carries
  <2>5. /\ \A i, j \in Mine(q, c) : i < j => Append(q, e)[i].frame < Append(q, e)[j].frame
        /\ {Append(q, e)[i].frame : i \in Mine(q, c)} = D
    BY <2>2, <2>3, <2>4, Zenon
  <2>6. QED
    BY <2>1, <2>5, Zenon DEF Carries
<1>5. ASSUME e.conn = c, e.kind = "message", \A n \in D : n < e.frame
      PROVE  Carries(Append(q, e), c, D \union {e.frame})
  <2>1. Mine(Append(q, e), c) = Mine(q, c) \union {Len(q) + 1}
    BY <1>1, <1>5 DEF Mine
  <2>2. {q[i].frame : i \in Mine(q, c)} = D
    BY DEF Carries
  <2>3. {Append(q, e)[i].frame : i \in Mine(Append(q, e), c)} = D \union {e.frame}
    <3>1. PICK M : M = Mine(q, c)
      OBVIOUS
    <3>2. PICK r : r = Append(q, e)
      OBVIOUS
    <3>3. {r[i].frame : i \in M} = D
      BY <1>3, <2>2, <3>1, <3>2
    <3>4. r[Len(q) + 1] = e
      BY <1>1, <3>2
    <3>5. {r[i].frame : i \in M \union {Len(q) + 1}} = D \union {e.frame}
      BY <3>3, <3>4
    <3>6. QED
      BY <2>1, <3>1, <3>2, <3>5
  <2>4. ASSUME NEW i \in Mine(Append(q, e), c), NEW j \in Mine(Append(q, e), c), i < j
        PROVE  Append(q, e)[i].frame < Append(q, e)[j].frame
    <3>1. i \in Mine(q, c)
      BY <1>1, <1>2, <2>1, <2>4
    <3>2. CASE j \in Mine(q, c)
      BY <1>3, <2>4, <3>1, <3>2 DEF Carries
    <3>3. CASE j = Len(q) + 1
      <4>1. q[i].frame \in D
        BY <2>2, <3>1
      <4>2. QED
        BY <1>1, <1>3, <1>5, <3>1, <3>3, <4>1
    <3>4. QED
      BY <2>1, <3>2, <3>3
  <2>5. QED
    BY <2>3, <2>4 DEF Carries
<1>6. QED
  BY <1>4, <1>5

LEMMA ConcatAppend ==
  ASSUME NEW S, NEW a \in Seq(S), NEW q \in Seq(S), NEW e \in S
  PROVE  a \o Append(q, e) = Append(a \o q, e)
<1>1. <<e>> \in Seq(S)
  OBVIOUS
<1>7. PICK u \in Seq(S) : u = <<e>>
  BY <1>1
<1>2. PICK r \in Seq(S) : r = a \o q
  BY ConcatProperties
<1>3. Append(q, e) = q \o u
  BY <1>7, AppendIsConcat
<1>4. Append(r, e) = r \o u
  BY <1>7, AppendIsConcat
<1>5. (a \o q) \o u = a \o (q \o u)
  BY <1>7, ConcatAssociative
<1>6. QED
  BY <1>2, <1>3, <1>4, <1>5, Zenon

LEMMA DeliveredFacts ==
  ASSUME QueueType, NEW l \in Lanes
  PROVE  /\ handled[l] \o batch[l] \in Seq(Events) /\ inbound[l] \in Seq(Events)
         /\ batch[l] \in Seq(Events) /\ handled[l] \in Seq(Events)
         /\ Delivered(l) \in Seq(Events)
<1>1. inbound[l] \in Seq(Events) /\ batch[l] \in Seq(Events) /\ handled[l] \in Seq(Events)
  BY DEF QueueType
<1>2. QED
  BY <1>1, ConcatProperties DEF Delivered

LEMMA SameDue ==
  ASSUME UNCHANGED <<setup, consumed, refused>>
  PROVE  \A l \in Lanes, c \in Conns : Due(l, c)' = Due(l, c)
BY DEF Due

LEMMA SameDelivered ==
  ASSUME AllCarried, UNCHANGED <<setup, consumed, refused>>,
         \A l \in Lanes : Delivered(l)' = Delivered(l)
  PROVE  AllCarried'
<1>1. \A l \in Lanes, c \in Conns : Due(l, c)' = Due(l, c)
  BY SameDue
<1>2. \A l \in Lanes, c \in Conns : Carries(Delivered(l), c, Due(l, c))
  BY DEF AllCarried
<1>3. \A l \in Lanes, c \in Conns : Carries(Delivered(l)', c, Due(l, c)')
  BY <1>1, <1>2, Zenon
<1>4. QED
  BY <1>3, Zenon DEF AllCarried, Carries, Mine

LEMMA QuietDelivers ==
  ASSUME DeliveryInv, UNCHANGED <<setup, consumed, refused, handled, batch, inbound>>,
         \A l \in Lanes : lpc[l] = "batch" => lpc'[l] = "batch"
  PROVE  DeliveryInv'
<1>1. QueueType' /\ CutType'
  <2>1. QueueType'
    BY DEF DeliveryInv, QueueType
  <2>2. CutType'
    BY SMT DEF DeliveryInv, CutType
  <2>3. QED
    BY <2>1, <2>2
<1>2. \A l \in Lanes : Delivered(l)' = Delivered(l)
  BY DEF Delivered
<1>3. QED
  BY <1>1, <1>2, SameDelivered DEF DeliveryInv

LEMMA CarriesNotice ==
  ASSUME NEW q \in Seq(Events), NEW e \in Notices, NEW c, NEW D, Carries(q, c, D)
  PROVE  Append(q, e) \in Seq(Events) /\ Carries(Append(q, e), c, D)
<1>1. e \in Events /\ e.kind # "message"
  BY DEF Notices
<1>2. QED
  BY <1>1, CarriesAppend, AppendProperties

(* What a step may add to the queue of a lane: at most two notices.        *)
Noticed(l) ==
  \/ inbound'[l] = inbound[l]
  \/ \E e \in Notices : inbound'[l] = Append(inbound[l], e)
  \/ \E e, f \in Notices : inbound'[l] = Append(Append(inbound[l], e), f)

LEMMA NoticeDelivers ==
  ASSUME DeliveryInv, NEW l \in Lanes, Noticed(l), handled' = handled, batch' = batch
  PROVE  /\ inbound'[l] \in Seq(Events)
         /\ \A c \in Conns : Carries(Delivered(l)', c, Due(l, c))
<1>1. PICK h \in Seq(Events) : h = handled[l] \o batch[l]
  BY DeliveredFacts DEF DeliveryInv
<1>2. PICK q \in Seq(Events) : q = inbound[l]
  BY DeliveredFacts DEF DeliveryInv
<1>3. h \o q \in Seq(Events) /\ \A c \in Conns : Carries(h \o q, c, Due(l, c))
  <2>1. h \o q \in Seq(Events)
    BY ConcatProperties
  <2>2. Delivered(l) = h \o q
    BY <1>1, <1>2 DEF Delivered
  <2>3. \A c \in Conns : Carries(Delivered(l), c, Due(l, c))
    BY DEF DeliveryInv, AllCarried
  <2>4. QED
    BY <2>1, <2>2, <2>3, Zenon
<1>4. Delivered(l)' = h \o inbound'[l]
  BY <1>1 DEF Delivered
<1>5. \A e \in Notices :
        /\ Append(q, e) \in Seq(Events) /\ h \o Append(q, e) \in Seq(Events)
        /\ \A c \in Conns : Carries(h \o Append(q, e), c, Due(l, c))
  <2>1. TAKE e \in Notices
  <2>2. e \in Events
    BY DEF Notices
  <2>3. h \o Append(q, e) = Append(h \o q, e)
    BY <2>2, ConcatAppend
  <2>4. Append(q, e) \in Seq(Events) /\ Append(h \o q, e) \in Seq(Events)
    BY <1>3, <2>2, AppendProperties
  <2>5. \A c \in Conns : Carries(Append(h \o q, e), c, Due(l, c))
    BY <1>3, CarriesNotice
  <2>6. QED
    BY <2>3, <2>4, <2>5, Zenon
<1>6. CASE inbound'[l] = inbound[l]
  BY <1>2, <1>3, <1>4, <1>6, Zenon
<1>7. CASE \E e \in Notices : inbound'[l] = Append(inbound[l], e)
  BY <1>2, <1>4, <1>5, <1>7, Zenon
<1>8. CASE \E e, f \in Notices : inbound'[l] = Append(Append(inbound[l], e), f)
  <2>1. PICK e \in Notices, f \in Notices : inbound'[l] = Append(Append(q, e), f)
    BY <1>2, <1>8
  <2>2. PICK r \in Seq(Events) : r = Append(q, e)
    BY <1>5
  <2>3. f \in Events
    BY DEF Notices
  <2>4. h \o Append(r, f) = Append(h \o r, f) /\ Append(r, f) \in Seq(Events)
    BY <2>3, ConcatAppend, AppendProperties
  <2>5. \A c \in Conns : Carries(h \o r, c, Due(l, c))
    BY <1>5, <2>2
  <2>6. h \o r \in Seq(Events)
    BY ConcatProperties
  <2>7. \A c \in Conns : Carries(Append(h \o r, f), c, Due(l, c))
    BY <2>5, <2>6, CarriesNotice
  <2>8. QED
    BY <1>4, <2>1, <2>2, <2>4, <2>7, Zenon
<1>9. QED
  BY <1>6, <1>7, <1>8 DEF Noticed

LEMMA NoticesDeliver ==
  ASSUME DeliveryInv, UNCHANGED <<setup, consumed, refused, handled, batch, lpc>>,
         inbound' = [l \in Lanes |-> inbound'[l]], \A l \in Lanes : Noticed(l)
  PROVE  DeliveryInv'
<1>1. \A l \in Lanes : /\ inbound'[l] \in Seq(Events)
                        /\ \A c \in Conns : Carries(Delivered(l)', c, Due(l, c))
  BY NoticeDelivers
<1>2. inbound' \in [Lanes -> Seq(Events)]
  BY <1>1
<1>3. QueueType' /\ CutType'
  <2>1. QueueType'
    BY <1>2 DEF DeliveryInv, QueueType
  <2>2. CutType'
    BY SMT DEF DeliveryInv, CutType
  <2>3. QED
    BY <2>1, <2>2
<1>4. \A l \in Lanes, c \in Conns : Due(l, c)' = Due(l, c)
  BY SameDue
<1>5. \A l \in Lanes, c \in Conns : Carries(Delivered(l)', c, Due(l, c)')
  BY <1>1, <1>4, Zenon
<1>6. AllCarried'
  BY <1>5, Zenon DEF AllCarried, Carries, Mine
<1>7. QED
  BY <1>3, <1>6 DEF DeliveryInv

LEMMA EventsMade ==
  ASSUME NEW c \in Conns
  PROVE  /\ \A n \in Nat : Event(c, "message", n) \in Events
         /\ Event(c, "connected", 0) \in Notices /\ Event(c, "disconnected", 0) \in Notices
BY DEF Event, Events, Notices

(* close, wherever it comes from.                                          *)
LEMMA CloseDelivers ==
  ASSUME DeliveryInv, NEW c \in Conns, Close(c),
         UNCHANGED <<setup, consumed, refused, handled, batch, lpc>>
  PROVE  DeliveryInv'
<1>1. \A l \in Lanes : Noticed(l)
  BY EventsMade DEF Close, ToAll, Noticed
<1>2. inbound \in [Lanes -> Seq(Events)]
  BY DEF DeliveryInv, QueueType
<1>3. inbound' = [l \in Lanes |-> inbound'[l]]
  BY <1>2 DEF Close, ToAll
<1>4. QED
  BY <1>1, <1>3, NoticesDeliver

LEMMA AdoptDelivers ==
  ASSUME DeliveryInv, NEW c \in Conns, Adopt(c)
  PROVE  DeliveryInv'
<1>1. UNCHANGED <<setup, consumed, refused, handled, batch, lpc>>
  BY DEF Adopt, histVars
<1>2. PICK e \in Notices, f \in Notices :
         e = Event(c, "connected", 0) /\ f = Event(c, "disconnected", 0)
  BY EventsMade
<1>3. \/ inbound' = [l \in Lanes |-> Append(inbound[l], e)]
      \/ inbound' = [l \in Lanes |-> Append(Append(inbound[l], e), f)]
  BY <1>2 DEF Adopt, ToAll
<1>4. \A l \in Lanes : Noticed(l)
  BY <1>3 DEF Noticed
<1>5. inbound' = [l \in Lanes |-> inbound'[l]]
  BY <1>3
<1>6. QED
  BY <1>1, <1>4, <1>5, NoticesDeliver

LEMMA RepostDelivers ==
  ASSUME CountInv, DeliveryInv, NEW w \in Workers, Repost(w)
  PROVE  DeliveryInv'
<1>1. UNCHANGED <<setup, consumed, refused, handled, batch, lpc>>
  BY DEF Repost, histVars
<1>2. wconn[w] \in Conns
  BY DEF CountInv, CountType
<1>3. inbound' = inbound \/ Close(wconn[w])
  BY DEF Repost, PostReceive
<1>4. CASE inbound' = inbound
  BY <1>1, <1>4, QuietDelivers
<1>5. QED
  BY <1>1, <1>2, <1>3, <1>4, CloseDelivers

-----------------------------------------------------------------------------
(* The frames cut from the stream.                                         *)
LEMMA QueuedDelivers ==
  ASSUME CountInv, DeliveryInv, NEW w \in Workers, DrainQueued(w)
  PROVE  DeliveryInv'
<1>1. PICK c \in Conns : c = wconn[w]
  BY DEF CountInv, CountType
<1>2. PICK n \in Nat : n = consumed[c] + 1
  BY DEF DeliveryInv, CutType
<1>3. PICK k \in Lanes : k = Kind(c)
  BY <1>1 DEF DrainQueued
<1>4. PICK e \in Events : e = Event(c, "message", n)
  BY EventsMade
<1>5. /\ UNCHANGED <<setup, refused, handled, batch, lpc>>
      /\ inbound' = [inbound EXCEPT ![k] = Append(@, e)]
      /\ consumed' = [consumed EXCEPT ![c] = n]
  BY <1>1, <1>2, <1>3, <1>4 DEF DrainQueued, Consume, histVars
<1>6. consumed \in [Conns -> Nat] /\ refused \in [Conns -> SUBSET Nat]
      /\ \A d \in Conns : refused[d] \subseteq 1..consumed[d]
  BY DEF DeliveryInv, CutType
<1>7. inbound \in [Lanes -> Seq(Events)] /\ inbound[k] \in Seq(Events)
  BY DEF DeliveryInv, QueueType
<1>8. QueueType' /\ CutType'
  <2>1. Append(inbound[k], e) \in Seq(Events)
    BY <1>7, AppendProperties
  <2>2. QueueType'
    BY <1>5, <1>7, <2>1 DEF DeliveryInv, QueueType
  <2>3. \A d \in Conns : consumed'[d] \in Nat /\ refused'[d] \subseteq 1..consumed'[d]
    BY <1>2, <1>5, <1>6
  <2>4. CutType'
    BY <1>2, <1>5, <1>6, <2>3 DEF CutType
  <2>5. QED
    BY <2>2, <2>4
<1>9. /\ \A l \in Lanes, d \in Conns : l # k \/ d # c => Due(l, d)' = Due(l, d)
      /\ Due(k, c)' = Due(k, c) \union {n}
      /\ \A m \in Due(k, c) : m < n
  <2>1. setup.script[c][n] = k
    BY <1>2, <1>3 DEF Kind
  <2>2. n \notin refused[c] /\ 1..n = (1..consumed[c]) \union {n} /\ n \notin 1..consumed[c]
    BY <1>2, <1>6
  <2>3. \A m \in 1..consumed[c] : m < n
    BY <1>2, <1>6
  <2>4. \A d \in Conns : d # c => consumed'[d] = consumed[d]
    BY <1>5, <1>6
  <2>5. consumed'[c] = n
    BY <1>5, <1>6
  <2>6. Due(k, c)' = Due(k, c) \union {n}
    BY <1>5, <2>1, <2>2, <2>5 DEF Due
  <2>7. \A l \in Lanes : l # k => Due(l, c)' = Due(l, c)
    BY <1>5, <2>1, <2>2, <2>5 DEF Due
  <2>8. \A l \in Lanes, d \in Conns : d # c => Due(l, d)' = Due(l, d)
    BY <1>5, <2>4 DEF Due
  <2>9. \A m \in Due(k, c) : m < n
    BY <2>3 DEF Due
  <2>10. QED
    BY <2>6, <2>7, <2>8, <2>9
<1>10. ASSUME NEW l \in Lanes, l # k PROVE Delivered(l)' = Delivered(l)
  BY <1>5, <1>7, <1>10 DEF Delivered
<1>11. PICK h \in Seq(Events) : h = Delivered(k)
  BY DeliveredFacts DEF DeliveryInv
<1>12. Delivered(k)' = Append(h, e)
  <2>1. PICK a \in Seq(Events) : a = handled[k] \o batch[k]
    BY DeliveredFacts DEF DeliveryInv
  <2>2. inbound'[k] = Append(inbound[k], e)
    BY <1>5, <1>7
  <2>3. a \o Append(inbound[k], e) = Append(a \o inbound[k], e)
    BY <1>7, ConcatAppend
  <2>4. Delivered(k)' = a \o Append(inbound[k], e)
    BY <1>5, <2>1, <2>2 DEF Delivered
  <2>5. h = a \o inbound[k]
    BY <1>11, <2>1 DEF Delivered
  <2>6. QED
    BY <2>3, <2>4, <2>5, Zenon
<1>13. \A l \in Lanes, d \in Conns : Carries(Delivered(l), d, Due(l, d))
  BY DEF DeliveryInv, AllCarried
<1>14. ASSUME NEW l \in Lanes, NEW d \in Conns
       PROVE  Carries(Delivered(l)', d, Due(l, d)')
  <2>1. CASE l # k
    BY <1>9, <1>10, <1>13, <2>1, Zenon
  <2>2. CASE l = k /\ d # c
    <3>1. Carries(h, d, Due(k, d))
      BY <1>11, <1>13
    <3>2. e.conn # d
      BY <1>4, <2>2 DEF Event
    <3>3. Carries(Append(h, e), d, Due(k, d))
      BY <3>1, <3>2, CarriesAppend
    <3>4. QED
      BY <1>9, <1>12, <2>2, <3>3, Zenon
  <2>3. CASE l = k /\ d = c
    <3>1. Carries(h, c, Due(k, c))
      BY <1>11, <1>13
    <3>2. e.conn = c /\ e.kind = "message" /\ e.frame = n
      BY <1>4 DEF Event
    <3>3. Carries(Append(h, e), c, Due(k, c) \union {n})
      BY <1>9, <3>1, <3>2, CarriesAppend
    <3>4. QED
      BY <1>9, <1>12, <2>3, <3>3, Zenon
  <2>4. QED
    BY <2>1, <2>2, <2>3
<1>15. AllCarried'
  BY <1>14, Zenon DEF AllCarried, Carries, Mine
<1>16. QED
  BY <1>8, <1>15 DEF DeliveryInv

LEMMA RefusedDelivers ==
  ASSUME CountInv, DeliveryInv, NEW w \in Workers, DrainRefused(w)
  PROVE  DeliveryInv'
<1>1. PICK c \in Conns : c = wconn[w]
  BY DEF CountInv, CountType
<1>2. PICK n \in Nat : n = consumed[c] + 1
  BY DEF DeliveryInv, CutType
<1>3. /\ UNCHANGED <<setup, handled, batch, inbound, lpc>>
      /\ refused' = [refused EXCEPT ![c] = @ \union {n}]
      /\ consumed' = [consumed EXCEPT ![c] = n]
  BY <1>1, <1>2 DEF DrainRefused, Consume, laneVars
<1>4. consumed \in [Conns -> Nat] /\ refused \in [Conns -> SUBSET Nat]
      /\ \A d \in Conns : refused[d] \subseteq 1..consumed[d]
  BY DEF DeliveryInv, CutType
<1>5. 1..n = (1..consumed[c]) \union {n} /\ n \notin 1..consumed[c] /\ n \in 1..n
  BY <1>2, <1>4
<1>6. consumed'[c] = n /\ refused'[c] = refused[c] \union {n}
  BY <1>3, <1>4
<1>7. \A d \in Conns : d # c => consumed'[d] = consumed[d] /\ refused'[d] = refused[d]
  BY <1>3, <1>4
<1>8. QueueType'
  BY <1>3 DEF DeliveryInv, QueueType
<1>9. CutType'
  <2>1. \A d \in Conns : refused'[d] \subseteq 1..consumed'[d]
    BY <1>4, <1>5, <1>6, <1>7
  <2>2. consumed' \in [Conns -> Nat] /\ refused' \in [Conns -> SUBSET Nat]
    BY <1>3, <1>4
  <2>3. QED
    BY <2>1, <2>2 DEF CutType
<1>10. \A l \in Lanes, d \in Conns : Due(l, d)' = Due(l, d)
  <2>1. \A l \in Lanes : Due(l, c)' = Due(l, c)
    BY <1>3, <1>5, <1>6 DEF Due
  <2>2. \A l \in Lanes, d \in Conns : d # c => Due(l, d)' = Due(l, d)
    BY <1>3, <1>7 DEF Due
  <2>3. QED
    BY <2>1, <2>2
<1>11. \A l \in Lanes : Delivered(l)' = Delivered(l)
  BY <1>3 DEF Delivered
<1>12. \A l \in Lanes, d \in Conns : Carries(Delivered(l), d, Due(l, d))
  BY DEF DeliveryInv, AllCarried
<1>13. \A l \in Lanes, d \in Conns : Carries(Delivered(l)', d, Due(l, d)')
  BY <1>10, <1>11, <1>12, Zenon
<1>14. AllCarried'
  BY <1>13, Zenon DEF AllCarried, Carries, Mine
<1>15. QED
  BY <1>8, <1>9, <1>14 DEF DeliveryInv

-----------------------------------------------------------------------------
(* A swap and a batch move events from one part of a lane to the next.     *)
LEMMA SwapDelivers ==
  ASSUME CountInv, DeliveryInv, NEW l \in Lanes, LaneSwap(l)
  PROVE  DeliveryInv'
<1>1. /\ UNCHANGED <<setup, consumed, refused, handled>> /\ lpc[l] = "idle"
      /\ batch' = [batch EXCEPT ![l] = inbound[l]]
      /\ inbound' = [inbound EXCEPT ![l] = <<>>]
      /\ lpc' = [lpc EXCEPT ![l] = "batch"]
  BY DEF LaneSwap, connVars, histVars
<1>2. /\ inbound \in [Lanes -> Seq(Events)] /\ batch \in [Lanes -> Seq(Events)]
      /\ handled \in [Lanes -> Seq(Events)] /\ batch[l] = <<>>
  BY <1>1 DEF DeliveryInv, QueueType
<1>3. QueueType'
  <2>1. inbound' \in [Lanes -> Seq(Events)] /\ batch' \in [Lanes -> Seq(Events)]
    BY <1>1, <1>2
  <2>2. \A m \in Lanes : lpc'[m] # "batch" => batch'[m] = <<>>
    <3>1. lpc \in [Lanes -> {"idle", "batch", "wake"}]
      BY DEF CountInv, CountType
    <3>2. \A m \in Lanes : m # l => lpc'[m] = lpc[m] /\ batch'[m] = batch[m]
      BY <1>1, <1>2, <3>1
    <3>3. lpc'[l] = "batch"
      BY <1>1, <3>1
    <3>4. QED
      BY <3>2, <3>3 DEF DeliveryInv, QueueType
  <2>3. QED
    BY <1>1, <1>2, <2>1, <2>2 DEF QueueType
<1>4. CutType'
  BY <1>1, SMT DEF DeliveryInv, CutType
<1>5. ASSUME NEW m \in Lanes, m # l PROVE Delivered(m)' = Delivered(m)
  BY <1>1, <1>2, <1>5 DEF Delivered
<1>6. Delivered(l)' = Delivered(l)
  <2>1. PICK h \in Seq(Events), q \in Seq(Events) : h = handled[l] /\ q = inbound[l]
    BY <1>2
  <2>2. h \o <<>> = h /\ (h \o q) \o <<>> = h \o q
    BY ConcatEmptySeq, ConcatProperties
  <2>3. handled'[l] = h /\ batch'[l] = q /\ inbound'[l] = <<>>
    BY <1>1, <1>2, <2>1
  <2>4. Delivered(l)' = (h \o q) \o <<>>
    BY <2>3 DEF Delivered
  <2>5. Delivered(l) = (h \o <<>>) \o q
    BY <1>2, <2>1 DEF Delivered
  <2>6. QED
    BY <2>2, <2>4, <2>5, Zenon
<1>7. \A m \in Lanes : Delivered(m)' = Delivered(m)
  BY <1>5, <1>6, Zenon
<1>8. QED
  BY <1>1, <1>3, <1>4, <1>7, SameDelivered DEF DeliveryInv

LEMMA BatchDelivers ==
  ASSUME CountInv, DeliveryInv, NEW l \in Lanes, LaneBatch(l)
  PROVE  DeliveryInv'
<1>1. /\ UNCHANGED <<setup, consumed, refused, inbound>> /\ lpc[l] = "batch"
      /\ handled' = [handled EXCEPT ![l] = @ \o batch[l]]
      /\ batch' = [batch EXCEPT ![l] = <<>>]
      /\ \A m \in Lanes : m # l => lpc'[m] = lpc[m]
  BY DEF LaneBatch, connVars
<1>2. /\ inbound \in [Lanes -> Seq(Events)] /\ batch \in [Lanes -> Seq(Events)]
      /\ handled \in [Lanes -> Seq(Events)]
  BY DEF DeliveryInv, QueueType
<1>3. PICK h \in Seq(Events), b \in Seq(Events), q \in Seq(Events) :
         h = handled[l] /\ b = batch[l] /\ q = inbound[l]
  BY <1>2
<1>4. h \o b \in Seq(Events) /\ (h \o b) \o <<>> = h \o b
  BY ConcatProperties, ConcatEmptySeq
<1>5. handled'[l] = h \o b /\ batch'[l] = <<>> /\ inbound'[l] = q
  BY <1>1, <1>2, <1>3
<1>6. QueueType'
  <2>1. handled' \in [Lanes -> Seq(Events)]
    BY <1>1, <1>2, <1>3, <1>4
  <2>2. batch' \in [Lanes -> Seq(Events)]
    BY <1>1, <1>2
  <2>3. \A m \in Lanes : lpc'[m] # "batch" => batch'[m] = <<>>
    <3>1. ASSUME NEW m \in Lanes, lpc'[m] # "batch" PROVE batch'[m] = <<>>
      <4>1. CASE m = l
        BY <1>5, <4>1
      <4>2. CASE m # l
        <5>1. batch'[m] = batch[m] /\ lpc'[m] = lpc[m]
          BY <1>1, <1>2, <4>2
        <5>2. QED
          BY <3>1, <5>1 DEF DeliveryInv, QueueType
      <4>3. QED
        BY <4>1, <4>2
    <3>2. QED
      BY <3>1
  <2>4. QED
    BY <1>1, <1>2, <2>1, <2>2, <2>3 DEF QueueType
<1>7. CutType'
  BY <1>1, SMT DEF DeliveryInv, CutType
<1>8. ASSUME NEW m \in Lanes, m # l PROVE Delivered(m)' = Delivered(m)
  BY <1>1, <1>2, <1>8 DEF Delivered
<1>9. Delivered(l)' = Delivered(l)
  <2>1. Delivered(l)' = ((h \o b) \o <<>>) \o q
    BY <1>5 DEF Delivered
  <2>2. Delivered(l) = (h \o b) \o q
    BY <1>3 DEF Delivered
  <2>3. QED
    BY <1>4, <2>1, <2>2, Zenon
<1>10. \A m \in Lanes : Delivered(m)' = Delivered(m)
  BY <1>8, <1>9, Zenon
<1>11. QED
  BY <1>1, <1>6, <1>7, <1>10, SameDelivered DEF DeliveryInv

-----------------------------------------------------------------------------
LEMMA InitDelivery == Init => DeliveryInv
<1>1. SUFFICES ASSUME Init PROVE DeliveryInv
  OBVIOUS
<1>2. <<>> \in Seq(Events) /\ <<>> \o <<>> = <<>>
  BY ConcatEmptySeq
<1>3. QueueType /\ CutType
  BY <1>1, <1>2 DEF Init, QueueType, CutType
<1>4. ASSUME NEW l \in Lanes, NEW c \in Conns PROVE Carries(Delivered(l), c, Due(l, c))
  <2>1. Delivered(l) = <<>>
    BY <1>1, <1>2 DEF Init, Delivered
  <2>2. Due(l, c) = {}
    BY <1>1 DEF Init, Due
  <2>3. Carries(<<>>, c, {})
    BY DEF Carries, Mine
  <2>4. QED
    BY <2>1, <2>2, <2>3
<1>5. QED
  BY <1>3, <1>4 DEF DeliveryInv, AllCarried

LEMMA WorkerDelivers ==
  ASSUME CountInv, DeliveryInv, NEW w \in Workers, WorkerTakes(w) \/ WorkerGoesOn(w)
  PROVE  DeliveryInv'
<1>1. wconn[w] \in Conns
  BY DEF CountInv, CountType
<1>2. ASSUME NEW c \in Conns, ReceiveFailed(w, c) PROVE DeliveryInv'
  BY <1>2, CloseDelivers DEF ReceiveFailed, histVars
<1>3. ASSUME NEW c \in Conns, ReceiveDone(w, c) PROVE DeliveryInv'
  BY <1>3, QuietDelivers DEF ReceiveDone, laneVars, histVars
<1>4. ASSUME NEW c \in Conns, OnResume(w, c) PROVE DeliveryInv'
  BY <1>4, QuietDelivers DEF OnResume, laneVars, histVars
<1>5. CASE ClearResume(w)
  BY <1>5, QuietDelivers DEF ClearResume, laneVars, histVars
<1>6. CASE DrainIncomplete(w)
  BY <1>6, QuietDelivers DEF DrainIncomplete, connVars, laneVars, histVars
<1>7. CASE DrainTooLarge(w)
  BY <1>1, <1>7, CloseDelivers DEF DrainTooLarge, histVars
<1>8. CASE DrainQueued(w)
  BY <1>8, QueuedDelivers
<1>9. CASE DrainRefused(w)
  BY <1>9, RefusedDelivers
<1>10. CASE Pause(w)
  BY <1>10, QuietDelivers DEF Pause, laneVars, histVars
<1>11. CASE ListPaused(w)
  BY <1>11, QuietDelivers DEF ListPaused, KeepsFrame, histVars
<1>12. CASE Repost(w)
  BY <1>12, RepostDelivers
<1>13. CASE Release(w)
  BY <1>13, QuietDelivers DEF Release, laneVars, histVars
<1>14. CASE DrainFatal(w)
  BY <1>1, <1>14, CloseDelivers DEF DrainFatal
<1>15. QED
  BY <1>2, <1>3, <1>4, <1>5, <1>6, <1>7, <1>8, <1>9, <1>10, <1>11, <1>12, <1>13, <1>14
     DEF WorkerTakes, WorkerGoesOn

LEMMA NextDelivery == CountInv /\ DeliveryInv /\ [Next]_vars => DeliveryInv'
<1>1. SUFFICES ASSUME CountInv, DeliveryInv, [Next]_vars PROVE DeliveryInv'
  OBVIOUS
<1>2. ASSUME NEW c \in Conns, Adopt(c) PROVE DeliveryInv'
  BY <1>1, <1>2, AdoptDelivers
<1>3. ASSUME NEW c \in Conns, KernelReceive(c) PROVE DeliveryInv'
  BY <1>1, <1>3, QuietDelivers DEF KernelReceive, connVars, laneVars, histVars
<1>4. ASSUME NEW c \in Conns, CloseElsewhere(c) PROVE DeliveryInv'
  BY <1>1, <1>4, CloseDelivers DEF CloseElsewhere, histVars
<1>5. ASSUME NEW w \in Workers, WorkerTakes(w) \/ WorkerGoesOn(w) PROVE DeliveryInv'
  BY <1>1, <1>5, WorkerDelivers
<1>6. ASSUME NEW l \in Lanes, LaneSwap(l) PROVE DeliveryInv'
  BY <1>1, <1>6, SwapDelivers
<1>7. ASSUME NEW l \in Lanes, LaneBatch(l) PROVE DeliveryInv'
  BY <1>1, <1>7, BatchDelivers
<1>8. ASSUME NEW l \in Lanes, LaneWake(l) PROVE DeliveryInv'
  <2>1. UNCHANGED <<setup, consumed, refused, handled, batch, inbound>>
    BY <1>8 DEF LaneWake
  <2>2. PICK v : lpc' = [lpc EXCEPT ![l] = v] /\ lpc[l] = "wake"
    BY <1>8 DEF LaneWake
  <2>3. lpc \in [Lanes -> {"idle", "batch", "wake"}]
    BY <1>1 DEF CountInv, CountType
  <2>4. \A m \in Lanes : lpc[m] = "batch" => lpc'[m] = "batch"
    BY <2>2, <2>3
  <2>5. QED
    BY <1>1, <2>1, <2>4, QuietDelivers
<1>9. CASE UNCHANGED vars
  BY <1>1, <1>9, QuietDelivers DEF vars, connVars, laneVars, histVars
<1>10. QED
  BY <1>1, <1>2, <1>3, <1>4, <1>5, <1>6, <1>7, <1>8, <1>9 DEF Next, Lane

(* connection.cpp drain_frames, service.cpp post_message: every frame cut  *)
(* from the stream of a connection reaches the lane of its kind once and   *)
(* in the order of the stream, unless it was answered with an error. The   *)
(* model cuts, queues and consumes a frame in one step, as the code may be *)
(* seen to do while the buffer has one owner: where OneOwnerAtATime does   *)
(* not reach, two handlers inside one buffer, this says nothing about it.  *)
THEOREM FramesInOrder == Spec => []DeliveredInOrder
<1>1. DeliveryInv => DeliveredInOrder
  BY Zenon DEF DeliveryInv, AllCarried, Carries, Mine, Due, DeliveredInOrder
<1>2. QED
  BY <1>1, CountInvariance, InitDelivery, NextDelivery, PTL DEF Spec

-----------------------------------------------------------------------------
(* Behind a fatal error the connection is closed, no receive and no resume *)
(* is under way that could cut on, and the handler is either still at the  *)
(* frame in question or past draining.                                     *)
Drained(c) ==
  \A w \in Workers : wconn[w] = c => wpc[w] \notin {"drain", "resumedDrain", "resume"}
AtFatal(c) ==
  \/ consumed[c] = fatal[c] /\ Drained(c)
  \/ consumed[c] + 1 = fatal[c] /\ Kind(c) = Unknown
Sealed(c) ==
  /\ closed[c] /\ ~recvPaused[c] /\ NoneOutstanding(c) /\ resumePackets[c] = 0
  /\ AtFatal(c)
SealedInv == \A c \in Conns : fatal[c] # 0 => Sealed(c)

(* Nothing that matters of the connection changes.                         *)
LEMMA SealedStays ==
  ASSUME NEW c \in Conns, Sealed(c), closed'[c], UNCHANGED <<setup, consumed>>,
         recvPaused'[c] = recvPaused[c], posted'[c] = posted[c], fatal'[c] = fatal[c],
         completions'[c] = completions[c], resumePackets'[c] = resumePackets[c],
         Drained(c) => Drained(c)'
  PROVE  Sealed(c)'
BY DEF Sealed, AtFatal, NoneOutstanding, Kind

(* A worker that takes a notification takes one of another connection.     *)
LEMMA SealedTakes ==
  ASSUME IInv, NEW c \in Conns, fatal[c] # 0, Sealed(c), NEW w \in Workers, WorkerTakes(w)
  PROVE  Sealed(c)'
<1>1. PICK d \in Conns : ReceiveFailed(w, d) \/ ReceiveDone(w, d) \/ OnResume(w, d)
  BY DEF WorkerTakes
<1>2. d # c /\ wconn' = [wconn EXCEPT ![w] = d]
  BY <1>1 DEF ReceiveFailed, ReceiveDone, OnResume, Sealed, NoneOutstanding
<1>3. PICK p : wpc' = [wpc EXCEPT ![w] = p]
  BY <1>1 DEF ReceiveFailed, ReceiveDone, OnResume, Go
<1>4. wpc \in [Workers -> Places] /\ wconn \in [Workers -> Conns]
  BY DEF IInv, CountInv, CountType
<1>5. Drained(c) => Drained(c)'
  BY <1>2, <1>3, <1>4 DEF Drained
<1>6. /\ UNCHANGED <<setup, consumed, fatal, posted>>
      /\ closed' = closed \/ closed' = [closed EXCEPT ![d] = TRUE]
      /\ recvPaused' = recvPaused \/ recvPaused' = [recvPaused EXCEPT ![d] = FALSE]
      /\ completions' = completions \/ completions' = [completions EXCEPT ![d] = Tail(@)]
      /\ resumePackets' = resumePackets \/ resumePackets' = [resumePackets EXCEPT ![d] = @ - 1]
  BY <1>1 DEF ReceiveFailed, ReceiveDone, OnResume, Close, histVars
<1>7. /\ closed'[c] = closed[c] /\ recvPaused'[c] = recvPaused[c]
      /\ completions'[c] = completions[c] /\ resumePackets'[c] = resumePackets[c]
  BY <1>2, <1>6 DEF IInv, CountInv, CountType, BufferInv, DataType
<1>8. QED
  BY <1>5, <1>6, <1>7, SealedStays DEF Sealed

(* What a handler does of which no step cuts a frame.                      *)
LEMMA SealedPlain ==
  ASSUME IInv, NEW c \in Conns, fatal[c] # 0, Sealed(c), NEW w \in Workers,
         ClearResume(w) \/ DrainIncomplete(w) \/ DrainTooLarge(w) \/ ListPaused(w)
           \/ Repost(w) \/ Release(w)
  PROVE  Sealed(c)'
<1>1. wpc \in [Workers -> Places] /\ wconn \in [Workers -> Conns] /\ closed \in [Conns -> BOOLEAN]
      /\ pending \in [Conns -> Nat] /\ posted \in [Conns -> Nat]
  BY DEF IInv, CountInv, CountType
<1>2. UNCHANGED <<setup, consumed, fatal, recvPaused, completions, resumePackets>>
  BY DEF ClearResume, DrainIncomplete, DrainTooLarge, ListPaused, KeepsFrame, Repost, Release,
     connVars, portVars, histVars
<1>3. closed'[c]
  BY <1>1 DEF ClearResume, DrainIncomplete, DrainTooLarge, ListPaused, Repost, PostReceive, Release,
     connVars, Close, Sealed
<1>4. posted'[c] = posted[c]
  <2>1. CASE Repost(w)
    BY <1>1, <2>1 DEF Repost, MayRepost, PostReceive, Sealed
  <2>2. CASE ~Repost(w)
    BY <2>2 DEF ClearResume, DrainIncomplete, DrainTooLarge, ListPaused, Release, portVars
  <2>3. QED
    BY <2>1, <2>2
<1>5. Drained(c) => Drained(c)'
  <2>1. CASE Release(w)
    BY <1>1, <2>1 DEF Release, Go, Drained
  <2>2. CASE ClearResume(w)
    BY <1>1, <2>2 DEF ClearResume, Go, Drained
  <2>3. CASE DrainIncomplete(w) \/ DrainTooLarge(w) \/ ListPaused(w) \/ Repost(w)
    <3>1. PICK p \in {"repost", "resumedRepost", "release"} : wpc' = [wpc EXCEPT ![w] = p]
      BY <2>3 DEF DrainIncomplete, DrainTooLarge, ListPaused, Repost, Go, Leave
    <3>2. wconn' = wconn
      BY <2>3 DEF DrainIncomplete, DrainTooLarge, ListPaused, Repost
    <3>3. QED
      BY <1>1, <3>1, <3>2 DEF Drained
  <2>4. QED
    BY <2>1, <2>2, <2>3
<1>6. QED
  BY <1>2, <1>3, <1>4, <1>5, SealedStays

(* The handler that is still at the frame answers it, and leaves.          *)
LEMMA SealedCuts ==
  ASSUME IInv, NEW c \in Conns, fatal[c] # 0, Sealed(c), NEW w \in Workers,
         DrainQueued(w) \/ DrainRefused(w) \/ Pause(w)
  PROVE  Sealed(c)'
<1>1. /\ wpc \in [Workers -> Places] /\ wconn \in [Workers -> Conns] /\ wconn[w] \in Conns
      /\ recvPaused \in [Conns -> BOOLEAN]
  BY DEF IInv, CountInv, CountType
<1>2. consumed \in [Conns -> Nat]
  BY DEF IInv, BufferInv, DataType
<1>3. Draining(w) /\ wconn' = wconn /\ UNCHANGED <<setup, closed, posted, completions, resumePackets, fatal>>
  BY DEF DrainQueued, DrainRefused, Pause, WhenFull, portVars, histVars
<1>4. wpc[w] \in {"drain", "resumedDrain"}
  BY <1>3 DEF Draining
<1>5. CASE wconn[w] # c
  <2>1. PICK p : wpc' = [wpc EXCEPT ![w] = p]
    BY DEF DrainQueued, DrainRefused, Consume, Pause, Go
  <2>2. Drained(c) => Drained(c)'
    BY <1>1, <1>3, <1>5, <2>1 DEF Drained
  <2>3. consumed'[c] = consumed[c] /\ recvPaused'[c] = recvPaused[c]
    BY <1>1, <1>2, <1>5 DEF DrainQueued, DrainRefused, Consume, Pause
  <2>4. QED
    BY <1>3, <2>2, <2>3 DEF Sealed, AtFatal, NoneOutstanding, Kind
<1>6. CASE wconn[w] = c
  <2>1. consumed[c] + 1 = fatal[c] /\ Kind(c) = Unknown
    BY <1>4, <1>6 DEF Sealed, AtFatal, Drained
  <2>2. DrainRefused(w)
    BY <1>6, <2>1, ReceiveAssumption DEF DrainQueued, Pause, WhenFull
  <2>3. consumed'[c] = fatal'[c] /\ recvPaused' = recvPaused
    BY <1>2, <1>3, <1>6, <2>1, <2>2 DEF DrainRefused, Consume
  <2>4. wpc' = [wpc EXCEPT ![w] = Leave(w)]
    BY <1>6, <2>2 DEF DrainRefused, Consume, AfterFrame, Go, Sealed
  <2>5. \A v \in Workers : v # w /\ wconn[v] = c => wpc[v] \in {"idle", "release"}
    BY <1>4, <1>6 DEF IInv, OwnerInv, OneOwner, Handles
  <2>6. Leave(w) \in {"repost", "resumedRepost"}
    BY DEF Leave
  <2>7. Drained(c)'
    BY <1>1, <1>3, <2>4, <2>5, <2>6 DEF Drained
  <2>8. QED
    BY <1>3, <2>3, <2>7 DEF Sealed, AtFatal, NoneOutstanding
<1>7. QED
  BY <1>5, <1>6

(* The error itself: the handler that sends it owns the connection.        *)
LEMMA FatalSeals ==
  ASSUME IInv, SealedInv, NEW w \in Workers, DrainFatal(w)
  PROVE  SealedInv'
<1>1. PICK d \in Conns : wconn[w] = d
  BY DEF IInv, CountInv, CountType
<1>2. /\ wpc[w] \in {"drain", "resumedDrain"} /\ Kind(d) = Unknown
      /\ closed' = [closed EXCEPT ![d] = TRUE]
      /\ fatal' = [fatal EXCEPT ![d] = consumed[d] + 1]
      /\ UNCHANGED <<setup, recvPaused, consumed, posted, completions, resumePackets, wpc, wconn>>
  BY <1>1 DEF DrainFatal, Draining, Close, portVars, workVars
<1>3. closed \in [Conns -> BOOLEAN] /\ resumePackets \in [Conns -> Nat]
  BY DEF IInv, CountInv, CountType
<1>4. ~recvPaused[d] /\ NoneOutstanding(d)
  BY <1>1, <1>2 DEF IInv, OwnerInv, OneOwner, PausedQuiet, Handles
<1>5. resumePackets[d] = 0
  BY <1>3, <1>4 DEF IInv, OwnerInv, ResumeFlags
<1>6. ASSUME NEW c \in Conns, fatal'[c] # 0 PROVE Sealed(c)'
  <2>1. CASE c = d /\ d \in DOMAIN fatal
    BY <1>2, <1>3, <1>4, <1>5, <2>1 DEF Sealed, AtFatal, NoneOutstanding, Kind
  <2>2. CASE c # d \/ d \notin DOMAIN fatal
    BY <1>2, <1>3, <1>6, <2>2, SealedStays DEF SealedInv, Sealed, Drained
  <2>3. QED
    BY <2>1, <2>2
<1>7. QED
  BY <1>6 DEF SealedInv

LEMMA NextSealed == IInv /\ FatalType /\ SealedInv /\ [Next]_vars => SealedInv'
<1>1. SUFFICES ASSUME IInv, FatalType, SealedInv, [Next]_vars PROVE SealedInv'
  OBVIOUS
<1>2. CASE \E w \in Workers : DrainFatal(w)
  BY <1>1, <1>2, FatalSeals
<1>3. ASSUME NEW c \in Conns, fatal[c] # 0, Sealed(c),
             UNCHANGED <<setup, consumed, fatal, wpc, wconn>>, closed'[c],
             recvPaused'[c] = recvPaused[c], posted'[c] = posted[c],
             completions'[c] = completions[c], resumePackets'[c] = resumePackets[c]
      PROVE  Sealed(c)'
  BY <1>3, SealedStays DEF Drained
<1>4. ASSUME NEW c \in Conns, fatal[c] # 0,
             NEW d \in Conns, Adopt(d) \/ KernelReceive(d) \/ CloseElsewhere(d)
      PROVE  Sealed(c)'
  <2>1. Sealed(c)
    BY <1>1, <1>4 DEF SealedInv
  <2>2. /\ posted \in [Conns -> Nat] /\ closed \in [Conns -> BOOLEAN]
        /\ completions \in [Conns -> Seq(0..MaxCapacity)]
    BY <1>1 DEF IInv, CountInv, CountType, BufferInv, DataType
  <2>3. adopted[c]
    BY <1>1, <2>1 DEF IInv, CountInv, NothingBeforeAdopt, Sealed
  <2>4. Adopt(d) \/ KernelReceive(d) => d # c
    BY <2>1, <2>2, <2>3 DEF Adopt, KernelReceive, Sealed, NoneOutstanding
  <2>5. UNCHANGED <<setup, consumed, fatal, wpc, wconn, recvPaused, resumePackets>>
    BY <1>4 DEF Adopt, KernelReceive, CloseElsewhere, connVars, portVars, workVars, histVars
  <2>6. closed'[c]
    BY <1>4, <2>1, <2>2 DEF Adopt, KernelReceive, CloseElsewhere, Close, connVars, Sealed
  <2>7. posted'[c] = posted[c] /\ completions'[c] = completions[c]
    BY <1>4, <2>2, <2>4 DEF Adopt, KernelReceive, CloseElsewhere, portVars
  <2>8. QED
    BY <1>3, <1>4, <2>1, <2>5, <2>6, <2>7
<1>5. ASSUME NEW c \in Conns, fatal[c] # 0, NEW l \in Lanes, Lane(l)
      PROVE  Sealed(c)'
  <2>1. Sealed(c)
    BY <1>1, <1>5 DEF SealedInv
  <2>2. UNCHANGED <<setup, consumed, fatal, wpc, wconn, recvPaused, posted, completions, closed>>
    BY <1>5 DEF Lane, LaneSwap, LaneBatch, LaneWake, connVars, portVars, workVars, histVars
  <2>3. resumePackets'[c] = resumePackets[c]
    <3>1. CASE LaneWake(l)
      <4>1. PICK d : ResumeReceive(d)
        BY <3>1 DEF LaneWake
      <4>2. resumePackets \in [Conns -> Nat]
        BY <1>1 DEF IInv, CountInv, CountType
      <4>3. QED
        BY <2>1, <4>1, <4>2 DEF ResumeReceive, Sealed
    <3>2. CASE ~LaneWake(l)
      BY <1>5, <3>2 DEF Lane, LaneSwap, LaneBatch, portVars
    <3>3. QED
      BY <3>1, <3>2
  <2>4. QED
    BY <1>3, <1>5, <2>1, <2>2, <2>3 DEF Sealed
<1>6. ASSUME NEW w \in Workers, WorkerTakes(w) \/ WorkerGoesOn(w), ~DrainFatal(w)
      PROVE  SealedInv'
  <2>1. fatal' = fatal
    BY <1>6 DEF WorkerTakes, ReceiveFailed, ReceiveDone, OnResume, WorkerGoesOn, ClearResume,
       DrainIncomplete, DrainTooLarge, DrainQueued, DrainRefused, Pause, ListPaused, Repost,
       Release, histVars
  <2>2. ASSUME NEW c \in Conns, fatal[c] # 0 PROVE Sealed(c)'
    <3>1. Sealed(c)
      BY <1>1, <2>2 DEF SealedInv
    <3>2. QED
      BY <1>1, <1>6, <2>2, <3>1, SealedTakes, SealedPlain, SealedCuts DEF WorkerGoesOn
  <2>3. QED
    BY <2>1, <2>2 DEF SealedInv
<1>7. CASE UNCHANGED vars
  <2>1. UNCHANGED <<setup, consumed, fatal, wpc, wconn, closed, recvPaused, posted, completions,
                    resumePackets>>
    BY <1>7 DEF vars, connVars, portVars, workVars, histVars
  <2>2. QED
    BY <1>1, <1>3, <2>1 DEF SealedInv, Sealed
<1>8. CASE \E d \in Conns : Adopt(d) \/ KernelReceive(d) \/ CloseElsewhere(d)
  <2>1. fatal' = fatal
    BY <1>8 DEF Adopt, KernelReceive, CloseElsewhere, histVars
  <2>2. \A c \in Conns : fatal[c] # 0 => Sealed(c)'
    BY <1>4, <1>8
  <2>3. QED
    BY <2>1, <2>2 DEF SealedInv
<1>9. CASE \E l \in Lanes : Lane(l)
  <2>1. fatal' = fatal
    BY <1>9 DEF Lane, LaneSwap, LaneBatch, LaneWake, histVars
  <2>2. \A c \in Conns : fatal[c] # 0 => Sealed(c)'
    BY <1>5, <1>9
  <2>3. QED
    BY <2>1, <2>2 DEF SealedInv
<1>10. CASE \E w \in Workers : WorkerTakes(w) \/ WorkerGoesOn(w)
  BY <1>2, <1>6, <1>10
<1>11. QED
  BY <1>1, <1>7, <1>8, <1>9, <1>10 DEF Next

(* reply.cpp:19 and connection.cpp:183 - where one worker runs or the      *)
(* lanes refuse, no frame is cut from the stream behind the one a fatal    *)
(* error was sent for, whatever was under way when the error closed the    *)
(* connection.                                                             *)
THEOREM SealedBehindFatal ==
  ASSUME OneWorkerOrRefusal, ChunkSuffices
  PROVE  Spec => []NothingBehindFatal
<1>1. Init => FatalType /\ SealedInv
  BY DEF Init, FatalType, SealedInv
<1>2. IInv /\ SealedInv => NothingBehindFatal
  <2>1. SUFFICES ASSUME IInv, SealedInv, NEW c \in Conns, fatal[c] # 0
                 PROVE  consumed[c] <= fatal[c]
    BY DEF NothingBehindFatal
  <2>2. consumed[c] \in Nat
    BY <2>1 DEF IInv, BufferInv, DataType
  <2>3. consumed[c] = fatal[c] \/ consumed[c] + 1 = fatal[c]
    BY <2>1 DEF SealedInv, Sealed, AtFatal
  <2>4. QED
    BY <2>2, <2>3
<1>3. QED
  BY <1>1, <1>2, FatalTyped, NextSealed, Invariance, PTL DEF Spec

=============================================================================
