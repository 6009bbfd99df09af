---------------------- MODULE WorkerPoolDatabaseProofs ----------------------
(***************************************************************************)
(* Proofs about what WorkerPool leaves in the database and hands to the    *)
(* sink, for any sessions, scripts, workers and faults: that a Save has at *)
(* most one row and its answer tells the truth about it, that a request    *)
(* key is counted once, that a History carries the Saves before it, and    *)
(* that a session's answers come in order, each once. They build on where  *)
(* every request is, which WorkerPoolProofs shows.                         *)
(***************************************************************************)
EXTENDS WorkerPoolProofs

(* A transaction is one request, or a batch of Saves.                      *)
Transactions == {t \in Seq(Requests) : Len(t) = 1 \/ Range(t) \subseteq SaveRequests}

Sessions == [alive : BOOLEAN, open : BOOLEAN, rows : Seq(Requests)]

StoreType ==
  /\ session \in [Workers -> Sessions]
  /\ echo_log \in [SaveRequests -> Nat]
  /\ rows \in [Requests -> SUBSET Requests]
  /\ running_on \subseteq Transactions
  /\ faults \in 0..MaxFaults

(* What a worker has in hand and what its open transaction holds: nothing  *)
(* outside a batch, and in a batch just what was inserted so far.          *)
WorkAt(w) ==
  /\ Range(worker[w].saves) \subseteq SaveRequests
  /\ worker[w].pc \in Batched => Range(worker[w].hand) \subseteq SaveRequests
  /\ worker[w].pc \in {"reopen", "retry"} => InHand(w) \notin SaveRequests
  /\ worker[w].pc = "begin" => worker[w].done = 0
  /\ worker[w].pc = "insert" => worker[w].done < Len(worker[w].hand)
  /\ ~session[w].alive \/ worker[w].pc \notin {"insert", "commit"} => session[w].rows = <<>>
  /\ session[w].alive /\ worker[w].pc = "insert" =>
       /\ session[w].open
       /\ Range(session[w].rows) = {worker[w].hand[i] : i \in 1..worker[w].done}
  /\ session[w].alive /\ worker[w].pc = "commit" =>
       Range(session[w].rows) = Range(worker[w].hand)
Work == \A w \in Workers : WorkAt(w)

(* A Save that has a row, or may get one, was answered accordingly.        *)
Pending(r) == \E t \in running_on : r \in Range(t)
RowAt(r) ==
  /\ echo_log[r] \in {0, 1}
  /\ Pending(r) => echo_log[r] = 0 /\ status[r] = "Unavailable"
  /\ echo_log[r] = 1 => status[r] \in {"Ok", "Unavailable"}
  /\ status[r] = "Ok" => echo_log[r] = 1
  /\ \A t, u \in running_on : r \in Range(t) /\ r \in Range(u) => t = u
Rows == \A r \in SaveRequests : RowAt(r)

(* A History that was answered carries the stored Saves before it, or as   *)
(* many newer rows as it may.                                              *)
Reads ==
  \A h, s \in Requests :
    /\ Kind[h] = "History" /\ status[h] = "Ok" /\ Kind[s] = "Save" /\ status[s] = "Ok"
    /\ KeyOf[s] = KeyOf[h] /\ Index(s) < Index(h)
    => Carries(h, s)

(* A claimed request key counts once for its session, and a Counter that   *)
(* was answered has claimed its key.                                       *)
ClaimsOf(k) == {row \in counter_request : row.session_key = k}
Tally ==
  /\ IsFiniteSet(counter_request)
  /\ echo_counter \in [Keys -> Nat]
  /\ \A k \in Keys : echo_counter[k] = Cardinality(ClaimsOf(k))
  /\ \A a, b \in counter_request : a.request_key = b.request_key => a = b
Claimed(r) == \E row \in counter_request : row.request_key = RequestKey[r]
CountsKnown == \A r \in Requests : Kind[r] = "Counter" /\ status[r] = "Ok" => Claimed(r)

DataInv == StoreType /\ Work /\ Rows /\ Tally /\ CountsKnown /\ Reads

-----------------------------------------------------------------------------
(* What a step does to answers and database: it answers the requests in H  *)
(* with st, and it commits a transaction, leaves one to run on, or neither.*)
Answered(H, st) == status' = [r \in Requests |-> IF r \in H THEN st ELSE status[r]]
Writes(H, st) ==
  \/ UNCHANGED <<tables, running_on>> /\ (st = "Ok" => H = {})
  \/ \E t \in Transactions :
       /\ Range(t) \intersect SaveRequests = H \intersect SaveRequests
       /\ \/ /\ Commit(t) /\ UNCHANGED running_on
             /\ H \subseteq Range(t) /\ st \in {"Ok", "Unavailable"}
          \/ /\ running_on' = running_on \union {t} /\ UNCHANGED tables
             /\ st = "Unavailable"
Fetches(H, st) ==
  \/ UNCHANGED rows /\ (st = "Ok" => \A h \in H : Kind[h] # "History")
  \/ \E h \in Requests, found \in SUBSET Stored :
       H = {h} /\ MostRecent(h, found) /\ rows' = [rows EXCEPT ![h] = found]
DataStep(H, st) ==
  /\ H \subseteq Requests /\ \A r \in H : InUse(r) /\ status[r] = "none"
  /\ Answered(H, st) /\ Writes(H, st) /\ Fetches(H, st)

LEMMA SaveFacts ==
  /\ SaveRequests \subseteq Requests
  /\ \A r \in SaveRequests : Kind[r] = "Save"
  /\ \A r \in Requests : Kind[r] = "Save" => r \in SaveRequests
BY DEF SaveRequests

(* Committing counts each request key once.                                *)
LEMMA CommitTally ==
  ASSUME Tally, NEW t \in Transactions, NEW later, CommitBefore(t, later)
  PROVE  /\ Tally' /\ counter_request \subseteq counter_request'
         /\ \A r \in Range(t) : Kind[r] = "Counter" => Claimed(r)'
<1>1. PICK new : new = Unclaimed(t)
  OBVIOUS
<1>2. /\ counter_request' = counter_request \union
           {[request_key |-> RequestKey[r], session_key |-> KeyOf[r]] : r \in new}
      /\ echo_counter' = [k \in Keys |-> echo_counter[k] + Cardinality({r \in new : KeyOf[r] = k})]
  BY <1>1 DEF CommitBefore
<1>3. \/ new = {}
      \/ \E r \in Requests : new = {r} /\ \A row \in counter_request : row.request_key # RequestKey[r]
  <2>1. t \in Seq(Requests) /\ (Len(t) = 1 \/ Range(t) \subseteq SaveRequests)
    BY DEF Transactions
  <2>2. CASE Range(t) \subseteq SaveRequests
    BY <1>1, <2>2, SaveFacts DEF Unclaimed, CountsIn
  <2>3. CASE Len(t) = 1
    <3>1. t = <<Head(t)>> /\ Head(t) \in Requests
      BY <2>1, <2>3, RangeOne
    <3>2. Range(t) = {Head(t)}
      BY <2>1, <3>1, RangeOne
    <3>3. new = {} \/ new = {Head(t)}
      BY <1>1, <3>2 DEF Unclaimed, CountsIn
    <3>4. Head(t) \in new => \A row \in counter_request : row.request_key # RequestKey[Head(t)]
      BY <1>1 DEF Unclaimed
    <3>5. QED
      BY <3>1, <3>3, <3>4
  <2>4. QED
    BY <2>1, <2>2, <2>3
<1>4. \A k : IsFiniteSet(ClaimsOf(k)) /\ Cardinality(ClaimsOf(k)) \in Nat
  <2>1. \A k : ClaimsOf(k) \subseteq counter_request
    BY DEF ClaimsOf
  <2>2. \A k : IsFiniteSet(ClaimsOf(k))
    BY <2>1, FS_Subset DEF Tally
  <2>3. QED
    BY <2>2, FS_CardinalityType
<1>5. CASE new = {}
  <2>1. counter_request' = counter_request
    BY <1>2, <1>5
  <2>2. \A k \in Keys : {r \in new : KeyOf[r] = k} = {}
    BY <1>5
  <2>3. \A k \in Keys : echo_counter'[k] = echo_counter[k] + 0 /\ echo_counter[k] \in Nat
    BY <1>2, <2>2, FS_EmptySet DEF Tally
  <2>4. \A k : ClaimsOf(k)' = ClaimsOf(k)
    BY <2>1 DEF ClaimsOf
  <2>5. echo_counter' \in [Keys -> Nat] /\ \A k \in Keys : echo_counter'[k] = Cardinality(ClaimsOf(k)')
    <3>1. \A k \in Keys : echo_counter'[k] = echo_counter[k] /\ echo_counter'[k] \in Nat
      BY <2>3
    <3>2. QED
      BY <1>2, <2>4, <3>1 DEF Tally
  <2>6. Tally'
    BY <2>1, <2>5 DEF Tally
  <2>7. \A r \in Range(t) : Kind[r] = "Counter" => Claimed(r)
    BY <1>1, <1>5 DEF Unclaimed, CountsIn, Claimed
  <2>8. QED
    BY <2>1, <2>6, <2>7 DEF Claimed
<1>6. CASE \E r \in Requests : new = {r} /\ \A row \in counter_request : row.request_key # RequestKey[r]
  <2>1. PICK r \in Requests : new = {r} /\ \A row \in counter_request : row.request_key # RequestKey[r]
    BY <1>6
  <2>2. PICK rec : rec = [request_key |-> RequestKey[r], session_key |-> KeyOf[r]]
    OBVIOUS
  <2>3. /\ counter_request' = counter_request \union {rec} /\ rec \notin counter_request
        /\ rec.request_key = RequestKey[r] /\ rec.session_key = KeyOf[r]
    BY <1>2, <2>1, <2>2
  <2>4. IsFiniteSet(counter_request')
    BY <2>3, FS_AddElement DEF Tally
  <2>5. \A a, b \in counter_request' : a.request_key = b.request_key => a = b
    BY <2>1, <2>3 DEF Tally
  <2>6. ASSUME NEW k \in Keys
        PROVE  echo_counter'[k] = Cardinality(ClaimsOf(k)') /\ echo_counter'[k] \in Nat
    <3>1. PICK D : D = {x \in new : KeyOf[x] = k} /\ echo_counter'[k] = echo_counter[k] + Cardinality(D)
      BY <1>2
    <3>2. echo_counter[k] = Cardinality(ClaimsOf(k)) /\ echo_counter[k] \in Nat
      BY DEF Tally
    <3>3. CASE KeyOf[r] = k
      <4>a. D = {r}
        BY <2>1, <3>1, <3>3
      <4>1. Cardinality(D) = 1
        BY <4>a, FS_Singleton
      <4>2. ClaimsOf(k)' = ClaimsOf(k) \union {rec} /\ rec \notin ClaimsOf(k)
        BY <2>3, <3>3 DEF ClaimsOf
      <4>3. Cardinality(ClaimsOf(k)') = Cardinality(ClaimsOf(k)) + 1
        BY <1>4, <4>2, FS_AddElement
      <4>4. QED
        BY <3>1, <3>2, <4>1, <4>3
    <3>4. CASE KeyOf[r] # k
      <4>a. D = {}
        BY <2>1, <3>1, <3>4
      <4>1. Cardinality(D) = 0
        BY <4>a, FS_EmptySet
      <4>2. ClaimsOf(k)' = ClaimsOf(k)
        BY <2>3, <3>4 DEF ClaimsOf
      <4>3. QED
        BY <3>1, <3>2, <4>1, <4>2
    <3>5. QED
      BY <3>3, <3>4
  <2>7. echo_counter' \in [Keys -> Nat]
    BY <1>2, <2>6
  <2>8. Tally'
    BY <2>4, <2>5, <2>6, <2>7 DEF Tally
  <2>9. \A x \in Range(t) : Kind[x] = "Counter" => Claimed(x)'
    <3>1. \A x \in Range(t) : Kind[x] = "Counter" => x = r \/ Claimed(x)
      BY <1>1, <2>1 DEF Unclaimed, CountsIn, Claimed
    <3>2. QED
      BY <2>3, <3>1 DEF Claimed
  <2>10. QED
    BY <2>3, <2>8, <2>9
<1>7. QED
  BY <1>3, <1>5, <1>6

LEMMA CountStep ==
  ASSUME Tally, CountsKnown, NEW H, NEW st, DataStep(H, st)
  PROVE  Tally' /\ CountsKnown'
<1>1. \A r \in Requests : status'[r] = IF r \in H THEN st ELSE status[r]
  BY DEF DataStep, Answered
<1>2. CASE UNCHANGED tables /\ (st = "Ok" => H = {})
  <2>1. UNCHANGED <<counter_request, echo_counter>> /\ \A k : ClaimsOf(k)' = ClaimsOf(k)
    BY <1>2 DEF tables, ClaimsOf
  <2>2. Tally'
    BY <2>1 DEF Tally
  <2>3. CountsKnown'
    BY <1>1, <1>2, <2>1 DEF CountsKnown, Claimed
  <2>4. QED
    BY <2>2, <2>3
<1>3. CASE \E t \in Transactions : Commit(t) /\ H \subseteq Range(t)
  <2>1. PICK t \in Transactions : Commit(t) /\ H \subseteq Range(t)
    BY <1>3
  <2>2. /\ Tally' /\ counter_request \subseteq counter_request'
        /\ \A r \in Range(t) : Kind[r] = "Counter" => Claimed(r)'
    BY <2>1, CommitTally DEF Commit
  <2>3. CountsKnown'
    BY <1>1, <2>1, <2>2 DEF CountsKnown, Claimed
  <2>4. QED
    BY <2>2, <2>3
<1>4. QED
  BY <1>2, <1>3 DEF DataStep, Writes

(* The rows of the Saves.                                                  *)
LEMMA RowsStep ==
  ASSUME Rows, echo_log \in [SaveRequests -> Nat], NEW H, NEW st, DataStep(H, st)
  PROVE  Rows'
<1>1. SUFFICES ASSUME NEW r \in SaveRequests PROVE RowAt(r)'
  BY DEF Rows
<1>2. /\ status'[r] = IF r \in H THEN st ELSE status[r]
      /\ r \in H => status[r] = "none"
      /\ r \in Requests
  BY <1>1, SaveFacts DEF DataStep, Answered
<1>3. RowAt(r)
  BY DEF Rows
<1>4. r \in H => echo_log[r] = 0 /\ ~Pending(r)
  BY <1>2, <1>3 DEF RowAt
<1>5. CASE UNCHANGED <<tables, running_on>> /\ (st = "Ok" => H = {})
  <2>1. UNCHANGED <<echo_log, running_on>>
    BY <1>5 DEF tables
  <2>2. Pending(r)' <=> Pending(r)
    BY <2>1 DEF Pending
  <2>3. QED
    BY <1>2, <1>3, <1>4, <1>5, <2>1, <2>2 DEF RowAt
<1>6. CASE \E t \in Transactions :
             /\ Range(t) \intersect SaveRequests = H \intersect SaveRequests
             /\ Commit(t) /\ UNCHANGED running_on /\ st \in {"Ok", "Unavailable"}
  <2>1. PICK t \in Transactions :
             /\ Range(t) \intersect SaveRequests = H \intersect SaveRequests
             /\ Commit(t) /\ UNCHANGED running_on /\ st \in {"Ok", "Unavailable"}
    BY <1>6
  <2>2. echo_log'[r] = IF r \in H THEN echo_log[r] + 1 ELSE echo_log[r]
    BY <2>1 DEF Commit, CommitBefore
  <2>3. Pending(r)' <=> Pending(r)
    BY <2>1 DEF Pending
  <2>4. QED
    BY <1>2, <1>3, <1>4, <2>1, <2>2, <2>3 DEF RowAt
<1>7. CASE \E t \in Transactions :
             /\ Range(t) \intersect SaveRequests = H \intersect SaveRequests
             /\ running_on' = running_on \union {t} /\ UNCHANGED tables /\ st = "Unavailable"
  <2>1. PICK t \in Transactions :
             /\ Range(t) \intersect SaveRequests = H \intersect SaveRequests
             /\ running_on' = running_on \union {t} /\ UNCHANGED tables /\ st = "Unavailable"
    BY <1>7
  <2>2. echo_log' = echo_log /\ (r \in Range(t) <=> r \in H)
    BY <2>1 DEF tables
  <2>3. Pending(r)' <=> Pending(r) \/ r \in H
    BY <2>1, <2>2 DEF Pending
  <2>4. \A u, v \in running_on' : r \in Range(u) /\ r \in Range(v) => u = v
    BY <1>3, <1>4, <2>1, <2>2 DEF RowAt, Pending
  <2>5. QED
    BY <1>2, <1>3, <1>4, <2>1, <2>2, <2>3, <2>4 DEF RowAt
<1>8. QED
  BY <1>5, <1>6, <1>7 DEF DataStep, Writes

(* The order of the rows is settled once and for all.                      *)
LEMMA RanksStay ==
  ASSUME NEW H, NEW st, DataStep(H, st)
  PROVE  log_order \subseteq log_order'
BY DEF DataStep, Writes, Commit, CommitBefore, tables

(* What a History reads: every Save before it has its answer by then.      *)
LEMMA ReadsStep ==
  ASSUME Reads, Rows, NoOvertaking, rows \in [Requests -> SUBSET Requests],
         echo_log \in [SaveRequests -> Nat], NEW H, NEW st, DataStep(H, st)
  PROVE  Reads'
<1>1. SUFFICES ASSUME NEW h \in Requests, NEW s \in Requests,
                      Kind[h] = "History", status'[h] = "Ok", Kind[s] = "Save", status'[s] = "Ok",
                      KeyOf[s] = KeyOf[h], Index(s) < Index(h)
               PROVE  Carries(h, s)'
  BY DEF Reads
<1>2. /\ \A r \in Requests : status'[r] = IF r \in H THEN st ELSE status[r]
      /\ \A r \in H : InUse(r) /\ status[r] = "none" /\ r \in Requests
  BY DEF DataStep, Answered
<1>3. Index(s) \in Nat /\ Index(h) \in Nat
  BY ScriptFacts
<1>4. CASE h \in H
  <2>1. PICK found \in SUBSET Stored :
          st = "Ok" /\ H = {h} /\ MostRecent(h, found) /\ rows' = [rows EXCEPT ![h] = found]
    BY <1>1, <1>2, <1>4 DEF DataStep, Fetches
  <2>2. s # h /\ s \in SaveRequests
    BY <1>1, SaveFacts
  <2>3. status[s] = "Ok"
    BY <1>1, <1>2, <2>1, <2>2
  <2>4. echo_log[s] = 1
    BY <2>2, <2>3 DEF Rows, RowAt
  <2>5. s \in Stored /\ rows'[h] = found
    BY <2>1, <2>2, <2>4 DEF Stored
  <2>6. s \notin found => Cardinality(found) = Limit[h] /\ \A x \in found : <<s, x>> \in log_order
    BY <1>1, <2>1, <2>5 DEF MostRecent
  <2>7. QED
    BY <2>5, <2>6, RanksStay DEF Carries
<1>5. CASE h \notin H
  <2>1. status[h] = "Ok" /\ rows'[h] = rows[h]
    BY <1>1, <1>2, <1>5 DEF DataStep, Fetches
  <2>2. s \notin H
    <3>1. SUFFICES ASSUME s \in H PROVE FALSE
      OBVIOUS
    <3>2. Before(h, s)
      BY <1>1, <1>2, <2>1, <3>1 DEF NoOvertaking
    <3>3. QED
      BY <1>1, <1>3, <3>2 DEF Before
  <2>3. Carries(h, s)
    BY <1>1, <1>2, <2>1, <2>2 DEF Reads
  <2>4. QED
    BY <2>1, <2>3, RanksStay DEF Carries
<1>6. QED
  BY <1>4, <1>5

(* A step of that kind keeps the invariant if the workers keep theirs.     *)
LEMMA DataKeeps ==
  ASSUME IInv, DataInv, NEW H, NEW st, DataStep(H, st),
         session' \in [Workers -> Sessions], faults' \in 0..MaxFaults, Work'
  PROVE  DataInv'
<1>1. /\ StoreType /\ Rows /\ Tally /\ CountsKnown /\ Reads /\ NoOvertaking
      /\ echo_log \in [SaveRequests -> Nat] /\ rows \in [Requests -> SUBSET Requests]
  BY DEF DataInv, StoreType, IInv, PlaceInv
<1>2. Rows' /\ Tally' /\ CountsKnown' /\ Reads'
  BY <1>1, RowsStep, CountStep, ReadsStep
<1>3. echo_log' \in [SaveRequests -> Nat]
  <2>1. UNCHANGED echo_log \/ \E t : echo_log' = [r \in SaveRequests |->
           IF r \in Range(t) THEN echo_log[r] + 1 ELSE echo_log[r]]
    BY DEF DataStep, Writes, Commit, CommitBefore, tables
  <2>2. QED
    BY <1>1, <2>1
<1>4. rows' \in [Requests -> SUBSET Requests]
  <2>1. \/ UNCHANGED rows
        \/ \E h \in Requests, found \in SUBSET Stored : rows' = [rows EXCEPT ![h] = found]
    BY DEF DataStep, Fetches
  <2>2. Stored \subseteq Requests
    BY SaveFacts DEF Stored
  <2>3. QED
    BY <1>1, <2>1, <2>2
<1>5. running_on' \subseteq Transactions
  BY <1>1 DEF DataStep, Writes, StoreType
<1>6. QED
  BY <1>2, <1>3, <1>4, <1>5 DEF DataInv, StoreType

(* A transaction the server ran on with ends, one way or the other.        *)
LEMMA RunsOnKeeps ==
  ASSUME QueueType, DataInv, RunsOn
  PROVE  DataInv'
<1>1. PICK t \in running_on :
        /\ (\E later : CommitBefore(t, later)) \/ UNCHANGED tables
        /\ running_on' = running_on \ {t}
        /\ UNCHANGED <<status, rows, worker, session, faults>>
  BY DEF RunsOn, sink
<1>2. t \in Transactions /\ running_on' \subseteq Transactions
  BY <1>1 DEF DataInv, StoreType
<1>3. Tally' /\ CountsKnown'
  <2>1. Tally /\ CountsKnown
    BY DEF DataInv
  <2>2. CASE \E later : CommitBefore(t, later)
    <3>1. Tally' /\ counter_request \subseteq counter_request'
      BY <1>2, <2>1, <2>2, CommitTally
    <3>2. QED
      BY <1>1, <2>1, <3>1 DEF CountsKnown, Claimed
  <2>3. CASE UNCHANGED tables
    <3>1. UNCHANGED <<counter_request, echo_counter>> /\ \A k : ClaimsOf(k)' = ClaimsOf(k)
      BY <2>3 DEF tables, ClaimsOf
    <3>2. QED
      BY <1>1, <2>1, <3>1 DEF Tally, CountsKnown, Claimed
  <2>4. QED
    BY <1>1, <2>2, <2>3
<1>4. echo_log \in [SaveRequests -> Nat] /\ Rows
  BY DEF DataInv, StoreType
<1>5. /\ echo_log' \in [SaveRequests -> Nat]
      /\ \A r \in SaveRequests : echo_log'[r] = echo_log[r] \/ (r \in Range(t) /\ echo_log'[r] = echo_log[r] + 1)
  <2>1. UNCHANGED echo_log \/ echo_log' = [r \in SaveRequests |->
           IF r \in Range(t) THEN echo_log[r] + 1 ELSE echo_log[r]]
    BY <1>1 DEF CommitBefore, tables
  <2>2. QED
    BY <1>4, <2>1
<1>6. Rows'
  <2>1. SUFFICES ASSUME NEW r \in SaveRequests PROVE RowAt(r)'
    BY DEF Rows
  <2>2. RowAt(r) /\ status'[r] = status[r]
    BY <1>1, <1>4 DEF Rows
  <2>3. CASE r \in Range(t)
    <3>1. Pending(r) /\ ~Pending(r)'
      BY <1>1, <2>2, <2>3 DEF Pending, RowAt
    <3>2. QED
      BY <1>1, <1>5, <2>2, <3>1 DEF RowAt
  <2>4. CASE r \notin Range(t)
    <3>1. Pending(r)' <=> Pending(r)
      BY <1>1, <2>4 DEF Pending
    <3>2. QED
      BY <1>1, <1>5, <2>2, <2>4, <3>1 DEF RowAt
  <2>5. QED
    BY <2>3, <2>4
<1>7. Work'
  BY <1>1 DEF DataInv, Work, WorkAt, InHand
<1>8. Reads'
  <2>1. log_order \subseteq log_order'
    BY <1>1 DEF CommitBefore, tables
  <2>2. \A h, s : Carries(h, s) => Carries(h, s)'
    BY <1>1, <2>1 DEF Carries
  <2>3. QED
    BY <1>1, <2>2 DEF DataInv, Reads
<1>9. QED
  BY <1>1, <1>2, <1>3, <1>5, <1>6, <1>7, <1>8 DEF DataInv, StoreType

-----------------------------------------------------------------------------
(* What a worker has in hand is not answered yet.                          *)
LEMMA HandFacts ==
  ASSUME IInv, NEW w \in Workers, worker[w].pc \in Single \union Batched
  PROVE  /\ worker[w].hand \in Seq(Requests) /\ worker[w].hand # <<>>
         /\ Range(worker[w].hand) \subseteq Requests
         /\ \A r \in Range(worker[w].hand) : InUse(r) /\ status[r] = "none"
         /\ worker[w].pc \in Single => /\ InHand(w) \in Requests /\ worker[w].hand = <<InHand(w)>>
                                       /\ Range(worker[w].hand) = {InHand(w)}
<1>1. QueueType /\ Shapes /\ Unanswered
  BY DEF IInv, PlaceInv
<1>2. /\ worker[w].hand \in Seq(Requests) /\ Range(worker[w].hand) \subseteq InPipe(w)
      /\ InPipe(w) \subseteq Requests
  BY <1>1, PipeFacts
<1>3. worker[w].pc # "release" /\ worker[w].hand # <<>> /\ (worker[w].pc \in Single => Len(worker[w].hand) = 1)
  BY <1>1 DEF Shapes, Shape, Single, Batched
<1>4. \A r \in Range(worker[w].hand) : InUse(r) /\ status[r] = "none"
  BY <1>1, <1>2, <1>3 DEF Unanswered, InUse
<1>5. worker[w].pc \in Single => /\ InHand(w) \in Requests /\ worker[w].hand = <<InHand(w)>>
                                 /\ Range(worker[w].hand) = {InHand(w)}
  <2>1. SUFFICES ASSUME Len(worker[w].hand) = 1
                 PROVE  /\ InHand(w) \in Requests /\ worker[w].hand = <<InHand(w)>>
                        /\ Range(worker[w].hand) = {InHand(w)}
    BY <1>3
  <2>2. worker[w].hand = <<InHand(w)>> /\ InHand(w) \in Requests
    BY <1>2, <2>1, RangeOne DEF InHand
  <2>3. Range(<<InHand(w)>>) = {InHand(w)}
    BY <1>2, RangeOne
  <2>4. QED
    BY <2>2, <2>3
<1>6. QED
  BY <1>2, <1>3, <1>4, <1>5

LEMMA NothingStored ==
  ASSUME QueueType, UNCHANGED <<status, tables, running_on, rows>>
  PROVE  DataStep({}, "Unavailable")
BY DEF QueueType, DataStep, Answered, Writes, Fetches

LEMMA SessionFacts ==
  /\ NewSession \in Sessions /\ NewSession.alive /\ NewSession.rows = <<>>
  /\ DeadSession \in Sessions /\ ~DeadSession.alive /\ DeadSession.rows = <<>>
BY DEF NewSession, DeadSession, Sessions

LEMMA FaultType ==
  ASSUME StoreType, NEW w, Fault(w)
  PROVE  faults' \in 0..MaxFaults
BY PoolAssumption DEF StoreType, Fault

(* Only the worker that acts changes its state and its session.            *)
LEMMA WorkElsewhere ==
  ASSUME Work, NEW w \in Workers, WorkAt(w)',
         \A v \in Workers : v # w => worker'[v] = worker[v] /\ session'[v] = session[v]
  PROVE  Work'
BY SMTT(60) DEF Work, WorkAt, InHand

LEMMA WorkIdle ==
  ASSUME NEW w \in Workers, worker'[w].pc \notin Batched \union {"reopen", "retry"},
         Range(worker'[w].saves) \subseteq SaveRequests, session'[w].rows = <<>>
  PROVE  WorkAt(w)'
BY DEF WorkAt, Batched

-----------------------------------------------------------------------------
(* The loop of a worker touches no table.                                  *)
LEMMA LoopKeeps ==
  ASSUME IInv, DataInv, NEW w \in Workers, NEW c \in Sessions,
         UNCHANGED <<status, tables, running_on, rows, faults>>,
         session' = [session EXCEPT ![w] = c], c.rows = <<>>,
         \A v \in Workers : v # w => worker'[v] = worker[v],
         Range(worker'[w].saves) \subseteq SaveRequests,
         worker'[w].pc \notin Batched \union {"reopen", "retry"}
  PROVE  DataInv'
<1>1. QueueType /\ StoreType /\ Work
  BY DEF IInv, DataInv
<1>2. session' \in [Workers -> Sessions] /\ session'[w] = c /\ \A v \in Workers : v # w => session'[v] = session[v]
  BY <1>1 DEF StoreType
<1>3. Work'
  <2>1. WorkAt(w)'
    BY <1>2, WorkIdle
  <2>2. QED
    BY <1>1, <1>2, <2>1, WorkElsewhere
<1>4. DataStep({}, "Unavailable")
  BY <1>1, NothingStored
<1>5. faults' \in 0..MaxFaults
  BY <1>1 DEF StoreType
<1>6. QED
  BY <1>2, <1>3, <1>4, <1>5, DataKeeps

LEMMA IdleSession ==
  ASSUME IInv, DataInv, NEW w \in Workers, worker[w].pc \notin {"insert", "commit"}
  PROVE  /\ session[w] \in Sessions /\ session[w].rows = <<>>
         /\ session = [session EXCEPT ![w] = session[w]]
         /\ worker[w] \in WorkerStates /\ Range(worker[w].saves) \subseteq SaveRequests
BY DEF DataInv, StoreType, Work, WorkAt, IInv, QueueType

LEMMA TopData ==
  ASSUME IInv, DataInv, NEW w \in Workers, Top(w)
  PROVE  DataInv'
<1>1. PICK up \in BOOLEAN :
       /\ session' = IF up /\ ~worker[w].usable
                     THEN [session EXCEPT ![w] = NewSession] ELSE session
       /\ worker' = [worker EXCEPT ![w].pc = "loop", ![w].usable = up,
                       ![w].batch = IF Static THEN line[w] ELSE <<>>]
  BY DEF Top
<1>2. /\ session[w] \in Sessions /\ session[w].rows = <<>>
      /\ session = [session EXCEPT ![w] = session[w]]
      /\ worker[w] \in WorkerStates /\ Range(worker[w].saves) \subseteq SaveRequests
  BY IdleSession DEF Top
<1>3. \E c \in Sessions : c.rows = <<>> /\ session' = [session EXCEPT ![w] = c]
  BY <1>1, <1>2, SessionFacts
<1>4. /\ \A v \in Workers : v # w => worker'[v] = worker[v]
      /\ worker'[w].saves = worker[w].saves /\ worker'[w].pc = "loop"
  BY <1>1, <1>2 DEF IInv, QueueType, WorkerStates
<1>5. UNCHANGED <<status, tables, running_on, rows, faults>>
  BY DEF Top, sink
<1>6. worker'[w].pc \notin Batched \union {"reopen", "retry"} /\ Range(worker'[w].saves) \subseteq SaveRequests
  BY <1>2, <1>4 DEF Batched
<1>7. QED
  BY <1>3, <1>4, <1>5, <1>6, LoopKeeps

LEMMA QueueData ==
  ASSUME IInv, DataInv, NEW w \in Workers, Take(w) \/ Pick(w) \/ LoopEnd(w) \/ Release(w)
  PROVE  DataInv'
<1>1. worker[w].pc \notin {"insert", "commit"}
  BY DEF Take, Pick, LoopEnd, Release, Looping
<1>2. /\ session[w] \in Sessions /\ session[w].rows = <<>>
      /\ session = [session EXCEPT ![w] = session[w]]
      /\ worker[w] \in WorkerStates /\ Range(worker[w].saves) \subseteq SaveRequests
  BY <1>1, IdleSession
<1>3. UNCHANGED <<status, tables, running_on, rows, faults, session>>
  BY DEF Take, Pick, LoopEnd, Release, sink, db
<1>4. /\ \A v \in Workers : v # w => worker'[v] = worker[v]
      /\ worker'[w].saves = worker[w].saves /\ worker'[w].pc \in {"loop", "last", "top", "handle"}
  <2>1. worker \in [Workers -> WorkerStates]
    BY DEF IInv, QueueType
  <2>2. CASE Take(w)
    BY <1>2, <2>1, <2>2 DEF Take, WorkerStates
  <2>3. CASE Pick(w)
    BY <1>2, <2>1, <2>3 DEF Pick, WorkerStates
  <2>4. CASE LoopEnd(w)
    BY <1>2, <2>1, <2>4 DEF LoopEnd, WorkerStates
  <2>5. CASE Release(w)
    BY <1>2, <2>1, <2>5 DEF Release, WorkerStates, Resume
  <2>6. QED
    BY <2>2, <2>3, <2>4, <2>5
<1>5. worker'[w].pc \notin Batched \union {"reopen", "retry"} /\ Range(worker'[w].saves) \subseteq SaveRequests
  BY <1>2, <1>4 DEF Batched
<1>6. QED
  BY <1>2, <1>3, <1>4, <1>5, LoopKeeps

(* Only Saves are collected.                                               *)
LEMMA CollectData ==
  ASSUME IInv, DataInv, NEW w \in Workers, Collect(w)
  PROVE  DataInv'
<1>1. worker[w].pc \notin {"insert", "commit"}
  BY DEF Collect, Looping
<1>2. /\ session[w] \in Sessions /\ session[w].rows = <<>>
      /\ session = [session EXCEPT ![w] = session[w]]
      /\ worker[w] \in WorkerStates /\ Range(worker[w].saves) \subseteq SaveRequests
  BY <1>1, IdleSession
<1>3. UNCHANGED <<status, tables, running_on, rows, faults, session>>
  BY DEF Collect, sink, db
<1>4. PICK r \in SaveRequests : r = Head(worker[w].batch) /\ r \in Requests
  <2>1. worker[w].batch \in Seq(Requests) /\ worker[w].batch # <<>> /\ Batchable(Head(worker[w].batch))
    BY <1>2 DEF Collect, WorkerStates
  <2>2. QED
    BY <2>1, FrontOfTail, SaveFacts DEF Batchable
<1>5. /\ \A v \in Workers : v # w => worker'[v] = worker[v]
      /\ worker'[w].saves = Append(worker[w].saves, r) /\ worker'[w].pc \in {"loop", "last"}
  BY <1>2, <1>4 DEF Collect, WorkerStates, Resume, IInv, QueueType
<1>6. worker'[w].pc \notin Batched \union {"reopen", "retry"} /\ Range(worker'[w].saves) \subseteq SaveRequests
  <2>1. worker[w].saves \in Seq(Requests)
    BY <1>2 DEF WorkerStates
  <2>2. Range(Append(worker[w].saves, r)) = Range(worker[w].saves) \union {r}
    BY <1>4, <2>1, RangeAppend
  <2>3. QED
    BY <1>2, <1>5, <2>2 DEF Batched
<1>7. QED
  BY <1>2, <1>3, <1>5, <1>6, LoopKeeps

LEMMA FlushData ==
  ASSUME IInv, DataInv, NEW w \in Workers, Flush(w)
  PROVE  DataInv'
<1>1. worker[w].pc \notin {"insert", "commit"}
  BY DEF Flush, Looping
<1>2. /\ session[w].rows = <<>> /\ worker[w] \in WorkerStates
      /\ Range(worker[w].saves) \subseteq SaveRequests
  BY <1>1, IdleSession
<1>3. UNCHANGED <<status, tables, running_on, rows, faults, session>> /\ StoreType /\ Work /\ QueueType
  BY DEF Flush, sink, db, DataInv, IInv
<1>4. /\ \A v \in Workers : v # w => worker'[v] = worker[v]
      /\ worker'[w].saves = <<>> /\ worker'[w].hand = worker[w].saves /\ worker'[w].done = 0
      /\ worker'[w].pc \in {"handle", "begin"}
  BY <1>2, <1>3 DEF Flush, WorkerStates, QueueType
<1>5. WorkAt(w)'
  BY <1>2, <1>3, <1>4, RangeEmpty DEF WorkAt
<1>6. Work'
  BY <1>3, <1>4, <1>5, WorkElsewhere
<1>7. DataStep({}, "Unavailable")
  BY <1>3, NothingStored
<1>8. session' \in [Workers -> Sessions] /\ faults' \in 0..MaxFaults
  BY <1>3 DEF StoreType
<1>9. QED
  BY <1>6, <1>7, <1>8, DataKeeps

-----------------------------------------------------------------------------
(* The answer to what is in hand, with what it does to the tables.         *)
LEMMA AnsweredData ==
  ASSUME IInv, DataInv, NEW w \in Workers, worker[w].pc \in Single \union Batched,
         NEW up \in BOOLEAN, worker' = Done(w, up), NEW c \in Sessions, c.rows = <<>>,
         session' = [session EXCEPT ![w] = c], faults' \in 0..MaxFaults,
         NEW st, Answered(Range(worker[w].hand), st), Writes(Range(worker[w].hand), st),
         Fetches(Range(worker[w].hand), st)
  PROVE  DataInv'
<1>1. QueueType /\ StoreType /\ Work /\ WorkAt(w)
  BY DEF IInv, DataInv, Work
<1>2. session' \in [Workers -> Sessions] /\ session'[w] = c /\ \A v \in Workers : v # w => session'[v] = session[v]
  BY <1>1 DEF StoreType
<1>3. /\ \A v \in Workers : v # w => worker'[v] = worker[v]
      /\ worker'[w].saves = worker[w].saves /\ worker'[w].pc = "release"
  BY <1>1 DEF Done, QueueType, WorkerStates
<1>4. WorkAt(w)'
  <2>1. worker'[w].pc \notin Batched \union {"reopen", "retry"} /\ Range(worker'[w].saves) \subseteq SaveRequests
    BY <1>1, <1>3 DEF Batched, WorkAt
  <2>2. QED
    BY <1>2, <2>1, WorkIdle
<1>5. Work'
  BY <1>1, <1>2, <1>3, <1>4, WorkElsewhere
<1>6. DataStep(Range(worker[w].hand), st)
  BY HandFacts DEF DataStep
<1>7. QED
  BY <1>2, <1>5, <1>6, DataKeeps

LEMMA TurnDownData ==
  ASSUME IInv, DataInv, NEW w \in Workers, TurnDown(w)
  PROVE  DataInv'
<1>1. worker[w].pc \in Single /\ worker[w].pc \notin {"insert", "commit"}
  BY DEF TurnDown, Single
<1>2. /\ session[w] \in Sessions /\ session[w].rows = <<>>
      /\ session = [session EXCEPT ![w] = session[w]] /\ worker[w].usable \in BOOLEAN
  BY <1>1, IdleSession DEF WorkerStates
<1>3. UNCHANGED <<session, tables, running_on, rows, faults>> /\ worker' = Done(w, worker[w].usable)
  BY DEF TurnDown, db
<1>4. PICK st \in {"Expired", "Unavailable"} : Answer(<<InHand(w)>>, st)
  BY DEF TurnDown
<1>5. Answered(Range(worker[w].hand), st)
  <2>1. worker[w].hand = <<InHand(w)>>
    BY <1>1, HandFacts
  <2>2. QED
    BY <1>4, <2>1 DEF Answer, Answered
<1>6. Writes(Range(worker[w].hand), st) /\ Fetches(Range(worker[w].hand), st)
  BY <1>3, <1>4 DEF Writes, Fetches
<1>7. faults' \in 0..MaxFaults
  BY <1>3 DEF DataInv, StoreType
<1>8. QED
  BY <1>1, <1>2, <1>3, <1>5, <1>6, <1>7, AnsweredData

(* A connection that is lost leaves the transaction done, to be done, or   *)
(* not done.                                                               *)
LEMMA LostWrites ==
  ASSUME NEW w, NEW t \in Transactions, Lose(w, t), NEW H,
         session[w].alive => Range(t) \intersect SaveRequests = H \intersect SaveRequests /\ H \subseteq Range(t)
  PROVE  Writes(H, "Unavailable")
BY DEF Lose, Writes

LEMMA ExecuteData ==
  ASSUME IInv, DataInv, NEW w \in Workers, Execute(w)
  PROVE  DataInv'
<1>1. PICK r : r = InHand(w)
  OBVIOUS
<1>2. worker[w].pc \in Single /\ worker[w].pc \notin {"insert", "commit"}
  BY DEF Execute, Single
<1>3. /\ r \in Requests /\ worker[w].hand = <<r>> /\ Range(worker[w].hand) = {r}
      /\ \A x \in {r} : InUse(x) /\ status[x] = "none"
  BY <1>1, <1>2, HandFacts
<1>4. <<r>> \in Transactions /\ Range(<<r>>) = {r}
  <2>1. <<r>> \in Seq(Requests) /\ Len(<<r>>) = 1
    BY <1>3
  <2>2. QED
    BY <1>3, <2>1, RangeOne DEF Transactions
<1>5. /\ session[w] \in Sessions /\ session[w].rows = <<>>
      /\ session = [session EXCEPT ![w] = session[w]]
      /\ worker[w] \in WorkerStates /\ Range(worker[w].saves) \subseteq SaveRequests
  BY <1>2, IdleSession
<1>6. StoreType /\ Work /\ QueueType /\ faults \in 0..MaxFaults
  BY DEF DataInv, StoreType, IInv
<1>7. \A st : Answer(<<r>>, st) => Answered(Range(worker[w].hand), st)
  BY <1>3 DEF Answer, Answered
<1>8. CASE /\ Commit(<<r>>)
           /\ \/ Kind[r] # "History" /\ UNCHANGED rows
              \/ \E found \in SUBSET Stored :
                   /\ Kind[r] = "History" /\ MostRecent(r, found)
                   /\ rows' = [rows EXCEPT ![r] = found]
           /\ Answer(<<r>>, "Ok") /\ worker' = Done(w, TRUE)
           /\ UNCHANGED <<session, running_on, faults>>
  <2>1. Writes({r}, "Ok")
    BY <1>4, <1>8 DEF Writes
  <2>2. Fetches({r}, "Ok")
    BY <1>3, <1>8 DEF Fetches
  <2>3. QED
    BY <1>2, <1>3, <1>5, <1>6, <1>7, <1>8, <2>1, <2>2, AnsweredData
<1>9. CASE /\ Fault(w) /\ Answer(<<r>>, "Failed") /\ worker' = Done(w, TRUE)
           /\ UNCHANGED <<rows, session, tables, running_on>>
  <2>1. Writes({r}, "Failed") /\ Fetches({r}, "Failed")
    BY <1>9 DEF Writes, Fetches
  <2>2. faults' \in 0..MaxFaults
    BY <1>6, <1>9, FaultType
  <2>3. QED
    BY <1>2, <1>3, <1>5, <1>7, <1>9, <2>1, <2>2, AnsweredData
<1>10. ASSUME Fault(w), Lose(w, <<r>>), Answer(<<r>>, "Unavailable"), worker' = Done(w, FALSE), UNCHANGED rows
       PROVE  DataInv'
  <2>1. Writes({r}, "Unavailable")
    BY <1>4, <1>10, LostWrites
  <2>2. Fetches({r}, "Unavailable")
    BY <1>10 DEF Fetches
  <2>3. faults' \in 0..MaxFaults /\ session' = [session EXCEPT ![w] = DeadSession]
    BY <1>6, <1>10, FaultType DEF Lose
  <2>4. QED
    BY <1>2, <1>3, <1>7, <1>10, <2>1, <2>2, <2>3, SessionFacts, AnsweredData
<1>11. ASSUME Fault(w), Lose(w, <<r>>), RetrySafe(r), UNCHANGED <<status, rows>>,
              worker' = [worker EXCEPT ![w].pc = "reopen", ![w].usable = FALSE]
       PROVE  DataInv'
  <2>1. r \notin SaveRequests
    BY <1>11, SaveFacts DEF RetrySafe
  <2>2. Writes({}, "Unavailable")
    BY <1>4, <1>11, <2>1, LostWrites
  <2>3. DataStep({}, "Unavailable")
    BY <1>6, <1>11, <2>2 DEF DataStep, Answered, Fetches, QueueType
  <2>4. faults' \in 0..MaxFaults /\ session' = [session EXCEPT ![w] = DeadSession]
    BY <1>6, <1>11, FaultType DEF Lose
  <2>5. /\ session' \in [Workers -> Sessions] /\ session'[w] = DeadSession
        /\ \A v \in Workers : v # w => session'[v] = session[v]
    BY <1>6, <2>4, SessionFacts DEF StoreType
  <2>6. /\ \A v \in Workers : v # w => worker'[v] = worker[v]
        /\ worker'[w].saves = worker[w].saves /\ worker'[w].pc = "reopen" /\ worker'[w].hand = worker[w].hand
    BY <1>5, <1>6, <1>11 DEF QueueType, WorkerStates
  <2>7. WorkAt(w)'
    <3>1. InHand(w)' = r
      BY <1>1, <2>6 DEF InHand
    <3>2. QED
      BY <1>5, <2>1, <2>5, <2>6, <3>1, SessionFacts DEF WorkAt, Batched
  <2>8. Work'
    BY <1>6, <2>5, <2>6, <2>7, WorkElsewhere
  <2>9. QED
    BY <2>3, <2>4, <2>5, <2>8, DataKeeps
<1>12. QED
  BY <1>1, <1>8, <1>9, <1>10, <1>11 DEF Execute

LEMMA ReopenData ==
  ASSUME IInv, DataInv, NEW w \in Workers, Reopen(w)
  PROVE  DataInv'
<1>1. /\ worker[w].pc \in Single /\ worker[w].pc \notin {"insert", "commit"}
      /\ UNCHANGED <<rows, tables, running_on, faults>>
  BY DEF Reopen, Single
<1>2. /\ session[w] \in Sessions /\ session[w].rows = <<>>
      /\ session = [session EXCEPT ![w] = session[w]]
      /\ worker[w] \in WorkerStates /\ Range(worker[w].saves) \subseteq SaveRequests
  BY <1>1, IdleSession
<1>3. StoreType /\ Work /\ WorkAt(w) /\ QueueType /\ faults \in 0..MaxFaults
  BY DEF DataInv, StoreType, IInv, Work
<1>4. CASE /\ Answer(<<InHand(w)>>, "Unavailable") /\ worker' = Done(w, FALSE) /\ UNCHANGED session
  <2>1. worker[w].hand = <<InHand(w)>>
    BY <1>1, HandFacts
  <2>2. Answered(Range(worker[w].hand), "Unavailable")
    BY <1>4, <2>1 DEF Answer, Answered
  <2>3. Writes(Range(worker[w].hand), "Unavailable") /\ Fetches(Range(worker[w].hand), "Unavailable")
    BY <1>1 DEF Writes, Fetches
  <2>4. QED
    BY <1>1, <1>2, <1>3, <1>4, <2>2, <2>3, AnsweredData
<1>5. CASE /\ session' = [session EXCEPT ![w] = NewSession]
           /\ worker' = [worker EXCEPT ![w].pc = "retry", ![w].usable = TRUE]
           /\ UNCHANGED status
  <2>1. DataStep({}, "Unavailable")
    BY <1>1, <1>3, <1>5, NothingStored
  <2>2. /\ session' \in [Workers -> Sessions] /\ session'[w] = NewSession
        /\ \A v \in Workers : v # w => session'[v] = session[v]
    BY <1>3, <1>5, SessionFacts DEF StoreType
  <2>3. /\ \A v \in Workers : v # w => worker'[v] = worker[v]
        /\ worker'[w].saves = worker[w].saves /\ worker'[w].pc = "retry" /\ worker'[w].hand = worker[w].hand
    BY <1>2, <1>3, <1>5 DEF QueueType, WorkerStates
  <2>4. WorkAt(w)'
    <3>1. InHand(w)' = InHand(w) /\ InHand(w) \notin SaveRequests
      BY <1>3, <2>3 DEF InHand, Reopen, WorkAt
    <3>2. QED
      BY <1>2, <2>2, <2>3, <3>1, SessionFacts DEF WorkAt, Batched
  <2>5. Work'
    BY <1>3, <2>2, <2>3, <2>4, WorkElsewhere
  <2>6. QED
    BY <1>1, <1>3, <2>1, <2>2, <2>5, DataKeeps
<1>6. QED
  BY <1>4, <1>5 DEF Reopen

(* A batch that fails is answered as one, and nothing of it is stored.     *)
LEMMA FailData ==
  ASSUME IInv, DataInv, NEW w \in Workers, worker[w].pc \in Batched, NEW up \in BOOLEAN, FailBatch(w, up),
         NEW c \in Sessions, c.rows = <<>>, session' = [session EXCEPT ![w] = c], faults' \in 0..MaxFaults,
         UNCHANGED rows, UNCHANGED <<tables, running_on>> \/ (~up /\ Writes(Range(worker[w].hand), "Unavailable"))
  PROVE  DataInv'
<1>1. PICK st \in {"Failed", "Unavailable"} : st = IF up THEN "Failed" ELSE "Unavailable"
  OBVIOUS
<1>2. Answered(Range(worker[w].hand), st) /\ worker' = Done(w, up)
  BY <1>1 DEF FailBatch, Answer, Answered
<1>3. Writes(Range(worker[w].hand), st)
  BY <1>1 DEF Writes
<1>4. Fetches(Range(worker[w].hand), st)
  BY <1>1 DEF Fetches
<1>5. QED
  BY <1>2, <1>3, <1>4, AnsweredData

LEMMA BeginData ==
  ASSUME IInv, DataInv, NEW w \in Workers, BeginBatch(w)
  PROVE  DataInv'
<1>1. /\ worker[w].pc = "begin" /\ worker[w].pc \in Batched /\ worker[w].pc \notin {"insert", "commit"}
      /\ UNCHANGED <<rows, tables, running_on>>
  BY DEF BeginBatch, Batched
<1>2. /\ session[w] \in Sessions /\ session[w].rows = <<>>
      /\ session = [session EXCEPT ![w] = session[w]]
      /\ worker[w] \in WorkerStates /\ Range(worker[w].saves) \subseteq SaveRequests
  BY <1>1, IdleSession
<1>3. StoreType /\ Work /\ WorkAt(w) /\ QueueType /\ faults \in 0..MaxFaults
  BY DEF DataInv, StoreType, IInv, Work
<1>4. ASSUME NEW up \in BOOLEAN, FailBatch(w, up), UNCHANGED session, Fault(w) \/ UNCHANGED faults PROVE DataInv'
  <2>1. faults' \in 0..MaxFaults
    BY <1>3, <1>4, FaultType
  <2>2. QED
    BY <1>1, <1>2, <1>4, <2>1, FailData
<1>5. CASE /\ session[w].alive /\ session' = [session EXCEPT ![w] = Opened(w)]
           /\ worker' = [worker EXCEPT ![w].pc = "insert"] /\ UNCHANGED <<status, faults>>
  <2>1. DataStep({}, "Unavailable")
    BY <1>1, <1>3, <1>5, NothingStored
  <2>2. PICK c : c = Opened(w)
    OBVIOUS
  <2>3. c \in Sessions /\ c.alive /\ c.open /\ c.rows = <<>>
    BY <1>2, <1>5, <2>2 DEF Opened, Sessions
  <2>4. /\ session' \in [Workers -> Sessions] /\ session'[w] = c
        /\ \A v \in Workers : v # w => session'[v] = session[v]
    BY <1>3, <1>5, <2>2, <2>3 DEF StoreType
  <2>5. /\ \A v \in Workers : v # w => worker'[v] = worker[v]
        /\ worker'[w].saves = worker[w].saves /\ worker'[w].pc = "insert" /\ worker'[w].hand = worker[w].hand
        /\ worker'[w].done = 0
    BY <1>1, <1>2, <1>3, <1>5 DEF QueueType, WorkerStates, WorkAt
  <2>6. 0 < Len(worker[w].hand)
    <3>1. worker[w].hand \in Seq(Requests) /\ worker[w].hand # <<>>
      BY <1>1, HandFacts
    <3>2. QED
      BY <3>1, FrontOfTail
  <2>7. WorkAt(w)'
    <3>1. {worker[w].hand[i] : i \in 1..0} = {}
      OBVIOUS
    <3>2. QED
      BY <1>1, <1>2, <1>3, <2>3, <2>4, <2>5, <2>6, <3>1, RangeEmpty DEF WorkAt, Batched
  <2>8. Work'
    BY <1>3, <2>4, <2>5, <2>7, WorkElsewhere
  <2>9. QED
    BY <1>3, <1>5, <2>1, <2>4, <2>8, DataKeeps
<1>6. QED
  BY <1>4, <1>5 DEF BeginBatch

(* An insert adds the next Save to the open transaction.                   *)
LEMMA InsertData ==
  ASSUME IInv, DataInv, NEW w \in Workers, InsertBatch(w)
  PROVE  DataInv'
<1>1. /\ worker[w].pc = "insert" /\ worker[w].pc \in Batched
      /\ UNCHANGED <<rows, running_on>>
  BY DEF InsertBatch, Batched
<1>2. /\ session[w] \in Sessions /\ session = [session EXCEPT ![w] = session[w]]
      /\ worker[w] \in WorkerStates
      /\ StoreType /\ Work /\ WorkAt(w) /\ QueueType /\ faults \in 0..MaxFaults
  BY DEF DataInv, StoreType, IInv, Work, QueueType
<1>3. worker[w].hand \in Seq(Requests) /\ worker[w].done \in Nat /\ worker[w].done < Len(worker[w].hand)
  BY <1>1, <1>2 DEF WorkerStates, WorkAt
<1>4. PICK r : r = worker[w].hand[worker[w].done + 1]
  OBVIOUS
<1>5. PICK d \in Nat : d = worker[w].done
  BY <1>3
<1>6. PICK n \in Nat : n = Len(worker[w].hand)
  BY <1>3, LenProperties
<1>7. r \in Requests /\ d + 1 \in 1..n
  <2>1. d + 1 \in 1..n
    BY <1>3, <1>5, <1>6
  <2>2. QED
    BY <1>3, <1>4, <1>5, <1>6, <2>1, ElementOfSeq
<1>8. CASE /\ session[w].alive /\ session[w].open
           /\ session' = [session EXCEPT ![w].rows = Append(@, r)] /\ UNCHANGED tables
           /\ worker' = [worker EXCEPT ![w].done = @ + 1, ![w].pc =
                IF worker[w].done + 1 = Len(worker[w].hand) THEN "commit" ELSE "insert"]
           /\ UNCHANGED <<status, faults>>
  <2>1. DataStep({}, "Unavailable")
    BY <1>1, <1>2, <1>8, NothingStored
  <2>2. PICK q \in Seq(Requests) : q = session[w].rows
    BY <1>2 DEF Sessions
  <2>3. Append(q, r) \in Seq(Requests) /\ Range(Append(q, r)) = Range(q) \union {r}
    BY <1>7, AppendProperties, RangeAppend
  <2>4. /\ session' \in [Workers -> Sessions] /\ session'[w].rows = Append(q, r)
        /\ session'[w].open /\ session'[w].alive
        /\ \A v \in Workers : v # w => session'[v] = session[v]
    BY <1>2, <1>8, <2>2, <2>3 DEF StoreType, Sessions
  <2>5. /\ \A v \in Workers : v # w => worker'[v] = worker[v]
        /\ worker'[w].saves = worker[w].saves /\ worker'[w].hand = worker[w].hand /\ worker'[w].done = d + 1
        /\ worker'[w].pc = IF d + 1 = n THEN "commit" ELSE "insert"
    BY <1>2, <1>5, <1>6, <1>8 DEF QueueType, WorkerStates
  <2>6. Range(q) = {worker[w].hand[i] : i \in 1..d}
    BY <1>1, <1>2, <1>5, <1>8, <2>2 DEF WorkAt
  <2>7. Range(Append(q, r)) = {worker[w].hand[i] : i \in 1..d + 1}
    <3>1. \A i : i \in 1..d + 1 <=> i \in 1..d \/ i = d + 1
      OBVIOUS
    <3>2. QED
      BY <1>4, <1>5, <2>3, <2>6, <3>1
  <2>8. d + 1 = n => Range(Append(q, r)) = Range(worker[w].hand)
    <3>1. Range(worker[w].hand) = {worker[w].hand[i] : i \in 1..n}
      BY <1>3, <1>6, LenProperties DEF Range
    <3>2. QED
      BY <2>7, <3>1
  <2>9. WorkAt(w)'
    <3>1. Range(worker[w].hand) \subseteq SaveRequests /\ Range(worker[w].saves) \subseteq SaveRequests
      BY <1>1, <1>2 DEF WorkAt
    <3>2. CASE d + 1 = n
      BY <2>4, <2>5, <2>8, <3>1, <3>2 DEF WorkAt, Batched
    <3>3. CASE d + 1 # n
      <4>1. worker'[w].pc = "insert" /\ d + 1 < n
        BY <1>7, <2>5, <3>3
      <4>2. QED
        BY <1>6, <2>4, <2>5, <2>7, <3>1, <4>1 DEF WorkAt, Batched
    <3>4. QED
      BY <3>2, <3>3
  <2>10. Work'
    BY <1>2, <2>4, <2>5, <2>9, WorkElsewhere
  <2>11. QED
    BY <1>2, <1>8, <2>1, <2>4, <2>10, DataKeeps
<1>9. CASE /\ Fault(w) /\ session' = [session EXCEPT ![w] = NewSession] /\ FailBatch(w, TRUE) /\ UNCHANGED tables
  <2>1. faults' \in 0..MaxFaults
    BY <1>2, <1>9, FaultType
  <2>2. QED
    BY <1>1, <1>9, <2>1, SessionFacts, FailData
<1>10. CASE /\ ~session[w].alive /\ FailBatch(w, FALSE) /\ UNCHANGED <<session, tables, faults>>
  <2>1. session[w].rows = <<>>
    BY <1>2, <1>10 DEF WorkAt
  <2>2. QED
    BY <1>1, <1>2, <1>10, <2>1, FailData
<1>11. session[w].alive => session[w].open
  BY <1>1, <1>2 DEF WorkAt
<1>12. QED
  BY <1>4, <1>8, <1>9, <1>10, <1>11 DEF InsertBatch

(* The COMMIT stores just the Saves in hand.                               *)
LEMMA CommitData ==
  ASSUME IInv, DataInv, NEW w \in Workers, CommitBatch(w)
  PROVE  DataInv'
<1>1. worker[w].pc = "commit" /\ worker[w].pc \in Batched /\ UNCHANGED rows
  BY DEF CommitBatch, Batched
<1>2. session[w] \in Sessions /\ StoreType /\ WorkAt(w) /\ faults \in 0..MaxFaults
  BY DEF DataInv, StoreType, Work
<1>3. PICK H : H = Range(worker[w].hand)
  OBVIOUS
<1>4. H \subseteq SaveRequests /\ (session[w].alive => Range(session[w].rows) = H)
  BY <1>1, <1>2, <1>3 DEF WorkAt
<1>5. session[w].rows \in Transactions
  <2>1. session[w].rows \in Seq(Requests)
    BY <1>2 DEF Sessions
  <2>2. Range(session[w].rows) \subseteq SaveRequests
    BY <1>2, <1>4, RangeEmpty DEF WorkAt
  <2>3. QED
    BY <2>1, <2>2 DEF Transactions
<1>6. CASE /\ session[w].alive /\ Commit(session[w].rows) /\ session' = [session EXCEPT ![w] = NewSession]
           /\ Answer(worker[w].hand, "Ok") /\ worker' = Done(w, TRUE) /\ UNCHANGED <<running_on, faults>>
  <2>1. Answered(H, "Ok")
    BY <1>3, <1>6 DEF Answer, Answered
  <2>2. Writes(H, "Ok")
    BY <1>4, <1>5, <1>6 DEF Writes
  <2>3. Fetches(H, "Ok")
    BY <1>1, <1>4, SaveFacts DEF Fetches
  <2>4. QED
    BY <1>1, <1>2, <1>3, <1>6, <2>1, <2>2, <2>3, SessionFacts, AnsweredData
<1>7. CASE /\ Fault(w) /\ session' = [session EXCEPT ![w] = NewSession] /\ FailBatch(w, TRUE)
           /\ UNCHANGED <<tables, running_on>>
  <2>1. faults' \in 0..MaxFaults
    BY <1>2, <1>7, FaultType
  <2>2. QED
    BY <1>1, <1>7, <2>1, SessionFacts, FailData
<1>8. CASE Fault(w) /\ Lose(w, session[w].rows) /\ FailBatch(w, FALSE)
  <2>1. faults' \in 0..MaxFaults /\ session' = [session EXCEPT ![w] = DeadSession]
    BY <1>2, <1>8, FaultType DEF Lose
  <2>2. Writes(H, "Unavailable")
    BY <1>4, <1>5, <1>8, LostWrites
  <2>3. QED
    BY <1>1, <1>3, <1>8, <2>1, <2>2, SessionFacts, FailData
<1>9. QED
  BY <1>6, <1>7, <1>8 DEF CommitBatch

-----------------------------------------------------------------------------
(* Rejected requests leave nothing in the database.                        *)
LEMMA RejectData ==
  ASSUME IInv, DataInv, NEW H \in SUBSET Requests, \A r \in H : InUse(r) /\ status[r] = "none",
         Answered(H, "Unavailable"), UNCHANGED <<tables, running_on, rows, faults>>,
         session' \in [Workers -> Sessions],
         \A w \in Workers : /\ worker'[w].pc = "gone" \/ (worker'[w] = worker[w] /\ session'[w] = session[w])
                            /\ worker'[w].saves = worker[w].saves /\ (worker'[w].pc = "gone" => session'[w].rows = <<>>)
  PROVE  DataInv'
<1>1. StoreType /\ Work
  BY DEF DataInv
<1>2. ASSUME NEW w \in Workers PROVE WorkAt(w)'
  <2>1. WorkAt(w)
    BY <1>1 DEF Work
  <2>2. CASE worker'[w].pc = "gone"
    <3>1. Range(worker'[w].saves) \subseteq SaveRequests
      BY <2>1 DEF WorkAt
    <3>2. QED
      BY <2>2, <3>1, WorkIdle DEF Batched
  <2>3. CASE worker'[w] = worker[w] /\ session'[w] = session[w]
    BY <2>1, <2>3 DEF WorkAt, InHand
  <2>4. QED
    BY <2>2, <2>3
<1>3. DataStep(H, "Unavailable")
  BY DEF DataStep, Writes, Fetches
<1>4. QED
  BY <1>1, <1>2, <1>3, DataKeeps DEF Work, StoreType

LEMMA TailUnanswered ==
  ASSUME IInv, NEW w \in Workers, worker[w].pc = "top"
  PROVE  \A r \in Range(TailOf(w)) : InUse(r) /\ status[r] = "none" /\ r \in Requests
<1>1. QueueType /\ Unanswered
  BY DEF IInv, PlaceInv
<1>2. worker[w].saves \in Seq(Requests) /\ worker[w].batch \in Seq(Requests) /\ line[w] \in Seq(Requests)
  BY <1>1, PipeFacts
<1>3. PICK q \in Seq(Requests) : q = worker[w].batch \o line[w]
  BY <1>2, ConcatProperties
<1>4. Range(q) = Range(worker[w].batch) \union Range(line[w])
  BY <1>2, <1>3, RangeConcatenation
<1>5. Rest(w) = worker[w].saves \o q
  BY <1>3 DEF Rest
<1>6. Range(worker[w].saves \o q) = Range(worker[w].saves) \union Range(q)
  BY <1>2, RangeConcatenation
<1>7. Range(line[w]) \subseteq Range(Rest(w))
  BY <1>4, <1>5, <1>6
<1>8. Range(TailOf(w)) \subseteq InPipe(w)
  BY <1>1, <1>7, PipeFacts, RangeEmpty DEF TailOf
<1>9. \A r \in InPipe(w) : InUse(r) /\ status[r] = "none" /\ r \in Requests
  BY <1>1, PipeFacts DEF Unanswered, InUse
<1>10. QED
  BY <1>8, <1>9

LEMMA WaitingUnanswered ==
  ASSUME IInv
  PROVE  \A r \in Waiting : InUse(r) /\ status[r] = "none" /\ r \in Requests
BY LineFacts DEF IInv, PlaceInv, Waiting, InUse, Unanswered

LEMMA ExitData ==
  ASSUME IInv, DataInv, NEW w \in Workers, Exit(w)
  PROVE  DataInv'
<1>1. /\ worker[w].pc = "top" /\ worker' = [worker EXCEPT ![w].pc = "gone"]
      /\ UNCHANGED <<tables, running_on, rows, faults, session>>
      /\ Answered(Range(TailOf(w)), "Unavailable")
  BY DEF Exit, db, Answer, Answered
<1>2. QueueType /\ StoreType
  BY DEF IInv, DataInv
<1>3. \A v \in Workers : v = w \/ worker[v].pc = "gone" => session[v].rows = <<>>
  BY <1>1, IdleSession
<1>4. \A v \in Workers : /\ worker'[v].pc = "gone" \/ worker'[v] = worker[v]
                         /\ worker'[v].saves = worker[v].saves /\ (v # w => worker'[v] = worker[v])
  BY <1>1, <1>2 DEF QueueType, WorkerStates
<1>5. PICK H \in SUBSET Requests : H = Range(TailOf(w)) /\ \A r \in H : InUse(r) /\ status[r] = "none"
  BY <1>1, TailUnanswered
<1>6. session' \in [Workers -> Sessions]
  BY <1>1, <1>2 DEF StoreType
<1>7. \A v \in Workers : /\ worker'[v].pc = "gone" \/ (worker'[v] = worker[v] /\ session'[v] = session[v])
                         /\ worker'[v].saves = worker[v].saves /\ (worker'[v].pc = "gone" => session'[v].rows = <<>>)
  BY <1>1, <1>3, <1>4
<1>8. QED
  BY <1>1, <1>5, <1>6, <1>7, RejectData

LEMMA JoinData ==
  ASSUME IInv, DataInv, Join
  PROVE  DataInv'
<1>1. /\ \A w \in Workers : worker[w].pc = "gone"
      /\ UNCHANGED <<worker, tables, running_on, rows, faults>>
      /\ session' = [w \in Workers |-> DeadSession]
  BY DEF Join
<1>2. \E H \in SUBSET Requests : /\ \A r \in H : InUse(r) /\ status[r] = "none"
                                 /\ Answered(H, "Unavailable")
  <2>1. CASE Static
    <3>1. Answered({}, "Unavailable")
      BY <2>1 DEF Join, Answered, IInv, QueueType
    <3>2. QED
      BY <3>1
  <2>2. CASE ~Static
    <3>1. Answered(Waiting, "Unavailable")
      BY <2>2 DEF Join, Answered
    <3>2. QED
      BY <3>1, WaitingUnanswered
  <2>3. QED
    BY <2>1, <2>2
<1>3. PICK H \in SUBSET Requests : /\ \A r \in H : InUse(r) /\ status[r] = "none"
                                   /\ Answered(H, "Unavailable")
  BY <1>2
<1>4. session' \in [Workers -> Sessions] /\ \A w \in Workers : session'[w].rows = <<>>
  BY <1>1, SessionFacts
<1>5. \A w \in Workers : /\ worker'[w].pc = "gone" \/ (worker'[w] = worker[w] /\ session'[w] = session[w])
                         /\ worker'[w].saves = worker[w].saves /\ (worker'[w].pc = "gone" => session'[w].rows = <<>>)
  BY <1>1, <1>4
<1>6. QED
  BY <1>1, <1>3, <1>4, <1>5, RejectData

(* A connection that is dropped takes its open transaction with it.        *)
LEMMA DropData ==
  ASSUME IInv, DataInv, NEW w \in Workers, Drop(w)
  PROVE  DataInv'
<1>1. /\ session' = [session EXCEPT ![w] = DeadSession] /\ Fault(w)
      /\ UNCHANGED <<worker, status, rows, tables, running_on>>
  BY DEF Drop, sink
<1>2. QueueType /\ StoreType /\ Work /\ WorkAt(w)
  BY DEF IInv, DataInv, Work
<1>3. /\ session' \in [Workers -> Sessions] /\ session'[w] = DeadSession
      /\ \A v \in Workers : v # w => session'[v] = session[v]
  BY <1>1, <1>2, SessionFacts DEF StoreType
<1>4. WorkAt(w)'
  BY <1>1, <1>2, <1>3, SessionFacts DEF WorkAt, InHand
<1>5. Work'
  BY <1>1, <1>2, <1>3, <1>4, WorkElsewhere
<1>6. DataStep({}, "Unavailable")
  BY <1>1, <1>2, NothingStored
<1>7. faults' \in 0..MaxFaults
  BY <1>1, <1>2, FaultType
<1>8. QED
  BY <1>3, <1>5, <1>6, <1>7, DataKeeps

-----------------------------------------------------------------------------
LEMMA DataNext ==
  ASSUME IInv, DataInv, [Next]_vars
  PROVE  DataInv'
<1>1. ASSUME UNCHANGED <<status, rows, worker, db>> PROVE DataInv'
  <2>1. QueueType /\ StoreType /\ Work /\ UNCHANGED <<tables, running_on, session, faults>>
    BY <1>1 DEF IInv, DataInv, db
  <2>2. DataStep({}, "Unavailable")
    BY <1>1, <2>1, NothingStored
  <2>3. Work'
    BY <1>1, <2>1 DEF Work, WorkAt, InHand
  <2>4. session' \in [Workers -> Sessions] /\ faults' \in 0..MaxFaults
    BY <2>1 DEF StoreType
  <2>5. QED
    BY <2>2, <2>3, <2>4, DataKeeps
<1>2. ASSUME NEW k \in Keys, SubmitCheck(k) \/ SubmitPush(k) PROVE DataInv'
  BY <1>1, <1>2 DEF SubmitCheck, SubmitPush, sink
<1>3. ASSUME NEW r \in Requests, MissDeadline(r) PROVE DataInv'
  BY <1>1, <1>3 DEF MissDeadline, sink
<1>4. CASE Drain \/ Stop \/ UNCHANGED vars
  BY <1>1, <1>4 DEF Drain, Stop, vars, sink
<1>5. ASSUME NEW w \in Workers, Worker(w) PROVE DataInv'
  <2>1. CASE Top(w)
    BY <2>1, TopData
  <2>2. CASE Take(w) \/ Pick(w) \/ LoopEnd(w) \/ Release(w)
    BY <2>2, QueueData
  <2>3. CASE Collect(w)
    BY <2>3, CollectData
  <2>4. CASE Flush(w)
    BY <2>4, FlushData
  <2>5. CASE TurnDown(w)
    BY <2>5, TurnDownData
  <2>6. CASE Execute(w)
    BY <2>6, ExecuteData
  <2>7. CASE Reopen(w)
    BY <2>7, ReopenData
  <2>8. CASE BeginBatch(w)
    BY <2>8, BeginData
  <2>9. CASE InsertBatch(w)
    BY <2>9, InsertData
  <2>10. CASE CommitBatch(w)
    BY <2>10, CommitData
  <2>11. CASE Exit(w)
    BY <2>11, ExitData
  <2>12. QED
    BY <1>5, <2>1, <2>2, <2>3, <2>4, <2>5, <2>6, <2>7, <2>8, <2>9, <2>10, <2>11 DEF Worker
<1>6. ASSUME NEW w \in Workers, Drop(w) PROVE DataInv'
  BY <1>6, DropData
<1>7. CASE RunsOn
  BY <1>7, RunsOnKeeps DEF IInv
<1>8. CASE Join
  BY <1>8, JoinData
<1>9. QED
  BY <1>2, <1>3, <1>4, <1>5, <1>6, <1>7, <1>8 DEF Next, Stopped

LEMMA DataInit ==
  ASSUME Init
  PROVE  DataInv
<1>1. PICK up \in BOOLEAN :
        /\ worker = [w \in Workers |-> [pc |-> "top", batch |-> <<>>, saves |-> <<>>, hand |-> <<>>,
                                        done |-> 0, usable |-> up]]
        /\ session = [w \in Workers |-> IF up THEN NewSession ELSE DeadSession]
  BY DEF Init
<1>2. /\ status = [r \in Requests |-> "none"] /\ rows = [r \in Requests |-> {}]
      /\ echo_log = [r \in SaveRequests |-> 0] /\ counter_request = {}
      /\ echo_counter = [k \in Keys |-> 0] /\ running_on = {} /\ faults = 0
  BY DEF Init
<1>3. session \in [Workers -> Sessions] /\ \A w \in Workers : session[w].rows = <<>>
  BY <1>1, SessionFacts
<1>4. StoreType
  BY <1>2, <1>3, PoolAssumption DEF StoreType
<1>5. \A w \in Workers : worker[w].pc = "top" /\ worker[w].saves = <<>>
  BY <1>1
<1>6. Work
  BY <1>3, <1>5, RangeEmpty DEF Work, WorkAt, Batched
<1>7. Rows
  BY <1>2, SaveFacts DEF Rows, RowAt, Pending
<1>8. Tally
  <2>1. \A k : ClaimsOf(k) = {}
    BY <1>2 DEF ClaimsOf
  <2>2. IsFiniteSet({}) /\ Cardinality({}) = 0
    BY FS_EmptySet
  <2>3. \A k \in Keys : echo_counter[k] = Cardinality(ClaimsOf(k))
    BY <1>2, <2>1, <2>2
  <2>4. QED
    BY <1>2, <2>2, <2>3 DEF Tally
<1>9. CountsKnown /\ Reads
  BY <1>2 DEF CountsKnown, Reads
<1>10. QED
  BY <1>4, <1>6, <1>7, <1>8, <1>9 DEF DataInv

LEMMA DataHolds == Spec => []DataInv
<1>1. Init => DataInv
  BY DataInit
<1>2. IInv /\ DataInv /\ [Next]_vars => DataInv'
  BY DataNext
<1>3. QED
  BY <1>1, <1>2, IInvHolds, PTL DEF Spec

-----------------------------------------------------------------------------
(* The variables have their types, the queues stay within their limits as  *)
(* far as submit's unlocked check can hold them, and a batch never grows   *)
(* past batch_size_.                                                       *)
THEOREM TypeCorrect == Spec => []TypeOK
<1>1. ASSUME PoolInv, DataInv PROVE TypeOK
  <2>1. QueueType /\ Shapes /\ DepthInv /\ StoreType /\ Tally
    BY <1>1 DEF PoolInv, IInv, DataInv
  <2>2. \A w \in Workers : Len(worker[w].saves) <= BatchSize
    BY <2>1 DEF Shapes, Shape
  <2>3. /\ \A l \in DOMAIN depth : depth[l] \in Nat
        /\ depth[Shared] <= Cap * Cardinality(Workers)
    BY <2>1 DEF DepthInv, Room
  <2>4. Static => \A w \in Workers : depth[w] <= Cap + Cardinality(Keys) - 1
    <3>1. SUFFICES ASSUME Static, NEW w \in Workers PROVE depth[w] <= Cap + Cardinality(Keys) - 1
      OBVIOUS
    <3>2. IsFiniteSet(CheckedAt(w)) /\ Cardinality(CheckedAt(w)) \in Nat
      BY <2>1, CheckedFacts DEF QueueType
    <3>3. depth[w] + Cardinality(CheckedAt(w)) <= Cap + Cardinality(Keys) - 1 /\ depth[w] \in Nat
      BY <2>1, <3>1 DEF DepthInv, Room
    <3>4. Cardinality(Keys) \in Nat /\ Cap \in Nat
      BY PoolAssumption, FS_CardinalityType
    <3>5. QED
      BY <3>2, <3>3, <3>4
  <2>5. QED
    BY <2>1, <2>2, <2>3, <2>4 DEF TypeOK, QueueType, StoreType, Tally
<1>2. PoolInv /\ DataInv => TypeOK
  BY <1>1
<1>3. QED
  BY <1>2, PoolHolds, DataHolds, PTL

(* The rows a Save has or may still get, from what is pending for it.      *)
LEMMA RowsCounted ==
  ASSUME DataInv, NEW r \in SaveRequests
  PROVE  /\ RowAt(r) /\ echo_log[r] \in Nat
         /\ RowsOf(r) = IF Pending(r) THEN echo_log[r] + 1 ELSE echo_log[r]
<1>1. RowAt(r) /\ echo_log[r] \in Nat
  BY DEF DataInv, Rows, StoreType
<1>2. PICK P : P = {t \in running_on : r \in Range(t)}
  OBVIOUS
<1>3. RowsOf(r) = echo_log[r] + Cardinality(P)
  BY <1>2 DEF RowsOf
<1>4. CASE Pending(r)
  <2>1. PICK t \in running_on : r \in Range(t)
    BY <1>4 DEF Pending
  <2>2. P = {t}
    BY <1>1, <1>2, <2>1 DEF RowAt
  <2>3. Cardinality(P) = 1
    BY <2>2, FS_Singleton
  <2>4. QED
    BY <1>1, <1>3, <1>4, <2>3
<1>5. CASE ~Pending(r)
  <2>1. P = {}
    BY <1>2, <1>5 DEF Pending
  <2>2. Cardinality(P) = 0
    BY <2>1, FS_EmptySet
  <2>3. QED
    BY <1>1, <1>3, <1>5, <2>2
<1>6. QED
  BY <1>4, <1>5

(* However connections break, and whatever the server still runs for a     *)
(* client that is gone, a Save never has two rows: that is why is_retry_   *)
(* safe leaves Saves alone.                                                *)
THEOREM SaveStoredOnce == Spec => []SavedOnce
<1>1. ASSUME DataInv, NEW r \in SaveRequests PROVE RowsOf(r) <= 1
  BY <1>1, RowsCounted DEF RowAt
<1>2. DataInv => SavedOnce
  BY <1>1 DEF SavedOnce
<1>3. QED
  BY <1>2, DataHolds, PTL

(* Ok means the row is there, Failed and Expired that there is none and    *)
(* will be none, for each Save of a batch that shared one transaction.     *)
THEOREM AnswersTrue == Spec => []AnswerTrue
<1>1. ASSUME DataInv, NEW r \in SaveRequests
      PROVE  /\ status[r] = "Ok" => RowsOf(r) = 1
             /\ status[r] \in {"Failed", "Expired"} => RowsOf(r) = 0
  BY <1>1, RowsCounted DEF RowAt
<1>2. DataInv => AnswerTrue
  BY <1>1 DEF AnswerTrue
<1>3. QED
  BY <1>2, DataHolds, PTL

(* A request key counts once, however often its Counter is tried and even  *)
(* when the server finishes a first attempt after the second.              *)
THEOREM KeyCountedOnce == Spec => []CountedOnce
<1>1. DataInv => CountedOnce
  BY DEF DataInv, Tally, CountsKnown, Claimed, ClaimsOf, CountedOnce
<1>2. QED
  BY <1>1, DataHolds, PTL

(* A History carries every Save of its session that was submitted before   *)
(* it and answered Ok, batched or not; or it is full, of rows whose log_id *)
(* is larger.                                                              *)
THEOREM HistoryReadsSaves == Spec => []ReadsOwnSaves
<1>1. ASSUME DataInv, NEW k \in Keys, NEW i \in DOMAIN Script[k], NEW j \in DOMAIN Script[k], i < j,
             Kind[Script[k][i]] = "Save", Kind[Script[k][j]] = "History",
             status[Script[k][i]] = "Ok", status[Script[k][j]] = "Ok"
      PROVE  Carries(Script[k][j], Script[k][i])
  <2>1. DOMAIN Script[k] = 1..Len(Script[k])
    BY PoolAssumption, LenProperties
  <2>2. /\ KeyOf[Script[k][i]] = k /\ Index(Script[k][i]) = i /\ Script[k][i] \in Requests
        /\ KeyOf[Script[k][j]] = k /\ Index(Script[k][j]) = j /\ Script[k][j] \in Requests
    BY <2>1, ScriptFacts
  <2>3. QED
    BY <1>1, <2>2 DEF DataInv, Reads
<1>2. DataInv => ReadsOwnSaves
  BY <1>1 DEF ReadsOwnSaves
<1>3. QED
  BY <1>2, DataHolds, PTL

(* An answer stands: the sink gets one answer for a request, so a lane is  *)
(* never told Unavailable and then Ok, nor twice the same.                 *)
AnswerStands == [][\A r \in Requests : status[r] # "none" => status'[r] = status[r]]_vars

THEOREM AnswersStand == Spec => AnswerStands
<1>1. ASSUME IInv, [Next]_vars PROVE \A r \in Requests : status[r] # "none" => status'[r] = status[r]
  <2>1. CASE UNCHANGED status
    BY <2>1
  <2>2. ASSUME NEW w \in Workers, worker[w].pc \in Single \union Batched, NEW st,
               NEW q, Range(q) = Range(worker[w].hand), Answer(q, st)
        PROVE  \A r \in Requests : status[r] # "none" => status'[r] = status[r]
    BY <1>1, <2>2, HandFacts DEF Answer
  <2>3. ASSUME NEW w \in Workers, TurnDown(w) \/ Execute(w) \/ Reopen(w)
        PROVE  \A r \in Requests : status[r] # "none" => status'[r] = status[r]
    <3>1. worker[w].pc \in Single
      BY <2>3 DEF TurnDown, Execute, Reopen, Single
    <3>2. Range(<<InHand(w)>>) = Range(worker[w].hand)
      BY <1>1, <3>1, HandFacts
    <3>3. UNCHANGED status \/ \E st : Answer(<<InHand(w)>>, st)
      BY <2>3 DEF TurnDown, Execute, Reopen
    <3>4. QED
      BY <2>2, <3>1, <3>2, <3>3
  <2>4. ASSUME NEW w \in Workers, BeginBatch(w) \/ InsertBatch(w) \/ CommitBatch(w)
        PROVE  \A r \in Requests : status[r] # "none" => status'[r] = status[r]
    <3>1. worker[w].pc \in Batched
      BY <2>4 DEF BeginBatch, InsertBatch, CommitBatch, Batched
    <3>2. UNCHANGED status \/ \E st : Answer(worker[w].hand, st)
      BY <2>4 DEF BeginBatch, InsertBatch, CommitBatch, FailBatch
    <3>3. QED
      BY <2>2, <3>1, <3>2
  <2>5. ASSUME NEW w \in Workers, Exit(w)
        PROVE  \A r \in Requests : status[r] # "none" => status'[r] = status[r]
    BY <1>1, <2>5, TailUnanswered DEF Exit, Answer
  <2>6. CASE Join
    BY <1>1, <2>6, WaitingUnanswered DEF Join
  <2>7. ASSUME NEW w \in Workers, Worker(w)
        PROVE  \A r \in Requests : status[r] # "none" => status'[r] = status[r]
    <3>1. CASE Top(w) \/ Take(w) \/ Collect(w) \/ Flush(w) \/ Pick(w) \/ LoopEnd(w) \/ Release(w)
      BY <2>1, <3>1 DEF Top, Take, Collect, Flush, Pick, LoopEnd, Release, sink
    <3>2. QED
      BY <2>3, <2>4, <2>5, <2>7, <3>1 DEF Worker
  <2>8. CASE \/ \E k \in Keys : SubmitCheck(k) \/ SubmitPush(k)
             \/ \E r \in Requests : MissDeadline(r)
             \/ \E w \in Workers : Drop(w)
             \/ RunsOn \/ Drain \/ Stop \/ UNCHANGED vars
    BY <2>1, <2>8 DEF SubmitCheck, SubmitPush, MissDeadline, Drop, RunsOn, Drain, Stop, vars, sink
  <2>9. QED
    BY <1>1, <2>6, <2>7, <2>8 DEF Next, Stopped
<1>2. IInv /\ [Next]_vars => [\A r \in Requests : status[r] # "none" => status'[r] = status[r]]_vars
  BY <1>1
<1>3. QED
  BY <1>2, IInvHolds, PTL DEF Spec, AnswerStands

-----------------------------------------------------------------------------
(* The order of the answers: of two requests of a session that are         *)
(* answered the sink got the one with the lower index first, and nothing   *)
(* else.                                                                   *)
InTurn(a, b) ==
  KeyOf[a] = KeyOf[b] /\ Index(a) < Index(b) /\ status[a] # "none" /\ status[b] # "none"
OrderInv == \A a, b \in Requests : <<a, b>> \in answers <=> InTurn(a, b)

(* What is unanswered and ordered adds the pairs that end in it.           *)
LEMMA BehindOrdered ==
  ASSUME NEW q \in Seq(Requests), Ordered(q), NEW a \in Requests, NEW b \in Requests
  PROVE  <<a, b>> \in Behind(q) <=>
           /\ KeyOf[a] = KeyOf[b] /\ b \in Range(q)
           /\ status[a] # "none" \/ (a \in Range(q) /\ Index(a) < Index(b))
<1>1. Len(q) \in Nat /\ DOMAIN q = 1..Len(q)
  BY LenProperties
<1>2. <<a, b>> \in Behind(q) <=>
        /\ KeyOf[a] = KeyOf[b]
        /\ \E j \in 1..Len(q) :
             q[j] = b /\ (status[a] # "none" \/ \E i \in 1..j - 1 : q[i] = a)
  BY <1>1 DEF Behind
<1>3. Index(a) \in Nat /\ Index(b) \in Nat
  BY ScriptFacts
<1>4. ASSUME KeyOf[a] = KeyOf[b], NEW j \in 1..Len(q), q[j] = b, NEW i \in 1..j - 1, q[i] = a
      PROVE  a \in Range(q) /\ Index(a) < Index(b)
  <2>1. i \in 1..Len(q) /\ i < j
    BY <1>1, <1>4
  <2>2. Before(a, b)
    BY <1>1, <1>4, <2>1 DEF Ordered
  <2>3. QED
    BY <1>1, <1>4, <2>1, <2>2 DEF Before, Range
<1>5. ASSUME KeyOf[a] = KeyOf[b], a \in Range(q), b \in Range(q), Index(a) < Index(b)
      PROVE  \E j \in 1..Len(q) : q[j] = b /\ \E i \in 1..j - 1 : q[i] = a
  <2>1. PICK i \in 1..Len(q), j \in 1..Len(q) : q[i] = a /\ q[j] = b
    BY <1>1, <1>5 DEF Range
  <2>2. CASE i < j
    <3>1. i \in 1..j - 1
      BY <1>1, <2>2
    <3>2. QED
      BY <2>1, <3>1
  <2>3. CASE i = j
    BY <1>3, <1>5, <2>1, <2>3
  <2>4. CASE j < i
    <3>1. Before(b, a)
      BY <1>1, <2>1, <2>4 DEF Ordered
    <3>2. QED
      BY <1>3, <1>5, <3>1 DEF Before
  <2>5. QED
    BY <1>1, <2>2, <2>3, <2>4
<1>6. b \in Range(q) <=> \E j \in 1..Len(q) : q[j] = b
  BY <1>1 DEF Range
<1>7. QED
  BY <1>2, <1>4, <1>5, <1>6

(* A step that answers, one after the other, the sequences in Q.           *)
AnswersAll(Q, H, st) ==
  /\ H = UNION {Range(q) : q \in Q}
  /\ \A q \in Q : q \in Seq(Requests) /\ Ordered(q)
  /\ \A q \in Q : \A a \in H, b \in Range(q) : KeyOf[a] = KeyOf[b] => a \in Range(q)
  /\ \A r \in H : InUse(r) /\ status[r] = "none" /\ r \in Requests
  /\ st # "none" /\ Answered(H, st)
  /\ answers' = answers \union UNION {Behind(q) : q \in Q}

LEMMA AnswersKeepOrder ==
  ASSUME IInv, OrderInv, NEW Q, NEW H, NEW st, AnswersAll(Q, H, st)
  PROVE  OrderInv'
<1>1. ASSUME NEW a \in Requests, NEW b \in Requests
      PROVE  <<a, b>> \in answers' <=>
               KeyOf[a] = KeyOf[b] /\ Index(a) < Index(b) /\ status'[a] # "none" /\ status'[b] # "none"
  <2>1. Index(a) \in Nat /\ Index(b) \in Nat
    BY ScriptFacts
  <2>2. \A r \in Requests : status'[r] # "none" <=> status[r] # "none" \/ r \in H
    BY DEF AnswersAll, Answered
  <2>3. <<a, b>> \in answers <=>
          KeyOf[a] = KeyOf[b] /\ Index(a) < Index(b) /\ status[a] # "none" /\ status[b] # "none"
    BY DEF OrderInv, InTurn
  <2>4. <<a, b>> \in answers' <=> <<a, b>> \in answers \/ \E q \in Q : <<a, b>> \in Behind(q)
    BY DEF AnswersAll
  <2>5. \A q \in Q : <<a, b>> \in Behind(q) <=>
           /\ KeyOf[a] = KeyOf[b] /\ b \in Range(q)
           /\ status[a] # "none" \/ (a \in Range(q) /\ Index(a) < Index(b))
    BY BehindOrdered DEF AnswersAll
  <2>6. (\E q \in Q : <<a, b>> \in Behind(q)) <=>
           KeyOf[a] = KeyOf[b] /\ b \in H /\ (status[a] # "none" \/ (a \in H /\ Index(a) < Index(b)))
    <3>1. ASSUME NEW q \in Q, <<a, b>> \in Behind(q)
          PROVE  KeyOf[a] = KeyOf[b] /\ b \in H /\ (status[a] # "none" \/ (a \in H /\ Index(a) < Index(b)))
      BY <2>5, <3>1 DEF AnswersAll
    <3>2. ASSUME KeyOf[a] = KeyOf[b], b \in H, status[a] # "none" \/ (a \in H /\ Index(a) < Index(b))
          PROVE  \E q \in Q : <<a, b>> \in Behind(q)
      <4>1. PICK q \in Q : b \in Range(q)
        BY <3>2 DEF AnswersAll
      <4>2. a \in H => a \in Range(q)
        BY <3>2, <4>1 DEF AnswersAll
      <4>3. QED
        BY <2>5, <3>2, <4>1, <4>2
    <3>3. QED
      BY <3>1, <3>2
  <2>7. \A r, s \in Requests : r \in H /\ status[s] # "none" /\ KeyOf[r] = KeyOf[s] => Index(s) < Index(r)
    BY DEF AnswersAll, IInv, PlaceInv, NoOvertaking, Before
  <2>8. /\ a \in H => status[a] = "none"
        /\ b \in H => status[b] = "none"
    BY DEF AnswersAll
  <2>9. /\ b \in H /\ status[a] # "none" /\ KeyOf[a] = KeyOf[b] => Index(a) < Index(b)
        /\ a \in H /\ status[b] # "none" /\ KeyOf[a] = KeyOf[b] => Index(b) < Index(a)
    BY <2>7
  <2>10. QED
    BY <2>1, <2>2, <2>3, <2>4, <2>6, <2>8, <2>9
<1>2. QED
  BY <1>1 DEF OrderInv, InTurn

LEMMA OneAnswerCall ==
  ASSUME IInv, OrderInv, NEW q \in Seq(Requests), Ordered(q),
         \A r \in Range(q) : InUse(r) /\ status[r] = "none" /\ r \in Requests,
         NEW st, st # "none", Answer(q, st)
  PROVE  OrderInv'
<1>1. UNION {Range(p) : p \in {q}} = Range(q) /\ UNION {Behind(p) : p \in {q}} = Behind(q)
  OBVIOUS
<1>2. Answered(Range(q), st) /\ answers' = answers \union Behind(q)
  BY DEF Answer, Answered
<1>3. AnswersAll({q}, Range(q), st)
  BY <1>1, <1>2 DEF AnswersAll
<1>4. QED
  BY <1>3, AnswersKeepOrder

LEMMA HandOrdered ==
  ASSUME IInv, NEW w \in Workers
  PROVE  Ordered(worker[w].hand) /\ Ordered(line[w])
<1>1. QueueType /\ Ordered(Pipe(w))
  BY DEF IInv, PlaceInv, InOrder
<1>2. /\ worker[w].hand \in Seq(Requests) /\ Rest(w) \in Seq(Requests)
      /\ worker[w].saves \in Seq(Requests) /\ worker[w].batch \in Seq(Requests)
      /\ line[w] \in Seq(Requests)
  BY <1>1, PipeFacts
<1>3. Ordered(worker[w].hand) /\ Ordered(Rest(w))
  BY <1>1, <1>2, ConcatOrdered DEF Pipe
<1>4. PICK q \in Seq(Requests) : q = worker[w].batch \o line[w]
  BY <1>2, ConcatProperties
<1>5. Ordered(q)
  BY <1>2, <1>3, <1>4, ConcatOrdered DEF Rest
<1>6. Ordered(line[w])
  BY <1>2, <1>4, <1>5, ConcatOrdered
<1>7. QED
  BY <1>3, <1>6

LEMMA HandAnswered ==
  ASSUME IInv, OrderInv, NEW w \in Workers, worker[w].pc \in Single \union Batched,
         NEW q, q = worker[w].hand, NEW st, st # "none", Answer(q, st)
  PROVE  OrderInv'
<1>1. q \in Seq(Requests) /\ Range(q) \subseteq Requests
      /\ \A r \in Range(q) : InUse(r) /\ status[r] = "none"
  BY HandFacts
<1>2. Ordered(q)
  BY HandOrdered
<1>3. QED
  BY <1>1, <1>2, OneAnswerCall

LEMMA ExitOrder ==
  ASSUME IInv, OrderInv, NEW w \in Workers, Exit(w)
  PROVE  OrderInv'
<1>1. worker[w].pc = "top" /\ Answer(TailOf(w), "Unavailable")
  BY DEF Exit
<1>2. \A r \in Range(TailOf(w)) : InUse(r) /\ status[r] = "none" /\ r \in Requests
  BY <1>1, TailUnanswered
<1>3. TailOf(w) \in Seq(Requests)
  BY PipeFacts DEF IInv, TailOf
<1>4. Ordered(TailOf(w))
  BY HandOrdered, EmptyOrdered DEF TailOf
<1>5. QED
  BY <1>1, <1>2, <1>3, <1>4, OneAnswerCall

LEMMA JoinOrder ==
  ASSUME IInv, OrderInv, Join
  PROVE  OrderInv'
<1>1. CASE Static
  BY <1>1 DEF Join, OrderInv, InTurn
<1>2. CASE ~Static
  <2>1. PICK Q : Q = {line[k] : k \in Keys}
    OBVIOUS
  <2>2. Answered(Waiting, "Unavailable") /\ answers' = answers \union UNION {Behind(q) : q \in Q}
    BY <1>2, <2>1 DEF Join, Answered
  <2>3. Waiting = UNION {Range(q) : q \in Q}
    BY <2>1 DEF Waiting
  <2>4. \A q \in Q : q \in Seq(Requests) /\ Ordered(q)
    BY <2>1, LineFacts DEF IInv, PlaceInv, InOrder
  <2>5. ASSUME NEW q \in Q, NEW a \in Waiting, NEW b \in Range(q), KeyOf[a] = KeyOf[b]
        PROVE  a \in Range(q)
    <3>1. \A k \in Keys : \A r \in Range(line[k]) : KeyOf[r] = k
      BY <1>2 DEF IInv, PlaceInv, Home
    <3>2. PICK k \in Keys : q = line[k]
      BY <2>1
    <3>3. PICK l \in Keys : a \in Range(line[l])
      BY DEF Waiting
    <3>4. KeyOf[b] = k /\ KeyOf[a] = l
      BY <3>1, <3>2, <3>3
    <3>5. QED
      BY <2>5, <3>2, <3>3, <3>4
  <2>6. AnswersAll(Q, Waiting, "Unavailable")
    BY <2>2, <2>3, <2>4, <2>5, WaitingUnanswered DEF AnswersAll
  <2>7. QED
    BY <2>6, AnswersKeepOrder
<1>3. QED
  BY <1>1, <1>2

LEMMA OrderStep ==
  ASSUME IInv, OrderInv, [Next]_vars
  PROVE  OrderInv'
<1>1. CASE UNCHANGED <<status, answers>>
  BY <1>1 DEF OrderInv, InTurn
<1>2. ASSUME NEW w \in Workers, TurnDown(w) \/ Execute(w) \/ Reopen(w) PROVE OrderInv'
  <2>1. worker[w].pc \in Single
    BY <1>2 DEF TurnDown, Execute, Reopen, Single
  <2>2. <<InHand(w)>> = worker[w].hand
    BY <2>1, HandFacts
  <2>3. UNCHANGED <<status, answers>> \/ \E st : st # "none" /\ Answer(<<InHand(w)>>, st)
    BY <1>2 DEF TurnDown, Execute, Reopen
  <2>4. QED
    BY <1>1, <2>1, <2>2, <2>3, HandAnswered
<1>3. ASSUME NEW w \in Workers, BeginBatch(w) \/ InsertBatch(w) \/ CommitBatch(w) PROVE OrderInv'
  <2>1. worker[w].pc \in Batched
    BY <1>3 DEF BeginBatch, InsertBatch, CommitBatch, Batched
  <2>2. UNCHANGED <<status, answers>> \/ \E st : st # "none" /\ Answer(worker[w].hand, st)
    BY <1>3 DEF BeginBatch, InsertBatch, CommitBatch, FailBatch
  <2>3. QED
    BY <1>1, <2>1, <2>2, HandAnswered
<1>4. ASSUME NEW w \in Workers, Worker(w) PROVE OrderInv'
  <2>1. CASE Top(w) \/ Take(w) \/ Collect(w) \/ Flush(w) \/ Pick(w) \/ LoopEnd(w) \/ Release(w)
    BY <1>1, <2>1 DEF Top, Take, Collect, Flush, Pick, LoopEnd, Release, sink
  <2>2. QED
    BY <1>2, <1>3, <1>4, <2>1, ExitOrder DEF Worker
<1>5. CASE \/ \E k \in Keys : SubmitCheck(k) \/ SubmitPush(k)
           \/ \E r \in Requests : MissDeadline(r)
           \/ \E w \in Workers : Drop(w)
           \/ RunsOn \/ Drain \/ Stop \/ UNCHANGED vars
  BY <1>1, <1>5 DEF SubmitCheck, SubmitPush, MissDeadline, Drop, RunsOn, Drain, Stop, vars, sink
<1>6. QED
  BY <1>4, <1>5, JoinOrder DEF Next, Stopped

(* db_worker_pool.h:26-27: of two requests of a session that are answered  *)
(* the sink got the one submitted first first, each once, and none that    *)
(* was taken on is overtaken, across batches, retries, rejects at stop and *)
(* changing workers.                                                       *)
THEOREM AnswersInOrder == Spec => []AnsweredInOrder
<1>1. Init => OrderInv
  BY DEF Init, OrderInv, InTurn
<1>2. Spec => []OrderInv
  BY <1>1, OrderStep, IInvHolds, PTL DEF Spec
<1>3. ASSUME OrderInv, NEW k \in Keys, NEW i \in DOMAIN Script[k], NEW j \in DOMAIN Script[k]
      PROVE  <<Script[k][i], Script[k][j]>> \in answers <=>
               i < j /\ status[Script[k][i]] # "none" /\ status[Script[k][j]] # "none"
  <2>1. DOMAIN Script[k] = 1..Len(Script[k])
    BY PoolAssumption, LenProperties
  <2>2. /\ KeyOf[Script[k][i]] = k /\ Index(Script[k][i]) = i /\ Script[k][i] \in Requests
        /\ KeyOf[Script[k][j]] = k /\ Index(Script[k][j]) = j /\ Script[k][j] \in Requests
    BY <2>1, ScriptFacts
  <2>3. QED
    BY <1>3, <2>2 DEF OrderInv, InTurn
<1>4. OrderInv /\ NoneOvertaken => AnsweredInOrder
  BY <1>3 DEF AnsweredInOrder
<1>5. QED
  BY <1>2, <1>4, NothingOvertaken, PTL
=============================================================================
