-------------------------- MODULE WorkerPoolProofs --------------------------
(***************************************************************************)
(* Proofs about WorkerPool, for any sessions, scripts, workers and limits, *)
(* under both kinds of dispatch: where every request is from submit to its *)
(* answer, that none is lost by drain or stop, and in which order they are *)
(* answered.                                                               *)
(***************************************************************************)
EXTENDS WorkerPool, SequenceTheorems, FiniteSetTheorems, TLAPS

Looking == {"loop", "last"}
Single == {"handle", "reopen", "retry"}
Batched == {"begin", "insert", "commit"}
Places == Looking \union Single \union Batched \union {"top", "release", "gone"}
WorkerStates ==
  [pc : Places, batch : Seq(Requests), saves : Seq(Requests), hand : Seq(Requests),
   done : Nat, usable : BOOLEAN]

(* The place of a request in the script of its session.                    *)
Index(r) == CHOOSE i \in DOMAIN Script[KeyOf[r]] : Script[KeyOf[r]][i] = r
Before(a, b) == KeyOf[a] = KeyOf[b] => Index(a) < Index(b)
Ordered(q) == \A i, j \in DOMAIN q : i < j => Before(q[i], q[j])

(* What goes through a worker: what it has in hand, collected, swapped out *)
(* and, under static dispatch, in its queue. Most of a worker's steps only *)
(* move a request along.                                                   *)
Rest(w) == worker[w].saves \o (worker[w].batch \o line[w])
Pipe(w) == worker[w].hand \o Rest(w)
InPipe(w) == Range(Pipe(w))
InUse(r) == (\E w \in Workers : r \in InPipe(w)) \/ \E k \in Keys : r \in Range(line[k])

QueueType ==
  /\ dispatch \in {"Static", "Dynamic"}
  /\ running \in BOOLEAN /\ draining \in BOOLEAN /\ joined \in BOOLEAN
  /\ pos \in [Keys -> Nat \ {0}]
  /\ checked \subseteq Keys /\ \A k \in checked : pos[k] <= Len(Script[k])
  /\ line \in [Workers \union Keys -> Seq(Requests)]
  /\ serving \subseteq Keys
  /\ worker \in [Workers -> WorkerStates]
  /\ expired \subseteq Requests /\ accepted \subseteq Requests
  /\ status \in [Requests -> Statuses]

(* What a worker has in its vectors, by its place in run.                  *)
Shape(s) ==
  /\ s.pc \in {"top", "gone"} => s.hand = <<>> /\ s.saves = <<>> /\ s.batch = <<>>
  /\ s.pc \in Looking => s.hand = <<>>
  /\ s.pc \in Single \union Batched \union {"release"} => s.hand # <<>>
  /\ s.pc \in Single => Len(s.hand) = 1
  /\ Len(s.saves) <= BatchSize
Shapes ==
  \A w \in Workers :
    /\ Shape(worker[w])
    /\ worker[w].pc = "last" => ~Static /\ ~running
    /\ worker[w].pc = "gone" => ~running

(* The requests of a session go through worker or queue in their order.    *)
InOrder ==
  /\ \A w \in Workers : Ordered(Pipe(w))
  /\ \A k \in Keys : Ordered(line[k])

(* Under static dispatch a session has its worker, under dynamic dispatch  *)
(* its line, and at most one of its requests is with a worker.             *)
Home ==
  /\ Static => /\ \A w \in Workers : \A r \in InPipe(w) : Shard[KeyOf[r]] = w
               /\ \A k \in Keys : line[k] = <<>>
  /\ ~Static => /\ \A k \in Keys : \A r \in Range(line[k]) : KeyOf[r] = k
                /\ \A w \in Workers : line[w] = <<>>
Exclusive ==
  ~Static =>
    \A w \in Workers : \A r \in InPipe(w) :
      /\ KeyOf[r] \in serving
      /\ \A v \in Workers : \A s \in InPipe(v) : KeyOf[r] = KeyOf[s] => r = s /\ v = w
      /\ \A s \in Range(line[KeyOf[r]]) : Index(r) < Index(s)

(* What was pushed is behind the lane's position in its script.            *)
Pushed ==
  \A r \in Requests :
    InUse(r) \/ r \in accepted \/ status[r] # "none" => Index(r) < pos[KeyOf[r]]

(* What waits is not answered; what is about to be released is.            *)
Unanswered ==
  /\ \A w \in Workers :
       IF worker[w].pc = "release"
       THEN /\ \A r \in Range(worker[w].hand) : status[r] # "none"
            /\ \A r \in Range(Rest(w)) : status[r] = "none"
       ELSE \A r \in InPipe(w) : status[r] = "none"
  /\ \A k \in Keys : \A r \in Range(line[k]) : status[r] = "none"

(* Nothing answered overtakes what still waits.                            *)
NoOvertaking ==
  \A r, s \in Requests :
    InUse(r) /\ status[r] = "none" /\ status[s] # "none" => Before(s, r)

(* What was taken on and is not answered is somewhere, and not with a      *)
(* worker that is gone.                                                    *)
Kept ==
  /\ \A r \in accepted : status[r] = "none" => InUse(r)
  /\ \A w \in Workers : worker[w].pc = "gone" => InPipe(w) \intersect accepted = {}
  /\ joined => /\ ~running /\ \A w \in Workers : worker[w].pc = "gone"
               /\ \A k \in Keys : Range(line[k]) \intersect accepted = {}

PlaceInv == InOrder /\ Home /\ Exclusive /\ Pushed /\ Unanswered /\ NoOvertaking /\ Kept
IInv == QueueType /\ Shapes /\ PlaceInv

(* Worker::depth and the dispatcher's depth_ count what is not released.   *)
UsedAt(l) == {r \in Requests : InUse(r) /\ DepthOf(r) = l}
DepthExact == \A l \in Workers \union {Shared} : depth[l] = Cardinality(UsedAt(l))
CheckedAt(w) == {k \in checked : Shard[k] = w}
Room ==
  /\ Static => \A w \in Workers :
       depth[w] + Cardinality(CheckedAt(w)) <= Cap + Cardinality(Keys) - 1
  /\ depth[Shared] <= Cap * Cardinality(Workers)
DepthInv == depth \in [Workers \union {Shared} -> Nat] /\ DepthExact /\ Room

-----------------------------------------------------------------------------
(* Scripts: a request has one session and one place in its script.         *)
LEMMA ScriptFacts ==
  /\ \A r \in Requests : /\ KeyOf[r] \in Keys /\ Index(r) \in 1..Len(Script[KeyOf[r]])
                         /\ Script[KeyOf[r]][Index(r)] = r /\ Index(r) \in Nat \ {0}
  /\ \A k \in Keys : \A i \in 1..Len(Script[k]) :
       /\ Script[k][i] \in Requests /\ KeyOf[Script[k][i]] = k /\ Index(Script[k][i]) = i
<1>1. \A k \in Keys : /\ Script[k] \in Seq(Requests) /\ DOMAIN Script[k] = 1..Len(Script[k])
                      /\ Len(Script[k]) \in Nat /\ \A i \in 1..Len(Script[k]) : Script[k][i] \in Requests
  BY PoolAssumption, LenProperties, ElementOfSeq
<1>2. ASSUME NEW r \in Requests
      PROVE  /\ KeyOf[r] \in Keys /\ r \in Range(Script[KeyOf[r]])
  <2>1. \E k \in Keys : r \in Range(Script[k])
    BY DEF Requests
  <2>2. KeyOf[r] = CHOOSE k \in Keys : r \in Range(Script[k])
    BY DEF KeyOf
  <2>3. QED
    BY <2>1, <2>2
<1>3. ASSUME NEW r \in Requests
      PROVE  Index(r) \in DOMAIN Script[KeyOf[r]] /\ Script[KeyOf[r]][Index(r)] = r
  <2>1. \E i \in DOMAIN Script[KeyOf[r]] : Script[KeyOf[r]][i] = r
    BY <1>2 DEF Range
  <2>2. QED
    BY <2>1 DEF Index
<1>4. ASSUME NEW k \in Keys, NEW i \in 1..Len(Script[k])
      PROVE  KeyOf[Script[k][i]] = k /\ Index(Script[k][i]) = i
  <2>1. PICK r \in Requests : r = Script[k][i]
    BY <1>1
  <2>2. KeyOf[r] \in Keys /\ Index(r) \in DOMAIN Script[KeyOf[r]] /\ Script[KeyOf[r]][Index(r)] = r
    BY <1>2, <1>3
  <2>3. KeyOf[r] = k /\ Index(r) = i
    BY <1>1, <2>1, <2>2, PoolAssumption
  <2>4. QED
    BY <2>1, <2>3
<1>5. \A r \in Requests : KeyOf[r] \in Keys /\ Index(r) \in 1..Len(Script[KeyOf[r]])
  BY <1>1, <1>2, <1>3
<1>6. \A r \in Requests : Index(r) \in Nat \ {0}
  BY <1>1, <1>5
<1>7. QED
  BY <1>1, <1>3, <1>4, <1>5, <1>6

-----------------------------------------------------------------------------
(* Sequences.                                                              *)
LEMMA RangeEmpty == Range(<<>>) = {}
BY DEF Range

LEMMA RangeAppend ==
  ASSUME NEW S, NEW q \in Seq(S), NEW e \in S
  PROVE  Range(Append(q, e)) = Range(q) \union {e}
BY AppendProperties, LenProperties DEF Range

LEMMA FrontOfTail ==
  ASSUME NEW S, NEW q \in Seq(S), q # <<>>
  PROVE  /\ Head(q) \in S /\ Tail(q) \in Seq(S) /\ <<Head(q)>> \in Seq(S)
         /\ Len(q) \in Nat \ {0} /\ Head(q) = q[1] /\ Len(Tail(q)) = Len(q) - 1
         /\ <<Head(q)>> \o Tail(q) = q
<1>1. /\ Len(q) \in Nat \ {0} /\ Head(q) \in S /\ Head(q) = q[1] /\ Tail(q) \in Seq(S)
      /\ Len(Tail(q)) = Len(q) - 1 /\ \A i \in 1..Len(q) - 1 : Tail(q)[i] = q[i + 1]
  BY HeadTailProperties, EmptySeq
<1>2. <<Head(q)>> \in Seq(S) /\ Len(<<Head(q)>>) = 1 /\ <<Head(q)>>[1] = Head(q)
  BY <1>1
<1>3. /\ <<Head(q)>> \o Tail(q) \in Seq(S) /\ Len(<<Head(q)>> \o Tail(q)) = Len(q)
      /\ \A i \in 1..Len(q) : (<<Head(q)>> \o Tail(q))[i] = IF i <= 1 THEN Head(q) ELSE Tail(q)[i - 1]
  BY <1>1, <1>2, ConcatProperties
<1>4. \A i \in 1..Len(q) : (<<Head(q)>> \o Tail(q))[i] = q[i]
  BY <1>1, <1>3
<1>5. <<Head(q)>> \o Tail(q) = q
  BY <1>3, <1>4, SeqEqual
<1>6. QED
  BY <1>1, <1>2, <1>5

LEMMA RangeOne ==
  ASSUME NEW S, NEW q \in Seq(S)
  PROVE  /\ \A x : Range(<<x>>) = {x}
         /\ Len(q) = 1 => q = <<Head(q)>> /\ Head(q) \in S
         /\ q # <<>> => Range(q) = {Head(q)} \union Range(Tail(q))
<1>1. \A x : Range(<<x>>) = {x}
  BY DEF Range
<1>2. ASSUME Len(q) = 1 PROVE q = <<Head(q)>> /\ Head(q) \in S
  <2>1. q # <<>>
    BY <1>2, EmptySeq
  <2>2. Head(q) \in S /\ Head(q) = q[1] /\ <<Head(q)>> \in Seq(S)
    BY <2>1, FrontOfTail
  <2>3. Len(<<Head(q)>>) = 1 /\ <<Head(q)>>[1] = q[1]
    BY <2>2
  <2>4. QED
    BY <1>2, <2>2, <2>3, SeqEqual
<1>3. ASSUME q # <<>> PROVE Range(q) = {Head(q)} \union Range(Tail(q))
  <2>1. <<Head(q)>> \in Seq(S) /\ Tail(q) \in Seq(S) /\ <<Head(q)>> \o Tail(q) = q
    BY <1>3, FrontOfTail
  <2>2. Range(<<Head(q)>> \o Tail(q)) = Range(<<Head(q)>>) \union Range(Tail(q))
    BY <2>1, RangeConcatenation, ZenonT(60)
  <2>3. QED
    BY <1>1, <2>1, <2>2
<1>4. QED
  BY <1>1, <1>2, <1>3

(* The name keeps the provers from expanding it where it is only matched.  *)
Associates(a, b, c) == (a \o b) \o c = a \o (b \o c)

LEMMA Regroup ==
  ASSUME NEW a \in Seq(Requests), NEW b \in Seq(Requests), NEW c \in Seq(Requests)
  PROVE  Associates(a, b, c)
BY ConcatAssociative DEF Associates

LEMMA AppendBehind ==
  ASSUME NEW p \in Seq(Requests), NEW q \in Seq(Requests), NEW e \in Requests
  PROVE  p \o Append(q, e) = Append(p \o q, e)
<1>1. <<e>> \in Seq(Requests) /\ p \o q \in Seq(Requests)
  BY ConcatProperties
<1>2. PICK t \in Seq(Requests) : t = <<e>>
  BY <1>1
<1>3. Associates(p, q, t)
  BY <1>2, Regroup
<1>4. Append(q, e) = q \o <<e>> /\ Append(p \o q, e) = (p \o q) \o <<e>>
  BY <1>1, AppendIsConcat
<1>5. QED
  BY <1>2, <1>3, <1>4, Zenon DEF Associates

(* The head of b goes from b to the end of a.                              *)
LEMMA MoveOne ==
  ASSUME NEW a \in Seq(Requests), NEW b \in Seq(Requests), NEW l \in Seq(Requests), b # <<>>
  PROVE  a \o (b \o l) = Append(a, Head(b)) \o (Tail(b) \o l)
<1>1. /\ Head(b) \in Requests /\ Tail(b) \in Seq(Requests) /\ <<Head(b)>> \in Seq(Requests)
      /\ <<Head(b)>> \o Tail(b) = b
  BY FrontOfTail
<1>2. Tail(b) \o l \in Seq(Requests)
  BY <1>1, ConcatProperties
<1>3. PICK h : h = <<Head(b)>>
  OBVIOUS
<1>4. PICK t : t = Tail(b)
  OBVIOUS
<1>5. h \in Seq(Requests) /\ t \in Seq(Requests) /\ t \o l \in Seq(Requests)
  BY <1>1, <1>2, <1>3, <1>4, Zenon
<1>6. Associates(h, t, l) /\ Associates(a, h, t \o l)
  BY <1>5, Regroup
<1>7. Append(a, Head(b)) = a \o h
  BY <1>1, <1>3, AppendIsConcat
<1>8. h \o t = b
  BY <1>1, <1>3, <1>4, Zenon
<1>9. QED
  BY <1>4, <1>6, <1>7, <1>8, Zenon DEF Associates

(* Order in what is put together, extended and shortened.                  *)
LEMMA ConcatOrdered ==
  ASSUME NEW p \in Seq(Requests), NEW q \in Seq(Requests), Ordered(p \o q)
  PROVE  /\ Ordered(p) /\ Ordered(q)
         /\ \A x \in Range(p), y \in Range(q) : Before(x, y)
<1>1. /\ Len(p) \in Nat /\ Len(q) \in Nat /\ DOMAIN p = 1..Len(p) /\ DOMAIN q = 1..Len(q)
      /\ DOMAIN (p \o q) = 1..Len(p) + Len(q)
      /\ \A i \in 1..Len(p) + Len(q) : (p \o q)[i] = IF i <= Len(p) THEN p[i] ELSE q[i - Len(p)]
  BY ConcatProperties, LenProperties
<1>2. \A i \in 1..Len(p) : i \in 1..Len(p) + Len(q) /\ (p \o q)[i] = p[i]
  BY <1>1
<1>3. \A j \in 1..Len(q) : j + Len(p) \in 1..Len(p) + Len(q) /\ (p \o q)[j + Len(p)] = q[j]
  BY <1>1
<1>4. Ordered(p)
  BY <1>1, <1>2 DEF Ordered
<1>5. Ordered(q)
  <2>1. SUFFICES ASSUME NEW i \in 1..Len(q), NEW j \in 1..Len(q), i < j PROVE Before(q[i], q[j])
    BY <1>1 DEF Ordered
  <2>2. i + Len(p) < j + Len(p)
    BY <1>1, <2>1
  <2>3. QED
    BY <1>1, <1>3, <2>2 DEF Ordered
<1>6. ASSUME NEW x \in Range(p), NEW y \in Range(q) PROVE Before(x, y)
  <2>1. PICK i \in 1..Len(p) : p[i] = x
    BY <1>1 DEF Range
  <2>2. PICK j \in 1..Len(q) : q[j] = y
    BY <1>1 DEF Range
  <2>3. i < j + Len(p)
    BY <1>1
  <2>4. QED
    BY <1>1, <1>2, <1>3, <2>1, <2>2, <2>3 DEF Ordered
<1>7. QED
  BY <1>4, <1>5, <1>6

LEMMA AppendOrdered ==
  ASSUME NEW q \in Seq(Requests), NEW r \in Requests, Ordered(q), \A x \in Range(q) : Before(x, r)
  PROVE  Ordered(Append(q, r))
<1>1. /\ Len(q) \in Nat /\ DOMAIN q = 1..Len(q) /\ DOMAIN Append(q, r) = 1..Len(q) + 1
      /\ \A i \in 1..Len(q) : Append(q, r)[i] = q[i] /\ q[i] \in Range(q)
      /\ Append(q, r)[Len(q) + 1] = r
  BY AppendProperties, LenProperties DEF Range
<1>2. SUFFICES ASSUME NEW i \in 1..Len(q) + 1, NEW j \in 1..Len(q) + 1, i < j
               PROVE  Before(Append(q, r)[i], Append(q, r)[j])
  BY <1>1 DEF Ordered
<1>3. i \in 1..Len(q)
  BY <1>1, <1>2
<1>4. CASE j \in 1..Len(q)
  BY <1>1, <1>2, <1>3, <1>4 DEF Ordered
<1>5. CASE j = Len(q) + 1
  BY <1>1, <1>3, <1>5
<1>6. QED
  BY <1>1, <1>4, <1>5

LEMMA TailOrdered ==
  ASSUME NEW q \in Seq(Requests), q # <<>>, Ordered(q)
  PROVE  Ordered(Tail(q)) /\ \A y \in Range(Tail(q)) : Before(Head(q), y)
<1>1. <<Head(q)>> \in Seq(Requests) /\ Tail(q) \in Seq(Requests) /\ <<Head(q)>> \o Tail(q) = q
  BY FrontOfTail
<1>2. Head(q) \in Range(<<Head(q)>>)
  BY <1>1, RangeOne
<1>3. QED
  BY <1>1, <1>2, ConcatOrdered

LEMMA EmptyOrdered == Ordered(<<>>)
BY DEF Ordered

(* An ordered sequence has no request twice.                               *)
LEMMA OrderedCount ==
  ASSUME NEW q \in Seq(Requests), Ordered(q)
  PROVE  IsFiniteSet(Range(q)) /\ Cardinality(Range(q)) = Len(q)
<1>1. Len(q) \in Nat /\ DOMAIN q = 1..Len(q) /\ q \in [1..Len(q) -> Requests]
  BY LenProperties
<1>2. ASSUME NEW i \in 1..Len(q), NEW j \in 1..Len(q), i < j PROVE q[i] # q[j]
  <2>1. Before(q[i], q[j]) /\ q[i] \in Requests
    BY <1>1, <1>2 DEF Ordered
  <2>2. Index(q[i]) \in Nat
    BY <2>1, ScriptFacts
  <2>3. QED
    BY <2>1, <2>2 DEF Before
<1>3. \A i, j \in 1..Len(q) : q[i] = q[j] => i = j
  <2>1. \A i, j \in 1..Len(q) : i < j \/ j < i \/ i = j
    BY <1>1
  <2>2. QED
    BY <1>2, <2>1
<1>4. q \in Bijection(1..Len(q), Range(q))
  BY <1>1, <1>3 DEF Range, Bijection, Injection, Surjection, IsInjective
<1>5. ExistsBijection(1..Len(q), Range(q))
  BY <1>4 DEF ExistsBijection
<1>6. IsFiniteSet(1..Len(q))
  BY <1>1, FS_Interval
<1>7. QED
  BY <1>1, <1>5, <1>6, FS_CountingElements, FS_Bijection

-----------------------------------------------------------------------------
(* The pipe of a worker.                                                   *)
LEMMA PipeFacts ==
  ASSUME QueueType, NEW w \in Workers
  PROVE  /\ worker[w] \in WorkerStates /\ line[w] \in Seq(Requests)
         /\ worker[w].hand \in Seq(Requests) /\ worker[w].saves \in Seq(Requests)
         /\ worker[w].batch \in Seq(Requests)
         /\ Rest(w) \in Seq(Requests) /\ Pipe(w) \in Seq(Requests)
         /\ InPipe(w) = Range(worker[w].hand) \union Range(Rest(w))
         /\ InPipe(w) \subseteq Requests
<1>1. /\ worker[w] \in WorkerStates /\ line[w] \in Seq(Requests)
      /\ worker[w].hand \in Seq(Requests) /\ worker[w].saves \in Seq(Requests)
      /\ worker[w].batch \in Seq(Requests)
  BY DEF QueueType, WorkerStates
<1>2. worker[w].batch \o line[w] \in Seq(Requests)
  BY <1>1, ConcatProperties
<1>3. Rest(w) \in Seq(Requests)
  BY <1>1, <1>2, ConcatProperties DEF Rest
<1>4. Pipe(w) \in Seq(Requests)
  BY <1>1, <1>3, ConcatProperties DEF Pipe
<1>5. InPipe(w) = Range(worker[w].hand) \union Range(Rest(w))
  BY <1>1, <1>3, RangeConcatenation DEF Pipe, InPipe
<1>6. InPipe(w) \subseteq Requests
  BY <1>4, RangeOfSeq DEF InPipe
<1>7. QED
  BY <1>1, <1>3, <1>4, <1>5, <1>6

LEMMA LineFacts ==
  ASSUME QueueType, NEW k \in Keys
  PROVE  line[k] \in Seq(Requests) /\ Range(line[k]) \subseteq Requests
<1>1. line[k] \in Seq(Requests)
  BY DEF QueueType
<1>2. QED
  BY <1>1, RangeOfSeq

LEMMA SamePipe ==
  ASSUME NEW v, worker'[v] = worker[v], line'[v] = line[v]
  PROVE  Pipe(v)' = Pipe(v) /\ Rest(v)' = Rest(v) /\ InPipe(v)' = InPipe(v)
BY DEF Pipe, Rest, InPipe

(* Under either dispatch the requests of one session are with one worker,  *)
(* and what waits behind them was submitted later.                         *)
LEMMA OneWorker ==
  ASSUME QueueType, Home, Exclusive, NEW v \in Workers, NEW w \in Workers,
         NEW r \in InPipe(v), NEW s \in InPipe(w), KeyOf[r] = KeyOf[s]
  PROVE  v = w
BY DEF Home, Exclusive

LEMMA BehindPipe ==
  ASSUME QueueType, Home, Exclusive, NEW w \in Workers, NEW k \in Keys,
         NEW r \in InPipe(w), NEW s \in Range(line[k])
  PROVE  Before(r, s)
<1>1. ~Static
  BY RangeEmpty DEF Home
<1>2. KeyOf[s] = k
  BY <1>1 DEF Home
<1>3. CASE KeyOf[r] = k
  BY <1>1, <1>2, <1>3 DEF Exclusive, Before
<1>4. CASE KeyOf[r] # k
  BY <1>2, <1>4 DEF Before
<1>5. QED
  BY <1>3, <1>4

-----------------------------------------------------------------------------
(* A step that moves requests along within a worker.                       *)
Frame ==
  /\ UNCHANGED <<dispatch, joined, serving, accepted>>
  /\ \A k \in Keys : line'[k] = line[k]
  /\ \A k \in Keys : pos[k] <= pos'[k]
  /\ pos' \in [Keys -> Nat \ {0}]

QuietStep ==
  /\ Frame /\ UNCHANGED status
  /\ running' => running
  /\ \A v \in Workers :
       \/ worker'[v] = worker[v] /\ line'[v] = line[v]
       \/ /\ Pipe(v)' = Pipe(v) /\ (Static \/ line'[v] = line[v])
          /\ worker[v].pc \notin {"release", "gone"} /\ worker'[v].pc \notin {"release", "gone"}

LEMMA FramePushed ==
  ASSUME QueueType, Pushed, pos' \in [Keys -> Nat \ {0}], \A k \in Keys : pos[k] <= pos'[k],
         NEW r \in Requests, InUse(r) \/ r \in accepted \/ status[r] # "none"
  PROVE  Index(r) < pos'[KeyOf[r]]
<1>1. KeyOf[r] \in Keys /\ Index(r) \in Nat
  BY ScriptFacts
<1>2. Index(r) < pos[KeyOf[r]]
  BY DEF Pushed
<1>3. pos[KeyOf[r]] \in Nat /\ pos'[KeyOf[r]] \in Nat /\ pos[KeyOf[r]] <= pos'[KeyOf[r]]
  BY <1>1 DEF QueueType
<1>4. QED
  BY <1>1, <1>2, <1>3

LEMMA QuietKeeps ==
  ASSUME QueueType, PlaceInv, QuietStep
  PROVE  PlaceInv' /\ \A r : InUse(r)' <=> InUse(r)
<1>1. /\ UNCHANGED <<dispatch, joined, serving, accepted, status>> /\ Static' = Static
      /\ \A k \in Keys : line'[k] = line[k]
  BY DEF QuietStep, Frame, Static
<1>2. \A v \in Workers : /\ Pipe(v)' = Pipe(v) /\ InPipe(v)' = InPipe(v)
                         /\ Static \/ line'[v] = line[v]
  BY SamePipe DEF QuietStep, InPipe
<1>3. \A r : InUse(r)' <=> InUse(r)
  BY <1>1, <1>2 DEF InUse
<1>4. InOrder'
  BY <1>1, <1>2 DEF PlaceInv, InOrder
<1>5. Home'
  BY <1>1, <1>2 DEF PlaceInv, Home
<1>6. Exclusive'
  <2>1. ASSUME ~Static, NEW w \in Workers, NEW r \in InPipe(w)
        PROVE  KeyOf[r] \in Keys
    BY <2>1, PipeFacts, ScriptFacts
  <2>2. QED
    BY <1>1, <1>2, <2>1 DEF PlaceInv, Exclusive
<1>7. Pushed'
  <2>1. pos' \in [Keys -> Nat \ {0}] /\ \A k \in Keys : pos[k] <= pos'[k]
    BY DEF QuietStep, Frame
  <2>2. QED
    BY <1>1, <1>3, <2>1, FramePushed DEF PlaceInv, Pushed
<1>8. Unanswered'
  <2>1. ASSUME NEW v \in Workers, worker'[v] = worker[v] /\ line'[v] = line[v]
        PROVE  Unanswered => IF worker'[v].pc = "release"
               THEN /\ \A r \in Range(worker'[v].hand) : status'[r] # "none"
                    /\ \A r \in Range(Rest(v)') : status'[r] = "none"
               ELSE \A r \in InPipe(v)' : status'[r] = "none"
    BY <1>1, <2>1, SamePipe DEF Unanswered
  <2>2. ASSUME NEW v \in Workers, worker[v].pc \notin {"release", "gone"} /\ worker'[v].pc \notin {"release", "gone"}
        PROVE  Unanswered => IF worker'[v].pc = "release"
               THEN /\ \A r \in Range(worker'[v].hand) : status'[r] # "none"
                    /\ \A r \in Range(Rest(v)') : status'[r] = "none"
               ELSE \A r \in InPipe(v)' : status'[r] = "none"
    BY <1>1, <1>2, <2>2 DEF Unanswered
  <2>3. Unanswered /\ \A k \in Keys : \A r \in Range(line'[k]) : status'[r] = "none"
    BY <1>1 DEF PlaceInv, Unanswered
  <2>4. QED
    BY <2>1, <2>2, <2>3 DEF QuietStep, Unanswered
<1>9. NoOvertaking'
  BY <1>1, <1>3 DEF PlaceInv, NoOvertaking
<1>10. Kept'
  <2>1. \A v \in Workers : worker'[v].pc = "gone" <=> worker[v].pc = "gone"
    BY DEF QuietStep
  <2>2. running' => running
    BY DEF QuietStep
  <2>3. QED
    BY <1>1, <1>2, <1>3, <2>1, <2>2 DEF PlaceInv, Kept
<1>12. QED
  BY <1>4, <1>5, <1>6, <1>7, <1>8, <1>9, <1>10, <1>3 DEF PlaceInv

(* A step that answers what a worker has in hand.                          *)
AnswerStep(w) ==
  /\ Frame /\ UNCHANGED <<running, line, pos>>
  /\ \A v \in Workers : v # w => worker'[v] = worker[v]
  /\ worker[w].pc \in Single \union Batched /\ worker'[w].pc = "release"
  /\ worker'[w].hand = worker[w].hand /\ worker'[w].saves = worker[w].saves
  /\ worker'[w].batch = worker[w].batch
  /\ \E st \in Statuses \ {"none"} :
       status' = [r \in Requests |-> IF r \in Range(worker[w].hand) THEN st ELSE status[r]]

LEMMA AnswerKeeps ==
  ASSUME QueueType, PlaceInv, NEW w \in Workers, AnswerStep(w)
  PROVE  PlaceInv' /\ \A r : InUse(r)' <=> InUse(r)
<1>1. /\ UNCHANGED <<dispatch, joined, running, serving, accepted, line, pos>> /\ Static' = Static
  BY DEF AnswerStep, Frame, Static
<1>2. \A v \in Workers : /\ Pipe(v)' = Pipe(v) /\ InPipe(v)' = InPipe(v) /\ Rest(v)' = Rest(v)
                         /\ worker'[v].hand = worker[v].hand
  BY <1>1 DEF AnswerStep, Pipe, Rest, InPipe
<1>3. \A r : InUse(r)' <=> InUse(r)
  BY <1>1, <1>2 DEF InUse
<1>4. /\ \A r \in Requests : IF r \in Range(worker[w].hand) THEN status'[r] # "none"
                             ELSE status'[r] = status[r]
      /\ worker[w].pc # "release" /\ worker[w].pc # "gone" /\ worker'[w].pc = "release"
  BY DEF AnswerStep, Single, Batched
<1>5. InOrder' /\ Home' /\ Exclusive'
  BY <1>1, <1>2 DEF PlaceInv, InOrder, Home, Exclusive
<1>6. /\ Range(worker[w].hand) \subseteq InPipe(w) /\ Range(Rest(w)) \subseteq InPipe(w)
      /\ \A v \in Workers : InPipe(v) \subseteq Requests
      /\ \A k \in Keys : Range(line[k]) \subseteq Requests
      /\ \A r \in InPipe(w) : r \in Range(worker[w].hand) \/ r \in Range(Rest(w))
  BY PipeFacts, LineFacts
<1>7. \A x \in Range(worker[w].hand), y \in Range(Rest(w)) : Before(x, y)
  <2>1. Ordered(worker[w].hand \o Rest(w))
    BY DEF PlaceInv, InOrder, Pipe
  <2>2. QED
    BY <2>1, PipeFacts, ConcatOrdered
<1>8. \A x, y \in Requests : Before(x, y) => x # y
  BY ScriptFacts DEF Before
<1>9. \A r \in Range(Rest(w)) : r \notin Range(worker[w].hand)
  BY <1>6, <1>7, <1>8
<1>10. \A v \in Workers : v # w => \A r \in InPipe(v) : r \notin Range(worker[w].hand)
  BY <1>6, OneWorker DEF PlaceInv
<1>11. \A k \in Keys : \A r \in Range(line[k]) : r \notin Range(worker[w].hand)
  BY <1>6, <1>8, BehindPipe DEF PlaceInv
<1>12. Pushed'
  <2>1. \A r \in Range(worker[w].hand) : InUse(r)
    BY <1>6 DEF InUse
  <2>2. QED
    BY <1>1, <1>3, <1>4, <2>1 DEF PlaceInv, Pushed
<1>13. Unanswered'
  <2>1. \A k \in Keys : \A r \in Range(line'[k]) : status'[r] = "none"
    BY <1>1, <1>4, <1>6, <1>11 DEF PlaceInv, Unanswered
  <2>2. \A r \in Range(worker'[w].hand) : status'[r] # "none"
    BY <1>2, <1>4, <1>6
  <2>3. \A r \in Range(Rest(w)') : status'[r] = "none"
    BY <1>2, <1>4, <1>6, <1>9 DEF PlaceInv, Unanswered
  <2>4. ASSUME NEW v \in Workers, v # w
        PROVE  IF worker'[v].pc = "release"
               THEN /\ \A r \in Range(worker'[v].hand) : status'[r] # "none"
                    /\ \A r \in Range(Rest(v)') : status'[r] = "none"
               ELSE \A r \in InPipe(v)' : status'[r] = "none"
    <3>1. /\ Range(worker[v].hand) \subseteq InPipe(v) /\ Range(Rest(v)) \subseteq InPipe(v)
      BY PipeFacts
    <3>2. \A r \in InPipe(v) : status'[r] = status[r]
      BY <1>4, <1>6, <1>10, <2>4
    <3>3. worker'[v] = worker[v]
      BY <2>4 DEF AnswerStep
    <3>4. QED
      BY <1>2, <3>1, <3>2, <3>3 DEF PlaceInv, Unanswered
  <2>5. QED
    BY <1>4, <2>1, <2>2, <2>3, <2>4 DEF Unanswered
<1>14. NoOvertaking'
  <2>1. SUFFICES ASSUME NEW r \in Requests, NEW s \in Requests, InUse(r), status'[r] = "none",
                        status'[s] # "none"
                 PROVE  Before(s, r)
    BY <1>3 DEF NoOvertaking
  <2>2. status[r] = "none" /\ r \notin Range(worker[w].hand)
    BY <1>4, <2>1
  <2>3. CASE status[s] # "none"
    BY <2>1, <2>2, <2>3 DEF PlaceInv, NoOvertaking
  <2>4. CASE s \in Range(worker[w].hand)
    <3>1. CASE \E v \in Workers : r \in InPipe(v)
      <4>1. PICK v \in Workers : r \in InPipe(v)
        BY <3>1
      <4>2. CASE v = w
        BY <1>6, <1>7, <2>2, <2>4, <4>1, <4>2
      <4>3. CASE v # w
        BY <1>6, <2>4, <4>1, <4>3, OneWorker DEF PlaceInv, Before
      <4>4. QED
        BY <4>2, <4>3
    <3>2. CASE \E k \in Keys : r \in Range(line[k])
      BY <1>6, <2>4, <3>2, BehindPipe DEF PlaceInv
    <3>3. QED
      BY <2>1, <3>1, <3>2 DEF InUse
  <2>5. QED
    BY <1>4, <2>1, <2>3, <2>4
<1>15. Kept'
  <2>1. \A v \in Workers : worker'[v].pc = "gone" <=> (worker[v].pc = "gone" /\ v # w)
    BY <1>4 DEF AnswerStep
  <2>2. \A r \in accepted : r \in Requests
    BY DEF QueueType
  <2>3. \A r \in accepted' : status'[r] = "none" => InUse(r)'
    BY <1>1, <1>3, <1>4, <2>2 DEF PlaceInv, Kept
  <2>4. joined => worker[w].pc = "gone"
    BY DEF PlaceInv, Kept
  <2>5. ~joined'
    BY <1>1, <1>4, <2>4
  <2>6. QED
    BY <1>1, <1>2, <2>1, <2>3, <2>5 DEF PlaceInv, Kept
<1>17. QED
  BY <1>5, <1>12, <1>13, <1>14, <1>15, <1>3 DEF PlaceInv

-----------------------------------------------------------------------------
(* release and shared_.finish: what was in hand is let go of.              *)
LEMMA ReleaseKeeps ==
  ASSUME QueueType, PlaceInv, NEW w \in Workers, Release(w)
  PROVE  PlaceInv' /\ \A r \in Requests : InUse(r)' <=> (InUse(r) /\ r \notin Range(worker[w].hand))
<1>1. /\ UNCHANGED <<dispatch, running, joined, line, pos, accepted, status>> /\ Static' = Static
      /\ serving' = serving \ {KeyOf[r] : r \in Range(worker[w].hand)}
  BY DEF Release, Static, flags, lanes, sink
<1>2. /\ \A v \in Workers : v # w => worker'[v] = worker[v]
      /\ worker[w].pc = "release" /\ worker'[w].pc \in {"loop", "last"}
      /\ worker'[w].hand = <<>> /\ worker'[w].saves = worker[w].saves
      /\ worker'[w].batch = worker[w].batch
  BY DEF Release, QueueType, WorkerStates, Resume
<1>3. /\ \A v \in Workers : Rest(v)' = Rest(v)
      /\ \A v \in Workers : v # w => Pipe(v)' = Pipe(v) /\ InPipe(v)' = InPipe(v)
  BY <1>1, <1>2 DEF Rest, Pipe, InPipe
<1>4. Pipe(w)' = Rest(w) /\ InPipe(w)' = Range(Rest(w))
  <2>1. Pipe(w)' = <<>> \o Rest(w)
    BY <1>2, <1>3 DEF Pipe
  <2>2. <<>> \o Rest(w) = Rest(w)
    BY PipeFacts, ConcatEmptySeq
  <2>3. QED
    BY <2>1, <2>2 DEF InPipe
<1>5. /\ \A v \in Workers : InPipe(v)' \subseteq InPipe(v) /\ InPipe(v) \subseteq Requests
      /\ InPipe(w) = Range(worker[w].hand) \union Range(Rest(w))
  BY <1>3, <1>4, PipeFacts
<1>6. /\ Ordered(Rest(w))
      /\ \A x \in Range(worker[w].hand), y \in Range(Rest(w)) : Before(x, y) /\ x # y
  <2>1. Ordered(worker[w].hand \o Rest(w))
    BY DEF PlaceInv, InOrder, Pipe
  <2>2. \A x, y \in Requests : Before(x, y) => x # y
    BY ScriptFacts DEF Before
  <2>3. QED
    BY <1>5, <2>1, <2>2, PipeFacts, ConcatOrdered
<1>7. \A r : InUse(r)' => InUse(r)
  BY <1>1, <1>5 DEF InUse
<1>8. InOrder'
  BY <1>1, <1>3, <1>4, <1>6 DEF PlaceInv, InOrder
<1>9. Home'
  BY <1>1, <1>5 DEF PlaceInv, Home
<1>10. Exclusive'
  <2>1. SUFFICES ASSUME ~Static, NEW v \in Workers, NEW r \in InPipe(v)'
                 PROVE  /\ KeyOf[r] \in serving'
                        /\ \A u \in Workers : \A s \in InPipe(u)' : KeyOf[r] = KeyOf[s] => r = s /\ u = v
                        /\ \A s \in Range(line'[KeyOf[r]]) : Index(r) < Index(s)
    BY <1>1 DEF Exclusive
  <2>2. /\ KeyOf[r] \in serving
        /\ \A u \in Workers : \A s \in InPipe(u) : KeyOf[r] = KeyOf[s] => r = s /\ u = v
        /\ \A s \in Range(line[KeyOf[r]]) : Index(r) < Index(s)
    BY <1>5, <2>1 DEF PlaceInv, Exclusive
  <2>3. ASSUME NEW s \in Range(worker[w].hand) PROVE KeyOf[s] # KeyOf[r]
    <3>1. SUFFICES ASSUME KeyOf[s] = KeyOf[r] PROVE FALSE
      OBVIOUS
    <3>2. r = s /\ v = w
      BY <1>5, <2>2, <3>1
    <3>3. QED
      BY <1>4, <1>6, <3>2
  <2>4. QED
    BY <1>1, <1>5, <2>2, <2>3
<1>11. Pushed'
  BY <1>1, <1>7 DEF PlaceInv, Pushed
<1>12. Unanswered'
  <2>1. \A r \in InPipe(w)' : status'[r] = "none"
    BY <1>1, <1>2, <1>4 DEF PlaceInv, Unanswered
  <2>2. QED
    BY <1>1, <1>2, <1>3, <2>1 DEF PlaceInv, Unanswered
<1>13. NoOvertaking'
  BY <1>1, <1>7 DEF PlaceInv, NoOvertaking
<1>14. Kept'
  <2>1. \A v \in Workers : worker'[v].pc = "gone" <=> (worker[v].pc = "gone" /\ v # w)
    BY <1>2
  <2>2. ~joined
    BY <1>2 DEF PlaceInv, Kept
  <2>3. ASSUME NEW r \in accepted, status[r] = "none" PROVE InUse(r)'
    <3>1. InUse(r) /\ r \notin Range(worker[w].hand)
      BY <1>2, <2>3 DEF PlaceInv, Kept, Unanswered
    <3>2. QED
      BY <1>1, <1>3, <1>4, <1>5, <3>1 DEF InUse
  <2>4. QED
    BY <1>1, <1>5, <2>1, <2>2, <2>3 DEF PlaceInv, Kept
<1>15. ASSUME NEW r \in Requests
      PROVE  InUse(r)' <=> (InUse(r) /\ r \notin Range(worker[w].hand))
  <2>1. r \in Range(worker[w].hand) => \A v \in Workers : r \in InPipe(v) => v = w
    BY <1>5, OneWorker DEF PlaceInv
  <2>2. r \in Range(worker[w].hand) => \A k \in Keys : r \notin Range(line[k])
    <3>1. ~Before(r, r)
      BY ScriptFacts DEF Before
    <3>2. QED
      BY <1>5, <3>1, BehindPipe DEF PlaceInv
  <2>3. QED
    BY <1>1, <1>3, <1>4, <1>5, <1>6, <2>1, <2>2 DEF InUse
<1>16. QED
  BY <1>8, <1>9, <1>10, <1>11, <1>12, <1>13, <1>14, <1>15 DEF PlaceInv

(* shared_.take: the head of a line nobody serves goes to a worker.        *)
LEMMA TakeKeeps ==
  ASSUME QueueType, Shapes, PlaceInv, NEW w \in Workers, Take(w)
  PROVE  PlaceInv' /\ \A r : InUse(r)' <=> InUse(r)
<1>1. PICK k \in Keys : /\ Takeable(k)
                        /\ worker' = [worker EXCEPT ![w].batch = <<Head(line[k])>>]
                        /\ line' = [line EXCEPT ![k] = Tail(@)]
                        /\ serving' = serving \union {k}
  BY DEF Take
<1>2. /\ UNCHANGED <<dispatch, running, joined, pos, accepted, status>>
      /\ ~Static /\ ~Static' /\ line[k] # <<>> /\ k \notin serving
  BY <1>1 DEF Take, Takeable, Static, flags, lanes, sink
<1>3. /\ \A v \in Workers : v # w => worker'[v] = worker[v]
      /\ worker[w].pc = "loop" /\ worker'[w].pc = "loop" /\ worker[w].hand = <<>>
      /\ worker'[w].hand = <<>> /\ worker'[w].saves = worker[w].saves
      /\ worker[w].batch = <<>> /\ worker'[w].batch = <<Head(line[k])>>
  BY <1>1 DEF Take, QueueType, WorkerStates, Shapes, Shape, Looking
<1>4. /\ \A l \in Workers \union Keys : l # k => line'[l] = line[l]
      /\ line'[k] = Tail(line[k]) /\ k \notin Workers
      /\ \A v \in Workers : line[v] = <<>> /\ line'[v] = <<>>
  <2>1. k \notin Workers
    BY PoolAssumption
  <2>2. \A l \in Workers \union Keys : l # k => line'[l] = line[l]
    BY <1>1 DEF QueueType
  <2>3. line'[k] = Tail(line[k])
    BY <1>1 DEF QueueType
  <2>4. \A v \in Workers : line[v] = <<>>
    BY <1>2 DEF PlaceInv, Home
  <2>5. QED
    BY <2>1, <2>2, <2>3, <2>4
<1>5. \A v \in Workers : v # w => Pipe(v)' = Pipe(v) /\ Rest(v)' = Rest(v) /\ InPipe(v)' = InPipe(v)
  BY <1>3, <1>4, SamePipe
<1>6. PICK h \in Requests : h = Head(line[k])
  BY <1>2, LineFacts, FrontOfTail
<1>7. Tail(line[k]) \in Seq(Requests) /\ Range(line[k]) = {h} \union Range(Tail(line[k]))
      /\ Ordered(Tail(line[k])) /\ \A y \in Range(Tail(line[k])) : Before(h, y)
  BY <1>2, <1>6, LineFacts, FrontOfTail, RangeOne, TailOrdered DEF PlaceInv, InOrder
<1>8. /\ Pipe(w) = worker[w].saves /\ Pipe(w)' = Append(worker[w].saves, h)
      /\ worker[w].saves \in Seq(Requests)
  <2>1. PICK s \in Seq(Requests) : s = worker[w].saves
    BY PipeFacts
  <2>2. Pipe(w) = <<>> \o (s \o (<<>> \o <<>>)) /\ Pipe(w)' = <<>> \o (s \o (<<h>> \o <<>>))
    BY <1>3, <1>4, <1>6, <2>1 DEF Pipe, Rest
  <2>3. <<>> \o <<>> = <<>> /\ s \o <<>> = s /\ <<>> \o s = s /\ <<h>> \o <<>> = <<h>>
    <3>1. <<>> \in Seq(Requests) /\ <<h>> \in Seq(Requests)
      OBVIOUS
    <3>2. QED
      BY <3>1, ConcatEmptySeq
  <2>4. s \o <<h>> = Append(s, h) /\ Append(s, h) \in Seq(Requests)
    BY AppendIsConcat, AppendProperties
  <2>5. <<>> \o Append(s, h) = Append(s, h)
    BY <2>4, ConcatEmptySeq
  <2>6. QED
    BY <2>1, <2>2, <2>3, <2>4, <2>5, Zenon
<1>9. InPipe(w)' = InPipe(w) \union {h}
  BY <1>8, RangeAppend DEF InPipe
<1>10. /\ \A v \in Workers : InPipe(v) \subseteq Requests
       /\ \A l \in Keys : Range(line[l]) \subseteq Requests
       /\ h \in Range(line[k]) /\ \A l \in Keys : Range(line'[l]) \subseteq Range(line[l])
  BY <1>4, <1>7, PipeFacts, LineFacts
<1>11. KeyOf[h] = k /\ \A v \in Workers : \A r \in InPipe(v) : KeyOf[r] # k
  BY <1>2, <1>10 DEF PlaceInv, Home, Exclusive
<1>12. \A r : InUse(r)' <=> InUse(r)
  <2>1. \A l \in Keys : l # k => line'[l] = line[l]
    BY <1>4
  <2>2. ASSUME NEW r PROVE (\E l \in Keys : r \in Range(line[l])) <=> (r = h \/ \E l \in Keys : r \in Range(line'[l]))
    BY <1>4, <1>7, <2>1
  <2>3. ASSUME NEW r PROVE (\E v \in Workers : r \in InPipe(v)') <=> (r = h \/ \E v \in Workers : r \in InPipe(v))
    BY <1>5, <1>9
  <2>4. QED
    BY <2>2, <2>3 DEF InUse
<1>13. InOrder'
  <2>1. Ordered(Pipe(w)')
    <3>1. Ordered(worker[w].saves)
      BY <1>8 DEF PlaceInv, InOrder
    <3>2. \A x \in Range(worker[w].saves) : Before(x, h)
      BY <1>8, <1>11 DEF InPipe, Before
    <3>3. QED
      BY <1>8, <3>1, <3>2, AppendOrdered
  <2>2. \A l \in Keys : Ordered(line'[l])
    BY <1>4, <1>7 DEF PlaceInv, InOrder
  <2>3. QED
    BY <1>5, <2>1, <2>2 DEF PlaceInv, InOrder
<1>14. Home'
  BY <1>2, <1>4, <1>10 DEF PlaceInv, Home
<1>15. Exclusive'
  <2>1. SUFFICES ASSUME NEW v \in Workers, NEW r \in InPipe(v)'
                 PROVE  /\ KeyOf[r] \in serving'
                        /\ \A u \in Workers : \A s \in InPipe(u)' : KeyOf[r] = KeyOf[s] => r = s /\ u = v
                        /\ \A s \in Range(line'[KeyOf[r]]) : Index(r) < Index(s)
    BY DEF Exclusive
  <2>2. CASE r = h
    <3>1. v = w
      BY <1>5, <1>10, <1>11, <2>2
    <3>2. \A u \in Workers : \A s \in InPipe(u)' : KeyOf[r] = KeyOf[s] => r = s /\ u = v
      BY <1>5, <1>9, <1>11, <2>2, <3>1
    <3>3. \A s \in Range(line'[k]) : KeyOf[s] = k
      BY <1>2, <1>10 DEF PlaceInv, Home
    <3>4. \A s \in Range(line'[KeyOf[r]]) : Index(r) < Index(s)
      BY <1>4, <1>7, <1>11, <2>2, <3>3 DEF Before
    <3>5. QED
      BY <1>1, <1>11, <2>2, <3>2, <3>4
  <2>3. CASE r # h
    <3>1. r \in InPipe(v) /\ KeyOf[r] # k
      BY <1>5, <1>9, <1>11, <2>1, <2>3
    <3>2. KeyOf[r] \in Keys
      BY <1>10, <3>1, ScriptFacts
    <3>3. /\ KeyOf[r] \in serving
          /\ \A u \in Workers : \A s \in InPipe(u) : KeyOf[r] = KeyOf[s] => r = s /\ u = v
          /\ \A s \in Range(line[KeyOf[r]]) : Index(r) < Index(s)
      BY <1>2, <3>1 DEF PlaceInv, Exclusive
    <3>4. line'[KeyOf[r]] = line[KeyOf[r]]
      BY <1>4, <3>1, <3>2
    <3>5. \A u \in Workers : \A s \in InPipe(u)' : KeyOf[r] = KeyOf[s] => s \in InPipe(u)
      BY <1>5, <1>9, <1>11, <3>1
    <3>6. QED
      BY <1>1, <3>3, <3>4, <3>5
  <2>4. QED
    BY <2>2, <2>3
<1>16. Pushed'
  BY <1>2, <1>12 DEF PlaceInv, Pushed
<1>17. Unanswered'
  <2>1. status[h] = "none"
    BY <1>10 DEF PlaceInv, Unanswered
  <2>2. \A r \in InPipe(w)' : status'[r] = "none"
    BY <1>2, <1>3, <1>9, <2>1 DEF PlaceInv, Unanswered
  <2>3. \A l \in Keys : \A r \in Range(line'[l]) : status'[r] = "none"
    BY <1>2, <1>10 DEF PlaceInv, Unanswered
  <2>4. QED
    BY <1>2, <1>3, <1>5, <2>2, <2>3 DEF PlaceInv, Unanswered
<1>18. NoOvertaking'
  BY <1>2, <1>12 DEF PlaceInv, NoOvertaking
<1>19. Kept'
  <2>1. \A v \in Workers : worker'[v].pc = "gone" <=> (worker[v].pc = "gone" /\ v # w)
    BY <1>3
  <2>2. ~joined
    BY <1>3 DEF PlaceInv, Kept
  <2>3. QED
    BY <1>2, <1>5, <1>12, <2>1, <2>2 DEF PlaceInv, Kept
<1>21. QED
  BY <1>13, <1>14, <1>15, <1>16, <1>17, <1>18, <1>19, <1>12 DEF PlaceInv

Pushes(k) == Static \/ depth[Shared] < CapOf(NextOf(k))

(* submit's push: the request goes behind everything of its session.       *)
LEMMA PushKeeps ==
  ASSUME QueueType, Shapes, PlaceInv, NEW k \in Keys, SubmitPush(k)
  PROVE  /\ PlaceInv' /\ ~InUse(NextOf(k))
         /\ \A x : InUse(x)' <=> (InUse(x) \/ (Pushes(k) /\ x = NextOf(k)))
<1>a. PICK r : r = NextOf(k)
  OBVIOUS
<1>b. PICK l : l = LineOf(r)
  OBVIOUS
<1>1. /\ r \in Requests /\ KeyOf[r] = k /\ Index(r) = pos[k] /\ pos[k] \in Nat \ {0}
      /\ pos' = [pos EXCEPT ![k] = @ + 1]
  <2>1. pos[k] \in Nat \ {0} /\ pos[k] <= Len(Script[k]) /\ Len(Script[k]) \in Nat
    BY PoolAssumption, LenProperties DEF SubmitPush, QueueType
  <2>2. pos[k] \in 1..Len(Script[k])
    BY <2>1
  <2>3. QED
    BY <1>a, <2>1, <2>2, ScriptFacts DEF NextOf, SubmitPush
<1>2. UNCHANGED <<dispatch, running, joined, serving, worker, status>> /\ Static' = Static
  BY DEF SubmitPush, Static, flags, sink
<1>3. /\ pos' \in [Keys -> Nat \ {0}] /\ pos'[k] = pos[k] + 1
      /\ \A j \in Keys : pos[j] <= pos'[j]
  BY <1>1 DEF QueueType
<1>4. ASSUME UNCHANGED <<line, accepted>>
      PROVE  PlaceInv' /\ \A x : InUse(x)' <=> InUse(x)
  <2>1. \A v \in Workers : worker'[v] = worker[v] /\ line'[v] = line[v]
    BY <1>2, <1>4
  <2>2. QuietStep
    BY <1>2, <1>3, <1>4, <2>1 DEF QuietStep, Frame
  <2>3. QED
    BY <2>2, QuietKeeps
<1>5. ASSUME line' = [line EXCEPT ![l] = Append(@, r)],
             accepted' = IF running THEN accepted \union {r} ELSE accepted
      PROVE  PlaceInv' /\ \A x : InUse(x)' <=> InUse(x) \/ x = r
  <2>1. /\ l \in Workers \union Keys /\ line[l] \in Seq(Requests) /\ line'[l] = Append(line[l], r)
        /\ \A m \in Workers \union Keys : m # l => line'[m] = line[m]
        /\ Static => l = Shard[k] /\ l \in Workers
        /\ ~Static => l = k
    BY <1>1, <1>5, <1>b, PoolAssumption DEF QueueType, LineOf
  <2>2. ~InUse(r) /\ r \notin accepted /\ status[r] = "none"
    BY <1>1 DEF PlaceInv, Pushed
  <2>3. \A s \in Requests : InUse(s) \/ status[s] # "none" => Before(s, r)
    BY <1>1 DEF PlaceInv, Pushed, Before
  <2>4. \A v \in Workers : v # l => Pipe(v)' = Pipe(v) /\ Rest(v)' = Rest(v) /\ InPipe(v)' = InPipe(v)
    BY <1>2, <2>1, SamePipe
  <2>5. ASSUME l \in Workers
        PROVE  /\ Rest(l)' = Append(Rest(l), r) /\ Pipe(l)' = Append(Pipe(l), r)
    <3>1. PICK h \in Seq(Requests), s \in Seq(Requests), b \in Seq(Requests), q \in Seq(Requests) :
            h = worker[l].hand /\ s = worker[l].saves /\ b = worker[l].batch /\ q = line[l]
      BY <2>5, PipeFacts
    <3>2. /\ <<r>> \in Seq(Requests) /\ q \o <<r>> \in Seq(Requests) /\ b \o q \in Seq(Requests)
          /\ s \o (b \o q) \in Seq(Requests) /\ h \o (s \o (b \o q)) \in Seq(Requests)
      BY <1>1, <2>5, <3>1, ConcatProperties, PipeFacts DEF Rest, Pipe
    <3>3. b \o Append(q, r) = Append(b \o q, r)
      BY <1>1, <3>2, AppendBehind
    <3>4. s \o Append(b \o q, r) = Append(s \o (b \o q), r)
      BY <1>1, <3>2, AppendBehind
    <3>5. h \o Append(s \o (b \o q), r) = Append(h \o (s \o (b \o q)), r)
      BY <1>1, <3>2, AppendBehind
    <3>7. /\ Rest(l) = s \o (b \o q) /\ Rest(l)' = s \o (b \o Append(q, r))
          /\ Pipe(l) = h \o (s \o (b \o q)) /\ Pipe(l)' = h \o (s \o (b \o Append(q, r)))
      BY <1>2, <2>1, <3>1, Zenon DEF Rest, Pipe
    <3>8. QED
      BY <3>3, <3>4, <3>5, <3>7, Zenon
  <2>6. l \in Workers => /\ InPipe(l)' = InPipe(l) \union {r} /\ Range(Rest(l)') = Range(Rest(l)) \union {r}
                         /\ l \notin Keys
    <3>1. ASSUME l \in Workers PROVE l \notin Keys
      BY <3>1, PoolAssumption
    <3>2. ASSUME l \in Workers
          PROVE  InPipe(l)' = InPipe(l) \union {r} /\ Range(Rest(l)') = Range(Rest(l)) \union {r}
      <4>1. Rest(l) \in Seq(Requests) /\ Pipe(l) \in Seq(Requests)
        BY <3>2, PipeFacts
      <4>2. /\ Range(Append(Rest(l), r)) = Range(Rest(l)) \union {r}
            /\ Range(Append(Pipe(l), r)) = Range(Pipe(l)) \union {r}
        BY <1>1, <4>1, RangeAppend
      <4>3. QED
        BY <2>5, <3>2, <4>2, Zenon DEF InPipe
    <3>3. QED
      BY <3>1, <3>2
  <2>7. l \in Keys => Range(line'[l]) = Range(line[l]) \union {r} /\ l \notin Workers
    BY <1>1, <2>1, RangeAppend, PoolAssumption
  <2>8. /\ \A v \in Workers : InPipe(v) \subseteq Requests
        /\ \A m \in Keys : Range(line[m]) \subseteq Requests
    BY PipeFacts, LineFacts
  <2>9. \A x : InUse(x)' <=> InUse(x) \/ x = r
    <3>1. CASE l \in Workers
      <4>1. \A m \in Keys : line'[m] = line[m]
        BY <2>1, <2>6, <3>1
      <4>2. ASSUME NEW x PROVE (\E v \in Workers : x \in InPipe(v)') <=> (x = r \/ \E v \in Workers : x \in InPipe(v))
        BY <2>4, <2>6, <3>1
      <4>3. QED
        BY <4>1, <4>2 DEF InUse
    <3>2. CASE l \in Keys
      <4>1. \A v \in Workers : InPipe(v)' = InPipe(v)
        BY <2>4, <2>7, <3>2
      <4>2. ASSUME NEW x PROVE (\E m \in Keys : x \in Range(line'[m])) <=> (x = r \/ \E m \in Keys : x \in Range(line[m]))
        BY <2>1, <2>7, <3>2
      <4>3. QED
        BY <4>1, <4>2 DEF InUse
    <3>3. QED
      BY <2>1, <3>1, <3>2
  <2>10. InOrder'
    <3>1. ASSUME NEW q \in Seq(Requests), Ordered(q), \A s \in Range(q) : InUse(s) /\ s \in Requests
          PROVE  Ordered(Append(q, r))
      BY <1>1, <2>3, <3>1, AppendOrdered
    <3>2. l \in Workers => Ordered(Pipe(l)')
      <4>1. SUFFICES ASSUME l \in Workers PROVE Ordered(Append(Pipe(l), r))
        BY <2>5
      <4>2. Pipe(l) \in Seq(Requests) /\ Ordered(Pipe(l)) /\ \A s \in Range(Pipe(l)) : InUse(s) /\ s \in Requests
        BY <2>8, <4>1, PipeFacts DEF PlaceInv, InOrder, InUse, InPipe
      <4>3. QED
        BY <3>1, <4>2
    <3>3. l \in Keys => Ordered(line'[l])
      <4>1. SUFFICES ASSUME l \in Keys PROVE Ordered(Append(line[l], r))
        BY <2>1
      <4>2. line[l] \in Seq(Requests) /\ Ordered(line[l]) /\ \A s \in Range(line[l]) : InUse(s) /\ s \in Requests
        BY <2>1, <2>8, <4>1 DEF PlaceInv, InOrder, InUse
      <4>3. QED
        BY <3>1, <4>2
    <3>4. \A v \in Workers : Ordered(Pipe(v)')
      BY <2>4, <3>2 DEF PlaceInv, InOrder
    <3>5. \A m \in Keys : Ordered(line'[m])
      BY <2>1, <3>3 DEF PlaceInv, InOrder
    <3>6. QED
      BY <3>4, <3>5 DEF InOrder
  <2>11. Home'
    <3>1. CASE Static
      <4>1. l \in Workers /\ l = Shard[KeyOf[r]]
        BY <1>1, <2>1, <3>1
      <4>2. \A v \in Workers : \A x \in InPipe(v)' : Shard[KeyOf[x]] = v
        BY <2>4, <2>6, <3>1, <4>1 DEF PlaceInv, Home
      <4>3. \A m \in Keys : line'[m] = <<>>
        BY <2>1, <2>6, <3>1, <4>1 DEF PlaceInv, Home
      <4>4. QED
        BY <1>2, <3>1, <4>2, <4>3 DEF Home
    <3>2. CASE ~Static
      <4>1. l = k /\ l \notin Workers
        BY <2>1, <2>7, <3>2
      <4>2. \A m \in Keys : \A x \in Range(line'[m]) : KeyOf[x] = m
        BY <1>1, <2>1, <2>7, <3>2, <4>1 DEF PlaceInv, Home
      <4>3. \A v \in Workers : line'[v] = <<>>
        BY <2>1, <3>2, <4>1 DEF PlaceInv, Home
      <4>4. QED
        BY <1>2, <3>2, <4>2, <4>3 DEF Home
    <3>3. QED
      BY <3>1, <3>2
  <2>12. Exclusive'
    <3>1. SUFFICES ASSUME ~Static, NEW v \in Workers, NEW x \in InPipe(v)'
                   PROVE  /\ KeyOf[x] \in serving'
                          /\ \A u \in Workers : \A s \in InPipe(u)' : KeyOf[x] = KeyOf[s] => x = s /\ u = v
                          /\ \A s \in Range(line'[KeyOf[x]]) : Index(x) < Index(s)
      BY <1>2 DEF Exclusive
    <3>2. l = k /\ \A u \in Workers : InPipe(u)' = InPipe(u)
      BY <2>1, <2>4, <2>7, <3>1
    <3>3. /\ KeyOf[x] \in serving
          /\ \A u \in Workers : \A s \in InPipe(u) : KeyOf[x] = KeyOf[s] => x = s /\ u = v
          /\ \A s \in Range(line[KeyOf[x]]) : Index(x) < Index(s)
      BY <3>1, <3>2 DEF PlaceInv, Exclusive
    <3>4. KeyOf[x] \in Keys /\ Before(x, r)
      BY <2>3, <2>8, <3>1, <3>2, ScriptFacts DEF InUse
    <3>5. \A s \in Range(line'[KeyOf[x]]) : Index(x) < Index(s)
      BY <1>1, <2>1, <2>7, <3>2, <3>3, <3>4 DEF Before
    <3>6. QED
      BY <1>2, <3>2, <3>3, <3>5
  <2>13. Pushed'
    <3>1. Index(r) < pos'[KeyOf[r]]
      BY <1>1, <1>3
    <3>2. \A x \in Requests : InUse(x) \/ x \in accepted \/ status[x] # "none" => Index(x) < pos'[KeyOf[x]]
      BY <1>3, FramePushed DEF PlaceInv
    <3>3. QED
      BY <1>2, <1>5, <2>9, <3>1, <3>2 DEF Pushed
  <2>14. Unanswered'
    <3>1. \A m \in Keys : \A x \in Range(line'[m]) : status'[x] = "none"
      BY <1>2, <2>1, <2>2, <2>7 DEF PlaceInv, Unanswered
    <3>2. ASSUME NEW v \in Workers
          PROVE  IF worker'[v].pc = "release"
                 THEN /\ \A x \in Range(worker'[v].hand) : status'[x] # "none"
                      /\ \A x \in Range(Rest(v)') : status'[x] = "none"
                 ELSE \A x \in InPipe(v)' : status'[x] = "none"
      <4>1. CASE v = l
        BY <1>2, <2>2, <2>6, <3>2, <4>1 DEF PlaceInv, Unanswered
      <4>2. CASE v # l
        BY <1>2, <2>4, <3>2, <4>2 DEF PlaceInv, Unanswered
      <4>3. QED
        BY <4>1, <4>2
    <3>3. QED
      BY <3>1, <3>2 DEF Unanswered
  <2>15. NoOvertaking'
    BY <1>2, <2>3, <2>9 DEF PlaceInv, NoOvertaking
  <2>16. Kept'
    <3>1. \A x \in accepted' : status'[x] = "none" => InUse(x)'
      BY <1>2, <1>5, <2>9 DEF PlaceInv, Kept
    <3>2. \A v \in Workers : worker[v].pc = "gone" => ~running
      BY DEF Shapes
    <3>3. \A v \in Workers : worker'[v].pc = "gone" => InPipe(v)' \intersect accepted' = {}
      <4>1. SUFFICES ASSUME NEW v \in Workers, worker[v].pc = "gone"
                     PROVE  InPipe(v)' \intersect accepted = {}
        BY <1>2, <1>5, <3>2
      <4>2. InPipe(v) \intersect accepted = {}
        BY <4>1 DEF PlaceInv, Kept
      <4>3. InPipe(v)' \subseteq InPipe(v) \union {r}
        BY <2>4, <2>6, <4>1
      <4>4. QED
        BY <2>2, <4>2, <4>3
    <3>4. joined => ~running /\ \A m \in Keys : Range(line'[m]) \intersect accepted = {}
      <4>1. SUFFICES ASSUME joined, NEW m \in Keys PROVE ~running /\ Range(line'[m]) \intersect accepted = {}
        BY DEF PlaceInv, Kept
      <4>2. ~running /\ Range(line[m]) \intersect accepted = {}
        BY <4>1 DEF PlaceInv, Kept
      <4>3. Range(line'[m]) \subseteq Range(line[m]) \union {r}
        BY <2>1, <2>7, <4>1
      <4>4. QED
        BY <2>2, <4>2, <4>3
    <3>5. QED
      BY <1>2, <1>5, <3>1, <3>3, <3>4 DEF PlaceInv, Kept
  <2>17. QED
    BY <2>9, <2>10, <2>11, <2>12, <2>13, <2>14, <2>15, <2>16 DEF PlaceInv
<1>6. ~InUse(r)
  BY <1>1 DEF PlaceInv, Pushed
<1>7. QED
  BY <1>4, <1>5, <1>6, <1>a, <1>b DEF SubmitPush, Pushes

(* A worker leaves and rejects its tail.                                   *)
LEMMA ExitKeeps ==
  ASSUME QueueType, Shapes, PlaceInv, NEW w \in Workers, Exit(w)
  PROVE  PlaceInv' /\ \A r \in Requests : InUse(r)' <=> (InUse(r) /\ r \notin Range(TailOf(w)))
<1>1. /\ UNCHANGED <<dispatch, running, joined, pos, serving, accepted>> /\ Static' = Static
      /\ worker[w].pc = "top" /\ line' = [line EXCEPT ![w] = <<>>] /\ ~running
      /\ status' = [r \in Requests |-> IF r \in Range(TailOf(w)) THEN "Unavailable" ELSE status[r]]
  BY DEF Exit, Static, flags, lanes, Answer
<1>2. /\ \A v \in Workers : v # w => worker'[v] = worker[v] /\ line'[v] = line[v]
      /\ worker'[w].pc = "gone" /\ line'[w] = <<>> /\ \A k \in Keys : line'[k] = line[k]
      /\ worker'[w].hand = worker[w].hand /\ worker'[w].saves = worker[w].saves
      /\ worker'[w].batch = worker[w].batch
  BY <1>1, PoolAssumption DEF Exit, QueueType, WorkerStates
<1>3. worker[w].hand = <<>> /\ worker[w].saves = <<>> /\ worker[w].batch = <<>>
  BY <1>1 DEF Shapes, Shape
<1>4. /\ Pipe(w) = line[w] /\ Pipe(w)' = <<>> /\ InPipe(w)' = {} /\ InPipe(w) = Range(line[w])
  <2>1. line[w] \in Seq(Requests) /\ <<>> \in Seq(Requests)
    BY PipeFacts
  <2>2. <<>> \o line[w] = line[w] /\ <<>> \o <<>> = <<>>
    BY <2>1, ConcatEmptySeq
  <2>3. Pipe(w) = <<>> \o (<<>> \o (<<>> \o line[w])) /\ Pipe(w)' = <<>> \o (<<>> \o (<<>> \o <<>>))
    BY <1>2, <1>3 DEF Pipe, Rest
  <2>4. Pipe(w) = line[w] /\ Pipe(w)' = <<>>
    BY <2>2, <2>3, Zenon
  <2>5. QED
    BY <2>4, RangeEmpty DEF InPipe
<1>5. \A v \in Workers : v # w => Pipe(v)' = Pipe(v) /\ Rest(v)' = Rest(v) /\ InPipe(v)' = InPipe(v)
  BY <1>2, SamePipe
<1>6. TailOf(w) = line[w]
  BY DEF TailOf, PlaceInv, Home
<1>7. \A r \in Requests : IF r \in InPipe(w) THEN status'[r] # "none" ELSE status'[r] = status[r]
  BY <1>1, <1>4, <1>6
<1>8. /\ \A v \in Workers : InPipe(v)' \subseteq InPipe(v) /\ InPipe(v) \subseteq Requests
      /\ \A k \in Keys : Range(line[k]) \subseteq Requests
  BY <1>4, <1>5, PipeFacts, LineFacts
<1>9. \A r : InUse(r)' => InUse(r)
  BY <1>2, <1>8 DEF InUse
<1>10. \A v \in Workers : v # w => \A r \in InPipe(v) : r \notin InPipe(w)
  BY OneWorker DEF PlaceInv
<1>11. \A k \in Keys : \A r \in Range(line[k]) : r \notin InPipe(w)
  <2>1. \A x, y \in Requests : Before(x, y) => x # y
    BY ScriptFacts DEF Before
  <2>2. QED
    BY <1>8, <2>1, BehindPipe DEF PlaceInv
<1>12. InOrder'
  BY <1>2, <1>4, <1>5, EmptyOrdered DEF PlaceInv, InOrder
<1>13. Home'
  BY <1>1, <1>2, <1>8 DEF PlaceInv, Home
<1>14. Exclusive'
  <2>1. \A v \in Workers : \A r \in InPipe(v)' : KeyOf[r] \in Keys
    BY <1>8, ScriptFacts
  <2>2. QED
    BY <1>1, <1>2, <1>8, <2>1 DEF PlaceInv, Exclusive
<1>15. Pushed'
  <2>1. \A r \in InPipe(w) : InUse(r)
    BY DEF InUse
  <2>2. QED
    BY <1>1, <1>7, <1>9, <2>1 DEF PlaceInv, Pushed
<1>16. Unanswered'
  <2>1. \A k \in Keys : \A r \in Range(line'[k]) : status'[r] = "none"
    BY <1>2, <1>7, <1>8, <1>11 DEF PlaceInv, Unanswered
  <2>2. ASSUME NEW v \in Workers, v # w
        PROVE  IF worker'[v].pc = "release"
               THEN /\ \A r \in Range(worker'[v].hand) : status'[r] # "none"
                    /\ \A r \in Range(Rest(v)') : status'[r] = "none"
               ELSE \A r \in InPipe(v)' : status'[r] = "none"
    <3>1. /\ Range(worker[v].hand) \subseteq InPipe(v) /\ Range(Rest(v)) \subseteq InPipe(v)
      BY PipeFacts
    <3>2. \A r \in InPipe(v) : status'[r] = status[r]
      BY <1>7, <1>8, <1>10, <2>2
    <3>3. QED
      BY <1>2, <1>5, <2>2, <3>1, <3>2 DEF PlaceInv, Unanswered
  <2>3. QED
    BY <1>2, <1>4, <2>1, <2>2 DEF Unanswered
<1>17. NoOvertaking'
  <2>1. SUFFICES ASSUME NEW r \in Requests, NEW s \in Requests, InUse(r)', status'[r] = "none",
                        status'[s] # "none"
                 PROVE  Before(s, r)
    BY DEF NoOvertaking
  <2>2. InUse(r) /\ status[r] = "none"
    BY <1>7, <1>9, <2>1
  <2>3. CASE status[s] # "none"
    BY <2>2, <2>3 DEF PlaceInv, NoOvertaking
  <2>4. CASE s \in InPipe(w)
    <3>1. CASE \E v \in Workers : r \in InPipe(v)'
      BY <1>4, <1>5, <2>4, <3>1, OneWorker DEF PlaceInv, Before
    <3>2. CASE \E k \in Keys : r \in Range(line[k])
      BY <2>4, <3>2, BehindPipe DEF PlaceInv
    <3>3. QED
      BY <1>2, <2>1, <3>1, <3>2 DEF InUse
  <2>5. QED
    BY <1>7, <2>1, <2>3, <2>4
<1>18. Kept'
  <2>1. \A r \in accepted : status'[r] = "none" => InUse(r)'
    <3>1. SUFFICES ASSUME NEW r \in accepted, status'[r] = "none" PROVE InUse(r)'
      OBVIOUS
    <3>2. r \in Requests
      BY DEF QueueType
    <3>3. InUse(r) /\ r \notin InPipe(w)
      BY <1>7, <3>1, <3>2 DEF PlaceInv, Kept
    <3>4. QED
      BY <1>2, <1>5, <3>3 DEF InUse
  <2>2. \A v \in Workers : worker'[v].pc = "gone" => InPipe(v)' \intersect accepted = {}
    BY <1>2, <1>4, <1>5 DEF PlaceInv, Kept
  <2>3. ~joined
    BY <1>1 DEF PlaceInv, Kept
  <2>4. QED
    BY <1>1, <2>1, <2>2, <2>3 DEF Kept
<1>19. ASSUME NEW r \in Requests
      PROVE  InUse(r)' <=> (InUse(r) /\ r \notin Range(TailOf(w)))
  BY <1>2, <1>4, <1>5, <1>6, <1>10, <1>11 DEF InUse
<1>20. QED
  BY <1>12, <1>13, <1>14, <1>15, <1>16, <1>17, <1>18, <1>19 DEF PlaceInv

(* stop rejects what is left in the shared queue.                          *)
LEMMA JoinKeeps ==
  ASSUME QueueType, Shapes, PlaceInv, Join
  PROVE  /\ PlaceInv' /\ (Static => \A r : InUse(r)' <=> InUse(r))
         /\ ~Static => \A r : ~InUse(r)' /\ (InUse(r) <=> r \in Waiting)
<1>1. /\ UNCHANGED <<dispatch, running, pos, serving, worker, accepted>> /\ Static' = Static
      /\ joined' = TRUE /\ ~running /\ ~joined /\ \A v \in Workers : worker[v].pc = "gone"
  BY DEF Join, Static, lanes
<1>2. CASE Static
  <2>1. UNCHANGED <<line, status>>
    BY <1>2 DEF Join
  <2>2. /\ \A v \in Workers : /\ Pipe(v)' = Pipe(v) /\ Rest(v)' = Rest(v) /\ InPipe(v)' = InPipe(v)
        /\ \A r : InUse(r)' <=> InUse(r)
    <3>1. \A v \in Workers : /\ Pipe(v)' = Pipe(v) /\ Rest(v)' = Rest(v) /\ InPipe(v)' = InPipe(v)
      BY <1>1, <2>1, SamePipe
    <3>2. QED
      BY <2>1, <3>1 DEF InUse
  <2>3. InOrder' /\ Home' /\ Exclusive'
    BY <1>1, <2>1, <2>2 DEF PlaceInv, InOrder, Home, Exclusive
  <2>4. Pushed' /\ Unanswered' /\ NoOvertaking'
    BY <1>1, <2>1, <2>2 DEF PlaceInv, Pushed, Unanswered, NoOvertaking
  <2>5. \A k \in Keys : Range(line[k]) = {}
    BY <1>2, RangeEmpty DEF PlaceInv, Home
  <2>6. Kept'
    BY <1>1, <2>1, <2>2, <2>5 DEF PlaceInv, Kept
  <2>7. QED
    BY <1>2, <2>2, <2>3, <2>4, <2>6 DEF PlaceInv
<1>3. CASE ~Static
  <2>1. /\ status' = [r \in Requests |-> IF r \in Waiting THEN "Unavailable" ELSE status[r]]
        /\ line' = [l \in DOMAIN line |-> IF l \in Keys THEN <<>> ELSE line[l]]
    BY <1>3 DEF Join
  <2>2. /\ \A k \in Keys : line'[k] = <<>> /\ Range(line'[k]) = {}
        /\ \A v \in Workers : line[v] = <<>> /\ line'[v] = <<>>
    BY <1>3, <2>1, RangeEmpty, PoolAssumption DEF QueueType, PlaceInv, Home
  <2>3. \A v \in Workers : /\ Pipe(v)' = <<>> /\ InPipe(v)' = {} /\ InPipe(v) = {}
    <3>1. SUFFICES ASSUME NEW v \in Workers PROVE Pipe(v)' = <<>> /\ InPipe(v)' = {} /\ InPipe(v) = {}
      OBVIOUS
    <3>2. worker[v].hand = <<>> /\ worker[v].saves = <<>> /\ worker[v].batch = <<>>
      BY <1>1 DEF Shapes, Shape
    <3>3. <<>> \o <<>> = <<>>
      BY <3>1, PipeFacts, ConcatEmptySeq
    <3>4. Pipe(v) = <<>> /\ Pipe(v)' = <<>>
      BY <1>1, <2>2, <3>2, <3>3, Zenon DEF Pipe, Rest
    <3>5. QED
      BY <3>4, RangeEmpty DEF InPipe
  <2>4. \A r : ~InUse(r)' /\ (InUse(r) => r \in Waiting)
    BY <2>2, <2>3 DEF InUse, Waiting
  <2>5. \A r \in Waiting : InUse(r)
    BY DEF Waiting, InUse
  <2>6. InOrder' /\ Home' /\ Exclusive'
    <3>1. InOrder'
      BY <2>2, <2>3, EmptyOrdered DEF InOrder
    <3>2. Home'
      BY <1>1, <1>3, <2>2 DEF Home
    <3>3. Exclusive'
      BY <2>3 DEF Exclusive
    <3>4. QED
      BY <3>1, <3>2, <3>3
  <2>7. Pushed'
    BY <1>1, <2>1, <2>4, <2>5 DEF PlaceInv, Pushed
  <2>8. Unanswered'
    BY <1>1, <2>2, <2>3 DEF Unanswered
  <2>9. NoOvertaking'
    BY <2>4 DEF NoOvertaking
  <2>10. Kept'
    <3>1. \A r \in accepted' : status'[r] # "none"
      <4>1. \A r \in accepted : r \in Requests
        BY DEF QueueType
      <4>2. QED
        BY <1>1, <2>1, <2>4, <4>1 DEF PlaceInv, Kept
    <3>2. QED
      BY <1>1, <2>2, <2>3, <3>1 DEF Kept
  <2>11. QED
    BY <1>3, <2>4, <2>5, <2>6, <2>7, <2>8, <2>9, <2>10 DEF PlaceInv
<1>4. QED
  BY <1>2, <1>3

-----------------------------------------------------------------------------
(* The steps of a worker are of these two kinds, except where it takes,    *)
(* releases or leaves.                                                     *)
Unmoved == UNCHANGED <<dispatch, running, draining, joined, pos, checked, serving, expired, accepted>>

LEMMA QuietWorker ==
  ASSUME QueueType, Shapes, NEW w \in Workers, Unmoved, UNCHANGED status,
         NEW s \in WorkerStates, worker' = [worker EXCEPT ![w] = s], Shape(s),
         s.pc = "last" => ~Static /\ ~running,
         line' = line \/ (Static /\ line' = [line EXCEPT ![w] = <<>>]), Pipe(w)' = Pipe(w),
         worker[w].pc \notin {"release", "gone"}, s.pc \notin {"release", "gone"}
  PROVE  QueueType' /\ Shapes' /\ QuietStep
<1>1. /\ worker' \in [Workers -> WorkerStates] /\ worker'[w] = s
      /\ \A v \in Workers : v # w => worker'[v] = worker[v]
  BY DEF QueueType
<1>2. /\ line' \in [Workers \union Keys -> Seq(Requests)]
      /\ \A k \in Keys : line'[k] = line[k]
      /\ \A v \in Workers : v # w => line'[v] = line[v]
      /\ Static \/ line'[w] = line[w]
  <2>1. <<>> \in Seq(Requests) /\ w \notin Keys
    BY PoolAssumption
  <2>2. QED
    BY <2>1 DEF QueueType
<1>3. QueueType'
  BY <1>1, <1>2 DEF QueueType, Unmoved
<1>4. Shapes'
  BY <1>1 DEF Shapes, Unmoved, Static
<1>5. Frame
  BY <1>2 DEF Frame, Unmoved, QueueType
<1>6. QuietStep
  BY <1>1, <1>2, <1>5 DEF QuietStep, Unmoved
<1>7. QED
  BY <1>3, <1>4, <1>6

LEMMA AnswerWorker ==
  ASSUME QueueType, Shapes, NEW w \in Workers, Unmoved, UNCHANGED line,
         NEW up \in BOOLEAN, worker' = Done(w, up), worker[w].pc \in Single \union Batched,
         NEW st \in Statuses \ {"none"},
         Answer(worker[w].hand, st) \/ (worker[w].pc \in Single /\ Answer(<<InHand(w)>>, st))
  PROVE  QueueType' /\ Shapes' /\ AnswerStep(w)
<1>1. /\ worker' \in [Workers -> WorkerStates]
      /\ \A v \in Workers : v # w => worker'[v] = worker[v]
      /\ worker'[w].pc = "release" /\ worker'[w].hand = worker[w].hand
      /\ worker'[w].saves = worker[w].saves /\ worker'[w].batch = worker[w].batch
  BY DEF QueueType, WorkerStates, Places, Done
<1>2. Answer(worker[w].hand, st)
  <2>1. worker[w].pc \in Single => worker[w].hand = <<InHand(w)>>
    BY PipeFacts, RangeOne DEF Shapes, Shape, InHand
  <2>2. QED
    BY <2>1
<1>3. status' = [r \in Requests |-> IF r \in Range(worker[w].hand) THEN st ELSE status[r]]
  BY <1>2 DEF Answer
<1>4. QueueType'
  <2>1. status' \in [Requests -> Statuses]
    BY <1>3 DEF QueueType
  <2>2. QED
    BY <1>1, <2>1 DEF QueueType, Unmoved
<1>5. Shapes'
  <2>1. Shape(worker'[w])
    BY <1>1 DEF Shapes, Shape, Looking, Single, Batched
  <2>2. QED
    BY <1>1, <2>1 DEF Shapes, Unmoved, Static
<1>6. AnswerStep(w)
  BY <1>1, <1>3 DEF AnswerStep, Frame, Unmoved, QueueType
<1>7. QED
  BY <1>4, <1>5, <1>6

LEMMA TopQuiet ==
  ASSUME QueueType, Shapes, NEW w \in Workers, Top(w)
  PROVE  QueueType' /\ Shapes' /\ QuietStep
<1>1. PICK up \in BOOLEAN :
        worker' = [worker EXCEPT ![w].pc = "loop", ![w].usable = up,
                     ![w].batch = IF Static THEN line[w] ELSE <<>>]
  BY DEF Top
<1>2. PICK s : s = [worker[w] EXCEPT !.pc = "loop", !.usable = up, !.batch = IF Static THEN line[w] ELSE <<>>]
  OBVIOUS
<1>3. /\ worker[w].pc = "top" /\ worker[w].hand = <<>> /\ worker[w].saves = <<>>
      /\ worker[w].batch = <<>> /\ line[w] \in Seq(Requests) /\ <<>> \in Seq(Requests)
  BY PipeFacts DEF Top, Shapes, Shape
<1>4. s \in WorkerStates /\ worker' = [worker EXCEPT ![w] = s] /\ worker'[w] = s
  BY <1>1, <1>2, <1>3 DEF QueueType, WorkerStates, Places, Looking
<1>5. /\ Shape(s) /\ s.pc = "loop"
      /\ s.hand = <<>> /\ s.saves = <<>> /\ s.batch = IF Static THEN line[w] ELSE <<>>
  <2>1. s.hand = <<>> /\ s.saves = <<>> /\ s.pc = "loop" /\ s.batch = IF Static THEN line[w] ELSE <<>>
    BY <1>2, <1>3, PipeFacts DEF WorkerStates
  <2>2. QED
    BY <2>1, PoolAssumption DEF Shape, Looking, Single, Batched
<1>6. Pipe(w)' = Pipe(w)
  <2>1. Pipe(w) = <<>> \o (<<>> \o (<<>> \o line[w]))
    BY <1>3 DEF Pipe, Rest
  <2>2. <<>> \o line[w] = line[w] /\ line[w] \o <<>> = line[w]
    BY <1>3, ConcatEmptySeq
  <2>3. Pipe(w)' = <<>> \o (<<>> \o ((IF Static THEN line[w] ELSE <<>>) \o line'[w]))
    BY <1>4, <1>5 DEF Pipe, Rest
  <2>4. CASE Static
    <3>1. line'[w] = <<>>
      BY <2>4 DEF Top, QueueType
    <3>2. QED
      BY <2>1, <2>2, <2>3, <2>4, <3>1, Zenon
  <2>5. CASE ~Static
    <3>1. line'[w] = line[w]
      BY <2>5 DEF Top
    <3>2. QED
      BY <2>1, <2>3, <2>5, <3>1, Zenon
  <2>6. QED
    BY <2>4, <2>5
<1>7. Unmoved /\ UNCHANGED status /\ (line' = line \/ (Static /\ line' = [line EXCEPT ![w] = <<>>]))
  BY DEF Top, Unmoved, flags, lanes, sink
<1>8. QED
  BY <1>3, <1>4, <1>5, <1>6, <1>7, QuietWorker

LEMMA CollectQuiet ==
  ASSUME QueueType, Shapes, NEW w \in Workers, Collect(w)
  PROVE  QueueType' /\ Shapes' /\ QuietStep
<1>1. PICK s : s = [worker[w] EXCEPT !.batch = Tail(@), !.pc = Resume, !.saves = Append(@, Head(worker[w].batch))]
  OBVIOUS
<1>2. /\ worker[w].pc \in {"loop", "last"} /\ worker[w].hand = <<>> /\ worker[w].batch # <<>>
      /\ worker[w] \in WorkerStates /\ worker[w].batch \in Seq(Requests) /\ worker[w].saves \in Seq(Requests)
      /\ worker[w].hand \in Seq(Requests) /\ Len(worker[w].saves) < BatchSize /\ line[w] \in Seq(Requests)
  BY PipeFacts DEF Collect, Looping, Shapes, Shape, Looking
<1>3. /\ Head(worker[w].batch) \in Requests /\ Tail(worker[w].batch) \in Seq(Requests)
      /\ Append(worker[w].saves, Head(worker[w].batch)) \in Seq(Requests)
      /\ Len(Append(worker[w].saves, Head(worker[w].batch))) = Len(worker[w].saves) + 1
  BY <1>2, FrontOfTail, AppendProperties
<1>4. Resume \in {"loop", "last"} /\ (Resume = "last" => ~Static /\ ~running)
  BY DEF Resume
<1>5. /\ s.hand = <<>> /\ s.batch = Tail(worker[w].batch) /\ s.pc = Resume
      /\ s.saves = Append(worker[w].saves, Head(worker[w].batch)) /\ s \in WorkerStates
  BY <1>1, <1>2, <1>3, <1>4 DEF WorkerStates, Places, Looking
<1>6. worker' = [worker EXCEPT ![w] = s] /\ worker'[w] = s
  BY <1>1 DEF Collect, QueueType
<1>7. Shape(s)
  <2>1. Len(s.saves) <= BatchSize
    BY <1>2, <1>3, <1>5, LenProperties, PoolAssumption
  <2>2. QED
    BY <1>4, <1>5, <2>1 DEF Shape, Looking, Single, Batched
<1>8. Unmoved /\ UNCHANGED <<status, line>>
  BY DEF Collect, Unmoved, flags, lanes, sink, queues
<1>9. Pipe(w)' = Pipe(w)
  <2>1. worker[w].saves \o (worker[w].batch \o line[w])
          = Append(worker[w].saves, Head(worker[w].batch)) \o (Tail(worker[w].batch) \o line[w])
    BY <1>2, MoveOne
  <2>2. QED
    BY <1>2, <1>5, <1>6, <1>8, <2>1, Zenon DEF Pipe, Rest
<1>10. QED
  BY <1>2, <1>4, <1>5, <1>6, <1>7, <1>8, <1>9, QuietWorker

LEMMA FlushQuiet ==
  ASSUME QueueType, Shapes, NEW w \in Workers, Flush(w)
  PROVE  QueueType' /\ Shapes' /\ QuietStep
<1>1. PICK s : s = [worker[w] EXCEPT !.hand = worker[w].saves, !.saves = <<>>, !.done = 0,
                      !.pc = IF Len(worker[w].saves) = 1 THEN "handle" ELSE "begin"]
  OBVIOUS
<1>2. /\ worker[w].pc \in {"loop", "last"} /\ worker[w].hand = <<>> /\ worker[w].saves # <<>>
      /\ worker[w] \in WorkerStates /\ worker[w].batch \in Seq(Requests) /\ worker[w].saves \in Seq(Requests)
      /\ line[w] \in Seq(Requests) /\ <<>> \in Seq(Requests)
  BY PipeFacts DEF Flush, Looping, Shapes, Shape, Looking
<1>3. /\ s.hand = worker[w].saves /\ s.batch = worker[w].batch /\ s.saves = <<>> /\ s \in WorkerStates
      /\ s.pc = IF Len(worker[w].saves) = 1 THEN "handle" ELSE "begin"
  BY <1>1, <1>2 DEF WorkerStates, Places, Single, Batched
<1>4. worker' = [worker EXCEPT ![w] = s] /\ worker'[w] = s
  BY <1>1 DEF Flush, QueueType
<1>5. Shape(s)
  BY <1>2, <1>3, PoolAssumption DEF Shape, Looking, Single, Batched
<1>6. Unmoved /\ UNCHANGED <<status, line>>
  BY DEF Flush, Unmoved, flags, lanes, sink, queues
<1>7. Pipe(w)' = Pipe(w)
  <2>1. worker[w].batch \o line[w] \in Seq(Requests) /\ worker[w].saves \o (worker[w].batch \o line[w]) \in Seq(Requests)
    BY <1>2, ConcatProperties, PipeFacts DEF Rest
  <2>2. /\ <<>> \o (worker[w].batch \o line[w]) = worker[w].batch \o line[w]
        /\ <<>> \o (worker[w].saves \o (worker[w].batch \o line[w])) = worker[w].saves \o (worker[w].batch \o line[w])
    BY <2>1, ConcatEmptySeq
  <2>3. QED
    BY <1>2, <1>3, <1>4, <1>6, <2>2, Zenon DEF Pipe, Rest
<1>8. s.pc \notin {"last", "release", "gone"} /\ worker[w].pc \notin {"release", "gone"}
  BY <1>2, <1>3
<1>9. QED
  BY <1>3, <1>4, <1>5, <1>6, <1>7, <1>8, QuietWorker

LEMMA PickQuiet ==
  ASSUME QueueType, Shapes, NEW w \in Workers, Pick(w)
  PROVE  QueueType' /\ Shapes' /\ QuietStep
<1>1. PICK s : s = [worker[w] EXCEPT !.hand = <<Head(worker[w].batch)>>, !.batch = Tail(@), !.pc = "handle"]
  OBVIOUS
<1>2. /\ worker[w].pc \in {"loop", "last"} /\ worker[w].hand = <<>> /\ worker[w].batch # <<>>
      /\ worker[w] \in WorkerStates /\ worker[w].batch \in Seq(Requests) /\ worker[w].saves = <<>>
      /\ line[w] \in Seq(Requests) /\ <<>> \in Seq(Requests)
  BY PipeFacts DEF Pick, Looping, Shapes, Shape, Looking, FlushDue
<1>3. PICK h \in Requests, t \in Seq(Requests) : h = Head(worker[w].batch) /\ t = Tail(worker[w].batch)
  BY <1>2, FrontOfTail
<1>4. /\ s.hand = <<h>> /\ s.batch = t /\ s.saves = <<>> /\ s.pc = "handle" /\ s \in WorkerStates
  <2>a. <<h>> \in Seq(Requests)
    OBVIOUS
  <2>1. PICK q \in Seq(Requests) : q = <<h>>
    BY <2>a
  <2>2. s = [worker[w] EXCEPT !.hand = q, !.batch = t, !.pc = "handle"]
    BY <1>1, <1>3, <2>1
  <2>3. QED
    BY <1>2, <2>1, <2>2 DEF WorkerStates, Places, Single
<1>5. worker' = [worker EXCEPT ![w] = s] /\ worker'[w] = s
  BY <1>1 DEF Pick, QueueType
<1>6. Shape(s)
  BY <1>4, PoolAssumption DEF Shape, Looking, Single, Batched
<1>7. Unmoved /\ UNCHANGED <<status, line>>
  BY DEF Pick, Unmoved, flags, lanes, sink, queues
<1>8. Pipe(w)' = Pipe(w)
  <2>1. <<>> \o (worker[w].batch \o line[w]) = Append(<<>>, h) \o (t \o line[w])
    BY <1>2, <1>3, MoveOne
  <2>2. Append(<<>>, h) = <<h>>
    BY <1>2
  <2>3. worker[w].batch \o line[w] \in Seq(Requests) /\ t \o line[w] \in Seq(Requests)
    BY <1>2, <1>3, ConcatProperties
  <2>4. /\ <<>> \o (worker[w].batch \o line[w]) = worker[w].batch \o line[w]
        /\ <<>> \o (t \o line[w]) = t \o line[w]
    BY <2>3, ConcatEmptySeq
  <2>5. /\ Pipe(w) = <<>> \o (<<>> \o (worker[w].batch \o line[w]))
        /\ Pipe(w)' = <<h>> \o (<<>> \o (t \o line[w]))
    BY <1>2, <1>4, <1>5, <1>7, Zenon DEF Pipe, Rest
  <2>6. QED
    BY <2>1, <2>2, <2>4, <2>5, Zenon
<1>9. s.pc \notin {"last", "release", "gone"} /\ worker[w].pc \notin {"release", "gone"}
  BY <1>2, <1>4
<1>10. QED
  BY <1>4, <1>5, <1>6, <1>7, <1>8, <1>9, QuietWorker

LEMMA LoopEndQuiet ==
  ASSUME QueueType, Shapes, NEW w \in Workers, LoopEnd(w)
  PROVE  QueueType' /\ Shapes' /\ QuietStep
<1>1. PICK s : s = [worker[w] EXCEPT !.pc = "top"]
  OBVIOUS
<1>2. /\ worker[w].pc \in {"loop", "last"} /\ worker[w].hand = <<>> /\ worker[w].batch = <<>>
      /\ worker[w] \in WorkerStates /\ worker[w].saves = <<>>
  BY PipeFacts DEF LoopEnd, Looping, Shapes, Shape, Looking, NoMore
<1>3. /\ s.hand = <<>> /\ s.batch = <<>> /\ s.saves = <<>> /\ s.pc = "top" /\ s \in WorkerStates
  BY <1>1, <1>2 DEF WorkerStates, Places
<1>4. worker' = [worker EXCEPT ![w] = s] /\ worker'[w] = s
  BY <1>1 DEF LoopEnd, QueueType
<1>5. Shape(s)
  BY <1>3, PoolAssumption DEF Shape, Looking, Single, Batched
<1>6. Unmoved /\ UNCHANGED <<status, line>>
  BY DEF LoopEnd, Unmoved, flags, lanes, sink, queues
<1>7. Pipe(w)' = Pipe(w)
  BY <1>2, <1>3, <1>4, <1>6 DEF Pipe, Rest
<1>8. s.pc \notin {"last", "release", "gone"} /\ worker[w].pc \notin {"release", "gone"}
  BY <1>2, <1>3
<1>9. QED
  BY <1>3, <1>4, <1>5, <1>6, <1>7, <1>8, QuietWorker

(* The worker goes on with what it has in hand.                            *)
LEMMA GoesOn ==
  ASSUME QueueType, Shapes, NEW w \in Workers, Unmoved, UNCHANGED <<status, line>>,
         NEW s \in WorkerStates, worker' = [worker EXCEPT ![w] = s],
         s.hand = worker[w].hand, s.saves = worker[w].saves, s.batch = worker[w].batch,
         (worker[w].pc \in Single /\ s.pc \in Single) \/ (worker[w].pc \in Batched /\ s.pc \in Batched)
  PROVE  QueueType' /\ Shapes' /\ QuietStep
<1>1. Shape(s)
  BY DEF Shapes, Shape, Looking, Single, Batched
<1>2. worker'[w] = s
  BY DEF QueueType
<1>3. Pipe(w)' = Pipe(w)
  BY <1>2 DEF Pipe, Rest
<1>4. s.pc \notin {"last", "release", "gone"} /\ worker[w].pc \notin {"release", "gone"}
  BY DEF Single, Batched
<1>5. QED
  BY <1>1, <1>3, <1>4, QuietWorker

LEMMA TurnDownAnswers ==
  ASSUME QueueType, Shapes, NEW w \in Workers, TurnDown(w)
  PROVE  QueueType' /\ Shapes' /\ AnswerStep(w)
<1>1. Unmoved /\ UNCHANGED line
  BY DEF TurnDown, Unmoved, flags, lanes, queues
<1>2. /\ worker[w].pc \in Single /\ worker[w].usable \in BOOLEAN
      /\ worker' = Done(w, worker[w].usable)
  BY PipeFacts DEF TurnDown, Single, WorkerStates
<1>3. PICK st \in {"Expired", "Unavailable"} : Answer(<<InHand(w)>>, st)
  BY DEF TurnDown
<1>4. st \in Statuses \ {"none"}
  BY DEF Statuses
<1>5. QED
  BY <1>1, <1>2, <1>3, <1>4, AnswerWorker

LEMMA ExecuteMoves ==
  ASSUME QueueType, Shapes, NEW w \in Workers, Execute(w)
  PROVE  QueueType' /\ Shapes' /\ (QuietStep \/ AnswerStep(w))
<1>1. Unmoved /\ UNCHANGED line /\ worker[w].pc \in Single /\ worker[w] \in WorkerStates
  BY PipeFacts DEF Execute, Unmoved, flags, lanes, queues, Single
<1>2. ASSUME NEW up \in BOOLEAN, worker' = Done(w, up), NEW st \in {"Ok", "Failed", "Unavailable"},
             Answer(<<InHand(w)>>, st)
      PROVE  QueueType' /\ Shapes' /\ AnswerStep(w)
  <2>1. st \in Statuses \ {"none"}
    BY DEF Statuses
  <2>2. QED
    BY <1>1, <1>2, <2>1, AnswerWorker
<1>3. ASSUME worker' = [worker EXCEPT ![w].pc = "reopen", ![w].usable = FALSE], UNCHANGED status
      PROVE  QueueType' /\ Shapes' /\ QuietStep
  <2>1. PICK s : s = [worker[w] EXCEPT !.pc = "reopen", !.usable = FALSE]
    OBVIOUS
  <2>2. /\ s \in WorkerStates /\ s.hand = worker[w].hand /\ s.saves = worker[w].saves
        /\ s.batch = worker[w].batch /\ s.pc \in Single
    BY <1>1, <2>1 DEF WorkerStates, Places, Single
  <2>3. worker' = [worker EXCEPT ![w] = s]
    BY <1>3, <2>1 DEF QueueType
  <2>4. Unmoved /\ UNCHANGED <<status, line>>
    BY <1>1, <1>3
  <2>5. (worker[w].pc \in Single /\ s.pc \in Single) \/ (worker[w].pc \in Batched /\ s.pc \in Batched)
    BY <1>1, <2>2
  <2>6. QED
    BY <2>2, <2>3, <2>4, <2>5, GoesOn
<1>4. QED
  BY <1>2, <1>3 DEF Execute

LEMMA ReopenMoves ==
  ASSUME QueueType, Shapes, NEW w \in Workers, Reopen(w)
  PROVE  QueueType' /\ Shapes' /\ (QuietStep \/ AnswerStep(w))
<1>1. Unmoved /\ UNCHANGED line /\ worker[w].pc \in Single /\ worker[w] \in WorkerStates
  BY PipeFacts DEF Reopen, Unmoved, flags, lanes, queues, Single
<1>2. ASSUME worker' = Done(w, FALSE), Answer(<<InHand(w)>>, "Unavailable")
      PROVE  QueueType' /\ Shapes' /\ AnswerStep(w)
  <2>1. "Unavailable" \in Statuses \ {"none"}
    BY DEF Statuses
  <2>2. QED
    BY <1>1, <1>2, <2>1, AnswerWorker
<1>3. ASSUME worker' = [worker EXCEPT ![w].pc = "retry", ![w].usable = TRUE], UNCHANGED status
      PROVE  QueueType' /\ Shapes' /\ QuietStep
  <2>1. PICK s : s = [worker[w] EXCEPT !.pc = "retry", !.usable = TRUE]
    OBVIOUS
  <2>2. /\ s \in WorkerStates /\ s.hand = worker[w].hand /\ s.saves = worker[w].saves
        /\ s.batch = worker[w].batch /\ s.pc \in Single
    BY <1>1, <2>1 DEF WorkerStates, Places, Single
  <2>3. worker' = [worker EXCEPT ![w] = s]
    BY <1>3, <2>1 DEF QueueType
  <2>4. Unmoved /\ UNCHANGED <<status, line>>
    BY <1>1, <1>3
  <2>5. (worker[w].pc \in Single /\ s.pc \in Single) \/ (worker[w].pc \in Batched /\ s.pc \in Batched)
    BY <1>1, <2>2
  <2>6. QED
    BY <2>2, <2>3, <2>4, <2>5, GoesOn
<1>4. QED
  BY <1>2, <1>3 DEF Reopen

LEMMA FailAnswers ==
  ASSUME QueueType, Shapes, NEW w \in Workers, Unmoved, UNCHANGED line,
         worker[w].pc \in Batched, NEW up \in BOOLEAN, FailBatch(w, up)
  PROVE  QueueType' /\ Shapes' /\ AnswerStep(w)
<1>1. PICK st \in {"Failed", "Unavailable"} : Answer(worker[w].hand, st)
  BY DEF FailBatch
<1>2. st \in Statuses \ {"none"}
  BY DEF Statuses
<1>3. worker' = Done(w, up)
  BY DEF FailBatch
<1>4. worker[w].pc \in Single \union Batched
  OBVIOUS
<1>5. QED
  BY <1>1, <1>2, <1>3, <1>4, AnswerWorker

LEMMA BeginMoves ==
  ASSUME QueueType, Shapes, NEW w \in Workers, BeginBatch(w)
  PROVE  QueueType' /\ Shapes' /\ (QuietStep \/ AnswerStep(w))
<1>1. Unmoved /\ UNCHANGED line /\ worker[w].pc \in Batched /\ worker[w] \in WorkerStates
  BY PipeFacts DEF BeginBatch, Unmoved, flags, lanes, queues, Batched
<1>2. ASSUME NEW up \in BOOLEAN, FailBatch(w, up)
      PROVE  QueueType' /\ Shapes' /\ AnswerStep(w)
  BY <1>1, <1>2, FailAnswers
<1>3. ASSUME worker' = [worker EXCEPT ![w].pc = "insert"], UNCHANGED status
      PROVE  QueueType' /\ Shapes' /\ QuietStep
  <2>1. PICK s : s = [worker[w] EXCEPT !.pc = "insert"]
    OBVIOUS
  <2>2. /\ s \in WorkerStates /\ s.hand = worker[w].hand /\ s.saves = worker[w].saves
        /\ s.batch = worker[w].batch /\ s.pc \in Batched
    BY <1>1, <2>1 DEF WorkerStates, Places, Batched
  <2>3. worker' = [worker EXCEPT ![w] = s]
    BY <1>3, <2>1 DEF QueueType
  <2>4. Unmoved /\ UNCHANGED <<status, line>>
    BY <1>1, <1>3
  <2>5. (worker[w].pc \in Single /\ s.pc \in Single) \/ (worker[w].pc \in Batched /\ s.pc \in Batched)
    BY <1>1, <2>2
  <2>6. QED
    BY <2>2, <2>3, <2>4, <2>5, GoesOn
<1>4. QED
  BY <1>2, <1>3 DEF BeginBatch

LEMMA InsertMoves ==
  ASSUME QueueType, Shapes, NEW w \in Workers, InsertBatch(w)
  PROVE  QueueType' /\ Shapes' /\ (QuietStep \/ AnswerStep(w))
<1>1. Unmoved /\ UNCHANGED line /\ worker[w].pc \in Batched /\ worker[w] \in WorkerStates
  BY PipeFacts DEF InsertBatch, Unmoved, flags, lanes, queues, Batched
<1>2. ASSUME NEW up \in BOOLEAN, FailBatch(w, up)
      PROVE  QueueType' /\ Shapes' /\ AnswerStep(w)
  BY <1>1, <1>2, FailAnswers
<1>3. ASSUME UNCHANGED status, NEW p \in {"insert", "commit"},
             worker' = [worker EXCEPT ![w].done = @ + 1, ![w].pc = p]
      PROVE  QueueType' /\ Shapes' /\ QuietStep
  <2>1. PICK s : s = [worker[w] EXCEPT !.done = @ + 1, !.pc = p]
    OBVIOUS
  <2>2. /\ s \in WorkerStates /\ s.hand = worker[w].hand /\ s.saves = worker[w].saves
        /\ s.batch = worker[w].batch /\ s.pc \in Batched
    <3>1. p \in Places /\ p \in Batched /\ worker[w].done + 1 \in Nat
      BY <1>1, <1>3 DEF WorkerStates, Places, Batched
    <3>2. QED
      BY <1>1, <2>1, <3>1 DEF WorkerStates
  <2>3. worker' = [worker EXCEPT ![w] = s]
    BY <1>3, <2>1 DEF QueueType
  <2>4. Unmoved /\ UNCHANGED <<status, line>>
    BY <1>1, <1>3
  <2>5. (worker[w].pc \in Single /\ s.pc \in Single) \/ (worker[w].pc \in Batched /\ s.pc \in Batched)
    BY <1>1, <2>2
  <2>6. QED
    BY <2>2, <2>3, <2>4, <2>5, GoesOn
<1>4. QED
  BY <1>2, <1>3 DEF InsertBatch

LEMMA CommitAnswers ==
  ASSUME QueueType, Shapes, NEW w \in Workers, CommitBatch(w)
  PROVE  QueueType' /\ Shapes' /\ AnswerStep(w)
<1>1. Unmoved /\ UNCHANGED line /\ worker[w].pc \in Batched /\ worker[w] \in WorkerStates
  BY PipeFacts DEF CommitBatch, Unmoved, flags, lanes, queues, Batched
<1>2. ASSUME NEW up \in BOOLEAN, FailBatch(w, up)
      PROVE  QueueType' /\ Shapes' /\ AnswerStep(w)
  BY <1>1, <1>2, FailAnswers
<1>3. ASSUME worker' = Done(w, TRUE), Answer(worker[w].hand, "Ok")
      PROVE  QueueType' /\ Shapes' /\ AnswerStep(w)
  <2>1. "Ok" \in Statuses \ {"none"}
    BY DEF Statuses
  <2>2. QED
    <3>1. worker[w].pc \in Single \union Batched /\ TRUE \in BOOLEAN
      BY <1>1
    <3>2. QED
      BY <1>1, <1>3, <2>1, <3>1, AnswerWorker
<1>4. QED
  BY <1>2, <1>3 DEF CommitBatch

-----------------------------------------------------------------------------
(* The steps that move a request in or out keep the types and shapes.      *)
LEMMA TakeShapes ==
  ASSUME QueueType, Shapes, NEW w \in Workers, Take(w)
  PROVE  QueueType' /\ Shapes'
<1>1. PICK k \in Keys : /\ line[k] # <<>>
                        /\ worker' = [worker EXCEPT ![w].batch = <<Head(line[k])>>]
                        /\ line' = [line EXCEPT ![k] = Tail(@)]
                        /\ serving' = serving \union {k}
  BY DEF Take, Takeable
<1>2. Head(line[k]) \in Requests /\ Tail(line[k]) \in Seq(Requests) /\ <<Head(line[k])>> \in Seq(Requests)
  BY <1>1, LineFacts, FrontOfTail
<1>3. /\ worker' \in [Workers -> WorkerStates] /\ worker'[w].pc = "loop" /\ worker[w].pc = "loop"
      /\ worker'[w].hand = worker[w].hand /\ worker'[w].saves = worker[w].saves
      /\ \A v \in Workers : v # w => worker'[v] = worker[v]
  <2>1. PICK q \in Seq(Requests) : q = <<Head(line[k])>>
    BY <1>2
  <2>2. worker[w].pc = "loop" /\ worker' = [worker EXCEPT ![w].batch = q]
    BY <1>1, <2>1 DEF Take
  <2>3. QED
    BY <2>2 DEF QueueType, WorkerStates
<1>4. line' \in [Workers \union Keys -> Seq(Requests)]
  BY <1>1, <1>2 DEF QueueType
<1>5. UNCHANGED <<dispatch, running, draining, joined, pos, checked, expired, accepted, status>>
  BY DEF Take, flags, lanes, sink
<1>6. QueueType'
  BY <1>1, <1>3, <1>4, <1>5 DEF QueueType
<1>7. Shape(worker'[w])
  BY <1>3 DEF Shapes, Shape, Looking, Single, Batched
<1>8. Shapes'
  BY <1>3, <1>5, <1>7 DEF Shapes, Static
<1>9. QED
  BY <1>6, <1>8

LEMMA ReleaseShapes ==
  ASSUME QueueType, Shapes, NEW w \in Workers, Release(w)
  PROVE  QueueType' /\ Shapes'
<1>1. Resume \in {"loop", "last"} /\ (Resume = "last" => ~Static /\ ~running)
  BY DEF Resume
<1>2. /\ worker' \in [Workers -> WorkerStates] /\ worker'[w].pc = Resume
      /\ worker'[w].hand = <<>> /\ worker'[w].saves = worker[w].saves
      /\ \A v \in Workers : v # w => worker'[v] = worker[v]
  BY <1>1 DEF Release, QueueType, WorkerStates, Places, Looking
<1>3. UNCHANGED <<dispatch, running, draining, joined, pos, checked, line, expired, accepted, status>>
  BY DEF Release, flags, lanes, sink
<1>4. QueueType'
  BY <1>2, <1>3 DEF QueueType, Release
<1>5. Shape(worker'[w])
  BY <1>1, <1>2 DEF Shapes, Shape, Looking, Single, Batched
<1>6. Shapes'
  BY <1>1, <1>2, <1>3, <1>5 DEF Shapes, Static
<1>7. QED
  BY <1>4, <1>6

LEMMA ExitShapes ==
  ASSUME QueueType, Shapes, NEW w \in Workers, Exit(w)
  PROVE  QueueType' /\ Shapes'
<1>1. /\ worker' \in [Workers -> WorkerStates] /\ worker'[w].pc = "gone" /\ worker[w].pc = "top"
      /\ worker'[w].hand = worker[w].hand /\ worker'[w].saves = worker[w].saves
      /\ worker'[w].batch = worker[w].batch
      /\ \A v \in Workers : v # w => worker'[v] = worker[v]
  BY DEF Exit, QueueType, WorkerStates, Places
<1>2. /\ UNCHANGED <<dispatch, running, draining, joined, pos, checked, serving, expired, accepted>>
      /\ line' = [line EXCEPT ![w] = <<>>] /\ ~running
      /\ status' = [r \in Requests |-> IF r \in Range(TailOf(w)) THEN "Unavailable" ELSE status[r]]
  BY DEF Exit, flags, lanes, Answer
<1>3. line' \in [Workers \union Keys -> Seq(Requests)] /\ status' \in [Requests -> Statuses]
  BY <1>2 DEF QueueType, Statuses
<1>4. QueueType'
  BY <1>1, <1>2, <1>3 DEF QueueType
<1>5. Shape(worker'[w])
  BY <1>1 DEF Shapes, Shape, Looking, Single, Batched
<1>6. Shapes'
  BY <1>1, <1>2, <1>5 DEF Shapes, Static
<1>7. QED
  BY <1>4, <1>6

LEMMA PushShapes ==
  ASSUME QueueType, Shapes, Pushed, NEW k \in Keys, SubmitPush(k)
  PROVE  QueueType' /\ Shapes'
<1>1. PICK r : r = NextOf(k)
  OBVIOUS
<1>2. r \in Requests /\ KeyOf[r] = k /\ LineOf(r) \in Workers \union Keys
  <2>1. pos[k] \in Nat \ {0} /\ pos[k] <= Len(Script[k]) /\ Len(Script[k]) \in Nat
    BY PoolAssumption, LenProperties DEF SubmitPush, QueueType
  <2>2. pos[k] \in 1..Len(Script[k])
    BY <2>1
  <2>3. QED
    BY <1>1, <2>2, ScriptFacts, PoolAssumption DEF NextOf, LineOf
<1>3. /\ UNCHANGED <<dispatch, running, draining, joined, serving, worker, expired, status>>
      /\ checked' = checked \ {k} /\ pos' = [pos EXCEPT ![k] = @ + 1]
      /\ line' = line \/ line' = [line EXCEPT ![LineOf(r)] = Append(@, r)]
      /\ accepted' \subseteq accepted \union {r}
  BY <1>1 DEF SubmitPush, flags, sink
<1>4. line' \in [Workers \union Keys -> Seq(Requests)]
  <2>1. PICK l \in Workers \union Keys : l = LineOf(r)
    BY <1>2
  <2>2. PICK q \in Seq(Requests) : q = Append(line[l], r)
    BY <1>2, <2>1, AppendProperties DEF QueueType
  <2>3. line' = line \/ line' = [line EXCEPT ![l] = q]
    BY <1>3, <2>1, <2>2
  <2>4. QED
    BY <2>3 DEF QueueType
<1>5. pos' \in [Keys -> Nat \ {0}] /\ \A j \in checked' : pos'[j] <= Len(Script[j]) /\ j \in Keys
  BY <1>3 DEF QueueType
<1>6. QueueType'
  BY <1>2, <1>3, <1>4, <1>5 DEF QueueType
<1>7. Shapes'
  BY <1>3 DEF Shapes, Static
<1>8. QED
  BY <1>6, <1>7

LEMMA JoinShapes ==
  ASSUME QueueType, Shapes, Join
  PROVE  QueueType' /\ Shapes'
<1>1. /\ UNCHANGED <<dispatch, running, draining, pos, checked, serving, worker, expired, accepted>>
      /\ joined' = TRUE
  BY DEF Join, lanes
<1>2. line' \in [Workers \union Keys -> Seq(Requests)] /\ status' \in [Requests -> Statuses]
  <2>1. CASE Static
    BY <2>1 DEF Join, QueueType
  <2>2. CASE ~Static
    <3>1. /\ status' = [r \in Requests |-> IF r \in Waiting THEN "Unavailable" ELSE status[r]]
          /\ line' = [l \in DOMAIN line |-> IF l \in Keys THEN <<>> ELSE line[l]]
      BY <2>2 DEF Join
    <3>2. QED
      BY <3>1 DEF QueueType, Statuses
  <2>3. QED
    BY <2>1, <2>2
<1>3. QED
  BY <1>1, <1>2 DEF QueueType, Shapes, Static

(* Everybody else's steps leave queues, workers and answers alone.         *)
LEMMA ElsewhereQuiet ==
  ASSUME QueueType, Shapes, UNCHANGED <<dispatch, joined, line, serving, worker, accepted, status>>,
         running' \in BOOLEAN, draining' \in BOOLEAN, running' => running,
         pos' \in [Keys -> Nat \ {0}], \A k \in Keys : pos[k] <= pos'[k],
         checked' \subseteq Keys, \A k \in checked' : pos'[k] <= Len(Script[k]),
         expired' \subseteq Requests
  PROVE  QueueType' /\ Shapes' /\ QuietStep
<1>1. QueueType'
  BY DEF QueueType
<1>2. Shapes'
  BY DEF Shapes, Static
<1>3. QuietStep
  BY DEF QuietStep, Frame
<1>4. QED
  BY <1>1, <1>2, <1>3

LEMMA SubmitCheckQuiet ==
  ASSUME QueueType, Shapes, NEW k \in Keys, SubmitCheck(k)
  PROVE  QueueType' /\ Shapes' /\ QuietStep
<1>1. /\ UNCHANGED <<dispatch, running, draining, joined, line, serving, worker, expired, accepted, status>>
      /\ pos[k] <= Len(Script[k]) /\ k \notin checked
  BY DEF SubmitCheck, MaySubmit, flags, queues, sink
<1>2. \/ checked' = checked \union {k} /\ UNCHANGED pos
      \/ pos' = [pos EXCEPT ![k] = @ + 1] /\ UNCHANGED checked
  BY DEF SubmitCheck
<1>3. pos \in [Keys -> Nat \ {0}] /\ checked \subseteq Keys /\ \A j \in checked : pos[j] <= Len(Script[j])
  BY DEF QueueType
<1>4. pos' \in [Keys -> Nat \ {0}] /\ \A j \in Keys : pos[j] <= pos'[j]
  BY <1>2, <1>3
<1>5. checked' \subseteq Keys /\ \A j \in checked' : pos'[j] <= Len(Script[j])
  BY <1>1, <1>2, <1>3
<1>6. QED
  BY <1>1, <1>4, <1>5, ElsewhereQuiet DEF QueueType

(* The whole step, and with it the invariant.                              *)
LEMMA IInvStep ==
  ASSUME IInv, [Next]_vars
  PROVE  IInv'
<1>1. QueueType /\ Shapes /\ PlaceInv
  BY DEF IInv
<1>2. SUFFICES QueueType' /\ Shapes' /\ PlaceInv'
  BY DEF IInv
<1>3. ASSUME NEW k \in Keys, SubmitCheck(k) PROVE QueueType' /\ Shapes' /\ PlaceInv'
  BY <1>1, <1>3, SubmitCheckQuiet, QuietKeeps
<1>4. ASSUME NEW k \in Keys, SubmitPush(k) PROVE QueueType' /\ Shapes' /\ PlaceInv'
  BY <1>1, <1>4, PushShapes, PushKeeps DEF PlaceInv
<1>5. ASSUME NEW w \in Workers, Worker(w) PROVE QueueType' /\ Shapes' /\ PlaceInv'
  <2>1. CASE Top(w)
    BY <1>1, <2>1, TopQuiet, QuietKeeps
  <2>2. CASE Take(w)
    BY <1>1, <2>2, TakeShapes, TakeKeeps
  <2>3. CASE Collect(w)
    BY <1>1, <2>3, CollectQuiet, QuietKeeps
  <2>4. CASE Flush(w)
    BY <1>1, <2>4, FlushQuiet, QuietKeeps
  <2>5. CASE Pick(w)
    BY <1>1, <2>5, PickQuiet, QuietKeeps
  <2>6. CASE LoopEnd(w)
    BY <1>1, <2>6, LoopEndQuiet, QuietKeeps
  <2>7. CASE TurnDown(w)
    BY <1>1, <2>7, TurnDownAnswers, AnswerKeeps
  <2>8. CASE Execute(w)
    BY <1>1, <2>8, ExecuteMoves, QuietKeeps, AnswerKeeps
  <2>9. CASE Reopen(w)
    BY <1>1, <2>9, ReopenMoves, QuietKeeps, AnswerKeeps
  <2>10. CASE BeginBatch(w)
    BY <1>1, <2>10, BeginMoves, QuietKeeps, AnswerKeeps
  <2>11. CASE InsertBatch(w)
    BY <1>1, <2>11, InsertMoves, QuietKeeps, AnswerKeeps
  <2>12. CASE CommitBatch(w)
    BY <1>1, <2>12, CommitAnswers, AnswerKeeps
  <2>13. CASE Release(w)
    BY <1>1, <2>13, ReleaseShapes, ReleaseKeeps
  <2>14. CASE Exit(w)
    BY <1>1, <2>14, ExitShapes, ExitKeeps
  <2>15. QED
    BY <1>5, <2>1, <2>2, <2>3, <2>4, <2>5, <2>6, <2>7, <2>8, <2>9, <2>10, <2>11, <2>12,
       <2>13, <2>14 DEF Worker
<1>6. CASE Join
  BY <1>1, <1>6, JoinShapes, JoinKeeps
<1>7. ASSUME UNCHANGED <<dispatch, joined, pos, checked, line, serving, worker, accepted, status>>,
             running' \in BOOLEAN, draining' \in BOOLEAN, running' => running,
             expired' \subseteq Requests
      PROVE  QueueType' /\ Shapes' /\ PlaceInv'
  <2>1. /\ pos' \in [Keys -> Nat \ {0}] /\ \A k \in Keys : pos[k] <= pos'[k]
        /\ checked' \subseteq Keys /\ \A k \in checked' : pos'[k] <= Len(Script[k])
    BY <1>1, <1>7 DEF QueueType
  <2>2. QueueType' /\ Shapes' /\ QuietStep
    BY <1>1, <1>7, <2>1, ElsewhereQuiet
  <2>3. QED
    BY <1>1, <2>2, QuietKeeps
<1>8. running \in BOOLEAN /\ draining \in BOOLEAN /\ expired \subseteq Requests
  BY <1>1 DEF QueueType
<1>9. ASSUME NEW r \in Requests, MissDeadline(r) PROVE QueueType' /\ Shapes' /\ PlaceInv'
  <2>1. /\ UNCHANGED <<dispatch, running, draining, joined, pos, checked, line, serving, worker, accepted, status>>
        /\ expired' \subseteq Requests
    BY <1>8, <1>9 DEF MissDeadline, flags, lanes, queues, sink
  <2>2. QED
    BY <1>7, <1>8, <2>1
<1>10. ASSUME NEW w \in Workers, Drop(w) PROVE QueueType' /\ Shapes' /\ PlaceInv'
  <2>1. UNCHANGED <<dispatch, running, draining, joined, pos, checked, line, serving, worker, expired, accepted, status>>
    BY <1>10 DEF Drop, flags, lanes, queues, sink
  <2>2. QED
    BY <1>7, <1>8, <2>1
<1>11. CASE RunsOn \/ UNCHANGED vars
  <2>1. UNCHANGED <<dispatch, running, draining, joined, pos, checked, line, serving, worker, expired, accepted, status>>
    BY <1>11 DEF RunsOn, vars, flags, lanes, queues, sink
  <2>2. QED
    BY <1>7, <1>8, <2>1
<1>12. CASE Drain \/ Stop
  <2>1. /\ UNCHANGED <<dispatch, joined, pos, checked, line, serving, worker, expired, accepted, status>>
        /\ running' \in BOOLEAN /\ draining' \in BOOLEAN /\ (running' => running)
    BY <1>8, <1>12 DEF Drain, Stop, lanes, queues, sink
  <2>2. QED
    BY <1>7, <1>8, <2>1
<1>13. QED
  BY <1>3, <1>4, <1>5, <1>6, <1>9, <1>10, <1>11, <1>12 DEF Next, Stopped

LEMMA IInvInit ==
  ASSUME Init
  PROVE  IInv
<1>1. /\ dispatch \in {"Static", "Dynamic"} /\ running = TRUE /\ draining = FALSE /\ joined = FALSE
      /\ pos = [k \in Keys |-> 1] /\ checked = {} /\ line = [l \in Workers \union Keys |-> <<>>]
      /\ serving = {} /\ expired = {} /\ accepted = {} /\ status = [r \in Requests |-> "none"]
  BY DEF Init
<1>2. PICK up \in BOOLEAN :
        worker = [w \in Workers |-> [pc |-> "top", batch |-> <<>>, saves |-> <<>>, hand |-> <<>>,
                                     done |-> 0, usable |-> up]]
  BY DEF Init
<1>3. worker \in [Workers -> WorkerStates]
  BY <1>2 DEF WorkerStates, Places
<1>4. QueueType
  <2>1. line \in [Workers \union Keys -> Seq(Requests)]
    BY <1>1
  <2>2. status \in [Requests -> Statuses]
    BY <1>1 DEF Statuses
  <2>3. pos \in [Keys -> Nat \ {0}]
    BY <1>1
  <2>4. QED
    BY <1>1, <1>3, <2>1, <2>2, <2>3 DEF QueueType
<1>5. Shapes
  BY <1>2, PoolAssumption DEF Shapes, Shape, Looking, Single, Batched
<1>6. /\ \A w \in Workers : Pipe(w) = <<>> /\ InPipe(w) = {} /\ line[w] = <<>>
      /\ \A k \in Keys : line[k] = <<>> /\ Range(line[k]) = {}
  <2>1. \A k \in Workers \union Keys : line[k] = <<>>
    BY <1>1
  <2>2. <<>> \in Seq(Requests)
    OBVIOUS
  <2>3. <<>> \o <<>> = <<>>
    BY <2>2, ConcatEmptySeq
  <2>4. ASSUME NEW w \in Workers PROVE Pipe(w) = <<>>
    <3>1. worker[w].hand = <<>> /\ worker[w].saves = <<>> /\ worker[w].batch = <<>>
      BY <1>2
    <3>2. line[w] = <<>>
      BY <2>1
    <3>3. QED
      BY <2>3, <3>1, <3>2, Zenon DEF Pipe, Rest
  <2>5. QED
    BY <2>1, <2>4, RangeEmpty DEF InPipe
<1>7. \A r : ~InUse(r)
  BY <1>6 DEF InUse
<1>8. InOrder /\ Home /\ Exclusive
  BY <1>6, EmptyOrdered DEF InOrder, Home, Exclusive
<1>9. Pushed /\ NoOvertaking
  BY <1>1, <1>7 DEF Pushed, NoOvertaking
<1>10. Unanswered
  <2>1. \A w \in Workers : worker[w].pc = "top"
    BY <1>2
  <2>2. QED
    BY <1>6, <2>1 DEF Unanswered
<1>11. Kept
  <2>1. \A w \in Workers : worker[w].pc = "top"
    BY <1>2
  <2>2. QED
    BY <1>1, <2>1 DEF Kept
<1>12. QED
  BY <1>4, <1>5, <1>8, <1>9, <1>10, <1>11 DEF IInv, PlaceInv

LEMMA IInvHolds == Spec => []IInv
<1>1. Init => IInv
  BY IInvInit
<1>2. IInv /\ [Next]_vars => IInv'
  BY IInvStep
<1>3. QED
  BY <1>1, <1>2, PTL DEF Spec

-----------------------------------------------------------------------------
(* The counters: depth is what is in use, to the last request.             *)
LEMMA UsedFacts ==
  /\ \A l : IsFiniteSet(UsedAt(l)) /\ Cardinality(UsedAt(l)) \in Nat /\ UsedAt(l) \subseteq Requests
  /\ IsFiniteSet(Requests)
<1>1. IsFiniteSet(Requests)
  BY PoolAssumption
<1>2. \A l : UsedAt(l) \subseteq Requests
  BY DEF UsedAt
<1>3. \A l : IsFiniteSet(UsedAt(l))
  BY <1>1, <1>2, FS_Subset
<1>4. QED
  BY <1>1, <1>2, <1>3, FS_CardinalityType

LEMMA CheckedFacts ==
  ASSUME checked \subseteq Keys, NEW w
  PROVE  /\ IsFiniteSet(CheckedAt(w)) /\ Cardinality(CheckedAt(w)) \in Nat
         /\ Cardinality(CheckedAt(w)) <= Cardinality(Keys) /\ Cardinality(Keys) \in Nat
         /\ IsFiniteSet(Keys)
<1>1. IsFiniteSet(Keys) /\ CheckedAt(w) \subseteq Keys
  BY PoolAssumption DEF CheckedAt
<1>2. QED
  BY <1>1, FS_Subset, FS_CardinalityType

LEMMA DepthSame ==
  ASSUME QueueType, DepthInv, UNCHANGED <<dispatch, depth>>, \A r : InUse(r)' <=> InUse(r),
         checked' \subseteq checked
  PROVE  DepthInv'
<1>1. Static' = Static /\ \A r : DepthOf(r)' = DepthOf(r)
  BY DEF Static, DepthOf
<1>2. \A l : UsedAt(l)' = UsedAt(l)
  BY <1>1 DEF UsedAt
<1>3. DepthExact'
  BY <1>2 DEF DepthInv, DepthExact
<1>4. \A w : Cardinality(CheckedAt(w)') \in Nat /\ Cardinality(CheckedAt(w)') <= Cardinality(CheckedAt(w))
  <2>1. \A w : IsFiniteSet(CheckedAt(w)) /\ CheckedAt(w)' \subseteq CheckedAt(w)
    BY CheckedFacts DEF CheckedAt, QueueType
  <2>2. QED
    BY <2>1, FS_Subset, FS_CardinalityType
<1>5. Room'
  <2>1. ASSUME Static, NEW w \in Workers
        PROVE  depth[w] + Cardinality(CheckedAt(w)') <= Cap + Cardinality(Keys) - 1
    <3>1. depth[w] + Cardinality(CheckedAt(w)) <= Cap + Cardinality(Keys) - 1
      BY <2>1 DEF DepthInv, Room
    <3>2. depth[w] \in Nat /\ Cardinality(CheckedAt(w)) \in Nat /\ Cap \in Nat /\ Cardinality(Keys) \in Nat
      BY CheckedFacts, PoolAssumption DEF QueueType, DepthInv
    <3>3. QED
      BY <1>4, <3>1, <3>2
  <2>2. QED
    BY <1>1, <2>1 DEF DepthInv, Room
<1>6. QED
  BY <1>3, <1>5 DEF DepthInv

(* submit checks the depth before it pushes: until it has pushed, every    *)
(* lane that is past the check may be one too many.                        *)
LEMMA DepthCheck ==
  ASSUME QueueType, PlaceInv, Shapes, DepthInv, NEW k \in Keys, SubmitCheck(k)
  PROVE  DepthInv'
<1>1. UNCHANGED <<dispatch, depth>> /\ Static' = Static /\ \A r : InUse(r)' <=> InUse(r)
  <2>1. QuietStep
    BY SubmitCheckQuiet
  <2>2. QED
    BY <2>1, QuietKeeps DEF SubmitCheck, flags, queues, Static
<1>2. CASE checked' \subseteq checked
  BY <1>1, <1>2, DepthSame
<1>3. CASE checked' = checked \union {k} /\ Admitted(k)
  <2>1. \A l : UsedAt(l)' = UsedAt(l)
    BY <1>1 DEF UsedAt, DepthOf
  <2>2. DepthExact'
    BY <1>1, <2>1 DEF DepthInv, DepthExact
  <2>3. ASSUME Static, NEW w \in Workers
        PROVE  depth[w] + Cardinality(CheckedAt(w)') <= Cap + Cardinality(Keys) - 1
    <3>1. /\ depth[w] \in Nat /\ Cap \in Nat /\ checked' \subseteq Keys
      BY <1>3, PoolAssumption DEF QueueType, DepthInv
    <3>2. /\ Cardinality(CheckedAt(w)') \in Nat /\ Cardinality(CheckedAt(w)') <= Cardinality(Keys)
          /\ Cardinality(Keys) \in Nat /\ Cardinality(CheckedAt(w)) \in Nat
      <4>1. CheckedAt(w)' \subseteq Keys /\ IsFiniteSet(Keys)
        BY <3>1, PoolAssumption DEF CheckedAt
      <4>2. QED
        BY <4>1, FS_Subset, FS_CardinalityType, CheckedFacts DEF QueueType
    <3>3. CASE Shard[k] = w
      <4>1. depth[w] < Cap
        <5>1. KeyOf[NextOf(k)] = k
          <6>1. pos[k] \in Nat \ {0} /\ pos[k] <= Len(Script[k]) /\ Len(Script[k]) \in Nat
            BY PoolAssumption, LenProperties DEF SubmitCheck, MaySubmit, QueueType
          <6>2. pos[k] \in 1..Len(Script[k])
            BY <6>1
          <6>3. QED
            BY <6>2, ScriptFacts DEF NextOf
        <5>2. QED
          BY <1>3, <2>3, <3>3, <5>1 DEF Admitted, DepthOf, CapOf
      <4>2. QED
        BY <3>1, <3>2, <4>1
    <3>4. CASE Shard[k] # w
      <4>1. CheckedAt(w)' = CheckedAt(w)
        BY <1>3, <3>4 DEF CheckedAt
      <4>2. QED
        BY <2>3, <4>1 DEF DepthInv, Room
    <3>5. QED
      BY <3>3, <3>4
  <2>4. Room'
    BY <1>1, <2>3 DEF DepthInv, Room
  <2>5. QED
    BY <1>1, <2>2, <2>4 DEF DepthInv
<1>4. QED
  BY <1>2, <1>3 DEF SubmitCheck

LEMMA DepthPush ==
  ASSUME QueueType, PlaceInv, Shapes, DepthInv, NEW k \in Keys, SubmitPush(k)
  PROVE  DepthInv'
<1>1. PICK r : r = NextOf(k)
  OBVIOUS
<1>2. r \in Requests /\ KeyOf[r] = k
  <2>1. pos[k] \in Nat \ {0} /\ pos[k] <= Len(Script[k]) /\ Len(Script[k]) \in Nat
    BY PoolAssumption, LenProperties DEF SubmitPush, QueueType
  <2>2. pos[k] \in 1..Len(Script[k])
    BY <2>1
  <2>3. QED
    BY <1>1, <2>2, ScriptFacts DEF NextOf
<1>3. /\ UNCHANGED dispatch /\ Static' = Static /\ checked' = checked \ {k} /\ k \in checked
      /\ \A x : DepthOf(x)' = DepthOf(x)
  BY DEF SubmitPush, flags, Static, DepthOf
<1>4. ~InUse(r) /\ \A x : InUse(x)' <=> (InUse(x) \/ (Pushes(k) /\ x = r))
  BY <1>1, PushKeeps
<1>5. CASE ~Pushes(k)
  <2>1. UNCHANGED depth
    BY <1>5 DEF SubmitPush, Pushes
  <2>2. QED
    BY <1>3, <1>4, <1>5, <2>1, DepthSame
<1>6. CASE Pushes(k)
  <2>1. PICK m : m = DepthOf(r)
    OBVIOUS
  <2>2. /\ m \in Workers \union {Shared} /\ (Static => m = Shard[k] /\ m # Shared) /\ (~Static => m = Shared)
        /\ depth' = [depth EXCEPT ![m] = @ + 1]
    <3>1. Shard[k] \in Workers /\ Shared \notin Workers
      BY PoolAssumption
    <3>2. QED
      BY <1>1, <1>2, <1>6, <2>1, <3>1 DEF SubmitPush, Pushes, DepthOf
  <2>3. /\ depth' \in [Workers \union {Shared} -> Nat] /\ depth'[m] = depth[m] + 1 /\ depth[m] \in Nat
        /\ \A l \in Workers \union {Shared} : l # m => depth'[l] = depth[l]
    BY <2>2 DEF DepthInv
  <2>4. /\ UsedAt(m)' = UsedAt(m) \union {r} /\ r \notin UsedAt(m)
        /\ \A l : l # m => UsedAt(l)' = UsedAt(l)
    BY <1>2, <1>3, <1>4, <1>6, <2>1 DEF UsedAt
  <2>5. Cardinality(UsedAt(m)') = Cardinality(UsedAt(m)) + 1
    BY <2>4, UsedFacts, FS_AddElement
  <2>6. DepthExact'
    BY <2>2, <2>3, <2>4, <2>5 DEF DepthInv, DepthExact
  <2>7. ASSUME Static, NEW w \in Workers
        PROVE  depth'[w] + Cardinality(CheckedAt(w)') <= Cap + Cardinality(Keys) - 1
    <3>1. depth[w] + Cardinality(CheckedAt(w)) <= Cap + Cardinality(Keys) - 1
      BY <2>7 DEF DepthInv, Room
    <3>2. /\ depth[w] \in Nat /\ Cardinality(CheckedAt(w)) \in Nat /\ IsFiniteSet(CheckedAt(w))
          /\ Cap \in Nat /\ Cardinality(Keys) \in Nat
      BY CheckedFacts, PoolAssumption DEF QueueType, DepthInv
    <3>3. CASE w = m
      <4>1. CheckedAt(w)' = CheckedAt(w) \ {k} /\ k \in CheckedAt(w)
        BY <1>3, <2>2, <2>7, <3>3 DEF CheckedAt
      <4>2. Cardinality(CheckedAt(w)') = Cardinality(CheckedAt(w)) - 1
        BY <3>2, <4>1, FS_RemoveElement
      <4>3. QED
        BY <2>3, <3>1, <3>2, <3>3, <4>2
    <3>4. CASE w # m
      <4>1. CheckedAt(w)' = CheckedAt(w)
        BY <1>3, <2>2, <2>7, <3>4 DEF CheckedAt
      <4>2. QED
        BY <2>3, <3>1, <3>4, <4>1
    <3>5. QED
      BY <3>3, <3>4
  <2>8. depth'[Shared] <= Cap * Cardinality(Workers)
    <3>1. CASE Static
      BY <2>2, <2>3, <3>1 DEF DepthInv, Room
    <3>2. CASE ~Static
      <4>1. depth[Shared] < Cap * Cardinality(Workers)
        BY <1>1, <1>6, <3>2 DEF Pushes, CapOf
      <4>2. Cap * Cardinality(Workers) \in Nat
        <5>1. Cap \in Nat /\ Cardinality(Workers) \in Nat
          BY PoolAssumption, FS_CardinalityType
        <5>2. QED
          BY <5>1
      <4>3. QED
        BY <2>2, <2>3, <3>2, <4>1, <4>2
    <3>3. QED
      BY <3>1, <3>2
  <2>9. QED
    BY <1>3, <2>3, <2>6, <2>7, <2>8 DEF DepthInv, Room
<1>7. QED
  BY <1>5, <1>6

(* What leaves a counter: a set of requests that were in use under it.     *)
LEMMA DepthLess ==
  ASSUME QueueType, DepthInv, UNCHANGED <<dispatch, checked>>, NEW m \in Workers \union {Shared},
         NEW S \in SUBSET UsedAt(m), NEW n \in Nat, n = Cardinality(S),
         depth' = [depth EXCEPT ![m] = @ - n],
         \A r \in Requests : InUse(r)' <=> (InUse(r) /\ r \notin S)
  PROVE  DepthInv'
<1>1. Static' = Static /\ (\A x : DepthOf(x)' = DepthOf(x)) /\ \A w : CheckedAt(w)' = CheckedAt(w)
  BY DEF Static, DepthOf, CheckedAt
<1>2. UsedAt(m)' = UsedAt(m) \ S /\ \A l : l # m => UsedAt(l)' = UsedAt(l)
  BY <1>1 DEF UsedAt
<1>3. /\ IsFiniteSet(UsedAt(m)) /\ IsFiniteSet(UsedAt(m) \ S) /\ IsFiniteSet(S)
      /\ Cardinality(UsedAt(m) \ S) = Cardinality(UsedAt(m)) - n /\ Cardinality(UsedAt(m) \ S) \in Nat
  <2>1. IsFiniteSet(UsedAt(m)) /\ IsFiniteSet(S)
    BY UsedFacts, FS_Subset
  <2>2. UsedAt(m) \intersect S = S
    OBVIOUS
  <2>3. IsFiniteSet(UsedAt(m) \ S) /\ Cardinality(UsedAt(m) \ S) = Cardinality(UsedAt(m)) - n
    BY <2>1, <2>2, FS_Difference
  <2>4. QED
    BY <2>1, <2>3, FS_CardinalityType
<1>4. depth[m] = Cardinality(UsedAt(m)) /\ depth \in [Workers \union {Shared} -> Nat]
  BY DEF DepthInv, DepthExact
<1>5. /\ depth' \in [Workers \union {Shared} -> Nat] /\ depth'[m] = Cardinality(UsedAt(m) \ S)
      /\ depth'[m] <= depth[m]
      /\ \A l \in Workers \union {Shared} : l # m => depth'[l] = depth[l]
  BY <1>3, <1>4
<1>6. DepthExact'
  BY <1>2, <1>5 DEF DepthInv, DepthExact
<1>7. \A l \in Workers \union {Shared} : depth'[l] <= depth[l] /\ depth'[l] \in Nat /\ depth[l] \in Nat
  BY <1>4, <1>5
<1>8. ASSUME Static, NEW w \in Workers
      PROVE  depth'[w] + Cardinality(CheckedAt(w)) <= Cap + Cardinality(Keys) - 1
  <2>1. depth[w] + Cardinality(CheckedAt(w)) <= Cap + Cardinality(Keys) - 1
    BY <1>8 DEF DepthInv, Room
  <2>2. Cardinality(CheckedAt(w)) \in Nat /\ Cap \in Nat /\ Cardinality(Keys) \in Nat
    BY CheckedFacts, PoolAssumption DEF QueueType
  <2>3. QED
    BY <1>7, <2>1, <2>2
<1>9. depth'[Shared] <= Cap * Cardinality(Workers)
  <2>1. Cap \in Nat /\ Cardinality(Workers) \in Nat
    BY PoolAssumption, FS_CardinalityType
  <2>2. Cap * Cardinality(Workers) \in Nat
    BY <2>1
  <2>3. depth[Shared] <= Cap * Cardinality(Workers)
    BY DEF DepthInv, Room
  <2>4. QED
    BY <1>7, <2>2, <2>3
<1>10. QED
  BY <1>1, <1>5, <1>6, <1>8, <1>9 DEF DepthInv, Room

LEMMA DepthRelease ==
  ASSUME QueueType, PlaceInv, Shapes, DepthInv, NEW w \in Workers, Release(w)
  PROVE  DepthInv'
<1>1. /\ worker[w].hand \in Seq(Requests) /\ worker[w].hand # <<>>
      /\ Range(worker[w].hand) \subseteq InPipe(w) /\ Range(worker[w].hand) \subseteq Requests
  BY PipeFacts DEF Release, Shapes, Shape
<1>2. InHand(w) \in Range(worker[w].hand)
  BY <1>1, RangeOne DEF InHand
<1>3. PICK m : m = DepthOf(InHand(w))
  OBVIOUS
<1>4. m \in Workers \union {Shared} /\ \A r \in Range(worker[w].hand) : DepthOf(r) = m
  BY <1>1, <1>2, <1>3 DEF DepthOf, PlaceInv, Home
<1>5. Range(worker[w].hand) \subseteq UsedAt(m)
  BY <1>1, <1>4 DEF UsedAt, InUse
<1>6. Len(worker[w].hand) \in Nat /\ Len(worker[w].hand) = Cardinality(Range(worker[w].hand))
  <2>1. Ordered(worker[w].hand)
    BY PipeFacts, ConcatOrdered DEF PlaceInv, InOrder, Pipe
  <2>2. QED
    BY <1>1, <2>1, OrderedCount, LenProperties
<1>7. UNCHANGED <<dispatch, checked>> /\ depth' = [depth EXCEPT ![m] = @ - Len(worker[w].hand)]
  BY <1>3 DEF Release, flags, lanes
<1>8. \A r \in Requests : InUse(r)' <=> (InUse(r) /\ r \notin Range(worker[w].hand))
  BY ReleaseKeeps
<1>9. QED
  BY <1>4, <1>5, <1>6, <1>7, <1>8, DepthLess

LEMMA DepthExit ==
  ASSUME QueueType, PlaceInv, Shapes, DepthInv, NEW w \in Workers, Exit(w)
  PROVE  DepthInv'
<1>1. line[w] \in Seq(Requests) /\ Range(line[w]) \subseteq Requests
  <2>1. line[w] \in Seq(Requests)
    BY PipeFacts
  <2>2. QED
    BY <2>1, RangeOfSeq
<1>2. TailOf(w) = line[w]
  BY DEF TailOf, PlaceInv, Home
<1>3. InPipe(w) = Range(line[w]) /\ Ordered(line[w])
  <2>1. worker[w].hand = <<>> /\ worker[w].saves = <<>> /\ worker[w].batch = <<>>
    BY DEF Exit, Shapes, Shape
  <2>2. <<>> \o line[w] = line[w]
    BY <1>1, ConcatEmptySeq
  <2>3. Pipe(w) = line[w]
    BY <2>1, <2>2, Zenon DEF Pipe, Rest
  <2>4. QED
    BY <2>3 DEF InPipe, PlaceInv, InOrder
<1>4. Range(line[w]) \subseteq UsedAt(w)
  <2>1. ~Static => Range(line[w]) = {}
    BY RangeEmpty DEF PlaceInv, Home
  <2>2. Static => \A r \in Range(line[w]) : InUse(r) /\ DepthOf(r) = w
    BY <1>3 DEF DepthOf, InUse, PlaceInv, Home
  <2>3. QED
    BY <1>1, <2>1, <2>2 DEF UsedAt
<1>5. Len(line[w]) \in Nat /\ Len(line[w]) = Cardinality(Range(line[w]))
  BY <1>1, <1>3, OrderedCount, LenProperties
<1>6. UNCHANGED <<dispatch, checked>> /\ depth' = [depth EXCEPT ![w] = @ - Len(line[w])]
  BY <1>2 DEF Exit, flags, lanes
<1>7. \A r \in Requests : InUse(r)' <=> (InUse(r) /\ r \notin Range(line[w]))
  BY <1>2, ExitKeeps
<1>8. QED
  BY <1>4, <1>5, <1>6, <1>7, DepthLess

LEMMA DepthJoin ==
  ASSUME QueueType, PlaceInv, Shapes, DepthInv, Join
  PROVE  DepthInv'
<1>1. UNCHANGED <<dispatch, checked>>
  BY DEF Join, lanes
<1>2. CASE Static
  BY <1>1, <1>2, JoinKeeps, DepthSame DEF Join
<1>3. CASE ~Static
  <2>1. (\A r : ~InUse(r)' /\ (InUse(r) <=> r \in Waiting)) /\ depth' = [depth EXCEPT ![Shared] = @ - Cardinality(Waiting)]
    BY <1>3, JoinKeeps DEF Join
  <2>2. Waiting \subseteq Requests
    BY LineFacts DEF Waiting
  <2>3. Waiting \subseteq UsedAt(Shared)
    BY <1>3, <2>1, <2>2 DEF UsedAt, DepthOf
  <2>4. Cardinality(Waiting) \in Nat
    BY <2>3, UsedFacts, FS_Subset, FS_CardinalityType
  <2>5. QED
    BY <1>1, <2>1, <2>3, <2>4, DepthLess
<1>4. QED
  BY <1>2, <1>3

PoolInv == IInv /\ DepthInv

LEMMA PoolStep ==
  ASSUME PoolInv, [Next]_vars
  PROVE  PoolInv'
<1>1. QueueType /\ Shapes /\ PlaceInv /\ DepthInv
  BY DEF PoolInv, IInv
<1>2. SUFFICES DepthInv'
  BY IInvStep DEF PoolInv
<1>3. ASSUME UNCHANGED <<dispatch, depth, checked>>, \A r : InUse(r)' <=> InUse(r) PROVE DepthInv'
  BY <1>1, <1>3, DepthSame
<1>4. ASSUME NEW k \in Keys, SubmitCheck(k) \/ SubmitPush(k) PROVE DepthInv'
  BY <1>1, <1>4, DepthCheck, DepthPush
<1>5. ASSUME NEW w \in Workers, Worker(w) PROVE DepthInv'
  <2>1. CASE Top(w)
    <3>1. UNCHANGED <<dispatch, depth, checked>>
      BY <2>1 DEF Top, flags, lanes
    <3>2. QED
      BY <1>1, <1>3, <2>1, <3>1, TopQuiet, QuietKeeps
  <2>2. CASE Take(w)
    <3>1. UNCHANGED <<dispatch, depth, checked>>
      BY <2>2 DEF Take, flags, lanes
    <3>2. QED
      BY <1>1, <1>3, <2>2, <3>1, TakeKeeps
  <2>3. CASE Collect(w) \/ Flush(w) \/ Pick(w) \/ LoopEnd(w)
    <3>1. UNCHANGED <<dispatch, depth, checked>>
      BY <2>3 DEF Collect, Flush, Pick, LoopEnd, flags, lanes, queues
    <3>2. QuietStep
      BY <1>1, <2>3, CollectQuiet, FlushQuiet, PickQuiet, LoopEndQuiet
    <3>3. QED
      BY <1>1, <1>3, <3>1, <3>2, QuietKeeps
  <2>4. CASE TurnDown(w) \/ Execute(w) \/ Reopen(w) \/ BeginBatch(w) \/ InsertBatch(w) \/ CommitBatch(w)
    <3>1. UNCHANGED <<dispatch, depth, checked>>
      BY <2>4 DEF TurnDown, Execute, Reopen, BeginBatch, InsertBatch, CommitBatch, flags, lanes, queues
    <3>2. QuietStep \/ AnswerStep(w)
      BY <1>1, <2>4, TurnDownAnswers, ExecuteMoves, ReopenMoves, BeginMoves, InsertMoves, CommitAnswers
    <3>3. \A r : InUse(r)' <=> InUse(r)
      BY <1>1, <3>2, QuietKeeps, AnswerKeeps
    <3>4. QED
      BY <1>3, <3>1, <3>3
  <2>5. CASE Release(w)
    BY <1>1, <2>5, DepthRelease
  <2>6. CASE Exit(w)
    BY <1>1, <2>6, DepthExit
  <2>7. QED
    BY <1>5, <2>1, <2>2, <2>3, <2>4, <2>5, <2>6 DEF Worker
<1>6. CASE Join
  BY <1>1, <1>6, DepthJoin
<1>7. ASSUME UNCHANGED <<dispatch, checked, line, worker, depth>> PROVE DepthInv'
  <2>1. \A r : InUse(r)' <=> InUse(r)
    BY <1>7 DEF InUse, InPipe, Pipe, Rest
  <2>2. QED
    BY <1>3, <1>7, <2>1
<1>8. CASE (\E r \in Requests : MissDeadline(r)) \/ (\E w \in Workers : Drop(w))
           \/ RunsOn \/ Drain \/ Stop \/ UNCHANGED vars
  <2>1. UNCHANGED <<dispatch, checked, line, worker, depth>>
    BY <1>8 DEF MissDeadline, Drop, RunsOn, Drain, Stop, vars, flags, lanes, queues
  <2>2. QED
    BY <1>7, <2>1
<1>9. QED
  BY <1>4, <1>5, <1>6, <1>8 DEF Next, Stopped

LEMMA PoolInit ==
  ASSUME Init
  PROVE  PoolInv
<1>1. IInv
  BY IInvInit
<1>2. /\ line = [l \in Workers \union Keys |-> <<>>] /\ checked = {}
      /\ depth = [l \in Workers \union {Shared} |-> 0]
  BY DEF Init
<1>3. \A r \in Requests : ~InUse(r)
  <2>1. \A w \in Workers : worker[w].hand = <<>> /\ worker[w].saves = <<>> /\ worker[w].batch = <<>>
    BY DEF Init
  <2>2. <<>> \in Seq(Requests)
    OBVIOUS
  <2>3. <<>> \o <<>> = <<>>
    BY <2>2, ConcatEmptySeq
  <2>4. \A w \in Workers : line[w] = <<>>
    BY <1>2
  <2>5. \A w \in Workers : Pipe(w) = <<>>
    BY <2>1, <2>3, <2>4, Zenon DEF Pipe, Rest
  <2>6. \A k \in Keys : line[k] = <<>>
    BY <1>2
  <2>7. QED
    BY <2>5, <2>6, RangeEmpty DEF InUse, InPipe
<1>4. \A l : UsedAt(l) = {}
  BY <1>3 DEF UsedAt
<1>5. DepthExact
  BY <1>2, <1>4, FS_EmptySet DEF DepthExact
<1>6. Room
  <2>1. \A w : CheckedAt(w) = {} /\ Cardinality(CheckedAt(w)) = 0
    BY <1>2, FS_EmptySet DEF CheckedAt
  <2>2. Cap \in Nat \ {0} /\ Cardinality(Keys) \in Nat /\ Cardinality(Workers) \in Nat
    BY PoolAssumption, FS_CardinalityType
  <2>3. Cap * Cardinality(Workers) \in Nat /\ 0 <= Cap + Cardinality(Keys) - 1
    BY <2>2
  <2>4. depth[Shared] = 0 /\ \A w \in Workers : depth[w] = 0
    BY <1>2
  <2>5. QED
    BY <2>1, <2>3, <2>4 DEF Room
<1>7. QED
  BY <1>1, <1>2, <1>5, <1>6 DEF PoolInv, DepthInv

LEMMA PoolHolds == Spec => []PoolInv
<1>1. Init => PoolInv
  BY PoolInit
<1>2. PoolInv /\ [Next]_vars => PoolInv'
  BY PoolStep
<1>3. QED
  BY <1>1, <1>2, PTL DEF Spec

-----------------------------------------------------------------------------
(* When queued() is 0, every request that was taken on has been answered:  *)
(* the counters drain polls miss nothing that is still on its way.         *)
THEOREM DrainIsComplete == Spec => []DrainComplete
<1>1. ASSUME PoolInv, NothingQueued, NEW r \in accepted PROVE status[r] # "none"
  <2>1. QueueType /\ Kept /\ DepthInv /\ r \in Requests
    BY <1>1 DEF PoolInv, IInv, PlaceInv, QueueType
  <2>2. SUFFICES ASSUME status[r] = "none" PROVE FALSE
    OBVIOUS
  <2>3. InUse(r)
    BY <1>1, <2>1, <2>2 DEF Kept
  <2>4. PICK l : l = DepthOf(r)
    OBVIOUS
  <2>5. r \in UsedAt(l) /\ l \in Workers \union {Shared} /\ depth[l] = 0
    BY <1>1, <2>1, <2>3, <2>4, ScriptFacts, PoolAssumption DEF UsedAt, DepthOf, NothingQueued
  <2>6. Cardinality(UsedAt(l)) = 0
    BY <2>1, <2>5 DEF DepthInv, DepthExact
  <2>7. QED
    BY <2>5, <2>6, UsedFacts, FS_EmptySet
<1>2. PoolInv => DrainComplete
  BY <1>1 DEF DrainComplete
<1>3. QED
  BY <1>2, PoolHolds, PTL

(* When stop has returned, every request that was taken on while the pool  *)
(* was running has its answer, whatever broke and whoever raced with stop. *)
THEOREM NobodyForgotten == Spec => []NoneForgotten
<1>1. ASSUME IInv, joined, NEW r \in accepted PROVE status[r] # "none"
  <2>1. SUFFICES ASSUME status[r] = "none" PROVE FALSE
    OBVIOUS
  <2>2. Kept
    BY <1>1 DEF IInv, PlaceInv
  <2>3. InUse(r)
    BY <1>1, <2>1, <2>2 DEF Kept
  <2>4. QED
    BY <1>1, <2>2, <2>3 DEF Kept, InUse
<1>2. IInv => NoneForgotten
  BY <1>1 DEF NoneForgotten
<1>3. QED
  BY <1>2, IInvHolds, PTL

(* Nothing that was taken on is overtaken by a later request of its        *)
(* session, in whatever batches and by whichever workers they are served.  *)
THEOREM NothingOvertaken == Spec => []NoneOvertaken
<1>1. ASSUME IInv, NEW k \in Keys, NEW i \in DOMAIN Script[k], NEW j \in DOMAIN Script[k], i < j,
             status[Script[k][j]] # "none", Script[k][i] \in accepted
      PROVE  status[Script[k][i]] # "none"
  <2>1. SUFFICES ASSUME status[Script[k][i]] = "none" PROVE FALSE
    OBVIOUS
  <2>2. Kept /\ NoOvertaking
    BY <1>1 DEF IInv, PlaceInv
  <2>3. /\ DOMAIN Script[k] = 1..Len(Script[k])
        /\ KeyOf[Script[k][i]] = k /\ Index(Script[k][i]) = i /\ Script[k][i] \in Requests
        /\ KeyOf[Script[k][j]] = k /\ Index(Script[k][j]) = j /\ Script[k][j] \in Requests
    <3>1. DOMAIN Script[k] = 1..Len(Script[k])
      BY PoolAssumption, LenProperties
    <3>2. QED
      BY <3>1, ScriptFacts
  <2>4. InUse(Script[k][i])
    BY <1>1, <2>1, <2>2 DEF Kept
  <2>5. Before(Script[k][j], Script[k][i])
    BY <1>1, <2>1, <2>2, <2>3, <2>4 DEF NoOvertaking
  <2>6. j < i /\ i \in Int /\ j \in Int
    BY <2>3, <2>5 DEF Before
  <2>7. QED
    BY <1>1, <2>6
<1>2. IInv => NoneOvertaken
  BY <1>1 DEF NoneOvertaken
<1>3. QED
  BY <1>2, IInvHolds, PTL
=============================================================================
