--------------------------- MODULE ServicesProofs ---------------------------
(***************************************************************************)
(* Proofs about Services, for any connections and bounds: the tables of    *)
(* both lanes keep no entry of a connection that is gone without its end   *)
(* on the way, no relayed session key is lost between the lanes, and every *)
(* request of an open connection is answered once or on its way.           *)
(***************************************************************************)
EXTENDS Services, SequenceTheorems, FiniteSetTheorems, TLAPS

Places == {"idle", "first", "batch"}
Events == [kind : Requests \union {"connected", "disconnected"}, conn : Conns]
LaneStates == [pc : Places, first : Seq(Conns), batch : Seq(Events)]

(* What the queues hold.                                                   *)
QueueType ==
  /\ stage \in [Conns -> {"new", "game", "chat"}]
  /\ inbound \in [Lanes -> Seq(Events)] /\ inbox \in [Lanes -> Seq(Conns)]
  /\ lane \in [Lanes -> LaneStates]
  /\ \A s \in Lanes : /\ lane[s].pc # "first" => lane[s].first = <<>>
                      /\ lane[s].pc # "batch" => lane[s].batch = <<>>
  /\ table \in [Lanes -> SUBSET Conns]
  /\ pending \subseteq Conns \ table["chat"] /\ named \subseteq table["chat"]
  /\ closing \subseteq closed /\ closed \subseteq Conns

CountType ==
  /\ asked \in [Conns -> 0..MaxMessages] /\ replied \in [Conns -> Nat]
  /\ pool \in [Conns -> Nat]

(* Who has a notice, an entry or an end has begun to come.                 *)
Started ==
  /\ \A c \in closed : stage[c] # "new"
  /\ \A s \in Lanes : \A c \in table[s] : stage[c] # "new"
  /\ \A s \in Lanes, c \in Conns : Coming(s, "connected", c) => stage[c] # "new"

(* The end of a connection is told after it was closed; one that is closed *)
(* before the chat service was told of it is known as early.               *)
EndAfterClose ==
  /\ \A s \in Lanes, c \in Conns : Coming(s, "disconnected", c) => c \in closed
  /\ \A c \in closed : stage[c] # "chat" => c \in early

(* No notice of the coming of c is behind one of its going, early apart.   *)
InOrder(q, c) ==
  \A i, j \in DOMAIN q :
    i < j /\ q[i] = Event("disconnected", c) => q[j] # Event("connected", c)
Ordered(b, q, c) ==
  /\ InOrder(b, c) /\ InOrder(q, c)
  /\ Event("disconnected", c) \in Range(b) => Event("connected", c) \notin Range(q)
NoticesInOrder ==
  \A s \in Lanes, c \in Conns :
    s = "game" \/ c \notin early => Ordered(lane[s].batch, inbound[s], c)

(* A member is in the table or about to come, once the chat service was    *)
(* told of it, while it is open and no handler threw over it.              *)
MemberOrComing ==
  \A c \in Conns \ (closed \union deaf) :
    stage[c] = "chat" => c \in table["chat"] \/ Coming("chat", "connected", c)

(* A key kept while a batch runs finds its Connected in that batch.        *)
KeptIsComing ==
  lane["chat"].pc = "batch" =>
    \A c \in pending \ (missed \union closed \union deaf) :
      Event("connected", c) \in Range(lane["chat"].batch)

(* The key of an open connection is on its way, is the name of its member, *)
(* or is kept.                                                             *)
KeySomewhere ==
  \A c \in relayed \ (missed \union closed \union deaf) :
    c \in Range(inbox["chat"]) \union Range(lane["chat"].first) \union named \union pending

NoticeInv == Started /\ EndAfterClose /\ NoticesInOrder /\ NoOrphan
NameInv == MemberOrComing /\ KeptIsComing /\ KeySomewhere
CoreInv == QueueType /\ NoticeInv /\ NameInv
IInv == CoreInv /\ CountType

-----------------------------------------------------------------------------
(* Queues.                                                                 *)
LEMMA RangeAppend ==
  ASSUME NEW S, NEW q \in Seq(S), NEW e \in S
  PROVE  Range(Append(q, e)) = Range(q) \union {e}
BY AppendProperties, LenProperties DEF Range

LEMMA RangeEmpty == Range(<<>>) = {}
BY DEF Range

LEMMA RangeTail ==
  ASSUME NEW S, NEW q \in Seq(S), q # <<>>
  PROVE  /\ Range(q) = {Head(q)} \union Range(Tail(q))
         /\ Head(q) \in S /\ Tail(q) \in Seq(S)
<1>1. /\ Len(q) \in Nat \ {0} /\ DOMAIN q = 1..Len(q) /\ Head(q) = q[1]
      /\ Tail(q) \in Seq(S) /\ Len(Tail(q)) = Len(q) - 1
      /\ \A i \in 1..Len(Tail(q)) : Tail(q)[i] = q[i + 1]
  BY HeadTailProperties, EmptySeq, LenProperties
<1>2. DOMAIN Tail(q) = 1..Len(q) - 1
  BY <1>1
<1>3. \A i \in 1..Len(q) - 1 : i + 1 \in 1..Len(q)
  BY <1>1
<1>4. \A i \in 1..Len(q) : i = 1 \/ (i - 1 \in 1..Len(q) - 1 /\ (i - 1) + 1 = i)
  BY <1>1
<1>5. 1 \in 1..Len(q)
  BY <1>1
<1>6. ASSUME NEW x \in Range(q) PROVE x \in {Head(q)} \union Range(Tail(q))
  <2>1. PICK i \in 1..Len(q) : q[i] = x
    BY <1>1 DEF Range
  <2>2. CASE i = 1
    BY <1>1, <2>1, <2>2
  <2>3. CASE i # 1
    <3>1. i - 1 \in 1..Len(q) - 1 /\ (i - 1) + 1 = i
      BY <1>4, <2>3
    <3>2. Tail(q)[i - 1] = x
      BY <1>1, <2>1, <3>1
    <3>3. QED
      BY <1>2, <3>1, <3>2 DEF Range
  <2>4. QED
    BY <2>2, <2>3
<1>7. Head(q) \in Range(q)
  BY <1>1, <1>5 DEF Range
<1>8. ASSUME NEW x \in Range(Tail(q)) PROVE x \in Range(q)
  <2>1. PICK i \in 1..Len(q) - 1 : Tail(q)[i] = x
    BY <1>2 DEF Range
  <2>2. q[i + 1] = x /\ i + 1 \in 1..Len(q)
    BY <1>1, <1>3, <2>1
  <2>3. QED
    BY <1>1, <2>2 DEF Range
<1>9. Head(q) \in S
  BY HeadTailProperties
<1>10. QED
  BY <1>1, <1>6, <1>7, <1>8, <1>9

LEMMA EventFacts ==
  /\ \A k, l, c, d : Event(k, c) = Event(l, d) => k = l /\ c = d
  /\ \A e \in Events : e = Event(e.kind, e.conn) /\ e.conn \in Conns
  /\ \A c \in Conns : \A k \in Requests \union {"connected", "disconnected"} : Event(k, c) \in Events
  /\ \A c, d : Event("connected", c) # Event("disconnected", d)
<1>1. \A k, l, c, d : Event(k, c) = Event(l, d) => k = l /\ c = d
  BY DEF Event
<1>2. \A e \in Events : e = Event(e.kind, e.conn) /\ e.conn \in Conns
  BY DEF Event, Events
<1>3. \A c \in Conns : \A k \in Requests \union {"connected", "disconnected"} : Event(k, c) \in Events
  BY DEF Event, Events
<1>4. \A c, d : Event("connected", c) # Event("disconnected", d)
  BY <1>1
<1>5. QED
  BY <1>1, <1>2, <1>3, <1>4

(* The order of the notices of c, in a batch b and the queue q behind it.  *)
LEMMA OrderedPost ==
  ASSUME NEW b \in Seq(Events), NEW q \in Seq(Events), NEW e \in Events, NEW c,
         Ordered(b, q, c),
         e = Event("connected", c) => Event("disconnected", c) \notin Range(b) \union Range(q)
  PROVE  Ordered(b, Append(q, e), c)
<1>1. /\ Len(q) \in Nat /\ DOMAIN q = 1..Len(q) /\ DOMAIN Append(q, e) = 1..Len(q) + 1
      /\ Append(q, e)[Len(q) + 1] = e
      /\ \A i \in 1..Len(q) : Append(q, e)[i] = q[i]
  BY AppendProperties, LenProperties
<1>2. InOrder(Append(q, e), c)
  <2>1. SUFFICES ASSUME NEW i \in 1..Len(q) + 1, NEW j \in 1..Len(q) + 1, i < j,
                        Append(q, e)[i] = Event("disconnected", c),
                        Append(q, e)[j] = Event("connected", c)
                 PROVE  FALSE
    BY <1>1 DEF InOrder
  <2>2. i \in 1..Len(q) /\ q[i] = Event("disconnected", c)
    BY <1>1, <2>1
  <2>3. CASE j \in 1..Len(q)
    <3>1. q[j] = Event("connected", c)
      BY <1>1, <2>1, <2>3
    <3>2. QED
      BY <1>1, <2>1, <2>2, <2>3, <3>1 DEF Ordered, InOrder
  <2>4. CASE j \notin 1..Len(q)
    <3>1. e = Event("connected", c)
      BY <1>1, <2>1, <2>4
    <3>2. Event("disconnected", c) \in Range(q)
      BY <1>1, <2>2 DEF Range
    <3>3. QED
      BY <3>1, <3>2
  <2>5. QED
    BY <2>3, <2>4
<1>3. Range(Append(q, e)) = Range(q) \union {e}
  BY RangeAppend
<1>4. QED
  BY <1>2, <1>3 DEF Ordered

LEMMA OrderedTail ==
  ASSUME NEW b \in Seq(Events), NEW q \in Seq(Events), NEW c, Ordered(b, q, c), b # <<>>
  PROVE  /\ Ordered(Tail(b), q, c)
         /\ Head(b) = Event("disconnected", c) =>
              Event("connected", c) \notin Range(Tail(b)) \union Range(q)
<1>1. /\ Len(b) \in Nat \ {0} /\ DOMAIN b = 1..Len(b) /\ Head(b) = b[1]
      /\ Tail(b) \in Seq(Events) /\ Len(Tail(b)) = Len(b) - 1
      /\ \A i \in 1..Len(Tail(b)) : Tail(b)[i] = b[i + 1]
  BY HeadTailProperties, EmptySeq, LenProperties
<1>2. DOMAIN Tail(b) = 1..Len(b) - 1
  BY <1>1
<1>3. InOrder(Tail(b), c)
  <2>1. SUFFICES ASSUME NEW i \in 1..Len(b) - 1, NEW j \in 1..Len(b) - 1, i < j,
                        Tail(b)[i] = Event("disconnected", c), Tail(b)[j] = Event("connected", c)
                 PROVE  FALSE
    BY <1>2 DEF InOrder
  <2>2. /\ i + 1 \in 1..Len(b) /\ j + 1 \in 1..Len(b) /\ i + 1 < j + 1
    BY <1>1, <2>1
  <2>3. b[i + 1] = Event("disconnected", c) /\ b[j + 1] = Event("connected", c)
    BY <1>1, <2>1
  <2>4. QED
    BY <1>1, <2>2, <2>3 DEF Ordered, InOrder
<1>4. Range(b) = {Head(b)} \union Range(Tail(b))
  BY RangeTail
<1>5. Ordered(Tail(b), q, c)
  BY <1>3, <1>4 DEF Ordered
<1>6. ASSUME Head(b) = Event("disconnected", c), Event("connected", c) \in Range(Tail(b)) PROVE FALSE
  <2>1. PICK i \in 1..Len(b) - 1 : Tail(b)[i] = Event("connected", c)
    BY <1>2, <1>6 DEF Range
  <2>2. 1 \in 1..Len(b) /\ i + 1 \in 1..Len(b) /\ 1 < i + 1
    BY <1>1
  <2>3. b[1] = Event("disconnected", c) /\ b[i + 1] = Event("connected", c)
    BY <1>1, <1>6, <2>1
  <2>4. QED
    BY <1>1, <2>2, <2>3 DEF Ordered, InOrder
<1>7. Head(b) = Event("disconnected", c) => Event("connected", c) \notin Range(q)
  BY <1>4 DEF Ordered
<1>8. QED
  BY <1>5, <1>6, <1>7

LEMMA OrderedSwap ==
  ASSUME NEW b, NEW q, NEW c, Ordered(b, q, c)
  PROVE  Ordered(q, <<>>, c)
BY RangeEmpty DEF Ordered, InOrder

-----------------------------------------------------------------------------
(* What a lane does with a notice or an end, and what closes a connection. *)
CloseStep(c) ==
  \/ UNCHANGED <<closed, closing, inbound, early>>
  \/ /\ stage[c] # "new" /\ c \notin closed
     /\ closed' = closed \union {c} /\ closing' = closing \union {c}
     /\ inbound' = [inbound EXCEPT !["game"] = Append(inbound["game"], Event("disconnected", c))]
     /\ early' = IF stage[c] = "chat" THEN early ELSE early \union {c}

TakeStep(s) ==
  /\ \A t \in Lanes : t # s => lane'[t].batch = lane[t].batch /\ table'[t] = table[t]
  /\ \/ lane'[s].batch = lane[s].batch /\ table'[s] \subseteq table[s]
     \/ /\ lane[s].batch # <<>> /\ lane'[s].batch = Tail(lane[s].batch)
        /\ \A c \in table'[s] : c \in table[s] \/ Head(lane[s].batch) = Event("connected", c)
        /\ \A c \in Conns : Head(lane[s].batch) = Event("disconnected", c) => c \notin table'[s]

LEMMA QueueFacts ==
  ASSUME QueueType, NEW s \in Lanes
  PROVE  /\ inbound[s] \in Seq(Events) /\ inbox[s] \in Seq(Conns)
         /\ lane[s].pc \in Places /\ lane[s].first \in Seq(Conns) /\ lane[s].batch \in Seq(Events)
BY DEF QueueType, LaneStates

LEMMA NoticeKeeps ==
  ASSUME QueueType, NoticeInv, NEW s \in Lanes, NEW c \in Conns, stage' = stage,
         CloseStep(c), TakeStep(s)
  PROVE  NoticeInv'
<1>1. \A t \in Lanes : inbound[t] \in Seq(Events) /\ lane[t].batch \in Seq(Events)
  BY QueueFacts
<1>2. /\ \A t \in Lanes : \/ inbound'[t] = inbound[t]
                          \/ /\ t = "game" /\ c \in closed'
                             /\ inbound'[t] = Append(inbound[t], Event("disconnected", c))
      /\ closed \subseteq closed' /\ closing \subseteq closing' /\ early \subseteq early'
      /\ \A d \in closed' : d \notin closed =>
           /\ d = c /\ stage[d] # "new" /\ (stage[d] # "chat" => d \in early') /\ d \in closing'
           /\ inbound'["game"] = Append(inbound["game"], Event("disconnected", d))
  <2>1. CASE UNCHANGED <<closed, closing, inbound, early>>
    BY <2>1
  <2>2. CASE ~UNCHANGED <<closed, closing, inbound, early>>
    BY <2>2 DEF CloseStep, QueueType, Lanes
  <2>3. QED
    BY <2>1, <2>2
<1>3. Event("disconnected", c) \in Events
  BY EventFacts
<1>4. \A t \in Lanes : \/ inbound'[t] = inbound[t]
                       \/ /\ t = "game" /\ c \in closed'
                          /\ Range(inbound'[t]) = Range(inbound[t]) \union {Event("disconnected", c)}
  <2>1. \A t \in Lanes : Range(Append(inbound[t], Event("disconnected", c)))
                            = Range(inbound[t]) \union {Event("disconnected", c)}
    BY <1>1, <1>3, RangeAppend
  <2>2. QED
    BY <1>2, <2>1
<1>5. \A t \in Lanes : \/ lane'[t].batch = lane[t].batch
                       \/ /\ t = s /\ lane[s].batch # <<>>
                          /\ Range(lane[s].batch) = {Head(lane[s].batch)} \union Range(lane'[s].batch)
                          /\ lane'[s].batch = Tail(lane[s].batch)
                          /\ \A d \in table'[s] : d \in table[s] \/ Head(lane[s].batch) = Event("connected", d)
                          /\ \A d \in Conns : Head(lane[s].batch) = Event("disconnected", d) => d \notin table'[s]
  BY <1>1, RangeTail DEF TakeStep
<1>6. \A t \in Lanes, k \in {"connected", "disconnected"}, d \in Conns :
        /\ Coming(t, k, d)' => \/ Coming(t, k, d)
                               \/ t = "game" /\ k = "disconnected" /\ d = c /\ c \in closed'
        /\ Coming(t, k, d) => Coming(t, k, d)' \/ (t = s /\ Head(lane[s].batch) = Event(k, d)
                                                   /\ lane'[s].batch # lane[s].batch)
  <2>1. SUFFICES ASSUME NEW t \in Lanes, NEW k \in {"connected", "disconnected"}, NEW d \in Conns
                 PROVE  /\ Coming(t, k, d)' => \/ Coming(t, k, d)
                                               \/ t = "game" /\ k = "disconnected" /\ d = c /\ c \in closed'
                        /\ Coming(t, k, d) => Coming(t, k, d)' \/ (t = s /\ Head(lane[s].batch) = Event(k, d)
                                                                   /\ lane'[s].batch # lane[s].batch)
    BY Zenon
  <2>2. Event(k, d) \in Range(inbound'[t]) => \/ Event(k, d) \in Range(inbound[t])
                                              \/ t = "game" /\ k = "disconnected" /\ d = c /\ c \in closed'
    <3>1. Event(k, d) = Event("disconnected", c) => k = "disconnected" /\ d = c
      BY DEF Event
    <3>2. CASE inbound'[t] = inbound[t]
      BY <3>2
    <3>3. CASE /\ t = "game" /\ c \in closed'
               /\ Range(inbound'[t]) = Range(inbound[t]) \union {Event("disconnected", c)}
      BY <3>1, <3>3, Zenon
    <3>4. QED
      BY <1>4, <3>2, <3>3, Zenon
  <2>3. Range(inbound[t]) \subseteq Range(inbound'[t])
    BY <1>4
  <2>4. /\ Range(lane'[t].batch) \subseteq Range(lane[t].batch)
        /\ Event(k, d) \in Range(lane[t].batch) =>
             \/ Event(k, d) \in Range(lane'[t].batch)
             \/ t = s /\ Head(lane[s].batch) = Event(k, d) /\ lane'[s].batch # lane[s].batch
    BY <1>5
  <2>5. QED
    BY <2>2, <2>3, <2>4 DEF Coming
<1>7. \A t \in Lanes : \A d \in table'[t] : d \in table[t] \/ Coming(t, "connected", d)
  <2>1. \A d \in table'[s] : d \in table[s] \/ Coming(s, "connected", d)
    <3>1. lane[s].batch # <<>> => Head(lane[s].batch) \in Range(lane[s].batch)
      BY <1>1, RangeTail
    <3>2. QED
      BY <3>1 DEF TakeStep, Coming
  <2>2. QED
    BY <2>1 DEF TakeStep
<1>8. \A t \in Lanes : table'[t] \subseteq Conns
  <2>1. \A d \in table'[s] : d \in Conns
    <3>1. \A d : Head(lane[s].batch) = Event("connected", d) /\ lane[s].batch # <<>> => d \in Conns
      BY <1>1, RangeTail, EventFacts
    <3>2. QED
      BY <3>1 DEF TakeStep, QueueType
  <2>2. QED
    BY <2>1 DEF TakeStep, QueueType
<1>9. Started'
  <2>1. \A d \in closed' : stage[d] # "new"
    BY <1>2 DEF NoticeInv, Started
  <2>2. \A t \in Lanes : \A d \in table'[t] : stage[d] # "new"
    BY <1>7, <1>8 DEF NoticeInv, Started
  <2>3. \A t \in Lanes, d \in Conns : Coming(t, "connected", d)' => stage[d] # "new"
    BY <1>6 DEF NoticeInv, Started
  <2>4. QED
    BY <2>1, <2>2, <2>3 DEF Started
<1>10. EndAfterClose'
  <2>1. \A t \in Lanes, d \in Conns : Coming(t, "disconnected", d)' => d \in closed'
    BY <1>2, <1>6 DEF NoticeInv, EndAfterClose
  <2>2. \A d \in closed' : stage[d] # "chat" => d \in early'
    BY <1>2 DEF NoticeInv, EndAfterClose
  <2>3. QED
    BY <2>1, <2>2 DEF EndAfterClose
<1>11. ASSUME NEW t \in Lanes, NEW d \in Conns, t = "game" \/ d \notin early
       PROVE  /\ Ordered(lane'[t].batch, inbound'[t], d)
              /\ lane'[t].batch # lane[t].batch /\ Head(lane[t].batch) = Event("disconnected", d) =>
                   Event("connected", d) \notin Range(lane'[t].batch) \union Range(inbound'[t])
  <2>1. PICK b \in Seq(Events), q \in Seq(Events) : b = lane[t].batch /\ q = inbound[t]
    BY <1>1
  <2>2. Ordered(b, q, d)
    BY <1>11, <2>1 DEF NoticeInv, NoticesInOrder
  <2>3. /\ Ordered(lane'[t].batch, q, d) /\ lane'[t].batch \in Seq(Events)
        /\ lane'[t].batch # b /\ Head(b) = Event("disconnected", d) =>
             Event("connected", d) \notin Range(lane'[t].batch) \union Range(q)
    <3>1. CASE lane'[t].batch = b
      BY <2>2, <3>1
    <3>2. CASE b # <<>> /\ lane'[t].batch = Tail(b)
      BY <2>2, <3>2, OrderedTail, RangeTail
    <3>3. QED
      BY <1>5, <2>1, <3>1, <3>2
  <2>4. Event("disconnected", c) # Event("connected", d)
    BY EventFacts
  <2>5. PICK r \in Seq(Events) : r = lane'[t].batch
    BY <2>3
  <2>6. CASE inbound'[t] = q
    BY <2>1, <2>3, <2>6
  <2>7. CASE inbound'[t] = Append(q, Event("disconnected", c))
    <3>1. Ordered(r, Append(q, Event("disconnected", c)), d)
      BY <1>3, <2>3, <2>4, <2>5, OrderedPost
    <3>2. Range(Append(q, Event("disconnected", c))) = Range(q) \union {Event("disconnected", c)}
      BY <1>3, RangeAppend
    <3>3. QED
      BY <2>1, <2>3, <2>4, <2>5, <2>7, <3>1, <3>2
  <2>8. QED
    BY <1>2, <2>1, <2>6, <2>7
<1>12. NoticesInOrder'
  BY <1>2, <1>11 DEF NoticesInOrder
<1>13. NoOrphan'
  <2>1. SUFFICES ASSUME NEW d \in closed', NEW t \in Lanes, d \in table'[t] \/ Coming(t, "connected", d)',
                        ~(t = "chat" /\ d \in closing' \union early')
                 PROVE  Coming(t, "disconnected", d)'
    BY DEF NoOrphan
  <2>2. d \in Conns /\ c \in Conns
    BY <1>2 DEF QueueType
  <2>3. d \in table[t] \/ Coming(t, "connected", d)
    BY <1>6, <1>7, <2>1, <2>2
  <2>4. CASE d \notin closed
    <3>1. d \in closing' /\ inbound'["game"] = Append(inbound["game"], Event("disconnected", d))
      BY <1>2, <2>4
    <3>2. t = "game"
      BY <2>1, <3>1 DEF Lanes
    <3>3. Event("disconnected", d) \in Range(inbound'["game"])
      <4>1. inbound["game"] \in Seq(Events)
        BY <1>1 DEF Lanes
      <4>2. Event("disconnected", d) \in Events
        BY <2>2, EventFacts
      <4>3. QED
        BY <3>1, <4>1, <4>2, RangeAppend
    <3>4. QED
      BY <3>2, <3>3 DEF Coming
  <2>5. CASE d \in closed
    <3>1. Coming(t, "disconnected", d)
      BY <1>2, <2>1, <2>3, <2>5 DEF NoticeInv, NoOrphan
    <3>2. CASE t = s /\ Head(lane[s].batch) = Event("disconnected", d) /\ lane'[s].batch # lane[s].batch
      <4>1. d \notin table'[s]
        BY <1>5, <2>2, <3>2
      <4>2. Coming(s, "connected", d)'
        BY <2>1, <3>2, <4>1
      <4>3. t = "game" \/ d \notin early
        BY <1>2, <2>1 DEF Lanes
      <4>4. Event("connected", d) \notin Range(lane'[s].batch) \union Range(inbound'[s])
        BY <1>11, <2>2, <3>2, <4>3
      <4>5. QED
        BY <4>2, <4>4 DEF Coming
    <3>3. QED
      BY <1>6, <2>2, <3>1, <3>2
  <2>6. QED
    BY <2>4, <2>5
<1>14. QED
  BY <1>9, <1>10, <1>12, <1>13 DEF NoticeInv

(* A notice or a request is posted to a lane.                              *)
PostStep(s, e) ==
  /\ inbound' = [inbound EXCEPT ![s] = Append(inbound[s], e)]
  /\ UNCHANGED <<lane, table, closed>>

LEMMA PostFacts ==
  ASSUME QueueType, NEW s \in Lanes, NEW e \in Events, PostStep(s, e)
  PROVE  /\ inbound' \in [Lanes -> Seq(Events)]
         /\ inbound'[s] = Append(inbound[s], e)
         /\ \A t \in Lanes : t # s => inbound'[t] = inbound[t]
         /\ \A t \in Lanes : \A k, d : Coming(t, k, d)' <=> Coming(t, k, d) \/ (t = s /\ e = Event(k, d))
<1>1. inbound \in [Lanes -> Seq(Events)] /\ Append(inbound[s], e) \in Seq(Events)
  BY AppendProperties DEF QueueType
<1>2. /\ inbound' \in [Lanes -> Seq(Events)] /\ inbound'[s] = Append(inbound[s], e)
      /\ \A t \in Lanes : t # s => inbound'[t] = inbound[t]
  BY <1>1 DEF PostStep
<1>3. Range(inbound'[s]) = Range(inbound[s]) \union {e}
  BY <1>1, <1>2, RangeAppend
<1>4. lane' = lane
  BY DEF PostStep
<1>5. \A t \in Lanes : \A k, d : Coming(t, k, d)' <=> Coming(t, k, d) \/ (t = s /\ e = Event(k, d))
  <2>1. SUFFICES ASSUME NEW t \in Lanes, NEW k, NEW d
                 PROVE  Coming(t, k, d)' <=> Coming(t, k, d) \/ (t = s /\ e = Event(k, d))
    BY Zenon
  <2>2. CASE t = s
    BY <1>3, <1>4, <2>2 DEF Coming
  <2>3. CASE t # s
    BY <1>2, <1>4, <2>3 DEF Coming
  <2>4. QED
    BY <2>2, <2>3
<1>6. QED
  BY <1>2, <1>5

LEMMA PostKeeps ==
  ASSUME QueueType, NoticeInv, NEW s \in Lanes, NEW e \in Events, PostStep(s, e), early' = early,
         \A c \in closed : stage'[c] # "new" /\ (stage'[c] # "chat" => c \in early),
         \A c \in Conns : stage[c] # "new" => stage'[c] # "new",
         \A c \in Conns : e = Event("connected", c) => /\ stage'[c] # "new"
                                                       /\ s = "game" \/ c \notin early => c \notin closed
                                                       /\ s = "game" \/ c \notin closed \/ c \in early,
         \A c \in Conns : e = Event("disconnected", c) => c \in closed,
         \A c \in closing : c \in closing' \/ (s = "chat" /\ e = Event("disconnected", c))
  PROVE  NoticeInv'
<1>1. /\ inbound'[s] = Append(inbound[s], e)
      /\ \A t \in Lanes : t # s => inbound'[t] = inbound[t]
      /\ \A t \in Lanes : \A k, d : Coming(t, k, d)' <=> Coming(t, k, d) \/ (t = s /\ e = Event(k, d))
  BY PostFacts
<1>2. lane' = lane /\ table' = table /\ closed' = closed
  BY DEF PostStep
<1>3. closed \subseteq Conns /\ \A t \in Lanes : table[t] \subseteq Conns
  BY DEF QueueType
<1>4. Started'
  BY <1>1, <1>2, <1>3 DEF NoticeInv, Started
<1>5. EndAfterClose'
  BY <1>1, <1>2 DEF NoticeInv, EndAfterClose
<1>6. NoticesInOrder'
  <2>1. SUFFICES ASSUME NEW t \in Lanes, NEW d \in Conns, t = "game" \/ d \notin early
                 PROVE  Ordered(lane[t].batch, inbound'[t], d)
    BY <1>2 DEF NoticesInOrder
  <2>2. PICK b \in Seq(Events), q \in Seq(Events) : b = lane[t].batch /\ q = inbound[t]
    BY QueueFacts
  <2>3. Ordered(b, q, d)
    BY <2>1, <2>2 DEF NoticeInv, NoticesInOrder
  <2>4. CASE t # s
    BY <1>1, <2>2, <2>3, <2>4
  <2>5. CASE t = s
    <3>1. e = Event("connected", d) => Event("disconnected", d) \notin Range(b) \union Range(q)
      <4>1. SUFFICES ASSUME e = Event("connected", d) PROVE ~Coming(t, "disconnected", d)
        BY <2>2 DEF Coming
      <4>2. d \notin closed
        BY <2>1, <2>5, <4>1
      <4>3. QED
        BY <4>2 DEF NoticeInv, EndAfterClose
    <3>2. Ordered(b, Append(q, e), d)
      BY <2>3, <3>1, OrderedPost
    <3>3. QED
      BY <1>1, <2>2, <2>5, <3>2
  <2>6. QED
    BY <2>4, <2>5
<1>7. NoOrphan'
  <2>1. SUFFICES ASSUME NEW d \in closed, NEW t \in Lanes, d \in table[t] \/ Coming(t, "connected", d)',
                        ~(t = "chat" /\ d \in closing' \union early)
                 PROVE  Coming(t, "disconnected", d)'
    BY <1>2 DEF NoOrphan
  <2>2. d \in Conns
    BY <1>3
  <2>3. CASE t = s /\ e = Event("connected", d)
    BY <2>1, <2>2, <2>3 DEF Lanes
  <2>4. CASE ~(t = s /\ e = Event("connected", d))
    <3>1. d \in table[t] \/ Coming(t, "connected", d)
      BY <1>1, <2>1, <2>4
    <3>2. Coming(t, "disconnected", d) \/ (t = "chat" /\ d \in closing \union early)
      BY <3>1 DEF NoticeInv, NoOrphan
    <3>3. QED
      BY <1>1, <2>1, <3>2
  <2>5. QED
    BY <2>3, <2>4
<1>8. QED
  BY <1>4, <1>5, <1>6, <1>7 DEF NoticeInv

-----------------------------------------------------------------------------
(* Steps that leave the chat lane and its tables alone.                    *)
LEMMA NameFrame ==
  ASSUME NameInv, lane'["chat"] = lane["chat"], table'["chat"] = table["chat"],
         UNCHANGED <<named, pending, missed>>, closed \subseteq closed', deaf \subseteq deaf',
         Range(inbox["chat"]) \subseteq Range(inbox'["chat"]),
         relayed' \subseteq relayed \union Range(inbox'["chat"]),
         \A c \in Conns : stage'[c] = "chat" => stage[c] = "chat" \/ Coming("chat", "connected", c)',
         \A c \in Conns : Coming("chat", "connected", c) => Coming("chat", "connected", c)'
  PROVE  NameInv'
<1>1. MemberOrComing'
  BY DEF NameInv, MemberOrComing
<1>2. KeptIsComing'
  BY DEF NameInv, KeptIsComing
<1>3. KeySomewhere'
  BY DEF NameInv, KeySomewhere
<1>4. QED
  BY <1>1, <1>2, <1>3 DEF NameInv

LEMMA CloseFacts ==
  ASSUME QueueType, NEW c \in Conns, CloseStep(c)
  PROVE  /\ inbound' \in [Lanes -> Seq(Events)]
         /\ closing' \subseteq closed' /\ closed' \subseteq Conns /\ closed \subseteq closed'
         /\ \A t \in Lanes : Range(inbound[t]) \subseteq Range(inbound'[t])
         /\ inbound'["chat"] = inbound["chat"]
<1>1. CASE UNCHANGED <<closed, closing, inbound, early>>
  BY <1>1 DEF QueueType
<1>2. CASE /\ closed' = closed \union {c} /\ closing' = closing \union {c}
           /\ inbound' = [inbound EXCEPT !["game"] = Append(inbound["game"], Event("disconnected", c))]
  <2>1. "game" \in Lanes /\ "chat" \in Lanes /\ "game" # "chat"
    BY DEF Lanes
  <2>2. inbound["game"] \in Seq(Events) /\ Event("disconnected", c) \in Events
    BY <2>1, EventFacts DEF QueueType
  <2>3. Append(inbound["game"], Event("disconnected", c)) \in Seq(Events)
    BY <2>2, AppendProperties
  <2>4. Range(Append(inbound["game"], Event("disconnected", c)))
          = Range(inbound["game"]) \union {Event("disconnected", c)}
    BY <2>2, RangeAppend
  <2>5. /\ inbound' \in [Lanes -> Seq(Events)] /\ inbound'["chat"] = inbound["chat"]
        /\ inbound'["game"] = Append(inbound["game"], Event("disconnected", c))
    BY <1>2, <2>1, <2>3 DEF QueueType
  <2>6. \A t \in Lanes : Range(inbound[t]) \subseteq Range(inbound'[t])
    BY <2>4, <2>5 DEF Lanes
  <2>7. QED
    BY <1>2, <2>5, <2>6 DEF QueueType
<1>3. QED
  BY <1>1, <1>2 DEF CloseStep

LEMMA DoCloseIs ==
  ASSUME NEW c \in Conns, DoClose(c), stage[c] # "new"
  PROVE  CloseStep(c)
<1>1. CASE c \in closed
  <2>1. closed' = closed
    BY <1>1 DEF DoClose
  <2>2. QED
    BY <1>1, <2>1 DEF DoClose, CloseStep
<1>2. CASE c \notin closed
  BY <1>2 DEF DoClose, CloseStep, Disconnected, Post
<1>3. QED
  BY <1>1, <1>2

LEMMA CloseKeeps ==
  ASSUME CoreInv, NEW c \in Conns, Close(c)
  PROVE  CoreInv'
<1>1. /\ DoClose(c) /\ stage[c] # "new"
      /\ UNCHANGED <<stage, inbox, lane, table, named, pending, relayed, missed, deaf>>
  BY DEF Close, CoreInv, NoticeInv, Started, Lanes
<1>2. CloseStep(c)
  BY <1>1, DoCloseIs
<1>3. /\ inbound' \in [Lanes -> Seq(Events)]
      /\ closing' \subseteq closed' /\ closed' \subseteq Conns /\ closed \subseteq closed'
      /\ inbound'["chat"] = inbound["chat"]
  BY <1>2, CloseFacts DEF CoreInv
<1>4. QueueType'
  BY <1>1, <1>3 DEF CoreInv, QueueType
<1>5. TakeStep("game") /\ "game" \in Lanes
  BY <1>1 DEF TakeStep, Lanes
<1>6. NoticeInv'
  BY <1>1, <1>2, <1>5, NoticeKeeps DEF CoreInv
<1>7. \A d \in Conns : Coming("chat", "connected", d) => Coming("chat", "connected", d)'
  BY <1>1, <1>3 DEF Coming
<1>8. NameInv'
  BY <1>1, <1>3, <1>7, NameFrame DEF CoreInv
<1>9. QED
  BY <1>4, <1>6, <1>8 DEF CoreInv

LEMMA ConnectedToGameKeeps ==
  ASSUME CoreInv, NEW c \in Conns, ConnectedToGame(c)
  PROVE  CoreInv'
<1>1. /\ stage[c] = "new" /\ stage' = [stage EXCEPT ![c] = "game"]
      /\ inbound' = [inbound EXCEPT !["game"] = Append(inbound["game"], Event("connected", c))]
      /\ UNCHANGED <<closed, closing, inbox, lane, table, named, pending, relayed, missed, early, deaf>>
  BY DEF ConnectedToGame, Post, history
<1>2. /\ stage'[c] = "game" /\ \A d \in Conns : d # c => stage'[d] = stage[d]
      /\ stage' \in [Conns -> {"new", "game", "chat"}]
  BY <1>1 DEF CoreInv, QueueType
<1>3. "game" \in Lanes /\ Event("connected", c) \in Events /\ PostStep("game", Event("connected", c))
  BY <1>1, EventFacts DEF PostStep, Lanes
<1>4. /\ inbound' \in [Lanes -> Seq(Events)]
      /\ \A k, d : Coming("chat", k, d)' <=> Coming("chat", k, d)
  <2>1. /\ inbound' \in [Lanes -> Seq(Events)]
        /\ \A t \in Lanes : t # "game" => inbound'[t] = inbound[t]
    BY <1>3, PostFacts DEF CoreInv
  <2>2. inbound'["chat"] = inbound["chat"]
    BY <2>1 DEF Lanes
  <2>3. QED
    BY <1>1, <2>1, <2>2 DEF Coming
<1>5. QueueType'
  BY <1>1, <1>2, <1>4 DEF CoreInv, QueueType
<1>6. c \notin closed /\ closed \subseteq Conns
  BY <1>1 DEF CoreInv, NoticeInv, Started, QueueType
<1>7. \A d \in closed : stage'[d] # "new" /\ (stage'[d] # "chat" => d \in early)
  BY <1>2, <1>6 DEF CoreInv, NoticeInv, Started, EndAfterClose
<1>8. \A d \in Conns : /\ Event("connected", c) = Event("connected", d) => d = c
                       /\ Event("connected", c) # Event("disconnected", d)
  BY EventFacts
<1>9. NoticeInv'
  BY <1>1, <1>2, <1>3, <1>6, <1>7, <1>8, PostKeeps DEF CoreInv
<1>10. NameInv'
  BY <1>1, <1>2, <1>4, NameFrame DEF CoreInv
<1>11. QED
  BY <1>5, <1>9, <1>10 DEF CoreInv

LEMMA ConnectedToChatKeeps ==
  ASSUME CoreInv, NEW c \in Conns, ConnectedToChat(c)
  PROVE  CoreInv'
<1>1. /\ stage[c] = "game" /\ stage' = [stage EXCEPT ![c] = "chat"]
      /\ inbound' = [inbound EXCEPT !["chat"] = Append(inbound["chat"], Event("connected", c))]
      /\ UNCHANGED <<closed, closing, inbox, lane, table, named, pending, relayed, missed, early, deaf>>
  BY DEF ConnectedToChat, Post, history
<1>2. /\ stage'[c] = "chat" /\ \A d \in Conns : d # c => stage'[d] = stage[d]
      /\ stage' \in [Conns -> {"new", "game", "chat"}]
  BY <1>1 DEF CoreInv, QueueType
<1>3. "chat" \in Lanes /\ Event("connected", c) \in Events /\ PostStep("chat", Event("connected", c))
  BY <1>1, EventFacts DEF PostStep, Lanes
<1>4. /\ inbound' \in [Lanes -> Seq(Events)]
      /\ \A k, d : Coming("chat", k, d)' <=> Coming("chat", k, d) \/ Event("connected", c) = Event(k, d)
  BY <1>3, PostFacts DEF CoreInv
<1>5. QueueType'
  BY <1>1, <1>2, <1>4 DEF CoreInv, QueueType
<1>6. closed \subseteq Conns /\ (c \in closed => c \in early)
  BY <1>1 DEF CoreInv, NoticeInv, EndAfterClose, QueueType
<1>7. \A d \in closed : stage'[d] # "new" /\ (stage'[d] # "chat" => d \in early)
  BY <1>2, <1>6 DEF CoreInv, NoticeInv, Started, EndAfterClose
<1>8. \A d \in Conns : /\ Event("connected", c) = Event("connected", d) => d = c
                       /\ Event("connected", c) # Event("disconnected", d)
  BY EventFacts
<1>9. NoticeInv'
  <2>1. "chat" # "game"
    OBVIOUS
  <2>2. QED
    BY <1>1, <1>2, <1>3, <1>6, <1>7, <1>8, <2>1, PostKeeps DEF CoreInv
<1>10. NameInv'
  BY <1>1, <1>2, <1>4, NameFrame DEF CoreInv
<1>11. QED
  BY <1>5, <1>9, <1>10 DEF CoreInv

LEMMA DisconnectedToChatKeeps ==
  ASSUME CoreInv, NEW c \in Conns, DisconnectedToChat(c)
  PROVE  CoreInv'
<1>1. /\ c \in closing /\ closing' = closing \ {c}
      /\ inbound' = [inbound EXCEPT !["chat"] = Append(inbound["chat"], Event("disconnected", c))]
      /\ UNCHANGED <<stage, closed, inbox, lane, table, named, pending, relayed, missed, early, deaf>>
  BY DEF DisconnectedToChat, Post, history
<1>2. "chat" \in Lanes /\ Event("disconnected", c) \in Events /\ PostStep("chat", Event("disconnected", c))
  BY <1>1, EventFacts DEF PostStep, Lanes
<1>3. /\ inbound' \in [Lanes -> Seq(Events)]
      /\ \A k, d : Coming("chat", k, d)' <=> Coming("chat", k, d) \/ Event("disconnected", c) = Event(k, d)
  BY <1>2, PostFacts DEF CoreInv
<1>4. c \in closed /\ closed \subseteq Conns /\ closing' \subseteq closed
  BY <1>1 DEF CoreInv, QueueType
<1>5. QueueType'
  BY <1>1, <1>3, <1>4 DEF CoreInv, QueueType
<1>6. \A d \in closed : stage'[d] # "new" /\ (stage'[d] # "chat" => d \in early)
  BY <1>1 DEF CoreInv, NoticeInv, Started, EndAfterClose
<1>7. \A d \in Conns : /\ Event("disconnected", c) = Event("disconnected", d) => d = c
                       /\ Event("disconnected", c) # Event("connected", d)
  BY EventFacts
<1>8. NoticeInv'
  BY <1>1, <1>2, <1>4, <1>6, <1>7, PostKeeps DEF CoreInv
<1>9. NameInv'
  BY <1>1, <1>3, NameFrame DEF CoreInv
<1>10. QED
  BY <1>5, <1>8, <1>9 DEF CoreInv

LEMMA AskKeeps ==
  ASSUME CoreInv, NEW c \in Conns, NEW kind \in Requests, Ask(c, kind)
  PROVE  CoreInv'
<1>1. /\ \/ inbound' = [inbound EXCEPT ![Route(kind)] = Append(inbound[Route(kind)], Event(kind, c))]
         \/ inbound' = inbound
      /\ UNCHANGED <<stage, closed, closing, inbox, lane, table, named, pending, relayed, missed, early, deaf>>
  BY DEF Ask, Post, io, history
<1>2. PICK s \in Lanes : s = Route(kind)
  BY DEF Route, Lanes
<1>3. \A d \in closed : stage'[d] # "new" /\ (stage'[d] # "chat" => d \in early)
  BY <1>1 DEF CoreInv, NoticeInv, Started, EndAfterClose
<1>4. CASE inbound' = [inbound EXCEPT ![s] = Append(inbound[s], Event(kind, c))]
  <2>1. Event(kind, c) \in Events /\ PostStep(s, Event(kind, c))
    BY <1>1, <1>4, EventFacts DEF PostStep
  <2>2. /\ inbound' \in [Lanes -> Seq(Events)]
        /\ \A t \in Lanes : \A k, d : Coming(t, k, d) => Coming(t, k, d)'
    BY <2>1, PostFacts DEF CoreInv
  <2>3. kind # "connected" /\ kind # "disconnected"
    BY DEF Requests
  <2>4. \A d \in Conns : Event(kind, c) # Event("connected", d) /\ Event(kind, c) # Event("disconnected", d)
    BY <2>3 DEF Event
  <2>5. QueueType'
    BY <1>1, <2>2 DEF CoreInv, QueueType
  <2>6. NoticeInv'
    BY <1>1, <1>3, <2>1, <2>4, PostKeeps DEF CoreInv
  <2>7. NameInv'
    <3>1. \A d \in Conns : Coming("chat", "connected", d) => Coming("chat", "connected", d)'
      BY <2>2 DEF Lanes
    <3>2. QED
      BY <1>1, <3>1, NameFrame DEF CoreInv
  <2>8. QED
    BY <2>5, <2>6, <2>7 DEF CoreInv
<1>5. CASE inbound' = inbound
  <2>1. QueueType'
    BY <1>1, <1>5 DEF CoreInv, QueueType
  <2>2. TakeStep(s) /\ CloseStep(c)
    BY <1>1, <1>5 DEF TakeStep, CloseStep
  <2>3. NoticeInv'
    BY <1>1, <2>2, NoticeKeeps DEF CoreInv
  <2>4. \A d \in Conns : Coming("chat", "connected", d) => Coming("chat", "connected", d)'
    BY <1>1, <1>5 DEF Coming
  <2>5. NameInv'
    BY <1>1, <2>4, NameFrame DEF CoreInv
  <2>6. QED
    BY <2>1, <2>3, <2>5 DEF CoreInv
<1>6. QED
  BY <1>1, <1>2, <1>4, <1>5

LEMMA PoolAnswersKeeps ==
  ASSUME CoreInv, NEW c \in Conns, PoolAnswers(c)
  PROVE  CoreInv'
<1>1. /\ inbox' = [inbox EXCEPT !["game"] = Append(inbox["game"], c)]
      /\ UNCHANGED <<stage, closed, closing, inbound, lane, table, named, pending, relayed, missed, early, deaf>>
  BY DEF PoolAnswers, io, history
<1>2. "game" \in Lanes /\ "chat" \in Lanes /\ "game" # "chat"
  BY DEF Lanes
<1>3. Append(inbox["game"], c) \in Seq(Conns)
  BY <1>2, AppendProperties DEF CoreInv, QueueType
<1>4. inbox' \in [Lanes -> Seq(Conns)] /\ inbox'["chat"] = inbox["chat"]
  BY <1>1, <1>2, <1>3 DEF CoreInv, QueueType
<1>5. QueueType'
  BY <1>1, <1>4 DEF CoreInv, QueueType
<1>6. TakeStep("game") /\ CloseStep(c)
  BY <1>1 DEF TakeStep, CloseStep
<1>7. NoticeInv'
  BY <1>1, <1>2, <1>6, NoticeKeeps DEF CoreInv
<1>8. \A d \in Conns : Coming("chat", "connected", d) => Coming("chat", "connected", d)'
  BY <1>1 DEF Coming
<1>9. NameInv'
  BY <1>1, <1>4, <1>8, NameFrame DEF CoreInv
<1>10. QED
  BY <1>5, <1>7, <1>9 DEF CoreInv

-----------------------------------------------------------------------------
(* A round of a lane.                                                      *)
LEMMA NoCloseKeeps ==
  ASSUME QueueType, NoticeInv, NEW s \in Lanes, stage' = stage, TakeStep(s),
         UNCHANGED <<closed, closing, inbound, early>>
  PROVE  NoticeInv'
<1>1. PICK c \in Conns : TRUE
  BY ServicesAssumption
<1>2. CloseStep(c)
  BY DEF CloseStep
<1>3. QED
  BY <1>2, NoticeKeeps

LEMMA StartRoundKeeps ==
  ASSUME CoreInv, NEW s \in Lanes, StartRound(s)
  PROVE  CoreInv'
<1>1. /\ lane[s].pc = "idle"
      /\ lane' = [lane EXCEPT ![s] = [pc |-> "first", first |-> inbox[s], batch |-> <<>>]]
      /\ inbox' = [inbox EXCEPT ![s] = <<>>]
      /\ UNCHANGED <<stage, closed, closing, inbound, table, named, pending, relayed, missed, early, deaf>>
  BY DEF StartRound, io, history
<1>2. /\ inbox[s] \in Seq(Conns) /\ lane[s].first = <<>> /\ lane[s].batch = <<>>
      /\ <<>> \in Seq(Conns) /\ <<>> \in Seq(Events)
  BY <1>1, QueueFacts, EmptySeq DEF CoreInv, QueueType
<1>3. [pc |-> "first", first |-> inbox[s], batch |-> <<>>] \in LaneStates
  BY <1>2 DEF LaneStates, Places
<1>4. /\ lane' \in [Lanes -> LaneStates] /\ lane'[s].pc = "first" /\ lane'[s].first = inbox[s]
      /\ lane'[s].batch = <<>> /\ \A t \in Lanes : t # s => lane'[t] = lane[t]
  BY <1>1, <1>3 DEF CoreInv, QueueType
<1>5. /\ inbox' \in [Lanes -> Seq(Conns)] /\ inbox'[s] = <<>>
      /\ \A t \in Lanes : t # s => inbox'[t] = inbox[t]
  BY <1>1, <1>2 DEF CoreInv, QueueType
<1>6. QueueType'
  BY <1>1, <1>4, <1>5 DEF CoreInv, QueueType
<1>7. TakeStep(s)
  BY <1>1, <1>2, <1>4 DEF TakeStep
<1>8. NoticeInv'
  BY <1>1, <1>7, NoCloseKeeps DEF CoreInv
<1>9. \A t \in Lanes : lane'[t].batch = lane[t].batch
  BY <1>2, <1>4
<1>10. "chat" \in Lanes
  BY DEF Lanes
<1>11. MemberOrComing'
  BY <1>1, <1>9, <1>10 DEF CoreInv, NameInv, MemberOrComing, Coming
<1>12. KeptIsComing'
  BY <1>1, <1>4, <1>10 DEF CoreInv, NameInv, KeptIsComing
<1>13. Range(inbox["chat"]) \union Range(lane["chat"].first)
         \subseteq Range(inbox'["chat"]) \union Range(lane'["chat"].first)
  BY <1>2, <1>4, <1>5, <1>10, RangeEmpty
<1>14. KeySomewhere'
  BY <1>1, <1>13 DEF CoreInv, NameInv, KeySomewhere
<1>15. QED
  BY <1>6, <1>8, <1>11, <1>12, <1>14 DEF CoreInv, NameInv

(* The batch is what was queued: its notices keep their order, and a key   *)
(* that is kept finds its Connected there, if it was posted by now.        *)
LEMMA SwapInboundKeeps ==
  ASSUME CoreInv, NEW s \in Lanes, SwapInbound(s)
  PROVE  CoreInv'
<1>1. /\ lane[s].pc = "first" /\ lane[s].first = <<>>
      /\ lane' = [lane EXCEPT ![s].pc = "batch", ![s].batch = inbound[s]]
      /\ inbound' = [inbound EXCEPT ![s] = <<>>]
      /\ missed' = IF s = "chat" THEN missed \union {c \in pending : stage[c] # "chat"} ELSE missed
      /\ UNCHANGED <<stage, closed, closing, inbox, table, named, pending, relayed, early, deaf>>
  BY DEF SwapInbound, io
<1>2. /\ inbound[s] \in Seq(Events) /\ lane[s].batch = <<>> /\ <<>> \in Seq(Events)
      /\ lane[s] \in LaneStates
  BY <1>1, QueueFacts, EmptySeq DEF CoreInv, QueueType
<1>3. /\ lane' \in [Lanes -> LaneStates] /\ lane'[s].pc = "batch" /\ lane'[s].first = <<>>
      /\ lane'[s].batch = inbound[s] /\ \A t \in Lanes : t # s => lane'[t] = lane[t]
  <2>1. lane'[s] = [lane[s] EXCEPT !.pc = "batch", !.batch = inbound[s]]
    BY <1>1 DEF CoreInv, QueueType
  <2>2. lane'[s] \in LaneStates /\ lane'[s].pc = "batch" /\ lane'[s].first = lane[s].first
        /\ lane'[s].batch = inbound[s]
    BY <1>2, <2>1 DEF LaneStates, Places
  <2>3. \A t \in Lanes : t # s => lane'[t] = lane[t]
    BY <1>1 DEF CoreInv, QueueType
  <2>4. lane' \in [Lanes -> LaneStates]
    BY <1>1, <2>1, <2>2 DEF CoreInv, QueueType
  <2>5. QED
    BY <1>1, <2>2, <2>3, <2>4
<1>4. /\ inbound' \in [Lanes -> Seq(Events)] /\ inbound'[s] = <<>>
      /\ \A t \in Lanes : t # s => inbound'[t] = inbound[t]
  BY <1>1, <1>2 DEF CoreInv, QueueType
<1>5. QueueType'
  BY <1>1, <1>3, <1>4 DEF CoreInv, QueueType
<1>6. \A t \in Lanes : \A k, d : Coming(t, k, d)' <=> Coming(t, k, d)
  <2>1. \A t \in Lanes : Range(inbound'[t]) \union Range(lane'[t].batch)
                           = Range(inbound[t]) \union Range(lane[t].batch)
    BY <1>2, <1>3, <1>4, RangeEmpty
  <2>2. QED
    BY <2>1 DEF Coming
<1>7. Started' /\ EndAfterClose'
  BY <1>1, <1>6 DEF CoreInv, NoticeInv, Started, EndAfterClose
<1>8. NoticesInOrder'
  <2>1. SUFFICES ASSUME NEW t \in Lanes, NEW d \in Conns, t = "game" \/ d \notin early
                 PROVE  Ordered(lane'[t].batch, inbound'[t], d)
    BY <1>1 DEF NoticesInOrder
  <2>2. Ordered(lane[t].batch, inbound[t], d)
    BY <2>1 DEF CoreInv, NoticeInv, NoticesInOrder
  <2>3. CASE t = s
    BY <1>3, <1>4, <2>2, <2>3, OrderedSwap
  <2>4. CASE t # s
    BY <1>3, <1>4, <2>2, <2>4
  <2>5. QED
    BY <2>3, <2>4
<1>9. NoOrphan'
  BY <1>1, <1>6 DEF CoreInv, NoticeInv, NoOrphan, QueueType
<1>10. "chat" \in Lanes
  BY DEF Lanes
<1>11. MemberOrComing'
  BY <1>1, <1>6, <1>10 DEF CoreInv, NameInv, MemberOrComing
<1>12. KeptIsComing'
  <2>1. CASE s = "chat"
    <3>1. SUFFICES ASSUME NEW c \in pending, c \notin missed' \union closed \union deaf
                   PROVE  Event("connected", c) \in Range(lane'["chat"].batch)
      BY <1>1 DEF KeptIsComing
    <3>2. c \in Conns /\ c \notin table["chat"] /\ stage[c] = "chat"
      BY <1>1, <2>1, <3>1 DEF CoreInv, QueueType
    <3>3. Coming("chat", "connected", c)
      BY <3>1, <3>2 DEF CoreInv, NameInv, MemberOrComing
    <3>4. QED
      BY <1>2, <1>3, <2>1, <3>3, RangeEmpty DEF Coming
  <2>2. CASE s # "chat"
    BY <1>1, <1>3, <1>10, <2>2 DEF CoreInv, NameInv, KeptIsComing
  <2>3. QED
    BY <2>1, <2>2
<1>13. missed \subseteq missed'
  BY <1>1
<1>14. lane'["chat"].first = lane["chat"].first
  BY <1>1, <1>3, <1>10
<1>15. KeySomewhere'
  BY <1>1, <1>13, <1>14 DEF CoreInv, NameInv, KeySomewhere
<1>16. QED
  BY <1>5, <1>7, <1>8, <1>9, <1>11, <1>12, <1>15 DEF CoreInv, NoticeInv, NameInv

(* The keys that are left belong to nobody, or were missed.                *)
LEMMA EndRoundKeeps ==
  ASSUME CoreInv, NEW s \in Lanes, EndRound(s)
  PROVE  CoreInv'
<1>1. /\ lane[s].pc = "batch" /\ lane[s].batch = <<>> /\ lane' = [lane EXCEPT ![s] = Idle]
      /\ IF s = "chat" THEN pending' = {} ELSE pending' = pending
      /\ UNCHANGED <<stage, closed, closing, inbound, inbox, table, named, relayed, missed, early, deaf>>
  BY DEF EndRound, io
<1>2. lane[s].first = <<>> /\ Idle \in LaneStates
      /\ Idle.pc = "idle" /\ Idle.first = <<>> /\ Idle.batch = <<>>
  BY <1>1, EmptySeq DEF CoreInv, QueueType, Idle, LaneStates, Places
<1>3. /\ lane' \in [Lanes -> LaneStates] /\ lane'[s] = Idle
      /\ \A t \in Lanes : t # s => lane'[t] = lane[t]
  BY <1>1, <1>2 DEF CoreInv, QueueType
<1>4. QueueType'
  BY <1>1, <1>2, <1>3 DEF CoreInv, QueueType
<1>5. TakeStep(s)
  BY <1>1, <1>2, <1>3 DEF TakeStep
<1>6. NoticeInv'
  BY <1>1, <1>5, NoCloseKeeps DEF CoreInv
<1>7. "chat" \in Lanes
  BY DEF Lanes
<1>8. \A t \in Lanes : lane'[t].batch = lane[t].batch /\ lane'[t].first = lane[t].first
  BY <1>1, <1>2, <1>3
<1>9. MemberOrComing'
  BY <1>1, <1>7, <1>8 DEF CoreInv, NameInv, MemberOrComing, Coming
<1>10. KeptIsComing'
  BY <1>1, <1>2, <1>3, <1>7 DEF CoreInv, NameInv, KeptIsComing
<1>11. KeySomewhere'
  <2>1. \A c \in pending \ (missed \union closed \union deaf) : c \in pending'
    BY <1>1, RangeEmpty DEF CoreInv, NameInv, KeptIsComing
  <2>2. QED
    BY <1>1, <1>7, <1>8, <2>1 DEF CoreInv, NameInv, KeySomewhere
<1>12. QED
  BY <1>4, <1>6, <1>9, <1>10, <1>11 DEF CoreInv, NameInv

-----------------------------------------------------------------------------
(* A lane handles the first of its answers or keys.                        *)
FirstTaken(s) ==
  /\ lane[s].pc = "first" /\ lane[s].first # <<>>
  /\ lane' = [lane EXCEPT ![s].first = Tail(lane[s].first)]

LEMMA FirstFacts ==
  ASSUME QueueType, NEW s \in Lanes, FirstTaken(s)
  PROVE  /\ lane' \in [Lanes -> LaneStates] /\ Head(lane[s].first) \in Conns
         /\ lane'[s].pc = "first" /\ lane'[s].batch = <<>> /\ lane[s].batch = <<>>
         /\ Range(lane[s].first) = {Head(lane[s].first)} \union Range(lane'[s].first)
         /\ \A t \in Lanes : t # s => lane'[t] = lane[t]
<1>1. lane[s].first \in Seq(Conns) /\ lane[s].batch = <<>> /\ lane[s] \in LaneStates
  BY QueueFacts DEF FirstTaken, QueueType
<1>2. /\ Head(lane[s].first) \in Conns /\ Tail(lane[s].first) \in Seq(Conns)
      /\ Range(lane[s].first) = {Head(lane[s].first)} \union Range(Tail(lane[s].first))
  BY <1>1, RangeTail DEF FirstTaken
<1>3. lane'[s] = [lane[s] EXCEPT !.first = Tail(lane[s].first)]
      /\ \A t \in Lanes : t # s => lane'[t] = lane[t]
  BY DEF FirstTaken, QueueType
<1>4. /\ lane'[s] \in LaneStates /\ lane'[s].pc = lane[s].pc /\ lane'[s].batch = lane[s].batch
      /\ lane'[s].first = Tail(lane[s].first)
  BY <1>1, <1>2, <1>3 DEF LaneStates
<1>5. lane' \in [Lanes -> LaneStates]
  BY <1>3, <1>4 DEF FirstTaken, QueueType
<1>6. QED
  BY <1>1, <1>2, <1>3, <1>4, <1>5 DEF FirstTaken

LEMMA HandleFirstKeeps ==
  ASSUME CoreInv, NEW s \in Lanes, HandleFirst(s)
  PROVE  CoreInv'
<1>1. /\ FirstTaken(s)
      /\ IF s = "game" THEN GameReply(Head(lane[s].first)) ELSE ChatName(Head(lane[s].first))
      /\ UNCHANGED <<stage, closed, closing, inbound, inbox, relayed, missed, early, deaf>>
  BY DEF HandleFirst, FirstTaken, io, history
<1>2. PICK c \in Conns : c = Head(lane[s].first)
  BY <1>1, FirstFacts DEF CoreInv
<1>3. /\ lane' \in [Lanes -> LaneStates] /\ lane'[s].pc = "first" /\ lane'[s].batch = <<>>
      /\ lane[s].batch = <<>> /\ Range(lane[s].first) = {c} \union Range(lane'[s].first)
      /\ \A t \in Lanes : t # s => lane'[t] = lane[t]
  BY <1>1, <1>2, FirstFacts DEF CoreInv
<1>4. table' = table
  BY <1>1 DEF GameReply, ChatName
<1>5. \A t \in Lanes : /\ lane'[t].pc # "first" => lane'[t].first = <<>>
                       /\ lane'[t].pc # "batch" => lane'[t].batch = <<>>
  BY <1>3 DEF CoreInv, QueueType
<1>6. NoticeInv'
  <2>1. TakeStep(s)
    BY <1>3, <1>4 DEF TakeStep
  <2>2. QED
    BY <1>1, <2>1, NoCloseKeeps DEF CoreInv
<1>7. "chat" \in Lanes /\ \A t \in Lanes : t # "game" => t = "chat"
  BY DEF Lanes
<1>8. CASE s = "game"
  <2>1. UNCHANGED <<named, pending>> /\ lane'["chat"] = lane["chat"]
    BY <1>1, <1>3, <1>7, <1>8 DEF GameReply
  <2>2. QueueType'
    BY <1>1, <1>3, <1>4, <1>5, <2>1 DEF CoreInv, QueueType
  <2>3. \A d \in Conns : Coming("chat", "connected", d) => Coming("chat", "connected", d)'
    BY <1>1, <2>1 DEF Coming
  <2>4. NameInv'
    BY <1>1, <1>4, <2>1, <2>3, NameFrame DEF CoreInv
  <2>5. QED
    BY <1>6, <2>2, <2>4 DEF CoreInv
<1>9. CASE s = "chat"
  <2>1. /\ named' = named \union ({c} \intersect table["chat"])
        /\ pending' = IF c \in table["chat"] THEN pending ELSE pending \union {c}
    BY <1>1, <1>2, <1>9 DEF ChatName, KeptNames
  <2>2. pending' \subseteq Conns \ table["chat"] /\ named' \subseteq table["chat"]
    BY <2>1 DEF CoreInv, QueueType
  <2>3. QueueType'
    BY <1>1, <1>3, <1>4, <1>5, <2>2 DEF CoreInv, QueueType
  <2>4. MemberOrComing'
    BY <1>1, <1>3, <1>4, <1>9 DEF CoreInv, NameInv, MemberOrComing, Coming
  <2>5. KeptIsComing'
    BY <1>3, <1>9 DEF KeptIsComing
  <2>6. KeySomewhere'
    BY <1>1, <1>3, <1>9, <2>1 DEF CoreInv, NameInv, KeySomewhere
  <2>7. QED
    BY <1>6, <2>3, <2>4, <2>5, <2>6 DEF CoreInv, NameInv
<1>10. QED
  BY <1>7, <1>8, <1>9

(* A lane handles the first event of its batch.                            *)
BatchTaken(s) ==
  /\ lane[s].pc = "batch" /\ lane[s].batch # <<>>
  /\ lane' = [lane EXCEPT ![s].batch = Tail(lane[s].batch)]

LEMMA BatchFacts ==
  ASSUME QueueType, NEW s \in Lanes, BatchTaken(s)
  PROVE  /\ lane' \in [Lanes -> LaneStates]
         /\ lane'[s].pc = "batch" /\ lane'[s].first = <<>> /\ lane[s].first = <<>>
         /\ lane'[s].batch = Tail(lane[s].batch)
         /\ Range(lane[s].batch) = {Head(lane[s].batch)} \union Range(lane'[s].batch)
         /\ \A t \in Lanes : t # s => lane'[t] = lane[t]
         /\ Head(lane[s].batch).conn \in Conns
         /\ Head(lane[s].batch) = Event(Head(lane[s].batch).kind, Head(lane[s].batch).conn)
<1>1. lane[s].batch \in Seq(Events) /\ lane[s].first = <<>> /\ lane[s] \in LaneStates
  BY QueueFacts DEF BatchTaken, QueueType
<1>2. /\ Head(lane[s].batch) \in Events /\ Tail(lane[s].batch) \in Seq(Events)
      /\ Range(lane[s].batch) = {Head(lane[s].batch)} \union Range(Tail(lane[s].batch))
  BY <1>1, RangeTail DEF BatchTaken
<1>3. lane'[s] = [lane[s] EXCEPT !.batch = Tail(lane[s].batch)]
      /\ \A t \in Lanes : t # s => lane'[t] = lane[t]
  BY DEF BatchTaken, QueueType
<1>4. /\ lane'[s] \in LaneStates /\ lane'[s].pc = lane[s].pc /\ lane'[s].first = lane[s].first
      /\ lane'[s].batch = Tail(lane[s].batch)
  BY <1>1, <1>2, <1>3 DEF LaneStates
<1>5. lane' \in [Lanes -> LaneStates]
  BY <1>3, <1>4 DEF BatchTaken, QueueType
<1>6. /\ Head(lane[s].batch).conn \in Conns
      /\ Head(lane[s].batch) = Event(Head(lane[s].batch).kind, Head(lane[s].batch).conn)
  BY <1>2, EventFacts
<1>7. QED
  BY <1>1, <1>2, <1>3, <1>4, <1>5, <1>6 DEF BatchTaken

LEMMA GameEventKeeps ==
  ASSUME CoreInv, HandleEvent("game")
  PROVE  CoreInv'
<1>1. "game" \in Lanes /\ "chat" \in Lanes /\ "game" # "chat"
  BY DEF Lanes
<1>2. /\ BatchTaken("game") /\ GameEvent(Head(lane["game"].batch))
      /\ UNCHANGED <<stage, closed, closing, inbound, missed, early, deaf>>
  BY DEF HandleEvent, BatchTaken, io
<1>3. /\ lane' \in [Lanes -> LaneStates] /\ lane'["game"].pc = "batch" /\ lane'["game"].first = <<>>
      /\ lane'["game"].batch = Tail(lane["game"].batch) /\ lane'["chat"] = lane["chat"]
      /\ \A t \in Lanes : t # "game" => lane'[t] = lane[t]
  BY <1>1, <1>2, BatchFacts DEF CoreInv
<1>4. PICK c \in Conns, k \in {Head(lane["game"].batch).kind} :
        /\ Head(lane["game"].batch) = Event(k, c)
        /\ k = Head(lane["game"].batch).kind /\ c = Head(lane["game"].batch).conn
  BY <1>1, <1>2, BatchFacts DEF CoreInv
<1>5. /\ UNCHANGED <<named, pending>>
      /\ \/ k = "connected" /\ GameConnected(c)
         \/ k = "disconnected" /\ GameDisconnected(c)
         \/ k \notin {"connected", "disconnected"} /\ UNCHANGED <<table, inbox, relayed>>
  BY <1>2, <1>4 DEF GameEvent, GameEcho, GameDb
<1>6. /\ table' \in [Lanes -> SUBSET Conns] /\ table'["chat"] = table["chat"]
      /\ \A t \in Lanes : t # "game" => table'[t] = table[t]
      /\ \A d \in table'["game"] : d \in table["game"] \/ (k = "connected" /\ d = c)
      /\ k = "disconnected" => c \notin table'["game"]
  <2>1. table \in [Lanes -> SUBSET Conns]
    BY DEF CoreInv, QueueType
  <2>2. CASE k = "connected" /\ GameConnected(c)
    BY <1>1, <2>1, <2>2 DEF GameConnected
  <2>3. CASE k = "disconnected" /\ GameDisconnected(c)
    BY <1>1, <2>1, <2>3 DEF GameDisconnected
  <2>4. CASE k \notin {"connected", "disconnected"} /\ UNCHANGED <<table, inbox, relayed>>
    BY <1>1, <2>1, <2>4
  <2>5. QED
    BY <1>5, <2>2, <2>3, <2>4
<1>7. /\ inbox' \in [Lanes -> Seq(Conns)] /\ Range(inbox["chat"]) \subseteq Range(inbox'["chat"])
      /\ relayed' \subseteq relayed \union Range(inbox'["chat"])
  <2>1. inbox \in [Lanes -> Seq(Conns)]
    BY DEF CoreInv, QueueType
  <2>2. CASE k = "connected" /\ GameConnected(c)
    <3>1. inbox' = [inbox EXCEPT !["chat"] = Append(inbox["chat"], c)] /\ relayed' = relayed \union {c}
      BY <2>2 DEF GameConnected, PostService
    <3>2. /\ Append(inbox["chat"], c) \in Seq(Conns)
          /\ Range(Append(inbox["chat"], c)) = Range(inbox["chat"]) \union {c}
      BY <1>1, <2>1, AppendProperties, RangeAppend
    <3>3. inbox' \in [Lanes -> Seq(Conns)] /\ inbox'["chat"] = Append(inbox["chat"], c)
      BY <1>1, <2>1, <3>1, <3>2
    <3>4. QED
      BY <3>1, <3>2, <3>3
  <2>3. CASE UNCHANGED <<inbox, relayed>>
    BY <2>1, <2>3
  <2>4. QED
    BY <1>5, <2>2, <2>3 DEF GameDisconnected
<1>8. QueueType'
  BY <1>2, <1>3, <1>5, <1>6, <1>7 DEF CoreInv, QueueType
<1>9. NoticeInv'
  <2>1. \A d \in Conns : Head(lane["game"].batch) = Event("disconnected", d) => d \notin table'["game"]
    <3>1. \A d \in Conns : Event(k, c) = Event("disconnected", d) => k = "disconnected" /\ d = c
      BY DEF Event
    <3>2. QED
      BY <1>4, <1>6, <3>1
  <2>2. TakeStep("game")
    BY <1>2, <1>3, <1>4, <1>6, <2>1 DEF TakeStep, BatchTaken
  <2>3. QED
    BY <1>1, <1>2, <2>2, NoCloseKeeps DEF CoreInv
<1>10. \A d \in Conns : Coming("chat", "connected", d) => Coming("chat", "connected", d)'
  BY <1>2, <1>3 DEF Coming
<1>11. NameInv'
  BY <1>2, <1>3, <1>5, <1>6, <1>7, <1>10, NameFrame DEF CoreInv
<1>12. QED
  BY <1>8, <1>9, <1>11 DEF CoreInv

LEMMA ChatEventKeeps ==
  ASSUME CoreInv, HandleEvent("chat")
  PROVE  CoreInv'
<1>1. "game" \in Lanes /\ "chat" \in Lanes /\ "game" # "chat"
  BY DEF Lanes
<1>2. /\ BatchTaken("chat") /\ ChatEvent(Head(lane["chat"].batch))
      /\ UNCHANGED <<stage, closed, closing, inbound, missed, early, deaf>>
  BY DEF HandleEvent, BatchTaken, io
<1>3. /\ lane' \in [Lanes -> LaneStates] /\ lane["chat"].pc = "batch" /\ lane["chat"].batch # <<>>
      /\ lane'["chat"].pc = "batch"
      /\ lane'["chat"].first = <<>> /\ lane["chat"].first = <<>>
      /\ lane'["chat"].batch = Tail(lane["chat"].batch)
      /\ \A t \in Lanes : t # "chat" => lane'[t] = lane[t]
  BY <1>1, <1>2, BatchFacts DEF CoreInv, BatchTaken
<1>4. PICK c \in Conns, k \in {Head(lane["chat"].batch).kind} :
        /\ Head(lane["chat"].batch) = Event(k, c)
        /\ k = Head(lane["chat"].batch).kind /\ c = Head(lane["chat"].batch).conn
        /\ Range(lane["chat"].batch) = {Event(k, c)} \union Range(lane'["chat"].batch)
  <2>1. /\ Head(lane["chat"].batch).conn \in Conns
        /\ Head(lane["chat"].batch) = Event(Head(lane["chat"].batch).kind, Head(lane["chat"].batch).conn)
    BY <1>1, <1>2, BatchFacts DEF CoreInv
  <2>2. Range(lane["chat"].batch) = {Head(lane["chat"].batch)} \union Range(lane'["chat"].batch)
    <3>1. lane["chat"].batch \in Seq(Events)
      BY <1>1, QueueFacts DEF CoreInv
    <3>2. QED
      BY <1>3, <3>1, RangeTail
  <2>3. QED
    BY <2>1, <2>2, Zenon
<1>5. /\ UNCHANGED <<inbox, relayed>>
      /\ \/ /\ k = "connected" /\ table' = [table EXCEPT !["chat"] = table["chat"] \union {c}]
            /\ named' = named \union ({c} \intersect pending) /\ pending' = pending \ {c}
         \/ /\ k = "disconnected" /\ table' = [table EXCEPT !["chat"] = table["chat"] \ {c}]
            /\ named' = named \ {c} /\ pending' = pending \ {c}
         \/ k \notin {"connected", "disconnected"} /\ UNCHANGED <<table, named, pending>>
  BY <1>2, <1>4 DEF ChatEvent, Broadcast, TakenName
<1>6. k = "disconnected" => c \in closed
  BY <1>1, <1>4 DEF CoreInv, NoticeInv, EndAfterClose, Coming
<1>7. /\ table' \in [Lanes -> SUBSET Conns]
      /\ \A t \in Lanes : t # "chat" => table'[t] = table[t]
      /\ \A d \in table'["chat"] : d \in table["chat"] \/ (k = "connected" /\ d = c)
      /\ \A d \in table["chat"] : d \in table'["chat"] \/ (k = "disconnected" /\ d = c)
      /\ k = "disconnected" => c \notin table'["chat"]
      /\ k = "connected" => c \in table'["chat"]
      /\ named' \subseteq table'["chat"] /\ pending' \subseteq Conns \ table'["chat"]
      /\ pending' \subseteq pending /\ (k = "connected" => c \notin pending')
      /\ \A d \in pending \union named : d \in pending' \union named' \/ (k = "disconnected" /\ d = c)
  <2>1. /\ table \in [Lanes -> SUBSET Conns] /\ named \subseteq table["chat"]
        /\ pending \subseteq Conns \ table["chat"]
    BY DEF CoreInv, QueueType
  <2>2. CASE /\ k = "connected" /\ table' = [table EXCEPT !["chat"] = table["chat"] \union {c}]
             /\ named' = named \union ({c} \intersect pending) /\ pending' = pending \ {c}
    <3>1. /\ table'["chat"] = table["chat"] \union {c} /\ table' \in [Lanes -> SUBSET Conns]
          /\ \A t \in Lanes : t # "chat" => table'[t] = table[t]
      BY <1>1, <2>1, <2>2
    <3>2. QED
      BY <2>1, <2>2, <3>1
  <2>3. CASE /\ k = "disconnected" /\ table' = [table EXCEPT !["chat"] = table["chat"] \ {c}]
             /\ named' = named \ {c} /\ pending' = pending \ {c}
    <3>1. /\ table'["chat"] = table["chat"] \ {c} /\ table' \in [Lanes -> SUBSET Conns]
          /\ \A t \in Lanes : t # "chat" => table'[t] = table[t]
      BY <1>1, <2>1, <2>3
    <3>2. QED
      BY <2>1, <2>3, <3>1
  <2>4. CASE k \notin {"connected", "disconnected"} /\ UNCHANGED <<table, named, pending>>
    BY <2>1, <2>4
  <2>5. QED
    BY <1>5, <2>2, <2>3, <2>4
<1>8. \A l, d : Event(k, c) = Event(l, d) => k = l /\ c = d
  BY DEF Event
<1>9. QueueType'
  BY <1>2, <1>3, <1>5, <1>7 DEF CoreInv, QueueType
<1>10. NoticeInv'
  <2>1. \A d \in Conns : Head(lane["chat"].batch) = Event("disconnected", d) => d \notin table'["chat"]
    BY <1>4, <1>7, <1>8
  <2>2. TakeStep("chat")
    BY <1>3, <1>4, <1>7, <2>1 DEF TakeStep
  <2>3. QED
    BY <1>1, <1>2, <2>2, NoCloseKeeps DEF CoreInv
<1>11. \A d \in Conns : Event("connected", d) \in Range(lane["chat"].batch) =>
         Event("connected", d) \in Range(lane'["chat"].batch) \/ (k = "connected" /\ d = c)
  BY <1>4, <1>8
<1>12. MemberOrComing'
  BY <1>2, <1>6, <1>7, <1>11 DEF CoreInv, NameInv, MemberOrComing, Coming
<1>13. KeptIsComing'
  <2>1. pending \subseteq Conns
    BY DEF CoreInv, QueueType
  <2>2. QED
    BY <1>2, <1>3, <1>7, <1>11, <2>1 DEF CoreInv, NameInv, KeptIsComing
<1>14. KeySomewhere'
  BY <1>2, <1>3, <1>5, <1>6, <1>7 DEF CoreInv, NameInv, KeySomewhere
<1>15. QED
  BY <1>9, <1>10, <1>12, <1>13, <1>14 DEF CoreInv, NameInv

-----------------------------------------------------------------------------
(* A handler throws: the entry goes, and the connection with it.           *)
LEMMA FaultFacts ==
  ASSUME CoreInv, NEW s \in Lanes, Fault(s)
  PROVE  /\ Current(s) \in Conns /\ CloseStep(Current(s)) /\ TakeStep(s)
         /\ Current(s) \in closed' \union deaf' /\ deaf \subseteq deaf'
         /\ table' = [table EXCEPT ![s] = table[s] \ {Current(s)}]
         /\ lane' \in [Lanes -> LaneStates] /\ lane'[s].pc = lane[s].pc
         /\ lane'[s].pc # "first" => lane'[s].first = <<>>
         /\ lane'[s].pc # "batch" => lane'[s].batch = <<>>
         /\ \A t \in Lanes : t # s => lane'[t] = lane[t]
         /\ \A d \in Range(lane[s].first) : d = Current(s) \/ d \in Range(lane'[s].first)
         /\ \A d \in Conns : Event("connected", d) \in Range(lane[s].batch) =>
              d = Current(s) \/ Event("connected", d) \in Range(lane'[s].batch)
<1>1. QueueType /\ NoticeInv
  BY DEF CoreInv
<1>2. /\ CloseFaulted(s, Current(s)) /\ table' = [table EXCEPT ![s] = table[s] \ {Current(s)}]
      /\ deaf' = IF Current(s) \in table[s] THEN deaf ELSE deaf \union {Current(s)}
      /\ stage' = stage
  BY DEF Fault
<1>3. \/ FirstTaken(s) /\ Current(s) = Head(lane[s].first)
      \/ BatchTaken(s) /\ Current(s) = Head(lane[s].batch).conn
  BY DEF Fault, FirstTaken, BatchTaken, Current
<1>4. PICK c \in Conns : c = Current(s)
  BY <1>1, <1>3, FirstFacts, BatchFacts
<1>5. /\ table'[s] = table[s] \ {c} /\ \A t \in Lanes : t # s => table'[t] = table[t]
  BY <1>1, <1>2, <1>4 DEF QueueType
<1>6. CloseStep(c)
  <2>1. CASE UNCHANGED <<closed, closing, inbound, early>>
    BY <2>1 DEF CloseStep
  <2>2. CASE DoClose(c) /\ c \in table[s]
    BY <1>1, <2>2, DoCloseIs DEF NoticeInv, Started
  <2>3. CASE DoClose(c) /\ Inserting(s)
    <3>1. BatchTaken(s) /\ c = Head(lane[s].batch).conn /\ Head(lane[s].batch).kind = "connected"
      BY <1>3, <1>4, <2>3 DEF Inserting, FirstTaken
    <3>2. /\ Head(lane[s].batch) = Event("connected", c)
          /\ Range(lane[s].batch) = {Head(lane[s].batch)} \union Range(lane'[s].batch)
      BY <1>1, <3>1, BatchFacts
    <3>3. Coming(s, "connected", c)
      BY <3>2 DEF Coming
    <3>4. QED
      BY <1>1, <2>3, <3>3, DoCloseIs DEF NoticeInv, Started
  <2>4. QED
    BY <1>2, <1>4, <2>1, <2>2, <2>3 DEF CloseFaulted
<1>7. c \in closed' \union deaf' /\ deaf \subseteq deaf'
  BY <1>2, <1>4 DEF CloseFaulted, DoClose
<1>8. CASE FirstTaken(s) /\ Current(s) = Head(lane[s].first)
  <2>1. /\ lane' \in [Lanes -> LaneStates]
        /\ lane'[s].pc = "first" /\ lane'[s].batch = <<>> /\ lane[s].batch = <<>> /\ lane[s].pc = "first"
        /\ Range(lane[s].first) = {c} \union Range(lane'[s].first)
        /\ \A t \in Lanes : t # s => lane'[t] = lane[t]
    BY <1>1, <1>4, <1>8, FirstFacts DEF FirstTaken
  <2>2. TakeStep(s)
    BY <1>5, <2>1 DEF TakeStep
  <2>3. QED
    BY <1>2, <1>4, <1>6, <1>7, <2>1, <2>2
<1>9. CASE BatchTaken(s) /\ Current(s) = Head(lane[s].batch).conn
  <2>1. PICK k : /\ lane' \in [Lanes -> LaneStates]
                 /\ lane'[s].pc = "batch" /\ lane'[s].first = <<>> /\ lane[s].first = <<>>
                 /\ lane[s].pc = "batch" /\ lane[s].batch # <<>>
                 /\ lane'[s].batch = Tail(lane[s].batch)
                 /\ Head(lane[s].batch) = Event(k, c)
                 /\ Range(lane[s].batch) = {Event(k, c)} \union Range(lane'[s].batch)
                 /\ \A t \in Lanes : t # s => lane'[t] = lane[t]
    BY <1>1, <1>4, <1>9, BatchFacts, ZenonT(60) DEF BatchTaken
  <2>2. \A l, d : Event(k, c) = Event(l, d) => k = l /\ c = d
    BY DEF Event
  <2>3. TakeStep(s)
    BY <1>5, <2>1, <2>2 DEF TakeStep
  <2>4. \A d \in Conns : Event("connected", d) \in Range(lane[s].batch) =>
          d = c \/ Event("connected", d) \in Range(lane'[s].batch)
    BY <2>1, <2>2
  <2>5. Range(lane[s].first) = {}
    BY <2>1, RangeEmpty
  <2>6. QED
    BY <1>2, <1>4, <1>6, <1>7, <2>1, <2>3, <2>4, <2>5
<1>10. QED
  BY <1>3, <1>8, <1>9

LEMMA FaultKeeps ==
  ASSUME CoreInv, NEW s \in Lanes, Fault(s)
  PROVE  CoreInv'
<1>1. PICK c \in Conns : c = Current(s)
  BY FaultFacts
<1>2. /\ CloseStep(c) /\ TakeStep(s) /\ c \in closed' \union deaf' /\ deaf \subseteq deaf'
      /\ table' = [table EXCEPT ![s] = table[s] \ {c}]
      /\ lane' \in [Lanes -> LaneStates] /\ lane'[s].pc = lane[s].pc
      /\ lane'[s].pc # "first" => lane'[s].first = <<>>
      /\ lane'[s].pc # "batch" => lane'[s].batch = <<>>
      /\ \A t \in Lanes : t # s => lane'[t] = lane[t]
      /\ \A d \in Range(lane[s].first) : d = c \/ d \in Range(lane'[s].first)
      /\ \A d \in Conns : Event("connected", d) \in Range(lane[s].batch) =>
           d = c \/ Event("connected", d) \in Range(lane'[s].batch)
  BY <1>1, FaultFacts
<1>3. /\ UNCHANGED <<stage, inbox, relayed, missed>>
      /\ IF s = "chat" THEN named' = named \ {c} /\ pending' = pending \ {c}
         ELSE UNCHANGED <<named, pending>>
  BY <1>1 DEF Fault
<1>4. /\ inbound' \in [Lanes -> Seq(Events)]
      /\ closing' \subseteq closed' /\ closed' \subseteq Conns /\ closed \subseteq closed'
      /\ inbound'["chat"] = inbound["chat"]
  BY <1>2, CloseFacts DEF CoreInv
<1>5. "chat" \in Lanes
  BY DEF Lanes
<1>6. /\ table' \in [Lanes -> SUBSET Conns] /\ table'[s] = table[s] \ {c}
      /\ \A t \in Lanes : t # s => table'[t] = table[t]
  BY <1>2 DEF CoreInv, QueueType
<1>7. named' \subseteq table'["chat"] /\ pending' \subseteq Conns \ table'["chat"]
  <2>1. named \subseteq table["chat"] /\ pending \subseteq Conns \ table["chat"]
    BY DEF CoreInv, QueueType
  <2>2. CASE s = "chat"
    BY <1>3, <1>6, <2>1, <2>2
  <2>3. CASE s # "chat"
    BY <1>3, <1>5, <1>6, <2>1, <2>3
  <2>4. QED
    BY <2>2, <2>3
<1>8. QueueType'
  BY <1>2, <1>3, <1>4, <1>6, <1>7 DEF CoreInv, QueueType
<1>9. NoticeInv'
  BY <1>2, <1>3, NoticeKeeps DEF CoreInv
<1>10. CASE s # "chat"
  <2>1. lane'["chat"] = lane["chat"] /\ table'["chat"] = table["chat"] /\ UNCHANGED <<named, pending>>
    BY <1>2, <1>3, <1>5, <1>6, <1>10
  <2>2. \A d \in Conns : Coming("chat", "connected", d) => Coming("chat", "connected", d)'
    BY <1>4, <2>1 DEF Coming
  <2>3. NameInv'
    BY <1>2, <1>3, <1>4, <2>1, <2>2, NameFrame DEF CoreInv
  <2>4. QED
    BY <1>8, <1>9, <2>3 DEF CoreInv
<1>11. CASE s = "chat"
  <2>1. named' = named \ {c} /\ pending' = pending \ {c} /\ table'["chat"] = table["chat"] \ {c}
    BY <1>3, <1>6, <1>11
  <2>2. MemberOrComing'
    BY <1>2, <1>3, <1>4, <1>11, <2>1 DEF CoreInv, NameInv, MemberOrComing, Coming
  <2>3. KeptIsComing'
    <3>1. pending \subseteq Conns
      BY DEF CoreInv, QueueType
    <3>2. QED
      BY <1>2, <1>3, <1>4, <1>11, <2>1, <3>1 DEF CoreInv, NameInv, KeptIsComing
  <2>4. KeySomewhere'
    BY <1>2, <1>3, <1>4, <1>11, <2>1 DEF CoreInv, NameInv, KeySomewhere
  <2>5. QED
    BY <1>8, <1>9, <2>2, <2>3, <2>4 DEF CoreInv, NameInv
<1>12. QED
  BY <1>10, <1>11

-----------------------------------------------------------------------------
(* The counters of the requests.                                           *)
LEMMA CountKeeps ==
  ASSUME CoreInv, CountType, Next
  PROVE  CountType'
<1>1. MaxMessages \in Nat
  BY ServicesAssumption
<1>2. \A c : [replied EXCEPT ![c] = replied[c] + 1] \in [Conns -> Nat]
  <2>1. SUFFICES ASSUME NEW c PROVE [replied EXCEPT ![c] = replied[c] + 1] \in [Conns -> Nat]
    OBVIOUS
  <2>2. CASE c \in Conns
    BY <2>2 DEF CountType
  <2>3. CASE c \notin Conns
    BY <2>3 DEF CountType
  <2>4. QED
    BY <2>2, <2>3
<1>3. \A c : [pool EXCEPT ![c] = pool[c] + 1] \in [Conns -> Nat]
  <2>1. SUFFICES ASSUME NEW c PROVE [pool EXCEPT ![c] = pool[c] + 1] \in [Conns -> Nat]
    OBVIOUS
  <2>2. CASE c \in Conns
    BY <2>2 DEF CountType
  <2>3. CASE c \notin Conns
    BY <2>3 DEF CountType
  <2>4. QED
    BY <2>2, <2>3
<1>4. CASE UNCHANGED <<asked, replied, pool>>
  BY <1>4 DEF CountType
<1>5. ASSUME NEW c \in Conns, NEW kind \in Requests, Ask(c, kind) PROVE CountType'
  <2>1. /\ asked[c] < MaxMessages /\ asked' = [asked EXCEPT ![c] = asked[c] + 1] /\ pool' = pool
        /\ replied' = replied \/ replied' = [replied EXCEPT ![c] = replied[c] + 1]
    BY <1>5 DEF Ask
  <2>2. asked[c] + 1 \in 0..MaxMessages
    BY <1>1, <2>1 DEF CountType
  <2>3. QED
    BY <1>2, <2>1, <2>2 DEF CountType
<1>6. ASSUME NEW c \in Conns, PoolAnswers(c) PROVE CountType'
  <2>1. pool[c] > 0 /\ pool' = [pool EXCEPT ![c] = pool[c] - 1] /\ UNCHANGED <<asked, replied>>
    BY <1>6 DEF PoolAnswers, client
  <2>2. pool[c] - 1 \in Nat
    BY <2>1 DEF CountType
  <2>3. QED
    BY <2>1, <2>2 DEF CountType
<1>7. ASSUME NEW s \in Lanes, HandleFirst(s) PROVE CountType'
  <2>1. PICK c : replied' = replied \/ replied' = [replied EXCEPT ![c] = replied[c] + 1]
    BY <1>7 DEF HandleFirst, GameReply, ChatName
  <2>2. UNCHANGED <<asked, pool>>
    BY <1>7 DEF HandleFirst
  <2>3. QED
    BY <1>2, <2>1, <2>2 DEF CountType
<1>8. ASSUME NEW s \in Lanes, HandleEvent(s) PROVE CountType'
  <2>1. asked' = asked
    BY <1>8 DEF HandleEvent
  <2>2. CASE s = "game"
    <3>1. GameEvent(Head(lane["game"].batch))
      BY <1>8, <2>2 DEF HandleEvent
    <3>2. PICK c : \/ UNCHANGED <<replied, pool>>
                   \/ replied' = [replied EXCEPT ![c] = replied[c] + 1] /\ pool' = pool
                   \/ pool' = [pool EXCEPT ![c] = pool[c] + 1] /\ replied' = replied
      BY <3>1 DEF GameEvent, GameConnected, GameDisconnected, GameEcho, GameDb, RefuseWithError
    <3>3. QED
      BY <1>2, <1>3, <2>1, <3>2 DEF CountType
  <2>3. CASE s # "game"
    <3>1. ChatEvent(Head(lane[s].batch))
      BY <1>8, <2>3 DEF HandleEvent
    <3>2. pool' = pool
      BY <3>1 DEF ChatEvent
    <3>3. PICK c : replied' = replied \/ replied' = [replied EXCEPT ![c] = replied[c] + 1]
      BY <3>1 DEF ChatEvent, Broadcast
    <3>4. QED
      BY <1>2, <2>1, <3>2, <3>3 DEF CountType
  <2>4. QED
    BY <2>2, <2>3
<1>9. ASSUME NEW c \in Conns, ConnectedToGame(c) \/ Poster(c) \/ Close(c) PROVE CountType'
  <2>1. UNCHANGED <<asked, replied, pool>>
    BY <1>9 DEF ConnectedToGame, Poster, ConnectedToChat, DisconnectedToChat, Close, client
  <2>2. QED
    BY <1>4, <2>1
<1>10. ASSUME NEW s \in Lanes, StartRound(s) \/ SwapInbound(s) \/ EndRound(s) \/ Fault(s) PROVE CountType'
  <2>1. UNCHANGED <<asked, replied, pool>>
    BY <1>10 DEF StartRound, SwapInbound, EndRound, Fault, client
  <2>2. QED
    BY <1>4, <2>1
<1>11. QED
  BY <1>5, <1>6, <1>7, <1>8, <1>9, <1>10 DEF Next, Lane

-----------------------------------------------------------------------------
LEMMA InitIInv == Init => IInv
<1>1. SUFFICES ASSUME Init PROVE IInv
  OBVIOUS
<1>2. "game" \in Lanes /\ "chat" \in Lanes
  BY DEF Lanes
<1>3. <<>> \in Seq(Events) /\ <<>> \in Seq(Conns)
  BY EmptySeq
<1>4. /\ Idle \in LaneStates /\ Idle.pc = "idle" /\ Idle.first = <<>> /\ Idle.batch = <<>>
  BY <1>3 DEF Idle, LaneStates, Places
<1>5. \A s \in Lanes : /\ lane[s] = Idle /\ inbound[s] = <<>> /\ inbox[s] = <<>> /\ table[s] = {}
  BY <1>1 DEF Init
<1>6. QueueType
  BY <1>1, <1>2, <1>3, <1>4, <1>5 DEF Init, QueueType
<1>7. CountType
  BY <1>1, ServicesAssumption DEF Init, CountType
<1>8. \A s \in Lanes : \A k, c : ~Coming(s, k, c)
  BY <1>4, <1>5, RangeEmpty DEF Coming
<1>9. Started /\ EndAfterClose /\ NoOrphan
  BY <1>1, <1>5, <1>8 DEF Init, Started, EndAfterClose, NoOrphan
<1>10. NoticesInOrder
  BY <1>4, <1>5, RangeEmpty DEF NoticesInOrder, Ordered, InOrder
<1>11. MemberOrComing /\ KeptIsComing /\ KeySomewhere
  BY <1>1, <1>2, <1>4, <1>5 DEF Init, MemberOrComing, KeptIsComing, KeySomewhere
<1>12. QED
  BY <1>6, <1>7, <1>9, <1>10, <1>11 DEF IInv, CoreInv, NoticeInv, NameInv

LEMMA NextIInv == IInv /\ [Next]_vars => IInv'
<1>1. SUFFICES ASSUME IInv, [Next]_vars PROVE IInv'
  OBVIOUS
<1>2. CoreInv /\ CountType
  BY <1>1 DEF IInv
<1>3. CASE UNCHANGED vars
  <2>1. CoreInv'
    BY <1>2, <1>3 DEF vars, io, client, history, CoreInv, QueueType, NoticeInv, NameInv, Started,
       EndAfterClose, NoticesInOrder, NoOrphan, MemberOrComing, KeptIsComing, KeySomewhere, Coming
  <2>2. CountType'
    BY <1>2, <1>3 DEF vars, io, client, history, CountType
  <2>3. QED
    BY <2>1, <2>2 DEF IInv
<1>4. CASE Next
  <2>1. ASSUME NEW c \in Conns, ConnectedToGame(c) \/ Poster(c) \/ Close(c) \/ PoolAnswers(c)
        PROVE  CoreInv'
    BY <1>2, <2>1, ConnectedToGameKeeps, ConnectedToChatKeeps, DisconnectedToChatKeeps, CloseKeeps,
       PoolAnswersKeeps DEF Poster
  <2>2. ASSUME NEW c \in Conns, NEW kind \in Requests, Ask(c, kind) PROVE CoreInv'
    BY <1>2, <2>2, AskKeeps
  <2>3. ASSUME NEW s \in Lanes, HandleEvent(s) PROVE CoreInv'
    <3>1. s = "game" \/ s = "chat"
      BY DEF Lanes
    <3>2. QED
      BY <1>2, <2>3, <3>1, GameEventKeeps, ChatEventKeeps
  <2>4. ASSUME NEW s \in Lanes, Lane(s) \/ Fault(s) PROVE CoreInv'
    BY <1>2, <2>3, <2>4, StartRoundKeeps, SwapInboundKeeps, EndRoundKeeps, HandleFirstKeeps,
       FaultKeeps DEF Lane
  <2>5. CoreInv'
    BY <1>4, <2>1, <2>2, <2>4 DEF Next
  <2>6. CountType'
    BY <1>2, <1>4, CountKeeps
  <2>7. QED
    BY <2>5, <2>6 DEF IInv
<1>5. QED
  BY <1>1, <1>3, <1>4

LEMMA Invariance == Spec => []IInv
BY InitIInv, NextIInv, PTL DEF Spec

-----------------------------------------------------------------------------
(* The two lanes, the router and the pool keep every table, queue and      *)
(* counter in its range: a member's name is of one in members_, a kept key *)
(* of one that is not, and no client has more requests than it may send.   *)
THEOREM TypeCorrect == Spec => []TypeOK
<1>1. IInv => TypeOK
  <2>1. SUFFICES ASSUME IInv PROVE TypeOK
    OBVIOUS
  <2>2. QueueType /\ CountType
    BY <2>1 DEF IInv, CoreInv
  <2>3. \A s \in Lanes : lane[s].pc \in {"idle", "first", "batch"}
    BY <2>2, QueueFacts DEF Places
  <2>4. QED
    BY <2>2, <2>3 DEF TypeOK, QueueType, CountType
<1>2. QED
  BY <1>1, Invariance, PTL

(* ServiceRouter::post_disconnected and the FIFO queues of the lanes: a    *)
(* connection that is closed, by its peer, by a handler that threw or by   *)
(* anyone else, at any point of post_connected, leaves no session and no   *)
(* member behind whose end is not on the way; the exception is the one     *)
(* closed before the chat service was told of it.                          *)
THEOREM NobodyOrphaned == Spec => []NoOrphan
<1>1. IInv => NoOrphan
  BY DEF IInv, CoreInv, NoticeInv
<1>2. QED
  BY <1>1, Invariance, PTL

(* BroadcastService's pending_names_: the session key that goes past the   *)
(* inbound queue of the chat lane becomes the name of its member however   *)
(* the two lanes and the I/O threads interleave, provided that Connected   *)
(* was in the queue when the chat lane swapped it out.                     *)
THEOREM NamesNeverLost == Spec => []NoNameLost
<1>1. IInv => NoNameLost
  BY DEF IInv, CoreInv, QueueType, NameInv, KeySomewhere, NoNameLost
<1>2. QED
  BY <1>1, Invariance, PTL

(* BroadcastService::on_after_batch: a key dropped at the end of a round   *)
(* belongs to a connection that is closed, to one over which a handler     *)
(* threw, or to one whose Connected was not in the queue yet when the lane *)
(* swapped it out. The last case is the one in which the claim of the      *)
(* comment there, that nobody is waiting for the key, fails.               *)
LeftoversExplained == orphaned \subseteq closed \union missed \union deaf

THEOREM DroppedKeys == Spec => []LeftoversExplained
<1>1. Init => LeftoversExplained
  BY DEF Init, LeftoversExplained
<1>2. IInv /\ LeftoversExplained /\ [Next]_vars => LeftoversExplained'
  <2>1. SUFFICES ASSUME IInv, LeftoversExplained, [Next]_vars PROVE LeftoversExplained'
    OBVIOUS
  <2>2. ASSUME UNCHANGED orphaned, closed \subseteq closed', missed \subseteq missed',
               deaf \subseteq deaf'
        PROVE  LeftoversExplained'
    BY <2>1, <2>2 DEF LeftoversExplained
  <2>3. CASE UNCHANGED vars
    BY <2>2, <2>3 DEF vars, io, history
  <2>4. ASSUME NEW c \in Conns, ConnectedToGame(c) \/ Poster(c) \/ Close(c) \/ PoolAnswers(c)
        PROVE  LeftoversExplained'
    BY <2>2, <2>4 DEF ConnectedToGame, Poster, ConnectedToChat, DisconnectedToChat, Close, DoClose,
       PoolAnswers, io, history
  <2>5. ASSUME NEW c \in Conns, NEW kind \in Requests, Ask(c, kind) PROVE LeftoversExplained'
    BY <2>2, <2>5 DEF Ask, io, history
  <2>6. ASSUME NEW s \in Lanes, EndRound(s) PROVE LeftoversExplained'
    <3>1. UNCHANGED <<closed, missed, deaf>>
      BY <2>6 DEF EndRound, io
    <3>2. CASE s = "chat"
      <4>1. pending \subseteq missed \union closed \union deaf
        BY <2>1, <2>6, <3>2, RangeEmpty DEF EndRound, IInv, CoreInv, NameInv, KeptIsComing
      <4>2. orphaned' = orphaned \union pending
        BY <2>6, <3>2 DEF EndRound
      <4>3. QED
        BY <2>1, <3>1, <4>1, <4>2 DEF LeftoversExplained
    <3>3. CASE s # "chat"
      BY <2>2, <2>6, <3>1, <3>3 DEF EndRound
    <3>4. QED
      BY <3>2, <3>3
  <2>7. ASSUME NEW s \in Lanes, StartRound(s) \/ SwapInbound(s) \/ HandleFirst(s) \/ HandleEvent(s)
        PROVE  LeftoversExplained'
    BY <2>2, <2>7 DEF StartRound, SwapInbound, HandleFirst, HandleEvent, io, history
  <2>8. ASSUME NEW s \in Lanes, Fault(s) PROVE LeftoversExplained'
    <3>1. UNCHANGED <<orphaned, missed>> /\ deaf \subseteq deaf'
      BY <2>8 DEF Fault
    <3>2. closed \subseteq closed'
      BY <2>8 DEF Fault, CloseFaulted, DoClose
    <3>3. QED
      BY <2>2, <3>1, <3>2
  <2>9. QED
    BY <2>1, <2>3, <2>4, <2>5, <2>6, <2>7, <2>8 DEF Next, Lane
<1>3. QED
  BY <1>1, <1>2, Invariance, PTL DEF Spec

-----------------------------------------------------------------------------
(* Requests and their answers. The requests of c in a queue are behind the *)
(* notice of its coming.                                                   *)
Behind(q, c) ==
  \A j \in DOMAIN q : q[j] \in Mine(c) => \E i \in 1..j - 1 : q[i] = Event("connected", c)
Announced(b, q, c) ==
  /\ Behind(b, c)
  /\ Event("connected", c) \in Range(b) \/ Behind(q, c)
Greeted(s, c) == c \in table[s] \/ Announced(lane[s].batch, inbound[s], c)

(* An open connection a service was told of is in its table or about to    *)
(* come.                                                                   *)
Told(s, c) == IF s = "game" THEN stage[c] # "new" ELSE stage[c] = "chat"
Known(s, c) == c \in table[s] \/ Coming(s, "connected", c)

(* What the pool works on for c, or has answered, was asked by a session.  *)
AtPool(c) == pool[c] > 0 \/ c \in Range(inbox["game"]) \union Range(lane["game"].first)

Settled(c) == asked[c] = replied[c] + Underway(c)
Served(c) ==
  /\ \A s \in Lanes : (Told(s, c) => Known(s, c)) /\ Greeted(s, c)
  /\ AtPool(c) => c \in table["game"]
  /\ Settled(c)
RequestInv == \A c \in Conns \ (closed \union deaf) : Served(c)

-----------------------------------------------------------------------------
(* Counting in queues.                                                     *)
LEMMA CountNat ==
  ASSUME NEW X, NEW q \in Seq(X), NEW S
  PROVE  Count(q, S) \in Nat
<1>1. IsFiniteSet(1..Len(q))
  BY FS_Interval, LenProperties
<1>2. DOMAIN q = 1..Len(q)
  BY LenProperties
<1>3. PICK A : A = {i \in DOMAIN q : q[i] \in S}
  OBVIOUS
<1>4. IsFiniteSet(A)
  <2>1. A \in SUBSET (1..Len(q))
    BY <1>2, <1>3
  <2>2. QED
    BY <1>1, <2>1, FS_Subset
<1>5. QED
  BY <1>3, <1>4, FS_CardinalityType DEF Count

LEMMA CountEmpty ==
  ASSUME NEW S
  PROVE  Count(<<>>, S) = 0
<1>1. {i \in DOMAIN <<>> : <<>>[i] \in S} = {}
  OBVIOUS
<1>2. QED
  BY <1>1, FS_EmptySet DEF Count

LEMMA CountAppend ==
  ASSUME NEW X, NEW q \in Seq(X), NEW e \in X, NEW S
  PROVE  Count(Append(q, e), S) = Count(q, S) + (IF e \in S THEN 1 ELSE 0)
<1>1. /\ Len(q) \in Nat /\ DOMAIN q = 1..Len(q) /\ DOMAIN Append(q, e) = 1..Len(q) + 1
      /\ Append(q, e)[Len(q) + 1] = e
      /\ \A i \in 1..Len(q) : Append(q, e)[i] = q[i]
  BY AppendProperties, LenProperties
<1>2. PICK A : A = {i \in DOMAIN q : q[i] \in S}
  OBVIOUS
<1>3. PICK B : B = {i \in DOMAIN Append(q, e) : Append(q, e)[i] \in S}
  OBVIOUS
<1>4. IsFiniteSet(A) /\ Cardinality(A) \in Nat
  <2>1. A \in SUBSET (1..Len(q)) /\ IsFiniteSet(1..Len(q))
    BY <1>1, <1>2, FS_Interval
  <2>2. QED
    BY <2>1, FS_Subset, FS_CardinalityType
<1>5. Len(q) + 1 \notin A
  BY <1>1, <1>2
<1>6. CASE e \in S
  <2>1. B = A \union {Len(q) + 1}
    BY <1>1, <1>2, <1>3, <1>6
  <2>2. Cardinality(B) = Cardinality(A) + 1
    BY <1>4, <1>5, <2>1, FS_AddElement
  <2>3. QED
    BY <1>2, <1>3, <1>6, <2>2 DEF Count
<1>7. CASE e \notin S
  <2>1. B = A
    BY <1>1, <1>2, <1>3, <1>7
  <2>2. Count(Append(q, e), S) = Cardinality(A) /\ Count(q, S) = Cardinality(A)
    BY <1>2, <1>3, <2>1 DEF Count
  <2>3. QED
    BY <1>4, <1>7, <2>2
<1>8. QED
  BY <1>6, <1>7

LEMMA CountTail ==
  ASSUME NEW X, NEW q \in Seq(X), NEW S, q # <<>>
  PROVE  Count(q, S) = Count(Tail(q), S) + (IF Head(q) \in S THEN 1 ELSE 0)
<1>1. /\ Len(q) \in Nat \ {0} /\ DOMAIN q = 1..Len(q) /\ Head(q) = q[1]
      /\ Tail(q) \in Seq(X) /\ Len(Tail(q)) = Len(q) - 1
      /\ \A i \in 1..Len(Tail(q)) : Tail(q)[i] = q[i + 1]
  BY HeadTailProperties, EmptySeq, LenProperties
<1>2. DOMAIN Tail(q) = 1..Len(q) - 1
  BY <1>1
<1>3. PICK A : A = {i \in DOMAIN Tail(q) : Tail(q)[i] \in S}
  OBVIOUS
<1>4. PICK B : B = {i \in DOMAIN q : q[i] \in S}
  OBVIOUS
<1>5. A \subseteq 1..Len(q) - 1 /\ \A i \in 1..Len(q) - 1 : i \in A <=> i + 1 \in B
  <2>1. \A i \in 1..Len(q) - 1 : i + 1 \in 1..Len(q)
    BY <1>1
  <2>2. QED
    BY <1>1, <1>2, <1>3, <1>4, <2>1
<1>6. IsFiniteSet(A) /\ Cardinality(A) \in Nat
  <2>1. A \in SUBSET (1..Len(q) - 1) /\ IsFiniteSet(1..Len(q) - 1)
    BY <1>1, <1>5, FS_Interval
  <2>2. QED
    BY <2>1, FS_Subset, FS_CardinalityType
<1>7. PICK D : D = B \ {1}
  OBVIOUS
<1>8. \A j \in D : j - 1 \in A /\ (j - 1) + 1 = j
  <2>1. SUFFICES ASSUME NEW j \in D PROVE j - 1 \in A /\ (j - 1) + 1 = j
    OBVIOUS
  <2>2. j \in 1..Len(q) /\ j # 1 /\ j \in B
    BY <1>1, <1>4, <1>7
  <2>3. j - 1 \in 1..Len(q) - 1 /\ (j - 1) + 1 = j
    BY <1>1, <2>2
  <2>4. QED
    BY <1>5, <2>2, <2>3
<1>9. \A i \in A : i + 1 \in D
  BY <1>5, <1>7
<1>10. IsFiniteSet(D) /\ Cardinality(D) = Cardinality(A)
  <2>1. PICK f : f = [i \in A |-> i + 1]
    OBVIOUS
  <2>2. f \in [A -> D] /\ \A i \in A : f[i] = i + 1
    BY <1>9, <2>1
  <2>3. \A i, j \in A : f[i] = f[j] => i = j
    BY <1>5, <2>2
  <2>4. \A j \in D : \E i \in A : f[i] = j
    BY <1>8, <2>2
  <2>5. f \in Bijection(A, D)
    <3>1. IsInjective(f)
      BY <2>2, <2>3 DEF IsInjective
    <3>2. QED
      BY <2>2, <2>4, <3>1 DEF Bijection, Injection, Surjection
  <2>6. ExistsBijection(A, D)
    BY <2>5 DEF ExistsBijection
  <2>7. QED
    BY <1>6, <2>6, FS_Bijection
<1>11. 1 \in B <=> Head(q) \in S
  BY <1>1, <1>4
<1>12. Cardinality(B) = Cardinality(A) + (IF Head(q) \in S THEN 1 ELSE 0)
  <2>1. CASE Head(q) \in S
    <3>1. B = D \union {1} /\ 1 \notin D
      BY <1>7, <1>11, <2>1
    <3>2. QED
      BY <1>10, <2>1, <3>1, FS_AddElement
  <2>2. CASE Head(q) \notin S
    <3>1. B = D
      BY <1>7, <1>11, <2>2
    <3>2. QED
      BY <1>6, <1>10, <2>2, <3>1
  <2>3. QED
    BY <2>1, <2>2
<1>13. QED
  BY <1>3, <1>4, <1>12 DEF Count

-----------------------------------------------------------------------------
(* The requests of c stay behind the notice of its coming.                 *)
LEMMA MineFacts ==
  ASSUME NEW c
  PROVE  /\ \A kind, d : Event(kind, d) \in Mine(c) <=> kind \in Requests /\ d = c
         /\ Event("connected", c) \notin Mine(c)
<1>1. \A k, l, d, e : Event(k, d) = Event(l, e) => k = l /\ d = e
  BY EventFacts
<1>2. \A kind, d : Event(kind, d) \in Mine(c) <=> kind \in Requests /\ d = c
  BY <1>1 DEF Mine
<1>3. "connected" \notin Requests
  BY DEF Requests
<1>4. QED
  BY <1>2, <1>3

LEMMA AnnouncedPost ==
  ASSUME NEW b, NEW q \in Seq(Events), NEW c, NEW e \in Events, Announced(b, q, c),
         e \in Mine(c) => Event("connected", c) \in Range(b) \union Range(q)
  PROVE  Announced(b, Append(q, e), c)
<1>1. /\ Len(q) \in Nat /\ DOMAIN q = 1..Len(q) /\ DOMAIN Append(q, e) = 1..Len(q) + 1
      /\ Append(q, e)[Len(q) + 1] = e
      /\ \A i \in 1..Len(q) : Append(q, e)[i] = q[i]
  BY AppendProperties, LenProperties
<1>2. CASE Event("connected", c) \in Range(b)
  BY <1>2 DEF Announced
<1>3. CASE Event("connected", c) \notin Range(b)
  <2>1. Behind(q, c) /\ Behind(b, c)
    BY <1>3 DEF Announced
  <2>2. SUFFICES ASSUME NEW j \in 1..Len(q) + 1, Append(q, e)[j] \in Mine(c)
                 PROVE  \E i \in 1..j - 1 : Append(q, e)[i] = Event("connected", c)
    BY <1>1, <2>1 DEF Announced, Behind
  <2>3. CASE j \in 1..Len(q)
    <3>1. PICK i \in 1..j - 1 : q[i] = Event("connected", c)
      BY <1>1, <2>1, <2>2, <2>3 DEF Behind
    <3>2. i \in 1..Len(q)
      BY <1>1, <2>3
    <3>3. QED
      BY <1>1, <3>1, <3>2
  <2>4. CASE j \notin 1..Len(q)
    <3>1. j = Len(q) + 1 /\ e \in Mine(c)
      BY <1>1, <2>2, <2>4
    <3>2. PICK i \in 1..Len(q) : q[i] = Event("connected", c)
      BY <1>1, <1>3, <3>1 DEF Range
    <3>3. i \in 1..j - 1
      BY <1>1, <3>1
    <3>4. QED
      BY <1>1, <3>2, <3>3
  <2>5. QED
    BY <2>3, <2>4
<1>4. QED
  BY <1>2, <1>3

LEMMA AnnouncedTail ==
  ASSUME NEW b \in Seq(Events), NEW q, NEW c, Announced(b, q, c), b # <<>>,
         Head(b) # Event("connected", c)
  PROVE  Announced(Tail(b), q, c) /\ Head(b) \notin Mine(c)
<1>1. /\ Len(b) \in Nat \ {0} /\ DOMAIN b = 1..Len(b) /\ Head(b) = b[1]
      /\ Tail(b) \in Seq(Events) /\ Len(Tail(b)) = Len(b) - 1
      /\ \A i \in 1..Len(Tail(b)) : Tail(b)[i] = b[i + 1]
  BY HeadTailProperties, EmptySeq, LenProperties
<1>2. DOMAIN Tail(b) = 1..Len(b) - 1
  BY <1>1
<1>3. Head(b) \notin Mine(c)
  <2>1. 1 \in DOMAIN b /\ 1..1 - 1 = {}
    BY <1>1
  <2>2. QED
    BY <1>1, <2>1 DEF Announced, Behind
<1>4. Behind(Tail(b), c)
  <2>1. SUFFICES ASSUME NEW j \in 1..Len(b) - 1, Tail(b)[j] \in Mine(c)
                 PROVE  \E i \in 1..j - 1 : Tail(b)[i] = Event("connected", c)
    BY <1>2 DEF Behind
  <2>2. j + 1 \in 1..Len(b) /\ b[j + 1] \in Mine(c)
    BY <1>1, <2>1
  <2>3. PICK i \in 1..(j + 1) - 1 : b[i] = Event("connected", c)
    BY <1>1, <2>2 DEF Announced, Behind
  <2>4. i # 1
    BY <1>1, <2>3
  <2>5. i - 1 \in 1..j - 1 /\ i - 1 \in 1..Len(b) - 1 /\ (i - 1) + 1 = i
    BY <1>1, <2>1, <2>3, <2>4
  <2>6. Tail(b)[i - 1] = Event("connected", c)
    BY <1>1, <2>3, <2>5
  <2>7. QED
    BY <2>5, <2>6
<1>5. Range(b) = {Head(b)} \union Range(Tail(b))
  BY RangeTail
<1>6. QED
  BY <1>3, <1>4, <1>5 DEF Announced

LEMMA AnnouncedSwap ==
  ASSUME NEW q, NEW c, Announced(<<>>, q, c)
  PROVE  Announced(q, <<>>, c)
BY RangeEmpty DEF Announced, Behind

-----------------------------------------------------------------------------
(* What a step of a lane, or a post to it, does to the requests of d.      *)
LEMMA LaneMoves ==
  ASSUME QueueType, NEW s \in Lanes, NEW d \in Conns, NEW e \in Events,
         d \in table[s] => d \in table'[s],
         \/ lane'[s].batch = lane[s].batch
         \/ /\ lane[s].batch # <<>> /\ lane'[s].batch = Tail(lane[s].batch)
            /\ Head(lane[s].batch) = Event("connected", d) => d \in table'[s],
         \/ inbound'[s] = inbound[s]
         \/ inbound'[s] = Append(inbound[s], e) /\ (e \in Mine(d) => Known(s, d))
  PROVE  /\ Known(s, d) => Known(s, d)'
         /\ Greeted(s, d) => Greeted(s, d)'
<1>1. PICK b \in Seq(Events), q \in Seq(Events) : b = lane[s].batch /\ q = inbound[s]
  BY QueueFacts
<1>2. \/ lane'[s].batch = b
      \/ /\ b # <<>> /\ lane'[s].batch = Tail(b)
         /\ Head(b) = Event("connected", d) => d \in table'[s]
  BY <1>1
<1>3. \/ inbound'[s] = q
      \/ inbound'[s] = Append(q, e) /\ (e \in Mine(d) => Known(s, d))
  BY <1>1
<1>4. Range(q) \subseteq Range(inbound'[s])
  <2>1. Range(Append(q, e)) = Range(q) \union {e}
    BY RangeAppend
  <2>2. QED
    BY <1>3, <2>1
<1>5. /\ Range(lane'[s].batch) \subseteq Range(b)
      /\ Event("connected", d) \in Range(b) =>
           Event("connected", d) \in Range(lane'[s].batch) \/ d \in table'[s]
  <2>1. CASE lane'[s].batch = b
    BY <2>1
  <2>2. CASE b # <<>> /\ lane'[s].batch = Tail(b)
    <3>1. Range(b) = {Head(b)} \union Range(Tail(b))
      BY <2>2, RangeTail
    <3>2. QED
      BY <1>2, <2>2, <3>1
  <2>3. QED
    BY <1>2, <2>1, <2>2
<1>6. Known(s, d) => Known(s, d)'
  BY <1>1, <1>4, <1>5 DEF Known, Coming
<1>7. ASSUME Greeted(s, d), d \notin table'[s] PROVE Announced(lane'[s].batch, inbound'[s], d)
  <2>1. Announced(b, q, d) /\ d \notin table[s]
    BY <1>1, <1>7 DEF Greeted
  <2>2. Announced(lane'[s].batch, q, d)
    BY <1>2, <1>7, <2>1, AnnouncedTail
  <2>3. CASE inbound'[s] = q
    BY <2>2, <2>3
  <2>4. CASE inbound'[s] = Append(q, e) /\ (e \in Mine(d) => Known(s, d))
    <3>1. e \in Mine(d) => Event("connected", d) \in Range(lane'[s].batch) \union Range(q)
      BY <1>1, <1>5, <1>7, <2>1, <2>4 DEF Known, Coming
    <3>2. QED
      BY <2>2, <2>4, <3>1, AnnouncedPost
  <2>5. QED
    BY <1>3, <2>3, <2>4
<1>8. QED
  BY <1>6, <1>7 DEF Greeted

LEMMA QueuedNat ==
  ASSUME QueueType, NEW s \in Lanes, NEW d
  PROVE  Queued(s, d) \in Nat
<1>1. inbound[s] \in Seq(Events) /\ lane[s].batch \in Seq(Events)
  BY QueueFacts
<1>2. Count(inbound[s], Mine(d)) \in Nat /\ Count(lane[s].batch, Mine(d)) \in Nat
  BY <1>1, CountNat
<1>3. QED
  BY <1>2 DEF Queued

(* Requests of d that leave the batch of s, and that come to its queue.    *)
Leave(s, d, out) ==
  \/ lane'[s].batch = lane[s].batch /\ out = 0
  \/ /\ lane[s].batch # <<>> /\ lane'[s].batch = Tail(lane[s].batch)
     /\ out = IF Head(lane[s].batch) \in Mine(d) THEN 1 ELSE 0
Enter(s, d, e, in) ==
  \/ inbound'[s] = inbound[s] /\ in = 0
  \/ inbound'[s] = Append(inbound[s], e) /\ in = IF e \in Mine(d) THEN 1 ELSE 0

LEMMA QueuedMoves ==
  ASSUME QueueType, NEW s \in Lanes, NEW d, NEW e \in Events, NEW in \in Nat, NEW out \in Nat,
         Leave(s, d, out), Enter(s, d, e, in)
  PROVE  /\ Queued(s, d)' + out = Queued(s, d) + in
         /\ Queued(s, d) \in Nat /\ Queued(s, d)' \in Nat
<1>1. PICK b \in Seq(Events), q \in Seq(Events) : b = lane[s].batch /\ q = inbound[s]
  BY QueueFacts
<1>2. Count(b, Mine(d)) \in Nat /\ Count(q, Mine(d)) \in Nat
  BY CountNat
<1>3. Count(lane'[s].batch, Mine(d)) \in Nat /\ Count(lane'[s].batch, Mine(d)) + out = Count(b, Mine(d))
  <2>1. CASE lane'[s].batch = b /\ out = 0
    BY <1>2, <2>1
  <2>2. CASE b # <<>> /\ lane'[s].batch = Tail(b) /\ out = IF Head(b) \in Mine(d) THEN 1 ELSE 0
    <3>1. Tail(b) \in Seq(Events)
      BY <2>2, RangeTail
    <3>2. Count(Tail(b), Mine(d)) \in Nat
      BY <3>1, CountNat
    <3>3. Count(b, Mine(d)) = Count(Tail(b), Mine(d)) + out
      BY <2>2, CountTail
    <3>4. QED
      BY <2>2, <3>2, <3>3
  <2>3. QED
    BY <1>1, <2>1, <2>2 DEF Leave
<1>4. Count(inbound'[s], Mine(d)) \in Nat /\ Count(inbound'[s], Mine(d)) = Count(q, Mine(d)) + in
  <2>1. CASE inbound'[s] = q /\ in = 0
    BY <1>2, <2>1
  <2>2. CASE inbound'[s] = Append(q, e) /\ in = IF e \in Mine(d) THEN 1 ELSE 0
    <3>1. Count(Append(q, e), Mine(d)) = Count(q, Mine(d)) + in
      BY <2>2, CountAppend
    <3>2. QED
      BY <1>2, <2>2, <3>1
  <2>3. QED
    BY <1>1, <2>1, <2>2 DEF Enter
<1>5. /\ Queued(s, d) = Count(q, Mine(d)) + Count(b, Mine(d))
      /\ Queued(s, d)' = Count(inbound'[s], Mine(d)) + Count(lane'[s].batch, Mine(d))
  BY <1>1 DEF Queued
<1>6. PICK k \in Nat, l \in Nat, m \in Nat, n \in Nat :
        /\ k = Count(q, Mine(d)) /\ l = Count(b, Mine(d))
        /\ m = Count(inbound'[s], Mine(d)) /\ n = Count(lane'[s].batch, Mine(d))
  BY <1>2, <1>3, <1>4
<1>7. /\ n + out = l /\ m = k + in
      /\ Queued(s, d) = k + l /\ Queued(s, d)' = m + n
  BY <1>3, <1>4, <1>5, <1>6
<1>8. (m + n) + out = (k + l) + in
  BY <1>7
<1>9. QED
  BY <1>7, <1>8

(* A step that leaves d's requests where they are.                         *)
LEMMA ServedFrame ==
  ASSUME NEW d, Served(d),
         \A s \in Lanes : (Told(s, d) => Known(s, d))' /\ Greeted(s, d)'
                          /\ Queued(s, d)' = Queued(s, d),
         d \in table["game"] => d \in table'["game"],
         inbox'["game"] = inbox["game"], lane'["game"].first = lane["game"].first,
         pool'[d] = pool[d], asked'[d] = asked[d], replied'[d] = replied[d]
  PROVE  Served(d)'
<1>1. "game" \in Lanes /\ "chat" \in Lanes
  BY DEF Lanes
<1>2. (AtPool(d) => d \in table["game"])'
  BY DEF Served, AtPool
<1>3. Settled(d)'
  <2>1. Queued("game", d)' = Queued("game", d) /\ Queued("chat", d)' = Queued("chat", d)
    BY <1>1
  <2>2. Underway(d)' = Underway(d)
    BY <2>1 DEF Underway
  <2>3. QED
    BY <2>2 DEF Served, Settled
<1>4. QED
  BY <1>2, <1>3 DEF Served

(* A notice is posted to a lane.                                           *)
LEMMA PostServes ==
  ASSUME QueueType, NEW s \in Lanes, NEW e \in Events, NEW d \in Conns, Served(d),
         e \notin Mine(d), inbound' = [inbound EXCEPT ![s] = Append(inbound[s], e)],
         \A t \in Lanes : Told(t, d)' => Told(t, d) \/ (t = s /\ e = Event("connected", d)),
         UNCHANGED <<inbox, lane, table>>,
         pool'[d] = pool[d], asked'[d] = asked[d], replied'[d] = replied[d]
  PROVE  Served(d)'
<1>1. \A t \in Lanes : inbound'[t] = IF t = s THEN Append(inbound[t], e) ELSE inbound[t]
  BY DEF QueueType
<1>2. ASSUME NEW t \in Lanes
      PROVE (Told(t, d) => Known(t, d))' /\ Greeted(t, d)' /\ Queued(t, d)' = Queued(t, d)
  <2>1. (Known(t, d) => Known(t, d)') /\ (Greeted(t, d) => Greeted(t, d)')
    BY <1>1, LaneMoves
  <2>2. Queued(t, d)' + 0 = Queued(t, d) + 0 /\ Queued(t, d) \in Nat /\ Queued(t, d)' \in Nat
    <3>1. Leave(t, d, 0) /\ Enter(t, d, e, 0)
      BY <1>1 DEF Leave, Enter
    <3>2. QED
      BY <3>1, QueuedMoves
  <2>3. Queued(t, d)' = Queued(t, d)
    BY <2>2
  <2>4. CASE t = s /\ e = Event("connected", d)
    <3>1. Event("connected", d) \in Range(inbound'[t])
      <4>1. inbound[s] \in Seq(Events)
        BY QueueFacts
      <4>2. QED
        BY <1>1, <2>4, <4>1, RangeAppend
    <3>2. Known(t, d)'
      BY <3>1 DEF Known, Coming
    <3>3. QED
      BY <2>1, <2>2, <2>3, <3>2 DEF Served
  <2>5. CASE ~(t = s /\ e = Event("connected", d))
    BY <2>1, <2>2, <2>3, <2>5 DEF Served
  <2>6. QED
    BY <2>4, <2>5
<1>3. QED
  BY <1>2, ServedFrame

(* What a step adds to the books of d, which stay balanced.                *)
Booked(d, da, dr, dg, dc, dp, di, df) ==
  /\ asked'[d] = asked[d] + da /\ replied'[d] = replied[d] + dr
  /\ Queued("game", d)' = Queued("game", d) + dg /\ Queued("chat", d)' = Queued("chat", d) + dc
  /\ pool'[d] = pool[d] + dp
  /\ Count(inbox'["game"], {d}) = Count(inbox["game"], {d}) + di
  /\ Count(lane'["game"].first, {d}) = Count(lane["game"].first, {d}) + df

LEMMA Accounts ==
  ASSUME QueueType, CountType, NEW d \in Conns, Settled(d),
         NEW da \in Int, NEW dr \in Int, NEW dg \in Int, NEW dc \in Int, NEW dp \in Int,
         NEW di \in Int, NEW df \in Int,
         Booked(d, da, dr, dg, dc, dp, di, df), da = dr + dg + dc + dp + di + df
  PROVE  Settled(d)'
<1>1. "game" \in Lanes /\ "chat" \in Lanes
  BY DEF Lanes
<1>2. inbox["game"] \in Seq(Conns) /\ lane["game"].first \in Seq(Conns)
  BY <1>1, QueueFacts
<1>3. PICK g \in Nat, h \in Nat, i \in Nat, f \in Nat :
        /\ g = Queued("game", d) /\ h = Queued("chat", d)
        /\ i = Count(inbox["game"], {d}) /\ f = Count(lane["game"].first, {d})
  BY <1>1, <1>2, QueuedNat, CountNat
<1>4. asked[d] \in Nat /\ replied[d] \in Nat /\ pool[d] \in Nat
  BY ServicesAssumption DEF CountType
<1>5. asked[d] = replied[d] + (g + h + pool[d] + i + f)
  BY <1>3 DEF Settled, Underway
<1>6. Underway(d)' = (g + dg) + (h + dc) + (pool[d] + dp) + (i + di) + (f + df)
  BY <1>3 DEF Underway, Booked
<1>7. asked[d] + da = (replied[d] + dr) + ((g + dg) + (h + dc) + (pool[d] + dp) + (i + di) + (f + df))
  BY <1>3, <1>4, <1>5
<1>8. QED
  BY <1>6, <1>7 DEF Settled, Booked

(* A lane whose queue and batch stay as they are.                          *)
LEMMA LaneStill ==
  ASSUME NEW s \in Lanes, NEW d, Told(s, d) => Known(s, d), Greeted(s, d), stage' = stage,
         d \in table[s] => d \in table'[s],
         inbound'[s] = inbound[s], lane'[s].batch = lane[s].batch
  PROVE  (Told(s, d) => Known(s, d))' /\ Greeted(s, d)' /\ Queued(s, d)' = Queued(s, d)
<1>1. Told(s, d)' = Told(s, d) /\ (Known(s, d) => Known(s, d)')
  BY DEF Told, Known, Coming
<1>2. Greeted(s, d)'
  BY DEF Greeted
<1>3. Queued(s, d)' = Queued(s, d)
  BY DEF Queued
<1>4. QED
  BY <1>1, <1>2, <1>3

LEMMA PostersServe ==
  ASSUME CoreInv, RequestInv, NEW c \in Conns, ConnectedToGame(c) \/ Poster(c) \/ Close(c)
  PROVE  RequestInv'
<1>1. QueueType /\ "game" \in Lanes /\ "chat" \in Lanes
  BY DEF CoreInv, Lanes
<1>2. SUFFICES ASSUME NEW d \in Conns, d \notin closed', d \notin deaf' PROVE Served(d)'
  BY DEF RequestInv
<1>3. /\ UNCHANGED <<inbox, lane, table, pool, asked, replied, deaf>> /\ closed \subseteq closed'
  BY DEF ConnectedToGame, Poster, ConnectedToChat, DisconnectedToChat, Close, DoClose, client, history
<1>4. Served(d)
  BY <1>2, <1>3 DEF RequestInv
<1>5. /\ Event("connected", c) \in Events /\ Event("disconnected", c) \in Events
      /\ Event("connected", c) \notin Mine(d) /\ Event("disconnected", c) \notin Mine(d)
  <2>1. "connected" \notin Requests /\ "disconnected" \notin Requests
    BY DEF Requests
  <2>2. QED
    BY <2>1, EventFacts, MineFacts
<1>6. CASE ConnectedToGame(c)
  <2>1. /\ inbound' = [inbound EXCEPT !["game"] = Append(inbound["game"], Event("connected", c))]
        /\ stage' = [stage EXCEPT ![c] = "game"] /\ stage[c] = "new"
    BY <1>6 DEF ConnectedToGame, Post
  <2>2. \A t \in Lanes : Told(t, d)' => Told(t, d) \/ (t = "game" /\ Event("connected", c) = Event("connected", d))
    BY <1>1, <2>1 DEF Told, QueueType
  <2>3. QED
    BY <1>1, <1>3, <1>4, <1>5, <2>1, <2>2, PostServes
<1>7. CASE ConnectedToChat(c)
  <2>1. /\ inbound' = [inbound EXCEPT !["chat"] = Append(inbound["chat"], Event("connected", c))]
        /\ stage' = [stage EXCEPT ![c] = "chat"] /\ stage[c] = "game"
    BY <1>7 DEF ConnectedToChat, Post
  <2>2. \A t \in Lanes : Told(t, d)' => Told(t, d) \/ (t = "chat" /\ Event("connected", c) = Event("connected", d))
    BY <1>1, <2>1 DEF Told, QueueType, Lanes
  <2>3. QED
    BY <1>1, <1>3, <1>4, <1>5, <2>1, <2>2, PostServes
<1>8. CASE DisconnectedToChat(c)
  <2>1. /\ inbound' = [inbound EXCEPT !["chat"] = Append(inbound["chat"], Event("disconnected", c))]
        /\ stage' = stage
    BY <1>8 DEF DisconnectedToChat, Post
  <2>2. \A t \in Lanes : Told(t, d)' => Told(t, d)
    BY <2>1 DEF Told
  <2>3. QED
    BY <1>1, <1>3, <1>4, <1>5, <2>1, <2>2, PostServes
<1>9. CASE Close(c)
  <2>1. /\ inbound' = [inbound EXCEPT !["game"] = Append(inbound["game"], Event("disconnected", c))]
        /\ stage' = stage
    BY <1>9 DEF Close, DoClose, Disconnected, Post
  <2>2. \A t \in Lanes : Told(t, d)' => Told(t, d)
    BY <2>1 DEF Told
  <2>3. QED
    BY <1>1, <1>3, <1>4, <1>5, <2>1, <2>2, PostServes
<1>10. QED
  BY <1>6, <1>7, <1>8, <1>9 DEF Poster

LEMMA AskServes ==
  ASSUME CoreInv, CountType, RequestInv, NEW c \in Conns, NEW kind \in Requests, Ask(c, kind)
  PROVE  RequestInv'
<1>1. QueueType /\ "game" \in Lanes /\ "chat" \in Lanes
  BY DEF CoreInv, Lanes
<1>2. SUFFICES ASSUME NEW d \in Conns, d \notin closed', d \notin deaf' PROVE Served(d)'
  BY DEF RequestInv
<1>3. /\ UNCHANGED <<stage, closed, deaf, inbox, lane, table, pool>> /\ stage[c] = "chat"
      /\ asked' = [asked EXCEPT ![c] = asked[c] + 1]
  BY DEF Ask, io, history
<1>4. Served(d)
  BY <1>2, <1>3 DEF RequestInv
<1>5. PICK s \in Lanes : s = Route(kind)
  BY DEF Route, Lanes
<1>6. PICK e \in Events : e = Event(kind, c)
  BY EventFacts
<1>7. \/ inbound' = [inbound EXCEPT ![s] = Append(inbound[s], e)] /\ replied' = replied
      \/ replied' = [replied EXCEPT ![c] = replied[c] + 1] /\ inbound' = inbound
  BY <1>5, <1>6 DEF Ask, Post
<1>8. \A t \in Lanes : Told(t, d)' = Told(t, d)
  BY <1>3 DEF Told
<1>9. asked[d] \in Nat /\ replied[d] \in Nat /\ pool[d] \in Nat
  BY ServicesAssumption DEF CountType
<1>10. CASE d # c
  <2>1. asked'[d] = asked[d] /\ replied'[d] = replied[d] /\ pool'[d] = pool[d]
    BY <1>3, <1>7, <1>10 DEF CountType
  <2>2. CASE inbound' = inbound
    <3>1. \A t \in Lanes : (Told(t, d) => Known(t, d))' /\ Greeted(t, d)' /\ Queued(t, d)' = Queued(t, d)
      BY <1>3, <1>4, <2>2, LaneStill DEF Served
    <3>2. QED
      BY <1>3, <1>4, <2>1, <3>1, ServedFrame
  <2>3. CASE inbound' = [inbound EXCEPT ![s] = Append(inbound[s], e)]
    <3>1. e \notin Mine(d)
      BY <1>6, <1>10, MineFacts
    <3>2. QED
      BY <1>1, <1>3, <1>4, <1>8, <2>1, <2>3, <3>1, PostServes
  <2>4. QED
    BY <1>7, <2>2, <2>3
<1>11. CASE d = c
  <2>1. asked'[d] = asked[d] + 1 /\ pool'[d] = pool[d] + 0
    BY <1>3, <1>9, <1>11 DEF CountType
  <2>2. /\ Count(inbox'["game"], {d}) = Count(inbox["game"], {d}) + 0
        /\ Count(lane'["game"].first, {d}) = Count(lane["game"].first, {d}) + 0
    <3>1. Count(inbox["game"], {d}) \in Nat /\ Count(lane["game"].first, {d}) \in Nat
      BY <1>1, QueueFacts, CountNat
    <3>2. QED
      BY <1>3, <3>1
  <2>3. (AtPool(d) => d \in table["game"])'
    BY <1>3, <1>4 DEF Served, AtPool
  <2>4. \A t \in Lanes : Queued(t, d) \in Nat
    BY <1>1, QueuedNat
  <2>5. CASE inbound' = inbound /\ replied' = [replied EXCEPT ![c] = replied[c] + 1]
    <3>1. \A t \in Lanes : (Told(t, d) => Known(t, d))' /\ Greeted(t, d)' /\ Queued(t, d)' = Queued(t, d)
      BY <1>3, <1>4, <2>5, LaneStill DEF Served
    <3>2. replied'[d] = replied[d] + 1
      BY <1>11, <2>5 DEF CountType
    <3>3. Queued("game", d)' = Queued("game", d) + 0 /\ Queued("chat", d)' = Queued("chat", d) + 0
      BY <1>1, <2>4, <3>1
    <3>4. Settled(d)'
      <4>1. Booked(d, 1, 1, 0, 0, 0, 0, 0)
        BY <2>1, <2>2, <3>2, <3>3 DEF Booked
      <4>2. Settled(d)
        BY <1>4 DEF Served
      <4>3. QED
        BY <1>1, <4>1, <4>2, Accounts
    <3>5. QED
      BY <2>3, <3>1, <3>4 DEF Served
  <2>6. CASE inbound' = [inbound EXCEPT ![s] = Append(inbound[s], e)] /\ replied' = replied
    <3>1. \A t \in Lanes : inbound'[t] = IF t = s THEN Append(inbound[t], e) ELSE inbound[t]
      BY <1>1, <2>6 DEF QueueType
    <3>2. e \in Mine(d)
      BY <1>6, <1>11, MineFacts
    <3>3. \A t \in Lanes : Known(t, d)
      BY <1>3, <1>4, <1>11 DEF Served, Told
    <3>4. \A t \in Lanes : (Told(t, d) => Known(t, d))' /\ Greeted(t, d)'
      BY <1>1, <1>3, <1>4, <3>1, <3>3, LaneMoves DEF Served
    <3>5. \A t \in Lanes : Queued(t, d)' = Queued(t, d) + (IF t = s THEN 1 ELSE 0)
      <4>1. SUFFICES ASSUME NEW t \in Lanes
                     PROVE  Queued(t, d)' = Queued(t, d) + (IF t = s THEN 1 ELSE 0)
        OBVIOUS
      <4>2. PICK n \in Nat : n = IF t = s THEN 1 ELSE 0
        OBVIOUS
      <4>3. Leave(t, d, 0) /\ Enter(t, d, e, n)
        <5>1. lane'[t].batch = lane[t].batch
          BY <1>3
        <5>2. CASE t = s
          BY <3>1, <3>2, <4>2, <5>1, <5>2 DEF Leave, Enter
        <5>3. CASE t # s
          BY <3>1, <4>2, <5>1, <5>3 DEF Leave, Enter
        <5>4. QED
          BY <5>2, <5>3
      <4>4. Queued(t, d)' + 0 = Queued(t, d) + n /\ Queued(t, d) \in Nat /\ Queued(t, d)' \in Nat
        BY <1>1, <4>2, <4>3, QueuedMoves
      <4>5. QED
        BY <4>2, <4>4
    <3>6. replied'[d] = replied[d] + 0
      BY <1>9, <2>6
    <3>7. PICK g \in Nat, h \in Nat : /\ g = (IF "game" = s THEN 1 ELSE 0) /\ h = (IF "chat" = s THEN 1 ELSE 0)
                                      /\ 1 = g + h
      BY DEF Lanes
    <3>8. Settled(d)'
      <4>1. 1 = 0 + g + h + 0 + 0 + 0
        BY <3>7
      <4>2. Queued("game", d)' = Queued("game", d) + g /\ Queued("chat", d)' = Queued("chat", d) + h
        BY <1>1, <3>5, <3>7
      <4>3. Booked(d, 1, 0, g, h, 0, 0, 0)
        BY <2>1, <2>2, <3>6, <4>2 DEF Booked
      <4>4. Settled(d)
        BY <1>4 DEF Served
      <4>5. QED
        BY <1>1, <4>1, <4>3, <4>4, Accounts
    <3>9. QED
      BY <2>3, <3>4, <3>8 DEF Served
  <2>7. QED
    BY <1>7, <2>5, <2>6
<1>12. QED
  BY <1>10, <1>11

LEMMA PoolAnswersServe ==
  ASSUME CoreInv, CountType, RequestInv, NEW c \in Conns, PoolAnswers(c)
  PROVE  RequestInv'
<1>1. QueueType /\ "game" \in Lanes /\ "chat" \in Lanes
  BY DEF CoreInv, Lanes
<1>2. SUFFICES ASSUME NEW d \in Conns, d \notin closed', d \notin deaf' PROVE Served(d)'
  BY DEF RequestInv
<1>3. /\ UNCHANGED <<stage, closed, deaf, inbound, lane, table, asked, replied>> /\ pool[c] > 0
      /\ pool' = [pool EXCEPT ![c] = pool[c] - 1]
      /\ inbox' = [inbox EXCEPT !["game"] = Append(inbox["game"], c)]
  BY DEF PoolAnswers, io, client, history
<1>4. Served(d)
  BY <1>2, <1>3 DEF RequestInv
<1>5. \A t \in Lanes : (Told(t, d) => Known(t, d))' /\ Greeted(t, d)' /\ Queued(t, d)' = Queued(t, d)
  BY <1>3, <1>4, LaneStill DEF Served
<1>6. PICK q \in Seq(Conns), f \in Seq(Conns) : q = inbox["game"] /\ f = lane["game"].first
  BY <1>1, QueueFacts
<1>7. inbox'["game"] = Append(q, c) /\ lane'["game"].first = f
  BY <1>1, <1>3, <1>6 DEF QueueType
<1>8. Range(inbox'["game"]) = Range(q) \union {c}
  BY <1>7, RangeAppend
<1>9. asked[d] \in Nat /\ replied[d] \in Nat /\ pool[d] \in Nat
  BY ServicesAssumption DEF CountType
<1>10. pool'[d] = IF d = c THEN pool[d] - 1 ELSE pool[d]
  BY <1>3 DEF CountType
<1>11. (AtPool(d) => d \in table["game"])'
  <2>1. AtPool(d)' => AtPool(d)
    BY <1>3, <1>6, <1>7, <1>8, <1>9, <1>10 DEF AtPool
  <2>2. QED
    BY <1>3, <1>4, <2>1 DEF Served
<1>12. Settled(d)'
  <2>1. PICK n \in Nat : n = IF d = c THEN 1 ELSE 0
    OBVIOUS
  <2>2. Count(q, {d}) \in Nat /\ Count(f, {d}) \in Nat
    BY CountNat
  <2>3. Count(inbox'["game"], {d}) = Count(inbox["game"], {d}) + n
    <3>1. Count(Append(q, c), {d}) = Count(q, {d}) + (IF c \in {d} THEN 1 ELSE 0)
      BY CountAppend
    <3>2. (IF c \in {d} THEN 1 ELSE 0) = n
      BY <2>1
    <3>3. QED
      BY <1>6, <1>7, <3>1, <3>2
  <2>4. \A t \in Lanes : Queued(t, d) \in Nat
    BY <1>1, QueuedNat
  <2>5. pool'[d] = pool[d] + (0 - n) /\ 0 - n \in Int
    BY <1>9, <1>10, <2>1
  <2>6. PICK m \in Int : m = 0 - n
    BY <2>5
  <2>7. /\ Queued("game", d)' = Queued("game", d) + 0 /\ Queued("chat", d)' = Queued("chat", d) + 0
        /\ asked'[d] = asked[d] + 0 /\ replied'[d] = replied[d] + 0
        /\ Count(lane'["game"].first, {d}) = Count(lane["game"].first, {d}) + 0
    BY <1>1, <1>3, <1>5, <1>6, <1>9, <2>2, <2>4
  <2>8. Booked(d, 0, 0, 0, 0, m, n, 0)
    BY <2>3, <2>5, <2>6, <2>7 DEF Booked
  <2>9. 0 = 0 + 0 + 0 + m + n + 0
    BY <2>6
  <2>10. Settled(d)
    BY <1>4 DEF Served
  <2>11. QED
    BY <1>1, <2>8, <2>9, <2>10, Accounts
<1>13. QED
  BY <1>5, <1>11, <1>12 DEF Served

LEMMA StartRoundServes ==
  ASSUME CoreInv, CountType, RequestInv, NEW s \in Lanes, StartRound(s)
  PROVE  RequestInv'
<1>1. QueueType /\ "game" \in Lanes /\ "chat" \in Lanes
  BY DEF CoreInv, Lanes
<1>2. SUFFICES ASSUME NEW d \in Conns, d \notin closed', d \notin deaf' PROVE Served(d)'
  BY DEF RequestInv
<1>3. /\ UNCHANGED <<stage, closed, deaf, inbound, table, pool, asked, replied>>
      /\ lane[s].pc = "idle"
      /\ lane' = [lane EXCEPT ![s] = [pc |-> "first", first |-> inbox[s], batch |-> <<>>]]
      /\ inbox' = [inbox EXCEPT ![s] = <<>>]
  BY DEF StartRound, io, client, history
<1>4. Served(d)
  BY <1>2, <1>3 DEF RequestInv
<1>5. lane[s].first = <<>> /\ lane[s].batch = <<>>
  BY <1>1, <1>3 DEF QueueType
<1>6. /\ lane'[s].first = inbox[s] /\ lane'[s].batch = <<>> /\ inbox'[s] = <<>>
      /\ \A t \in Lanes : t # s => lane'[t] = lane[t] /\ inbox'[t] = inbox[t]
  BY <1>1, <1>3 DEF QueueType
<1>7. \A t \in Lanes : lane'[t].batch = lane[t].batch
  BY <1>5, <1>6
<1>8. \A t \in Lanes : (Told(t, d) => Known(t, d))' /\ Greeted(t, d)' /\ Queued(t, d)' = Queued(t, d)
  BY <1>3, <1>4, <1>7, LaneStill DEF Served
<1>9. CASE s # "game"
  <2>1. lane'["game"] = lane["game"] /\ inbox'["game"] = inbox["game"]
    BY <1>1, <1>6, <1>9
  <2>2. QED
    BY <1>3, <1>4, <1>8, <2>1, ServedFrame
<1>10. CASE s = "game"
  <2>1. /\ lane'["game"].first = inbox["game"] /\ inbox'["game"] = <<>> /\ lane["game"].first = <<>>
    BY <1>5, <1>6, <1>10
  <2>2. (AtPool(d) => d \in table["game"])'
    <3>1. AtPool(d)' => AtPool(d)
      BY <1>3, <2>1, RangeEmpty DEF AtPool
    <3>2. QED
      BY <1>3, <1>4, <3>1 DEF Served
  <2>3. Underway(d)' = Underway(d)
    <3>1. Count(<<>>, {d}) = 0
      BY CountEmpty
    <3>2. PICK q \in Seq(Conns) : q = inbox["game"]
      BY <1>1, QueueFacts
    <3>3. Count(q, {d}) \in Nat
      BY CountNat
    <3>4. /\ Underway(d) = Queued("game", d) + Queued("chat", d) + pool[d] + Count(q, {d}) + 0
          /\ Underway(d)' = Queued("game", d)' + Queued("chat", d)' + pool'[d] + 0 + Count(q, {d})
      BY <2>1, <3>1, <3>2 DEF Underway
    <3>5. Queued("game", d)' = Queued("game", d) /\ Queued("chat", d)' = Queued("chat", d) /\ pool'[d] = pool[d]
      BY <1>1, <1>3, <1>8
    <3>6. PICK n : n = Queued("game", d) + Queued("chat", d) + pool[d]
      OBVIOUS
    <3>7. Underway(d) = n + Count(q, {d}) + 0 /\ Underway(d)' = n + 0 + Count(q, {d})
      BY <3>4, <3>5, <3>6
    <3>8. n \in Nat
      <4>1. Queued("game", d) \in Nat /\ Queued("chat", d) \in Nat /\ pool[d] \in Nat
        BY <1>1, QueuedNat DEF CountType
      <4>2. QED
        BY <3>6, <4>1
    <3>9. QED
      BY <3>3, <3>7, <3>8
  <2>4. Settled(d)'
    BY <1>3, <1>4, <2>3 DEF Served, Settled
  <2>5. QED
    BY <1>8, <2>2, <2>4 DEF Served
<1>11. QED
  BY <1>9, <1>10

LEMMA SwapInboundServes ==
  ASSUME CoreInv, RequestInv, NEW s \in Lanes, SwapInbound(s)
  PROVE  RequestInv'
<1>1. QueueType /\ "game" \in Lanes
  BY DEF CoreInv, Lanes
<1>2. SUFFICES ASSUME NEW d \in Conns, d \notin closed', d \notin deaf' PROVE Served(d)'
  BY DEF RequestInv
<1>3. /\ UNCHANGED <<stage, closed, deaf, inbox, table, pool, asked, replied>>
      /\ lane[s].pc = "first" /\ lane' = [lane EXCEPT ![s].pc = "batch", ![s].batch = inbound[s]]
      /\ inbound' = [inbound EXCEPT ![s] = <<>>]
  BY DEF SwapInbound, io, client
<1>4. Served(d)
  BY <1>2, <1>3 DEF RequestInv
<1>5. lane[s].batch = <<>> /\ lane \in [Lanes -> LaneStates]
  BY <1>1, <1>3 DEF QueueType
<1>6. /\ lane'[s].first = lane[s].first /\ lane'[s].batch = inbound[s] /\ inbound'[s] = <<>>
      /\ \A t \in Lanes : t # s => lane'[t] = lane[t] /\ inbound'[t] = inbound[t]
  BY <1>1, <1>3, <1>5 DEF QueueType, LaneStates
<1>7. ASSUME NEW t \in Lanes
      PROVE  (Told(t, d) => Known(t, d))' /\ Greeted(t, d)' /\ Queued(t, d)' = Queued(t, d)
  <2>1. CASE t # s
    BY <1>3, <1>4, <1>6, <2>1, LaneStill DEF Served
  <2>2. CASE t = s
    <3>1. Told(s, d)' = Told(s, d) /\ Known(s, d)' = Known(s, d)
      BY <1>3, <1>5, <1>6, RangeEmpty DEF Told, Known, Coming
    <3>2. Greeted(s, d) => Greeted(s, d)'
      BY <1>3, <1>5, <1>6, AnnouncedSwap DEF Greeted
    <3>3. PICK q \in Seq(Events) : q = inbound[s]
      BY <1>1, QueueFacts
    <3>4. Count(<<>>, Mine(d)) = 0 /\ Count(q, Mine(d)) \in Nat
      BY CountEmpty, CountNat
    <3>5. Queued(s, d) = Count(q, Mine(d)) + 0 /\ Queued(s, d)' = 0 + Count(q, Mine(d))
      BY <1>5, <1>6, <3>3, <3>4 DEF Queued
    <3>6. Queued(s, d)' = Queued(s, d)
      BY <3>4, <3>5
    <3>7. QED
      BY <1>4, <2>2, <3>1, <3>2, <3>6 DEF Served
  <2>3. QED
    BY <2>1, <2>2
<1>8. lane'["game"].first = lane["game"].first
  BY <1>1, <1>6
<1>9. QED
  BY <1>3, <1>4, <1>7, <1>8, ServedFrame

LEMMA EndRoundServes ==
  ASSUME CoreInv, RequestInv, NEW s \in Lanes, EndRound(s)
  PROVE  RequestInv'
<1>1. QueueType /\ "game" \in Lanes
  BY DEF CoreInv, Lanes
<1>2. SUFFICES ASSUME NEW d \in Conns, d \notin closed', d \notin deaf' PROVE Served(d)'
  BY DEF RequestInv
<1>3. /\ UNCHANGED <<stage, closed, deaf, inbound, inbox, table, pool, asked, replied>>
      /\ lane[s].pc = "batch" /\ lane[s].batch = <<>> /\ lane' = [lane EXCEPT ![s] = Idle]
  BY DEF EndRound, io, client
<1>4. Served(d)
  BY <1>2, <1>3 DEF RequestInv
<1>5. lane[s].first = <<>> /\ Idle.first = <<>> /\ Idle.batch = <<>>
  BY <1>1, <1>3 DEF QueueType, Idle
<1>6. \A t \in Lanes : lane'[t].batch = lane[t].batch /\ lane'[t].first = lane[t].first
  BY <1>1, <1>3, <1>5 DEF QueueType
<1>7. \A t \in Lanes : (Told(t, d) => Known(t, d))' /\ Greeted(t, d)' /\ Queued(t, d)' = Queued(t, d)
  BY <1>3, <1>4, <1>6, LaneStill DEF Served
<1>8. QED
  BY <1>1, <1>3, <1>4, <1>6, <1>7, ServedFrame

LEMMA HandleFirstServes ==
  ASSUME CoreInv, CountType, RequestInv, NEW s \in Lanes, HandleFirst(s)
  PROVE  RequestInv'
<1>1. QueueType /\ "game" \in Lanes /\ "chat" \in Lanes
  BY DEF CoreInv, Lanes
<1>2. SUFFICES ASSUME NEW d \in Conns, d \notin closed', d \notin deaf' PROVE Served(d)'
  BY DEF RequestInv
<1>3. /\ FirstTaken(s) /\ UNCHANGED <<stage, closed, deaf, inbound, inbox, table, pool, asked>>
      /\ IF s = "game" THEN GameReply(Head(lane[s].first)) ELSE ChatName(Head(lane[s].first))
  BY DEF HandleFirst, FirstTaken, io, history, GameReply, ChatName
<1>4. Served(d)
  BY <1>2, <1>3 DEF RequestInv
<1>5. /\ lane'[s].batch = <<>> /\ lane[s].batch = <<>> /\ \A t \in Lanes : t # s => lane'[t] = lane[t]
      /\ Range(lane[s].first) = {Head(lane[s].first)} \union Range(lane'[s].first)
  BY <1>1, <1>3, FirstFacts
<1>6. \A t \in Lanes : lane'[t].batch = lane[t].batch
  BY <1>5
<1>7. \A t \in Lanes : (Told(t, d) => Known(t, d))' /\ Greeted(t, d)' /\ Queued(t, d)' = Queued(t, d)
  BY <1>3, <1>4, <1>6, LaneStill DEF Served
<1>8. CASE s # "game"
  <2>1. lane'["game"] = lane["game"] /\ replied' = replied
    BY <1>1, <1>3, <1>5, <1>8 DEF ChatName
  <2>2. QED
    BY <1>3, <1>4, <1>7, <2>1, ServedFrame
<1>9. CASE s = "game"
  <2>1. PICK f \in Seq(Conns) : f = lane["game"].first
    BY <1>1, QueueFacts
  <2>2. f # <<>> /\ lane'["game"].first = Tail(f) /\ Range(f) = {Head(f)} \union Range(lane'["game"].first)
    <3>1. lane'["game"] = [lane["game"] EXCEPT !.first = Tail(f)] /\ lane["game"] \in LaneStates
      BY <1>1, <1>3, <1>9, <2>1 DEF FirstTaken, QueueType
    <3>2. lane'["game"].first = Tail(f)
      BY <3>1 DEF LaneStates
    <3>3. QED
      BY <1>3, <1>5, <1>9, <2>1, <3>2 DEF FirstTaken
  <2>3. d = Head(f) => d \in table["game"]
    BY <1>4, <2>1, <2>2 DEF Served, AtPool
  <2>4. replied' = IF Head(f) \in table["game"] THEN [replied EXCEPT ![Head(f)] = replied[Head(f)] + 1] ELSE replied
    BY <1>3, <1>9, <2>1 DEF GameReply
  <2>5. (AtPool(d) => d \in table["game"])'
    <3>1. AtPool(d)' => AtPool(d)
      BY <1>3, <2>1, <2>2 DEF AtPool
    <3>2. QED
      BY <1>3, <1>4, <3>1 DEF Served
  <2>6. PICK n \in Nat : n = IF d = Head(f) THEN 1 ELSE 0
    OBVIOUS
  <2>7. asked[d] \in Nat /\ replied[d] \in Nat /\ pool[d] \in Nat
    BY ServicesAssumption DEF CountType
  <2>8. replied'[d] = replied[d] + n
    <3>1. CASE d = Head(f)
      BY <2>3, <2>4, <2>6, <3>1 DEF CountType
    <3>2. CASE d # Head(f)
      BY <2>4, <2>6, <2>7, <3>2 DEF CountType
    <3>3. QED
      BY <3>1, <3>2
  <2>9. PICK m \in Int : m = 0 - n
    OBVIOUS
  <2>10. Count(lane'["game"].first, {d}) = Count(lane["game"].first, {d}) + m
    <3>1. Count(f, {d}) = Count(Tail(f), {d}) + (IF Head(f) \in {d} THEN 1 ELSE 0)
      BY <2>2, CountTail
    <3>2. (IF Head(f) \in {d} THEN 1 ELSE 0) = n
      BY <2>6
    <3>3. Tail(f) \in Seq(Conns)
      BY <2>2, RangeTail
    <3>4. Count(Tail(f), {d}) \in Nat /\ Count(f, {d}) \in Nat
      BY <3>3, CountNat
    <3>5. Count(Tail(f), {d}) = Count(f, {d}) + m
      BY <2>9, <3>1, <3>2, <3>4
    <3>6. QED
      BY <2>1, <2>2, <3>5
  <2>11. /\ asked'[d] = asked[d] + 0 /\ pool'[d] = pool[d] + 0
         /\ Queued("game", d)' = Queued("game", d) + 0 /\ Queued("chat", d)' = Queued("chat", d) + 0
         /\ Count(inbox'["game"], {d}) = Count(inbox["game"], {d}) + 0
    <3>1. Queued("game", d) \in Nat /\ Queued("chat", d) \in Nat
      BY <1>1, QueuedNat
    <3>2. Count(inbox["game"], {d}) \in Nat
      BY <1>1, QueueFacts, CountNat
    <3>3. QED
      BY <1>1, <1>3, <1>7, <2>7, <3>1, <3>2
  <2>12. Settled(d)'
    <3>1. Booked(d, 0, n, 0, 0, 0, 0, m)
      BY <2>8, <2>10, <2>11 DEF Booked
    <3>2. 0 = n + 0 + 0 + 0 + 0 + m
      BY <2>9
    <3>3. Settled(d)
      BY <1>4 DEF Served
    <3>4. QED
      BY <1>1, <3>1, <3>2, <3>3, Accounts
  <2>13. QED
    BY <1>7, <2>5, <2>12 DEF Served
<1>10. QED
  BY <1>8, <1>9

(* A lane takes the first event of its batch: whether it is a request of   *)
(* d, which is then one of a connection in the table.                      *)
LEMMA TakenServes ==
  ASSUME CoreInv, NEW s \in Lanes, BatchTaken(s), NEW d \in Conns, Served(d),
         UNCHANGED <<stage, inbound>>, d \in table[s] => d \in table'[s],
         \A t \in Lanes : t # s => table'[t] = table[t],
         Head(lane[s].batch) = Event("connected", d) => d \in table'[s]
  PROVE  /\ \A t \in Lanes : (Told(t, d) => Known(t, d))' /\ Greeted(t, d)'
         /\ \A t \in Lanes : t # s => Queued(t, d)' = Queued(t, d)
         /\ \A t \in Lanes : Queued(t, d) \in Nat /\ Queued(t, d)' \in Nat
         /\ Head(lane[s].batch) \in Mine(d) => Queued(s, d)' + 1 = Queued(s, d) /\ d \in table[s]
         /\ Head(lane[s].batch) \notin Mine(d) => Queued(s, d)' = Queued(s, d)
         /\ lane'["game"].first = lane["game"].first
<1>1. QueueType
  BY DEF CoreInv
<1>2. /\ lane[s].batch # <<>> /\ lane'[s].batch = Tail(lane[s].batch)
      /\ lane'[s].first = lane[s].first /\ \A t \in Lanes : t # s => lane'[t] = lane[t]
  BY <1>1, BatchFacts DEF BatchTaken
<1>3. PICK e \in Events : TRUE
  <2>1. lane[s].batch \in Seq(Events)
    BY <1>1, QueueFacts
  <2>2. QED
    BY <1>2, <2>1, RangeTail
<1>4. ASSUME NEW t \in Lanes
      PROVE  (Told(t, d) => Known(t, d))' /\ Greeted(t, d)'
  <2>1. (Known(t, d) => Known(t, d)') /\ (Greeted(t, d) => Greeted(t, d)')
    <3>1. CASE t = s
      BY <1>1, <1>2, <1>3, <3>1, LaneMoves
    <3>2. CASE t # s
      BY <1>1, <1>2, <1>3, <3>2, LaneMoves
    <3>3. QED
      BY <3>1, <3>2
  <2>2. Told(t, d)' = Told(t, d)
    BY DEF Told
  <2>3. QED
    BY <2>1, <2>2 DEF Served
<1>5. \A t \in Lanes : t # s => Queued(t, d)' = Queued(t, d)
  BY <1>2 DEF Queued
<1>6. PICK n \in Nat : n = IF Head(lane[s].batch) \in Mine(d) THEN 1 ELSE 0
  OBVIOUS
<1>7. Queued(s, d)' + n = Queued(s, d) + 0 /\ Queued(s, d) \in Nat /\ Queued(s, d)' \in Nat
  <2>1. Leave(s, d, n) /\ Enter(s, d, e, 0)
    BY <1>2, <1>6 DEF Leave, Enter
  <2>2. QED
    BY <1>1, <2>1, QueuedMoves
<1>8. \A t \in Lanes : Queued(t, d) \in Nat /\ Queued(t, d)' \in Nat
  BY <1>1, <1>5, <1>7, QueuedNat
<1>9. ASSUME Head(lane[s].batch) \in Mine(d), d \notin table[s] PROVE FALSE
  <2>1. PICK b \in Seq(Events) : b = lane[s].batch
    BY <1>1, QueueFacts
  <2>2. Announced(b, inbound[s], d)
    BY <1>9, <2>1 DEF Served, Greeted
  <2>3. Head(b) # Event("connected", d)
    BY <1>9, <2>1, MineFacts
  <2>4. QED
    BY <1>2, <1>9, <2>1, <2>2, <2>3, AnnouncedTail
<1>10. Head(lane[s].batch) \in Mine(d) => Queued(s, d)' + 1 = Queued(s, d) /\ d \in table[s]
  BY <1>6, <1>7, <1>9
<1>11. Head(lane[s].batch) \notin Mine(d) => Queued(s, d)' = Queued(s, d)
  BY <1>6, <1>7
<1>12. lane'["game"].first = lane["game"].first
  BY <1>2 DEF Lanes
<1>13. QED
  BY <1>4, <1>5, <1>8, <1>10, <1>11, <1>12

LEMMA EventServes ==
  ASSUME CoreInv, CountType, RequestInv, NEW s \in Lanes, HandleEvent(s)
  PROVE  RequestInv'
<1>1. QueueType /\ "game" \in Lanes /\ "chat" \in Lanes /\ \A t \in Lanes : t # "game" => t = "chat"
  BY DEF CoreInv, Lanes
<1>2. SUFFICES ASSUME NEW d \in Conns, d \notin closed', d \notin deaf' PROVE Served(d)'
  BY DEF RequestInv
<1>3. /\ BatchTaken(s) /\ UNCHANGED <<stage, closed, deaf, inbound, asked>>
      /\ IF s = "game" THEN GameEvent(Head(lane[s].batch)) ELSE ChatEvent(Head(lane[s].batch))
  BY DEF HandleEvent, BatchTaken, io
<1>4. Served(d)
  BY <1>2, <1>3 DEF RequestInv
<1>5. PICK k : \E c \in Conns : /\ k = Head(lane[s].batch).kind /\ c = Head(lane[s].batch).conn
                                 /\ Head(lane[s].batch) = Event(k, c)
                                 /\ Event(k, c) \in Range(lane[s].batch)
  <2>1. /\ Head(lane[s].batch).conn \in Conns
        /\ Head(lane[s].batch) = Event(Head(lane[s].batch).kind, Head(lane[s].batch).conn)
        /\ Head(lane[s].batch) \in Range(lane[s].batch)
    BY <1>1, <1>3, BatchFacts
  <2>2. QED
    BY <2>1, Zenon
<1>6. PICK c \in Conns : /\ k = Head(lane[s].batch).kind /\ c = Head(lane[s].batch).conn
                          /\ Head(lane[s].batch) = Event(k, c)
                          /\ Event(k, c) \in Range(lane[s].batch)
  BY <1>5
<1>7. /\ Event(k, c) \in Mine(d) <=> k \in Requests /\ d = c
      /\ Event(k, c) = Event("connected", d) => k = "connected" /\ d = c
  BY MineFacts, EventFacts
<1>8. k = "disconnected" => c \in closed
  <2>1. k = "disconnected" => Coming(s, "disconnected", c)
    BY <1>6 DEF Coming
  <2>2. QED
    BY <2>1 DEF CoreInv, NoticeInv, EndAfterClose
<1>9. asked[d] \in Nat /\ replied[d] \in Nat /\ pool[d] \in Nat
  BY ServicesAssumption DEF CountType
(* What the handlers of the two services do for c.                         *)
<1>10. /\ \/ k = "connected" /\ table' = [table EXCEPT ![s] = table[s] \union {c}] /\ UNCHANGED <<replied, pool>>
          \/ k = "disconnected" /\ table' = [table EXCEPT ![s] = table[s] \ {c}] /\ UNCHANGED <<replied, pool>>
          \/ k \in Requests /\ table' = table /\ c \notin table[s] /\ UNCHANGED <<replied, pool>>
          \/ /\ k \in Requests /\ table' = table /\ c \in table[s]
             /\ replied' = [replied EXCEPT ![c] = replied[c] + 1] /\ pool' = pool
          \/ /\ k \in Requests /\ table' = table /\ c \in table[s] /\ s = "game"
             /\ pool' = [pool EXCEPT ![c] = pool[c] + 1] /\ replied' = replied
       /\ inbox'["game"] = inbox["game"]
  <2>1. CASE s = "game"
    <3>1. GameEvent(Head(lane["game"].batch))
      BY <1>3, <2>1
    <3>2. inbox'["game"] = inbox["game"]
      BY <1>1, <3>1 DEF GameEvent, GameConnected, GameDisconnected, GameEcho, GameDb, PostService, QueueType
    <3>3. "echo" \in Requests /\ "db" \in Requests
      BY DEF Requests
    <3>4. CASE k = "connected" /\ GameConnected(c)
      BY <2>1, <3>2, <3>4 DEF GameConnected
    <3>5. CASE k = "disconnected" /\ GameDisconnected(c)
      BY <2>1, <3>2, <3>5 DEF GameDisconnected
    <3>6. CASE k = "echo" /\ GameEcho(c)
      BY <2>1, <3>2, <3>3, <3>6 DEF GameEcho
    <3>7. CASE k = "db" /\ GameDb(c)
      BY <2>1, <3>2, <3>3, <3>7 DEF GameDb, RefuseWithError
    <3>8. QED
      BY <1>6, <2>1, <3>1, <3>4, <3>5, <3>6, <3>7 DEF GameEvent
  <2>2. CASE s = "chat"
    <3>1. ChatEvent(Head(lane["chat"].batch))
      BY <1>3, <2>2
    <3>2. inbox' = inbox /\ pool' = pool
      BY <3>1 DEF ChatEvent
    <3>3. "chat" \in Requests
      BY DEF Requests
    <3>4. \/ k = "connected" /\ table' = [table EXCEPT !["chat"] = table["chat"] \union {c}] /\ replied' = replied
          \/ k = "disconnected" /\ table' = [table EXCEPT !["chat"] = table["chat"] \ {c}] /\ replied' = replied
          \/ k = "chat" /\ Broadcast(c)
      BY <1>6, <2>2, <3>1 DEF ChatEvent
    <3>5. CASE k = "chat" /\ Broadcast(c)
      BY <2>2, <3>2, <3>3, <3>5 DEF Broadcast
    <3>6. QED
      BY <2>2, <3>2, <3>4, <3>5
  <2>3. QED
    BY <1>1, <2>1, <2>2
<1>11. /\ d \in table[s] => d \in table'[s]
       /\ \A t \in Lanes : t # s => table'[t] = table[t]
       /\ Head(lane[s].batch) = Event("connected", d) => d \in table'[s]
  <2>1. d # c \/ k # "disconnected"
    BY <1>2, <1>3, <1>8
  <2>2. table \in [Lanes -> SUBSET Conns] /\ "connected" \notin Requests
    BY <1>1 DEF QueueType, Requests
  <2>3. k = "connected" => table' = [table EXCEPT ![s] = table[s] \union {c}]
    BY <1>10, <2>2
  <2>4. \/ table' = [table EXCEPT ![s] = table[s] \union {c}]
        \/ k = "disconnected" /\ table' = [table EXCEPT ![s] = table[s] \ {c}]
        \/ table' = table
    BY <1>10
  <2>5. QED
    BY <1>6, <1>7, <2>1, <2>2, <2>3, <2>4
<1>12. /\ \A t \in Lanes : (Told(t, d) => Known(t, d))' /\ Greeted(t, d)'
       /\ \A t \in Lanes : t # s => Queued(t, d)' = Queued(t, d)
       /\ \A t \in Lanes : Queued(t, d) \in Nat /\ Queued(t, d)' \in Nat
       /\ Event(k, c) \in Mine(d) => Queued(s, d)' + 1 = Queued(s, d) /\ d \in table[s]
       /\ Event(k, c) \notin Mine(d) => Queued(s, d)' = Queued(s, d)
       /\ lane'["game"].first = lane["game"].first
  BY <1>3, <1>4, <1>6, <1>11, TakenServes
<1>13. d \in table["game"] => d \in table'["game"]
  BY <1>1, <1>11
<1>14. CASE ~(k \in Requests /\ d = c)
  <2>1. \A t \in Lanes : Queued(t, d)' = Queued(t, d)
    BY <1>7, <1>12, <1>14
  <2>2. replied'[d] = replied[d] /\ pool'[d] = pool[d] /\ asked'[d] = asked[d]
    <3>1. "connected" \notin Requests /\ "disconnected" \notin Requests
      BY DEF Requests
    <3>2. UNCHANGED <<replied, pool>> \/ d # c
      BY <1>10, <1>14, <3>1
    <3>3. QED
      BY <1>3, <1>10, <3>2 DEF CountType
  <2>3. QED
    BY <1>4, <1>10, <1>12, <1>13, <2>1, <2>2, ServedFrame
<1>15. CASE k \in Requests /\ d = c
  <2>1. Queued(s, d)' + 1 = Queued(s, d) /\ d \in table[s]
    BY <1>7, <1>12, <1>15
  <2>2. \/ replied' = [replied EXCEPT ![d] = replied[d] + 1] /\ pool' = pool
        \/ s = "game" /\ pool' = [pool EXCEPT ![d] = pool[d] + 1] /\ replied' = replied
    <3>1. k # "connected" /\ k # "disconnected"
      BY <1>15 DEF Requests
    <3>2. QED
      BY <1>10, <1>15, <2>1, <3>1
  <2>3. PICK r \in Nat, p \in Nat : /\ replied'[d] = replied[d] + r /\ pool'[d] = pool[d] + p
                                   /\ r + p = 1 /\ (p = 1 => s = "game")
    <3>1. CASE replied' = [replied EXCEPT ![d] = replied[d] + 1] /\ pool' = pool
      <4>1. replied'[d] = replied[d] + 1 /\ pool'[d] = pool[d] + 0
        BY <1>9, <3>1 DEF CountType
      <4>2. 1 \in Nat /\ 0 \in Nat /\ 1 + 0 = 1 /\ 0 # 1
        OBVIOUS
      <4>3. QED
        BY <4>1, <4>2
    <3>2. CASE s = "game" /\ pool' = [pool EXCEPT ![d] = pool[d] + 1] /\ replied' = replied
      <4>1. replied'[d] = replied[d] + 0 /\ pool'[d] = pool[d] + 1
        BY <1>9, <3>2 DEF CountType
      <4>2. 1 \in Nat /\ 0 \in Nat /\ 0 + 1 = 1
        OBVIOUS
      <4>3. QED
        BY <3>2, <4>1, <4>2
    <3>3. QED
      BY <2>2, <3>1, <3>2
  <2>4. (AtPool(d) => d \in table["game"])'
    <3>1. CASE s = "game"
      BY <1>13, <2>1, <3>1
    <3>2. CASE s # "game"
      <4>1. p = 0
        BY <2>3, <3>2
      <4>2. pool'[d] = pool[d]
        BY <1>9, <2>3, <4>1
      <4>3. AtPool(d)' => AtPool(d)
        BY <1>10, <1>12, <4>2 DEF AtPool
      <4>4. QED
        BY <1>4, <1>13, <4>3 DEF Served
    <3>3. QED
      BY <3>1, <3>2
  <2>5. PICK g \in Int, h \in Int :
          /\ Queued("game", d)' = Queued("game", d) + g /\ Queued("chat", d)' = Queued("chat", d) + h
          /\ g + h = 0 - 1
    <3>1. -1 \in Int /\ 0 \in Int /\ -1 + 0 = 0 - 1 /\ 0 + (-1) = 0 - 1
      OBVIOUS
    <3>2. CASE s = "game"
      <4>1. Queued("game", d)' = Queued("game", d) + (-1) /\ Queued("chat", d)' = Queued("chat", d) + 0
        <5>1. Queued("chat", d)' = Queued("chat", d)
          BY <1>1, <1>12, <3>2
        <5>2. Queued("game", d)' + 1 = Queued("game", d)
          BY <2>1, <3>2
        <5>3. /\ Queued("game", d) \in Nat /\ Queued("game", d)' \in Nat
              /\ Queued("chat", d) \in Nat /\ Queued("chat", d)' \in Nat
          BY <1>1, <1>12
        <5>4. QED
          BY <5>1, <5>2, <5>3
      <4>2. QED
        BY <3>1, <4>1
    <3>3. CASE s = "chat"
      <4>1. Queued("game", d)' = Queued("game", d) + 0 /\ Queued("chat", d)' = Queued("chat", d) + (-1)
        <5>1. Queued("game", d)' = Queued("game", d)
          BY <1>1, <1>12, <3>3
        <5>2. Queued("chat", d)' + 1 = Queued("chat", d)
          BY <2>1, <3>3
        <5>3. /\ Queued("game", d) \in Nat /\ Queued("game", d)' \in Nat
              /\ Queued("chat", d) \in Nat /\ Queued("chat", d)' \in Nat
          BY <1>1, <1>12
        <5>4. QED
          BY <5>1, <5>2, <5>3
      <4>2. QED
        BY <3>1, <4>1
    <3>4. QED
      BY <1>1, <3>2, <3>3
  <2>6. /\ Count(inbox'["game"], {d}) = Count(inbox["game"], {d}) + 0
        /\ Count(lane'["game"].first, {d}) = Count(lane["game"].first, {d}) + 0
        /\ asked'[d] = asked[d] + 0
    <3>1. Count(inbox["game"], {d}) \in Nat /\ Count(lane["game"].first, {d}) \in Nat
      BY <1>1, QueueFacts, CountNat
    <3>2. QED
      BY <1>3, <1>9, <1>10, <1>12, <3>1
  <2>7. Settled(d)'
    <3>1. Booked(d, 0, r, g, h, p, 0, 0)
      BY <2>3, <2>5, <2>6 DEF Booked
    <3>2. 0 = r + g + h + p + 0 + 0
      BY <2>3, <2>5
    <3>3. Settled(d)
      BY <1>4 DEF Served
    <3>4. QED
      BY <1>1, <3>1, <3>2, <3>3, Accounts
  <2>8. QED
    BY <1>12, <2>4, <2>7 DEF Served
<1>16. QED
  BY <1>14, <1>15

(* A handler throws over c, which is closed or deaf then: nothing changes  *)
(* for the others.                                                         *)
LEMMA FaultServes ==
  ASSUME CoreInv, RequestInv, NEW s \in Lanes, Fault(s)
  PROVE  RequestInv'
<1>1. QueueType /\ "game" \in Lanes /\ "chat" \in Lanes
  BY DEF CoreInv, Lanes
<1>2. SUFFICES ASSUME NEW d \in Conns, d \notin closed', d \notin deaf' PROVE Served(d)'
  BY DEF RequestInv
<1>3. UNCHANGED <<stage, inbox, pool, asked, replied>>
  BY DEF Fault, client
<1>4. PICK c \in Conns : c = Current(s)
  BY FaultFacts
<1>5. /\ CloseStep(c) /\ c \in closed' \union deaf' /\ deaf \subseteq deaf'
      /\ table' = [table EXCEPT ![s] = table[s] \ {c}]
      /\ \A t \in Lanes : t # s => lane'[t] = lane[t]
  BY <1>4, FaultFacts
<1>6. d # c /\ closed \subseteq closed'
  BY <1>2, <1>5 DEF CloseStep
<1>7. Served(d)
  BY <1>2, <1>5, <1>6 DEF RequestInv
<1>8. \A t \in Lanes : d \in table[t] => d \in table'[t]
  BY <1>1, <1>5, <1>6 DEF QueueType
<1>9. PICK e \in Events : e = Event("disconnected", c)
  BY EventFacts
<1>10. e \notin Mine(d)
  BY <1>6, <1>9, MineFacts
<1>11. \A t \in Lanes : inbound'[t] = inbound[t] \/ inbound'[t] = Append(inbound[t], e)
  <2>1. CASE UNCHANGED <<closed, closing, inbound, early>>
    BY <2>1
  <2>2. CASE inbound' = [inbound EXCEPT !["game"] = Append(inbound["game"], e)]
    BY <1>1, <2>2 DEF QueueType
  <2>3. QED
    BY <1>5, <1>9, <2>1, <2>2 DEF CloseStep
<1>12. \A t \in Lanes :
         \/ lane'[t].batch = lane[t].batch
         \/ /\ lane[t].batch # <<>> /\ lane'[t].batch = Tail(lane[t].batch)
            /\ Head(lane[t].batch) # Event("connected", d) /\ Head(lane[t].batch) \notin Mine(d)
  <2>1. CASE FirstTaken(s)
    <3>1. lane'[s].batch = lane[s].batch
      BY <1>1, <2>1, FirstFacts
    <3>2. QED
      BY <1>5, <3>1
  <2>2. CASE BatchTaken(s) /\ c = Head(lane[s].batch).conn
    <3>1. /\ lane[s].batch # <<>> /\ lane'[s].batch = Tail(lane[s].batch)
          /\ Head(lane[s].batch) = Event(Head(lane[s].batch).kind, c)
      BY <1>1, <2>2, BatchFacts DEF BatchTaken
    <3>2. Head(lane[s].batch) # Event("connected", d) /\ Head(lane[s].batch) \notin Mine(d)
      BY <1>6, <3>1, EventFacts, MineFacts
    <3>3. QED
      BY <1>5, <3>1, <3>2
  <2>3. QED
    BY <1>4, <2>1, <2>2 DEF Fault, FirstTaken, BatchTaken, Current
<1>13. ASSUME NEW t \in Lanes
       PROVE  (Told(t, d) => Known(t, d))' /\ Greeted(t, d)' /\ Queued(t, d)' = Queued(t, d)
  <2>1. (Known(t, d) => Known(t, d)') /\ (Greeted(t, d) => Greeted(t, d)')
    BY <1>1, <1>8, <1>10, <1>11, <1>12, LaneMoves
  <2>2. Told(t, d)' = Told(t, d)
    BY <1>3 DEF Told
  <2>3. Queued(t, d)' + 0 = Queued(t, d) + 0 /\ Queued(t, d) \in Nat /\ Queued(t, d)' \in Nat
    <3>1. Leave(t, d, 0) /\ Enter(t, d, e, 0)
      BY <1>10, <1>11, <1>12 DEF Leave, Enter
    <3>2. QED
      BY <1>1, <3>1, QueuedMoves
  <2>4. Queued(t, d)' = Queued(t, d)
    BY <2>3
  <2>5. QED
    BY <1>7, <2>1, <2>2, <2>4 DEF Served
(* The answers on their way to d stay on it.                               *)
<1>14. PICK f \in Seq(Conns) : f = lane["game"].first
  BY <1>1, QueueFacts
<1>15. \/ lane'["game"].first = f
       \/ f # <<>> /\ lane'["game"].first = Tail(f) /\ Head(f) # d
  <2>1. CASE s = "game" /\ FirstTaken(s) /\ c = Head(lane[s].first)
    <3>1. lane'["game"] = [lane["game"] EXCEPT !.first = Tail(f)] /\ lane["game"] \in LaneStates
      BY <1>1, <1>14, <2>1 DEF FirstTaken, QueueType
    <3>2. lane'["game"].first = Tail(f)
      BY <3>1 DEF LaneStates
    <3>3. QED
      BY <1>6, <1>14, <2>1, <3>2 DEF FirstTaken
  <2>2. CASE s = "game" /\ BatchTaken(s)
    <3>1. lane'["game"].first = <<>> /\ lane["game"].first = <<>>
      BY <1>1, <2>2, BatchFacts
    <3>2. QED
      BY <1>14, <3>1
  <2>3. CASE s # "game"
    BY <1>1, <1>5, <1>14, <2>3
  <2>4. QED
    BY <1>4, <2>1, <2>2, <2>3 DEF Fault, FirstTaken, BatchTaken, Current
<1>16. CASE lane'["game"].first = f
  BY <1>3, <1>1, <1>7, <1>8, <1>13, <1>14, <1>16, ServedFrame
<1>17. CASE f # <<>> /\ lane'["game"].first = Tail(f) /\ Head(f) # d
  <2>1. Range(f) = {Head(f)} \union Range(Tail(f)) /\ Tail(f) \in Seq(Conns)
    BY <1>17, RangeTail
  <2>2. (AtPool(d) => d \in table["game"])'
    <3>1. AtPool(d)' => AtPool(d)
      BY <1>3, <1>14, <1>17, <2>1 DEF AtPool
    <3>2. QED
      BY <1>1, <1>7, <1>8, <3>1 DEF Served
  <2>3. Count(Tail(f), {d}) = Count(f, {d})
    <3>1. Count(f, {d}) = Count(Tail(f), {d}) + (IF Head(f) \in {d} THEN 1 ELSE 0)
      BY <1>17, CountTail
    <3>2. (IF Head(f) \in {d} THEN 1 ELSE 0) = 0
      BY <1>17
    <3>3. Count(Tail(f), {d}) \in Nat
      BY <2>1, CountNat
    <3>4. QED
      BY <3>1, <3>2, <3>3
  <2>4. Underway(d)' = Underway(d)
    <3>1. Queued("game", d)' = Queued("game", d) /\ Queued("chat", d)' = Queued("chat", d)
      BY <1>1, <1>13
    <3>2. Count(lane'["game"].first, {d}) = Count(lane["game"].first, {d})
      BY <1>14, <1>17, <2>3
    <3>3. QED
      BY <1>3, <3>1, <3>2 DEF Underway
  <2>5. Settled(d)'
    BY <1>3, <1>7, <2>4 DEF Served, Settled
  <2>6. QED
    BY <1>13, <2>2, <2>5 DEF Served
<1>18. QED
  BY <1>15, <1>16, <1>17

-----------------------------------------------------------------------------
LEMMA InitServes == Init => RequestInv
<1>1. SUFFICES ASSUME Init, NEW d \in Conns PROVE Served(d)
  BY DEF RequestInv
<1>2. "game" \in Lanes /\ "chat" \in Lanes
  BY DEF Lanes
<1>3. \A s \in Lanes : /\ inbound[s] = <<>> /\ inbox[s] = <<>>
                       /\ lane[s].first = <<>> /\ lane[s].batch = <<>>
  BY <1>1 DEF Init, Idle
<1>4. stage[d] = "new" /\ asked[d] = 0 /\ replied[d] = 0 /\ pool[d] = 0
  BY <1>1 DEF Init
<1>5. \A s \in Lanes : ~Told(s, d) /\ Greeted(s, d)
  BY <1>3, <1>4, RangeEmpty DEF Told, Greeted, Announced, Behind
<1>6. ~AtPool(d)
  BY <1>2, <1>3, <1>4, RangeEmpty DEF AtPool
<1>7. Settled(d)
  <2>1. \A S : Count(<<>>, S) = 0
    BY CountEmpty
  <2>2. Queued("game", d) = 0 /\ Queued("chat", d) = 0
    BY <1>2, <1>3, <2>1 DEF Queued
  <2>3. Underway(d) = 0
    BY <1>2, <1>3, <1>4, <2>1, <2>2 DEF Underway
  <2>4. QED
    BY <1>4, <2>3 DEF Settled
<1>8. QED
  BY <1>5, <1>6, <1>7 DEF Served

LEMMA NextServes == IInv /\ RequestInv /\ [Next]_vars => RequestInv'
<1>1. SUFFICES ASSUME IInv, RequestInv, [Next]_vars PROVE RequestInv'
  OBVIOUS
<1>2. CoreInv /\ CountType
  BY <1>1 DEF IInv
<1>3. CASE UNCHANGED vars
  <2>1. UNCHANGED <<stage, closed, asked, replied, inbound, inbox, lane, table, pool, deaf>>
    BY <1>3 DEF vars, io, client, history
  <2>2. SUFFICES ASSUME NEW d \in Conns \ (closed \union deaf) PROVE Served(d)'
    BY <2>1 DEF RequestInv
  <2>3. Served(d)
    BY <1>1 DEF RequestInv
  <2>4. \A t \in Lanes : (Told(t, d) => Known(t, d))' /\ Greeted(t, d)' /\ Queued(t, d)' = Queued(t, d)
    BY <2>1, <2>3, LaneStill DEF Served
  <2>5. QED
    BY <2>1, <2>3, <2>4, ServedFrame
<1>4. ASSUME NEW c \in Conns, ConnectedToGame(c) \/ Poster(c) \/ Close(c) \/ PoolAnswers(c)
      PROVE  RequestInv'
  BY <1>1, <1>2, <1>4, PostersServe, PoolAnswersServe
<1>5. ASSUME NEW c \in Conns, NEW kind \in Requests, Ask(c, kind) PROVE RequestInv'
  BY <1>1, <1>2, <1>5, AskServes
<1>6. ASSUME NEW s \in Lanes, Lane(s) \/ Fault(s) PROVE RequestInv'
  BY <1>1, <1>2, <1>6, StartRoundServes, SwapInboundServes, EndRoundServes, HandleFirstServes,
     EventServes, FaultServes DEF Lane
<1>7. QED
  BY <1>1, <1>3, <1>4, <1>5, <1>6 DEF Next

(* post_message, the two lanes, the database pool and note_fault: a client *)
(* whose connection is open gets exactly one answer, error or push for     *)
(* each request, or the request is still in one of the queues or in the    *)
(* pool: none is dropped or answered twice, however the lanes, the I/O     *)
(* threads and the pool interleave, with full queues, refusals and         *)
(* handlers that throw. Requests follow Connected in both queues, so the   *)
(* early return for a connection without an entry never drops one of an    *)
(* open connection; what is at the pool belongs to a session.              *)
THEOREM RequestsAnswered == Spec => []EveryRequestAnswered
<1>1. RequestInv => EveryRequestAnswered
  BY DEF RequestInv, Served, Settled, EveryRequestAnswered
<1>2. QED
  BY <1>1, InitServes, NextServes, Invariance, PTL DEF Spec
=============================================================================
