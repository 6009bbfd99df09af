----------------------- MODULE RequestDispatcherProofs -----------------------
(***************************************************************************)
(* Proofs about RequestDispatcher, for any keys, requests, workers, cap    *)
(* and batch size.                                                         *)
(***************************************************************************)
EXTENDS RequestDispatcher, FiniteSetTheorems, SequenceTheorems, TLAPS

(* The marks in the table agree with what the workers hold.                *)
WorkingIsHeld ==
  \A k \in Keys :
     working[k] <=> \E w \in Workers : \E i \in DOMAIN held[w] : KeyOf[held[w][i]] = k

(* A key with a mark or with requests has an entry in queues_, so that     *)
(* finish finds it.                                                        *)
TableCovers ==
  \A k \in Keys : working[k] \/ waiting[k] # <<>> => k \in table

(* A request waits in the queue of its own key, once, and not while a      *)
(* worker holds it.                                                        *)
OwnKey(k)    == \A i \in DOMAIN waiting[k] : KeyOf[waiting[k][i]] = k
OnceInLine(k) == \A i, j \in DOMAIN waiting[k] : waiting[k][i] = waiting[k][j] => i = j
NotHeld(k)   == \A i \in DOMAIN waiting[k] :
                  \A w \in Workers : \A j \in DOMAIN held[w] : held[w][j] # waiting[k][i]
OnePlace == \A k \in Keys : OwnKey(k) /\ OnceInLine(k) /\ NotHeld(k)

IInv ==
  TypeOK /\ KeyExclusive /\ ReadyExact /\ WorkingIsHeld /\ TableCovers /\ OnePlace

-----------------------------------------------------------------------------
(* Facts about the sequence operators the dispatcher uses.                 *)
LEMMA AppendFacts ==
  ASSUME NEW S, NEW s \in Seq(S), NEW e \in S
  PROVE  /\ Append(s, e) \in Seq(S)
         /\ Len(Append(s, e)) = Len(s) + 1
         /\ \A i \in 1..Len(s) : Append(s, e)[i] = s[i]
         /\ Append(s, e)[Len(s) + 1] = e
         /\ Elements(Append(s, e)) = Elements(s) \union {e}
<1>1. /\ Append(s, e) \in Seq(S)
      /\ Len(Append(s, e)) = Len(s) + 1
      /\ \A i \in 1..Len(s) : Append(s, e)[i] = s[i]
      /\ Append(s, e)[Len(s) + 1] = e
  OBVIOUS
<1>2. DOMAIN Append(s, e) = 1..(Len(s) + 1) /\ DOMAIN s = 1..Len(s) /\ Len(s) \in Nat
  OBVIOUS
<1>3. Elements(Append(s, e)) = Elements(s) \union {e}
  BY <1>1, <1>2 DEF Elements
<1>4. QED
  BY <1>1, <1>3

LEMMA TailFacts ==
  ASSUME NEW S, NEW s \in Seq(S), s # <<>>
  PROVE  /\ Head(s) \in S /\ Head(s) = s[1]
         /\ Tail(s) \in Seq(S)
         /\ Len(s) \in Nat /\ Len(s) > 0
         /\ DOMAIN s = 1..Len(s)
         /\ Len(Tail(s)) = Len(s) - 1
         /\ DOMAIN Tail(s) = 1..(Len(s) - 1)
         /\ \A i \in 1..(Len(s) - 1) : Tail(s)[i] = s[i + 1]
         /\ SubSeq(s, 2, Len(s)) = Tail(s)
OBVIOUS

LEMMA ElementsOfTail ==
  ASSUME NEW S, NEW s \in Seq(S), s # <<>>
  PROVE  Elements(s) = Elements(Tail(s)) \union {Head(s)}
<1>1. /\ Head(s) = s[1] /\ Len(s) \in Nat /\ Len(s) > 0
      /\ DOMAIN s = 1..Len(s) /\ DOMAIN Tail(s) = 1..(Len(s) - 1)
      /\ \A i \in 1..(Len(s) - 1) : Tail(s)[i] = s[i + 1]
  BY TailFacts
<1>2. ASSUME NEW i \in DOMAIN s, i # 1 PROVE i - 1 \in DOMAIN Tail(s) /\ s[i] = Tail(s)[i - 1]
  BY <1>1, <1>2
<1>3. ASSUME NEW i \in DOMAIN Tail(s) PROVE i + 1 \in DOMAIN s /\ Tail(s)[i] = s[i + 1]
  BY <1>1
<1>4. QED
  BY <1>1, <1>2, <1>3 DEF Elements

LEMMA WaitingFinite ==
  ASSUME TypeOK
  PROVE  /\ WaitingSet \in SUBSET Requests
         /\ IsFiniteSet(WaitingSet)
         /\ Cardinality(WaitingSet) \in Nat
<1>1. \A k \in Keys : Elements(waiting[k]) \subseteq Requests
  BY DEF TypeOK, Elements
<1>2. WaitingSet \in SUBSET Requests
  BY <1>1 DEF WaitingSet
<1>3. QED
  BY <1>2, DispatcherAssumption, FS_Subset, FS_CardinalityType

-----------------------------------------------------------------------------
(* Every variable keeps its type, and no worker holds more than a batch.   *)
LEMMA TypeInductive == TypeOK /\ [Next]_vars => TypeOK'
<1> SUFFICES ASSUME TypeOK, [Next]_vars PROVE TypeOK'
  OBVIOUS
<1> USE DispatcherAssumption
<1>1. ASSUME NEW r \in Requests, Push(r) PROVE TypeOK'
  <2>1. KeyOf[r] \in Keys
    BY DEF TypeOK
  <2>2. Append(waiting[KeyOf[r]], r) \in Seq(Requests) /\ Append(ready, KeyOf[r]) \in Seq(Keys)
    BY <2>1, AppendFacts DEF TypeOK
  <2>3. QED
    BY <1>1, <2>1, <2>2 DEF TypeOK, Push, HasRoom, BecomesReady
<1>2. ASSUME NEW w \in Workers, Take(w) PROVE TypeOK'
  <2>1. PICK i \in 1..Len(ready) :
          /\ CanServe(ready[i])
          /\ ready' = SubSeq(ready, i + 1, Len(ready))
          /\ working' = Marked(ready[i])
          /\ waiting' = [waiting EXCEPT ![ready[i]] = Tail(@)]
          /\ held' = [held EXCEPT ![w] = Append(@, Head(waiting[ready[i]]))]
    BY <1>2 DEF Take
  <2>2. ready[i] \in Keys /\ waiting[ready[i]] \in Seq(Requests) /\ waiting[ready[i]] # <<>>
    BY <2>1 DEF TypeOK, CanServe
  <2>3. Head(waiting[ready[i]]) \in Requests /\ Tail(waiting[ready[i]]) \in Seq(Requests)
    BY <2>2, TailFacts
  <2>4. ready' \in Seq(Keys)
    BY <2>1 DEF TypeOK
  <2>5. waiting' \in [Keys -> Seq(Requests)] /\ working' \in [Keys -> BOOLEAN]
    BY <2>1, <2>2, <2>3 DEF TypeOK, Marked
  <2>6. held' \in [Workers -> Seq(Requests)] /\ \A v \in Workers : Len(held'[v]) <= BatchSize
    <3>1. Len(held[w]) < BatchSize
      BY <1>2 DEF Take, MayTake
    <3>2. /\ Append(held[w], Head(waiting[ready[i]])) \in Seq(Requests)
          /\ Len(Append(held[w], Head(waiting[ready[i]]))) = Len(held[w]) + 1
      BY <2>3, AppendFacts DEF TypeOK
    <3>3. Len(held[w]) \in Nat
      BY DEF TypeOK
    <3>4. QED
      BY <2>1, <3>1, <3>2, <3>3, SMTT(60) DEF TypeOK
  <2>7. QED
    BY <1>2, <2>4, <2>5, <2>6 DEF TypeOK, Take
<1>3. ASSUME NEW w \in Workers, TakeNothing(w) PROVE TypeOK'
  BY <1>3 DEF TypeOK, TakeNothing
<1>4. ASSUME NEW w \in Workers, Finish(w) PROVE TypeOK'
  <2>1. held[w] \in Seq(Requests) /\ held[w] # <<>> /\ Len(held[w]) <= BatchSize
    BY <1>4 DEF Finish, TypeOK
  <2>2. /\ Head(held[w]) \in Requests /\ Tail(held[w]) \in Seq(Requests)
        /\ Len(Tail(held[w])) <= BatchSize
    BY <2>1, TailFacts
  <2>3. KeyOf[Head(held[w])] \in Keys
    BY <2>2
  <2>4. Append(ready, KeyOf[Head(held[w])]) \in Seq(Keys)
    BY <2>3, AppendFacts DEF TypeOK
  <2>5. held' \in [Workers -> Seq(Requests)] /\ \A v \in Workers : Len(held'[v]) <= BatchSize
    <3>1. held' = [held EXCEPT ![w] = Tail(held[w])]
      BY <1>4 DEF Finish
    <3>2. held \in [Workers -> Seq(Requests)] /\ \A v \in Workers : Len(held[v]) <= BatchSize
      BY DEF TypeOK
    <3>3. held' \in [Workers -> Seq(Requests)]
      BY <2>2, <3>1, <3>2
    <3>4. ASSUME NEW v \in Workers PROVE Len(held'[v]) <= BatchSize
      <4>1. CASE v = w
        BY <2>2, <3>1, <3>2, <4>1
      <4>2. CASE v # w
        BY <3>1, <3>2, <4>2
      <4>3. QED
        BY <4>1, <4>2
    <3>5. QED
      BY <3>3, <3>4
  <2>6. /\ working' \in [Keys -> BOOLEAN] /\ depth' \in Nat
        /\ table' \in SUBSET Keys /\ ready' \in Seq(Keys)
    <3>1. CASE KeyOf[Head(held[w])] \in table
      <4>1. /\ working' = [working EXCEPT ![KeyOf[Head(held[w])]] = FALSE]
            /\ depth' = IF depth > 0 THEN depth - 1 ELSE 0
            /\ table' = table \/ table' = table \ {KeyOf[Head(held[w])]}
            /\ ready' = ready \/ ready' = Append(ready, KeyOf[Head(held[w])])
        BY <1>4, <3>1 DEF Finish, ListAgain
      <4>2. working' \in [Keys -> BOOLEAN]
        BY <4>1 DEF TypeOK
      <4>3. depth' \in Nat
        BY <4>1 DEF TypeOK
      <4>4. table' \in SUBSET Keys /\ ready' \in Seq(Keys)
        BY <2>4, <4>1 DEF TypeOK
      <4>5. QED
        BY <4>2, <4>3, <4>4
    <3>2. CASE KeyOf[Head(held[w])] \notin table
      BY <1>4, <3>2 DEF Finish, TypeOK
    <3>3. QED
      BY <3>1, <3>2
  <2>7. waiting' = waiting /\ flushing' \in [Workers -> BOOLEAN]
    BY <1>4 DEF Finish, TypeOK
  <2>8. QED
    BY <2>5, <2>6, <2>7 DEF TypeOK
<1>5. ASSUME TakeAll PROVE TypeOK'
  <2>1. depth' \in Nat
    <3>1. Cardinality(WaitingSet) \in Nat
      BY WaitingFinite
    <3>2. depth \in Nat /\ depth' = IF depth > Cardinality(WaitingSet)
                                    THEN depth - Cardinality(WaitingSet) ELSE 0
      BY <1>5 DEF TakeAll, TypeOK
    <3>3. QED
      BY <3>1, <3>2
  <2>2. QED
    BY <1>5, <2>1 DEF TakeAll, TypeOK
<1>6. CASE UNCHANGED vars
  BY <1>6 DEF vars, TypeOK
<1>7. QED
  BY <1>1, <1>2, <1>3, <1>4, <1>5, <1>6 DEF Next, Worker

-----------------------------------------------------------------------------
LEMMA PushPreserves ==
  ASSUME IInv, TypeOK', NEW r \in Requests, Push(r)
  PROVE  IInv'
<1> DEFINE k == KeyOf[r]
<1> USE DispatcherAssumption
<1>1. /\ k \in Keys
      /\ waiting[k] \in Seq(Requests) /\ ready \in Seq(Keys)
  BY DEF IInv, TypeOK
<1>2. /\ table' = table \union {k}
      /\ waiting' = [waiting EXCEPT ![k] = Append(waiting[k], r)]
      /\ ready' = IF BecomesReady(k) THEN Append(ready, k) ELSE ready
      /\ working' = working /\ held' = held
      /\ ~InUse(r)
  BY DEF Push
<1> HIDE DEF k
<1>3. /\ waiting'[k] = Append(waiting[k], r)
      /\ \A j \in Keys : j # k => waiting'[j] = waiting[j]
  BY <1>1, <1>2 DEF IInv, TypeOK
<1>4. /\ Len(waiting'[k]) = Len(waiting[k]) + 1
      /\ \A i \in 1..Len(waiting[k]) : waiting'[k][i] = waiting[k][i]
      /\ waiting'[k][Len(waiting[k]) + 1] = r
      /\ DOMAIN waiting[k] = 1..Len(waiting[k])
      /\ DOMAIN waiting'[k] = 1..(Len(waiting[k]) + 1)
      /\ Len(waiting[k]) \in Nat
      /\ waiting'[k] # <<>>
  BY <1>1, <1>3, AppendFacts
<1>5. KeyExclusive'
  BY <1>2 DEF KeyExclusive, IInv
<1>6. WorkingIsHeld'
  BY <1>2 DEF WorkingIsHeld, IInv
<1>7. TableCovers'
  BY <1>2, <1>3 DEF TableCovers, IInv
<1>8. OnePlace'
  <2>1. /\ \A i \in DOMAIN waiting[k] : waiting[k][i] # r
        /\ \A w \in Workers : \A j \in DOMAIN held[w] : held[w][j] # r
    BY <1>2 DEF InUse, Elements, k
  <2>2. OwnKey(k) /\ OnceInLine(k) /\ NotHeld(k)
    BY <1>1 DEF OnePlace, IInv
  <2>3. OwnKey(k)'
    BY <1>4, <2>2, SMTT(60) DEF OwnKey, k
  <2>4. OnceInLine(k)'
    BY <1>4, <2>1, <2>2 DEF OnceInLine
  <2>5. NotHeld(k)'
    BY <1>2, <1>4, <2>1, <2>2 DEF NotHeld
  <2>6. ASSUME NEW h \in Keys, h # k
        PROVE  (OwnKey(h) /\ OnceInLine(h) /\ NotHeld(h))'
    <3>1. waiting'[h] = waiting[h]
      BY <1>3, <2>6
    <3>2. OwnKey(h) /\ OnceInLine(h) /\ NotHeld(h)
      BY DEF OnePlace, IInv
    <3>3. held' = held
      BY <1>2
    <3>4. OwnKey(h)' /\ OnceInLine(h)'
      BY <3>1, <3>2 DEF OwnKey, OnceInLine
    <3>5. NotHeld(h)'
      BY <3>1, <3>2, <3>3 DEF NotHeld
    <3>6. QED
      BY <3>4, <3>5
  <2>7. QED
    BY <2>3, <2>4, <2>5, <2>6 DEF OnePlace
<1>9. ReadyExact'
  <2>1. CASE BecomesReady(k)
    <3>1. k \notin Elements(ready)
      BY <1>1, <2>1 DEF BecomesReady, CanServe, ReadyExact, IInv
    <3>2. /\ ready' = Append(ready, k)
          /\ Elements(ready') = Elements(ready) \union {k}
          /\ Len(ready') = Len(ready) + 1
          /\ \A i \in 1..Len(ready) : ready'[i] = ready[i]
          /\ ready'[Len(ready) + 1] = k
      BY <1>1, <1>2, <2>1, AppendFacts
    <3>3. /\ DOMAIN ready = 1..Len(ready) /\ Len(ready) \in Nat
          /\ DOMAIN ready' = 1..(Len(ready) + 1)
      BY <1>1, <3>2
    <3>4. \A i \in 1..Len(ready) : ready[i] # k
      BY <3>1, <3>3 DEF Elements
    <3>5. \A i, j \in DOMAIN ready' : ready'[i] = ready'[j] => i = j
      BY <3>2, <3>3, <3>4 DEF ReadyExact, IInv
    <3>6. CanServe(k)'
      BY <1>2, <1>4, <2>1 DEF CanServe, BecomesReady
    <3>7. \A j \in Keys : j # k => (CanServe(j)' <=> CanServe(j))
      BY <1>2, <1>3 DEF CanServe
    <3>8. QED
      BY <1>1, <3>2, <3>5, <3>6, <3>7 DEF ReadyExact, IInv
  <2>2. CASE ~BecomesReady(k)
    <3>1. ready' = ready
      BY <1>2, <2>2
    <3>2. CanServe(k)' <=> CanServe(k)
      BY <1>1, <1>2, <1>4, <2>2 DEF CanServe, BecomesReady, IInv, TableCovers
    <3>3. \A j \in Keys : j # k => (CanServe(j)' <=> CanServe(j))
      BY <1>2, <1>3 DEF CanServe
    <3>4. QED
      BY <1>1, <3>1, <3>2, <3>3 DEF ReadyExact, IInv, Elements
  <2>3. QED
    BY <2>1, <2>2
<1>10. QED
  BY <1>5, <1>6, <1>7, <1>8, <1>9 DEF IInv

(* By ReadyExact the loop of take never passes over a key: it takes the    *)
(* first one.                                                              *)
LEMMA TakeStep ==
  ASSUME IInv, NEW w \in Workers, Take(w)
  PROVE  \E k \in Keys, r \in Requests :
         /\ ready # <<>> /\ k = ready[1] /\ CanServe(k) /\ r = Head(waiting[k])
         /\ ready' = Tail(ready)
         /\ working' = [working EXCEPT ![k] = TRUE]
         /\ waiting' = [waiting EXCEPT ![k] = Tail(waiting[k])]
         /\ held' = [held EXCEPT ![w] = Append(held[w], r)]
         /\ table' = table
<1> USE DispatcherAssumption
<1>1. PICK i \in 1..Len(ready) :
        /\ CanServe(ready[i])
        /\ \A j \in 1..(i - 1) : ~CanServe(ready[j])
        /\ ready' = SubSeq(ready, i + 1, Len(ready))
        /\ working' = Marked(ready[i])
        /\ waiting' = [waiting EXCEPT ![ready[i]] = Tail(@)]
        /\ held' = [held EXCEPT ![w] = Append(@, Head(waiting[ready[i]]))]
        /\ table' = table
  BY DEF Take
<1>2. ready \in Seq(Keys) /\ ready # <<>> /\ Len(ready) \in Nat /\ i \in Nat
  BY <1>1 DEF IInv, TypeOK
<1>3. ready[1] \in Keys /\ ready[1] \in Elements(ready)
  BY <1>2 DEF Elements
<1>4. CanServe(ready[1])
  BY <1>3 DEF IInv, ReadyExact
<1>5. i = 1
  BY <1>1, <1>2, <1>4
<1>6. SubSeq(ready, 2, Len(ready)) = Tail(ready)
  BY <1>2, TailFacts
<1>7. Head(waiting[ready[1]]) \in Requests
  BY <1>3, <1>4, TailFacts DEF CanServe, IInv, TypeOK
<1>8. /\ ready' = Tail(ready)
      /\ working' = [working EXCEPT ![ready[1]] = TRUE]
      /\ waiting' = [waiting EXCEPT ![ready[1]] = Tail(waiting[ready[1]])]
      /\ held' = [held EXCEPT ![w] = Append(held[w], Head(waiting[ready[1]]))]
      /\ table' = table
  BY <1>1, <1>5, <1>6 DEF Marked
<1>9. QED
  BY <1>2, <1>3, <1>4, <1>7, <1>8

LEMMA TakePreserves ==
  ASSUME IInv, TypeOK', NEW w \in Workers, Take(w)
  PROVE  IInv'
<1> USE DispatcherAssumption
<1>1. PICK k \in Keys, r \in Requests :
      /\ ready # <<>> /\ k = ready[1] /\ CanServe(k) /\ r = Head(waiting[k])
      /\ ready' = Tail(ready)
      /\ working' = [working EXCEPT ![k] = TRUE]
      /\ waiting' = [waiting EXCEPT ![k] = Tail(waiting[k])]
      /\ held' = [held EXCEPT ![w] = Append(held[w], r)]
      /\ table' = table
  BY TakeStep
<1>2. /\ waiting[k] \in Seq(Requests) /\ waiting[k] # <<>> /\ ~working[k] /\ k \in table
      /\ ready \in Seq(Keys) /\ held[w] \in Seq(Requests)
  BY <1>1 DEF IInv, TypeOK, CanServe
<1>3. /\ r = waiting[k][1]
      /\ Len(waiting[k]) \in Nat /\ Len(waiting[k]) > 0
      /\ DOMAIN waiting[k] = 1..Len(waiting[k])
      /\ Tail(waiting[k]) \in Seq(Requests)
      /\ DOMAIN Tail(waiting[k]) = 1..(Len(waiting[k]) - 1)
      /\ \A i \in 1..(Len(waiting[k]) - 1) : Tail(waiting[k])[i] = waiting[k][i + 1]
  BY <1>1, <1>2, TailFacts
<1>4. KeyOf[r] = k
  <2>1. OwnKey(k)
    BY <1>1 DEF IInv, OnePlace
  <2>2. QED
    BY <1>3, <2>1 DEF OwnKey
<1>5. /\ waiting'[k] = Tail(waiting[k])
      /\ \A h \in Keys : h # k => waiting'[h] = waiting[h]
      /\ working'[k] = TRUE
      /\ \A h \in Keys : h # k => working'[h] = working[h]
  BY <1>1 DEF IInv, TypeOK
<1>6. /\ DOMAIN held[w] = 1..Len(held[w]) /\ Len(held[w]) \in Nat
      /\ DOMAIN held'[w] = 1..(Len(held[w]) + 1)
      /\ \A i \in 1..Len(held[w]) : held'[w][i] = held[w][i]
      /\ held'[w][Len(held[w]) + 1] = r
      /\ \A v \in Workers : v # w => held'[v] = held[v]
  <2>1. /\ held'[w] = Append(held[w], r)
        /\ \A v \in Workers : v # w => held'[v] = held[v]
    BY <1>1 DEF IInv, TypeOK
  <2>2. QED
    BY <1>2, <1>3, <2>1, AppendFacts
<1>7. \A v \in Workers : \A i \in DOMAIN held[v] : KeyOf[held[v][i]] # k
  BY <1>1, <1>2 DEF IInv, WorkingIsHeld
<1>8. \A v \in Workers : \A i \in DOMAIN held'[v] :
        \/ v = w /\ i = Len(held[w]) + 1 /\ held'[v][i] = r
        \/ i \in DOMAIN held[v] /\ held'[v][i] = held[v][i] /\ ~(v = w /\ i = Len(held[w]) + 1)
  BY <1>6
<1>9. KeyExclusive'
  <2> SUFFICES ASSUME NEW u \in Workers, NEW v \in Workers,
                      NEW i \in DOMAIN held'[u], NEW j \in DOMAIN held'[v],
                      KeyOf[held'[u][i]] = KeyOf[held'[v][j]]
               PROVE  u = v /\ i = j
    BY DEF KeyExclusive
  <2>1. CASE u = w /\ i = Len(held[w]) + 1 /\ held'[u][i] = r
    BY <1>4, <1>7, <1>8, <2>1
  <2>2. CASE v = w /\ j = Len(held[w]) + 1 /\ held'[v][j] = r
    BY <1>4, <1>7, <1>8, <2>2
  <2>3. CASE /\ i \in DOMAIN held[u] /\ held'[u][i] = held[u][i]
             /\ j \in DOMAIN held[v] /\ held'[v][j] = held[v][j]
    BY <2>3 DEF IInv, KeyExclusive
  <2>4. QED
    BY <1>8, <2>1, <2>2, <2>3
<1>10. WorkingIsHeld'
  <2>1. ASSUME NEW h \in Keys, h # k
        PROVE  WorkingIsHeld!(h)'
    <3>1. working'[h] = working[h]
      BY <1>5, <2>1
    <3>2. ASSUME NEW v \in Workers, NEW i \in DOMAIN held[v], KeyOf[held[v][i]] = h
          PROVE  i \in DOMAIN held'[v] /\ KeyOf[held'[v][i]] = h
      BY <1>6, <3>2
    <3>3. ASSUME NEW v \in Workers, NEW i \in DOMAIN held'[v], KeyOf[held'[v][i]] = h
          PROVE  i \in DOMAIN held[v] /\ KeyOf[held[v][i]] = h
      BY <1>4, <1>8, <2>1, <3>3
    <3>4. QED
      BY <3>1, <3>2, <3>3 DEF IInv, WorkingIsHeld
  <2>2. WorkingIsHeld!(k)'
    BY <1>4, <1>5, <1>6
  <2>3. QED
    BY <2>1, <2>2 DEF WorkingIsHeld
<1>11. TableCovers'
  BY <1>1, <1>2, <1>5 DEF IInv, TableCovers
<1>12. OnePlace'
  <2>1. ASSUME NEW h \in Keys, h # k
        PROVE  (OwnKey(h) /\ OnceInLine(h) /\ NotHeld(h))'
    <3>1. waiting'[h] = waiting[h] /\ OwnKey(h) /\ OnceInLine(h) /\ NotHeld(h)
      BY <1>5, <2>1 DEF IInv, OnePlace
    <3>2. OwnKey(h)' /\ OnceInLine(h)'
      BY <3>1 DEF OwnKey, OnceInLine
    <3>3. \A i \in DOMAIN waiting[h] : waiting[h][i] # r
      BY <1>4, <2>1, <3>1 DEF OwnKey
    <3>4. NotHeld(h)'
      BY <1>8, <3>1, <3>3 DEF NotHeld
    <3>5. QED
      BY <3>2, <3>4
  <2>2. (OwnKey(k) /\ OnceInLine(k) /\ NotHeld(k))'
    <3>1. OwnKey(k) /\ OnceInLine(k) /\ NotHeld(k)
      BY <1>1 DEF IInv, OnePlace
    <3>2. \A i \in DOMAIN waiting'[k] :
            i \in Nat /\ i + 1 \in DOMAIN waiting[k] /\ waiting'[k][i] = waiting[k][i + 1]
      BY <1>3, <1>5
    <3>3. OwnKey(k)'
      BY <3>1, <3>2 DEF OwnKey
    <3>4. OnceInLine(k)'
      BY <3>1, <3>2 DEF OnceInLine
    <3>5. ASSUME NEW i \in DOMAIN waiting'[k] PROVE waiting'[k][i] # r
      <4>1. i + 1 \in DOMAIN waiting[k] /\ 1 \in DOMAIN waiting[k] /\ i + 1 # 1
        BY <1>3, <1>5, <3>2
      <4>2. waiting[k][i + 1] # waiting[k][1]
        BY <3>1, <4>1 DEF OnceInLine
      <4>3. QED
        BY <1>3, <3>2, <4>2
    <3>6. NotHeld(k)'
      BY <1>8, <3>1, <3>2, <3>5 DEF NotHeld
    <3>7. QED
      BY <3>3, <3>4, <3>6
  <2>3. QED
    BY <2>1, <2>2 DEF OnePlace
<1>13. ReadyExact'
  <2>1. /\ DOMAIN ready = 1..Len(ready) /\ Len(ready) \in Nat /\ Len(ready) > 0
        /\ DOMAIN ready' = 1..(Len(ready) - 1)
        /\ \A i \in 1..(Len(ready) - 1) : ready'[i] = ready[i + 1]
    BY <1>1, <1>2, TailFacts
  <2>2. \A i, j \in DOMAIN ready : ready[i] = ready[j] => i = j
    BY DEF IInv, ReadyExact
  <2>3. \A i, j \in DOMAIN ready' : ready'[i] = ready'[j] => i = j
    BY <2>1, <2>2
  <2>4. k = ready[1]
    BY <1>1
  <2>5. \A h \in Keys : h \in Elements(ready') <=> h \in Elements(ready) /\ h # k
    <3>1. ASSUME NEW i \in DOMAIN ready' PROVE ready'[i] \in Elements(ready) /\ ready'[i] # k
      <4>1. i + 1 \in DOMAIN ready /\ 1 \in DOMAIN ready /\ i + 1 # 1 /\ ready'[i] = ready[i + 1]
        BY <2>1
      <4>2. ready[i + 1] # ready[1]
        BY <2>2, <4>1
      <4>3. QED
        BY <2>4, <4>1, <4>2 DEF Elements
    <3>2. ASSUME NEW i \in DOMAIN ready, ready[i] # k PROVE ready[i] \in Elements(ready')
      <4>1. i - 1 \in DOMAIN ready' /\ ready'[i - 1] = ready[i]
        BY <2>1, <2>4, <3>2
      <4>2. QED
        BY <4>1 DEF Elements
    <3>3. QED
      BY <3>1, <3>2 DEF Elements
  <2>6. \A h \in Keys : CanServe(h)' <=> CanServe(h) /\ h # k
    BY <1>1, <1>5 DEF CanServe
  <2>7. QED
    BY <2>3, <2>5, <2>6 DEF IInv, ReadyExact
<1>14. QED
  BY <1>9, <1>10, <1>11, <1>12, <1>13 DEF IInv

LEMMA TakeNothingPreserves ==
  ASSUME IInv, TypeOK', NEW w \in Workers, TakeNothing(w)
  PROVE  IInv'
<1>1. ready = <<>>
  <2> SUFFICES ASSUME ready # <<>> PROVE FALSE
    OBVIOUS
  <2>1. ready \in Seq(Keys) /\ 1 \in 1..Len(ready) /\ 1 \in DOMAIN ready
    BY DEF IInv, TypeOK
  <2>2. ready[1] \in Keys /\ ready[1] \in Elements(ready)
    BY <2>1 DEF Elements
  <2>3. QED
    BY <2>1, <2>2 DEF TakeNothing, IInv, ReadyExact
<1>2. UNCHANGED <<table, waiting, working, ready, held>>
  BY <1>1 DEF TakeNothing
<1>3. KeyExclusive' /\ ReadyExact'
  BY <1>2 DEF IInv, KeyExclusive, ReadyExact, CanServe, Elements
<1>4. WorkingIsHeld' /\ TableCovers' /\ OnePlace'
  BY <1>2 DEF IInv, WorkingIsHeld, TableCovers, OnePlace, OwnKey, OnceInLine, NotHeld
<1>5. QED
  BY <1>3, <1>4 DEF IInv

(* finish always finds the entry of the key it is called for.              *)
LEMMA FinishStep ==
  ASSUME IInv, NEW w \in Workers, Finish(w)
  PROVE  \E k \in Keys :
         /\ held[w] # <<>> /\ k = KeyOf[held[w][1]] /\ k \in table
         /\ working' = [working EXCEPT ![k] = FALSE]
         /\ table' = IF waiting[k] = <<>> THEN table \ {k} ELSE table
         /\ depth' = IF depth > 0 THEN depth - 1 ELSE 0
         /\ ready' = IF waiting[k] = <<>> THEN ready ELSE Append(ready, k)
         /\ held' = [held EXCEPT ![w] = Tail(held[w])]
         /\ waiting' = waiting
<1> USE DispatcherAssumption
<1>1. held[w] # <<>> /\ held[w] \in Seq(Requests)
  BY DEF Finish, IInv, TypeOK
<1>2. /\ Head(held[w]) \in Requests /\ Head(held[w]) = held[w][1]
      /\ 1 \in DOMAIN held[w]
  BY <1>1, TailFacts
<1>3. KeyOf[held[w][1]] \in Keys
  BY <1>2
<1>4. KeyOf[held[w][1]] \in table
  BY <1>2, <1>3 DEF IInv, WorkingIsHeld, TableCovers
<1>5. QED
  BY <1>1, <1>2, <1>3, <1>4 DEF Finish, ListAgain

LEMMA FinishPreserves ==
  ASSUME IInv, TypeOK', NEW w \in Workers, Finish(w)
  PROVE  IInv'
<1> USE DispatcherAssumption
<1>1. PICK k \in Keys :
        /\ held[w] # <<>> /\ k = KeyOf[held[w][1]] /\ k \in table
        /\ working' = [working EXCEPT ![k] = FALSE]
        /\ table' = IF waiting[k] = <<>> THEN table \ {k} ELSE table
        /\ depth' = IF depth > 0 THEN depth - 1 ELSE 0
        /\ ready' = IF waiting[k] = <<>> THEN ready ELSE Append(ready, k)
        /\ held' = [held EXCEPT ![w] = Tail(held[w])]
        /\ waiting' = waiting
  BY FinishStep
<1>2. /\ DOMAIN held[w] = 1..Len(held[w]) /\ Len(held[w]) \in Nat /\ Len(held[w]) > 0
      /\ held'[w] = Tail(held[w])
      /\ DOMAIN held'[w] = 1..(Len(held[w]) - 1)
      /\ \A i \in 1..(Len(held[w]) - 1) : held'[w][i] = held[w][i + 1]
      /\ \A v \in Workers : v # w => held'[v] = held[v]
  <2>1. held[w] \in Seq(Requests)
    BY DEF IInv, TypeOK
  <2>2. held'[w] = Tail(held[w]) /\ \A v \in Workers : v # w => held'[v] = held[v]
    BY <1>1 DEF IInv, TypeOK
  <2>3. held[w] # <<>>
    BY <1>1
  <2>4. /\ DOMAIN held[w] = 1..Len(held[w]) /\ Len(held[w]) \in Nat /\ Len(held[w]) > 0
        /\ DOMAIN Tail(held[w]) = 1..(Len(held[w]) - 1)
        /\ \A i \in 1..(Len(held[w]) - 1) : Tail(held[w])[i] = held[w][i + 1]
    BY <2>1, <2>3, TailFacts
  <2>5. QED
    BY <2>2, <2>4, Zenon
<1>3. 1 \in DOMAIN held[w]
  BY <1>2
<1>4. \A v \in Workers : \A i \in DOMAIN held[v] : KeyOf[held[v][i]] = k => v = w /\ i = 1
  BY <1>1, <1>3 DEF IInv, KeyExclusive
<1>5. ASSUME NEW v \in Workers, NEW i \in DOMAIN held'[v]
      PROVE  \/ v # w /\ i \in DOMAIN held[v] /\ held'[v][i] = held[v][i]
             \/ /\ v = w /\ i \in Nat /\ i + 1 \in DOMAIN held[v] /\ i + 1 # 1
                /\ held'[v][i] = held[v][i + 1]
  <2>1. CASE v # w
    BY <1>2, <2>1
  <2>2. CASE v = w
    <3>1. i \in 1..(Len(held[w]) - 1)
      BY <1>2, <2>2
    <3>2. i \in Nat /\ i + 1 \in 1..Len(held[w]) /\ i + 1 # 1
      BY <1>2, <3>1
    <3>3. held'[w][i] = held[w][i + 1]
      BY <1>2, <3>1
    <3>4. QED
      BY <1>2, <2>2, <3>2, <3>3, Zenon
  <2>3. QED
    BY <2>1, <2>2
<1>6. KeyExclusive'
  <2> SUFFICES ASSUME NEW u \in Workers, NEW v \in Workers,
                      NEW i \in DOMAIN held'[u], NEW j \in DOMAIN held'[v],
                      KeyOf[held'[u][i]] = KeyOf[held'[v][j]]
               PROVE  u = v /\ i = j
    BY DEF KeyExclusive
  <2>1. PICK p \in DOMAIN held[u] : held'[u][i] = held[u][p] /\ (IF u = w THEN p = i + 1 /\ i \in Nat ELSE p = i)
    BY <1>5
  <2>2. PICK q \in DOMAIN held[v] : held'[v][j] = held[v][q] /\ (IF v = w THEN q = j + 1 /\ j \in Nat ELSE q = j)
    BY <1>5
  <2>3. u = v /\ p = q
    BY <2>1, <2>2 DEF IInv, KeyExclusive
  <2>4. QED
    BY <2>1, <2>2, <2>3
<1>7. \A v \in Workers : \A i \in DOMAIN held'[v] : KeyOf[held'[v][i]] # k
  BY <1>4, <1>5
<1>8. WorkingIsHeld'
  <2>1. ASSUME NEW h \in Keys, h # k
        PROVE  WorkingIsHeld!(h)'
    <3>1. working'[h] = working[h]
      BY <1>1, <2>1 DEF IInv, TypeOK
    <3>2. ASSUME NEW v \in Workers, NEW i \in DOMAIN held[v], KeyOf[held[v][i]] = h
          PROVE  \E j \in DOMAIN held'[v] : KeyOf[held'[v][j]] = h
      <4>1. CASE v # w
        BY <1>2, <3>2, <4>1
      <4>2. CASE v = w
        <5>1. i # 1
          BY <1>1, <2>1, <3>2, <4>2
        <5>2. i - 1 \in DOMAIN held'[w] /\ held'[w][i - 1] = held[w][i]
          BY <1>2, <4>2, <5>1
        <5>3. QED
          BY <3>2, <4>2, <5>2
      <4>3. QED
        BY <4>1, <4>2
    <3>3. ASSUME NEW v \in Workers, NEW i \in DOMAIN held'[v], KeyOf[held'[v][i]] = h
          PROVE  \E j \in DOMAIN held[v] : KeyOf[held[v][j]] = h
      BY <1>5, <3>3
    <3>4. QED
      BY <3>1, <3>2, <3>3 DEF IInv, WorkingIsHeld
  <2>2. WorkingIsHeld!(k)'
    <3>1. working'[k] = FALSE
      BY <1>1 DEF IInv, TypeOK
    <3>2. QED
      BY <1>7, <3>1
  <2>3. QED
    BY <2>1, <2>2 DEF WorkingIsHeld
<1>9. TableCovers'
  <2>1. ASSUME NEW h \in Keys, h # k PROVE TableCovers!(h)'
    BY <1>1, <2>1 DEF IInv, TypeOK, TableCovers
  <2>2. TableCovers!(k)'
    BY <1>1 DEF IInv, TypeOK
  <2>3. QED
    BY <2>1, <2>2 DEF TableCovers
<1>10. OnePlace'
  <2> SUFFICES ASSUME NEW h \in Keys PROVE (OwnKey(h) /\ OnceInLine(h) /\ NotHeld(h))'
    BY DEF OnePlace
  <2>1. OwnKey(h) /\ OnceInLine(h) /\ NotHeld(h) /\ waiting' = waiting
    BY <1>1 DEF IInv, OnePlace
  <2>2. OwnKey(h)' /\ OnceInLine(h)'
    BY <2>1 DEF OwnKey, OnceInLine
  <2>3. NotHeld(h)'
    BY <1>5, <2>1 DEF NotHeld
  <2>4. QED
    BY <2>2, <2>3
<1>11. ReadyExact'
  <2>1. working[k] = TRUE
    BY <1>1, <1>3 DEF IInv, WorkingIsHeld, TypeOK
  <2>2. k \notin Elements(ready) /\ ready \in Seq(Keys)
    BY <2>1 DEF IInv, ReadyExact, CanServe, TypeOK
  <2>3. \A h \in Keys : h # k => (CanServe(h)' <=> CanServe(h))
    BY <1>1 DEF CanServe, IInv, TypeOK
  <2>4. CASE waiting[k] = <<>>
    <3>1. ~CanServe(k)'
      BY <1>1, <2>4 DEF CanServe
    <3>2. ready' = ready
      BY <1>1, <2>4
    <3>3. QED
      BY <2>2, <2>3, <3>1, <3>2 DEF IInv, ReadyExact, Elements
  <2>5. CASE waiting[k] # <<>>
    <3>1. CanServe(k)'
      BY <1>1, <2>5 DEF CanServe, IInv, TypeOK
    <3>2. /\ ready' = Append(ready, k)
          /\ Elements(ready') = Elements(ready) \union {k}
          /\ Len(ready') = Len(ready) + 1
          /\ \A i \in 1..Len(ready) : ready'[i] = ready[i]
          /\ ready'[Len(ready) + 1] = k
      BY <1>1, <2>2, <2>5, AppendFacts
    <3>3. /\ DOMAIN ready = 1..Len(ready) /\ Len(ready) \in Nat
          /\ DOMAIN ready' = 1..(Len(ready) + 1)
      BY <2>2, <3>2
    <3>4. \A i \in 1..Len(ready) : ready[i] # k
      BY <2>2, <3>3 DEF Elements
    <3>5. \A i, j \in DOMAIN ready' : ready'[i] = ready'[j] => i = j
      BY <3>2, <3>3, <3>4 DEF ReadyExact, IInv
    <3>6. QED
      BY <2>3, <3>1, <3>2, <3>5 DEF ReadyExact, IInv
  <2>6. QED
    BY <2>4, <2>5
<1>12. QED
  BY <1>6, <1>8, <1>9, <1>10, <1>11 DEF IInv

LEMMA TakeAllPreserves ==
  ASSUME IInv, TypeOK', TakeAll
  PROVE  IInv'
<1>1. /\ waiting' = [k \in Keys |-> <<>>] /\ ready' = <<>>
      /\ table' = table /\ working' = working /\ held' = held
  BY DEF TakeAll
<1>2. KeyExclusive' /\ WorkingIsHeld'
  BY <1>1 DEF IInv, KeyExclusive, WorkingIsHeld
<1>3. TableCovers'
  BY <1>1 DEF IInv, TableCovers
<1>4. OnePlace'
  BY <1>1 DEF OnePlace, OwnKey, OnceInLine, NotHeld
<1>5. ReadyExact'
  BY <1>1 DEF ReadyExact, CanServe, Elements
<1>6. QED
  BY <1>2, <1>3, <1>4, <1>5 DEF IInv

LEMMA Inductive == IInv /\ [Next]_vars => IInv'
<1> SUFFICES ASSUME IInv, [Next]_vars PROVE IInv'
  OBVIOUS
<1>1. TypeOK'
  BY TypeInductive DEF IInv
<1>2. ASSUME NEW r \in Requests, Push(r) PROVE IInv'
  BY <1>1, <1>2, PushPreserves
<1>3. ASSUME NEW w \in Workers, Take(w) PROVE IInv'
  BY <1>1, <1>3, TakePreserves
<1>4. ASSUME NEW w \in Workers, TakeNothing(w) PROVE IInv'
  BY <1>1, <1>4, TakeNothingPreserves
<1>5. ASSUME NEW w \in Workers, Finish(w) PROVE IInv'
  BY <1>1, <1>5, FinishPreserves
<1>6. ASSUME TakeAll PROVE IInv'
  BY <1>1, <1>6, TakeAllPreserves
<1>7. CASE UNCHANGED vars
  <2>1. UNCHANGED <<table, waiting, working, ready, held>>
    BY <1>7 DEF vars
  <2>2. KeyExclusive' /\ ReadyExact'
    BY <2>1 DEF IInv, KeyExclusive, ReadyExact, CanServe, Elements
  <2>3. WorkingIsHeld' /\ TableCovers' /\ OnePlace'
    BY <2>1 DEF IInv, WorkingIsHeld, TableCovers, OnePlace, OwnKey, OnceInLine, NotHeld
  <2>4. QED
    BY <1>1, <2>2, <2>3 DEF IInv
<1>8. QED
  BY <1>2, <1>3, <1>4, <1>5, <1>6, <1>7 DEF Next, Worker

LEMMA InitIInv == Init => IInv
<1> SUFFICES ASSUME Init PROVE IInv
  OBVIOUS
<1> USE DispatcherAssumption
<1>1. TypeOK
  BY DEF Init, TypeOK
<1>2. KeyExclusive /\ WorkingIsHeld /\ TableCovers
  BY DEF Init, KeyExclusive, WorkingIsHeld, TableCovers
<1>3. ReadyExact
  BY DEF Init, ReadyExact, CanServe, Elements
<1>4. OnePlace
  BY DEF Init, OnePlace, OwnKey, OnceInLine, NotHeld
<1>5. QED
  BY <1>1, <1>2, <1>3, <1>4 DEF IInv

(* The invariant that the others follow from: types, exclusive keys, an    *)
(* exact ready list, marks that agree with the workers, a table that has   *)
(* every key in use, and requests that are in one place.                   *)
THEOREM Invariance == Spec => []IInv
<1>1. QED
  BY InitIInv, Inductive, PTL DEF Spec

(* RequestDispatcher: every variable keeps its type.                       *)
THEOREM TypeCorrect == Spec => []TypeOK
<1>1. IInv => TypeOK
  BY DEF IInv
<1>2. QED
  BY <1>1, Invariance, PTL

(* RequestDispatcher::take never hands a worker a request of a key that    *)
(* some worker is still working on.                                        *)
THEOREM NoTwoOfOneKey == Spec => []KeyExclusive
<1>1. IInv => KeyExclusive
  BY DEF IInv
<1>2. QED
  BY <1>1, Invariance, PTL

(* ready_ is exact after every push, take, finish and take_all.            *)
THEOREM ReadyListExact == Spec => []ReadyExact
<1>1. IInv => ReadyExact
  BY DEF IInv
<1>2. QED
  BY <1>1, Invariance, PTL

-----------------------------------------------------------------------------
(* The count. The requests in use are those that wait and those in hand;   *)
(* each operation changes that set by what it adds to or takes from depth_.*)
Used == {r \in Requests : InUse(r)}

LEMMA UsedFinite ==
  /\ IsFiniteSet(Used) /\ Cardinality(Used) \in Nat
  /\ \A x \in Used : Cardinality(Used) > 0
<1>1. IsFiniteSet(Used)
  BY DispatcherAssumption, FS_Subset DEF Used
<1>2. Cardinality(Used) \in Nat
  BY <1>1, FS_CardinalityType
<1>3. \A x \in Used : Cardinality(Used) # 0
  BY <1>1, FS_EmptySet
<1>4. QED
  BY <1>1, <1>2, <1>3

LEMMA DepthInductive == IInv /\ DepthExact /\ [Next]_vars => DepthExact'
<1> SUFFICES ASSUME IInv, DepthExact, [Next]_vars PROVE DepthExact'
  OBVIOUS
<1> USE DispatcherAssumption
<1>0. depth = Cardinality(Used) /\ depth <= Cap /\ depth \in Nat
  BY DEF DepthExact, Used, IInv, TypeOK
<1>1. ASSUME NEW r \in Requests, Push(r) PROVE DepthExact'
  <2>1. /\ waiting' = [waiting EXCEPT ![KeyOf[r]] = Append(waiting[KeyOf[r]], r)]
        /\ held' = held /\ ~InUse(r) /\ depth' = depth + 1 /\ depth < Cap
    BY <1>1 DEF Push, HasRoom
  <2>2. KeyOf[r] \in Keys /\ waiting[KeyOf[r]] \in Seq(Requests)
    BY DEF IInv, TypeOK
  <2>3. Elements(waiting'[KeyOf[r]]) = Elements(waiting[KeyOf[r]]) \union {r}
    <3>1. waiting'[KeyOf[r]] = Append(waiting[KeyOf[r]], r)
      BY <2>1, <2>2 DEF IInv, TypeOK
    <3>2. QED
      BY <2>2, <3>1, AppendFacts
  <2>4. \A q \in Requests : KeyOf[q] # KeyOf[r] => waiting'[KeyOf[q]] = waiting[KeyOf[q]]
    BY <2>1 DEF IInv, TypeOK
  <2>5. ASSUME NEW q \in Requests PROVE InUse(q)' <=> InUse(q) \/ q = r
    <3>1. CASE KeyOf[q] = KeyOf[r]
      BY <2>1, <2>3, <3>1 DEF InUse
    <3>2. CASE KeyOf[q] # KeyOf[r]
      BY <2>1, <2>4, <3>2 DEF InUse
    <3>3. QED
      BY <3>1, <3>2
  <2>6. Used' = Used \union {r} /\ r \notin Used
    BY <2>1, <2>5 DEF Used
  <2>7. Cardinality(Used') = Cardinality(Used) + 1
    BY <2>6, UsedFinite, FS_AddElement
  <2>8. QED
    BY <1>0, <2>1, <2>7 DEF DepthExact, Used
<1>2. ASSUME NEW w \in Workers, Take(w) PROVE DepthExact'
  <2>1. PICK k \in Keys, r \in Requests :
          /\ CanServe(k) /\ r = Head(waiting[k])
          /\ waiting' = [waiting EXCEPT ![k] = Tail(waiting[k])]
          /\ held' = [held EXCEPT ![w] = Append(held[w], r)]
    BY <1>2, TakeStep
  <2>2. waiting[k] \in Seq(Requests) /\ waiting[k] # <<>> /\ held[w] \in Seq(Requests)
    BY <2>1 DEF IInv, TypeOK, CanServe
  <2>3. /\ Elements(held'[w]) = Elements(held[w]) \union {r}
        /\ \A v \in Workers : v # w => held'[v] = held[v]
    <3>1. held'[w] = Append(held[w], r) /\ \A v \in Workers : v # w => held'[v] = held[v]
      BY <2>1 DEF IInv, TypeOK
    <3>2. QED
      BY <2>2, <3>1, AppendFacts
  <2>4. /\ Elements(waiting[k]) = Elements(waiting'[k]) \union {r}
        /\ \A h \in Keys : h # k => waiting'[h] = waiting[h]
    <3>1. waiting'[k] = Tail(waiting[k]) /\ \A h \in Keys : h # k => waiting'[h] = waiting[h]
      BY <2>1 DEF IInv, TypeOK
    <3>2. Elements(waiting[k]) = Elements(Tail(waiting[k])) \union {Head(waiting[k])}
      BY <2>2, ElementsOfTail
    <3>3. QED
      BY <2>1, <3>1, <3>2
  <2>5. KeyOf[r] = k
    <3>1. OwnKey(k) /\ r = waiting[k][1] /\ 1 \in DOMAIN waiting[k]
      BY <2>1, <2>2, TailFacts DEF IInv, OnePlace
    <3>2. QED
      BY <3>1 DEF OwnKey
  <2>6. ASSUME NEW q \in Requests PROVE InUse(q)' <=> InUse(q)
    <3>1. KeyOf[q] \in Keys
      OBVIOUS
    <3>2. (\E v \in Workers : q \in Elements(held'[v]))
             <=> (q = r \/ \E v \in Workers : q \in Elements(held[v]))
      BY <2>3
    <3>3. CASE KeyOf[q] = k
      BY <2>4, <2>5, <3>2, <3>3 DEF InUse
    <3>4. CASE KeyOf[q] # k
      BY <2>4, <2>5, <3>1, <3>2, <3>4 DEF InUse
    <3>5. QED
      BY <3>3, <3>4
  <2>7. Used' = Used /\ depth' = depth
    BY <1>2, <2>6 DEF Used, Take
  <2>8. QED
    BY <1>0, <2>7 DEF DepthExact, Used
<1>3. ASSUME NEW w \in Workers, TakeNothing(w) PROVE DepthExact'
  <2>1. waiting' = waiting /\ held' = held /\ depth' = depth
    BY <1>3 DEF TakeNothing
  <2>2. QED
    BY <2>1 DEF DepthExact, InUse
<1>4. ASSUME NEW w \in Workers, Finish(w) PROVE DepthExact'
  <2>1. PICK k \in Keys :
          /\ held[w] # <<>> /\ k = KeyOf[held[w][1]]
          /\ depth' = IF depth > 0 THEN depth - 1 ELSE 0
          /\ held' = [held EXCEPT ![w] = Tail(held[w])]
          /\ waiting' = waiting
    BY <1>4, FinishStep
  <2>2. PICK r \in Requests : r = Head(held[w])
    BY <2>1, TailFacts DEF IInv, TypeOK
  <2>3. /\ held[w] \in Seq(Requests) /\ 1 \in DOMAIN held[w] /\ r = held[w][1]
        /\ Elements(held[w]) = Elements(Tail(held[w])) \union {r}
    BY <2>1, <2>2, TailFacts, ElementsOfTail DEF IInv, TypeOK
  <2>4. held'[w] = Tail(held[w]) /\ \A v \in Workers : v # w => held'[v] = held[v]
    BY <2>1 DEF IInv, TypeOK
  <2>5. \A v \in Workers : r \notin Elements(held'[v])
    <3>1. ASSUME NEW v \in Workers, NEW i \in DOMAIN held'[v], held'[v][i] = r PROVE FALSE
      <4>1. CASE v # w
        BY <2>3, <2>4, <3>1, <4>1 DEF IInv, KeyExclusive
      <4>2. CASE v = w
        <5>1. i \in Nat /\ i + 1 \in DOMAIN held[w] /\ i + 1 # 1 /\ held[w][i + 1] = r
          <6>1. /\ DOMAIN Tail(held[w]) = 1..(Len(held[w]) - 1)
                /\ DOMAIN held[w] = 1..Len(held[w]) /\ Len(held[w]) \in Nat
                /\ \A j \in 1..(Len(held[w]) - 1) : Tail(held[w])[j] = held[w][j + 1]
            BY <2>1, <2>3, TailFacts
          <6>2. i \in DOMAIN Tail(held[w]) /\ Tail(held[w])[i] = r
            BY <2>4, <3>1, <4>2
          <6>3. QED
            BY <6>1, <6>2
        <5>2. QED
          BY <2>3, <5>1 DEF IInv, KeyExclusive
      <4>3. QED
        BY <4>1, <4>2
    <3>2. QED
      BY <3>1 DEF Elements
  <2>6. r \notin Elements(waiting[KeyOf[r]])
    <3>1. KeyOf[r] \in Keys
      OBVIOUS
    <3>2. NotHeld(KeyOf[r])
      BY <3>1 DEF IInv, OnePlace
    <3>3. QED
      BY <2>3, <3>2, SMTT(60) DEF NotHeld, Elements
  <2>7. ASSUME NEW q \in Requests PROVE InUse(q)' <=> InUse(q) /\ q # r
    <3>1. CASE q = r
      BY <2>1, <2>5, <2>6, <3>1 DEF InUse
    <3>2. CASE q # r
      <4>1. \A v \in Workers : q \in Elements(held'[v]) <=> q \in Elements(held[v])
        BY <2>3, <2>4, <3>2
      <4>2. QED
        BY <2>1, <3>2, <4>1 DEF InUse
    <3>3. QED
      BY <3>1, <3>2
  <2>8. r \in Used /\ Used' = Used \ {r}
    <3>1. InUse(r)
      BY <2>3 DEF InUse, Elements
    <3>2. QED
      BY <2>7, <3>1 DEF Used
  <2>9. Cardinality(Used') = Cardinality(Used) - 1 /\ Cardinality(Used) > 0
    BY <2>8, UsedFinite, FS_RemoveElement
  <2>10. depth' = depth - 1
    BY <1>0, <2>1, <2>9
  <2>11. QED
    BY <1>0, <2>9, <2>10 DEF DepthExact, Used
<1>5. ASSUME TakeAll PROVE DepthExact'
  <2>1. /\ waiting' = [k \in Keys |-> <<>>] /\ held' = held
        /\ depth' = IF depth > Cardinality(WaitingSet)
                    THEN depth - Cardinality(WaitingSet) ELSE 0
    BY <1>5 DEF TakeAll
  <2>2. \A r \in Requests : r \in WaitingSet <=> r \in Elements(waiting[KeyOf[r]])
    <3>1. ASSUME NEW k \in Keys, NEW r \in Elements(waiting[k]) PROVE KeyOf[r] = k
      BY DEF IInv, OnePlace, OwnKey, Elements
    <3>2. QED
      BY <3>1 DEF WaitingSet
  <2>3. \A r \in Requests :
          r \in WaitingSet => ~ \E w \in Workers : r \in Elements(held[w])
    <3>1. ASSUME NEW r \in Requests, r \in WaitingSet, NEW w \in Workers PROVE r \notin Elements(held[w])
      <4>1. KeyOf[r] \in Keys /\ r \in Elements(waiting[KeyOf[r]])
        BY <2>2, <3>1
      <4>2. NotHeld(KeyOf[r])
        BY <4>1 DEF IInv, OnePlace
      <4>3. QED
        BY <4>1, <4>2 DEF NotHeld, Elements
    <3>2. QED
      BY <3>1
  <2>4. ASSUME NEW r \in Requests PROVE InUse(r)' <=> InUse(r) /\ r \notin WaitingSet
    <3>1. KeyOf[r] \in Keys
      OBVIOUS
    <3>2. Elements(waiting'[KeyOf[r]]) = {}
      BY <2>1, <3>1 DEF Elements
    <3>3. QED
      BY <2>1, <2>2, <2>3, <3>2 DEF InUse
  <2>5. WaitingSet \in SUBSET Used
    <3>1. WaitingSet \in SUBSET Requests
      BY WaitingFinite DEF IInv
    <3>2. QED
      BY <2>2, <3>1 DEF Used, InUse
  <2>6. Used' = Used \ WaitingSet /\ Used \cap WaitingSet = WaitingSet
    BY <2>4, <2>5 DEF Used
  <2>7. Cardinality(Used') = Cardinality(Used) - Cardinality(WaitingSet)
    BY <2>6, UsedFinite, FS_Difference
  <2>8. Cardinality(WaitingSet) \in Nat /\ Cardinality(WaitingSet) <= Cardinality(Used)
    BY <2>5, UsedFinite, WaitingFinite, FS_Subset DEF IInv
  <2>9. depth' = Cardinality(Used') /\ depth' <= Cap
    BY <1>0, <2>1, <2>7, <2>8
  <2>10. QED
    BY <2>9 DEF DepthExact, Used
<1>6. CASE UNCHANGED vars
  <2>1. waiting' = waiting /\ held' = held /\ depth' = depth
    BY <1>6 DEF vars
  <2>2. QED
    BY <2>1 DEF DepthExact, InUse
<1>7. QED
  BY <1>1, <1>2, <1>3, <1>4, <1>5, <1>6 DEF Next, Worker

(* depth() is exactly what was accepted and not answered, and the guards   *)
(* "if (depth_ > 0)" never hide an underflow.                              *)
THEOREM DepthCorrect == Spec => []DepthExact
<1>1. Init => DepthExact
  <2> SUFFICES ASSUME Init PROVE DepthExact
    OBVIOUS
  <2>1. \A r \in Requests : ~InUse(r)
    BY DispatcherAssumption DEF Init, InUse, Elements
  <2>2. {r \in Requests : InUse(r)} = {}
    BY <2>1
  <2>3. Cardinality({r \in Requests : InUse(r)}) = 0
    BY <2>2, FS_EmptySet, Zenon
  <2>4. depth = 0 /\ 0 <= Cap
    BY DispatcherAssumption DEF Init
  <2>5. QED
    BY <2>3, <2>4 DEF DepthExact
<1>2. QED
  BY <1>1, DepthInductive, Invariance, PTL DEF Spec

-----------------------------------------------------------------------------
(* Refinement of KeySerial. The mapped line of a key is what waits for it, *)
(* behind the request that is in hand.                                     *)
LEMMA FrontFacts ==
  ASSUME NEW S, NEW q \in Seq(S), NEW r \in S
  PROVE  /\ <<r>> \o q \in Seq(S) /\ <<r>> \o q # <<>>
         /\ Head(<<r>> \o q) = r /\ Tail(<<r>> \o q) = q
         /\ \A e \in S : <<r>> \o Append(q, e) = Append(<<r>> \o q, e)
         /\ <<r>> \o <<>> = <<r>>
<1>1. /\ <<r>> \in Seq(S) /\ Len(<<r>>) = 1 /\ <<r>>[1] = r
  OBVIOUS
<1>2. /\ <<r>> \o q \in Seq(S) /\ Len(<<r>> \o q) = Len(q) + 1 /\ Len(q) \in Nat
      /\ \A i \in 1..Len(q) + 1 : (<<r>> \o q)[i] = IF i <= 1 THEN r ELSE q[i - 1]
  BY <1>1, ConcatProperties, LenProperties
<1>3. <<r>> \o q # <<>>
  BY <1>2, EmptySeq
<1>4. Head(<<r>> \o q) = r
  BY <1>2, <1>3, TailFacts
<1>5. Tail(<<r>> \o q) = q
  <2>1. /\ Tail(<<r>> \o q) \in Seq(S) /\ Len(Tail(<<r>> \o q)) = Len(q)
        /\ \A i \in 1..Len(q) : Tail(<<r>> \o q)[i] = (<<r>> \o q)[i + 1]
    BY <1>2, <1>3, HeadTailProperties
  <2>2. \A i \in 1..Len(q) : (<<r>> \o q)[i + 1] = q[i]
    BY <1>2
  <2>3. QED
    BY <2>1, <2>2, SeqEqual
<1>6. ASSUME NEW e \in S PROVE <<r>> \o Append(q, e) = Append(<<r>> \o q, e)
  <2>1. <<e>> \in Seq(S)
    OBVIOUS
  <2>2. Append(q, e) = q \o <<e>> /\ Append(<<r>> \o q, e) = (<<r>> \o q) \o <<e>>
    BY <1>2, AppendIsConcat
  <2>3. QED
    BY <1>1, <2>1, <2>2, ConcatAssociative
<1>7. <<r>> \o <<>> = <<r>>
  BY <1>1, ConcatEmptySeq
<1>8. QED
  BY <1>2, <1>3, <1>4, <1>5, <1>6, <1>7

LEMMA FrontOfTail ==
  ASSUME NEW S, NEW q \in Seq(S), q # <<>>
  PROVE  <<Head(q)>> \o Tail(q) = q
<1>1. /\ Len(q) \in Nat \ {0} /\ Head(q) \in S /\ Head(q) = q[1] /\ Tail(q) \in Seq(S)
      /\ Len(Tail(q)) = Len(q) - 1 /\ \A i \in 1..Len(q) - 1 : Tail(q)[i] = q[i + 1]
  BY TailFacts, EmptySeq
<1>2. <<Head(q)>> \in Seq(S) /\ Len(<<Head(q)>>) = 1 /\ <<Head(q)>>[1] = Head(q)
  BY <1>1
<1>3. /\ <<Head(q)>> \o Tail(q) \in Seq(S) /\ Len(<<Head(q)>> \o Tail(q)) = Len(q)
      /\ \A i \in 1..Len(q) : (<<Head(q)>> \o Tail(q))[i] = IF i <= 1 THEN Head(q) ELSE Tail(q)[i - 1]
  BY <1>1, <1>2, ConcatProperties
<1>4. \A i \in 1..Len(q) : (<<Head(q)>> \o Tail(q))[i] = q[i]
  BY <1>1, <1>3
<1>5. QED
  BY <1>3, <1>4, SeqEqual

(* The request of k a worker has in hand is the only one.                  *)
Served(k) == CHOOSE r \in HeldOf(k) : TRUE
Line == [k \in Keys |-> IF working[k] THEN <<Served(k)>> \o waiting[k] ELSE waiting[k]]

LEMMA ServedIs ==
  ASSUME TypeOK, KeyExclusive, NEW w \in Workers, NEW i \in DOMAIN held[w]
  PROVE  Served(KeyOf[held[w][i]]) = held[w][i]
<1>1. \A v \in Workers : \A j \in DOMAIN held[v] : held[v][j] \in Requests
  BY DEF TypeOK
<1>2. held[w][i] \in HeldOf(KeyOf[held[w][i]])
  BY <1>1 DEF HeldOf, Elements
<1>3. \A r \in HeldOf(KeyOf[held[w][i]]) : r = held[w][i]
  BY DEF HeldOf, Elements, KeyExclusive
<1>4. HeldOf(KeyOf[held[w][i]]) = {held[w][i]}
  BY <1>2, <1>3
<1>5. QED
  BY <1>4 DEF Served

LEMMA ServedType ==
  ASSUME IInv, NEW k \in Keys, working[k]
  PROVE  Served(k) \in Requests
<1>0. PICK w \in Workers : \E i \in DOMAIN held[w] : KeyOf[held[w][i]] = k
  BY DEF IInv, WorkingIsHeld
<1>1. PICK i \in DOMAIN held[w] : KeyOf[held[w][i]] = k
  BY <1>0
<1>2. held[w][i] \in Requests
  BY DEF IInv, TypeOK
<1>3. QED
  BY <1>1, <1>2, ServedIs DEF IInv

(* What a worker has in hand for a key stays the served one while the      *)
(* worker keeps it.                                                        *)
LEMMA ServedStays ==
  ASSUME IInv, IInv', NEW k \in Keys, working[k],
         \A w \in Workers : \A i \in DOMAIN held[w] : KeyOf[held[w][i]] = k =>
            \E j \in DOMAIN held'[w] : held'[w][j] = held[w][i]
  PROVE  Served(k)' = Served(k)
<1>0. PICK w \in Workers : \E i \in DOMAIN held[w] : KeyOf[held[w][i]] = k
  BY DEF IInv, WorkingIsHeld
<1>1. PICK i \in DOMAIN held[w] : KeyOf[held[w][i]] = k
  BY <1>0
<1>2. PICK j \in DOMAIN held'[w] : held'[w][j] = held[w][i]
  BY <1>1
<1>3. Served(k) = held[w][i]
  BY <1>1, ServedIs DEF IInv
<1>4. /\ TypeOK' /\ KeyExclusive'
  BY DEF IInv
<1>5. \A v \in Workers : \A l \in DOMAIN held'[v] : held'[v][l] \in Requests
  BY <1>4 DEF TypeOK
<1>6. held'[w][j] \in HeldOf(k)'
  BY <1>1, <1>2, <1>5 DEF HeldOf, Elements
<1>7. \A r \in HeldOf(k)' : r = held'[w][j]
  BY <1>1, <1>2, <1>4 DEF HeldOf, Elements, KeyExclusive
<1>8. HeldOf(k)' = {held'[w][j]}
  BY <1>6, <1>7
<1>9. Served(k)' = held'[w][j]
  BY <1>8 DEF Served
<1>10. QED
  BY <1>2, <1>3, <1>9

-----------------------------------------------------------------------------
LEMMA PushSubmits ==
  ASSUME IInv, IInv', NEW r \in Requests, Push(r)
  PROVE  Serial!Submit(r)
<1> USE DispatcherAssumption
<1>1. KeyOf[r] \in Keys
  OBVIOUS
<1>2. PICK k \in Keys : k = KeyOf[r]
  BY <1>1
<1>3. /\ waiting' = [waiting EXCEPT ![k] = Append(waiting[k], r)] /\ UNCHANGED <<working, held>>
      /\ waiting \in [Keys -> Seq(Requests)] /\ working \in [Keys -> BOOLEAN]
  BY <1>2 DEF Push, IInv, TypeOK
<1>4. \A l \in Keys : Served(l)' = Served(l)
  BY <1>3 DEF Served, HeldOf, Elements
<1>5. Line' = [Line EXCEPT ![k] = Append(Line[k], r)]
  <2>1. ASSUME NEW l \in Keys, l # k PROVE Line'[l] = Line[l]
    BY <1>3, <1>4, <2>1 DEF Line
  <2>2. Line'[k] = Append(Line[k], r)
    <3>1. waiting'[k] = Append(waiting[k], r) /\ waiting[k] \in Seq(Requests) /\ working'[k] = working[k]
      BY <1>3
    <3>2. CASE working[k]
      <4>1. Served(k) \in Requests
        BY <3>2, ServedType
      <4>2. <<Served(k)>> \o Append(waiting[k], r) = Append(<<Served(k)>> \o waiting[k], r)
        BY <3>1, <4>1, FrontFacts
      <4>3. QED
        BY <1>4, <3>1, <3>2, <4>2 DEF Line
    <3>3. CASE ~working[k]
      BY <3>1, <3>3 DEF Line
    <3>4. QED
      BY <3>2, <3>3
  <2>3. DOMAIN Line = Keys /\ Line = [l \in Keys |-> Line[l]] /\ Line' = [l \in Keys |-> Line'[l]]
    BY DEF Line
  <2>4. QED
    BY <2>1, <2>2, <2>3
<1>6. QED
  BY <1>2, <1>3, <1>5 DEF Serial!Submit, Line, Served

LEMMA TakeStarts ==
  ASSUME IInv, IInv', NEW w \in Workers, Take(w)
  PROVE  \E k \in Keys : Serial!Start(k)
<1> USE DispatcherAssumption
<1>1. PICK k \in Keys, r \in Requests :
      /\ ready # <<>> /\ k = ready[1] /\ CanServe(k) /\ r = Head(waiting[k])
      /\ ready' = Tail(ready)
      /\ working' = [working EXCEPT ![k] = TRUE]
      /\ waiting' = [waiting EXCEPT ![k] = Tail(waiting[k])]
      /\ held' = [held EXCEPT ![w] = Append(held[w], r)]
      /\ table' = table
  BY TakeStep
<1>2. /\ waiting \in [Keys -> Seq(Requests)] /\ working \in [Keys -> BOOLEAN]
      /\ held \in [Workers -> Seq(Requests)]
  BY DEF IInv, TypeOK
<1>3. ~working[k] /\ waiting[k] # <<>> /\ waiting[k] \in Seq(Requests)
  BY <1>1, <1>2 DEF CanServe
<1>4. /\ held'[w] = Append(held[w], r) /\ \A v \in Workers : v # w => held'[v] = held[v]
  BY <1>1, <1>2
<1>5. /\ DOMAIN held[w] = 1..Len(held[w]) /\ Len(held[w]) \in Nat
      /\ DOMAIN held'[w] = 1..Len(held[w]) + 1 /\ held'[w][Len(held[w]) + 1] = r
      /\ \A i \in 1..Len(held[w]) : held'[w][i] = held[w][i]
  <2>1. held[w] \in Seq(Requests)
    BY <1>2
  <2>2. QED
    BY <1>4, <2>1, AppendProperties, LenProperties
<1>6. Served(k)' = r
  <2>1. KeyOf[r] = k
    <3>1. r = waiting[k][1] /\ 1 \in DOMAIN waiting[k]
      BY <1>1, <1>3, TailFacts
    <3>2. QED
      BY <3>1 DEF IInv, OnePlace, OwnKey
  <2>2. r \in HeldOf(k)'
    BY <1>4, <1>5, <2>1 DEF HeldOf, Elements
  <2>3. ASSUME NEW s \in HeldOf(k)' PROVE s = r
    <3>0. PICK v \in Workers : \E i \in DOMAIN held'[v] : held'[v][i] = s /\ KeyOf[s] = k
      BY <2>3 DEF HeldOf, Elements
    <3>1. PICK i \in DOMAIN held'[v] : held'[v][i] = s /\ KeyOf[s] = k
      BY <3>0
    <3>2. v = w /\ i = Len(held[w]) + 1
      <4>1. Len(held[w]) + 1 \in DOMAIN held'[w]
        BY <1>5
      <4>2. KeyOf[held'[v][i]] = KeyOf[held'[w][Len(held[w]) + 1]]
        BY <1>5, <2>1, <3>1
      <4>3. QED
        BY <4>1, <4>2 DEF IInv, KeyExclusive
    <3>3. QED
      BY <1>5, <3>1, <3>2
  <2>4. HeldOf(k)' = {r}
    BY <2>2, <2>3
  <2>5. QED
    BY <2>4 DEF Served
<1>7. Line' = Line
  <2>1. ASSUME NEW l \in Keys, l # k PROVE Line'[l] = Line[l]
    <3>1. waiting'[l] = waiting[l] /\ working'[l] = working[l]
      BY <1>1, <1>2, <2>1
    <3>2. CASE working[l]
      <4>1. Served(l)' = Served(l)
        <5>1. \A v \in Workers : \A i \in DOMAIN held[v] :
                 \E j \in DOMAIN held'[v] : held'[v][j] = held[v][i]
          <6>1. ASSUME NEW v \in Workers, NEW i \in DOMAIN held[v]
                PROVE  i \in DOMAIN held'[v] /\ held'[v][i] = held[v][i]
            BY <1>4, <1>5
          <6>2. QED
            BY <6>1
        <5>2. QED
          BY <3>2, <5>1, ServedStays
      <4>2. QED
        BY <3>1, <4>1 DEF Line
    <3>3. CASE ~working[l]
      BY <3>1, <3>3 DEF Line
    <3>4. QED
      BY <3>2, <3>3
  <2>2. Line'[k] = Line[k]
    <3>1. working'[k] /\ waiting'[k] = Tail(waiting[k])
      BY <1>1, <1>2
    <3>2. Line'[k] = <<r>> \o Tail(waiting[k]) /\ Line[k] = waiting[k]
      BY <1>3, <1>6, <3>1 DEF Line
    <3>3. QED
      BY <1>1, <1>3, <3>2, FrontOfTail
  <2>3. Line = [l \in Keys |-> Line[l]] /\ Line' = [l \in Keys |-> Line'[l]]
    BY DEF Line
  <2>4. QED
    BY <2>1, <2>2, <2>3
<1>8. Line[k] # <<>>
  BY <1>3 DEF Line
<1>9. Serial!Start(k)
  BY <1>1, <1>3, <1>7, <1>8 DEF Serial!Start, Line, Served
<1>10. QED
  BY <1>9

LEMMA FinishCompletes ==
  ASSUME IInv, IInv', NEW w \in Workers, Finish(w)
  PROVE  \E k \in Keys : Serial!Complete(k)
<1> USE DispatcherAssumption
<1>1. PICK k \in Keys :
        /\ held[w] # <<>> /\ k = KeyOf[held[w][1]] /\ k \in table
        /\ working' = [working EXCEPT ![k] = FALSE]
        /\ table' = IF waiting[k] = <<>> THEN table \ {k} ELSE table
        /\ depth' = IF depth > 0 THEN depth - 1 ELSE 0
        /\ ready' = IF waiting[k] = <<>> THEN ready ELSE Append(ready, k)
        /\ held' = [held EXCEPT ![w] = Tail(held[w])]
        /\ waiting' = waiting
  BY FinishStep
<1>2. /\ waiting \in [Keys -> Seq(Requests)] /\ working \in [Keys -> BOOLEAN]
      /\ held \in [Workers -> Seq(Requests)] /\ held[w] \in Seq(Requests)
  BY DEF IInv, TypeOK
<1>3. /\ held'[w] = Tail(held[w]) /\ \A v \in Workers : v # w => held'[v] = held[v]
  BY <1>1, <1>2
<1>4. /\ DOMAIN held[w] = 1..Len(held[w]) /\ Len(held[w]) \in Nat /\ Len(held[w]) > 0
      /\ DOMAIN held'[w] = 1..(Len(held[w]) - 1)
      /\ \A i \in 1..(Len(held[w]) - 1) : held'[w][i] = held[w][i + 1]
  BY <1>1, <1>2, <1>3, TailFacts
<1>5. working[k]
  BY <1>1, <1>4 DEF IInv, WorkingIsHeld
<1>6. Line' = [Line EXCEPT ![k] = Tail(Line[k])]
  <2>1. ASSUME NEW l \in Keys, l # k PROVE Line'[l] = Line[l]
    <3>1. waiting'[l] = waiting[l] /\ working'[l] = working[l]
      BY <1>1, <1>2, <2>1
    <3>2. CASE working[l]
      <4>1. Served(l)' = Served(l)
        <5>1. ASSUME NEW v \in Workers, NEW i \in DOMAIN held[v], KeyOf[held[v][i]] = l
              PROVE  \E j \in DOMAIN held'[v] : held'[v][j] = held[v][i]
          <6>1. CASE v # w
            BY <1>3, <6>1
          <6>2. CASE v = w
            <7>1. i # 1
              BY <1>1, <2>1, <5>1, <6>2
            <7>2. i - 1 \in 1..(Len(held[w]) - 1) /\ (i - 1) + 1 = i
              BY <1>4, <6>2, <7>1
            <7>3. held'[w][i - 1] = held[w][i]
              BY <1>4, <7>2
            <7>4. QED
              BY <1>4, <6>2, <7>2, <7>3
          <6>3. QED
            BY <6>1, <6>2
        <5>2. QED
          BY <3>2, <5>1, ServedStays
      <4>2. QED
        BY <3>1, <4>1 DEF Line
    <3>3. CASE ~working[l]
      BY <3>1, <3>3 DEF Line
    <3>4. QED
      BY <3>2, <3>3
  <2>2. Line'[k] = Tail(Line[k])
    <3>1. ~working'[k] /\ waiting'[k] = waiting[k] /\ waiting[k] \in Seq(Requests)
      BY <1>1, <1>2
    <3>2. Served(k) \in Requests
      BY <1>5, ServedType
    <3>3. Tail(<<Served(k)>> \o waiting[k]) = waiting[k]
      BY <3>1, <3>2, FrontFacts
    <3>4. QED
      BY <1>5, <3>1, <3>3 DEF Line
  <2>3. DOMAIN Line = Keys /\ Line = [l \in Keys |-> Line[l]] /\ Line' = [l \in Keys |-> Line'[l]]
    BY DEF Line
  <2>4. QED
    BY <2>1, <2>2, <2>3
<1>7. Serial!Complete(k)
  BY <1>1, <1>5, <1>6 DEF Serial!Complete, Line, Served
<1>8. QED
  BY <1>7

LEMMA TakeAllRecalls ==
  ASSUME IInv, IInv', TakeAll
  PROVE  Serial!Recall
<1>1. waiting' = [k \in Keys |-> <<>>] /\ UNCHANGED <<working, held>>
  BY DEF TakeAll
<1>2. \A k \in Keys : Served(k)' = Served(k)
  BY <1>1 DEF Served, HeldOf, Elements
<1>3. \A k \in Keys : waiting[k] \in Seq(Requests) /\ waiting'[k] = <<>> /\ working'[k] = working[k]
  BY <1>1 DEF IInv, TypeOK
<1>4. ASSUME NEW k \in Keys PROVE Line'[k] = IF working[k] THEN <<Head(Line[k])>> ELSE <<>>
  <2>1. CASE working[k]
    <3>1. Served(k) \in Requests
      BY <2>1, ServedType
    <3>2. Head(<<Served(k)>> \o waiting[k]) = Served(k) /\ <<Served(k)>> \o <<>> = <<Served(k)>>
      BY <1>3, <3>1, FrontFacts
    <3>3. Line[k] = <<Served(k)>> \o waiting[k] /\ Line'[k] = <<Served(k)>> \o <<>>
      BY <1>2, <1>3, <2>1 DEF Line
    <3>4. QED
      BY <2>1, <3>2, <3>3
  <2>2. CASE ~working[k]
    BY <1>3, <2>2 DEF Line
  <2>3. QED
    BY <2>1, <2>2
<1>5. Line' = [k \in Keys |-> IF working[k] THEN <<Head(Line[k])>> ELSE <<>>]
  <2>1. Line' = [k \in Keys |-> Line'[k]]
    BY DEF Line
  <2>2. QED
    BY <1>4, <2>1
<1>6. QED
  BY <1>1, <1>5 DEF Serial!Recall, Line, Served

LEMMA OthersStutter ==
  ASSUME UNCHANGED <<waiting, working, held>>
  PROVE  UNCHANGED Serial!vars
<1>1. \A k \in Keys : Served(k)' = Served(k)
  BY DEF Served, HeldOf, Elements
<1>2. Line' = Line
  BY <1>1 DEF Line
<1>3. QED
  BY <1>2 DEF Serial!vars, Line, Served

(* request_dispatcher.h: push, take, finish and take_all do what is        *)
(* promised. Per session key the requests form a line that is served from  *)
(* its head, one at a time and in the order of push, whatever workers take *)
(* and however they batch; every step of the dispatcher is one such step   *)
(* of KeySerial or changes nothing of it.                                  *)
THEOREM ImplementsKeySerialSteps == Spec => Serial!Init /\ [][Serial!Next]_(Serial!vars)
<1>1. Init => Serial!Init
  BY DEF Init, Serial!Init
<1>2. IInv /\ IInv' /\ [Next]_vars => [Serial!Next]_(Serial!vars)
  <2> SUFFICES ASSUME IInv, IInv', [Next]_vars PROVE [Serial!Next]_(Serial!vars)
    OBVIOUS
  <2>1. ASSUME NEW r \in Requests, Push(r) PROVE Serial!Next
    BY <2>1, PushSubmits DEF Serial!Next
  <2>2. ASSUME NEW w \in Workers, Take(w) PROVE Serial!Next
    BY <2>2, TakeStarts DEF Serial!Next
  <2>3. ASSUME NEW w \in Workers, Finish(w) PROVE Serial!Next
    BY <2>3, FinishCompletes DEF Serial!Next
  <2>4. ASSUME TakeAll PROVE Serial!Next
    BY <2>4, TakeAllRecalls DEF Serial!Next
  <2>5. ASSUME NEW w \in Workers, TakeNothing(w) PROVE UNCHANGED Serial!vars
    BY <2>5, OthersStutter DEF TakeNothing
  <2>6. ASSUME UNCHANGED vars PROVE UNCHANGED Serial!vars
    BY <2>6, OthersStutter DEF vars
  <2>7. QED
    BY <2>1, <2>2, <2>3, <2>4, <2>5, <2>6 DEF Next, Worker
<1>3. QED
  BY <1>1, <1>2, Invariance, PTL DEF Spec
==============================================================================
