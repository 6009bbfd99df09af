------------------------------ MODULE KeySerial ------------------------------
(***************************************************************************)
(* What db::RequestDispatcher promises (db/request_dispatcher.h:5-8): the  *)
(* requests of one session key are served one at a time in the order they  *)
(* came, and no key waits for another one.                                 *)
(***************************************************************************)
EXTENDS Naturals, Sequences

CONSTANTS Keys, Requests, KeyOf

VARIABLES
  line,      \* per key, the requests accepted and not yet finished, in order
  serving    \* per key, whether the first of them is being served

vars == <<line, serving>>

Init ==
  /\ line = [k \in Keys |-> <<>>]
  /\ serving = [k \in Keys |-> FALSE]

Submit(r) ==
  /\ line' = [line EXCEPT ![KeyOf[r]] = Append(@, r)]
  /\ UNCHANGED serving

Start(k) ==
  /\ ~serving[k] /\ line[k] # <<>>
  /\ serving' = [serving EXCEPT ![k] = TRUE]
  /\ UNCHANGED line

Complete(k) ==
  /\ serving[k]
  /\ line' = [line EXCEPT ![k] = Tail(@)]
  /\ serving' = [serving EXCEPT ![k] = FALSE]

(* At shutdown whatever is not being served is handed back.                *)
Recall ==
  /\ line' = [k \in Keys |-> IF serving[k] THEN <<Head(line[k])>> ELSE <<>>]
  /\ UNCHANGED serving

Next ==
  \/ \E r \in Requests : Submit(r)
  \/ \E k \in Keys : Start(k) \/ Complete(k)
  \/ Recall

(* Every key that has requests is served, whatever the other keys do.      *)
Spec == Init /\ [][Next]_vars /\ \A k \in Keys : WF_vars(Start(k)) /\ WF_vars(Complete(k))
=============================================================================
