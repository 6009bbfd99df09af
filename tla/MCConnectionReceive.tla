------------------------ MODULE MCConnectionReceive ------------------------
(***************************************************************************)
(* Instances of ConnectionReceive for TLC.                                 *)
(***************************************************************************)
EXTENDS ConnectionReceive

CONSTANTS c1, c2, game, w1, w2

One(s) == [c \in {c1} |-> s]
Two(s, t) == [c \in {c1, c2} |-> IF c = c1 THEN s ELSE t]

(* With one worker, a connection that is paused again and again and two    *)
(* that compete for the lane; with two workers, a policy that refuses.     *)
MCSetups ==
  {[policy |-> "backpressure", threads |-> {w1}, script |-> One(<<game, game, Unknown, game>>)],
   [policy |-> "backpressure", threads |-> {w1}, script |-> Two(<<game>>, <<game>>)],
   [policy |-> "reject", threads |-> {w1, w2}, script |-> One(<<Unknown, game, Huge>>)]}

(* Two workers, as decide_worker_count always creates by default.          *)
MCTwoWorkers ==
  {[policy |-> "backpressure", threads |-> {w1, w2}, script |-> One(<<game, game>>)]}
=============================================================================
