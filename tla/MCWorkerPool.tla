---------------------------- MODULE MCWorkerPool ----------------------------
(***************************************************************************)
(* An instance of WorkerPool for TLC. A session saves and reads a row of   *)
(* its history and another one saves and counts, on the same shard, so     *)
(* that the Saves of both meet in one transaction under either kind of     *)
(* dispatch.                                                               *)
(***************************************************************************)
EXTENDS WorkerPool

CONSTANTS ka, kb, s1, s2, h1, c1, w1, w2

MCScript == [k \in Keys |-> IF k = ka THEN <<s1, h1>> ELSE <<s2, c1>>]
MCKind == [r \in Requests |->
             CASE r = h1 -> "History" [] r = c1 -> "Counter" [] OTHER -> "Save"]
MCRequestKey == [r \in {c1} |-> "once"]
MCLimit == [r \in {h1} |-> 1]
MCShard == [k \in Keys |-> w1]
=============================================================================
