------------------------------ MODULE MCPolicy ------------------------------
(* Two plans for PolicyLoop: one with its `for:` on the trigger itself, one  *)
(* with it on the second member of an `and`.                                 *)
EXTENDS PolicyLoop

OneRequest == {"request"}
\* The first `for:` is longer than the interval at which credit is written.
ThreeAndOne == <<3, 1>>
=============================================================================
