----------------------------- MODULE MCCallRcu ------------------------------
(* Two readers and a writer, or a vCPU and two writers one of which drains. *)
EXTENDS CallRcu

CONSTANTS v1, r1, w1

Casts ==
  {[threads |-> {v1, r1, w1}, first |-> 2, wide |-> {TRUE}],
   [threads |-> {v1, w1}, first |-> 1, wide |-> {FALSE, TRUE}],
   [threads |-> {v1, Main, w1}, first |-> 2, wide |-> {TRUE}]}
=============================================================================
