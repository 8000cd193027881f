------------------------------- MODULE MCVcpus ------------------------------
(* The board: one vCPU, that does everything.  Two vCPUs: one that queues   *)
(* exclusive work for the other one and needs exclusive steps itself, while *)
(* the main loop queues work and resets.                                    *)
EXTENDS Vcpus

CONSTANTS c1, c2

BoardQueued == {<<c1, c1, "safe">>, <<c1, c1, "async">>, <<Main, c1, "run">>}

AcrossQueued == {<<c1, c2, "safe">>, <<Main, c2, "async">>}

Everyone == CPU \cup {Main}
=============================================================================
