---------------------------- MODULE MCBenchRun -----------------------------
(* BenchRun on two collectors c1, c2 with the listeners l1, l2. *)
EXTENDS BenchRun
CONSTANTS c1, c2, l1, l2
=============================================================================
