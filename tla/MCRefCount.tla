---------------------------- MODULE MCRefCount -----------------------------
(* Instances of RefCount for TLC.                                          *)
EXTENDS RefCount

CONSTANTS s1, s2

(* A holder with one thread and an owner that serves in order; a holder    *)
(* and an owner with several threads.                                      *)
MCSetups ==
  {[single |-> TRUE, servers |-> {s1}, boxes |-> 3, uses |-> 2],
   [single |-> FALSE, servers |-> {s1, s2}, boxes |-> 3, uses |-> 1]}

Threaded == {[single |-> FALSE, servers |-> {s1}, boxes |-> 2, uses |-> 0]}
=============================================================================
