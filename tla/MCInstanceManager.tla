-------------------------- MODULE MCInstanceManager --------------------------
(* The instances of InstanceManager that TLC checks. *)
EXTENDS InstanceManager, TLC

CONSTANTS w1, w2, t1, t2

\* Session 2 is in the store, owned by w2.
OneStored == 2 :> w2

TaskSymmetry == Permutations({t1, t2})
=============================================================================
