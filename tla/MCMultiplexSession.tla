------------------------- MODULE MCMultiplexSession -------------------------
(* The instances of MultiplexSession that TLC checks. *)
EXTENDS MultiplexSession

MCClientSeqs == 1..2

\* The clients' numbers overlap with the backend's, and are not the same in the same order.
MCRoutingSeqs == 2..3
=============================================================================
