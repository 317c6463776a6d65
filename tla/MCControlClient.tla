--------------------------- MODULE MCControlClient ---------------------------
(* The instance of ControlClient that TLC checks. *)
EXTENDS ControlClient
=============================================================================
