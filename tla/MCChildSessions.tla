--------------------------- MODULE MCChildSessions ---------------------------
(* The instance of ChildSessions that TLC checks. *)
EXTENDS ChildSessions
=============================================================================
