--------------------------- MODULE MCSessionBridge ---------------------------
(* The instance of SessionBridge that TLC checks. *)
EXTENDS SessionBridge

CONSTANTS editor, control
=============================================================================
