--------------------------- MODULE MCEventBridge ---------------------------
(* Small instances of EventBridge: two devices, two discovery sessions.      *)
EXTENDS EventBridge

CONSTANTS v1, v2

TwoDev == {v1, v2}
Orderly == {}
=============================================================================
