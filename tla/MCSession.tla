----------------------------- MODULE MCSession ------------------------------
(* Small instances of Session: two devices.                                  *)
EXTENDS Session

Orderly == {}
Impatient == {"restart"}
Unplugged == {"removed"}
=============================================================================
