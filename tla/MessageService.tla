--------------------------- MODULE MessageService ---------------------------
(***************************************************************************)
(* What segmentation and reassembly promise to the layers above, whatever  *)
(* the network does: messages sent one after the other are delivered at    *)
(* most once and in their order, and one is reported as received only      *)
(* after its delivery.                                                     *)
(***************************************************************************)
EXTENDS Integers, Sequences

CONSTANTS
  Number,  \* messages
  None     \* no message in flight

VARIABLES
  sent,       \* messages sent so far
  inFlight,   \* the message whose receipt is waited for
  delivered,  \* messages handed over at the destination
  received    \* messages reported as received

vars == <<sent, inFlight, delivered, received>>

Init == sent = 0 /\ inFlight = None /\ delivered = <<>> /\ received = {}

\* The message before, if it is still in flight, is given up.
Send ==
  /\ sent < Number
  /\ sent' = sent + 1 /\ inFlight' = sent + 1
  /\ UNCHANGED <<delivered, received>>

Deliver ==
  \E m \in 1..sent :
    /\ \A i \in DOMAIN delivered : delivered[i] < m
    /\ delivered' = Append(delivered, m)
    /\ UNCHANGED <<sent, inFlight, received>>

Report ==
  /\ inFlight # None
  /\ \E i \in DOMAIN delivered : delivered[i] = inFlight
  /\ received' = received \cup {inFlight} /\ inFlight' = None
  /\ UNCHANGED <<sent, delivered>>

GiveUp ==
  /\ inFlight # None /\ inFlight' = None
  /\ UNCHANGED <<sent, delivered, received>>

Next == Send \/ Deliver \/ Report \/ GiveUp

Spec == Init /\ [][Next]_vars
=============================================================================
