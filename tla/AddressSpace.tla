---------------------------- MODULE AddressSpace ----------------------------
(***************************************************************************)
(* What the address pool of blueZ/mesh/net.c promises: the unicast         *)
(* addresses the provisioner may hand out are a set; a block is taken from *)
(* it whole; a block whose provisioning failed, or whose node was reset,   *)
(* goes back whole; and a start leaves exactly the addresses that no node  *)
(* of the database has, unless two nodes of the database claim the same    *)
(* address.                                                                *)
(***************************************************************************)
EXTENDS Integers, Sequences

CONSTANTS Allocated, MaxEle    \* allocatedUnicastRange, elements of a device

VARIABLES free, taken, kept    \* kept: the blocks the database names, in order

vars == <<free, taken, kept>>

\* num addresses from addr on.
Block(b) == b.addr..(b.addr + b.num - 1)

Kept == UNION {Block(kept[i]) : i \in DOMAIN kept}

Disjoint == \A i, j \in DOMAIN kept : i # j => Block(kept[i]) \cap Block(kept[j]) = {}

Init == free = Allocated /\ taken = {} /\ kept = <<>>

Take(b) ==
  /\ Block(b) \subseteq free
  /\ free' = free \ Block(b)
  /\ taken' = taken \cup {b}
  /\ UNCHANGED kept

Give(b) ==
  /\ b \in taken
  /\ free' = free \cup Block(b)
  /\ taken' = taken \ {b}
  /\ UNCHANGED kept

Keep(b) ==
  /\ b \in taken
  /\ kept' = Append(kept, b)
  /\ UNCHANGED <<free, taken>>

Restart ==
  /\ Disjoint
  /\ free' = Allocated \ Kept
  /\ taken' = {kept[i] : i \in DOMAIN kept}
  /\ UNCHANGED kept

\* A database that names an address twice is refused, and nothing runs then.
Refuse ==
  /\ ~Disjoint
  /\ free' = {}
  /\ taken' = {}
  /\ UNCHANGED kept

Next ==
  \/ \E a \in Allocated, n \in 1..MaxEle :
       LET b == [addr |-> a, num |-> n] IN Take(b) \/ Give(b) \/ Keep(b)
  \/ Restart \/ Refuse

Spec == Init /\ [][Next]_vars
=============================================================================
