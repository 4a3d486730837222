----------------------------- MODULE MCGattPipe -----------------------------
(* A small instance of GattPipe: the smallest MTU, one that eight bits of     *)
(* max_len reduce, packets of one, two and four fragments.                    *)
EXTENDS GattPipe

TwoMtus == {23, 277}
NetTwo == {[type |-> PROXY_CONFIG_PDU, len |-> 20], [type |-> PROXY_NETWORK_PDU, len |-> 21]}
PublicKey == {[type |-> PROXY_PROVISIONING_PDU, len |-> 66]}
=============================================================================
