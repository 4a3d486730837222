---------------------------- MODULE MCNodeConfig ----------------------------
(* Small instances of NodeConfig: two net keys, one application key of    *)
EXTENDS NodeConfig

OneEach == 1 :> 1
Orderly == {}
Overlap == {"overlap"}
NetDel == {"netdel"}
Blind == {"blind"}
=============================================================================
