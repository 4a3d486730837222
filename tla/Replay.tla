------------------------------- MODULE Replay -------------------------------
(***************************************************************************)
(* Replay protection of the provisioner: node_local_data_handler of        *)
(* blueZ/mesh/node.c decides whether a message of a remote node is new,    *)
(* hands it to the models of the local node and records its IV index and   *)
(* sequence number, in memory and in prov_db.json, over a network that     *)
(* loses, repeats and reorders messages, and across restarts.              *)
(***************************************************************************)
EXTENDS MeshNumbers, Sequences

CONSTANTS
  Src,       \* remote nodes of the database
  FirstIv,   \* IV index of the network when the nodes were provisioned
  MaxDelivered, \* bound: messages handed to the models
  IV_MOD,    \* iv_index << 24 in 32 bits keeps this many values (2^8)
  Crash      \* whether the process ends between a delivery and its record

ASSUME ReplayAssumption ==
  /\ FirstIv \in Nat /\ MaxIv \in Nat /\ MaxSeq \in Nat
  /\ MaxDelivered \in Nat
  /\ IV_MOD \in Nat \ {0}
  /\ Crash \in BOOLEAN

Numbers == [iv : 0..MaxIv, seq : 0..MaxSeq]
Messages == [src : Src, iv : 0..MaxIv, seq : 0..MaxSeq]

ASSUME NoneAssumption == None \notin Messages

VARIABLES
  next,       \* per node: the numbers of its next message
  underway,   \* messages on their way
  remote,     \* mesh_node: iv_index and seq_number of the last message handled
  db,         \* IVindex and sequenceNumber of the node in prov_db.json
  unsaved,    \* the message handled whose numbers are not recorded yet
  delivered,  \* history: messages handled by a model, in order
  flagged     \* history: the last message called a replay

replayVars == <<next, underway, remote, db, unsaved, delivered, flagged>>

\* a was sent after b.
Newer(a, b) == a.iv > b.iv \/ (a.iv = b.iv /\ a.seq > b.seq)

NumbersOf(m) == [iv |-> m.iv, seq |-> m.seq]

(* Every variable keeps its type.                                            *)
ReplayTypeOK ==
  /\ next \in [Src -> [iv : 0..MaxIv, seq : 0..(MaxSeq + 1)]]
  /\ underway \subseteq Messages
  /\ remote \in [Src -> Numbers] /\ db \in [Src -> Numbers]
  /\ unsaved \in Messages \cup {None} /\ flagged \in Messages \cup {None}
  /\ delivered \in Seq(Messages)
-----------------------------------------------------------------------------
(* The remote nodes and the network. *)

Send(s) ==
  /\ next[s].seq <= MaxSeq
  /\ underway' = underway \cup {[src |-> s, iv |-> next[s].iv, seq |-> next[s].seq]}
  /\ next' = [next EXCEPT ![s].seq = @ + 1]
  /\ UNCHANGED <<remote, db, unsaved, delivered, flagged>>

IvUpdate(s) ==
  /\ next[s].iv < MaxIv
  /\ next' = [next EXCEPT ![s] = [iv |-> @.iv + 1, seq |-> 0]]
  /\ UNCHANGED <<underway, remote, db, unsaved, delivered, flagged>>
-----------------------------------------------------------------------------
(* The provisioner. *)

\* Mutants of Replayed: nothing is a replay; the comparison is turned round.
ReplayedNever(m, r) == FALSE

ReplayedTurned(m, r) == r.iv % IV_MOD <= m.iv % IV_MOD

\* iv_seq_remote >= iv_seq.  The high part is the IV index in what 32 bits keep
\* of it; the low part of iv_seq_remote is 0, the low part of iv_seq is the
\* message's number ORed with the recorded one.
Replayed(m, r) ==
  \/ r.iv % IV_MOD > m.iv % IV_MOD
  \/ r.iv % IV_MOD = m.iv % IV_MOD /\ m.seq = 0 /\ r.seq = 0

\* Mutant of Recorded: the two numbers change places.
RecordedSwapped(m) == [iv |-> m.seq, seq |-> m.iv]

Recorded(m) == NumbersOf(m)

\* A message arrives; a copy of it may stay behind.  If a model handles it, its
\* numbers go to memory and then, in the next step, to the database.
node_local_data_handler(m) ==
  /\ unsaved = None
  /\ \E keep \in BOOLEAN : underway' = IF keep THEN underway ELSE underway \ {m}
  /\ \/ /\ Replayed(m, remote[m.src])
        /\ flagged' = m
        /\ UNCHANGED <<remote, unsaved, delivered>>
     \/ /\ ~Replayed(m, remote[m.src])
        /\ \/ /\ Len(delivered) < MaxDelivered
              /\ delivered' = Append(delivered, m)
              /\ remote' = [remote EXCEPT ![m.src] = Recorded(m)]
              /\ unsaved' = m
           \/ UNCHANGED <<delivered, remote, unsaved>>     \* no model takes it
        /\ UNCHANGED flagged
  /\ UNCHANGED <<next, db>>

prov_db_node_set_iv_seq ==
  /\ unsaved # None
  /\ db' = [db EXCEPT ![unsaved.src] = Recorded(unsaved)]
  /\ unsaved' = None
  /\ UNCHANGED <<next, underway, remote, delivered, flagged>>

\* The process ends and reads the database again.
Restart ==
  /\ unsaved = None \/ Crash
  /\ remote' = db
  /\ unsaved' = None
  /\ UNCHANGED <<next, underway, db, delivered, flagged>>
-----------------------------------------------------------------------------
ReplayInit ==
  /\ next = [s \in Src |-> [iv |-> FirstIv, seq |-> 0]]
  /\ underway = {}
  /\ remote = [s \in Src |-> [iv |-> 0, seq |-> 0]]     \* g_malloc0, no record
  /\ db = remote
  /\ unsaved = None
  /\ delivered = <<>>
  /\ flagged = None

Lose ==
  \E m \in underway :
    underway' = underway \ {m} /\ UNCHANGED <<next, remote, db, unsaved, delivered, flagged>>

ReplayNext ==
  \/ \E s \in Src : Send(s) \/ IvUpdate(s)
  \/ Lose
  \/ \E m \in underway : node_local_data_handler(m)
  \/ prov_db_node_set_iv_seq \/ Restart

ReplaySpec == ReplayInit /\ [][ReplayNext]_replayVars
-----------------------------------------------------------------------------
(* "Replayed message detected": no message of a node is handed to the models *)
(* twice, and none after a newer one.                                        *)
NoReplay ==
  \A i, j \in DOMAIN delivered :
    i < j /\ delivered[i].src = delivered[j].src => Newer(delivered[j], delivered[i])

(* What the comparison does protect: a message of an earlier IV index than   *)
(* one handled before is refused, whatever is repeated or overtaken and      *)
(* however often the process restarts.                                       *)
IvNeverBack ==
  \A i, j \in DOMAIN delivered :
    i < j /\ delivered[i].src = delivered[j].src => delivered[j].iv >= delivered[i].iv

(* A message called a replay is one: the node has had this message or a      *)
(* newer one of the same node handled before.                                *)
NoFalseAlarm ==
  flagged # None =>
    \E i \in DOMAIN delivered :
      delivered[i].src = flagged.src /\ ~Newer(flagged, delivered[i])
=============================================================================
