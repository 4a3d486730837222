------------------------------- MODULE SeqIv -------------------------------
(***************************************************************************)
(* Sequence numbers and the IV index of the local node: blueZ/mesh/net.c   *)
(* and the two files in which prov-db.c keeps them.                        *)
(*                                                                         *)
(* Every outgoing packet is encrypted under the pair (IV index, sequence   *)
(* number).  The sequence number is reserved on disk ahead of its use, so  *)
(* that a restart resumes above every number ever used; it is reset when a *)
(* Secure Network Beacon moves the node to a new transmit IV index.  The   *)
(* main loop is one thread, so a handler is interrupted only by the end of *)
(* the process: its disk writes and its packets are steps, and no other    *)
(* handler starts before they are done.                                    *)
(***************************************************************************)
EXTENDS MeshNumbers, Sequences

CONSTANTS
  Dst,              \* unicast destinations of segmented messages
  RESERVE,          \* numbers reserved at a time (100 in net.c)
  MARGIN,           \* reserve again when fewer are left (32 in net.c)
  SEQ_LIMIT,        \* largest number the 24 bit field holds (0xffffff)
  IV_IDX_DIFF_RANGE,\* largest accepted jump of the IV index (42 in net.c)
  Env,              \* what the network may do beyond the orderly case
  MaxBurst          \* bound: packets one handler sends

(***************************************************************************)
(* "stale": an authenticated beacon of an earlier epoch can still arrive;  *)
(* "recovery": the network can move on while the node is connected and has *)
(* not heard the epoch before; "early": a segmented message can be sent    *)
(* before the first beacon of a session; "exhaust": the node can use up    *)
(* the 24 bit sequence numbers of one IV index.                            *)
(***************************************************************************)
Hazards == {"stale", "recovery", "early", "exhaust"}

ASSUME ConstantsAssumption ==
  /\ None \notin Nat \cup Dst
  /\ RESERVE \in Nat \ {0}
  /\ MARGIN \in Nat
  /\ SEQ_LIMIT \in Nat
  /\ IV_IDX_DIFF_RANGE \in Nat
  /\ Env \subseteq Hazards
  /\ MaxIv \in Nat
  /\ MaxSeq \in Nat
  /\ MaxBurst \in Nat \ {0}

VARIABLES
  net,      \* memory: iv_index, iv_update, iv_upd_state, seq_num, seq_num_reserved
  session,  \* net.proxy_in # NULL
  msg_out,  \* iv_index of the segmented message in flight per destination
  disk,     \* local_node.json and prov_db.json
  up,       \* the process runs
  job,      \* what the running handler still has to do
  air,      \* the mesh network's own IV index and update flag
  sent,     \* history: (IV index, sequence number) pairs encrypted so far
  reused    \* history: pairs used more than once

vars == <<net, session, msg_out, disk, up, job, air, sent, reused>>

NoPkt == <<>>
IvStates == {"INIT", "NORMAL", "UPDATING"}

\* Mutant of TxIv: the IV index before, whatever the update flag.
TxIvAlwaysPrevious(iv, upd) == iv - 1

\* iv_index - iv_update, the IV index packets are sent with (net.c:2065, 2140).
TxIv(iv, upd) == IF upd THEN iv - 1 ELSE iv

\* The order in which a network goes through its (iv_index, iv_update) pairs.
Epoch(b) == 2 * b.iv - (IF b.upd THEN 1 ELSE 0)

Beacons == {b \in [iv : 0..MaxIv, upd : BOOLEAN] : b.upd => b.iv > 0}

\* A handler with files to write and packets to send: pkt is the packet under
\* way, left the number of packets after it, iv their IV index, and sar the
\* destination whose message will be in flight when all are sent.
NewJob(writes, iv, left, sar) ==
  [writes |-> writes, pkt |-> NoPkt, iv |-> iv, left |-> left, sar |-> sar]

NoJob == NewJob(0, 0, 0, None)

\* struct mesh_net as a process starts with it.
Zeroed == [iv |-> 0, upd |-> FALSE, state |-> "INIT", seq |-> 0, res |-> 0]

Idle == up /\ job = NoJob

\* The orderly case: an IV update comes before the numbers run out.
InRange(res) == res <= SEQ_LIMIT \/ "exhaust" \in Env

NetType ==
  [iv : Nat, upd : BOOLEAN, state : IvStates, seq : Nat, res : Nat]

DiskType ==
  [iv : Nat, upd : BOOLEAN, dbIv : Nat, dbUpd : BOOLEAN, seq : Nat,
   localOk : BOOLEAN, dbOk : BOOLEAN]

JobType ==
  [writes : 0..3, pkt : (Nat \X Nat) \cup {NoPkt}, iv : Nat, left : Nat,
   sar : Dst \cup {None}]

(* Every variable keeps its type; an IV index to transmit with exists also   *)
(* while an update is under way.                                             *)
TypeOK ==
  /\ net \in NetType
  /\ session \in BOOLEAN
  /\ msg_out \in [Dst -> Nat \cup {None}]
  /\ disk \in DiskType
  /\ up \in BOOLEAN
  /\ job \in JobType
  /\ air \in Beacons
  /\ sent \subseteq Nat \X Nat
  /\ reused \subseteq Nat \X Nat
-----------------------------------------------------------------------------
(***************************************************************************)
(* The network: (n, FALSE), (n+1, TRUE), (n+1, FALSE), ...  In the orderly *)
(* case a connected node hears one epoch before the next one starts.       *)
(***************************************************************************)
NetworkAdvance ==
  /\ \/ ~session
     \/ "recovery" \in Env
     \/ net.state # "INIT" /\ air = [iv |-> net.iv, upd |-> net.upd]
  /\ \/ air.upd /\ air' = [air EXCEPT !.upd = FALSE]
     \/ ~air.upd /\ air.iv < MaxIv /\ air' = [iv |-> air.iv + 1, upd |-> TRUE]
  /\ UNCHANGED <<net, session, msg_out, disk, up, job, sent, reused>>
-----------------------------------------------------------------------------
(* Sessions, with the main loop idle. *)

net_session_open ==
  /\ Idle /\ ~session
  /\ session' = TRUE
  /\ net' = [net EXCEPT !.state = "INIT"]
  /\ UNCHANGED <<msg_out, disk, up, job, air, sent, reused>>

\* Closing flushes the messages in flight.
net_session_close ==
  /\ Idle /\ session
  /\ session' = FALSE
  /\ msg_out' = [d \in Dst |-> None]
  /\ UNCHANGED <<net, disk, up, job, air, sent, reused>>
-----------------------------------------------------------------------------
(* Beacons. *)

\* Mutants of Inhibited: no inhibition; inhibition whatever the node's flag.
NeverInhibited(b) == b
InhibitedAlways(b) == [b EXCEPT !.upd = b.upd \/ \E d \in Dst : msg_out[d] # None]

\* iv_update true -> false is not recognised while messages are in flight.
Inhibited(b) ==
  [b EXCEPT !.upd = b.upd \/ (net.upd /\ \E d \in Dst : msg_out[d] # None)]

\* The checks of process_beacon that let a beacon through to beacon_update,
\* and the last rejection, of an update that starts too soon, in beacon_update.
BeaconAccepted(b) ==
  /\ ~(b.iv = net.iv /\ b.upd = net.upd /\ net.state # "INIT")
  /\ net.iv <= b.iv /\ b.iv <= net.iv + IV_IDX_DIFF_RANGE
  /\ ~(b.upd /\ net.upd /\ net.state # "INIT" /\ b.iv # net.iv)

\* Mutant of SeqReset: restart on every change.
SeqResetOnAnyChange(b) == b.iv > net.iv \/ b.upd # net.upd

\* The sequence number restarts, unless the beacon starts an update of the
\* current IV index (the transmit IV index stays what it is).
SeqReset(b) ==
  /\ b.iv > net.iv \/ b.upd # net.upd
  /\ ~(b.upd /\ net.iv + 1 = b.iv)

\* Memory after the beacon.
beacon_update(b, seq, res) ==
  [iv |-> b.iv, upd |-> b.upd, seq |-> seq, res |-> res,
   state |-> IF b.upd /\ ~net.upd THEN "UPDATING"
             ELSE IF net.state # "INIT" THEN net.state
             ELSE IF b.upd THEN "UPDATING" ELSE "NORMAL"]

\* A beacon that changes something: memory, then the files, and for the first
\* beacon of a session the packets that set up the proxy's whitelist.
process_beacon(rx) ==
  LET b    == Inhibited(rx)
      seq  == IF SeqReset(b) THEN 0 ELSE net.seq
      res0 == IF SeqReset(b) THEN RESERVE ELSE net.res
      save == seq = 0 \/ net.iv # b.iv \/ net.upd # b.upd
      res  == IF save /\ res0 <= seq THEN seq + RESERVE ELSE res0
  IN /\ Idle /\ session
     /\ rx = air \/ ("stale" \in Env /\ Epoch(rx) < Epoch(air))
     /\ BeaconAccepted(b) /\ InRange(res)
     /\ net' = beacon_update(b, seq, res)
     /\ \E n \in 1..MaxBurst :
          job' = NewJob(IF save THEN 3 ELSE 0, TxIv(b.iv, b.upd),
                        IF net.state = "INIT" THEN n ELSE 0, None)
     /\ UNCHANGED <<session, msg_out, disk, up, air, sent, reused>>
-----------------------------------------------------------------------------
(* Sending. *)

\* A control message, or an access message that is not kept for retransmission.
SendUnacked ==
  /\ Idle /\ session
  /\ \E n \in 1..MaxBurst :
       job' = NewJob(0, TxIv(net.iv, net.upd), n, None)
  /\ UNCHANGED <<net, session, msg_out, disk, up, air, sent, reused>>

\* A segmented message to a unicast destination replaces the one in flight to
\* it, and is itself in flight once its segments have been sent.
SendSegmented(d) ==
  /\ Idle /\ session
  /\ net.state # "INIT" \/ "early" \in Env
  /\ msg_out' = [msg_out EXCEPT ![d] = None]
  /\ \E n \in 1..MaxBurst :
       job' = NewJob(0, TxIv(net.iv, net.upd), n, d)
  /\ UNCHANGED <<net, session, disk, up, air, sent, reused>>

\* Some segments again, with the IV index the message was first sent with:
\* the 2 s timer, a partial acknowledgement or a drained packet queue.
resend_segs(d) ==
  /\ Idle /\ msg_out[d] # None
  /\ \E n \in 1..MaxBurst : job' = NewJob(0, msg_out[d], n, None)
  /\ UNCHANGED <<net, session, msg_out, disk, up, air, sent, reused>>

\* The message is acknowledged in full, or its 60 s are over.
flush_sar(d) ==
  /\ Idle /\ msg_out[d] # None
  /\ msg_out' = [msg_out EXCEPT ![d] = None]
  /\ UNCHANGED <<net, session, disk, up, job, air, sent, reused>>
-----------------------------------------------------------------------------
(* The steps of a running handler. *)

\* Mutant of get_next_seq: the reserve is renewed in memory only.
get_next_seq_unsaved ==
  LET this == net.seq
      grow == this + 1 + MARGIN >= net.res
      res  == IF grow THEN this + 1 + RESERVE ELSE net.res
  IN /\ up /\ job.writes = 0 /\ job.pkt = NoPkt /\ job.left > 0
     /\ this < MaxSeq /\ InRange(res)
     /\ net' = [net EXCEPT !.seq = this + 1, !.res = res]
     /\ job' = [job EXCEPT !.pkt = <<job.iv, this>>, !.left = @ - 1]
     /\ UNCHANGED <<session, msg_out, disk, up, air, sent, reused>>

\* The next packet of the handler takes its number.
get_next_seq ==
  LET this == net.seq
      grow == this + 1 + MARGIN >= net.res
      res  == IF grow THEN this + 1 + RESERVE ELSE net.res
  IN /\ up /\ job.writes = 0 /\ job.pkt = NoPkt /\ job.left > 0
     /\ this < MaxSeq /\ InRange(res)
     /\ net' = [net EXCEPT !.seq = this + 1, !.res = res]
     /\ job' = [job EXCEPT !.pkt = <<job.iv, this>>,
                           !.left = @ - 1,
                           !.writes = IF grow THEN 1 ELSE 0]
     /\ UNCHANGED <<session, msg_out, disk, up, air, sent, reused>>

\* The packet is encrypted and queued; the last one of a segmented message
\* leaves the message in flight.  The wire has 24 bits for the number.
send_seg ==
  LET pair == <<job.pkt[1], job.pkt[2] % (SEQ_LIMIT + 1)>>
      last == job.left = 0
  IN /\ up /\ job.writes = 0 /\ job.pkt # NoPkt
     /\ sent' = sent \cup {pair}
     /\ reused' = IF pair \in sent THEN reused \cup {pair} ELSE reused
     /\ job' = IF last THEN NoJob ELSE [job EXCEPT !.pkt = NoPkt]
     /\ msg_out' = IF last /\ job.sar # None
                   THEN [msg_out EXCEPT ![job.sar] = job.iv] ELSE msg_out
     /\ UNCHANGED <<net, session, disk, up, air>>

\* Mutant of PendingWrite: the sequence number before the database.
PendingWriteSwapped(n) == IF n = 1 THEN "db" ELSE IF n = 2 THEN "seq" ELSE "local"

\* The write that n pending writes begin with: prov_db_local_set_iv_index saves
\* the IV index in the local file and in the database, and only then
\* prov_db_local_set_seq_num saves the reserved sequence number.
PendingWrite(n) == <<"seq", "db", "local">>[n]

\* One file rewritten in place from what memory holds.
Written(file) ==
  CASE file = "local" -> [disk EXCEPT !.iv = net.iv, !.upd = net.upd]
    [] file = "db"    -> [disk EXCEPT !.dbIv = net.iv, !.dbUpd = net.upd]
    [] file = "seq"   -> [disk EXCEPT !.seq = net.res]

prov_file_write ==
  /\ up /\ job.writes > 0
  /\ disk' = Written(PendingWrite(job.writes))
  /\ job' = IF job.writes = 1 /\ job.left = 0 /\ job.pkt = NoPkt
            THEN NoJob ELSE [job EXCEPT !.writes = @ - 1]
  /\ UNCHANGED <<net, session, msg_out, up, air, sent, reused>>
-----------------------------------------------------------------------------
(* The end of the process, and the next start. *)

Stopped ==
  /\ up' = FALSE
  /\ session' = FALSE
  /\ msg_out' = [d \in Dst |-> None]
  /\ job' = NoJob
  /\ net' = Zeroed
  /\ UNCHANGED <<air, sent, reused>>

Stop == up /\ Stopped /\ UNCHANGED disk

\* The process ends while a file is truncated and not yet written.
StopInWrite ==
  /\ up /\ job.writes > 0
  /\ Stopped
  /\ disk' = IF PendingWrite(job.writes) = "db"
             THEN [disk EXCEPT !.dbOk = FALSE] ELSE [disk EXCEPT !.localOk = FALSE]

\* mesh_init: the local node's file, then the provisioning database, whose IV
\* index overrides; an unreadable file ends mesh_init.  A sequence number
\* beyond the limit is refused and leaves the counter at zero.
prov_db_read ==
  /\ ~up /\ disk.localOk /\ disk.dbOk
  /\ up' = TRUE
  /\ net' = [iv |-> disk.dbIv, upd |-> disk.dbUpd, state |-> "INIT", res |-> 0,
             seq |-> IF disk.seq > SEQ_LIMIT THEN 0 ELSE disk.seq]
  /\ UNCHANGED <<session, msg_out, disk, job, air, sent, reused>>
-----------------------------------------------------------------------------
Init ==
  /\ net = Zeroed
  /\ session = FALSE
  /\ msg_out = [d \in Dst |-> None]
  /\ disk = [iv |-> 0, upd |-> FALSE, dbIv |-> 0, dbUpd |-> FALSE, seq |-> 0,
             localOk |-> TRUE, dbOk |-> TRUE]
  /\ up = TRUE
  /\ job = NoJob
  /\ air = [iv |-> 0, upd |-> FALSE]
  /\ sent = {}
  /\ reused = {}

Next ==
  \/ NetworkAdvance
  \/ net_session_open \/ net_session_close
  \/ \E rx \in Beacons : process_beacon(rx)
  \/ SendUnacked
  \/ \E d \in Dst : SendSegmented(d) \/ resend_segs(d) \/ flush_sar(d)
  \/ get_next_seq \/ send_seg \/ prov_file_write
  \/ Stop \/ StopInWrite \/ prov_db_read

Spec == Init /\ [][Next]_vars
-----------------------------------------------------------------------------
(* No (IV index, sequence number) pair is ever encrypted under twice, across *)
(* IV updates, retransmissions, sessions and restarts (get_next_seq and      *)
(* beacon_update in net.c, the order of the writes in prov-db.c).            *)
NonceUnique == reused = {}

(* What a start would load is beyond every pair used so far, at every moment *)
(* a running handler can be cut off, between any two of its file writes too. *)
RestartSafe ==
  disk.localOk /\ disk.dbOk =>
    \A p \in sent :
      \/ p[1] < TxIv(disk.dbIv, disk.dbUpd)
      \/ p[1] = TxIv(disk.dbIv, disk.dbUpd) /\ p[2] < disk.seq

(* "Don't reset our seq_num unless we start using new iv_index": when the    *)
(* running node's counter goes back, the IV index it sends with from then on *)
(* is one it has never sent with.                                            *)
ResetOnlyOnNewIv ==
  [][up /\ up' /\ net'.seq < net.seq =>
        \A p \in sent : p[1] < TxIv(net'.iv, net'.upd)]_vars

(* A beacon never moves the IV index the node transmits with back to an      *)
(* earlier one ("Silently ignore old beacons").                              *)
TxIvMonotone ==
  [][up /\ up' => TxIv(net'.iv, net'.upd) >= TxIv(net.iv, net.upd)]_vars

(* A message in flight keeps the IV index it was encrypted with usable: it   *)
(* is the current transmit IV index, so its retransmissions draw from the    *)
(* same run of sequence numbers (the inhibition in process_beacon).          *)
InFlightIvCurrent ==
  \A d \in Dst : msg_out[d] # None => msg_out[d] = TxIv(net.iv, net.upd)
=============================================================================
