------------------------------ MODULE GattPipe ------------------------------
(***************************************************************************)
(* The way of a packet out of the node: the queue net.pkt_out of           *)
(* blueZ/mesh/net.c, the write pipe of blueZ/mesh/gatt.c that it feeds     *)
(* (AcquireWrite, pipe_write, the pipe that closes with its link), and     *)
(* mesh_gatt_sar, which puts the fragments together at the other end of    *)
(* the link.  Provisioning packets are written without the queue.          *)
(*                                                                         *)
(* Handlers run to their end on the main loop.  One that sends several     *)
(* packets leaves `todo' calls of send_seg, and a write in progress is a   *)
(* `job' that sends one fragment per step: pipe_write calls                *)
(* send_pkt_cmplt, which calls pipe_write for the next packet.             *)
(***************************************************************************)
EXTENDS Integers, Sequences, FiniteSets

CONSTANTS
  None,      \* no link, no packet, no write
  Mixed,     \* bytes that are not the beginning of any one packet
  Mtus,      \* the MTUs AcquireWrite may report
  NetForms,  \* type and length of the packets of the network layer
  ProvForms, \* type and length of the packets of provisioning
  Burst,     \* the most segments a message has
  PipeSize,  \* fragments the socket of the pipe holds
  MaxPkts,   \* bound: packets
  MaxLinks   \* bound: GATT links, one after the other

MAX_GATT_SIZE == 66
GATT_MTU == 23
GATT_TYPE_INVALID == 255
PROXY_NETWORK_PDU == 0
PROXY_CONFIG_PDU == 2
PROXY_PROVISIONING_PDU == 3

ASSUME GattAssumption ==
  /\ Mtus \subseteq 23..517
  /\ NetForms \subseteq [type : {PROXY_NETWORK_PDU, PROXY_CONFIG_PDU},
                          len : 2..MAX_GATT_SIZE]
  /\ ProvForms \subseteq [type : {PROXY_PROVISIONING_PDU}, len : 2..MAX_GATT_SIZE]
  /\ Burst \in Nat \ {0} /\ PipeSize \in Nat \ {0}
  /\ MaxPkts \in Nat /\ MaxLinks \in Nat
  /\ None \notin Nat /\ Mixed \notin Nat /\ Mixed # None

VARIABLES
  link, up,    \* the last GATT link, and whether it is there
  used,        \* it has had its session: a link is for provisioning or proxy
  proxy_in,    \* net.proxy_in: the link of the network session
  prov_in,     \* the link of the provisioning attempt
  pkt_out,     \* net.pkt_out
  unacked,     \* segments of net.msg_out not acknowledged yet
  activity,    \* its activity_cnt is not 0
  todo,        \* calls of send_seg left in the handler that runs
  job,         \* the write that pipe_write is in the middle of
  acquiring,   \* AcquireWrite calls not answered yet
  write_io,    \* the link whose write pipe is open
  write_mtu,
  wire,        \* fragments on the link
  gatt,        \* static gatt_pkt and gatt_size at the other end of the link
  arrived,     \* history: packets put together at the other end of this link
  done,        \* history: packets written to this link
  count,       \* history: packets made
  failed,      \* history: the write of a packet of the queue failed
  hung         \* flush_pkt_list does not return

net == <<pkt_out, unacked, activity, todo>>
pipe == <<job, acquiring, write_io, write_mtu>>
remote == <<gatt, arrived>>
session == <<link, up, used, proxy_in, prov_in>>
vars == <<session, net, pipe, wire, remote, done, count, failed, hung>>

Types == {PROXY_NETWORK_PDU, PROXY_CONFIG_PDU, PROXY_PROVISIONING_PDU}
SarKinds == {"COMPLETE", "FIRST", "CONTINUE", "LAST"}
Packets == [id : 1..MaxPkts, form : NetForms \cup ProvForms]
Links == 1..MaxLinks

\* A write in progress, a fragment, and a packet that waits for AcquireWrite.
Jobs == [pkt : Packets, left : 0..(MAX_GATT_SIZE - 1), sar : SarKinds, queued : BOOLEAN]
Fragments == [pkt : Packets, from : 0..(MAX_GATT_SIZE - 1), size : 0..(MAX_GATT_SIZE - 1),
              sar : SarKinds]
Acquires == [pkt : Packets, link : Links, queued : BOOLEAN]

ASSUME NoneAssumption == None \notin Jobs \cup Packets /\ Mixed \notin Packets

(* Every variable keeps its type; what is left of a packet is a length.      *)
TypeOK ==
  /\ link \in 0..MaxLinks /\ up \in BOOLEAN /\ used \in BOOLEAN
  /\ proxy_in \in Links \cup {None} /\ prov_in \in Links \cup {None}
  /\ pkt_out \in Seq(Packets)
  /\ unacked \in 0..Burst /\ activity \in BOOLEAN /\ todo \in Nat
  /\ job \in Jobs \cup {None} /\ acquiring \subseteq Acquires
  /\ write_io \in Links \cup {None} /\ write_mtu \in Mtus \cup {0}
  /\ wire \in Seq(Fragments)
  /\ gatt \in [type : Types \cup {GATT_TYPE_INVALID}, size : 0..MAX_GATT_SIZE,
               pkt : Packets \cup {None, Mixed}]
  /\ arrived \in Seq(Packets \cup {Mixed})
  /\ done \in Seq(Packets) /\ count \in 0..MaxPkts
  /\ failed \in BOOLEAN /\ hung \in BOOLEAN

Init ==
  /\ link = 0 /\ up = FALSE /\ used = FALSE /\ proxy_in = None /\ prov_in = None
  /\ pkt_out = <<>> /\ unacked = 0 /\ activity = FALSE /\ todo = 0
  /\ job = None /\ acquiring = {} /\ write_io = None /\ write_mtu = 0
  /\ wire = <<>>
  /\ gatt = [type |-> 0, size |-> 0, pkt |-> None]
  /\ arrived = <<>> /\ done = <<>> /\ count = 0
  /\ failed = FALSE /\ hung = FALSE

\* No handler is running.
Idle == todo = 0 /\ job = None /\ ~hung

\* The bound on packets leaves room for n more, and for a resend that is due.
Room(n) == count + todo + n + (IF activity THEN unacked ELSE 0) <= MaxPkts
-----------------------------------------------------------------------------
(* pipe_write *)

\* What a fragment holds, in the eight bits of max_len.
MaxLen(mtu) == IF mtu # 0 THEN (mtu - 3 - 1) % 256 ELSE GATT_MTU - 3 - 1
max_len == MaxLen(write_mtu)

FirstKind(left, max) == IF left > max THEN "FIRST" ELSE "COMPLETE"

\* pipe_write before its loop: the type byte is taken off.
NewJob(p, queued, max) ==
  [pkt |-> p, left |-> p.form.len - 1, sar |-> FirstKind(p.form.len - 1, max),
   queued |-> queued]

Unfinished(j) == j.sar \in {"FIRST", "CONTINUE"}
FragSize(j) == IF Unfinished(j) THEN max_len ELSE j.left

Fragment(j) ==
  [pkt |-> j.pkt, from |-> j.pkt.form.len - 1 - j.left, size |-> FragSize(j), sar |-> j.sar]

\* Mutant of NextJob: what was sent is not taken off.
NextJob_stays(j) ==
  [j EXCEPT !.sar = IF max_len < j.left THEN "CONTINUE" ELSE "LAST"]

\* One round of the loop.
NextJob(j) ==
  LET left == j.left - max_len
  IN [j EXCEPT !.left = left, !.sar = IF max_len < left THEN "CONTINUE" ELSE "LAST"]

\* mesh_gatt_write: through the open pipe at once, or after AcquireWrite,
\* which cannot be called without a characteristic.
mesh_gatt_write(p, to, queued) ==
  IF write_io # None
  THEN /\ job' = NewJob(p, queued, max_len)
       /\ UNCHANGED <<acquiring, failed>>
  ELSE /\ job' = None
       /\ IF to # None
          THEN /\ acquiring' = acquiring \cup {[pkt |-> p, link |-> to, queued |-> queued]}
               /\ UNCHANGED failed
          ELSE failed' = (failed \/ queued) /\ UNCHANGED acquiring

\* io_send fails: the link is gone, or the socket is full.  The write ends
\* without its callback, so the packet stays at the head of the queue.
pipe_write_fails ==
  /\ job' = None
  /\ failed' = (failed \/ job.queued)
  /\ UNCHANGED <<net, acquiring, wire, done>>

\* Mutant of AfterCmplt: the retransmission that is due is forgotten.
AfterCmplt_forgets ==
  /\ activity' = activity /\ todo' = todo
  /\ UNCHANGED unacked

\* The queue is newly empty: resend_unacked_segs.
AfterCmplt ==
  /\ activity' = FALSE
  /\ todo' = IF activity THEN todo + unacked ELSE todo
  /\ UNCHANGED unacked

\* send_pkt_cmplt: the head leaves the queue, the next packet follows.
send_pkt_cmplt(p) ==
  LET rest == IF pkt_out # <<>> /\ Head(pkt_out) = p THEN Tail(pkt_out) ELSE pkt_out
  IN /\ pkt_out' = rest
     /\ IF rest = <<>>
        THEN AfterCmplt /\ job' = None /\ UNCHANGED <<acquiring, failed>>
        ELSE mesh_gatt_write(Head(rest), proxy_in, TRUE)
             /\ UNCHANGED <<unacked, activity, todo>>

\* One fragment, and the callback after the last one.
pipe_write_sends ==
  /\ up /\ write_io = link /\ Len(wire) < PipeSize
  /\ wire' = Append(wire, Fragment(job))
  /\ IF Unfinished(job)
     THEN job' = NextJob(job) /\ UNCHANGED <<net, acquiring, done, failed>>
     ELSE /\ done' = Append(done, job.pkt)
          /\ IF job.queued THEN send_pkt_cmplt(job.pkt)
             ELSE job' = None /\ UNCHANGED <<net, acquiring, failed>>

pipe_write ==
  /\ job # None /\ ~hung
  /\ pipe_write_sends \/ pipe_write_fails
  /\ UNCHANGED <<session, write_io, write_mtu, remote, count, hung>>

\* A link that is lost closes the socket; the pipe is dropped when the main
\* loop has nothing else to do.
pipe_hup ==
  /\ Idle /\ write_io # None /\ ~(up /\ write_io = link)
  /\ write_io' = None /\ write_mtu' = 0
  /\ UNCHANGED <<session, net, job, acquiring, wire, remote, done, count, failed, hung>>

\* An answer to AcquireWrite.  On an error the packet stays in the queue; a
\* pipe is handed out for the current link only.
acquire_write_reply ==
  /\ Idle
  /\ \E a \in acquiring :
       /\ acquiring' = acquiring \ {a}
       /\ \/ failed' = (failed \/ a.queued) /\ UNCHANGED <<job, write_io, write_mtu>>
          \/ \E mtu \in Mtus :
               /\ a.link = link
               /\ write_io' = a.link /\ write_mtu' = mtu
               /\ job' = NewJob(a.pkt, a.queued, MaxLen(mtu))
               /\ UNCHANGED failed
  /\ UNCHANGED <<session, net, wire, remote, done, count, hung>>
-----------------------------------------------------------------------------
(* The packet queue and the handlers that send. *)

Queued(p) == Append(pkt_out, p)

\* Mutant of WritesNow: a packet is written even if others wait.
WritesNow_always == TRUE

\* send_mesh_pkt writes at once only if nothing waits before it.
WritesNow == pkt_out = <<>>

\* send_seg: one more packet of the handler that runs.
send_mesh_pkt ==
  /\ todo > 0 /\ job = None /\ ~hung
  /\ \E form \in NetForms :
       LET p == [id |-> count + 1, form |-> form]
       IN /\ pkt_out' = Queued(p)
          /\ IF WritesNow THEN mesh_gatt_write(p, proxy_in, TRUE)
             ELSE UNCHANGED <<job, acquiring, failed>>
  /\ todo' = todo - 1
  /\ count' = count + 1
  /\ UNCHANGED <<session, unacked, activity, write_io, write_mtu, wire, remote, done, hung>>

\* Mutant of InFlight: the message before is not flushed.
InFlight_adds(n) == IF n > 1 THEN unacked + n ELSE unacked

\* A segmented message replaces the one in flight to its destination.
InFlight(n) == IF n > 1 THEN n ELSE unacked

\* A message of n segments; with more than one it stays in net.msg_out.
net_access_layer_send(n) ==
  /\ Idle /\ Room(n)
  /\ todo' = n
  /\ unacked' = InFlight(n)
  /\ activity' = IF n > 1 THEN FALSE ELSE activity
  /\ UNCHANGED <<session, pkt_out, pipe, wire, remote, done, count, failed, hung>>

\* What the timer and an acknowledgement do with n segments still missing:
\* send them again if the queue is empty, otherwise when it has drained.
Retry(n) ==
  /\ unacked' = n
  /\ activity' = (pkt_out # <<>>)
  /\ todo' = IF pkt_out = <<>> THEN n ELSE 0

sar_out_ack_timeout ==
  /\ Idle /\ unacked > 0 /\ Room(unacked)
  /\ Retry(unacked)
  /\ UNCHANGED <<session, pkt_out, pipe, wire, remote, done, count, failed, hung>>

ack_rxed(n) ==
  /\ Idle /\ n < unacked /\ Room(n)
  /\ IF n = 0 THEN unacked' = 0 /\ activity' = FALSE /\ UNCHANGED todo
     ELSE Retry(n)
  /\ UNCHANGED <<session, pkt_out, pipe, wire, remote, done, count, failed, hung>>

sar_out_msg_timeout ==
  /\ Idle /\ unacked > 0
  /\ unacked' = 0 /\ activity' = FALSE
  /\ UNCHANGED <<session, pkt_out, todo, pipe, wire, remote, done, count, failed, hung>>

\* A provisioning packet: prov.c writes the next one when the device has
\* answered the one before, or, after START, in the callback of that write
\* (prov_start_cmplt): what was written may still be on the wire.
ProvSend ==
  /\ Idle /\ prov_in # None /\ Room(1)
  /\ \A a \in acquiring : a.link # prov_in
  /\ \E form \in ProvForms :
       mesh_gatt_write([id |-> count + 1, form |-> form], prov_in, FALSE)
  /\ count' = count + 1
  /\ UNCHANGED <<session, net, write_io, write_mtu, wire, remote, done, hung>>
-----------------------------------------------------------------------------
(* Sessions and links. *)

\* The loop removes the link it stands on and then reads it again: with a
\* packet in the queue it does not come to an end.
flush_pkt_list ==
  /\ hung' = (pkt_out # <<>>)
  /\ UNCHANGED pkt_out

net_session_open ==
  /\ Idle /\ up /\ ~used
  /\ used' = TRUE
  /\ proxy_in' = link
  /\ failed' = FALSE
  /\ flush_pkt_list
  /\ UNCHANGED <<link, up, prov_in, unacked, activity, todo, pipe, wire, remote, done, count>>

prov_open ==
  /\ Idle /\ up /\ ~used
  /\ used' = TRUE
  /\ prov_in' = link
  /\ UNCHANGED <<link, up, proxy_in, net, pipe, wire, remote, done, count, failed, hung>>

\* From disconnect_device, or when the link is lost.
net_session_close ==
  /\ Idle /\ {proxy_in, prov_in} # {None}
  /\ proxy_in' = None /\ prov_in' = None
  /\ unacked' = 0 /\ activity' = FALSE
  /\ flush_pkt_list
  /\ UNCHANGED <<link, up, used, todo, pipe, wire, remote, done, count, failed>>

LinkUp ==
  /\ ~up /\ link < MaxLinks /\ proxy_in = None /\ prov_in = None
  /\ link' = link + 1 /\ up' = TRUE /\ used' = FALSE
  /\ wire' = <<>> /\ arrived' = <<>> /\ done' = <<>>
  /\ UNCHANGED <<proxy_in, prov_in, net, pipe, gatt, count, failed, hung>>

LinkLost ==
  /\ up
  /\ up' = FALSE
  /\ wire' = <<>>
  /\ UNCHANGED <<link, used, proxy_in, prov_in, net, pipe, remote, done, count, failed, hung>>
-----------------------------------------------------------------------------
(* mesh_gatt_sar at the other end of the link.  Of the bytes in gatt_pkt the *)
(* model keeps whether they are the first gatt_size bytes of one packet.     *)

\* Mutant of Restart: gatt_size is left as it was.
Restart_size(f) ==
  IF f.sar \in {"FIRST", "COMPLETE"}
  THEN [gatt EXCEPT !.type = f.pkt.form.type, !.size = IF @ = 0 THEN 1 ELSE @] ELSE gatt

Restart(f) ==
  IF f.sar \in {"FIRST", "COMPLETE"}
  THEN [type |-> f.pkt.form.type, size |-> 1, pkt |-> None] ELSE gatt

Fits(g, f) == g.type = f.pkt.form.type /\ g.size + f.size <= MAX_GATT_SIZE

Held(g, f) ==
  IF (g.size = 1 /\ f.from = 0) \/ (g.pkt = f.pkt /\ f.from = g.size - 1)
  THEN f.pkt ELSE Mixed

mesh_gatt_sar ==
  /\ wire # <<>>
  /\ LET f == Head(wire)
         g == Restart(f)
         new == [g EXCEPT !.size = @ + f.size, !.pkt = Held(g, f)]
     IN IF Fits(g, f)
        THEN /\ gatt' = new
             /\ arrived' = IF Unfinished(f) THEN arrived
                           ELSE Append(arrived, IF new.pkt # Mixed /\ new.size = f.pkt.form.len
                                                THEN new.pkt ELSE Mixed)
        ELSE /\ gatt' = [g EXCEPT !.type = GATT_TYPE_INVALID]
             /\ UNCHANGED arrived
  /\ wire' = Tail(wire)
  /\ UNCHANGED <<session, net, pipe, done, count, failed, hung>>
-----------------------------------------------------------------------------
MainLoop ==
  \/ pipe_write \/ send_mesh_pkt

Next ==
  \/ MainLoop
  \/ pipe_hup \/ acquire_write_reply
  \/ \E n \in 1..Burst : net_access_layer_send(n)
  \/ sar_out_ack_timeout
  \/ \E n \in 0..(Burst - 1) : ack_rxed(n)
  \/ sar_out_msg_timeout
  \/ ProvSend
  \/ net_session_open \/ prov_open \/ net_session_close
  \/ LinkUp \/ LinkLost
  \/ mesh_gatt_sar

Spec == Init /\ [][Next]_vars

(***************************************************************************)
(* A handler runs to its end, D-Bus answers every call (with an error      *)
(* after its timeout), and the other end reads its socket.  Links, sends   *)
(* and timers need not happen.                                             *)
(***************************************************************************)
FairSpec ==
  /\ Spec
  /\ WF_vars(MainLoop) /\ WF_vars(acquire_write_reply) /\ WF_vars(mesh_gatt_sar)
-----------------------------------------------------------------------------
(* A packet whose write was reported complete is put together again at the   *)
(* other end: whole, once, in the order written, whatever its length and the *)
(* MTU, and whatever an earlier link left behind in mesh_gatt_sar's buffer.  *)
(* What has not arrived is on the link, its last fragment in that order.     *)
WrittenArrives ==
  LET last == {i \in DOMAIN wire : ~Unfinished(wire[i])}
      Rank(i) == Cardinality({j \in last : j <= i})
  IN up =>
       /\ Len(done) = Len(arrived) + Cardinality(last)
       /\ \A i \in DOMAIN arrived : arrived[i] = done[i]
       /\ \A i \in last : wire[i].pkt = done[Len(arrived) + Rank(i)]

(* Packets leave in the order in which they were made, none of them twice    *)
(* ("Fully encoded packets awaiting Tx in order", net.c:70), and the packet  *)
(* being written, or waiting for AcquireWrite, is the head of the queue:     *)
(* send_pkt_cmplt never meets what it calls a serious error.                 *)
QueueInOrder ==
  /\ \A i, j \in 1..Len(done) : i < j => done[i].id < done[j].id
  /\ ~hung =>
       /\ job # None /\ job.queued => pkt_out # <<>> /\ Head(pkt_out) = job.pkt
       /\ \A a \in acquiring : a.queued => pkt_out # <<>> /\ Head(pkt_out) = a.pkt

(* The queue drains, unless a write fails or the session is closed on it.    *)
Drains == pkt_out # <<>> ~> (pkt_out = <<>> \/ failed \/ hung)

(* A retransmission put off because the queue was not empty is made, as soon *)
(* as the queue has drained.                                                 *)
Resends == activity ~> (~activity \/ failed \/ hung)
=============================================================================
