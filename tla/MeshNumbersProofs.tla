------------------------ MODULE MeshNumbersProofs ------------------------
(***************************************************************************)
(* IV index and sequence number at both ends.  SeqIv: in an orderly        *)
(* network (Env = {}) no (IV index, sequence number) pair is encrypted     *)
(* under twice, whatever the sizes of the reserve and the margin and       *)
(* however often the process ends, also between two of its writes.         *)
(* Replay: as long as the IV index fits into the eight bits that           *)
(* iv_index << 24 keeps of it, no message of an earlier IV index than one  *)
(* already handled reaches a model, and no new message is refused.         *)
(***************************************************************************)
EXTENDS SeqIv, Replay, TLAPS

\* The pair p was used before sequence number s of IV index i.
Below(p, i, s) == p[1] < i \/ (p[1] = i /\ p[2] < s)

NetTx == TxIv(net.iv, net.upd)
DiskTx == TxIv(disk.dbIv, disk.dbUpd)

\* An IV index under update is at least 1, in memory and in both files.
UpdPositive ==
  /\ net.upd => net.iv > 0
  /\ disk.dbUpd => disk.dbIv > 0

\* Neither memory nor the database is ahead of the network.
BehindAir ==
  /\ Epoch([iv |-> net.iv, upd |-> net.upd]) <= Epoch(air)
  /\ Epoch([iv |-> disk.dbIv, upd |-> disk.dbUpd]) <= Epoch(air)

\* A connected node that has heard a beacon is at most one epoch behind.
NearAir ==
  session /\ net.state # "INIT" =>
    Epoch(air) <= Epoch([iv |-> net.iv, upd |-> net.upd]) + 1

\* A process that is down has no session and nothing to do.
DownQuiet ==
  ~up => /\ ~session
         /\ job = NoJob
         /\ net = Zeroed

\* What the running handler has left to do fits memory.
JobOk ==
  /\ job.left > 0 => job.iv = NetTx
  /\ job.pkt # NoPkt => /\ job.pkt[1] = NetTx
                        /\ job.pkt[2] + 1 = net.seq
                        /\ job.iv = NetTx
  /\ job.sar # None => /\ session /\ net.state # "INIT"
                       /\ job.left > 0 \/ job.pkt # NoPkt

\* A message is in flight only once the session has heard a beacon, and then
\* with the transmit IV index.
FlightOk ==
  \A d \in Dst : msg_out[d] # None =>
     session /\ net.state # "INIT" /\ msg_out[d] = NetTx

\* The files against memory, by the number of writes still to do.
DiskOk ==
  up => /\ disk.localOk /\ disk.dbOk
        /\ DiskTx <= NetTx
        /\ job.writes \in {0, 1} => disk.dbIv = net.iv /\ disk.dbUpd = net.upd
        /\ job.writes = 0 => net.seq <= disk.seq /\ (net.res = 0 \/ net.res = disk.seq)
        /\ job.writes > 0 => net.seq <= net.res
        /\ net.res = 0 \/ net.seq <= net.res

\* No number in memory or on disk is beyond what the wire can carry.
WithinLimit ==
  net.seq <= SEQ_LIMIT /\ net.res <= SEQ_LIMIT /\ disk.seq <= SEQ_LIMIT

\* Every pair used is below what memory will use next, the packet under way
\* excepted.
SentBelowMemory ==
  up => \A p \in sent :
          Below(p, NetTx, IF job.pkt # NoPkt THEN job.pkt[2] ELSE net.seq)

IInv ==
  /\ TypeOK
  /\ UpdPositive
  /\ BehindAir
  /\ NearAir
  /\ DownQuiet
  /\ JobOk
  /\ FlightOk
  /\ DiskOk
  /\ WithinLimit
  /\ SentBelowMemory
  /\ RestartSafe
  /\ NonceUnique
-----------------------------------------------------------------------------
(* The transmit IV index of memory, and of the database, is a number. *)
LEMMA NetTxNat == TypeOK /\ UpdPositive => NetTx \in Nat /\ DiskTx \in Nat
  BY DEF TypeOK, NetType, DiskType, UpdPositive, NetTx, DiskTx, TxIv

(* A handler's agenda is well formed. *)
LEMMA NewJobType ==
  ASSUME NEW w \in 0..3, NEW i \in Nat, NEW n \in Nat, NEW d \in Dst \cup {None}
  PROVE  NewJob(w, i, n, d) \in JobType
  BY DEF NewJob, JobType

(* A process that has just been installed satisfies the invariant. *)
LEMMA InitInv == Init => IInv
<1> SUFFICES ASSUME Init PROVE IInv
  OBVIOUS
<1> USE ConstantsAssumption DEF Init, Zeroed, NoJob, NewJob, NoPkt
<1>1. TypeOK
  <2>1. net \in NetType /\ disk \in DiskType
    BY DEF NetType, DiskType, IvStates
  <2>2. job \in JobType
    BY DEF JobType
  <2>3. air \in Beacons
    BY DEF Beacons
  <2>4. QED
    BY <2>1, <2>2, <2>3 DEF TypeOK
<1>2. UpdPositive /\ BehindAir /\ NearAir /\ DownQuiet /\ WithinLimit
  BY DEF UpdPositive, BehindAir, NearAir, DownQuiet, WithinLimit, Epoch
<1>3. JobOk /\ FlightOk /\ DiskOk
  BY DEF JobOk, FlightOk, DiskOk, NetTx, DiskTx, TxIv
<1>4. SentBelowMemory /\ RestartSafe /\ NonceUnique
  BY DEF SentBelowMemory, RestartSafe, NonceUnique
<1>5. QED
  BY <1>1, <1>2, <1>3, <1>4 DEF IInv

(* The network moves on: only the distance to it changes. *)
LEMMA NetworkAdvanceInv == ASSUME IInv, Env = {}, NetworkAdvance PROVE IInv'
<1> USE ConstantsAssumption DEF IInv
<1>1. TypeOK'
  <2>1. air' \in Beacons
    <3>1. air \in [iv : 0..MaxIv, upd : BOOLEAN]
      BY DEF TypeOK, Beacons
    <3>2. CASE air.upd
      BY <3>1, <3>2 DEF NetworkAdvance, Beacons
    <3>3. CASE ~air.upd
      <4>1. air' = [iv |-> air.iv + 1, upd |-> TRUE] /\ air.iv < MaxIv
        BY <3>3 DEF NetworkAdvance
      <4>2. air.iv + 1 \in 0..MaxIv /\ air.iv + 1 > 0
        BY <3>1, <4>1
      <4> QED
        BY <4>1, <4>2 DEF Beacons
    <3> QED
      BY <3>2, <3>3
  <2> QED
    BY <2>1 DEF NetworkAdvance, TypeOK
<1>2. (UpdPositive /\ BehindAir /\ NearAir)'
  <2>1. Epoch(air') = Epoch(air) + 1
    BY DEF NetworkAdvance, TypeOK, Beacons, Epoch
  <2>2. UpdPositive'
    BY DEF NetworkAdvance, UpdPositive
  <2>3. Epoch(air) \in Int /\ Epoch([iv |-> net.iv, upd |-> net.upd]) \in Int
        /\ Epoch([iv |-> disk.dbIv, upd |-> disk.dbUpd]) \in Int
    BY DEF TypeOK, NetType, DiskType, Beacons, Epoch
  <2>4. BehindAir'
    BY <2>1, <2>3 DEF NetworkAdvance, BehindAir
  <2>5. NearAir'
    BY <2>1, <2>3 DEF NetworkAdvance, NearAir
  <2> QED
    BY <2>2, <2>4, <2>5
<1>3. (DownQuiet /\ WithinLimit)'
  BY DEF TypeOK, NetType, DiskType, DownQuiet, WithinLimit, NetworkAdvance
<1>4. (JobOk /\ FlightOk)'
  BY DEF TypeOK, NetType, JobType, DownQuiet, JobOk, FlightOk, NetTx, TxIv, NetworkAdvance
<1>5. DiskOk'
  BY DEF TypeOK, NetType, DiskType, JobType, DownQuiet, DiskOk, UpdPositive, NetTx, DiskTx, TxIv, NetworkAdvance
<1>6. SentBelowMemory'
  BY DEF TypeOK, NetType, JobType, SentBelowMemory, Below, NetTx, TxIv, NetworkAdvance
<1>7. (RestartSafe /\ NonceUnique)'
  BY DEF RestartSafe, NonceUnique, TypeOK, DiskType, TxIv, NetworkAdvance
<1> QED
  BY <1>1, <1>2, <1>3, <1>4, <1>5, <1>6, <1>7

(* Opening a session forgets what was heard. *)
LEMMA SessionOpenInv == ASSUME IInv, Env = {}, net_session_open PROVE IInv'
<1> USE ConstantsAssumption DEF IInv
<1>1. TypeOK'
  BY DEF TypeOK, NetType, DiskType, JobType, Beacons, net_session_open, Idle, NoJob, NewJob, IvStates
<1>2. (UpdPositive /\ BehindAir /\ NearAir)'
  BY DEF TypeOK, NetType, DiskType, Beacons, UpdPositive, BehindAir, NearAir, Epoch, net_session_open, Idle, NoJob, NewJob, IvStates
<1>3. (DownQuiet /\ WithinLimit)'
  BY DEF TypeOK, NetType, DiskType, DownQuiet, WithinLimit, net_session_open, Idle, NoJob, NewJob, IvStates
<1>4. (JobOk /\ FlightOk)'
  BY DEF TypeOK, NetType, JobType, DownQuiet, JobOk, FlightOk, NetTx, TxIv, net_session_open, Idle, NoJob, NewJob, IvStates
<1>5. DiskOk'
  BY DEF TypeOK, NetType, DiskType, JobType, DownQuiet, DiskOk, UpdPositive, NetTx, DiskTx, TxIv, net_session_open, Idle, NoJob, NewJob, IvStates
<1>6. SentBelowMemory'
  BY DEF TypeOK, NetType, JobType, SentBelowMemory, Below, NetTx, TxIv, net_session_open, Idle, NoJob, NewJob, IvStates
<1>7. (RestartSafe /\ NonceUnique)'
  BY DEF RestartSafe, NonceUnique, TypeOK, DiskType, TxIv, net_session_open, Idle, NoJob, NewJob, IvStates
<1> QED
  BY <1>1, <1>2, <1>3, <1>4, <1>5, <1>6, <1>7

(* Closing a session drops the messages in flight. *)
LEMMA SessionCloseInv == ASSUME IInv, Env = {}, net_session_close PROVE IInv'
<1> USE ConstantsAssumption DEF IInv
<1>1. TypeOK'
  BY DEF TypeOK, NetType, DiskType, JobType, Beacons, net_session_close, Idle, NoJob, NewJob
<1>2. (UpdPositive /\ BehindAir /\ NearAir)'
  BY DEF TypeOK, NetType, DiskType, Beacons, UpdPositive, BehindAir, NearAir, Epoch, net_session_close, Idle, NoJob, NewJob
<1>3. (DownQuiet /\ WithinLimit)'
  BY DEF TypeOK, NetType, DiskType, DownQuiet, WithinLimit, net_session_close, Idle, NoJob, NewJob
<1>4. (JobOk /\ FlightOk)'
  BY DEF TypeOK, NetType, JobType, DownQuiet, JobOk, FlightOk, NetTx, TxIv, net_session_close, Idle, NoJob, NewJob
<1>5. DiskOk'
  BY DEF TypeOK, NetType, DiskType, JobType, DownQuiet, DiskOk, UpdPositive, NetTx, DiskTx, TxIv, net_session_close, Idle, NoJob, NewJob
<1>6. SentBelowMemory'
  BY DEF TypeOK, NetType, JobType, SentBelowMemory, Below, NetTx, TxIv, net_session_close, Idle, NoJob, NewJob
<1>7. (RestartSafe /\ NonceUnique)'
  BY DEF RestartSafe, NonceUnique, TypeOK, DiskType, TxIv, net_session_close, Idle, NoJob, NewJob
<1> QED
  BY <1>1, <1>2, <1>3, <1>4, <1>5, <1>6, <1>7

(* A message starts with the transmit IV index. *)
LEMMA SendUnackedInv == ASSUME IInv, Env = {}, SendUnacked PROVE IInv'
<1> USE ConstantsAssumption DEF IInv
<1>1. TypeOK'
  <2>1. NetTx \in Nat
    BY NetTxNat
  <2>2. PICK n \in 1..MaxBurst : job' = NewJob(0, NetTx, n, None)
    BY DEF SendUnacked, NetTx
  <2>3. job' \in JobType
    BY <2>1, <2>2, NewJobType
  <2> QED
    BY <2>3 DEF SendUnacked, TypeOK
<1>2. (UpdPositive /\ BehindAir /\ NearAir)'
  BY DEF TypeOK, NetType, DiskType, Beacons, UpdPositive, BehindAir, NearAir, Epoch, SendUnacked, Idle, NoJob, NewJob, NoPkt
<1>3. (DownQuiet /\ WithinLimit)'
  BY DEF TypeOK, NetType, DiskType, DownQuiet, WithinLimit, SendUnacked, Idle, NoJob, NewJob, NoPkt
<1>4. (JobOk /\ FlightOk)'
  BY DEF TypeOK, NetType, JobType, DownQuiet, JobOk, FlightOk, NetTx, TxIv, SendUnacked, Idle, NoJob, NewJob, NoPkt
<1>5. DiskOk'
  BY DEF TypeOK, NetType, DiskType, JobType, DownQuiet, DiskOk, UpdPositive, NetTx, DiskTx, TxIv, SendUnacked, Idle, NoJob, NewJob, NoPkt
<1>6. SentBelowMemory'
  BY DEF TypeOK, NetType, JobType, SentBelowMemory, Below, NetTx, TxIv, SendUnacked, Idle, NoJob, NewJob, NoPkt
<1>7. (RestartSafe /\ NonceUnique)'
  BY DEF RestartSafe, NonceUnique, TypeOK, DiskType, TxIv, SendUnacked, Idle, NoJob, NewJob, NoPkt
<1> QED
  BY <1>1, <1>2, <1>3, <1>4, <1>5, <1>6, <1>7

(* The process ends between two writes. *)
LEMMA StopInv == ASSUME IInv, Env = {}, Stop PROVE IInv'
<1> USE ConstantsAssumption DEF IInv
<1>1. TypeOK'
  <2>1. job' \in JobType
    BY DEF Stop, Stopped, JobType, NoJob, NewJob, NoPkt
  <2>2. net' \in NetType /\ disk' \in DiskType
    BY DEF Stop, Stopped, TypeOK, NetType, DiskType, Zeroed, IvStates
  <2> QED
    BY <2>1, <2>2 DEF Stop, Stopped, TypeOK
<1>2. (UpdPositive /\ BehindAir /\ NearAir)'
  BY DEF TypeOK, NetType, DiskType, Beacons, UpdPositive, BehindAir, NearAir, Epoch, Stop, Stopped, Zeroed, NoJob, NewJob, NoPkt
<1>3. (DownQuiet /\ WithinLimit)'
  BY DEF TypeOK, NetType, DiskType, DownQuiet, WithinLimit, Stop, Stopped, Zeroed, NoJob, NewJob, NoPkt
<1>4. (JobOk /\ FlightOk)'
  BY DEF TypeOK, NetType, JobType, DownQuiet, JobOk, FlightOk, NetTx, TxIv, Stop, Stopped, Zeroed, NoJob, NewJob, NoPkt
<1>5. DiskOk'
  BY DEF TypeOK, NetType, DiskType, JobType, DownQuiet, DiskOk, UpdPositive, NetTx, DiskTx, TxIv, Stop, Stopped, Zeroed, NoJob, NewJob, NoPkt
<1>6. SentBelowMemory'
  BY DEF TypeOK, NetType, JobType, SentBelowMemory, Below, NetTx, TxIv, Stop, Stopped, Zeroed, NoJob, NewJob, NoPkt
<1>7. (RestartSafe /\ NonceUnique)'
  BY DEF RestartSafe, NonceUnique, TypeOK, DiskType, TxIv, Stop, Stopped, Zeroed, NoJob, NewJob, NoPkt
<1> QED
  BY <1>1, <1>2, <1>3, <1>4, <1>5, <1>6, <1>7

(* The process ends inside a write. *)
LEMMA StopInWriteInv == ASSUME IInv, Env = {}, StopInWrite PROVE IInv'
<1> USE ConstantsAssumption DEF IInv
<1>1. TypeOK'
  <2>1. job' \in JobType
    BY DEF StopInWrite, Stopped, JobType, NoJob, NewJob, NoPkt
  <2>2. net' \in NetType /\ disk' \in DiskType
    BY DEF StopInWrite, Stopped, TypeOK, NetType, DiskType, Zeroed, IvStates
  <2> QED
    BY <2>1, <2>2 DEF StopInWrite, Stopped, TypeOK
<1>2. (UpdPositive /\ BehindAir /\ NearAir)'
  <2>1. /\ ~session' /\ air' = air /\ net' = Zeroed
        /\ disk'.dbIv = disk.dbIv /\ disk'.dbUpd = disk.dbUpd
    BY DEF StopInWrite, Stopped, TypeOK, DiskType
  <2>2. /\ net'.iv = 0 /\ net'.upd = FALSE /\ air.iv \in Nat /\ air.upd \in BOOLEAN
        /\ Epoch(air) >= 0
    BY <2>1 DEF Zeroed, TypeOK, Beacons, Epoch, UpdPositive, BehindAir, NetType, DiskType
  <2> QED
    BY <2>1, <2>2 DEF UpdPositive, BehindAir, NearAir, Epoch
<1>3. (DownQuiet /\ WithinLimit)'
  BY DEF TypeOK, NetType, DiskType, DownQuiet, WithinLimit, StopInWrite, Stopped, Zeroed, NoJob, NewJob, NoPkt
<1>4. (JobOk /\ FlightOk)'
  BY DEF TypeOK, NetType, JobType, DownQuiet, JobOk, FlightOk, NetTx, TxIv, StopInWrite, Stopped, Zeroed, NoJob, NewJob, NoPkt
<1>5. DiskOk'
  BY DEF TypeOK, NetType, DiskType, JobType, DownQuiet, DiskOk, UpdPositive, NetTx, DiskTx, TxIv, StopInWrite, Stopped, Zeroed, NoJob, NewJob, NoPkt
<1>6. SentBelowMemory'
  BY DEF TypeOK, NetType, JobType, SentBelowMemory, Below, NetTx, TxIv, StopInWrite, Stopped, Zeroed, NoJob, NewJob, NoPkt
<1>7. (RestartSafe /\ NonceUnique)'
  BY DEF RestartSafe, NonceUnique, TypeOK, DiskType, TxIv, StopInWrite, Stopped, Zeroed, NoJob, NewJob, NoPkt
<1> QED
  BY <1>1, <1>2, <1>3, <1>4, <1>5, <1>6, <1>7

(* A start loads a point above every pair used. *)
LEMMA ReadInv == ASSUME IInv, Env = {}, prov_db_read PROVE IInv'
<1> USE ConstantsAssumption DEF IInv
<1>1. TypeOK'
  BY DEF TypeOK, NetType, DiskType, JobType, Beacons, prov_db_read, NoJob, NewJob, NoPkt, IvStates
<1>2. (UpdPositive /\ BehindAir /\ NearAir)'
  BY DEF TypeOK, NetType, DiskType, Beacons, UpdPositive, BehindAir, NearAir, Epoch, prov_db_read, NoJob, NewJob, NoPkt, IvStates
<1>3. (DownQuiet /\ WithinLimit)'
  BY DEF TypeOK, NetType, DiskType, DownQuiet, WithinLimit, prov_db_read, NoJob, NewJob, NoPkt, IvStates
<1>4. (JobOk /\ FlightOk)'
  BY DEF TypeOK, NetType, JobType, DownQuiet, JobOk, FlightOk, NetTx, TxIv, prov_db_read, NoJob, NewJob, NoPkt, IvStates
<1>5. DiskOk'
  BY DEF TypeOK, NetType, DiskType, JobType, DownQuiet, DiskOk, UpdPositive, NetTx, DiskTx, TxIv, prov_db_read, NoJob, NewJob, NoPkt, IvStates
<1>6. SentBelowMemory'
  BY DEF TypeOK, NetType, DiskType, DownQuiet, WithinLimit, RestartSafe, SentBelowMemory, Below, NetTx, TxIv, prov_db_read, NoJob, NewJob, NoPkt
<1>7. (RestartSafe /\ NonceUnique)'
  BY DEF RestartSafe, NonceUnique, TypeOK, DiskType, TxIv, prov_db_read, NoJob, NewJob, NoPkt, IvStates
<1> QED
  BY <1>1, <1>2, <1>3, <1>4, <1>5, <1>6, <1>7

(* A segmented message starts with the transmit IV index, after a beacon. *)
LEMMA SendSegmentedInv ==
  ASSUME IInv, Env = {}, NEW d \in Dst, SendSegmented(d) PROVE IInv'
<1> USE ConstantsAssumption DEF IInv
<1>1. PICK n \in 1..MaxBurst : job' = NewJob(0, NetTx, n, d)
  BY DEF SendSegmented, NetTx
<1>2. net.state # "INIT" /\ session
  BY DEF SendSegmented
<1>3. TypeOK'
  <2>1. job' \in JobType
    BY <1>1, NetTxNat, NewJobType
  <2> QED
    BY <2>1 DEF SendSegmented, TypeOK
<1>4. (UpdPositive /\ BehindAir /\ NearAir)'
  BY DEF SendSegmented, UpdPositive, BehindAir, NearAir
<1>5. (DownQuiet /\ WithinLimit)'
  BY DEF SendSegmented, Idle, DownQuiet, WithinLimit
<1>6. JobOk'
  BY <1>1, <1>2 DEF SendSegmented, JobOk, NewJob, NoPkt, NetTx
<1>7. FlightOk'
  BY <1>2 DEF SendSegmented, TypeOK, FlightOk, NetTx
<1>8. DiskOk'
  BY <1>1 DEF SendSegmented, Idle, DiskOk, NetTx, DiskTx, NoJob, NewJob
<1>9. (SentBelowMemory /\ RestartSafe /\ NonceUnique)'
  BY <1>1 DEF SendSegmented, Idle, SentBelowMemory, RestartSafe, NonceUnique,
              NetTx, NoJob, NewJob
<1> QED
  BY <1>3, <1>4, <1>5, <1>6, <1>7, <1>8, <1>9

(* A message in flight is sent again with an IV index that is still the      *)
(* transmit IV index.                                                        *)
LEMMA ResendInv ==
  ASSUME IInv, Env = {}, NEW d \in Dst, resend_segs(d) PROVE IInv'
<1> USE ConstantsAssumption DEF IInv
<1>1. msg_out[d] = NetTx /\ net.state # "INIT" /\ session
  BY DEF resend_segs, FlightOk
<1>2. PICK n \in 1..MaxBurst : job' = NewJob(0, NetTx, n, None)
  BY <1>1 DEF resend_segs
<1>3. TypeOK'
  <2>1. job' \in JobType
    BY <1>2, NetTxNat, NewJobType
  <2> QED
    BY <2>1 DEF resend_segs, TypeOK
<1>4. (UpdPositive /\ BehindAir /\ NearAir)'
  BY DEF resend_segs, UpdPositive, BehindAir, NearAir
<1>5. (DownQuiet /\ WithinLimit)'
  BY DEF resend_segs, Idle, DownQuiet, WithinLimit
<1>6. JobOk'
  BY <1>1, <1>2 DEF resend_segs, JobOk, NewJob, NoPkt, NetTx
<1>7. FlightOk'
  BY DEF resend_segs, FlightOk, NetTx
<1>8. DiskOk'
  BY <1>2 DEF resend_segs, Idle, DiskOk, NetTx, DiskTx, NoJob, NewJob
<1>9. (SentBelowMemory /\ RestartSafe /\ NonceUnique)'
  BY <1>2 DEF resend_segs, Idle, SentBelowMemory, RestartSafe, NonceUnique,
              NetTx, NoJob, NewJob
<1> QED
  BY <1>3, <1>4, <1>5, <1>6, <1>7, <1>8, <1>9

(* A message leaves the list of messages in flight. *)
LEMMA FlushInv ==
  ASSUME IInv, Env = {}, NEW d \in Dst, flush_sar(d) PROVE IInv'
<1> USE DEF IInv
<1>1. TypeOK'
  BY DEF flush_sar, TypeOK
<1>2. (UpdPositive /\ BehindAir /\ NearAir /\ DownQuiet /\ WithinLimit)'
  BY DEF flush_sar, UpdPositive, BehindAir, NearAir, DownQuiet, WithinLimit
<1>3. (JobOk /\ FlightOk)'
  BY DEF flush_sar, TypeOK, JobOk, FlightOk, NetTx
<1>4. (DiskOk /\ SentBelowMemory /\ RestartSafe /\ NonceUnique)'
  BY DEF flush_sar, DiskOk, SentBelowMemory, RestartSafe, NonceUnique, NetTx, DiskTx
<1> QED
  BY <1>1, <1>2, <1>3, <1>4

(* A number is taken: it is above every number used with the transmit IV     *)
(* index, and below what the files hold once the pending write is done.      *)
LEMMA NextSeqInv == ASSUME IInv, Env = {}, get_next_seq PROVE IInv'
<1> USE ConstantsAssumption DEF IInv
<1> DEFINE grow == net.seq + 1 + MARGIN >= net.res
           res  == IF grow THEN net.seq + 1 + RESERVE ELSE net.res
<1>1. /\ up /\ job.writes = 0 /\ job.pkt = NoPkt /\ job.left > 0
      /\ res <= SEQ_LIMIT
      /\ net' = [net EXCEPT !.seq = net.seq + 1, !.res = res]
      /\ job' = [job EXCEPT !.pkt = <<job.iv, net.seq>>, !.left = @ - 1,
                            !.writes = IF grow THEN 1 ELSE 0]
      /\ UNCHANGED <<session, msg_out, disk, up, air, sent, reused>>
  BY DEF get_next_seq, InRange
<1>2. net.seq \in Nat /\ net.res \in Nat /\ res \in Nat /\ net.seq + 1 <= res
  BY DEF TypeOK, NetType
<1>3. /\ net'.seq = net.seq + 1 /\ net'.res = res /\ net'.iv = net.iv
      /\ net'.upd = net.upd /\ net'.state = net.state
  BY <1>1 DEF TypeOK, NetType
<1>4. /\ job'.pkt = <<job.iv, net.seq>> /\ job'.left = job.left - 1
      /\ job'.writes = IF grow THEN 1 ELSE 0
      /\ job'.iv = job.iv /\ job'.sar = job.sar
  BY <1>1 DEF TypeOK, JobType
<1>5. NetTx' = NetTx /\ DiskTx' = DiskTx /\ job.iv = NetTx
  BY <1>1, <1>3 DEF NetTx, DiskTx, JobOk
<1> HIDE DEF res, grow
<1>6. TypeOK'
  <2>1. net' \in NetType
    <3>1. [net EXCEPT !.seq = net.seq + 1] \in NetType
      BY <1>2 DEF TypeOK, NetType
    <3>2. \A m \in NetType : [m EXCEPT !.res = res] \in NetType
      BY <1>2 DEF NetType
    <3> QED
      BY <1>1, <3>1, <3>2
  <2>2. job' \in JobType
    <3>1. job.iv \in Nat /\ job.left \in Nat /\ job.left - 1 \in Nat
      BY <1>1 DEF TypeOK, JobType
    <3>2. [job EXCEPT !.pkt = <<job.iv, net.seq>>] \in JobType
      BY <1>2, <3>1 DEF TypeOK, JobType
    <3>3. \A j \in JobType : [j EXCEPT !.writes = IF grow THEN 1 ELSE 0] \in JobType
      BY DEF JobType
    <3>4. [[job EXCEPT !.pkt = <<job.iv, net.seq>>] EXCEPT !.left = job.left - 1] \in JobType
      BY <3>1, <3>2 DEF JobType
    <3> QED
      BY <1>1, <3>3, <3>4
  <2> QED
    BY <1>1, <2>1, <2>2 DEF TypeOK
<1>7. (UpdPositive /\ BehindAir /\ NearAir)'
  BY <1>1, <1>3 DEF UpdPositive, BehindAir, NearAir
<1>8. (DownQuiet /\ WithinLimit)'
  BY <1>1, <1>2, <1>3 DEF DownQuiet, WithinLimit
<1>9. JobOk'
  BY <1>1, <1>3, <1>4, <1>5 DEF JobOk, TypeOK, JobType, NoPkt
<1>10. FlightOk'
  BY <1>1, <1>3, <1>5 DEF FlightOk
<1>11. DiskOk'
  <2>1. CASE grow
    BY <2>1, <1>1, <1>2, <1>3, <1>4, <1>5 DEF DiskOk, TypeOK, DiskType
  <2>2. CASE ~grow
    <3>1. res = net.res /\ net.seq + 1 + MARGIN < net.res
      BY <2>2, <1>2 DEF res, grow
    <3>2. net.res = disk.seq
      BY <1>1, <1>2, <3>1 DEF DiskOk
    <3> QED
      BY <2>2, <1>1, <1>2, <1>3, <1>4, <1>5, <3>1, <3>2 DEF DiskOk, TypeOK, DiskType
  <2> QED
    BY <2>1, <2>2
<1>12. SentBelowMemory'
  BY <1>1, <1>4, <1>5 DEF SentBelowMemory, NoPkt
<1>13. (RestartSafe /\ NonceUnique)'
  BY <1>1 DEF RestartSafe, NonceUnique
<1> QED
  BY <1>6, <1>7, <1>8, <1>9, <1>10, <1>11, <1>12, <1>13

(* A packet is encrypted under a pair that was never used and that the files *)
(* already count as used.                                                    *)
LEMMA SendSegInv == ASSUME IInv, Env = {}, send_seg PROVE IInv'
<1> USE ConstantsAssumption DEF IInv
<1>1. /\ up /\ job.writes = 0 /\ job.pkt # NoPkt
      /\ UNCHANGED <<net, session, disk, up, air>>
  BY DEF send_seg
<1>2. /\ job.pkt \in Nat \X Nat /\ job.pkt[1] = NetTx
      /\ job.pkt[2] + 1 = net.seq /\ job.iv = NetTx
  BY <1>1 DEF JobOk, TypeOK, JobType
<1> DEFINE pair == <<job.pkt[1], job.pkt[2]>>
<1>3. /\ sent' = sent \cup {pair}
      /\ reused' = IF pair \in sent THEN reused \cup {pair} ELSE reused
  <2>1. job.pkt[2] % (SEQ_LIMIT + 1) = job.pkt[2]
    BY <1>2 DEF WithinLimit, TypeOK, NetType
  <2> QED
    BY <2>1 DEF send_seg
<1>4. pair \notin sent
  BY <1>1, <1>2, NetTxNat DEF SentBelowMemory, Below
<1>5. NetTx' = NetTx /\ DiskTx' = DiskTx /\ DiskTx = NetTx
  BY <1>1 DEF NetTx, DiskTx, DiskOk
<1>6. \/ job' = NoJob
      \/ job.left > 0 /\ job' = [job EXCEPT !.pkt = NoPkt]
  BY DEF send_seg, TypeOK, JobType
<1>7. TypeOK'
  <2>1. job' \in JobType
    <3>1. NoJob \in JobType
      BY NewJobType DEF NoJob
    <3> QED
      BY <1>6, <3>1 DEF TypeOK, JobType
  <2>2. msg_out' \in [Dst -> Nat \cup {None}]
    BY DEF send_seg, TypeOK, JobType
  <2> QED
    BY <1>1, <1>2, <1>3, <2>1, <2>2 DEF TypeOK
<1>8. (UpdPositive /\ BehindAir /\ NearAir)'
  BY <1>1 DEF UpdPositive, BehindAir, NearAir
<1>9. (DownQuiet /\ WithinLimit)'
  BY <1>1 DEF DownQuiet, WithinLimit
<1>10. JobOk'
  BY <1>1, <1>2, <1>5, <1>6 DEF JobOk, TypeOK, JobType, NoJob, NewJob
<1>11. FlightOk'
  <2>1. msg_out' = msg_out \/ (job.sar \in Dst /\ msg_out' = [msg_out EXCEPT ![job.sar] = NetTx])
    BY <1>2 DEF send_seg, TypeOK, JobType
  <2>2. job.sar \in Dst => session /\ net.state # "INIT"
    BY DEF JobOk
  <2> QED
    BY <1>1, <1>5, <2>1, <2>2 DEF FlightOk, TypeOK
<1>12. DiskOk'
  BY <1>1, <1>5, <1>6 DEF DiskOk, NoJob, NewJob, TypeOK, JobType
<1>13. SentBelowMemory'
  <2>1. job'.pkt = NoPkt
    BY <1>6 DEF NoJob, NewJob, TypeOK, JobType
  <2>2. \A p \in sent : Below(p, NetTx, net.seq)
    BY <1>1, <1>2, NetTxNat DEF SentBelowMemory, Below, TypeOK, NetType
  <2>3. Below(pair, NetTx, net.seq)
    BY <1>2, NetTxNat DEF Below
  <2> QED
    BY <1>1, <1>3, <1>5, <2>1, <2>2, <2>3 DEF SentBelowMemory
<1>14. RestartSafe'
  <2>1. job.pkt[2] < disk.seq
    BY <1>1, <1>2 DEF DiskOk, TypeOK, NetType, DiskType
  <2> QED
    BY <1>1, <1>2, <1>3, <1>5, <2>1 DEF RestartSafe, DiskTx
<1>15. NonceUnique'
  BY <1>3, <1>4 DEF NonceUnique
<1> QED
  BY <1>7, <1>8, <1>9, <1>10, <1>11, <1>12, <1>13, <1>14, <1>15

(* One file after the other catches up with memory; what a start would load  *)
(* stays above every pair used at each of these points.                      *)
LEMMA WriteInv == ASSUME IInv, Env = {}, prov_file_write PROVE IInv'
<1> USE ConstantsAssumption DEF IInv
<1>1. /\ up /\ job.writes > 0
      /\ UNCHANGED <<net, session, msg_out, up, air, sent, reused>>
  BY DEF prov_file_write
<1>2. /\ job.writes \in {1, 2, 3} /\ job.iv \in Nat /\ job.left \in Nat
  BY <1>1 DEF TypeOK, JobType
<1>3. /\ job'.pkt = job.pkt /\ job'.left = job.left
      /\ job'.writes = job.writes - 1
      /\ job'.left > 0 \/ job'.pkt # NoPkt => job'.iv = job.iv /\ job'.sar = job.sar
      /\ job'.sar = job.sar \/ job'.sar = None
  BY <1>2 DEF prov_file_write, TypeOK, JobType, NoJob, NewJob
<1>4. job' \in JobType
  <2>1. NoJob \in JobType
    BY NewJobType DEF NoJob
  <2> QED
    BY <1>2, <2>1 DEF prov_file_write, TypeOK, JobType
<1>5. /\ job.writes = 3 => disk' = [disk EXCEPT !.iv = net.iv, !.upd = net.upd]
      /\ job.writes = 2 => disk' = [disk EXCEPT !.dbIv = net.iv, !.dbUpd = net.upd]
      /\ job.writes = 1 => disk' = [disk EXCEPT !.seq = net.res]
  BY <1>2 DEF prov_file_write, PendingWrite, Written
<1>6. /\ disk'.localOk = disk.localOk /\ disk'.dbOk = disk.dbOk
      /\ disk'.seq = IF job.writes = 1 THEN net.res ELSE disk.seq
      /\ disk'.dbIv = IF job.writes = 2 THEN net.iv ELSE disk.dbIv
      /\ disk'.dbUpd = IF job.writes = 2 THEN net.upd ELSE disk.dbUpd
  BY <1>2, <1>5 DEF TypeOK, DiskType
<1>7. TypeOK'
  <2>1. disk' \in DiskType
    BY <1>2, <1>5 DEF TypeOK, NetType, DiskType
  <2> QED
    BY <1>1, <1>4, <2>1 DEF TypeOK
<1>8. NetTx' = NetTx /\ DiskTx' = IF job.writes = 2 THEN NetTx ELSE DiskTx
  BY <1>1, <1>2, <1>6 DEF NetTx, DiskTx
<1>9. (UpdPositive /\ BehindAir /\ NearAir)'
  BY <1>1, <1>2, <1>6 DEF UpdPositive, BehindAir, NearAir, Epoch
<1>10. (DownQuiet /\ WithinLimit)'
  BY <1>1, <1>2, <1>6 DEF DownQuiet, WithinLimit
<1>11. JobOk'
  BY <1>1, <1>3, <1>8 DEF JobOk
<1>12. FlightOk'
  BY <1>1, <1>8 DEF FlightOk
<1>13. DiskOk'
  BY <1>1, <1>2, <1>3, <1>6, <1>8, NetTxNat DEF DiskOk, TypeOK, NetType, DiskType
<1>14. SentBelowMemory'
  BY <1>1, <1>3, <1>8 DEF SentBelowMemory
<1>15. RestartSafe'
  <2>1. \A p \in sent : Below(p, DiskTx, disk.seq)
    BY <1>1 DEF RestartSafe, DiskOk, Below, DiskTx
  <2>2. \A p \in sent : Below(p, NetTx, net.seq)
    BY <1>1, NetTxNat DEF SentBelowMemory, JobOk, Below, TypeOK, NetType, JobType
  <2>3. \A p \in sent : Below(p, DiskTx', disk'.seq)
    <3> SUFFICES ASSUME NEW p \in sent PROVE Below(p, DiskTx', disk'.seq)
      OBVIOUS
    <3>1. CASE job.writes = 1
      <4>1. DiskTx' = NetTx /\ disk'.seq = net.res /\ net.seq <= net.res
        BY <1>1, <1>6, <1>8, <3>1 DEF DiskOk, NetTx, DiskTx
      <4> QED
        BY <2>2, <4>1, NetTxNat DEF Below, TypeOK, NetType
    <3>2. CASE job.writes = 2
      <4>1. DiskTx' = NetTx /\ disk'.seq = disk.seq /\ DiskTx <= NetTx
        BY <1>1, <1>6, <1>8, <3>2 DEF DiskOk
      <4> QED
        BY <2>1, <4>1, NetTxNat DEF Below, TypeOK, DiskType
    <3>3. CASE job.writes = 3
      BY <2>1, <1>6, <1>8, <3>3
    <3> QED
      BY <1>2, <3>1, <3>2, <3>3
  <2> QED
    BY <1>1, <2>3 DEF RestartSafe, Below, DiskTx
<1>16. NonceUnique'
  BY <1>1 DEF NonceUnique
<1> QED
  BY <1>7, <1>9, <1>10, <1>11, <1>12, <1>13, <1>14, <1>15, <1>16

(* What a beacon that gets through does to the transmit IV index: it never   *)
(* goes back, it moves up whenever the sequence number restarts, and it      *)
(* stays while a message is in flight.                                       *)
LEMMA BeaconTx ==
  ASSUME IInv, session, NEW b, b = Inhibited(air), BeaconAccepted(b)
  PROVE  /\ b.iv \in Nat /\ b.upd \in BOOLEAN /\ (b.upd => b.iv > 0)
         /\ b.iv >= net.iv
         /\ TxIv(b.iv, b.upd) >= NetTx
         /\ SeqReset(b) => TxIv(b.iv, b.upd) > NetTx
         /\ ~SeqReset(b) /\ b.iv = net.iv => b.upd = net.upd
         /\ (\E d \in Dst : msg_out[d] # None) => TxIv(b.iv, b.upd) = NetTx
         /\ Epoch([iv |-> b.iv, upd |-> b.upd]) <= Epoch(air)
         /\ Epoch(air) <= Epoch([iv |-> b.iv, upd |-> b.upd]) + 1
<1> DEFINE flight == \E d \in Dst : msg_out[d] # None
<1>1. /\ net.iv \in Nat /\ net.upd \in BOOLEAN /\ (net.upd => net.iv > 0)
      /\ air.iv \in Nat /\ air.upd \in BOOLEAN /\ (air.upd => air.iv > 0)
      /\ air \in [iv : 0..MaxIv, upd : BOOLEAN]
  BY ConstantsAssumption DEF IInv, TypeOK, NetType, Beacons, UpdPositive
<1>2. b.iv = air.iv /\ b.upd = (air.upd \/ (net.upd /\ flight))
  BY <1>1 DEF Inhibited
<1>3. flight => net.state # "INIT"
  BY DEF IInv, FlightOk
<1>4. 2 * net.iv - (IF net.upd THEN 1 ELSE 0) <= 2 * air.iv - (IF air.upd THEN 1 ELSE 0)
  BY DEF IInv, BehindAir, Epoch
<1>5. net.state # "INIT" =>
        2 * air.iv - (IF air.upd THEN 1 ELSE 0) <= 2 * net.iv - (IF net.upd THEN 1 ELSE 0) + 1
  BY DEF IInv, NearAir, Epoch
<1>6. /\ ~(b.iv = net.iv /\ b.upd = net.upd /\ net.state # "INIT")
      /\ net.iv <= b.iv
      /\ ~(b.upd /\ net.upd /\ net.state # "INIT" /\ b.iv # net.iv)
  BY DEF BeaconAccepted
<1> HIDE DEF flight
<1>7. b.iv \in Nat /\ b.upd \in BOOLEAN /\ b.iv >= net.iv /\ (b.upd => b.iv > 0)
  BY <1>1, <1>2, <1>6
<1>8. CASE flight
  BY <1>1, <1>2, <1>3, <1>4, <1>5, <1>6, <1>7, <1>8 DEF TxIv, NetTx, SeqReset, Epoch, flight
<1>9. CASE ~flight
  BY <1>1, <1>2, <1>4, <1>5, <1>6, <1>7, <1>9 DEF TxIv, NetTx, SeqReset, Epoch, flight
<1> QED
  BY <1>8, <1>9

(* A beacon: the sequence number restarts only together with a transmit IV   *)
(* index above every one used.                                               *)
LEMMA BeaconInv ==
  ASSUME IInv, Env = {}, NEW rx \in Beacons, process_beacon(rx) PROVE IInv'
<1> USE ConstantsAssumption DEF IInv
<1> DEFINE b    == Inhibited(rx)
           tx   == TxIv(b.iv, b.upd)
           seq  == IF SeqReset(b) THEN 0 ELSE net.seq
           res0 == IF SeqReset(b) THEN RESERVE ELSE net.res
           save == seq = 0 \/ net.iv # b.iv \/ net.upd # b.upd
           res  == IF save /\ res0 <= seq THEN seq + RESERVE ELSE res0
<1>1. /\ Idle /\ session /\ rx = air /\ BeaconAccepted(b) /\ res <= SEQ_LIMIT
      /\ net' = beacon_update(b, seq, res)
      /\ UNCHANGED <<session, msg_out, disk, up, air, sent, reused>>
  BY DEF process_beacon, InRange
<1>2. PICK n \in 1..MaxBurst :
        job' = NewJob(IF save THEN 3 ELSE 0, tx, IF net.state = "INIT" THEN n ELSE 0, None)
  BY DEF process_beacon
<1>3. /\ b.iv \in Nat /\ b.upd \in BOOLEAN /\ (b.upd => b.iv > 0)
      /\ b.iv >= net.iv /\ tx >= NetTx
      /\ SeqReset(b) => tx > NetTx
      /\ ~SeqReset(b) /\ b.iv = net.iv => b.upd = net.upd
      /\ (\E d \in Dst : msg_out[d] # None) => tx = NetTx
      /\ Epoch([iv |-> b.iv, upd |-> b.upd]) <= Epoch(air)
      /\ Epoch(air) <= Epoch([iv |-> b.iv, upd |-> b.upd]) + 1
  BY <1>1, BeaconTx
<1> DEFINE st == net'.state
<1>4. /\ net'.iv = b.iv /\ net'.upd = b.upd /\ net'.seq = seq /\ net'.res = res
      /\ st \in {"NORMAL", "UPDATING"}
  BY <1>1 DEF beacon_update, TypeOK, NetType, IvStates
<1>5. NetTx' = tx /\ DiskTx' = DiskTx
  BY <1>1, <1>4 DEF NetTx, DiskTx
<1>6. up /\ job.writes = 0 /\ job.pkt = NoPkt
  BY <1>1 DEF Idle, NoJob, NewJob
<1>7. /\ job'.writes = (IF save THEN 3 ELSE 0) /\ job'.pkt = NoPkt /\ job'.iv = tx
      /\ job'.sar = None
  BY <1>2 DEF NewJob
<1>8. tx \in Nat /\ NetTx \in Nat /\ DiskTx \in Nat
  BY <1>3, NetTxNat DEF TxIv
<1>9. seq \in Nat /\ res \in Nat /\ net.seq \in Nat /\ net.res \in Nat
  BY DEF TypeOK, NetType
<1>10. save => seq <= res
  BY <1>9
<1>11. ~save => /\ seq = net.seq /\ res = net.res /\ net.iv = b.iv /\ net.upd = b.upd
  BY <1>3 DEF SeqReset
<1>12. seq = net.seq \/ (seq = 0 /\ tx > NetTx)
  BY <1>3
<1>13. res = 0 \/ seq <= res
  BY <1>6, <1>9, <1>10, <1>11 DEF DiskOk
<1>14. net' \in NetType
  BY <1>1, <1>3, <1>9 DEF beacon_update, TypeOK, NetType, IvStates
<1> HIDE DEF b, tx, seq, res0, save, res, st
<1>15. TypeOK'
  <2>1. job' \in JobType
    BY <1>2, <1>8, NewJobType
  <2> QED
    BY <1>1, <1>14, <2>1 DEF TypeOK
<1>16. (UpdPositive /\ BehindAir /\ NearAir)'
  <2>1. (UpdPositive /\ BehindAir)'
    BY <1>1, <1>3, <1>4 DEF UpdPositive, BehindAir
  <2>2. NearAir'
    BY <1>1, <1>3, <1>4 DEF NearAir
  <2> QED
    BY <2>1, <2>2
<1>17. (DownQuiet /\ WithinLimit)'
  <2>1. seq <= SEQ_LIMIT
    BY <1>12 DEF WithinLimit
  <2> QED
    BY <1>1, <1>4, <1>6, <2>1 DEF DownQuiet, WithinLimit
<1>18. JobOk'
  BY <1>5, <1>7 DEF JobOk
<1>19. FlightOk'
  BY <1>1, <1>3, <1>4, <1>5 DEF FlightOk, st
<1>20. DiskOk'
  <2>1. DiskTx = NetTx /\ disk.localOk /\ disk.dbOk /\ disk.dbIv = net.iv
        /\ disk.dbUpd = net.upd /\ net.seq <= disk.seq /\ (net.res = 0 \/ net.res = disk.seq)
    BY <1>6 DEF DiskOk, DiskTx, NetTx
  <2>2. CASE save
    BY <1>1, <1>3, <1>4, <1>5, <1>7, <1>10, <2>1, <2>2 DEF DiskOk
  <2>3. CASE ~save
    BY <1>1, <1>3, <1>4, <1>5, <1>7, <1>11, <1>13, <2>1, <2>3 DEF DiskOk
  <2> QED
    BY <2>2, <2>3
<1>21. SentBelowMemory'
  <2>1. \A p \in sent : Below(p, NetTx, net.seq)
    BY <1>6 DEF SentBelowMemory
  <2>2. \A p \in sent : Below(p, tx, seq)
    BY <1>3, <1>8, <1>9, <1>12, <2>1 DEF Below, TypeOK
  <2> QED
    BY <1>1, <1>4, <1>5, <1>7, <2>2 DEF SentBelowMemory
<1>22. (RestartSafe /\ NonceUnique)'
  BY <1>1 DEF RestartSafe, NonceUnique
<1> QED
  BY <1>15, <1>16, <1>17, <1>18, <1>19, <1>20, <1>21, <1>22

-----------------------------------------------------------------------------
(* The invariant is inductive. *)
LEMMA NextInv == ASSUME Env = {}, IInv, [Next]_vars PROVE IInv'
<1>1. CASE UNCHANGED vars
  BY <1>1 DEF vars, IInv, TypeOK, UpdPositive, BehindAir, NearAir, DownQuiet,
              JobOk, FlightOk, DiskOk, WithinLimit, SentBelowMemory,
              RestartSafe, NonceUnique, NetTx, DiskTx
<1>2. CASE Next
  BY <1>2, NetworkAdvanceInv, SessionOpenInv, SessionCloseInv, BeaconInv,
     SendUnackedInv, SendSegmentedInv, ResendInv, FlushInv, NextSeqInv,
     SendSegInv, WriteInv, StopInv, StopInWriteInv, ReadInv DEF Next
<1> QED
  BY <1>1, <1>2

LEMMA InvariantHolds == ASSUME Env = {} PROVE Spec => []IInv
  BY InitInv, NextInv, PTL DEF Spec

(* Types are kept, for every choice of reserve, margin, limit and bounds. *)
THEOREM TypeCorrect == ASSUME Env = {} PROVE Spec => []TypeOK
<1>1. IInv => TypeOK
  BY DEF IInv
<1> QED
  BY <1>1, InvariantHolds, PTL

(* In an orderly network no pair is encrypted under twice: get_next_seq,     *)
(* beacon_update and the reservation on disk together, across any number of  *)
(* restarts.                                                                 *)
THEOREM NoncesUnique == ASSUME Env = {} PROVE Spec => []NonceUnique
<1>1. IInv => NonceUnique
  BY DEF IInv
<1> QED
  BY <1>1, InvariantHolds, PTL

(* What a start would load is above every pair used, also when the process   *)
(* ends between the IV index and the sequence number being written.          *)
THEOREM RestartsSafe == ASSUME Env = {} PROVE Spec => []RestartSafe
<1>1. IInv => RestartSafe
  BY DEF IInv
<1> QED
  BY <1>1, InvariantHolds, PTL

(* A message in flight is retransmitted with the current transmit IV index:  *)
(* what the inhibition in process_beacon is for.                             *)
THEOREM InFlightCurrent == ASSUME Env = {} PROVE Spec => []InFlightIvCurrent
<1>1. IInv => InFlightIvCurrent
  BY DEF IInv, FlightOk, InFlightIvCurrent, NetTx
<1> QED
  BY <1>1, InvariantHolds, PTL

(* The only step of a running process that changes the IV index, its update  *)
(* flag or lowers the sequence number is a beacon.                           *)
LEMMA MemorySteps ==
  ASSUME IInv, Env = {}, Next, up, up'
  PROVE  \/ net'.iv = net.iv /\ net'.upd = net.upd /\ net'.seq >= net.seq
         \/ /\ NetTx' >= NetTx
            /\ net'.seq < net.seq => NetTx' > NetTx
            /\ job.pkt = NoPkt
            /\ UNCHANGED sent
<1> USE DEF IInv
<1>1. net.seq \in Nat
  BY DEF TypeOK, NetType
<1>2. ASSUME NEW rx \in Beacons, process_beacon(rx)
      PROVE  /\ NetTx' >= NetTx
             /\ net'.seq < net.seq => NetTx' > NetTx
             /\ job.pkt = NoPkt
             /\ UNCHANGED sent
  <2> DEFINE b == Inhibited(rx)
  <2>1. rx = air /\ session /\ BeaconAccepted(b) /\ Idle
    BY <1>2 DEF process_beacon
  <2>2. NetTx' = TxIv(b.iv, b.upd)
    BY <1>2 DEF process_beacon, beacon_update, NetTx
  <2>3. net'.seq = IF SeqReset(b) THEN 0 ELSE net.seq
    BY <1>2 DEF process_beacon, beacon_update
  <2>4. TxIv(b.iv, b.upd) >= NetTx /\ (SeqReset(b) => TxIv(b.iv, b.upd) > NetTx)
    BY <2>1, BeaconTx
  <2>5. job.pkt = NoPkt /\ UNCHANGED sent
    BY <1>2, <2>1 DEF process_beacon, Idle, NoJob, NewJob
  <2> HIDE DEF b
  <2> QED
    BY <1>1, <2>2, <2>3, <2>4, <2>5
<1>3. ASSUME NetworkAdvance \/ net_session_close \/ SendUnacked \/ send_seg \/ prov_file_write
      PROVE  net' = net
  BY <1>3 DEF NetworkAdvance, net_session_close, SendUnacked, send_seg, prov_file_write
<1>4. ASSUME NEW d \in Dst, SendSegmented(d) \/ resend_segs(d) \/ flush_sar(d)
      PROVE  net' = net
  BY <1>4 DEF SendSegmented, resend_segs, flush_sar
<1>5. ASSUME net_session_open \/ get_next_seq
      PROVE  net'.iv = net.iv /\ net'.upd = net.upd /\ net'.seq >= net.seq
  <2>1. CASE net_session_open
    BY <1>1, <2>1 DEF net_session_open, TypeOK, NetType
  <2>2. CASE get_next_seq
    BY <1>1, <2>2 DEF get_next_seq, TypeOK, NetType
  <2> QED
    BY <1>5, <2>1, <2>2
<1>6. ~(Stop \/ StopInWrite \/ prov_db_read)
  BY DEF Stop, StopInWrite, Stopped, prov_db_read
<1> QED
  BY <1>1, <1>2, <1>3, <1>4, <1>5, <1>6 DEF Next

(* A beacon never takes the transmit IV index back. *)
THEOREM TxIvNeverBack == ASSUME Env = {} PROVE Spec => TxIvMonotone
<1>1. ASSUME IInv, [Next]_vars
      PROVE  [up /\ up' => TxIv(net'.iv, net'.upd) >= TxIv(net.iv, net.upd)]_vars
  <2>1. CASE UNCHANGED vars
    BY <2>1
  <2>2. CASE Next
    <3> SUFFICES ASSUME up, up' PROVE NetTx' >= NetTx
      BY DEF NetTx
    <3>1. NetTx \in Nat
      BY <1>1, NetTxNat DEF IInv
    <3> QED
      BY <1>1, <2>2, <3>1, MemorySteps DEF NetTx
  <2> QED
    BY <1>1, <2>1, <2>2
<1> QED
  BY <1>1, InvariantHolds, PTL DEF Spec, TxIvMonotone

(* The sequence number of a running process goes back only to count under a  *)
(* transmit IV index above every one used so far.                            *)
THEOREM ResetsOnNewIv == ASSUME Env = {} PROVE Spec => ResetOnlyOnNewIv
<1>1. ASSUME IInv, [Next]_vars
      PROVE  [up /\ up' /\ net'.seq < net.seq =>
                \A p \in sent : p[1] < TxIv(net'.iv, net'.upd)]_vars
  <2>1. CASE UNCHANGED vars
    BY <2>1
  <2>2. CASE Next
    <3> SUFFICES ASSUME up, up', net'.seq < net.seq, NEW p \in sent
                 PROVE  p[1] < NetTx'
      BY DEF NetTx
    <3>1. NetTx \in Nat /\ net.seq \in Nat /\ p \in Nat \X Nat
      BY <1>1, NetTxNat DEF IInv, TypeOK, NetType
    <3>2. net'.seq \in Nat /\ NetTx' \in Nat
      <4>1. IInv'
        BY <1>1, NextInv
      <4> QED
        BY <4>1 DEF IInv, TypeOK, NetType, UpdPositive, NetTx, TxIv
    <3>3. NetTx' > NetTx /\ job.pkt = NoPkt
      BY <1>1, <2>2, <3>1, <3>2, MemorySteps
    <3>4. Below(p, NetTx, net.seq)
      BY <1>1, <3>3 DEF IInv, SentBelowMemory
    <3> QED
      BY <3>1, <3>2, <3>3, <3>4 DEF Below
  <2> QED
    BY <1>1, <2>1, <2>2
<1> QED
  BY <1>1, InvariantHolds, PTL DEF Spec, ResetOnlyOnNewIv
-----------------------------------------------------------------------------
(***************************************************************************)
(* The other end: what Replay, the provisioner's handler of the messages   *)
(* of remote nodes, makes of the numbers they were sent with.              *)
(***************************************************************************)

\* The condition the theorems need: a network that starts at IV index 1 or
\* later and stays below the wrap of the comparison.
IvFits == FirstIv \in 1..MaxIv /\ MaxIv < IV_MOD /\ ~Crash

\* The IV index of the network only rises, so no message carries one below the
\* first.
IvFromFirst ==
  /\ \A s \in Src : next[s].iv >= FirstIv
  /\ \A m \in underway : m.iv >= FirstIv

\* Memory and database agree on every node but the one whose record is being
\* written, so a restart changes nothing.
DatabaseFollows ==
  IF unsaved = None
  THEN db = remote
  ELSE /\ unsaved.src \in Src
       /\ remote = [db EXCEPT ![unsaved.src] = NumbersOf(unsaved)]

\* The recorded IV index is the highest of the messages handled.
RecordHighest ==
  \A i \in DOMAIN delivered : delivered[i].iv <= remote[delivered[i].src].iv

\* A record that is not empty is that of a message handled.
RecordEarned ==
  \A s \in Src :
    \/ remote[s] = [iv |-> 0, seq |-> 0]
    \/ \E i \in DOMAIN delivered :
         delivered[i].src = s /\ NumbersOf(delivered[i]) = remote[s]

ReplayInv ==
  /\ ReplayTypeOK /\ IvFromFirst /\ DatabaseFollows /\ RecordHighest /\ RecordEarned
  /\ IvNeverBack /\ NoFalseAlarm
-----------------------------------------------------------------------------
\* A number below the modulus is its own remainder.
LEMMA ModSmall ==
  ASSUME NEW n \in Nat \ {0}, NEW a \in 0..(n - 1)
  PROVE  a % n = a
BY SMT

\* Below the wrap the comparison of the handler is one of IV indexes.
LEMMA ReplayedIsOlderIv ==
  ASSUME IvFits, NEW m \in Messages, NEW r \in Numbers
  PROVE  Replayed(m, r) <=> \/ r.iv > m.iv
                            \/ r.iv = m.iv /\ m.seq = 0 /\ r.seq = 0
<1>1. m.iv \in 0..MaxIv /\ r.iv \in 0..MaxIv
  BY DEF Messages, Numbers
<1>2. IV_MOD \in Nat \ {0} /\ m.iv \in 0..(IV_MOD - 1) /\ r.iv \in 0..(IV_MOD - 1)
  BY <1>1, ReplayAssumption DEF IvFits
<1>3. m.iv % IV_MOD = m.iv /\ r.iv % IV_MOD = r.iv
  BY <1>2, ModSmall
<1> QED
  BY <1>3 DEF Replayed

\* After node_new every record is empty and nothing was handled.
LEMMA ReplayInitEstablishes ==
  ASSUME IvFits, ReplayInit
  PROVE  ReplayInv
<1>1. ReplayTypeOK
  BY ReplayAssumption DEF IvFits, ReplayInit, ReplayTypeOK, Numbers
<1>2. IvFromFirst
  BY ReplayAssumption DEF IvFits, ReplayInit, IvFromFirst
<1>3. DatabaseFollows /\ RecordHighest /\ RecordEarned /\ IvNeverBack /\ NoFalseAlarm
  BY DEF ReplayInit, DatabaseFollows, RecordHighest, RecordEarned, IvNeverBack, NoFalseAlarm
<1> QED
  BY <1>1, <1>2, <1>3 DEF ReplayInv

\* Steps that leave the provisioner alone.
LEMMA ReplayNetworkSteps ==
  ASSUME IvFits, ReplayInv,
         (\E s \in Src : Send(s) \/ IvUpdate(s)) \/ Lose \/ UNCHANGED replayVars
  PROVE  ReplayInv'
<1> USE ReplayAssumption
<1>1. UNCHANGED <<remote, db, unsaved, delivered, flagged>>
  BY DEF Send, IvUpdate, Lose, replayVars
<1>2. (DatabaseFollows /\ RecordHighest /\ RecordEarned /\ IvNeverBack /\ NoFalseAlarm)'
  BY <1>1 DEF ReplayInv, DatabaseFollows, RecordHighest, RecordEarned, IvNeverBack, NoFalseAlarm
<1>3. (ReplayTypeOK /\ IvFromFirst)'
  <2>1. ASSUME NEW s \in Src, Send(s)
        PROVE  (ReplayTypeOK /\ IvFromFirst)'
    <3>1. next[s] \in [iv : 0..MaxIv, seq : 0..(MaxSeq + 1)]
      BY DEF ReplayInv, ReplayTypeOK
    <3> DEFINE m == [src |-> s, iv |-> next[s].iv, seq |-> next[s].seq]
    <3>2. m \in Messages /\ m.iv >= FirstIv
      BY <2>1, <3>1 DEF Send, Messages, ReplayInv, IvFromFirst
    <3>3. next' \in [Src -> [iv : 0..MaxIv, seq : 0..(MaxSeq + 1)]]
          /\ \A t \in Src : next'[t].iv >= FirstIv
      BY <2>1, <3>1 DEF Send, ReplayInv, ReplayTypeOK, IvFromFirst
    <3>4. underway' = underway \cup {m}
      BY <2>1 DEF Send
    <3> QED
      BY <1>1, <3>2, <3>3, <3>4 DEF ReplayInv, ReplayTypeOK, IvFromFirst
  <2>2. ASSUME NEW s \in Src, IvUpdate(s)
        PROVE  (ReplayTypeOK /\ IvFromFirst)'
    <3>1. next[s] \in [iv : 0..MaxIv, seq : 0..(MaxSeq + 1)]
      BY DEF ReplayInv, ReplayTypeOK
    <3>2. next' \in [Src -> [iv : 0..MaxIv, seq : 0..(MaxSeq + 1)]]
          /\ \A t \in Src : next'[t].iv >= FirstIv
      BY <2>2, <3>1 DEF IvUpdate, ReplayInv, ReplayTypeOK, IvFromFirst, IvFits
    <3> QED
      BY <1>1, <2>2, <3>2 DEF ReplayInv, ReplayTypeOK, IvFromFirst, IvUpdate
  <2>3. CASE Lose \/ UNCHANGED replayVars
    BY <1>1, <2>3 DEF Lose, replayVars, ReplayInv, ReplayTypeOK, IvFromFirst
  <2> QED
    BY <2>1, <2>2, <2>3
<1> QED
  BY <1>2, <1>3 DEF ReplayInv

\* A message arrives: a replay, one no model takes, or one that is handled.
LEMMA ReplayHandlerStep ==
  ASSUME IvFits, ReplayInv, NEW m \in underway, node_local_data_handler(m)
  PROVE  ReplayInv'
<1> USE ReplayAssumption
<1>0. ReplayTypeOK /\ m \in Messages /\ m.src \in Src /\ m.iv \in 0..MaxIv /\ m.seq \in 0..MaxSeq
      /\ remote[m.src] \in Numbers /\ m.iv >= FirstIv /\ FirstIv > 0 /\ unsaved = None
  BY DEF ReplayInv, ReplayTypeOK, Messages, IvFromFirst, node_local_data_handler, IvFits
<1>1. underway' \subseteq underway /\ next' = next /\ db' = db
  BY DEF node_local_data_handler
<1>2. IvFromFirst'
  BY <1>1 DEF ReplayInv, IvFromFirst
<1>3. CASE Replayed(m, remote[m.src]) /\ flagged' = m
           /\ UNCHANGED <<remote, unsaved, delivered>>
  <2>1. ReplayTypeOK'
    BY <1>0, <1>1, <1>3 DEF ReplayTypeOK
  <2>2. (DatabaseFollows /\ RecordHighest /\ RecordEarned /\ IvNeverBack)'
    BY <1>1, <1>3 DEF ReplayInv, DatabaseFollows, RecordHighest, RecordEarned, IvNeverBack
  <2>3. NoFalseAlarm'
    <3> DEFINE r == remote[m.src]
    <3>1. r.iv > m.iv \/ (r.iv = m.iv /\ m.seq = 0 /\ r.seq = 0)
      BY <1>0, <1>3, ReplayedIsOlderIv
    <3>2. r # [iv |-> 0, seq |-> 0]
      BY <1>0, <3>1
    <3>3. PICK i \in DOMAIN delivered :
            delivered[i].src = m.src /\ NumbersOf(delivered[i]) = r
      BY <1>0, <3>2 DEF ReplayInv, RecordEarned
    <3>4. delivered[i].iv = r.iv /\ delivered[i].seq = r.seq /\ r.iv \in Nat /\ r.seq \in Nat
      BY <1>0, <3>3 DEF NumbersOf, Numbers
    <3>5. ~Newer(m, delivered[i])
      BY <1>0, <3>1, <3>4 DEF Newer
    <3> QED
      BY <1>3, <3>3, <3>5 DEF NoFalseAlarm
  <2> QED
    BY <1>2, <2>1, <2>2, <2>3 DEF ReplayInv
<1>4. CASE UNCHANGED <<delivered, remote, unsaved, flagged>>
  BY <1>0, <1>1, <1>2, <1>4
     DEF ReplayInv, ReplayTypeOK, DatabaseFollows, RecordHighest, RecordEarned, IvNeverBack, NoFalseAlarm
<1>5. CASE /\ ~Replayed(m, remote[m.src])
           /\ delivered' = Append(delivered, m)
           /\ remote' = [remote EXCEPT ![m.src] = Recorded(m)]
           /\ unsaved' = m /\ UNCHANGED flagged
  <2>0a. /\ delivered \in Seq(Messages) /\ Len(delivered) \in Nat
         /\ DOMAIN delivered = 1..Len(delivered)
    BY <1>0 DEF ReplayTypeOK
  <2>0b. \A i \in DOMAIN delivered : delivered[i] \in Messages
    BY <2>0a
  <2>0c. \A i \in DOMAIN delivered :
           delivered[i].src \in Src /\ delivered[i].iv \in Nat
    BY <2>0b DEF Messages
  <2>0d. /\ DOMAIN delivered' = 1..(Len(delivered) + 1)
         /\ \A i \in DOMAIN delivered : delivered'[i] = delivered[i]
         /\ delivered'[Len(delivered) + 1] = m
    BY <1>0, <1>5, <2>0a
  <2>0. /\ Len(delivered) \in Nat
        /\ DOMAIN delivered = 1..Len(delivered)
        /\ DOMAIN delivered' = 1..(Len(delivered) + 1)
        /\ \A i \in DOMAIN delivered :
             /\ delivered'[i] = delivered[i]
             /\ delivered[i].src \in Src /\ delivered[i].iv \in Nat
        /\ delivered'[Len(delivered) + 1] = m
    BY <2>0a, <2>0c, <2>0d
  <2>1. NumbersOf(m) \in Numbers /\ NumbersOf(m).iv = m.iv
    BY <1>0 DEF NumbersOf, Numbers
  <2>2. ReplayTypeOK'
    BY <1>0, <1>1, <1>5, <2>1 DEF ReplayTypeOK, Recorded
  <2>3. remote[m.src].iv <= m.iv /\ remote[m.src].iv \in Nat
    BY <1>0, <1>5, ReplayedIsOlderIv DEF Numbers
  <2>4. DatabaseFollows'
    BY <1>0, <1>1, <1>5, NoneAssumption DEF ReplayInv, DatabaseFollows, Recorded
  <2>5. \A i \in DOMAIN delivered : delivered[i].src = m.src => delivered[i].iv <= m.iv
    BY <1>0, <2>0, <2>3 DEF ReplayInv, RecordHighest
  <2>6. remote'[m.src] = NumbersOf(m) /\ \A s \in Src : s # m.src => remote'[s] = remote[s]
    BY <1>0, <1>5 DEF ReplayTypeOK, Recorded
  <2>7. RecordHighest'
    <3> SUFFICES ASSUME NEW i \in DOMAIN delivered'
                 PROVE  delivered'[i].iv <= remote'[delivered'[i].src].iv
      BY DEF RecordHighest
    <3>1. CASE i = Len(delivered) + 1
      BY <1>0, <2>0, <2>1, <2>6, <3>1
    <3>2. CASE i # Len(delivered) + 1
      <4>1. i \in DOMAIN delivered
        BY <2>0, <3>2
      <4>2. CASE delivered[i].src = m.src
        BY <2>0, <2>1, <2>5, <2>6, <4>1, <4>2
      <4>3. CASE delivered[i].src # m.src
        BY <2>0, <2>6, <4>1, <4>3 DEF ReplayInv, RecordHighest
      <4> QED
        BY <4>2, <4>3
    <3> QED
      BY <3>1, <3>2
  <2>8. RecordEarned'
    <3> SUFFICES ASSUME NEW s \in Src
                 PROVE  \/ remote'[s] = [iv |-> 0, seq |-> 0]
                        \/ \E i \in DOMAIN delivered' :
                             delivered'[i].src = s /\ NumbersOf(delivered'[i]) = remote'[s]
      BY DEF RecordEarned
    <3>1. CASE s = m.src
      BY <2>0, <2>6, <3>1
    <3>2. CASE s # m.src
      <4>1. remote'[s] = remote[s]
        BY <2>6, <3>2
      <4>2. \/ remote[s] = [iv |-> 0, seq |-> 0]
            \/ \E i \in DOMAIN delivered :
                 delivered[i].src = s /\ NumbersOf(delivered[i]) = remote[s]
        BY DEF ReplayInv, RecordEarned
      <4> QED
        BY <2>0, <4>1, <4>2
    <3> QED
      BY <3>1, <3>2
  <2>9. IvNeverBack'
    <3> SUFFICES ASSUME NEW i \in DOMAIN delivered', NEW j \in DOMAIN delivered', i < j,
                        delivered'[i].src = delivered'[j].src
                 PROVE  delivered'[j].iv >= delivered'[i].iv
      BY DEF IvNeverBack
    <3>1. i \in DOMAIN delivered
      BY <2>0
    <3>2. CASE j = Len(delivered) + 1
      BY <1>0, <2>0, <2>5, <3>1, <3>2
    <3>3. CASE j # Len(delivered) + 1
      BY <2>0, <3>1, <3>3 DEF ReplayInv, IvNeverBack
    <3> QED
      BY <3>2, <3>3
  <2>10. NoFalseAlarm'
    BY <1>5, <2>0 DEF ReplayInv, NoFalseAlarm
  <2> QED
    BY <1>2, <2>2, <2>4, <2>7, <2>8, <2>9, <2>10 DEF ReplayInv
<1> QED
  BY <1>3, <1>4, <1>5 DEF node_local_data_handler

\* The record is written, or the process starts again from it.
LEMMA ReplayDatabaseSteps ==
  ASSUME IvFits, ReplayInv, prov_db_node_set_iv_seq \/ Restart
  PROVE  ReplayInv'
<1>1. UNCHANGED <<next, underway, delivered, flagged>> /\ unsaved' = None
  BY DEF prov_db_node_set_iv_seq, Restart
<1>2. remote' = remote /\ db' = remote
  BY DEF prov_db_node_set_iv_seq, Restart, ReplayInv, DatabaseFollows, IvFits, Recorded
<1>3. ReplayTypeOK'
  BY <1>1, <1>2 DEF ReplayInv, ReplayTypeOK
<1> QED
  BY <1>1, <1>2, <1>3
     DEF ReplayInv, IvFromFirst, DatabaseFollows, RecordHighest, RecordEarned, IvNeverBack, NoFalseAlarm

\* The invariant holds throughout.
LEMMA ReplayInductive ==
  ASSUME IvFits
  PROVE  ReplaySpec => []ReplayInv
<1>1. ReplayInit => ReplayInv
  BY ReplayInitEstablishes
<1>2. ReplayInv /\ [ReplayNext]_replayVars => ReplayInv'
  BY ReplayNetworkSteps, ReplayHandlerStep, ReplayDatabaseSteps DEF ReplayNext
<1> QED
  BY <1>1, <1>2, PTL DEF ReplaySpec

(* Every variable keeps its type, and every message on the air or handled is *)
(* within the bounds, for any number of nodes.                               *)
THEOREM ReplayTypeCorrect ==
  ASSUME IvFits
  PROVE  ReplaySpec => []ReplayTypeOK
<1>1. ReplayInv => ReplayTypeOK
  BY DEF ReplayInv
<1> QED
  BY <1>1, ReplayInductive, PTL

(* No message of an earlier IV index than one of the same node already       *)
(* handled is handed to a model by node_local_data_handler, for any number   *)
(* of nodes, messages and restarts.                                          *)
THEOREM OldIvRefused ==
  ASSUME IvFits
  PROVE  ReplaySpec => []IvNeverBack
<1>1. ReplayInv => IvNeverBack
  BY DEF ReplayInv
<1> QED
  BY <1>1, ReplayInductive, PTL

(* Whatever node_local_data_handler calls a replay is a message handled      *)
(* before or one older than such a message.                                  *)
THEOREM AlarmsJustified ==
  ASSUME IvFits
  PROVE  ReplaySpec => []NoFalseAlarm
<1>1. ReplayInv => NoFalseAlarm
  BY DEF ReplayInv
<1> QED
  BY <1>1, ReplayInductive, PTL
=============================================================================
