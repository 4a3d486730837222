---------------------------- MODULE AddressPool ----------------------------
(***************************************************************************)
(* The unicast addresses of provisioned nodes: the address pool of         *)
(* blueZ/mesh/net.c, the provisionings that draw from it (prov.c), the     *)
(* nodes that hold blocks of it (config-client.c resets them) and the      *)
(* database from which a start rebuilds it (prov-db.c).                    *)
(***************************************************************************)
EXTENDS Integers, Sequences, SequencesExt

CONSTANTS
  Ranges,   \* allocatedUnicastRange of the database, in the file's order
  None,     \* no provisioning under way
  MaxEle,   \* bound: elements of a device
  MaxDb,    \* bound: nodes in the database
  Env       \* "merge": blocks are released next to free ones;
            \* "reset": nodes are reset

Span(min, max) == [min |-> min, max |-> max]

\* A range is not empty and starts above the unassigned address 0.
RangeType == {r \in [min : Nat \ {0}, max : Nat] : r.min <= r.max}
BlockType == [addr : Nat \ {0}, num : 1..MaxEle]

\* parse_unicast_range refuses a file with an empty range.  The numbers need
\* no width: a unicast address is below 2^15, and while ranges and blocks
\* divide the file's addresses none of the sums is more than one above them.
ASSUME PoolAssumption ==
  /\ Ranges \in Seq(RangeType)
  /\ None \notin BlockType
  /\ MaxEle \in Nat \ {0}
  /\ MaxDb \in Nat
  /\ Env \subseteq {"merge", "reset"}

VARIABLES
  pool,   \* net.address_pool, a list of ranges
  prov,   \* the block of the provisioning under way (prov->new_addr, num_ele)
  lost,   \* blocks of provisionings that a disconnect cut off
  nodes,  \* blocks of the provisioned nodes in memory
  db,     \* blocks of the nodes in prov_db.json, in its order
  read,   \* how many nodes of the database memory has or has had: all of
          \* them once a start has read it
  up      \* mesh_init runs, or has come to its main loop

vars == <<pool, prov, lost, nodes, db, read, up>>

\* The addresses of a range, of the whole list and of a block.
Covers(r) == r.min..r.max
PoolAddresses(p) == UNION {Covers(p[i]) : i \in DOMAIN p}
BlockAddresses(b) == b.addr..(b.addr + b.num - 1)

AllocatedAddresses == PoolAddresses(Ranges)
-----------------------------------------------------------------------------
(* The pool's operations, on a list of ranges. *)

\* Mutant of net_obtain_address: a range one too small fits.
net_obtain_address_offbyone(p, num) ==
  LET i == SelectInSeq(p, LAMBDA r : r.max - r.min >= num - 2)
  IN IF i = 0 THEN [addr |-> 0, pool |-> p]
     ELSE [addr |-> p[i].min,
           pool |-> IF p[i].min + num > p[i].max THEN RemoveAt(p, i)
                    ELSE ReplaceAt(p, i, Span(p[i].min + num, p[i].max))]

\* match_address_range, on the range found first.
FirstLarge(p, num) == SelectInSeq(p, LAMBDA r : r.max - r.min >= num - 1)

\* First fit, from the low end; address 0 when no range is large enough.
net_obtain_address(p, num) ==
  LET i == FirstLarge(p, num)
  IN IF i = 0 THEN [addr |-> 0, pool |-> p]
     ELSE [addr |-> p[i].min,
           pool |-> IF p[i].min + num > p[i].max THEN RemoveAt(p, i)
                    ELSE ReplaceAt(p, i, Span(p[i].min + num, p[i].max))]

\* The order of the list: higher ranges first (max in the high 16 bits).
range_cmp(r, s) == IF s.max # r.max THEN s.max - r.max ELSE s.min - r.min

\* g_list_insert_sorted: before the first range that does not come earlier.
FirstAfter(p, r) == SelectInSeq(p, LAMBDA s : range_cmp(r, s) <= 0)

InsertSorted(p, r) ==
  LET i == FirstAfter(p, r)
  IN IF i = 0 THEN Append(p, r) ELSE InsertAt(p, i, r)

\* The ranges of the list that a released block is merged with.
JoinsAbove(r, b) == r.min = b.addr + b.num + 1
JoinsBelow(r, b) == r.max = b.addr - 1
Joins(r, b) == JoinsAbove(r, b) \/ JoinsBelow(r, b)
FirstJoining(p, b) == SelectInSeq(p, LAMBDA r : Joins(r, b))

\* Mutant of net_release_address: the last address is left out.
net_release_address_short(p, b) ==
  InsertSorted(p, Span(b.addr, b.addr + b.num - 2))

\* The first range that joins is widened; otherwise a range of its own.
net_release_address(p, b) ==
  LET i == FirstJoining(p, b)
  IN IF i = 0 THEN InsertSorted(p, Span(b.addr, b.addr + b.num - 1))
     ELSE IF JoinsAbove(p[i], b) THEN ReplaceAt(p, i, Span(b.addr, p[i].max))
     ELSE ReplaceAt(p, i, Span(p[i].min, b.addr + b.num + 1))

Fits(r, b) == r.min <= b.addr /\ b.addr + b.num - 1 <= r.max
FirstAround(p, b) == SelectInSeq(p, LAMBDA r : Fits(r, b))

\* The range is inserted unless nothing is left of it.
InsertRest(p, r) == IF r.min > r.max THEN p ELSE InsertSorted(p, r)

Below(r, b) == Span(r.min, b.addr - 1)
Above(r, b) == Span(b.addr + b.num, r.max)

\* Mutant of net_reserve_address_range: the part above the block is dropped.
net_reserve_address_range_onesided(p, b) ==
  LET i == FirstAround(p, b)
  IN IF i = 0 THEN [ok |-> FALSE, pool |-> p]
     ELSE [ok |-> TRUE, pool |-> InsertRest(RemoveAt(p, i), Below(p[i], b))]

\* The block is cut out of the first range that contains it; what is left of
\* the range goes back into the list, the part below the block first.
net_reserve_address_range(p, b) ==
  LET i == FirstAround(p, b)
  IN IF i = 0 THEN [ok |-> FALSE, pool |-> p]
     ELSE [ok   |-> TRUE,
           pool |-> InsertRest(InsertRest(RemoveAt(p, i), Below(p[i], b)),
                               Above(p[i], b))]
-----------------------------------------------------------------------------
\* The main loop runs; until then mesh_init reads the database.
Running == up /\ read = Len(db)

\* Capabilities of a device arrive: prov_data_ready takes a block, or gives up
\* the provisioning, with nothing to release, when the pool has none.
ProvCaps(num) ==
  LET got == net_obtain_address(pool, num)
  IN /\ Running /\ prov = None
     /\ got.addr # 0
     /\ prov' = [addr |-> got.addr, num |-> num]
     /\ pool' = got.pool
     /\ UNCHANGED <<lost, nodes, db, read, up>>

MayRelease(b) == "merge" \in Env \/ \A i \in DOMAIN pool : ~Joins(pool[i], b)

\* prov_complete with an error.
ProvFails ==
  /\ Running /\ prov # None /\ MayRelease(prov)
  /\ pool' = net_release_address(pool, prov)
  /\ prov' = None
  /\ UNCHANGED <<lost, nodes, db, read, up>>

\* The device disconnects: nothing completes the provisioning, so its block
\* is neither released nor recorded (property_changed, disconnect_device).
ProvCutOff ==
  /\ Running /\ prov # None
  /\ lost' = lost \cup {prov}
  /\ prov' = None
  /\ UNCHANGED <<pool, nodes, db, read, up>>

\* prov_complete without error: the node has its address, and mesh_prov_done
\* appends it to the database.
ProvDone ==
  /\ Running /\ prov # None /\ Len(db) < MaxDb
  /\ nodes' = nodes \cup {prov}
  /\ db' = Append(db, prov)
  /\ read' = read + 1
  /\ prov' = None
  /\ UNCHANGED <<pool, lost, up>>

\* OP_NODE_RESET_STATUS: the block is released and the node freed; the
\* database keeps the node ("TODO: Remove node info from database").
NodeReset(b) ==
  /\ Running /\ "reset" \in Env /\ MayRelease(b)
  /\ pool' = net_release_address(pool, b)
  /\ nodes' = nodes \ {b}
  /\ UNCHANGED <<prov, lost, db, read, up>>

\* The process ends and mesh_init runs again: read_json_db begins with the
\* ranges of the file, net_add_address_pool for each.
Restart ==
  /\ up
  /\ pool' = Ranges
  /\ read' = 0
  /\ prov' = None
  /\ lost' = {}
  /\ nodes' = {}
  /\ UNCHANGED <<db, up>>

\* The next node of the file; the first that cannot have its block ends
\* mesh_init ("Failed to parse provisioning database file").
parse_node ==
  LET b == db[read + 1]
      got == net_reserve_address_range(pool, b)
  IN /\ up /\ read < Len(db)
     /\ pool' = got.pool
     /\ up' = got.ok
     /\ nodes' = IF got.ok THEN nodes \cup {b} ELSE nodes
     /\ read' = IF got.ok THEN read + 1 ELSE read
     /\ UNCHANGED <<prov, lost, db>>

Init ==
  /\ pool = Ranges
  /\ prov = None
  /\ lost = {}
  /\ nodes = {}
  /\ db = <<>>
  /\ read = 0
  /\ up = TRUE

Next ==
  \/ \E num \in 1..MaxEle : ProvCaps(num)
  \/ ProvFails \/ ProvCutOff \/ ProvDone
  \/ \E b \in nodes : NodeReset(b)
  \/ Restart \/ parse_node

Spec == Init /\ [][Next]_vars
-----------------------------------------------------------------------------
(* The blocks in use by the running process. *)
Held == nodes \cup lost \cup (IF prov = None THEN {} ELSE {prov})

(* Every variable keeps its type, and no range of the list is empty or holds *)
(* address 0 (obtain deletes a used up range, reserve inserts no empty one). *)
TypeOK ==
  /\ pool \in Seq(RangeType)
  /\ prov \in BlockType \cup {None}
  /\ lost \subseteq BlockType
  /\ nodes \subseteq BlockType
  /\ db \in Seq(BlockType)
  /\ read \in 0..Len(db)
  /\ up \in BOOLEAN

(* The addresses of the file are divided without overlap and without loss    *)
(* among the ranges of the pool and the blocks in use, whatever sequence of  *)
(* provisionings, failures, disconnects and restarts came before, and at     *)
(* every point of a start.                                                   *)
Partition ==
  LET parts == {<<"pool", i, Covers(pool[i])>> : i \in DOMAIN pool} \cup
               {<<"held", b.addr, BlockAddresses(b)>> : b \in Held}
  IN /\ \A s, t \in parts : s # t => s[3] \cap t[3] = {}
     /\ UNION {s[3] : s \in parts} = AllocatedAddresses

\* No address of the database has two nodes.
Consistent ==
  \A i, j \in DOMAIN db : i # j => BlockAddresses(db[i]) \cap BlockAddresses(db[j]) = {}

Kept == UNION {BlockAddresses(db[i]) : i \in DOMAIN db}

\* What the process makes of the addresses, once it has read the database;
\* nothing when it refuses the database.
FreeAddresses ==
  IF Running THEN PoolAddresses(pool)
  ELSE IF up /\ Consistent THEN AllocatedAddresses \ Kept ELSE {}

TakenBlocks ==
  IF Running THEN Held ELSE IF up /\ Consistent THEN ToSet(db) ELSE {}

Space == INSTANCE AddressSpace WITH
  Allocated <- AllocatedAddresses,
  free  <- FreeAddresses,
  taken <- TakenBlocks,
  kept  <- db

(* The list of ranges implements a set of addresses: every operation is one  *)
(* of AddressSpace, with the pool as the set of its ranges' addresses.  A    *)
(* start counts as done when it begins; it ends with exactly what the        *)
(* database leaves free, and it fails only for a database in which two nodes *)
(* claim the same address ("if (!local &&                                    *)
(* !net_reserve_address_range(addr, el_cnt)) return false").                 *)
ImplementsAddressSpace == Space!Spec
=============================================================================
