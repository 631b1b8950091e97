------------------------------ MODULE NFSTrace ------------------------------
(***************************************************************************)
(* The tables of an NFS trace that nfsdsanalysis joins, and what cuts them  *)
(* before it does: nfssubset (src/analysis/nfs/nfssubset.cpp) and           *)
(* TimeBoundPrune (src/analysis/nfs/nfsdsanalysis.cpp).                     *)
(*                                                                          *)
(* A packet is a record of the table common; its record id is its place in  *)
(* the trace, so a row is represented by an id: one of common by its        *)
(* record-id, one of attr-ops and of read-write by its reply-id.  The       *)
(* converter wrote each table in the order of these ids.                    *)
(***************************************************************************)
EXTENDS Integers, Sequences, SequencesExt

CONSTANTS
  MaxPackets,       \* bound on the length of a trace
  PacketAt,         \* packet-at of the packet with each record id
  AttrRows,         \* for each operation: how many rows of attr-ops a reply has
  NoExtent          \* a NULL Extent::Ptr, and a series without extent

\* The operations in the trace.  "read" stands for read and write, which have a row
\* in read-write; only readdirplus can be answered twice.
Operations == DOMAIN AttrRows

ASSUME NFSTraceAssumption ==
  /\ MaxPackets \in Nat
  /\ PacketAt \in [1..MaxPackets -> Nat]
  /\ \A op \in Operations : AttrRows[op] \subseteq Nat
  /\ Operations \subseteq {"read", "lookup", "readdirplus"}

VARIABLES
  trace,            \* the packets: their request, operation, rows of attr-ops
  source            \* extents of the tables that are still to be read

----------------------------------------------------------------------------
\* The converter.  A reply belongs to a request before it; those to readdirplus
\* can be in the trace twice.

IsRequest(id)  == trace[id].of = id
RequestOf(id)  == trace[id].of
Op(id)         == trace[id].op
IsRead(id)     == Op(id) = "read"
Ids            == DOMAIN trace
Replies        == {id \in Ids : ~IsRequest(id)}
Repeatable(id) == Op(id) = "readdirplus"
Answered(id)   == \E reply \in Replies : RequestOf(reply) = id

Request(op) ==
  /\ Len(trace) < MaxPackets
  /\ trace' = Append(trace, [of |-> Len(trace) + 1, op |-> op, attrs |-> 0])

Reply(id, n) ==
  /\ Len(trace) < MaxPackets
  /\ IsRequest(id)
  /\ Answered(id) => Repeatable(id)
  /\ n \in AttrRows[Op(id)]
  /\ trace' = Append(trace, [of |-> id, op |-> Op(id), attrs |-> n])

\* The rows of the three tables
Common    == [id \in Ids |-> id]
AttrOps   == FlattenSeq([id \in Ids |-> [n \in 1..trace[id].attrs |-> id]])
ReadWrite == SelectSeq(Common, LAMBDA id : id \in Replies /\ IsRead(id))

----------------------------------------------------------------------------
\* What cuts the tables

\* SubsetCopyModule: a row is kept if either of its ids is in the range.
Copied(rows, range) ==
  SelectSeq(rows, LAMBDA id : id \in range \/ RequestOf(id) \in range)

\* select_1 and select_2 are both the record-id in common.
CopiedCommon(rows, range) == SelectSeq(rows, LAMBDA id : id \in range)

\* The extents of a table, n rows in each
Chopped(rows, n) ==
  [i \in 1..((Len(rows) + n - 1) \div n) |->
     SubSeq(rows, (i - 1) * n + 1, IF i * n < Len(rows) THEN i * n ELSE Len(rows))]

\* TimeBoundPrune: the rest of each extent, never an empty one
InTime(extents, times) ==
  SelectSeq([i \in DOMAIN extents |->
               SelectSeq(extents[i], LAMBDA id : PacketAt[id] \in times)],
            LAMBDA extent : extent # << >>)

----------------------------------------------------------------------------
\* getSharedExtent of a source

NextExtent(table) == IF source[table] = << >> THEN NoExtent ELSE Head(source[table])
AfterNext_again(table) == source[table]
AfterNext(table) == IF source[table] = << >> THEN << >> ELSE Tail(source[table])
=============================================================================
