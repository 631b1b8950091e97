--------------------------- MODULE DriverDumpProofs ---------------------------
(***************************************************************************)
(* Proofs about DriverDump for any number of file threads, buffers, packets *)
(* and signals, when nobody else calls finish while a file ioctl runs.      *)
(***************************************************************************)
EXTENDS DriverDump, OperatorTheorems

----------------------------------------------------------------------------
\* The inductive invariants

\* Where a thread waits for its buffer to be full, or is about to take it
FillPlaces == {"check fill", "sleep fill", "down filled"}

\* Where the threads are while finish sleeps: none waits.
IdlePlaces == {"user", "enter", "failed", "returned", "leave", "gone"}

CountInv == /\ copy_packets + drop_packets = received /\ cur_idx_num <= Len(buffer)
            /\ handler # "idle" => received < MaxPackets

\* The buffers whose pages are being released
Releasing == {new_ddd[w] : w \in {v \in Workers : pc[v] = "cleanup"}}

\* Full is what is in filled, or will be when the handler goes on.
IsFull(b) == b = filled \/ (handler = "marked" /\ b = filling)

\* The buffers that are not freed are those in the slots, each in one, and those that
\* are being released.
SlotInv ==
  /\ \A b \in Buffers : buffer[b].freed <=> b \notin Slots \cup Releasing
  /\ empty # NoBuffer => empty # filling /\ empty # filled
  /\ filling # NoBuffer => filling # filled
  /\ \A b \in Slots : buffer[b].done_fill <=> IsFull(b)
  /\ handler = "marked" => filling # NoBuffer /\ filled = NoBuffer

\* A thread that waits for its buffer has it in a slot, and no other thread has it.
OwnerInv ==
  /\ \A w \in Workers : pc[w] \in FillPlaces => new_ddd[w] \in Slots
  /\ \A w \in Workers : pc[w] = "down filled" => buffer[new_ddd[w]].done_fill
  /\ \A v, w \in Workers : v # w /\ pc[v] \in FillPlaces /\ pc[w] \in FillPlaces =>
       new_ddd[v] # new_ddd[w]

\* One thread maps or releases pages: while it maps the empty slot stays free, and
\* while it releases some slot does.
HoldInv ==
  /\ \A w \in Workers : pc[w] = "mapping" => empty = NoBuffer
  /\ \A w \in Workers : pc[w] = "cleanup" =>
       /\ new_ddd[w] \in Buffers \ Slots /\ buffer[new_ddd[w]].done_fill
       /\ NoBuffer \in {empty, filling, filled}
  /\ \A v, w \in Workers : v # w /\ pc[v] \in Holds => pc[w] \notin Holds

\* The threads are gone before main goes on, and nothing is dumped, and no thread
\* waits, while finish sleeps.
MainInv ==
  /\ main \in {"start", "setup", "finish", "exited"} => AllGone
  /\ main = "setup" => Slots = {} /\ ~dumping /\ finishing = "no" /\ handler = "idle"
  /\ finishing # "no" => ~dumping /\ \A w \in Workers : pc[w] \in IdlePlaces

DriverInv == TypeOK /\ RacedOnly /\ CountInv /\ SlotInv /\ OwnerInv /\ HoldInv /\ MainInv

----------------------------------------------------------------------------
\* DriverInv

USE DEF NoBuffer

\* A thread that sleeps is woken, or not; it stays where it is.
SamePlaces(p, q) ==
  \A w \in Workers : \/ q[w] = p[w]
                     \/ p[w] = "sleep empty" /\ q[w] = "check empty"
                     \/ p[w] = "sleep fill" /\ q[w] = "check fill"

\* No thread begins to wait for its buffer or to hold the semaphore, and none lets it go.
Stays ==
  \A w \in Workers : /\ pc'[w] \in FillPlaces => pc[w] \in FillPlaces
                     /\ pc'[w] = "down filled" => pc[w] = "down filled"
                     /\ pc[w] \in Holds \/ pc'[w] \in Holds => pc'[w] = pc[w]

LEMMA Wakes ==
  ASSUME NEW p \in [Workers -> ThreadStates], NEW bs
  PROVE  /\ WakeEmpty(p) \in [Workers -> ThreadStates] /\ SamePlaces(p, WakeEmpty(p))
         /\ WakeFill(p, bs) \in [Workers -> ThreadStates] /\ SamePlaces(p, WakeFill(p, bs))
         /\ WakeAll(p) \in [Workers -> ThreadStates] /\ SamePlaces(p, WakeAll(p))
         /\ Woken(p, bs) \in [Workers -> ThreadStates] /\ SamePlaces(p, Woken(p, bs))
BY DEF WakeEmpty, WakeFill, WakeAll, Woken, SamePlaces, ThreadStates

LEMMA SamePlacesStay == ASSUME SamePlaces(pc, pc') PROVE Stays
BY DEF SamePlaces, Stays, FillPlaces, Holds

\* The slots
LEMMA SlotFacts ==
  ASSUME DriverInv
  PROVE  /\ Len(buffer) \in Nat /\ Buffers = 1..Len(buffer) /\ Slots \subseteq Buffers
         /\ NoBuffer \notin Buffers
         /\ \A b \in Buffers : buffer[b] \in BufferType
         /\ buffer \in [Buffers -> BufferType]
<1>1. buffer \in Seq(BufferType) /\ {empty, filling, filled} \subseteq Buffers \cup {NoBuffer}
  BY DEF DriverInv, TypeOK, DriverTyped
<1>2. Len(buffer) \in Nat /\ buffer \in [1..Len(buffer) -> BufferType]
  BY <1>1
<1> QED
  BY <1>1, <1>2 DEF Buffers, Slots

\* A bug leaves everything else as it is.
LEMMA CrashInv ==
  ASSUME DriverInv, NEW where, Crash(where),
         where \in {"wake", "scan"} \/ (where = "mismatch" /\ handler = "marked")
  PROVE  DriverInv'
<1> USE DEF Crash, slots, counts, control, world
<1>1. RacedOnly'
  BY DEF RacedOnly
<1>2. TypeOK'
  BY Zenon DEF DriverInv, TypeOK, ThreadsTyped, DriverTyped, Buffers
<1>3. Buffers' = Buffers /\ Slots' = Slots /\ Releasing' = Releasing
  BY Zenon DEF Buffers, Slots, Releasing
<1>4. CountInv' /\ SlotInv' /\ OwnerInv'
  BY <1>3, Zenon DEF DriverInv, CountInv, SlotInv, OwnerInv, IsFull
<1>5. HoldInv' /\ MainInv'
  BY <1>3 DEF DriverInv, HoldInv, MainInv, AllGone
<1> QED
  BY <1>1, <1>2, <1>4, <1>5 DEF DriverInv

LEMMA ScanInv == ASSUME DriverInv, ScanFails PROVE DriverInv'
<1>1. \A b \in Slots : ~buffer[b].freed
  BY SlotFacts DEF DriverInv, SlotInv
<1> QED
  BY <1>1, CrashInv DEF ScanFails

\* Steps that leave the buffers, the slots and the counts alone
LEMMA QuietInv ==
  ASSUME DriverInv, ThreadsTyped', dumping' \in BOOLEAN, MainInv',
         UNCHANGED <<slots, counts, cur_idx_num, buffer, new_ddd, copied, bug>>,
         Stays
  PROVE  DriverInv'
<1> USE DEF slots, counts
<1>1. TypeOK /\ CountInv /\ SlotInv /\ OwnerInv /\ HoldInv /\ RacedOnly
  BY DEF DriverInv
<1>2. TypeOK'
  BY <1>1, Zenon DEF TypeOK, DriverTyped, Buffers
<1>3. Releasing' = Releasing
  BY DEF Releasing, Stays, Holds
<1>4. CountInv' /\ SlotInv' /\ RacedOnly'
  BY <1>1, <1>3, Zenon DEF CountInv, SlotInv, RacedOnly, Buffers, Slots, IsFull
<1>5. OwnerInv'
  BY <1>1 DEF OwnerInv, Slots, Stays
<1>6. HoldInv'
  <2>1. Buffers' = Buffers /\ Slots' = Slots
    BY DEF Buffers, Slots
  <2> QED
    BY <1>1, <2>1 DEF HoldInv, Stays, Holds
<1> QED
  BY <1>2, <1>4, <1>5, <1>6 DEF DriverInv

\* Steps in which one thread moves on and nothing else happens to the buffers
LEMMA MovesInv ==
  ASSUME DriverInv, NEW w \in Workers, NEW to \in ThreadStates,
         pc[w] # "gone", pc' = [pc EXCEPT ![w] = to],
         UNCHANGED <<slots, counts, control, buffer, new_ddd, world, copied, bug>>,
         everyone_ok' \in BOOLEAN, interrupted' \in [Workers -> BOOLEAN],
         to \in FillPlaces => pc[w] \in FillPlaces,
         to = "down filled" => buffer[new_ddd[w]].done_fill,
         pc[w] # "cleanup", to # "cleanup", to = "mapping" => SemFree /\ empty = NoBuffer,
         finishing # "no" => to \in IdlePlaces
  PROVE  DriverInv'
<1> USE DEF slots, counts, control, world
<1>1. /\ TypeOK /\ ThreadsTyped /\ CountInv /\ SlotInv /\ OwnerInv /\ HoldInv /\ MainInv /\ RacedOnly
      /\ pc \in [Workers -> ThreadStates]
  BY DEF DriverInv, TypeOK, ThreadsTyped
<1>2. TypeOK'
  <2>1. pc' \in [Workers -> ThreadStates]
    BY <1>1
  <2> QED
    BY <1>1, <2>1, Zenon DEF TypeOK, ThreadsTyped, DriverTyped, Buffers
<1>3. /\ \A v \in Workers : v # w => pc'[v] = pc[v]
      /\ pc'[w] = to
  BY <1>1
<1>4. Slots' = Slots /\ Buffers' = Buffers /\ Releasing' = Releasing
  <2>1. {v \in Workers : pc'[v] = "cleanup"} = {v \in Workers : pc[v] = "cleanup"}
    BY <1>3
  <2> QED
    BY <2>1, Zenon DEF Slots, Buffers, Releasing
<1>5. CountInv' /\ SlotInv' /\ RacedOnly'
  BY <1>1, <1>4, Zenon DEF CountInv, SlotInv, RacedOnly, IsFull
<1>6. OwnerInv'
  BY <1>1, <1>3, <1>4 DEF OwnerInv, FillPlaces
<1>7. HoldInv'
  BY <1>1, <1>3, <1>4 DEF HoldInv, Holds, SemFree
<1>8. MainInv'
  BY <1>1, <1>3, <1>4 DEF MainInv, AllGone
<1> QED
  BY <1>2, <1>5, <1>6, <1>7, <1>8 DEF DriverInv

LEMMA ThreadMoves ==
  ASSUME DriverInv, NEW w \in Workers,
         \/ Enter(w) \/ EnterAgain(w) \/ Moves(w, "mapping", "failed")
         \/ CheckEmpty(w) \/ CheckFill(w) \/ Failed(w) \/ Prepare(w) \/ Returned(w) \/ Leave(w)
         \/ Die(w) \/ DownInterrupted(w, "enter") \/ DownInterrupted(w, "down again")
         \/ DownInterrupted(w, "down filled")
  PROVE  DriverInv'
<1> USE DEF Moves, Goes, NoBug, ThreadStates, FillPlaces, IdlePlaces
<1>1. /\ ThreadsTyped /\ MainInv /\ everyone_ok \in BOOLEAN
      /\ interrupted \in [Workers -> BOOLEAN]
      /\ [interrupted EXCEPT ![w] = FALSE] \in [Workers -> BOOLEAN]
      /\ finishing # "no" => ~dumping /\ pc[w] \in IdlePlaces
  BY DEF DriverInv, TypeOK, ThreadsTyped, MainInv
<1>2. CASE CheckEmpty(w)
  <2> DEFINE to == IF ~dumping THEN "failed"
                   ELSE IF empty = NoBuffer THEN "down again"
                   ELSE IF interrupted[w] THEN "failed" ELSE "sleep empty"
  <2>1. /\ pc[w] = "check empty" /\ pc' = [pc EXCEPT ![w] = to]
        /\ to \in {"failed", "down again", "sleep empty"}
        /\ UNCHANGED <<slots, counts, control, buffer, new_ddd, world, copied, bug,
                       everyone_ok, interrupted>>
    BY <1>2 DEF CheckEmpty
  <2>2. finishing = "no"
    BY <1>1, <2>1
  <2> HIDE DEF to
  <2> QED
    BY <1>1, <2>1, <2>2, MovesInv
<1>3. CASE CheckFill(w)
  <2> DEFINE to == IF ~dumping THEN "failed"
                   ELSE IF buffer[new_ddd[w]].done_fill THEN "down filled"
                   ELSE IF interrupted[w] THEN "failed" ELSE "sleep fill"
  <2>1. /\ pc[w] = "check fill" /\ pc' = [pc EXCEPT ![w] = to]
        /\ to \in {"failed", "down filled", "sleep fill"}
        /\ UNCHANGED <<slots, counts, control, buffer, new_ddd, world, copied, bug,
                       everyone_ok, interrupted>>
    BY <1>3 DEF CheckFill
  <2>2. (to = "down filled" => buffer[new_ddd[w]].done_fill) /\ finishing = "no"
    BY <1>1, <2>1
  <2> HIDE DEF to
  <2> QED
    BY <1>1, <2>1, <2>2, MovesInv
<1>4. CASE Failed(w)
  BY <1>1, <1>4, MovesInv DEF Failed
<1>5. CASE Prepare(w)
  BY <1>1, <1>5, MovesInv DEF Prepare
<1>6. CASE Returned(w)
  <2> DEFINE to == IF buffer[new_ddd[w]].index + 1 >= MaxFiles \/ ~everyone_ok THEN "leave"
                                                                        ELSE "user"
  <2>1. /\ pc[w] = "returned" /\ pc' = [pc EXCEPT ![w] = to] /\ to \in {"leave", "user"}
        /\ UNCHANGED <<slots, counts, control, buffer, new_ddd, world, copied, bug, everyone_ok>>
        /\ interrupted' = [interrupted EXCEPT ![w] = FALSE]
    BY <1>6 DEF Returned
  <2> HIDE DEF to
  <2> QED
    BY <1>1, <2>1, MovesInv
<1>7. CASE Leave(w)
  BY <1>1, <1>7, MovesInv DEF Leave
<1>8. CASE Die(w)
  BY <1>1, <1>8, MovesInv DEF Die
<1>9. CASE \/ DownInterrupted(w, "enter") \/ DownInterrupted(w, "down again")
           \/ DownInterrupted(w, "down filled")
  BY <1>1, <1>9, MovesInv DEF DownInterrupted
<1>10. CASE Enter(w) \/ EnterAgain(w)
  <2>1. PICK to \in {"failed", "mapping", "check empty"} :
          /\ pc' = [pc EXCEPT ![w] = to] /\ (to = "mapping" => empty = NoBuffer)
    BY <1>10 DEF Enter, EnterAgain
  <2>2. /\ SemFree /\ pc[w] \in {"enter", "down again"} /\ finishing = "no"
        /\ UNCHANGED <<slots, counts, control, buffer, new_ddd, world, copied, bug,
                       everyone_ok, interrupted>>
    BY <1>10 DEF Enter, EnterAgain, SemFree
  <2> QED
    BY <1>1, <2>1, <2>2, MovesInv
<1>11. CASE Moves(w, "mapping", "failed")
  BY <1>1, <1>11, MovesInv
<1> QED
  BY <1>2, <1>3, <1>4, <1>5, <1>6, <1>7, <1>8, <1>9, <1>10, <1>11

LEMMA MapPagesInv ==
  ASSUME DriverInv, NEW w \in Workers, MapPages(w)
  PROVE  DriverInv'
<1> USE DEF counts, world
<1>1. /\ TypeOK /\ ThreadsTyped /\ DriverTyped /\ CountInv /\ SlotInv /\ OwnerInv /\ HoldInv
      /\ MainInv /\ RacedOnly
      /\ pc \in [Workers -> ThreadStates] /\ pc[w] = "mapping" /\ empty = NoBuffer
  BY DEF DriverInv, TypeOK, ThreadsTyped, MapPages, HoldInv
<1>2. CASE Moves(w, "mapping", "failed")
  BY <1>2, ThreadMoves
<1>3. CASE ~Moves(w, "mapping", "failed")
  <2> DEFINE n == Len(buffer)
  <2>1. n \in Nat
    BY SlotFacts
  <2>2. /\ empty = NoBuffer /\ n < MaxBuffers /\ empty' = n + 1
        /\ cur_idx_num' = cur_idx_num + 1
        /\ new_ddd' = [new_ddd EXCEPT ![w] = n + 1]
        /\ pc' = [pc EXCEPT ![w] = "check fill"]
        /\ buffer' = Append(buffer, Fresh(cur_idx_num))
        /\ UNCHANGED <<filling, filled, counts, dumping, finishing, interrupted, everyone_ok,
                       world, files, copied, bug>>
    BY <1>1, <1>3 DEF MapPages, NoBug
  <2>3. /\ Buffers = 1..n /\ Slots \subseteq Buffers /\ cur_idx_num <= n
        /\ {filling, filled} \subseteq Buffers \cup {NoBuffer}
    BY <1>1, <2>1, SlotFacts DEF CountInv, DriverTyped
  <2>4. MaxBuffers \in Nat /\ Capacity \in Nat /\ cur_idx_num \in 0..MaxBuffers
    BY <1>1, DriverDumpAssumption DEF DriverTyped
  <2>5. /\ finishing = "no"
        /\ \A v \in Workers : v # w => pc[v] \notin Holds
    BY <1>1 DEF MainInv, IdlePlaces, HoldInv, Holds
  <2> HIDE DEF n
  <2>6. Fresh(cur_idx_num) \in BufferType /\ ~Fresh(cur_idx_num).freed /\ ~Fresh(cur_idx_num).done_fill
    <3>1. << >> \in Seq(1..MaxPackets) /\ 0 \in 0..Capacity
      BY <2>4
    <3>2. Fresh(cur_idx_num) \in BufferType
      BY <2>4, <3>1, Zenon DEF Fresh, BufferType
    <3> QED
      BY <3>2 DEF Fresh
  <2>7. /\ buffer' \in Seq(BufferType) /\ Len(buffer') = n + 1
        /\ \A b \in 1..n : buffer'[b] = buffer[b]
        /\ buffer'[n + 1] = Fresh(cur_idx_num)
    <3>1. buffer \in Seq(BufferType) /\ buffer' = Append(buffer, Fresh(cur_idx_num))
      BY <1>1, <2>2 DEF DriverTyped
    <3>2. buffer' \in Seq(BufferType) /\ Len(buffer') = Len(buffer) + 1
          /\ (\A b \in 1..Len(buffer) : buffer'[b] = buffer[b])
          /\ buffer'[Len(buffer) + 1] = Fresh(cur_idx_num)
      BY <2>6, <3>1, AppendProperties
    <3> QED
      BY <3>2 DEF n
  <2>8. Buffers' = 1..(n + 1) /\ Slots' = Slots \cup {n + 1} /\ n + 1 \notin Buffers
    <3>1. Buffers' = 1..(n + 1)
      BY <2>7, Zenon DEF Buffers
    <3>2. n + 1 \notin Buffers /\ n + 1 # NoBuffer
      BY <2>1, <2>3
    <3>3. empty' = n + 1 /\ filling' = filling /\ filled' = filled /\ empty = NoBuffer
      BY <1>1, <2>2
    <3> QED
      BY <3>1, <3>2, <3>3 DEF Slots
  <2>9. /\ \A v \in Workers : v # w => pc'[v] = pc[v] /\ new_ddd'[v] = new_ddd[v]
        /\ pc'[w] = "check fill" /\ new_ddd'[w] = n + 1
    BY <1>1, <2>2 DEF ThreadsTyped
  <2>10. Releasing = {} /\ Releasing' = {}
    BY <1>1, <2>5, <2>9 DEF Releasing, Holds
  <2>11. TypeOK'
    <3>1. pc' \in [Workers -> ThreadStates]
      BY <1>1, <2>2 DEF ThreadStates
    <3>2. new_ddd' \in [Workers -> Buffers' \cup {NoBuffer}]
      <4>1. new_ddd \in [Workers -> Buffers \cup {NoBuffer}]
        BY <1>1 DEF ThreadsTyped
      <4>2. new_ddd' = [new_ddd EXCEPT ![w] = n + 1]
        BY <2>2
      <4>3. Buffers \subseteq Buffers' /\ n + 1 \in Buffers'
        BY <2>1, <2>3, <2>8
      <4> QED
        BY <4>1, <4>2, <4>3
    <3>3. ThreadsTyped'
      BY <1>1, <2>2, <3>1, <3>2, Zenon DEF ThreadsTyped
    <3>4. /\ n + 1 <= MaxBuffers /\ cur_idx_num' \in 0..MaxBuffers
          /\ {empty, filling, filled}' \subseteq Buffers' \cup {NoBuffer}
      <4>1. n < MaxBuffers /\ cur_idx_num' = cur_idx_num + 1 /\ cur_idx_num <= n
        BY <2>2, <2>3
      <4>2. n + 1 <= MaxBuffers /\ cur_idx_num' \in 0..MaxBuffers
        BY <2>1, <2>4, <4>1
      <4>3. Buffers \subseteq Buffers' /\ n + 1 \in Buffers'
        BY <2>1, <2>3, <2>8
      <4>4. empty' = n + 1 /\ filling' = filling /\ filled' = filled
        BY <2>2
      <4> QED
        BY <2>3, <4>2, <4>3, <4>4
    <3>5. Len(buffer') <= MaxBuffers
      BY <2>7, <3>4
    <3> QED
      BY <1>1, <2>2, <2>7, <3>3, <3>4, <3>5, Zenon DEF TypeOK, DriverTyped
  <2>12. CountInv'
    <3>1. cur_idx_num' <= n + 1
      <4>1. cur_idx_num' = cur_idx_num + 1
        BY <2>2
      <4>2. cur_idx_num <= n /\ cur_idx_num \in Nat
        BY <2>3, <2>4
      <4> QED
        BY <2>1, <4>1, <4>2
    <3>2. cur_idx_num' <= Len(buffer')
      BY <2>7, <3>1
    <3> QED
      BY <1>1, <2>2, <3>2 DEF CountInv
  <2>13. SlotInv'
    <3>1. \A b \in Buffers' : buffer'[b].freed <=> b \notin Slots' \cup Releasing'
      <4>1. Buffers' = Buffers \cup {n + 1}
        BY <2>1, <2>3, <2>8
      <4>2. \A b \in Buffers : buffer'[b] = buffer[b]
        BY <2>3, <2>7
      <4>3. ~buffer'[n + 1].freed
        BY <2>6, <2>7
      <4> QED
        BY <1>1, <2>8, <2>10, <4>1, <4>2, <4>3 DEF SlotInv
    <3>2. filled # n + 1 /\ filling # n + 1
      BY <2>1, <2>3, <2>8
    <3>3. \A b \in Slots' : buffer'[b].done_fill <=> IsFull(b)'
      BY <1>1, <2>2, <2>3, <2>6, <2>7, <2>8, <3>2 DEF SlotInv, IsFull
    <3> QED
      BY <1>1, <2>2, <3>1, <3>2, <3>3 DEF SlotInv
  <2>14. OwnerInv'
    <3>1. \A v \in Workers : pc'[v] \in FillPlaces =>
             v = w \/ (pc[v] \in FillPlaces /\ new_ddd'[v] = new_ddd[v] /\ new_ddd[v] \in Slots)
      BY <1>1, <2>9 DEF OwnerInv
    <3>2. \A v \in Workers : pc'[v] \in FillPlaces => new_ddd'[v] \in Slots'
      BY <2>8, <2>9, <3>1
    <3>3. \A v \in Workers : pc'[v] = "down filled" => buffer'[new_ddd'[v]].done_fill
      <4> SUFFICES ASSUME NEW v \in Workers, pc'[v] = "down filled"
                   PROVE  buffer'[new_ddd'[v]].done_fill
        OBVIOUS
      <4>1. v # w /\ pc[v] = "down filled" /\ new_ddd'[v] = new_ddd[v]
        BY <2>9
      <4>2. new_ddd[v] \in 1..n
        BY <1>1, <2>3, <4>1 DEF OwnerInv, FillPlaces
      <4> QED
        BY <1>1, <2>7, <4>1, <4>2 DEF OwnerInv
    <3>4. \A u, v \in Workers : u # v /\ pc'[u] \in FillPlaces /\ pc'[v] \in FillPlaces =>
             new_ddd'[u] # new_ddd'[v]
      BY <1>1, <2>3, <2>8, <2>9, <3>1 DEF OwnerInv
    <3> QED
      BY <3>2, <3>3, <3>4 DEF OwnerInv
  <2>15. HoldInv'
    BY <2>5, <2>9 DEF HoldInv, Holds
  <2>16. MainInv'
    BY <1>1, <2>2, <2>5, <2>9 DEF MainInv, AllGone
  <2>17. RacedOnly'
    BY <1>1, <2>2 DEF RacedOnly
  <2> QED
    BY <2>11, <2>12, <2>13, <2>14, <2>15, <2>16, <2>17 DEF DriverInv
<1> QED
  BY <1>2, <1>3

\* What is taken from filled is released before anything else is mapped.
LEMMA TakeFilledInv ==
  ASSUME DriverInv, NEW w \in Workers, TakeFilled(w)
  PROVE  DriverInv'
<1> DEFINE b == new_ddd[w]
<1>1. /\ TypeOK /\ ThreadsTyped /\ DriverTyped /\ CountInv /\ SlotInv /\ OwnerInv /\ HoldInv
      /\ MainInv /\ RacedOnly
      /\ pc \in [Workers -> ThreadStates] /\ pc[w] = "down filled"
      /\ finishing = "no" /\ \A v \in Workers : pc[v] \notin Holds
  BY DEF DriverInv, TypeOK, ThreadsTyped, TakeFilled, SemFree
<1>2. b \in Slots /\ b \in Buffers /\ b # NoBuffer /\ ~buffer[b].freed /\ buffer[b].done_fill
  BY <1>1, SlotFacts DEF OwnerInv, FillPlaces, SlotInv
<1>3. CASE filled # b
  <2>1. handler = "marked"
    BY <1>1, <1>2, <1>3 DEF SlotInv, IsFull
  <2>2. Crash("mismatch")
    BY <1>3 DEF TakeFilled
  <2> QED
    BY <2>1, <2>2, CrashInv
<1>4. CASE filled = b
  <2>1. /\ UNCHANGED <<empty, filling, handler, copy_packets, drop_packets, received, dumping,
                     finishing, cur_idx_num, buffer, new_ddd, interrupted, everyone_ok, signals,
                     runs, main, files, copied, bug>>
        /\ pc' = [pc EXCEPT ![w] = "cleanup"]
        /\ filled' = NoBuffer
    BY <1>4 DEF TakeFilled, counts, control, world, NoBug, Crash
  <2>2. Buffers' = Buffers /\ Slots' = Slots \ {b}
    BY <1>1, <1>2, <1>4, <2>1 DEF Slots, SlotInv, Buffers
  <2>3. /\ \A v \in Workers : v # w => pc'[v] = pc[v]
        /\ pc'[w] = "cleanup"
    BY <1>1, <2>1
  <2>4. Releasing = {} /\ Releasing' = {b}
    BY <1>1, <2>1, <2>3 DEF Releasing, Holds
  <2>5. TypeOK'
    <3>1. pc' \in [Workers -> ThreadStates]
      BY <1>1, <2>1 DEF ThreadStates
    <3>2. ThreadsTyped'
      BY <1>1, <2>1, <2>2, <3>1, Zenon DEF ThreadsTyped
    <3>3. {empty, filling, filled}' \subseteq Buffers' \cup {NoBuffer}
      BY <1>1, <2>1, <2>2 DEF DriverTyped
    <3> QED
      BY <1>1, <2>1, <3>2, <3>3, Zenon DEF TypeOK, DriverTyped
  <2>6. CountInv' /\ RacedOnly'
    BY <1>1, <2>1, Zenon DEF CountInv, RacedOnly
  <2> HIDE DEF b
  <2>7. handler # "marked"
    BY <1>1, <1>2, <1>4 DEF SlotInv
  <2>8. SlotInv'
    <3>1. \A c \in Buffers' : buffer'[c].freed <=> c \notin Slots' \cup Releasing'
      BY <1>1, <1>2, <2>1, <2>2, <2>4 DEF SlotInv
    <3>2. \A c \in Slots' : buffer'[c].done_fill <=> IsFull(c)'
      <4> SUFFICES ASSUME NEW c \in Slots' PROVE ~buffer'[c].done_fill /\ ~IsFull(c)'
        OBVIOUS
      <4>1. c \in Slots /\ c # b /\ c \in Buffers /\ c # NoBuffer
        BY <2>2, SlotFacts
      <4> QED
        BY <1>1, <1>4, <2>1, <2>7, <4>1 DEF SlotInv, IsFull
    <3> QED
      BY <1>1, <2>1, <2>7, <3>1, <3>2 DEF SlotInv
  <2>9. OwnerInv'
    <3>1. \A v \in Workers : v # w /\ pc[v] \in FillPlaces => new_ddd[v] \in Slots \ {b}
      BY <1>1 DEF OwnerInv, FillPlaces, b
    <3> QED
      BY <1>1, <2>1, <2>2, <2>3, <3>1 DEF OwnerInv, FillPlaces
  <2>10. HoldInv'
    <3>1. new_ddd'[w] = b /\ b \in Buffers' \ Slots' /\ buffer'[b].done_fill
      BY <1>2, <2>1, <2>2 DEF b
    <3> QED
      BY <1>1, <2>1, <2>3, <3>1 DEF HoldInv, Holds
  <2>11. MainInv'
    BY <1>1, <2>1, <2>3 DEF MainInv, AllGone
  <2> QED
    BY <2>5, <2>6, <2>8, <2>9, <2>10, <2>11 DEF DriverInv
<1> QED
  BY <1>3, <1>4

LEMMA CleanUpInv ==
  ASSUME DriverInv, NEW w \in Workers, CleanUp(w)
  PROVE  DriverInv'
<1> DEFINE b == new_ddd[w]
<1>1. /\ TypeOK /\ ThreadsTyped /\ DriverTyped /\ CountInv /\ SlotInv /\ OwnerInv /\ HoldInv
      /\ MainInv /\ RacedOnly
      /\ pc \in [Workers -> ThreadStates] /\ pc[w] = "cleanup" /\ finishing = "no"
  BY DEF DriverInv, TypeOK, ThreadsTyped, CleanUp, MainInv, IdlePlaces
<1>2. /\ b \in Buffers /\ b \notin Slots /\ b # NoBuffer /\ b \in Releasing /\ ~buffer[b].freed
      /\ buffer[b].done_fill
  BY <1>1, SlotFacts DEF HoldInv, Releasing, SlotInv
<1>3. /\ UNCHANGED <<empty, filling, filled, handler, copy_packets, drop_packets, received, dumping,
                     finishing, cur_idx_num, new_ddd, interrupted, everyone_ok, signals, runs,
                     main, files, copied, bug>>
      /\ pc' = [pc EXCEPT ![w] = "returned"]
      /\ buffer' = [buffer EXCEPT ![b].freed = TRUE]
  BY <1>2 DEF CleanUp, slots, counts, control, world, NoBug
<1>4. buffer' \in [Buffers -> BufferType] /\ buffer'[b].freed
  BY <1>2, <1>3, SlotFacts DEF BufferType
<1>5. /\ \A c \in Buffers \ {b} : buffer'[c] = buffer[c]
      /\ \A c \in Buffers : buffer'[c].done_fill = buffer[c].done_fill
  BY <1>2, <1>3, SlotFacts DEF BufferType
<1> HIDE DEF b
<1>6. buffer' \in Seq(BufferType) /\ Len(buffer') = Len(buffer) /\ Buffers' = Buffers
      /\ Slots' = Slots
  <2>1. buffer' \in Seq(BufferType) /\ Len(buffer') = Len(buffer)
    BY <1>4, SlotFacts
  <2> QED
    BY <1>3, <2>1, Zenon DEF Buffers, Slots
<1>7. /\ \A v \in Workers : v # w => pc'[v] = pc[v] /\ pc[v] \notin Holds
      /\ pc'[w] = "returned"
  BY <1>1, <1>3 DEF HoldInv, Holds
<1>8. Releasing = {b} /\ Releasing' = {}
  BY <1>1, <1>3, <1>7 DEF Releasing, Holds, b
<1>9. TypeOK'
  <2>1. pc' \in [Workers -> ThreadStates]
    BY <1>1, <1>3 DEF ThreadStates
  <2>2. ThreadsTyped'
    BY <1>1, <1>3, <1>6, <2>1, Zenon DEF ThreadsTyped
  <2>3. Len(buffer') <= MaxBuffers
    BY <1>1, <1>6 DEF DriverTyped
  <2> QED
    BY <1>1, <1>3, <1>6, <2>2, <2>3, Zenon DEF TypeOK, DriverTyped
<1>10. CountInv' /\ RacedOnly'
  BY <1>1, <1>3, <1>6, Zenon DEF CountInv, RacedOnly
<1>11. SlotInv'
  <2>1. \A c \in Buffers' : buffer'[c].freed <=> c \notin Slots' \cup Releasing'
    BY <1>1, <1>2, <1>4, <1>5, <1>6, <1>8 DEF SlotInv
  <2>2. \A c \in Slots' : buffer'[c].done_fill <=> IsFull(c)'
    BY <1>1, <1>3, <1>5, <1>6, SlotFacts DEF SlotInv, IsFull
  <2> QED
    BY <1>1, <1>3, <2>1, <2>2 DEF SlotInv
<1>12. OwnerInv'
  BY <1>1, <1>3, <1>5, <1>6, <1>7, SlotFacts DEF OwnerInv, FillPlaces
<1>13. HoldInv'
  BY <1>7 DEF HoldInv, Holds
<1>14. MainInv'
  BY <1>1, <1>3, <1>6, <1>7 DEF MainInv, AllGone
<1> QED
  BY <1>9, <1>10, <1>11, <1>12, <1>13, <1>14 DEF DriverInv

LEMMA AbortInv ==
  ASSUME DriverInv, NEW w \in Workers, Abort(w)
  PROVE  DriverInv'
<1>1. CASE ScanFails
  BY <1>1, ScanInv
<1>2. CASE ~ScanFails
  <2>1. /\ ThreadsTyped /\ MainInv /\ pc \in [Workers -> ThreadStates] /\ pc[w] = "abort"
        /\ finishing = "no" /\ dumping' = FALSE /\ finishing' = finishing
        /\ pc' = [WakeAll(pc) EXCEPT ![w] = "leave"]
        /\ interrupted' = [interrupted EXCEPT ![w] = FALSE]
        /\ UNCHANGED <<slots, counts, cur_idx_num, buffer, new_ddd, everyone_ok, signals, runs,
                       main, copied, bug>>
    BY <1>2 DEF DriverInv, TypeOK, ThreadsTyped, Abort, SemFree, world, NoBug
  <2>2. WakeAll(pc) \in [Workers -> ThreadStates] /\ SamePlaces(pc, WakeAll(pc))
    BY <2>1, Wakes
  <2>3. pc' \in [Workers -> ThreadStates]
    BY <2>1, <2>2 DEF ThreadStates
  <2>4. Stays
    BY <2>1, <2>2 DEF SamePlaces, Stays, FillPlaces, Holds
  <2>5. ThreadsTyped'
    <3>1. interrupted' \in [Workers -> BOOLEAN]
      BY <2>1 DEF ThreadsTyped
    <3> QED
      BY <2>1, <2>3, <3>1, Zenon DEF ThreadsTyped, Buffers
  <2>6. MainInv'
    <3>1. ~AllGone
      BY <2>1 DEF AllGone
    <3> QED
      BY <2>1, <3>1 DEF MainInv
  <2> QED
    BY <2>1, <2>4, <2>5, <2>6, QuietInv
<1> QED
  BY <1>1, <1>2

\* Nobody waits in the kernel when finish starts.
LEMMA StartFinishInv ==
  ASSUME DriverInv, NEW who \in {"driverdump", "stranger"}, StartFinish(who),
         main # "setup", \A w \in Workers : ~InKernel(w)
  PROVE  DriverInv'
<1>1. CASE ScanFails
  BY <1>1, ScanInv
<1>2. CASE ~ScanFails
  <2>1. /\ ThreadsTyped /\ MainInv /\ pc \in [Workers -> ThreadStates]
        /\ finishing = "no" /\ dumping' = FALSE /\ finishing' = who
        /\ pc' = WakeAll(pc)
        /\ UNCHANGED <<slots, counts, cur_idx_num, buffer, new_ddd, interrupted, everyone_ok,
                       signals, runs, main, copied, bug>>
    BY <1>2 DEF DriverInv, TypeOK, ThreadsTyped, StartFinish, SemFree, world, NoBug
  <2>2. WakeAll(pc) \in [Workers -> ThreadStates] /\ SamePlaces(pc, WakeAll(pc))
    BY <2>1, Wakes
  <2>3. \A w \in Workers : pc'[w] = pc[w] /\ pc[w] \in {"user", "returned", "leave", "gone"}
    BY <2>1, <2>2 DEF SamePlaces, InKernel
  <2>4. ThreadsTyped'
    <3>1. pc' \in [Workers -> ThreadStates]
      BY <2>1, <2>2
    <3>2. finishing' \in {"no", "driverdump", "stranger"}
      BY <2>1
    <3> QED
      BY <2>1, <3>1, <3>2, Zenon DEF ThreadsTyped, Buffers
  <2>5. MainInv'
    BY <2>1, <2>3 DEF MainInv, AllGone, IdlePlaces
  <2>6. Stays
    BY <2>3 DEF Stays
  <2> QED
    BY <2>1, <2>4, <2>5, <2>6, QuietInv
<1> QED
  BY <1>1, <1>2

\* Every buffer is freed; no thread has one, as none waits.
LEMMA EndFinishInv ==
  ASSUME DriverInv, NEW who \in {"driverdump", "stranger"}, NEW next, EndFinish(who, next),
         \/ next = main /\ main # "setup"
         \/ next = "setup" /\ AllGone
         \/ next = "exited" /\ AllGone
  PROVE  DriverInv'
<1>1. /\ TypeOK /\ ThreadsTyped /\ DriverTyped /\ CountInv /\ SlotInv /\ MainInv /\ RacedOnly
      /\ finishing # "no" /\ handler = "idle" /\ Slots \subseteq Buffers
      /\ \A b \in Slots : ~buffer[b].freed
  BY SlotFacts DEF DriverInv, TypeOK, EndFinish, TwoSeconds, SlotInv
<1>2. /\ finishing' = "no" /\ main' = next
      /\ empty' = NoBuffer /\ filling' = NoBuffer /\ filled' = NoBuffer
      /\ buffer' = [b \in Buffers |-> [buffer[b] EXCEPT !.freed = @ \/ b \in Slots]]
      /\ UNCHANGED <<copy_packets, drop_packets, received, handler, dumping, cur_idx_num, pc,
                     new_ddd, interrupted, everyone_ok, signals, runs, files, copied, bug>>
  BY <1>1 DEF EndFinish, counts, NoBug
<1>3. /\ Buffers = 1..Len(buffer) /\ Len(buffer) \in Nat
      /\ \A b \in Buffers : buffer[b] \in BufferType
  BY SlotFacts
<1>4. /\ buffer' \in [Buffers -> BufferType]
      /\ \A b \in Buffers : buffer'[b].freed = (buffer[b].freed \/ b \in Slots)
  BY <1>2, <1>3 DEF BufferType
<1>5. buffer' \in Seq(BufferType) /\ Len(buffer') = Len(buffer) /\ Buffers' = Buffers
  <2>1. buffer' \in Seq(BufferType) /\ Len(buffer') = Len(buffer)
    BY <1>3, <1>4
  <2> QED
    BY <2>1, Zenon DEF Buffers
<1>6. Slots' = {}
  BY <1>2 DEF Slots
<1>7. \A w \in Workers : pc[w] \notin FillPlaces /\ pc[w] \notin Holds
  BY <1>1 DEF MainInv, IdlePlaces, FillPlaces, Holds
<1>8. Releasing = {} /\ Releasing' = {}
  BY <1>2, <1>7 DEF Releasing, Holds
<1>9. TypeOK'
  <2>1. main' \in {"start", "setup", "running", "finish", "killed", "exited"}
    BY <1>1, <1>2 DEF ThreadsTyped
  <2>2. ThreadsTyped'
    BY <1>1, <1>2, <1>5, <2>1, Zenon DEF ThreadsTyped
  <2>3. Len(buffer') <= MaxBuffers
    BY <1>5, <1>1 DEF DriverTyped
  <2>4. {empty, filling, filled}' \subseteq Buffers' \cup {NoBuffer}
    BY <1>2
  <2> QED
    BY <1>1, <1>2, <1>5, <2>2, <2>3, <2>4, Zenon DEF TypeOK, DriverTyped
<1>10. CountInv' /\ RacedOnly'
  BY <1>1, <1>2, <1>5, Zenon DEF CountInv, RacedOnly
<1>11. SlotInv'
  <2>1. \A b \in Buffers' : buffer'[b].freed
    BY <1>1, <1>4, <1>5, <1>8 DEF SlotInv
  <2> QED
    BY <1>1, <1>2, <1>6, <1>8, <2>1 DEF SlotInv
<1>12. OwnerInv' /\ HoldInv'
  BY <1>2, <1>7 DEF OwnerInv, HoldInv, FillPlaces, Holds
<1>13. MainInv'
  BY <1>1, <1>2, <1>6 DEF MainInv, AllGone
<1> QED
  BY <1>9, <1>10, <1>11, <1>12, <1>13 DEF DriverInv

LEMMA SetupInv ==
  ASSUME DriverInv, Setup
  PROVE  DriverInv'
<1>1. /\ ThreadsTyped /\ DriverTyped /\ MainInv /\ RacedOnly
      /\ main = "setup" /\ Slots = {} /\ finishing = "no" /\ handler = "idle"
  BY DEF DriverInv, TypeOK, Setup, MainInv
<1>2. /\ main' = "running" /\ dumping' = TRUE /\ everyone_ok' = TRUE
      /\ cur_idx_num' = 0 /\ copy_packets' = 0 /\ drop_packets' = 0 /\ received' = 0
      /\ copied' = << >> /\ pc' = [w \in Workers |-> "user"] /\ buffer' = << >>
      /\ new_ddd' = [w \in Workers |-> NoBuffer]
      /\ UNCHANGED <<empty, filling, filled, finishing, handler, interrupted, signals, runs, bug>>
  BY <1>1 DEF Setup, slots, NoBug
<1>3. /\ empty = NoBuffer /\ filling = NoBuffer /\ filled = NoBuffer
      /\ Len(buffer') = 0 /\ Buffers' = {} /\ Slots' = {}
  BY <1>1, <1>2 DEF Slots, Buffers
<1>4. 0 \in 0..MaxBuffers /\ 0 \in 0..MaxPackets /\ 0 <= MaxBuffers
  BY DriverDumpAssumption
<1>5. ThreadsTyped'
  <2>1. /\ pc' \in [Workers -> ThreadStates]
        /\ new_ddd' \in [Workers -> Buffers' \cup {NoBuffer}]
        /\ main' \in {"start", "setup", "running", "finish", "killed", "exited"}
        /\ everyone_ok' \in BOOLEAN
    BY <1>2 DEF ThreadStates
  <2> QED
    BY <1>1, <1>2, <2>1, Zenon DEF ThreadsTyped
<1>6. DriverTyped'
  <2>1. buffer' \in Seq(BufferType) /\ copied' \in Seq(1..MaxPackets)
    BY <1>2
  <2>2. {empty, filling, filled}' \subseteq Buffers' \cup {NoBuffer}
    BY <1>2, <1>3
  <2>3. bug' \in {"none", "mismatch", "wake", "scan", "other"} /\ dumping' \in BOOLEAN
        /\ handler' \in HandlerStates
    BY <1>1, <1>2 DEF DriverTyped
  <2> QED
    BY <1>2, <1>3, <1>4, <2>1, <2>2, <2>3 DEF DriverTyped
<1>7. CountInv' /\ RacedOnly'
  BY <1>1, <1>2, <1>3 DEF CountInv, RacedOnly
<1>8. SlotInv'
  BY <1>1, <1>2, <1>3 DEF SlotInv
<1>9. OwnerInv' /\ HoldInv' /\ MainInv'
  BY <1>1, <1>2 DEF OwnerInv, HoldInv, MainInv, FillPlaces, Holds
<1> QED
  BY <1>5, <1>6, <1>7, <1>8, <1>9 DEF DriverInv, TypeOK

LEMMA MainMovesInv ==
  ASSUME DriverInv, WaitForThreads \/ RunAgain \/ Dead
  PROVE  DriverInv'
<1>1. /\ ThreadsTyped /\ DriverTyped /\ MainInv /\ AllGone
      /\ UNCHANGED <<slots, counts, control, buffer, pc, new_ddd, interrupted, everyone_ok,
                     signals, files, copied, bug>>
      /\ main' \in {"finish", "start", "exited"}
      /\ runs' = runs \/ (runs < MaxRuns /\ runs' = runs + 1)
  BY DEF DriverInv, TypeOK, WaitForThreads, RunAgain, Dead, MainGoesOn, MainInv, NoBug
<1>2. ThreadsTyped'
  <2>1. runs' \in 0..MaxRuns
    BY <1>1, DriverDumpAssumption DEF ThreadsTyped
  <2>2. main' \in {"start", "setup", "running", "finish", "killed", "exited"}
    BY <1>1
  <2> QED
    BY <1>1, <2>1, <2>2, Zenon DEF ThreadsTyped, Buffers, control
<1>3. MainInv'
  BY <1>1 DEF MainInv, AllGone, control
<1>4. dumping' \in BOOLEAN /\ Stays
  BY <1>1 DEF DriverTyped, control, Stays
<1> QED
  BY <1>1, <1>2, <1>3, <1>4, QuietInv DEF control

LEMMA SignalInv ==
  ASSUME DriverInv, NEW w \in Workers, Signal(w)
  PROVE  DriverInv'
<1>1. /\ ThreadsTyped /\ DriverTyped /\ MainInv /\ pc \in [Workers -> ThreadStates]
      /\ main = "running" /\ signals < MaxSignals /\ signals' = signals + 1
      /\ everyone_ok' = FALSE /\ pc' = Woken(pc, {w})
      /\ interrupted' = [interrupted EXCEPT ![w] = InKernel(w)]
      /\ UNCHANGED <<slots, counts, control, buffer, new_ddd, runs, main, copied, bug>>
  BY DEF DriverInv, TypeOK, ThreadsTyped, Signal, NoBug
<1>2. pc' \in [Workers -> ThreadStates] /\ SamePlaces(pc, pc')
  BY <1>1, Wakes
<1>3. ThreadsTyped'
  <2>1. signals' \in 0..MaxSignals
    BY <1>1, DriverDumpAssumption DEF ThreadsTyped
  <2>2. interrupted' \in [Workers -> BOOLEAN]
    BY <1>1 DEF ThreadsTyped, InKernel
  <2> QED
    BY <1>1, <1>2, <2>1, <2>2, Zenon DEF ThreadsTyped, Buffers, control
<1>4. MainInv'
  BY <1>1, <1>2 DEF MainInv, control, SamePlaces, IdlePlaces
<1>5. dumping' \in BOOLEAN
  BY <1>1 DEF DriverTyped, control
<1> QED
  BY <1>1, <1>2, <1>3, <1>4, <1>5, SamePlacesStay, QuietInv DEF control

LEMMA KillInv ==
  ASSUME DriverInv, Kill
  PROVE  DriverInv'
<1> DEFINE left == [w \in Workers |-> IF InKernel(w) THEN pc[w] ELSE "gone"]
<1>1. /\ ThreadsTyped /\ DriverTyped /\ MainInv /\ pc \in [Workers -> ThreadStates]
      /\ main = "running" /\ main' = "killed" /\ signals < MaxSignals /\ signals' = signals + 1
      /\ pc' = Woken(left, Workers)
      /\ interrupted' = [w \in Workers |-> InKernel(w)]
      /\ UNCHANGED <<slots, counts, control, buffer, new_ddd, everyone_ok, runs, copied, bug>>
  BY DEF DriverInv, TypeOK, ThreadsTyped, Kill, NoBug
<1>2. /\ left \in [Workers -> ThreadStates] /\ \A w \in Workers : left[w] \in {pc[w], "gone"}
      /\ \A w \in Workers : pc[w] \in Holds => left[w] = pc[w]
  BY <1>1 DEF ThreadStates, InKernel, Holds
<1> HIDE DEF left
<1>3. pc' \in [Workers -> ThreadStates] /\ SamePlaces(left, pc')
  BY <1>1, <1>2, Wakes
<1>4. ThreadsTyped'
  <2>1. signals' \in 0..MaxSignals
    BY <1>1, DriverDumpAssumption DEF ThreadsTyped
  <2>2. interrupted' \in [Workers -> BOOLEAN]
    BY <1>1 DEF InKernel
  <2>3. main' \in {"start", "setup", "running", "finish", "killed", "exited"}
    BY <1>1
  <2> QED
    BY <1>1, <1>3, <2>1, <2>2, <2>3, Zenon DEF ThreadsTyped, Buffers, control
<1>5. MainInv'
  <2>1. \A w \in Workers : pc[w] \in IdlePlaces => pc'[w] \in IdlePlaces
    BY <1>2, <1>3 DEF SamePlaces, IdlePlaces
  <2> QED
    BY <1>1, <2>1 DEF MainInv, control
<1>6. Stays
  BY <1>2, <1>3 DEF SamePlaces, Stays, FillPlaces, Holds
<1>7. dumping' \in BOOLEAN
  BY <1>1 DEF DriverTyped, control
<1> QED
  BY <1>1, <1>4, <1>5, <1>6, <1>7, QuietInv DEF control


\* The steps of the handler: a buffer goes from slot to slot, and none leaves them.
LEMMA HandlerKeeps ==
  ASSUME DriverInv, main # "setup", NEW from, NEW to \in HandlerStates, Handles(from, to),
         pc' \in [Workers -> ThreadStates], SamePlaces(pc, pc'),
         buffer' \in [Buffers -> BufferType],
         \A b \in Buffers : /\ buffer'[b].freed = buffer[b].freed
                            /\ buffer[b].done_fill => buffer'[b].done_fill,
         Slots' = Slots, {empty, filling, filled}' \subseteq {empty, filling, filled, NoBuffer},
         NoBuffer \in {empty, filling, filled} => NoBuffer \in {empty, filling, filled}',
         empty = NoBuffer => empty' = NoBuffer,
         empty' # NoBuffer => empty' # filling' /\ empty' # filled',
         filling' # NoBuffer => filling' # filled',
         \A b \in Slots : buffer'[b].done_fill <=> IsFull(b)',
         to = "marked" => filling' # NoBuffer /\ filled' = NoBuffer,
         \/ Uncounted /\ (from # "idle" \/ received < MaxPackets)
         \/ /\ to = "idle" /\ received' \in 0..MaxPackets /\ copy_packets' \in 0..MaxPackets
            /\ drop_packets' \in 0..MaxPackets /\ copied' \in Seq(1..MaxPackets)
            /\ copy_packets' + drop_packets' = received'
  PROVE  DriverInv'
<1>1. /\ TypeOK /\ ThreadsTyped /\ DriverTyped /\ CountInv /\ SlotInv /\ OwnerInv /\ HoldInv
      /\ MainInv /\ RacedOnly
      /\ handler = from /\ handler' = to /\ bug = "none" /\ bug' = "none"
      /\ UNCHANGED <<dumping, finishing, cur_idx_num, new_ddd, interrupted, everyone_ok, signals,
                     runs, main, files>>
  BY DEF DriverInv, TypeOK, Handles, NoBug, Up, control, world
<1>2. Slots \subseteq Buffers /\ Buffers = 1..Len(buffer) /\ Len(buffer) \in Nat
  BY SlotFacts
<1>3. buffer' \in Seq(BufferType) /\ Len(buffer') = Len(buffer) /\ Buffers' = Buffers
  <2>1. buffer' \in Seq(BufferType) /\ Len(buffer') = Len(buffer)
    BY <1>2
  <2> QED
    BY <2>1, Zenon DEF Buffers
<1>4. Stays
  BY SamePlacesStay
<1>5. Releasing' = Releasing
  <2>1. {v \in Workers : pc'[v] = "cleanup"} = {v \in Workers : pc[v] = "cleanup"}
    BY <1>4 DEF Stays, Holds
  <2> QED
    BY <1>1, <2>1, Zenon DEF Releasing
<1>6. /\ received' \in 0..MaxPackets /\ copy_packets' \in 0..MaxPackets
      /\ drop_packets' \in 0..MaxPackets /\ copied' \in Seq(1..MaxPackets)
      /\ copy_packets' + drop_packets' = received'
      /\ handler' # "idle" => received' < MaxPackets
  BY <1>1 DEF Uncounted, DriverTyped, CountInv
<1>7. TypeOK'
  <2>1. ThreadsTyped'
    BY <1>1, <1>3, Zenon DEF ThreadsTyped
  <2>2. {empty, filling, filled}' \subseteq Buffers' \cup {NoBuffer}
    BY <1>1, <1>3 DEF DriverTyped
  <2>3. Len(buffer') <= MaxBuffers
    BY <1>1, <1>3 DEF DriverTyped
  <2>4. bug' \in {"none", "mismatch", "wake", "scan", "other"} /\ handler' \in HandlerStates
    BY <1>1
  <2> QED
    BY <1>1, <1>3, <1>6, <2>1, <2>2, <2>3, <2>4, Zenon DEF TypeOK, DriverTyped
<1>8. CountInv' /\ RacedOnly'
  BY <1>1, <1>3, <1>6 DEF CountInv, RacedOnly
<1>9. SlotInv'
  <2>1. \A b \in Buffers' : buffer'[b].freed <=> b \notin Slots' \cup Releasing'
    BY <1>1, <1>3, <1>5 DEF SlotInv
  <2> QED
    BY <1>1, <2>1 DEF SlotInv
<1>10. OwnerInv'
  BY <1>1, <1>2, <1>4 DEF OwnerInv, Stays, FillPlaces
<1>11. HoldInv'
  BY <1>1, <1>3, <1>4 DEF HoldInv, Stays, Holds
<1>12. MainInv'
  BY <1>1 DEF MainInv, AllGone, SamePlaces, IdlePlaces
<1> QED
  BY <1>7, <1>8, <1>9, <1>10, <1>11, <1>12 DEF DriverInv

\* The handler runs only while there are buffers.
LEMMA HandlerRuns ==
  ASSUME DriverInv, Receive \/ Handler
  PROVE  /\ main # "setup" /\ pc \in [Workers -> ThreadStates] /\ SamePlaces(pc, pc)
         /\ \A b \in Slots : ~buffer[b].freed /\ (buffer[b].done_fill <=> IsFull(b))
         /\ Slots \subseteq Buffers /\ NoBuffer \notin Buffers
         /\ empty # NoBuffer => empty \in Slots /\ empty # filling /\ empty # filled
         /\ filling # NoBuffer => filling \in Slots /\ filling # filled
         /\ filled # NoBuffer => filled \in Slots
<1>1. ThreadsTyped /\ MainInv /\ SlotInv /\ Slots \subseteq Buffers /\ NoBuffer \notin Buffers
  BY SlotFacts DEF DriverInv, TypeOK
<1>2. main # "setup"
  BY <1>1 DEF Receive, Handler, Promote, WakeFilled, TakeEmpty, WakeWaiters, Copy, Handles, MainInv
<1>3. pc \in [Workers -> ThreadStates] /\ SamePlaces(pc, pc)
  BY <1>1 DEF ThreadsTyped, SamePlaces
<1>4. \A b \in Slots : ~buffer[b].freed /\ (buffer[b].done_fill <=> IsFull(b))
  BY <1>1 DEF SlotInv
<1>5. /\ empty # NoBuffer => empty \in Slots /\ empty # filling /\ empty # filled
      /\ filling # NoBuffer => filling \in Slots /\ filling # filled
      /\ filled # NoBuffer => filled \in Slots
  BY <1>1 DEF Slots, SlotInv
<1> QED
  BY <1>1, <1>2, <1>3, <1>4, <1>5

LEMMA ReceiveInv ==
  ASSUME DriverInv, Receive
  PROVE  DriverInv'
<1>1. /\ main # "setup" /\ pc \in [Workers -> ThreadStates] /\ SamePlaces(pc, pc)
      /\ \A b \in Slots : buffer[b].done_fill <=> IsFull(b)
      /\ Slots \subseteq Buffers
      /\ empty # NoBuffer => empty # filling /\ empty # filled
      /\ filling # NoBuffer => filling \in Slots /\ filling # filled
      /\ buffer \in [Buffers -> BufferType]
  BY HandlerRuns, SlotFacts
<1>2. handler = "idle" /\ received < MaxPackets
  BY DEF Receive
<1>3. CASE CannotFill /\ filling # NoBuffer /\ filled = NoBuffer
  <2>1. ~buffer[filling].done_fill
    BY <1>1, <1>2, <1>3 DEF IsFull
  <2>2. /\ Handles("idle", "marked") /\ UNCHANGED <<slots, pc>> /\ Uncounted
        /\ buffer' = [buffer EXCEPT ![filling].done_fill = TRUE]
    BY <1>3, <2>1 DEF Receive
  <2>3. /\ UNCHANGED <<empty, filling, filled, pc>> /\ Slots' = Slots
        /\ handler' = "marked" /\ filling \in Buffers
    BY <1>1, <1>3, <2>2 DEF slots, Slots, Handles
  <2>4. /\ buffer' \in [Buffers -> BufferType]
        /\ \A b \in Buffers : /\ buffer'[b].freed = buffer[b].freed
                              /\ buffer'[b].done_fill = (buffer[b].done_fill \/ b = filling)
    BY <1>1, <2>2, <2>3 DEF BufferType
  <2>5. \A b \in Slots : buffer'[b].done_fill <=> IsFull(b)'
    BY <1>1, <1>2, <2>3, <2>4 DEF IsFull
  <2>6. "marked" \in HandlerStates
    BY DEF HandlerStates
  <2> QED
    BY <1>1, <1>2, <1>3, <2>2, <2>3, <2>4, <2>5, <2>6, HandlerKeeps
<1>4. CASE ~(CannotFill /\ filling # NoBuffer /\ filled = NoBuffer)
  <2>1. PICK to \in {"empty", "copy"} :
          Handles("idle", to) /\ UNCHANGED <<slots, pc, buffer>> /\ Uncounted
    BY <1>4 DEF Receive
  <2>2. UNCHANGED <<empty, filling, filled, pc, buffer>> /\ Slots' = Slots /\ handler' = to
    BY <2>1 DEF slots, Slots, Handles
  <2>3. \A b \in Slots : buffer'[b].done_fill <=> IsFull(b)'
    BY <1>1, <1>2, <2>1, <2>2 DEF IsFull
  <2>4. to \in HandlerStates /\ to # "marked"
    BY <2>1 DEF HandlerStates
  <2> QED
    BY <1>1, <1>2, <2>1, <2>2, <2>3, <2>4, HandlerKeeps
<1> QED
  BY <1>3, <1>4

LEMMA PromoteInv ==
  ASSUME DriverInv, Promote
  PROVE  DriverInv'
<1>1. /\ main # "setup" /\ pc \in [Workers -> ThreadStates] /\ SamePlaces(pc, pc)
      /\ \A b \in Slots : buffer[b].done_fill <=> IsFull(b)
      /\ Slots \subseteq Buffers /\ NoBuffer \notin Buffers
      /\ empty # NoBuffer => empty # filling /\ empty # filled
      /\ buffer \in [Buffers -> BufferType]
  BY HandlerRuns, SlotFacts DEF Handler
<1>2. /\ Handles("marked", "wake fill") /\ Uncounted /\ UNCHANGED <<empty, pc, buffer>>
      /\ filled' = filling /\ filling' = NoBuffer
      /\ handler = "marked" /\ handler' = "wake fill"
  BY DEF Promote, Handles
<1>3. filling # NoBuffer /\ filled = NoBuffer
  BY <1>2 DEF DriverInv, SlotInv
<1>4. Slots' = Slots
  BY <1>2, <1>3 DEF Slots
<1>5. \A b \in Slots : buffer'[b].done_fill <=> IsFull(b)'
  BY <1>1, <1>2, <1>3 DEF IsFull
<1>6. "wake fill" \in HandlerStates
  BY DEF HandlerStates
<1> QED
  BY <1>1, <1>2, <1>3, <1>4, <1>5, <1>6, HandlerKeeps

LEMMA WakeFilledInv ==
  ASSUME DriverInv, WakeFilled
  PROVE  DriverInv'
<1>1. CASE filled = NoBuffer
  BY <1>1, CrashInv DEF WakeFilled
<1>2. CASE filled # NoBuffer
  <2>1. /\ main # "setup" /\ pc \in [Workers -> ThreadStates]
        /\ \A b \in Slots : buffer[b].done_fill <=> IsFull(b)
        /\ empty # NoBuffer => empty # filling /\ empty # filled
        /\ filling # NoBuffer => filling # filled
        /\ buffer \in [Buffers -> BufferType]
    BY HandlerRuns, SlotFacts DEF Handler
  <2>2. /\ Handles("wake fill", "empty") /\ UNCHANGED <<slots, buffer>> /\ Uncounted
        /\ pc' = WakeFill(pc, {filled}) /\ handler = "wake fill" /\ handler' = "empty"
    BY <1>2 DEF WakeFilled, Handles, Crash
  <2>3. UNCHANGED <<empty, filling, filled, buffer>> /\ Slots' = Slots
    BY <2>2 DEF slots, Slots
  <2>4. \A b \in Slots : buffer'[b].done_fill <=> IsFull(b)'
    BY <2>1, <2>2, <2>3 DEF IsFull
  <2>5. pc' \in [Workers -> ThreadStates] /\ SamePlaces(pc, pc')
    BY <2>1, <2>2, Wakes
  <2>6. "empty" \in HandlerStates
    BY DEF HandlerStates
  <2> QED
    BY <2>1, <2>2, <2>3, <2>4, <2>5, <2>6, HandlerKeeps
<1> QED
  BY <1>1, <1>2

LEMMA TakeEmptyInv ==
  ASSUME DriverInv, TakeEmpty
  PROVE  DriverInv'
<1>1. /\ main # "setup" /\ pc \in [Workers -> ThreadStates] /\ SamePlaces(pc, pc)
      /\ \A b \in Slots : buffer[b].done_fill <=> IsFull(b)
      /\ Slots \subseteq Buffers /\ NoBuffer \notin Buffers
      /\ empty # NoBuffer => empty \in Slots /\ empty # filling /\ empty # filled
      /\ filling # NoBuffer => filling # filled
      /\ buffer \in [Buffers -> BufferType] /\ handler = "empty"
  BY HandlerRuns, SlotFacts DEF Handler, TakeEmpty
<1>2. CASE filling = NoBuffer /\ empty # NoBuffer
  <2>1. ~buffer[empty].done_fill
    BY <1>1, <1>2 DEF IsFull
  <2>2. /\ filling' = empty /\ empty' = NoBuffer
        /\ Handles("empty", "wake empty") /\ UNCHANGED <<filled, pc, buffer>> /\ Uncounted
        /\ handler' = "wake empty"
    BY <1>2, <2>1 DEF TakeEmpty, Handles
  <2>3. Slots' = Slots
    BY <1>2, <2>2 DEF Slots
  <2>4. \A b \in Slots : buffer'[b].done_fill <=> IsFull(b)'
    BY <1>1, <2>2 DEF IsFull
  <2>5. "wake empty" \in HandlerStates
    BY DEF HandlerStates
  <2> QED
    BY <1>1, <1>2, <2>2, <2>3, <2>4, <2>5, HandlerKeeps
<1>3. CASE ~(filling = NoBuffer /\ empty # NoBuffer)
  <2>1. /\ Handles("empty", "copy") /\ UNCHANGED <<slots, pc, buffer>> /\ Uncounted
        /\ handler' = "copy"
    BY <1>3 DEF TakeEmpty, Handles
  <2>2. UNCHANGED <<empty, filling, filled, pc, buffer>> /\ Slots' = Slots
    BY <2>1 DEF slots, Slots
  <2>3. \A b \in Slots : buffer'[b].done_fill <=> IsFull(b)'
    BY <1>1, <2>1, <2>2 DEF IsFull
  <2>4. "copy" \in HandlerStates
    BY DEF HandlerStates
  <2> QED
    BY <1>1, <2>1, <2>2, <2>3, <2>4, HandlerKeeps
<1> QED
  BY <1>2, <1>3

LEMMA WakeWaitersInv ==
  ASSUME DriverInv, WakeWaiters
  PROVE  DriverInv'
<1>1. /\ main # "setup" /\ pc \in [Workers -> ThreadStates]
      /\ \A b \in Slots : buffer[b].done_fill <=> IsFull(b)
      /\ empty # NoBuffer => empty # filling /\ empty # filled
      /\ filling # NoBuffer => filling # filled
      /\ buffer \in [Buffers -> BufferType]
  BY HandlerRuns, SlotFacts DEF Handler
<1>2. /\ Handles("wake empty", "copy") /\ UNCHANGED <<slots, buffer>> /\ Uncounted
      /\ pc' = WakeEmpty(pc) /\ handler = "wake empty" /\ handler' = "copy"
  BY DEF WakeWaiters, Handles
<1>3. UNCHANGED <<empty, filling, filled, buffer>> /\ Slots' = Slots
  BY <1>2 DEF slots, Slots
<1>4. \A b \in Slots : buffer'[b].done_fill <=> IsFull(b)'
  BY <1>1, <1>2, <1>3 DEF IsFull
<1>5. pc' \in [Workers -> ThreadStates] /\ SamePlaces(pc, pc')
  BY <1>1, <1>2, Wakes
<1>6. "copy" \in HandlerStates
  BY DEF HandlerStates
<1> QED
  BY <1>1, <1>2, <1>3, <1>4, <1>5, <1>6, HandlerKeeps

\* A packet is copied where there is room for it.
LEMMA CopyFits ==
  ASSUME DriverInv, handler = "copy", ~CannotFill,
         buffer' = [buffer EXCEPT ![filling].packets = Append(@, received + 1),
                                  ![filling].offset  = @ + Size(received + 1)]
  PROVE  /\ filling \in Buffers /\ received + 1 \in 1..MaxPackets
         /\ buffer' \in [Buffers -> BufferType]
         /\ buffer'[filling].packets = Append(buffer[filling].packets, received + 1)
         /\ \A b \in Buffers : /\ buffer'[b].freed = buffer[b].freed
                               /\ buffer'[b].done_fill = buffer[b].done_fill
                               /\ buffer'[b].index = buffer[b].index
                               /\ b # filling => buffer'[b] = buffer[b]
<1> DEFINE k == received + 1
           bytes == Size(k)
<1>1. filling \in Buffers /\ ~(buffer[filling].offset + bytes > Capacity)
  BY SlotFacts DEF CannotFill, Slots
<1>2. received \in Nat /\ received < MaxPackets /\ MaxPackets \in Nat /\ Capacity \in Nat
  BY DriverDumpAssumption DEF DriverInv, TypeOK, DriverTyped, CountInv
<1>3. buffer \in [Buffers -> BufferType] /\ buffer[filling] \in BufferType
  BY <1>1, SlotFacts
<1>4. k \in 1..MaxPackets /\ bytes \in Nat
  BY <1>2 DEF Size
<1> HIDE DEF k, bytes
<1>5. buffer[filling].offset + bytes \in 0..Capacity
  <2>1. buffer[filling].offset \in 0..Capacity
    BY <1>3 DEF BufferType
  <2> QED
    BY <1>1, <1>2, <1>4, <2>1
<1>6. Append(buffer[filling].packets, k) \in Seq(1..MaxPackets)
  <2>1. buffer[filling].packets \in Seq(1..MaxPackets)
    BY <1>3 DEF BufferType
  <2> QED
    BY <1>4, <2>1, AppendProperties
<1>7. buffer' = [buffer EXCEPT ![filling] =
                   [@ EXCEPT !.packets = Append(buffer[filling].packets, k),
                             !.offset  = buffer[filling].offset + bytes]]
  BY <1>1, <1>3 DEF k, bytes
<1> DEFINE new == [buffer[filling] EXCEPT !.packets = Append(buffer[filling].packets, k),
                                          !.offset  = buffer[filling].offset + bytes]
<1>8. /\ new \in BufferType /\ new.packets = Append(buffer[filling].packets, k)
      /\ new.freed = buffer[filling].freed /\ new.done_fill = buffer[filling].done_fill
      /\ new.index = buffer[filling].index
  BY <1>3, <1>5, <1>6 DEF BufferType
<1>9. buffer' = [buffer EXCEPT ![filling] = new]
  BY <1>1, <1>3, <1>7
<1> HIDE DEF new
<1>10. /\ buffer' \in [Buffers -> BufferType] /\ buffer'[filling] = new
       /\ \A b \in Buffers : b # filling => buffer'[b] = buffer[b]
  BY <1>1, <1>3, <1>8, <1>9
<1> QED
  BY <1>1, <1>4, <1>8, <1>10 DEF k

LEMMA CopyInv ==
  ASSUME DriverInv, Copy
  PROVE  DriverInv'
<1>1. /\ main # "setup" /\ pc \in [Workers -> ThreadStates] /\ SamePlaces(pc, pc)
      /\ \A b \in Slots : ~buffer[b].freed /\ (buffer[b].done_fill <=> IsFull(b))
      /\ empty # NoBuffer => empty # filling /\ empty # filled
      /\ filling # NoBuffer => filling \in Slots /\ filling # filled
      /\ Slots \subseteq Buffers
      /\ buffer \in [Buffers -> BufferType] /\ handler = "copy"
  BY HandlerRuns, SlotFacts DEF Handler, Copy
<1>2. /\ received \in Nat /\ received < MaxPackets /\ MaxPackets \in Nat
      /\ copy_packets \in Nat /\ drop_packets \in Nat /\ copied \in Seq(1..MaxPackets)
      /\ copy_packets + drop_packets = received
  BY <1>1, DriverDumpAssumption DEF DriverInv, TypeOK, DriverTyped, CountInv
<1>3. "idle" \in HandlerStates
  BY DEF HandlerStates
<1>4. CASE filling # NoBuffer /\ buffer[filling].freed
  BY <1>1, <1>4
<1>5. CASE /\ CannotFill /\ drop_packets' = drop_packets + 1 /\ received' = received + 1
           /\ Handles("copy", "idle") /\ UNCHANGED <<slots, pc, buffer, copy_packets, copied>>
  <2>1. UNCHANGED <<empty, filling, filled, buffer, pc>> /\ Slots' = Slots /\ handler' = "idle"
    BY <1>5 DEF slots, Slots, Handles
  <2>2. \A b \in Slots : buffer'[b].done_fill <=> IsFull(b)'
    BY <1>1, <2>1 DEF IsFull
  <2>3. /\ received' \in 0..MaxPackets /\ copy_packets' \in 0..MaxPackets
        /\ drop_packets' \in 0..MaxPackets /\ copied' \in Seq(1..MaxPackets)
        /\ copy_packets' + drop_packets' = received'
    BY <1>2, <1>5
  <2> QED
    BY <1>1, <1>3, <1>5, <2>1, <2>2, <2>3, HandlerKeeps
<1>6. CASE /\ ~CannotFill /\ ~buffer[filling].freed
           /\ copy_packets' = copy_packets + 1 /\ received' = received + 1
           /\ buffer' = [buffer EXCEPT ![filling].packets = Append(@, received + 1),
                                       ![filling].offset  = @ + Size(received + 1)]
           /\ copied' = Append(copied, received + 1)
           /\ Handles("copy", "idle") /\ UNCHANGED <<slots, pc, drop_packets>>
  <2>1. UNCHANGED <<empty, filling, filled, pc>> /\ Slots' = Slots /\ handler' = "idle"
    BY <1>6 DEF slots, Slots, Handles
  <2>2. /\ buffer' \in [Buffers -> BufferType] /\ received + 1 \in 1..MaxPackets
        /\ \A b \in Buffers : /\ buffer'[b].freed = buffer[b].freed
                              /\ buffer'[b].done_fill = buffer[b].done_fill
    BY <1>1, <1>6, CopyFits
  <2>3. \A b \in Slots : buffer'[b].done_fill <=> IsFull(b)'
    BY <1>1, <2>1, <2>2 DEF IsFull
  <2>4. copied' \in Seq(1..MaxPackets)
    BY <1>2, <1>6, <2>2, AppendProperties
  <2>5. /\ received' \in 0..MaxPackets /\ copy_packets' \in 0..MaxPackets
        /\ drop_packets' \in 0..MaxPackets
        /\ copy_packets' + drop_packets' = received'
    BY <1>2, <1>6
  <2> QED
    BY <1>1, <1>3, <1>6, <2>1, <2>2, <2>3, <2>4, <2>5, HandlerKeeps
<1> QED
  BY <1>4, <1>5, <1>6 DEF Copy

LEMMA HandlerInv ==
  ASSUME DriverInv, Handler
  PROVE  DriverInv'
BY PromoteInv, WakeFilledInv, TakeEmptyInv, WakeWaitersInv, CopyInv DEF Handler

LEMMA DriverInit == ASSUME Init PROVE DriverInv
<1>1. Buffers = {} /\ Slots = {} /\ Len(buffer) = 0
  BY DEF Init, Buffers, Slots
<1>2. TypeOK
  <2>1. 0 \in 0..MaxBuffers /\ 0 \in 0..MaxPackets /\ 0 \in 0..MaxSignals /\ 0 \in 0..MaxRuns
        /\ 0 <= MaxBuffers
    BY DriverDumpAssumption
  <2>2. ThreadsTyped
    BY <2>1 DEF Init, ThreadsTyped, ThreadStates
  <2>3. buffer \in Seq(BufferType) /\ copied \in Seq(1..MaxPackets)
    BY DEF Init
  <2>4. {empty, filling, filled} \subseteq Buffers \cup {NoBuffer}
    BY DEF Init
  <2>5. DriverTyped
    BY <1>1, <2>1, <2>3, <2>4 DEF Init, DriverTyped, HandlerStates
  <2> QED
    BY <2>2, <2>5 DEF TypeOK
<1>3. CountInv /\ RacedOnly
  BY <1>1 DEF Init, CountInv, RacedOnly
<1>4. SlotInv
  BY <1>1 DEF Init, SlotInv
<1>5. OwnerInv /\ HoldInv /\ MainInv
  BY DEF Init, OwnerInv, HoldInv, MainInv, FillPlaces, Holds, IdlePlaces, AllGone
<1> QED
  BY <1>2, <1>3, <1>4, <1>5 DEF DriverInv

LEMMA DriverNext ==
  ASSUME DriverInv, [Next]_vars, ~BusyFinish
  PROVE  DriverInv'
<1>1. CASE Receive \/ Handler
  BY <1>1, ReceiveInv, HandlerInv
<1>2. ASSUME NEW w \in Workers, Thread(w) PROVE DriverInv'
  BY <1>2, ThreadMoves, MapPagesInv, TakeFilledInv, CleanUpInv, AbortInv DEF Thread
<1>3. ASSUME NEW w \in Workers, Signal(w) PROVE DriverInv'
  BY <1>3, SignalInv
<1>4. CASE FirstFinish \/ LastFinish
  <2>1. main # "setup" /\ AllGone
    BY <1>4 DEF FirstFinish, LastFinish, DriverInv, MainInv
  <2>2. \A w \in Workers : ~InKernel(w)
    BY <2>1 DEF AllGone, InKernel
  <2> QED
    BY <1>4, <2>1, <2>2, StartFinishInv DEF FirstFinish, LastFinish
<1>5. CASE EndFirst \/ EndLast
  <2>1. AllGone
    BY <1>5 DEF EndFirst, EndLast, DriverInv, MainInv
  <2> QED
    BY <1>5, <2>1, EndFinishInv DEF EndFirst, EndLast
<1>6. CASE Setup
  BY <1>6, SetupInv
<1>7. CASE WaitForThreads \/ RunAgain \/ Dead
  BY <1>7, MainMovesInv
<1>8. CASE Kill
  BY <1>8, KillInv
<1>9. CASE StrangerFinishes
  BY <1>9, StartFinishInv DEF StrangerFinishes
<1>10. CASE EndStranger
  <2>1. main # "setup"
    BY <1>10 DEF EndStranger, EndFinish, DriverInv, MainInv
  <2> QED
    BY <1>10, <2>1, EndFinishInv DEF EndStranger
<1>11. CASE UNCHANGED vars
  <2>1. ThreadsTyped' /\ dumping' \in BOOLEAN
    BY <1>11, Zenon DEF DriverInv, TypeOK, ThreadsTyped, DriverTyped, Buffers, vars, control, world
  <2>2. MainInv' /\ Stays
    BY <1>11 DEF DriverInv, MainInv, Slots, AllGone, vars, slots, counts, control, world, Stays
  <2> QED
    BY <1>11, <2>1, <2>2, QuietInv DEF vars, control
<1> QED
  BY <1>1, <1>2, <1>3, <1>4, <1>5, <1>6, <1>7, <1>8, <1>9, <1>10, <1>11 DEF Next, MainThread

\* The slots, the buffers, the threads and the semaphore of kernel-driver-add.c stay
\* as DriverInv says; ThreeBuffers follows from it.
THEOREM DriverCorrect == ASSUME ~BusyFinish PROVE Spec => []DriverInv
<1>1. DriverInv /\ [Next]_vars => DriverInv'
  BY DriverNext
<1> QED
  BY <1>1, DriverInit, PTL DEF Spec

LEMMA AtMostThree ==
  ASSUME NEW a, NEW b, NEW c, NEW S \in SUBSET {a, b, c}
  PROVE  IsFiniteSet(S) /\ Cardinality(S) <= 3
<1>1. IsFiniteSet({a}) /\ Cardinality({a}) = 1
  BY FS_Singleton
<1>2. IsFiniteSet({a} \cup {b}) /\ Cardinality({a} \cup {b}) \in 1..2
  BY <1>1, FS_AddElement
<1>3. IsFiniteSet(({a} \cup {b}) \cup {c}) /\ Cardinality(({a} \cup {b}) \cup {c}) \in 1..3
  BY <1>2, FS_AddElement
<1>4. S \subseteq ({a} \cup {b}) \cup {c}
  OBVIOUS
<1>5. IsFiniteSet(S) /\ Cardinality(S) <= Cardinality(({a} \cup {b}) \cup {c})
      /\ Cardinality(S) \in Nat
  BY <1>3, <1>4, FS_Subset, FS_CardinalityType
<1> QED
  BY <1>3, <1>5

LEMMA InvThreeBuffers == ASSUME DriverInv PROVE ThreeBuffers
<1>1. /\ TypeOK /\ RacedOnly /\ SlotInv /\ HoldInv /\ MainInv /\ Slots \subseteq Buffers
      /\ NoBuffer \notin Buffers
  BY SlotFacts DEF DriverInv
<1>2. Live = Slots \cup Releasing
  <2>1. Releasing \subseteq Buffers
    BY <1>1 DEF Releasing, HoldInv
  <2> QED
    BY <1>1, <2>1 DEF Live, SlotInv
<1>3. Cardinality(Live) <= 3
  <2>1. CASE \A w \in Workers : pc[w] # "cleanup"
    <3>1. Live \in SUBSET {empty, filling, filled}
      BY <1>2, <2>1 DEF Releasing, Slots
    <3> QED
      BY <3>1, AtMostThree
  <2>2. ASSUME NEW w \in Workers, pc[w] = "cleanup" PROVE Cardinality(Live) <= 3
    <3> DEFINE r == new_ddd[w]
    <3>1. Releasing = {r} /\ NoBuffer \in {empty, filling, filled}
      BY <1>1, <2>2 DEF Releasing, HoldInv, Holds
    <3> HIDE DEF r
    <3>2. \E a, b \in {empty, filling, filled} : Slots \subseteq {a, b}
      BY <3>1 DEF Slots
    <3>3. PICK a, b \in {empty, filling, filled} : Slots \subseteq {a, b}
      BY <3>2
    <3>4. Live \in SUBSET {a, b, r}
      BY <1>2, <3>1, <3>3
    <3> QED
      BY <3>4, AtMostThree
  <2> QED
    BY <2>1, <2>2
<1>4. \A s, t \in 1..3 : s # t /\ slots[s] = slots[t] => slots[s] = NoBuffer
  <2>1. \A s \in 1..3 : s = 1 \/ s = 2 \/ s = 3
    OBVIOUS
  <2>2. slots[1] = empty /\ slots[2] = filling /\ slots[3] = filled
    BY DEF slots
  <2> QED
    BY <1>1, <2>1, <2>2 DEF SlotInv
<1>5. main = "setup" => Live = {}
  <2> SUFFICES ASSUME main = "setup" PROVE Live = {}
    OBVIOUS
  <2>1. Slots = {} /\ \A w \in Workers : pc[w] = "gone"
    BY <1>1 DEF MainInv, AllGone
  <2> QED
    BY <1>2, <2>1 DEF Releasing
<1> QED
  BY <1>1, <1>2, <1>3, <1>4, <1>5 DEF ThreeBuffers, Releasing

\* For any number of threads, packets, buffers and signals, when nobody else calls
\* finish while a file ioctl runs: at most three buffers are allocated, each in a
\* slot of its own or with the thread that releases its pages, and a BUG() or a use of
\* a buffer that is gone is reached only in the windows of the handler that RacedOnly
\* names: it has marked a buffer and not promoted it, promoted it and not woken its
\* thread, or moves one on while abort or finish look at the slots.
THEOREM BuffersSafe == ASSUME ~BusyFinish PROVE Spec => []ThreeBuffers
<1>1. DriverInv => ThreeBuffers
  BY InvThreeBuffers
<1> QED
  BY <1>1, DriverCorrect, PTL

----------------------------------------------------------------------------
\* NoLostWakeup

EmptyTaken == empty # NoBuffer \/ handler = "wake empty"

NotFull(w) == ~buffer[new_ddd[w]].done_fill \/ WillWake(new_ddd[w])

\* A step keeps NoLostWakeup when those who sleep afterwards slept before, and what
\* they looked at before they slept is the same.
LEMMA SleepersKept ==
  ASSUME NoLostWakeup,
         \A w \in Workers :
           /\ pc'[w] = "sleep empty" =>
                /\ pc[w] = "sleep empty" /\ (EmptyTaken => EmptyTaken')
                /\ (dumping => dumping') /\ (~interrupted[w] => ~interrupted'[w])
           /\ pc'[w] = "sleep fill" =>
                /\ pc[w] = "sleep fill" /\ (NotFull(w) => NotFull(w)')
                /\ (dumping => dumping') /\ (~interrupted[w] => ~interrupted'[w])
  PROVE  NoLostWakeup'
BY DEF NoLostWakeup, EmptyTaken, NotFull

\* The steps after which everybody sleeps who slept before, for the same reasons.
LEMMA SleepersUnmoved ==
  ASSUME NoLostWakeup, UNCHANGED <<slots, handler, dumping, interrupted, buffer, pc, new_ddd>>
  PROVE  NoLostWakeup'
BY DEF NoLostWakeup, WillWake, slots

LEMMA SleepersCrash ==
  ASSUME NoLostWakeup, NEW where, Crash(where) PROVE NoLostWakeup'
BY SleepersUnmoved DEF Crash, counts, control

\* Steps of one thread
LEMMA SleepersThread ==
  ASSUME DriverInv, NoLostWakeup, NEW w \in Workers, Thread(w) PROVE NoLostWakeup'
<1> USE DEF slots, counts, control, NoBug
<1>1. /\ pc \in [Workers -> ThreadStates] /\ interrupted \in [Workers -> BOOLEAN]
      /\ new_ddd \in [Workers -> Buffers \cup {NoBuffer}]
      /\ \A v \in Workers : pc[v] = "sleep fill" => new_ddd[v] \in Slots /\ new_ddd[v] \in Buffers
  BY SlotFacts DEF DriverInv, TypeOK, ThreadsTyped, OwnerInv, FillPlaces
<1>2. ASSUME NEW to, to \notin {"sleep empty", "sleep fill"},
             pc' = [pc EXCEPT ![w] = to],
             UNCHANGED <<slots, handler, dumping, buffer, new_ddd>>,
             UNCHANGED interrupted \/ interrupted' = [interrupted EXCEPT ![w] = FALSE]
      PROVE  NoLostWakeup'
  <2>1. \A v \in Workers : NotFull(v) => NotFull(v)'
    BY <1>2 DEF NotFull, WillWake
  <2> QED
    BY <1>1, <1>2, <2>1, SleepersKept DEF EmptyTaken
<1>3. CASE \/ Enter(w) \/ EnterAgain(w) \/ Failed(w) \/ Prepare(w) \/ Leave(w) \/ Die(w)
           \/ Returned(w) \/ DownInterrupted(w, "enter") \/ DownInterrupted(w, "down again")
           \/ DownInterrupted(w, "down filled")
  <2>1. \E to : /\ to \notin {"sleep empty", "sleep fill"} /\ pc' = [pc EXCEPT ![w] = to]
                /\ UNCHANGED <<slots, handler, dumping, buffer, new_ddd>>
                /\ UNCHANGED interrupted \/ interrupted' = [interrupted EXCEPT ![w] = FALSE]
    BY <1>3 DEF Enter, EnterAgain, Failed, Prepare, Leave, Die, Returned, DownInterrupted, Moves, Goes
  <2> QED
    BY <1>2, <2>1
<1>4. CASE MapPages(w)
  <2>1. CASE Moves(w, "mapping", "failed")
    BY <1>2, <2>1 DEF Moves, Goes
  <2>2. CASE empty # NoBuffer /\ Crash("other")
    BY <2>2, SleepersCrash
  <2>3. CASE /\ empty' = Len(buffer) + 1
             /\ buffer' = Append(buffer, Fresh(cur_idx_num))
             /\ new_ddd' = [new_ddd EXCEPT ![w] = empty']
             /\ pc' = [pc EXCEPT ![w] = "check fill"]
             /\ UNCHANGED <<filling, filled, handler, dumping, interrupted>>
    <3>1. EmptyTaken'
      <4>1. Len(buffer) \in Nat
        BY SlotFacts
      <4>2. empty' = Len(buffer) + 1
        BY <2>3
      <4>3. empty' # NoBuffer
        BY <4>1, <4>2
      <4> QED
        BY <4>3 DEF EmptyTaken
    <3>2. \A b \in Buffers : buffer'[b] = buffer[b]
      <4>1. buffer \in Seq(BufferType) /\ Buffers = 1..Len(buffer)
        BY SlotFacts DEF DriverInv, TypeOK, DriverTyped
      <4>2. buffer' = Append(buffer, Fresh(cur_idx_num))
        BY <2>3
      <4>3. Len(buffer) \in Nat /\ buffer = [b \in 1..Len(buffer) |-> buffer[b]]
        BY <4>1
      <4> QED
        BY <4>1, <4>2, <4>3
    <3>3. /\ \A v \in Workers : v # w => pc'[v] = pc[v] /\ new_ddd'[v] = new_ddd[v]
          /\ pc'[w] = "check fill"
      BY <1>1, <2>3
    <3>4. \A v \in Workers : pc'[v] = "sleep fill" => (NotFull(v) => NotFull(v)')
      BY <1>1, <2>3, <3>2, <3>3 DEF NotFull, WillWake
    <3> QED
      BY <2>3, <3>1, <3>3, <3>4, SleepersKept
  <2> QED
    BY <1>4, <2>1, <2>2, <2>3 DEF MapPages
<1>5. CASE CheckEmpty(w)
  <2> DEFINE to == IF ~dumping THEN "failed"
                   ELSE IF empty = NoBuffer THEN "down again"
                   ELSE IF interrupted[w] THEN "failed" ELSE "sleep empty"
  <2>1. /\ pc' = [pc EXCEPT ![w] = to]
        /\ UNCHANGED <<slots, handler, dumping, interrupted, buffer, new_ddd>>
        /\ to = "sleep empty" => dumping /\ empty # NoBuffer /\ ~interrupted[w]
        /\ to # "sleep fill"
    BY <1>5 DEF CheckEmpty, Moves, Goes
  <2> HIDE DEF to
  <2> QED
    BY <1>1, <2>1 DEF NoLostWakeup, WillWake
<1>6. CASE CheckFill(w)
  <2> DEFINE to == IF ~dumping THEN "failed"
                   ELSE IF buffer[new_ddd[w]].done_fill THEN "down filled"
                   ELSE IF interrupted[w] THEN "failed" ELSE "sleep fill"
  <2>1. /\ pc' = [pc EXCEPT ![w] = to]
        /\ UNCHANGED <<slots, handler, dumping, interrupted, buffer, new_ddd>>
        /\ to = "sleep fill" => dumping /\ ~buffer[new_ddd[w]].done_fill /\ ~interrupted[w]
        /\ to # "sleep empty"
    BY <1>6 DEF CheckFill, Moves, Goes
  <2> HIDE DEF to
  <2> QED
    BY <1>1, <2>1 DEF NoLostWakeup, WillWake
<1>7. CASE TakeFilled(w)
  <2>1. CASE filled # new_ddd[w] /\ Crash("mismatch")
    BY <2>1, SleepersCrash
  <2>2. CASE /\ filled = new_ddd[w] /\ pc' = [pc EXCEPT ![w] = "cleanup"]
             /\ UNCHANGED <<empty, filling, handler, dumping, interrupted, buffer, new_ddd>>
    <3>1. \A v \in Workers : pc[v] = "sleep fill" => new_ddd[v] # new_ddd[w]
      BY <1>7 DEF TakeFilled, DriverInv, OwnerInv, FillPlaces
    <3>2. \A v \in Workers : pc'[v] = "sleep fill" =>
             pc[v] = "sleep fill" /\ (NotFull(v) => NotFull(v)')
      BY <1>1, <2>2, <3>1 DEF NotFull, WillWake
    <3> QED
      BY <1>1, <2>2, <3>2, SleepersKept DEF EmptyTaken
  <2> QED
    BY <1>7, <2>1, <2>2 DEF TakeFilled
<1>8. CASE CleanUp(w)
  <2> DEFINE b == new_ddd[w]
  <2>1. CASE Crash("other")
    BY <2>1, SleepersCrash
  <2>2. CASE /\ buffer' = [buffer EXCEPT ![b].freed = TRUE]
             /\ pc' = [pc EXCEPT ![w] = "returned"]
             /\ UNCHANGED <<slots, handler, dumping, interrupted, new_ddd>>
    <3>1. buffer \in [Buffers -> BufferType] /\ b \in Buffers
      BY <1>8, SlotFacts DEF CleanUp, DriverInv, HoldInv
    <3> HIDE DEF b
    <3>2. \A c \in Buffers : buffer'[c].done_fill = buffer[c].done_fill
      BY <2>2, <3>1 DEF BufferType
    <3>3. \A v \in Workers : pc'[v] = "sleep fill" =>
             pc[v] = "sleep fill" /\ (NotFull(v) => NotFull(v)')
      BY <1>1, <2>2, <3>2 DEF NotFull, WillWake
    <3> QED
      BY <1>1, <2>2, <3>3, SleepersKept DEF EmptyTaken
  <2> QED
    BY <1>8, <2>1, <2>2 DEF CleanUp
<1>9. CASE Abort(w)
  <2>1. CASE ScanFails
    BY <2>1, SleepersCrash DEF ScanFails
  <2>2. CASE ~ScanFails
    <3>1. pc' = [WakeAll(pc) EXCEPT ![w] = "leave"]
      BY <1>9, <2>2 DEF Abort
    <3>2. \A v \in Workers : pc'[v] # "sleep empty" /\ pc'[v] # "sleep fill"
      BY <1>1, <3>1 DEF WakeAll, WakeFill, WakeEmpty
    <3> QED
      BY <3>2 DEF NoLostWakeup
  <2> QED
    BY <2>1, <2>2
<1> QED
  BY <1>3, <1>4, <1>5, <1>6, <1>7, <1>8, <1>9 DEF Thread

\* The handler wakes whoever waits for a buffer that it moves on, one step later.
LEMMA SleepersHandler ==
  ASSUME DriverInv, NoLostWakeup, Receive \/ Handler PROVE NoLostWakeup'
<1> USE DEF slots, control, NoBug, Handles
<1>1. /\ pc \in [Workers -> ThreadStates] /\ buffer \in [Buffers -> BufferType]
      /\ \A v \in Workers : pc[v] = "sleep fill" => new_ddd[v] \in Buffers
      /\ filling # NoBuffer => filling \in Buffers
  BY HandlerRuns, SlotFacts DEF DriverInv, TypeOK, ThreadsTyped, OwnerInv, FillPlaces
<1>2. ASSUME NEW where, Crash(where) PROVE NoLostWakeup'
  BY <1>2, SleepersCrash
<1>3. CASE Receive
  <2>1. CASE /\ CannotFill /\ filling # NoBuffer /\ filled = NoBuffer
             /\ Handles("idle", "marked") /\ UNCHANGED <<slots, pc>>
             /\ buffer' = [buffer EXCEPT ![filling].done_fill = TRUE]
    <3>1. \A b \in Buffers : b # filling => buffer'[b].done_fill = buffer[b].done_fill
      BY <1>1, <2>1
    <3>2. \A v \in Workers : pc'[v] = "sleep fill" =>
             pc[v] = "sleep fill" /\ (NotFull(v) => NotFull(v)')
      BY <1>1, <2>1, <3>1 DEF NotFull, WillWake
    <3> QED
      BY <2>1, <3>2, SleepersKept DEF EmptyTaken
  <2>2. CASE /\ handler = "idle" /\ handler' \in {"empty", "copy"}
             /\ UNCHANGED <<slots, pc, buffer, dumping, interrupted, new_ddd>>
    BY <2>2 DEF NoLostWakeup, WillWake
  <2> QED
    BY <1>2, <1>3, <2>1, <2>2 DEF Receive
<1>4. CASE Promote
  BY <1>4 DEF Promote, NoLostWakeup, WillWake
<1>5. CASE WakeFilled
  <2>1. CASE /\ handler = "wake fill" /\ handler' = "empty" /\ pc' = WakeFill(pc, {filled})
             /\ UNCHANGED <<slots, buffer, dumping, interrupted, new_ddd>>
    <3>1. \A v \in Workers : /\ pc'[v] = "sleep fill" => pc[v] = "sleep fill" /\ new_ddd[v] # filled
                             /\ pc'[v] = "sleep empty" => pc[v] = "sleep empty"
      BY <1>1, <2>1 DEF WakeFill
    <3> QED
      BY <2>1, <3>1 DEF NoLostWakeup, WillWake
  <2> QED
    BY <1>2, <1>5, <2>1 DEF WakeFilled
<1>6. CASE TakeEmpty
  <2>1. CASE /\ handler = "empty" /\ handler' = "wake empty"
             /\ UNCHANGED <<filled, pc, buffer, dumping, interrupted, new_ddd>>
    BY <2>1 DEF NoLostWakeup, WillWake
  <2>2. CASE /\ handler = "empty" /\ handler' = "copy"
             /\ UNCHANGED <<slots, pc, buffer, dumping, interrupted, new_ddd>>
    BY <2>2 DEF NoLostWakeup, WillWake
  <2> QED
    BY <1>2, <1>6, <2>1, <2>2 DEF TakeEmpty
<1>7. CASE WakeWaiters
  <2>1. /\ handler = "wake empty" /\ handler' = "copy" /\ pc' = WakeEmpty(pc)
        /\ UNCHANGED <<slots, buffer, dumping, interrupted, new_ddd>>
    BY <1>7 DEF WakeWaiters
  <2>2. \A v \in Workers : /\ pc'[v] = "sleep fill" => pc[v] = "sleep fill"
                           /\ pc'[v] # "sleep empty"
    BY <1>1, <2>1 DEF WakeEmpty
  <2> QED
    BY <2>1, <2>2 DEF NoLostWakeup, WillWake
<1>8. CASE Copy
  <2>1. /\ handler = "copy" /\ handler' = "idle" /\ UNCHANGED <<slots, pc, dumping, interrupted, new_ddd>>
        \/ \E where : Crash(where)
    BY <1>8 DEF Copy
  <2>2. CASE /\ handler = "copy" /\ handler' = "idle"
             /\ UNCHANGED <<slots, pc, dumping, interrupted, new_ddd>>
    <3>1. \A b \in Buffers : buffer'[b].done_fill = buffer[b].done_fill
      BY <1>8, <2>2, CopyFits DEF Copy, Crash
    <3> QED
      BY <1>1, <2>2, <3>1 DEF NoLostWakeup, WillWake
  <2> QED
    BY <1>2, <2>1, <2>2
<1> QED
  BY <1>3, <1>4, <1>5, <1>6, <1>7, <1>8 DEF Handler

\* Signals and the steps of main
LEMMA SleepersOthers ==
  ASSUME DriverInv, DriverInv', NoLostWakeup,
         \/ Kill \/ Setup \/ WaitForThreads \/ RunAgain \/ Dead
         \/ UNCHANGED vars
         \/ \E w \in Workers : Signal(w)
         \/ \E who \in {"driverdump", "stranger"} : StartFinish(who)
         \/ \E who \in {"driverdump", "stranger"} : \E next : EndFinish(who, next)
  PROVE  NoLostWakeup'
<1> USE DEF slots, counts, control
<1>1. pc \in [Workers -> ThreadStates] /\ interrupted \in [Workers -> BOOLEAN]
  BY DEF DriverInv, TypeOK, ThreadsTyped
<1>2. CASE Kill
  <2>1. pc' = Woken([w \in Workers |-> IF InKernel(w) THEN pc[w] ELSE "gone"], Workers)
    BY <1>2 DEF Kill
  <2>2. \A w \in Workers : pc'[w] \notin {"sleep empty", "sleep fill"}
    BY <1>1, <2>1 DEF Woken
  <2> QED
    BY <2>2 DEF NoLostWakeup
<1>3. CASE Setup
  <2>1. CASE Crash("other")
    BY <2>1, SleepersCrash
  <2>2. CASE pc' = [w \in Workers |-> "user"]
    BY <2>2 DEF NoLostWakeup
  <2> QED
    BY <1>3, <2>1, <2>2 DEF Setup
<1>4. CASE WaitForThreads \/ RunAgain \/ Dead \/ UNCHANGED vars
  BY <1>4, SleepersUnmoved DEF WaitForThreads, RunAgain, Dead, MainGoesOn, vars
<1>5. ASSUME NEW w \in Workers, Signal(w) PROVE NoLostWakeup'
  <2>1. /\ pc' = Woken(pc, {w}) /\ interrupted' = [interrupted EXCEPT ![w] = InKernel(w)]
        /\ UNCHANGED <<slots, handler, dumping, buffer, new_ddd>>
    BY <1>5 DEF Signal
  <2>2. pc'[w] \notin {"sleep empty", "sleep fill"}
    BY <1>1, <2>1 DEF Woken
  <2>3. \A v \in Workers : v # w => pc'[v] = pc[v] /\ interrupted'[v] = interrupted[v]
    BY <1>1, <2>1 DEF Woken
  <2>4. \A v \in Workers : NotFull(v) => NotFull(v)'
    BY <2>1 DEF NotFull, WillWake
  <2> QED
    BY <2>1, <2>2, <2>3, <2>4, SleepersKept DEF EmptyTaken
<1>6. ASSUME \E who \in {"driverdump", "stranger"} : StartFinish(who) PROVE NoLostWakeup'
  <2>1. CASE ScanFails
    BY <2>1, SleepersCrash DEF ScanFails
  <2>2. CASE ~ScanFails
    <3>1. finishing' # "no"
      BY <1>6, <2>2 DEF StartFinish
    <3> QED
      BY <3>1 DEF NoLostWakeup, DriverInv, MainInv, IdlePlaces
  <2> QED
    BY <2>1, <2>2
<1>7. ASSUME \E who \in {"driverdump", "stranger"} : \E next : EndFinish(who, next) PROVE NoLostWakeup'
  <2>1. finishing # "no" /\ pc' = pc
    BY <1>7 DEF EndFinish, Crash
  <2> QED
    BY <2>1 DEF NoLostWakeup, DriverInv, MainInv, IdlePlaces
<1> QED
  BY <1>2, <1>3, <1>4, <1>5, <1>6, <1>7

\* A thread of driverdump sleeps in the kernel only while the slot it waits for is
\* taken or its buffer is not full, or the handler is about to wake it, and it has no
\* signal, and packets are dumped (the wait_event_interruptible calls of
\* do_driver_packet_dump_locked_init_empty and do_driver_packet_dump_file): for any
\* number of threads no wake-up is lost.
THEOREM NoSleeperForgotten == ASSUME ~BusyFinish PROVE Spec => []NoLostWakeup
<1>1. Init => NoLostWakeup
  BY DEF Init, NoLostWakeup
<1>2. DriverInv /\ DriverInv' /\ NoLostWakeup /\ [Next]_vars => NoLostWakeup'
  <2> SUFFICES ASSUME DriverInv, DriverInv', NoLostWakeup, [Next]_vars PROVE NoLostWakeup'
    OBVIOUS
  <2>1. CASE Receive \/ Handler
    BY <2>1, SleepersHandler
  <2>2. ASSUME NEW w \in Workers, Thread(w) PROVE NoLostWakeup'
    BY <2>2, SleepersThread
  <2>3. CASE \/ Kill \/ RunAgain \/ MainThread \/ StrangerFinishes \/ EndStranger
             \/ (\E w \in Workers : Signal(w)) \/ UNCHANGED vars
    BY <2>3, SleepersOthers
       DEF MainThread, StrangerFinishes, EndStranger, FirstFinish, LastFinish, EndFirst, EndLast
  <2> QED
    BY <2>1, <2>2, <2>3 DEF Next
<1> QED
  BY <1>1, <1>2, DriverCorrect, PTL DEF Spec

----------------------------------------------------------------------------
\* PacketsInOrder

\* The empty buffer is the newest and has no packets; none after the filling one
\* has any.
NewestInv ==
  /\ empty # NoBuffer => empty = Len(buffer) /\ buffer[empty].packets = << >>
  /\ filling # NoBuffer => \A b \in Buffers : b > filling => buffer[b].packets = << >>

Contents == [b \in Buffers |-> buffer[b].packets]

CopiedInv == FlattenSeq(Contents) = copied

\* A thread whose ioctl has returned had a full buffer, and the kernel has freed it.
ReturnedInv ==
  \A w \in Workers : pc[w] = "returned" =>
    new_ddd[w] \in Buffers /\ buffer[new_ddd[w]].done_fill /\ buffer[new_ddd[w]].freed

WholeBuffer(f) == \E b \in Buffers : /\ f.index = buffer[b].index
                                     /\ f.packets = buffer[b].packets
                                     /\ buffer[b].done_fill /\ buffer[b].freed

FilesInv == \A f \in files : WholeBuffer(f)

FileOf(b) == [index |-> buffer[b].index, packets |-> buffer[b].packets]

Accounted(b) == FileOf(b) \in files \/ \E w \in Workers : new_ddd[w] = b /\ pc[w] = "returned"

FreedInv == dumping /\ main = "running" =>
              \A b \in Buffers : buffer[b].freed => Accounted(b)

PacketInv == NewestInv /\ CopiedInv /\ ReturnedInv /\ FilesInv /\ FreedInv

TypedContents == Contents \in Seq(Seq(1..MaxPackets)) /\ Len(Contents) = Len(buffer)

LEMMA ContentsTyped == DriverInv => TypedContents
<1> SUFFICES ASSUME DriverInv PROVE TypedContents
  OBVIOUS
<1>1. /\ \A b \in Buffers : buffer[b].packets \in Seq(1..MaxPackets)
      /\ Buffers = 1..Len(buffer) /\ Len(buffer) \in Nat
  BY SlotFacts DEF BufferType
<1> QED
  BY <1>1 DEF TypedContents, Contents

\* A buffer that is freed is not changed any more.
BufferKept(b) ==
  /\ buffer'[b].index = buffer[b].index
  /\ buffer[b].freed => buffer'[b].freed /\ buffer'[b].packets = buffer[b].packets
  /\ buffer[b].done_fill => buffer'[b].done_fill

BuffersKept == Buffers \subseteq Buffers' /\ \A b \in Buffers : BufferKept(b)

\* Dumping does not begin, no ioctl returns with a buffer, and no file is written.
NoneReturns ==
  /\ UNCHANGED files
  /\ dumping' => dumping
  /\ main' = "running" => main = "running"
  /\ \A w \in Workers :
       pc'[w] = "returned" => pc[w] = "returned" /\ new_ddd'[w] = new_ddd[w]
  /\ main' = "running" => \A w \in Workers :
       pc[w] = "returned" => pc'[w] = "returned" /\ new_ddd'[w] = new_ddd[w]

LEMMA FilesKept ==
  ASSUME FilesInv, BuffersKept, UNCHANGED files
  PROVE  FilesInv'
<1> SUFFICES ASSUME NEW f \in files PROVE WholeBuffer(f)'
  BY DEF FilesInv
<1>1. PICK b \in Buffers : /\ f.index = buffer[b].index /\ f.packets = buffer[b].packets
                           /\ buffer[b].done_fill /\ buffer[b].freed
  BY DEF FilesInv, WholeBuffer
<1>2. /\ b \in Buffers' /\ f.index = buffer'[b].index /\ f.packets = buffer'[b].packets
      /\ buffer'[b].done_fill /\ buffer'[b].freed
  BY <1>1 DEF BuffersKept, BufferKept
<1> QED
  BY <1>2 DEF WholeBuffer

LEMMA ReturnedKept ==
  ASSUME ReturnedInv, BuffersKept,
         \A w \in Workers :
           pc'[w] = "returned" => pc[w] = "returned" /\ new_ddd'[w] = new_ddd[w]
  PROVE  ReturnedInv'
<1> SUFFICES ASSUME NEW w \in Workers, pc'[w] = "returned"
             PROVE  /\ new_ddd'[w] \in Buffers'
                    /\ buffer'[new_ddd'[w]].done_fill /\ buffer'[new_ddd'[w]].freed
  BY DEF ReturnedInv
<1>1. /\ new_ddd[w] \in Buffers /\ new_ddd'[w] = new_ddd[w]
      /\ buffer[new_ddd[w]].done_fill /\ buffer[new_ddd[w]].freed
  BY DEF ReturnedInv
<1> QED
  BY <1>1 DEF BuffersKept, BufferKept

\* What is accounted for stays so.
LEMMA AccountedKept ==
  ASSUME NoneReturns, BuffersKept, main' = "running", NEW b \in Buffers,
         buffer[b].freed, Accounted(b)
  PROVE  Accounted(b)'
<1>1. FileOf(b)' = FileOf(b)
  BY DEF BuffersKept, BufferKept, FileOf
<1> QED
  BY <1>1 DEF Accounted, NoneReturns

LEMMA SameFreed ==
  ASSUME ReturnedInv, FilesInv, FreedInv, NoneReturns, BuffersKept, Buffers' = Buffers,
         \A b \in Buffers : buffer'[b].freed => buffer[b].freed
  PROVE  ReturnedInv' /\ FilesInv' /\ FreedInv'
<1>1. ReturnedInv' /\ FilesInv'
  BY ReturnedKept, FilesKept DEF NoneReturns
<1>2. FreedInv'
  <2> SUFFICES ASSUME dumping', main' = "running", NEW b \in Buffers, buffer'[b].freed
               PROVE  Accounted(b)'
    BY DEF FreedInv
  <2>1. Accounted(b)
    BY DEF FreedInv, NoneReturns
  <2> QED
    BY <2>1, AccountedKept
<1> QED
  BY <1>1, <1>2

\* Steps that neither free a buffer nor fill one
LEMMA QuietPackets ==
  ASSUME PacketInv, NoneReturns, UNCHANGED <<empty, filling, buffer, copied>>
  PROVE  PacketInv'
<1>1. Buffers' = Buffers /\ BuffersKept
  BY DEF Buffers, BuffersKept, BufferKept
<1>2. NewestInv'
  BY <1>1 DEF PacketInv, NewestInv
<1>3. CopiedInv'
  BY <1>1 DEF PacketInv, CopiedInv, Contents
<1> QED
  BY <1>1, <1>2, <1>3, SameFreed DEF PacketInv

LEMMA CrashPackets ==
  ASSUME PacketInv, NEW where, Crash(where) PROVE PacketInv'
BY QuietPackets DEF Crash, NoneReturns, slots, control, world

\* The file threads, where they do not allocate or free a buffer
LEMMA QuietThreads ==
  ASSUME DriverInv, PacketInv, NEW w \in Workers,
         \/ Enter(w) \/ EnterAgain(w) \/ Moves(w, "mapping", "failed") \/ TakeFilled(w)
         \/ CheckEmpty(w) \/ CheckFill(w) \/ Failed(w) \/ Abort(w) \/ Prepare(w) \/ Leave(w)
         \/ \E from \in {"enter", "down again", "down filled"} : DownInterrupted(w, from)
         \/ Die(w)
  PROVE  PacketInv'
<1> USE DEF NoneReturns, slots, control, world
<1>1. pc \in [Workers -> ThreadStates]
  BY DEF DriverInv, TypeOK, ThreadsTyped
<1>2. CASE CheckEmpty(w)
  BY <1>1, <1>2, QuietPackets DEF CheckEmpty, Moves, Goes
<1>3. CASE CheckFill(w)
  BY <1>1, <1>3, QuietPackets DEF CheckFill, Moves, Goes
<1>4. CASE Failed(w)
  BY <1>1, <1>4, QuietPackets DEF Failed, Moves, Goes
<1>5. CASE Abort(w)
  <2>1. SamePlaces(pc, WakeAll(pc)) /\ WakeAll(pc) \in [Workers -> ThreadStates]
    BY <1>1, Wakes
  <2>2. CASE ~ScanFails
    BY <1>1, <1>5, <2>1, <2>2, QuietPackets DEF Abort, SamePlaces
  <2> QED
    BY <2>2, CrashPackets DEF ScanFails
<1>6. CASE Prepare(w)
  <2>1. PICK to \in {"enter", "leave"} : Moves(w, "user", to)
    BY <1>6 DEF Prepare
  <2> QED
    BY <1>1, <2>1, QuietPackets DEF Moves, Goes
<1>7. CASE Leave(w)
  BY <1>1, <1>7, QuietPackets DEF Leave
<1>8. CASE \E from \in {"enter", "down again", "down filled"} : DownInterrupted(w, from)
  <2>1. PICK from \in {"enter", "down again", "down filled"} : Moves(w, from, "failed")
    BY <1>8 DEF DownInterrupted
  <2> QED
    BY <1>1, <2>1, QuietPackets DEF Moves, Goes
<1>9. CASE Die(w)
  BY <1>1, <1>9, QuietPackets DEF Die, Goes
<1>10. CASE Enter(w) \/ EnterAgain(w) \/ Moves(w, "mapping", "failed")
  <2>1. PICK from \in {"enter", "down again", "mapping"}, to \in {"failed", "mapping", "check empty"} :
          Moves(w, from, to)
    BY <1>10 DEF Enter, EnterAgain
  <2> QED
    BY <1>1, <2>1, QuietPackets DEF Moves, Goes
<1>11. CASE TakeFilled(w)
  <2>1. CASE filled = new_ddd[w]
    <3>1. /\ pc[w] = "down filled" /\ pc' = [pc EXCEPT ![w] = "cleanup"]
          /\ UNCHANGED <<empty, filling, dumping, main, files, buffer, new_ddd, copied>>
      BY <1>11, <2>1 DEF TakeFilled
    <3>2. NoneReturns
      BY <1>1, <3>1
    <3> QED
      BY <3>1, <3>2, QuietPackets
  <2> QED
    BY <1>11, <2>1, CrashPackets DEF TakeFilled
<1> QED
  BY <1>2, <1>3, <1>4, <1>5, <1>6, <1>7, <1>8, <1>9, <1>10, <1>11

\* Signals, and main where it frees nothing
LEMMA QuietOthers ==
  ASSUME DriverInv, PacketInv,
         \/ Kill \/ WaitForThreads \/ RunAgain \/ Dead \/ UNCHANGED vars
         \/ \E w \in Workers : Signal(w)
         \/ \E who : StartFinish(who) /\ main' = main
  PROVE  PacketInv'
<1> USE DEF NoneReturns, slots, control, world
<1>1. pc \in [Workers -> ThreadStates]
  BY DEF DriverInv, TypeOK, ThreadsTyped
<1>2. CASE Kill
  <2>1. pc' = Woken([w \in Workers |-> IF InKernel(w) THEN pc[w] ELSE "gone"], Workers)
    BY <1>2 DEF Kill
  <2>2. \A w \in Workers : pc'[w] # "returned"
    BY <1>1, <2>1 DEF Woken, InKernel
  <2> QED
    BY <1>2, <2>2, QuietPackets DEF Kill
<1>3. CASE WaitForThreads \/ RunAgain \/ Dead
  BY <1>3, QuietPackets DEF WaitForThreads, RunAgain, Dead, MainGoesOn
<1>4. CASE UNCHANGED vars
  BY <1>4, QuietPackets DEF vars
<1>5. ASSUME NEW w \in Workers, Signal(w) PROVE PacketInv'
  <2>1. SamePlaces(pc, pc')
    BY <1>1, <1>5, Wakes DEF Signal
  <2> QED
    BY <1>5, <2>1, QuietPackets DEF Signal, SamePlaces
<1>6. ASSUME NEW who, StartFinish(who), main' = main PROVE PacketInv'
  <2>1. CASE ~ScanFails
    <3>1. SamePlaces(pc, pc')
      BY <1>1, <1>6, <2>1, Wakes DEF StartFinish
    <3> QED
      BY <1>6, <2>1, <3>1, QuietPackets DEF StartFinish, SamePlaces
  <2> QED
    BY <2>1, CrashPackets DEF ScanFails
<1> QED
  BY <1>2, <1>3, <1>4, <1>5, <1>6

\* Finish: nothing is dumped.
LEMMA EndFinishPackets ==
  ASSUME DriverInv, PacketInv, NEW who \in {"driverdump", "stranger"}, NEW next,
         EndFinish(who, next), next = main \/ next # "running"
  PROVE  PacketInv'
<1>0. \A b \in Slots : ~buffer[b].freed
  BY SlotFacts DEF DriverInv, SlotInv
<1>1. /\ ~dumping' /\ empty' = NoBuffer /\ filling' = NoBuffer
      /\ UNCHANGED <<pc, new_ddd, files, copied>>
      /\ buffer' = [b \in Buffers |-> [buffer[b] EXCEPT !.freed = @ \/ b \in Slots]]
  BY <1>0 DEF EndFinish, DriverInv, MainInv
<1>2. /\ buffer \in [Buffers -> BufferType] /\ Buffers = 1..Len(buffer) /\ Len(buffer) \in Nat
  BY SlotFacts
<1>3. Buffers' = Buffers
  BY <1>1, <1>2 DEF Buffers
<1>4. \A b \in Buffers : /\ buffer'[b].index = buffer[b].index
                         /\ buffer'[b].packets = buffer[b].packets
                         /\ buffer'[b].done_fill = buffer[b].done_fill
                         /\ buffer[b].freed => buffer'[b].freed
  BY <1>1, <1>2 DEF BufferType
<1>5. BuffersKept
  BY <1>3, <1>4 DEF BuffersKept, BufferKept
<1>6. CopiedInv'
  <2>1. Contents' = Contents
    BY <1>3, <1>4 DEF Contents
  <2> QED
    BY <1>1, <2>1 DEF PacketInv, CopiedInv
<1>7. ReturnedInv' /\ FilesInv'
  BY <1>1, <1>5, ReturnedKept, FilesKept DEF PacketInv
<1> QED
  BY <1>1, <1>6, <1>7 DEF PacketInv, NewestInv, FreedInv

LEMMA SetupPackets ==
  ASSUME DriverInv, PacketInv, Setup
  PROVE  PacketInv'
<1>1. /\ Slots = {} /\ buffer' = << >> /\ copied' = << >> /\ files' = {}
      /\ pc' = [w \in Workers |-> "user"] /\ UNCHANGED slots
  BY DEF Setup, DriverInv, MainInv
<1>2. empty' = NoBuffer /\ filling' = NoBuffer
  BY <1>1 DEF Slots, slots
<1>3. Buffers' = {}
  BY <1>1 DEF Buffers
<1>4. CopiedInv'
  <2>1. Contents' = << >>
    BY <1>3 DEF Contents
  <2> QED
    BY <1>1, <2>1, FlattenEmpty DEF CopiedInv
<1> QED
  BY <1>1, <1>2, <1>3, <1>4 DEF PacketInv, NewestInv, ReturnedInv, FilesInv, FreedInv

\* An empty buffer is allocated, or the allocation fails.
LEMMA MapPagesPackets ==
  ASSUME DriverInv, DriverInv', PacketInv, NEW w \in Workers, MapPages(w)
  PROVE  PacketInv'
<1>1. /\ pc \in [Workers -> ThreadStates] /\ new_ddd \in [Workers -> Buffers \cup {NoBuffer}]
      /\ pc[w] = "mapping" /\ empty = NoBuffer
  BY DEF DriverInv, TypeOK, ThreadsTyped, HoldInv, MapPages
<1>2. /\ buffer \in [Buffers -> BufferType] /\ Buffers = 1..Len(buffer) /\ Len(buffer) \in Nat
      /\ buffer \in Seq(BufferType)
  BY SlotFacts DEF DriverInv, TypeOK, DriverTyped
<1>3. CASE Moves(w, "mapping", "failed")
  BY <1>3, QuietThreads
<1>4. CASE ~Moves(w, "mapping", "failed")
  <2>1. /\ empty = NoBuffer /\ empty' = Len(buffer) + 1
        /\ buffer' = Append(buffer, Fresh(cur_idx_num))
        /\ new_ddd' = [new_ddd EXCEPT ![w] = empty']
        /\ pc' = [pc EXCEPT ![w] = "check fill"]
        /\ UNCHANGED <<filling, filled, dumping, main, files, copied>>
    BY <1>1, <1>4 DEF MapPages, world
  <2>2. NoneReturns
    <3>1. /\ \A v \in Workers \ {w} : pc'[v] = pc[v] /\ new_ddd'[v] = new_ddd[v]
          /\ pc'[w] = "check fill"
      BY <1>1, <2>1
    <3> QED
      BY <1>1, <2>1, <3>1 DEF NoneReturns
  <2> DEFINE n == Len(buffer)
             fresh == Fresh(cur_idx_num)
  <2>3. fresh.packets = << >> /\ ~fresh.freed /\ fresh \in BufferType
    <3>1. << >> \in Seq(1..MaxPackets) /\ 0 \in 0..Capacity /\ cur_idx_num \in 0..MaxBuffers
      BY DriverDumpAssumption DEF DriverInv, TypeOK, DriverTyped
    <3>2. fresh \in BufferType
      BY <3>1, Zenon DEF Fresh, BufferType
    <3> QED
      BY <3>2 DEF Fresh
  <2> HIDE DEF fresh
  <2>4. /\ Len(buffer') = n + 1 /\ buffer'[n + 1] = fresh
        /\ \A b \in 1..n : buffer'[b] = buffer[b]
    <3>1. buffer' = Append(buffer, fresh)
      BY <2>1 DEF fresh
    <3> QED
      BY <1>2, <2>3, <3>1, AppendProperties
  <2>5. Buffers' = 1..(n + 1) /\ BuffersKept
    BY <1>2, <2>4 DEF Buffers, BuffersKept, BufferKept
  <2>6. NewestInv'
    <3>1. empty' = n + 1 /\ filling' = filling
      BY <2>1
    <3>2. filling' # NoBuffer => \A b \in Buffers' : b > filling' => buffer'[b].packets = << >>
      <4> SUFFICES ASSUME filling # NoBuffer, NEW b \in Buffers', b > filling
                   PROVE  buffer'[b].packets = << >>
        BY <3>1
      <4>1. CASE b = n + 1
        BY <2>3, <2>4, <4>1
      <4>2. CASE b # n + 1
        <5>1. b \in 1..n
          BY <1>2, <2>5, <4>2
        <5> QED
          BY <1>2, <2>4, <5>1 DEF PacketInv, NewestInv
      <4> QED
        BY <4>1, <4>2
    <3> QED
      BY <2>3, <2>4, <3>1, <3>2 DEF NewestInv
  <2>7. CopiedInv'
    <3> DEFINE N == 1..MaxPackets
               e == << >>
    <3>1. Contents \in Seq(Seq(N)) /\ Len(Contents) = n
      BY ContentsTyped DEF TypedContents
    <3>2. Contents' = Append(Contents, e)
      <4>1. \A b \in 1..n : Contents'[b] = Contents[b]
        BY <1>2, <2>4, <2>5 DEF Contents
      <4>2. Contents' = [b \in 1..(n + 1) |-> buffer'[b].packets] /\ Contents'[n + 1] = e
        BY <1>2, <2>3, <2>4, <2>5 DEF Contents
      <4>3. \A b \in 1..n : (Append(Contents, e))[b] = Contents[b]
        BY <3>1
      <4>4. Append(Contents, e) \in Seq(Seq(N)) /\ Len(Append(Contents, e)) = n + 1
            /\ (Append(Contents, e))[n + 1] = e
        BY <3>1
      <4>5. Contents' \in Seq(Seq(N)) /\ Len(Contents') = n + 1
        <5>1. \A b \in 1..(n + 1) : Contents'[b] \in Seq(N)
          <6> SUFFICES ASSUME NEW b \in 1..(n + 1) PROVE Contents'[b] \in Seq(N)
            OBVIOUS
          <6>1. CASE b = n + 1
            <7>1. e \in Seq(N)
              <8> HIDE DEF N
              <8> QED
                OBVIOUS
            <7> QED
              BY <4>2, <6>1, <7>1
          <6>2. CASE b # n + 1
            <7>1. b \in 1..n
              BY <1>2, <6>2
            <7> QED
              BY <3>1, <4>1, <7>1
          <6> QED
            BY <6>1, <6>2
        <5> HIDE DEF N
        <5> QED
          BY <1>2, <4>2, <5>1
      <4> HIDE DEF e, N
      <4>6. \A b \in 1..(n + 1) : Contents'[b] = (Append(Contents, e))[b]
        <5> SUFFICES ASSUME NEW b \in 1..(n + 1)
                     PROVE  Contents'[b] = (Append(Contents, e))[b]
          OBVIOUS
        <5>1. CASE b = n + 1
          BY <4>2, <4>4, <5>1
        <5>2. CASE b # n + 1
          <6>1. b \in 1..n
            BY <1>2, <5>2
          <6> QED
            BY <4>1, <4>3, <6>1
        <5> QED
          BY <5>1, <5>2
      <4> QED
        BY <4>4, <4>5, <4>6, SeqEqual
    <3>3. FlattenSeq(Contents) \in Seq(N) /\ e \in Seq(N)
      BY <3>1, FlattenType
    <3>4. FlattenSeq(Append(Contents, e)) = FlattenSeq(Contents) \o e
      <4> HIDE DEF N, e
      <4> QED
        BY <3>1, <3>3, FlattenAppend
    <3>5. FlattenSeq(Contents) \o e = FlattenSeq(Contents)
      BY <3>3
    <3> QED
      BY <2>1, <3>2, <3>4, <3>5 DEF PacketInv, CopiedInv
  <2>8. ReturnedInv' /\ FilesInv'
    BY <2>2, <2>5, ReturnedKept, FilesKept DEF PacketInv, NoneReturns
  <2>9. FreedInv'
    <3> SUFFICES ASSUME dumping', main' = "running", NEW b \in Buffers', buffer'[b].freed
                 PROVE  Accounted(b)'
      BY DEF FreedInv
    <3>1. b \in Buffers /\ buffer[b].freed
      BY <1>2, <2>3, <2>4, <2>5
    <3>2. Accounted(b)
      BY <2>2, <3>1 DEF PacketInv, FreedInv, NoneReturns
    <3> QED
      BY <2>2, <2>5, <3>1, <3>2, AccountedKept
  <2> QED
    BY <2>6, <2>7, <2>8, <2>9 DEF PacketInv
<1> QED
  BY <1>3, <1>4

\* The full buffer is freed, and the ioctl returns.
LEMMA CleanUpPackets ==
  ASSUME DriverInv, DriverInv', PacketInv, NEW w \in Workers, CleanUp(w)
  PROVE  PacketInv'
<1> DEFINE c == new_ddd[w]
<1>0. pc[w] = "cleanup" /\ c \in Buffers \ Slots /\ buffer[c].done_fill /\ ~buffer[c].freed
  BY DEF CleanUp, DriverInv, HoldInv, SlotInv, Releasing
<1>1. /\ pc \in [Workers -> ThreadStates]
      /\ UNCHANGED <<empty, filling, dumping, main, files, copied, new_ddd>>
      /\ buffer' = [buffer EXCEPT ![c].freed = TRUE]
      /\ pc' = [pc EXCEPT ![w] = "returned"]
  BY <1>0 DEF DriverInv, TypeOK, ThreadsTyped, CleanUp, world, control, slots
<1>2. /\ buffer \in [Buffers -> BufferType] /\ Buffers = 1..Len(buffer) /\ Len(buffer) \in Nat
      /\ Slots \subseteq Buffers
  BY SlotFacts
<1>4. c \in Buffers /\ buffer[c].done_fill
  BY <1>0
<1> HIDE DEF c
<1>5. Buffers' = Buffers /\ Len(buffer') = Len(buffer)
  <2>1. Len(buffer') = Len(buffer)
    <3>1. DOMAIN buffer' = Buffers /\ buffer' \in Seq(BufferType)
      BY <1>1, <1>2 DEF DriverInv, TypeOK, DriverTyped
    <3> QED
      BY <1>2, <3>1
  <2> QED
    BY <2>1 DEF Buffers
<1>6. /\ \A b \in Buffers : /\ buffer'[b].index = buffer[b].index
                            /\ buffer'[b].packets = buffer[b].packets
                            /\ buffer'[b].done_fill = buffer[b].done_fill
                            /\ buffer'[b].freed = (buffer[b].freed \/ b = c)
  BY <1>1, <1>2, <1>4 DEF BufferType
<1>7. BuffersKept
  BY <1>5, <1>6 DEF BuffersKept, BufferKept
<1>8. NewestInv'
  <2>2. empty # NoBuffer => empty \in Buffers
    BY <1>2 DEF Slots
  <2> QED
    BY <1>1, <1>5, <1>6, <2>2 DEF PacketInv, NewestInv
<1>9. CopiedInv'
  <2>1. Contents' = Contents
    BY <1>5, <1>6 DEF Contents
  <2> QED
    BY <1>1, <2>1 DEF PacketInv, CopiedInv
<1>10. FilesInv'
  BY <1>1, <1>7, FilesKept DEF PacketInv
<1>11. ReturnedInv'
  <2> SUFFICES ASSUME NEW v \in Workers, pc'[v] = "returned"
               PROVE  /\ new_ddd[v] \in Buffers
                      /\ buffer'[new_ddd[v]].done_fill /\ buffer'[new_ddd[v]].freed
    BY <1>1, <1>5 DEF ReturnedInv
  <2>1. CASE v = w
    BY <1>4, <1>6, <2>1 DEF c
  <2>2. CASE v # w
    <3>1. pc[v] = "returned"
      BY <1>1, <2>2
    <3> QED
      BY <1>6, <3>1 DEF PacketInv, ReturnedInv
  <2> QED
    BY <2>1, <2>2
<1>12. FreedInv'
  <2> SUFFICES ASSUME dumping', main' = "running", NEW b \in Buffers, buffer'[b].freed
               PROVE  Accounted(b)'
    BY <1>5 DEF FreedInv
  <2>1. CASE b = c
    <3>1. pc'[w] = "returned" /\ new_ddd'[w] = b
      BY <1>1, <2>1 DEF c
    <3> QED
      BY <3>1 DEF Accounted
  <2>2. CASE b # c
    <3>1. Accounted(b)
      BY <1>1, <1>6, <2>2 DEF PacketInv, FreedInv
    <3>2. FileOf(b)' = FileOf(b)
      BY <1>6 DEF FileOf
    <3>3. \A v \in Workers : pc[v] = "returned" => pc'[v] = "returned" /\ new_ddd'[v] = new_ddd[v]
      BY <1>1
    <3> QED
      BY <1>1, <3>1, <3>2, <3>3 DEF Accounted
  <2> QED
    BY <2>1, <2>2
<1> QED
  BY <1>8, <1>9, <1>10, <1>11, <1>12 DEF PacketInv

\* driverdump renames the file.
LEMMA ReturnedPackets ==
  ASSUME DriverInv, PacketInv, NEW w \in Workers, Returned(w)
  PROVE  PacketInv'
<1> DEFINE c == new_ddd[w]
<1>1. /\ pc \in [Workers -> ThreadStates] /\ pc[w] = "returned"
      /\ UNCHANGED <<slots, dumping, main, buffer, copied, new_ddd>>
      /\ files' = files \cup {FileOf(c)}
      /\ \E to : to # "returned" /\ pc' = [pc EXCEPT ![w] = to]
  BY DEF DriverInv, TypeOK, ThreadsTyped, Returned, world, control, FileOf
<1>2. c \in Buffers /\ buffer[c].done_fill /\ buffer[c].freed
  BY <1>1 DEF PacketInv, ReturnedInv
<1>3. Buffers' = Buffers /\ Len(buffer') = Len(buffer)
  BY <1>1 DEF Buffers
<1>4. NewestInv' /\ CopiedInv'
  BY <1>1, <1>3 DEF PacketInv, NewestInv, CopiedInv, Contents, slots
<1>5. ReturnedInv'
  BY <1>1, <1>3 DEF PacketInv, ReturnedInv
<1>6. FilesInv'
  <2>1. WholeBuffer(FileOf(c))
    BY <1>2 DEF WholeBuffer, FileOf
  <2>2. \A f \in files' : WholeBuffer(f)
    BY <1>1, <2>1 DEF PacketInv, FilesInv
  <2> QED
    BY <1>1, <1>3, <2>2 DEF FilesInv, WholeBuffer
<1>7. FreedInv'
  <2> SUFFICES ASSUME dumping', main' = "running", NEW b \in Buffers, buffer[b].freed
               PROVE  Accounted(b)'
    BY <1>1, <1>3 DEF FreedInv
  <2>1. Accounted(b)
    BY <1>1 DEF PacketInv, FreedInv
  <2>2. FileOf(b)' = FileOf(b)
    BY <1>1 DEF FileOf
  <2>3. CASE FileOf(b) \in files
    BY <1>1, <2>2, <2>3 DEF Accounted
  <2>4. ASSUME NEW v \in Workers, new_ddd[v] = b, pc[v] = "returned" PROVE Accounted(b)'
    <3>1. CASE v = w
      BY <1>1, <2>2, <2>4, <3>1 DEF Accounted
    <3>2. CASE v # w
      BY <1>1, <2>4, <3>2 DEF Accounted
    <3> QED
      BY <3>1, <3>2
  <2> QED
    BY <2>1, <2>3, <2>4 DEF Accounted
<1> QED
  BY <1>4, <1>5, <1>6, <1>7 DEF PacketInv

\* The steps of the handler but the copy: a buffer may be marked and go to its next slot.
LEMMA MovesOnPackets ==
  ASSUME DriverInv, PacketInv, Receive \/ Promote \/ WakeFilled \/ TakeEmpty \/ WakeWaiters
  PROVE  PacketInv'
<1> USE DEF slots, control, world, Handles, Uncounted
<1>1. /\ pc \in [Workers -> ThreadStates]
      /\ buffer \in [Buffers -> BufferType] /\ Buffers = 1..Len(buffer) /\ Len(buffer) \in Nat
      /\ filling # NoBuffer => filling \in Buffers
  BY SlotFacts DEF DriverInv, TypeOK, ThreadsTyped, Slots
<1>2. ASSUME NEW where, Crash(where) PROVE PacketInv'
  BY <1>2, CrashPackets
<1>3. ASSUME NEW from, NEW to, Handles(from, to), SamePlaces(pc, pc') PROVE NoneReturns
  BY <1>3 DEF NoneReturns, SamePlaces
<1>4. SamePlaces(pc, pc)
  BY DEF SamePlaces
<1>5. CASE Receive
  <2>1. CASE /\ filling # NoBuffer /\ Handles("idle", "marked") /\ UNCHANGED <<slots, pc, copied>>
             /\ buffer' = [buffer EXCEPT ![filling].done_fill = TRUE]
    <3>1. NoneReturns
      BY <1>3, <1>4, <2>1
    <3>2. /\ DOMAIN buffer' = Buffers
          /\ \A b \in Buffers : /\ buffer'[b].freed = buffer[b].freed
                                /\ buffer'[b].packets = buffer[b].packets
                                /\ buffer'[b].index = buffer[b].index
                                /\ buffer[b].done_fill => buffer'[b].done_fill
      BY <1>1, <2>1 DEF BufferType
    <3>3. Len(buffer') = Len(buffer) /\ Buffers' = Buffers
      <4>1. buffer' \in [Buffers -> BufferType]
        BY <1>1, <2>1 DEF BufferType
      <4>2. Len(buffer') = Len(buffer)
        BY <1>1, <4>1
      <4> QED
        BY <4>2 DEF Buffers
    <3>4. BuffersKept
      BY <3>2, <3>3 DEF BuffersKept, BufferKept
    <3>5. NewestInv'
      <4>1. empty # NoBuffer => empty \in Buffers
        BY SlotFacts DEF Slots
      <4> QED
        BY <2>1, <3>2, <3>3, <4>1 DEF PacketInv, NewestInv
    <3>6. CopiedInv'
      <4>1. Contents' = Contents
        BY <3>2, <3>3 DEF Contents
      <4> QED
        BY <2>1, <4>1 DEF PacketInv, CopiedInv
    <3> QED
      BY <3>1, <3>2, <3>3, <3>4, <3>5, <3>6, SameFreed DEF PacketInv
  <2>2. CASE \E to : Handles("idle", to) /\ UNCHANGED <<slots, pc, buffer, copied>>
    BY <1>3, <1>4, <2>2, QuietPackets
  <2> QED
    BY <1>2, <1>5, <2>1, <2>2 DEF Receive
<1>6. CASE Promote
  <2>1. /\ UNCHANGED <<empty, buffer, copied>> /\ filling' = NoBuffer
        /\ Buffers' = Buffers /\ BuffersKept
    BY <1>6 DEF Promote, Buffers, BuffersKept, BufferKept
  <2>2. NoneReturns
    BY <1>3, <1>4, <1>6 DEF Promote
  <2>3. NewestInv' /\ CopiedInv'
    BY <2>1 DEF PacketInv, NewestInv, CopiedInv, Contents
  <2> QED
    BY <2>1, <2>2, <2>3, SameFreed DEF PacketInv
<1>7. CASE WakeFilled
  <2>1. SamePlaces(pc, WakeFill(pc, {filled}))
    BY <1>1, Wakes
  <2> QED
    BY <1>2, <1>3, <1>7, <2>1, QuietPackets DEF WakeFilled
<1>8. CASE TakeEmpty
  <2>1. CASE /\ empty # NoBuffer /\ filling' = empty /\ empty' = NoBuffer
             /\ Handles("empty", "wake empty") /\ UNCHANGED <<pc, buffer, copied>>
    <3>1. Buffers' = Buffers /\ BuffersKept
      BY <2>1 DEF Buffers, BuffersKept, BufferKept
    <3>2. NoneReturns
      BY <1>3, <1>4, <2>1
    <3>3. NewestInv'
      <4>1. empty = Len(buffer)
        BY <2>1 DEF PacketInv, NewestInv
      <4>2. \A b \in Buffers : ~(b > Len(buffer))
        BY <1>1
      <4> QED
        BY <2>1, <3>1, <4>1, <4>2 DEF NewestInv
    <3>4. CopiedInv'
      BY <2>1, <3>1 DEF PacketInv, CopiedInv, Contents
    <3> QED
      BY <2>1, <3>1, <3>2, <3>3, <3>4, SameFreed DEF PacketInv
  <2>2. CASE Handles("empty", "copy") /\ UNCHANGED <<slots, pc, buffer, copied>>
    BY <1>3, <1>4, <2>2, QuietPackets
  <2> QED
    BY <1>2, <1>8, <2>1, <2>2 DEF TakeEmpty
<1>9. CASE WakeWaiters
  <2>1. SamePlaces(pc, WakeEmpty(pc))
    BY <1>1, Wakes
  <2> QED
    BY <1>3, <1>9, <2>1, QuietPackets DEF WakeWaiters
<1> QED
  BY <1>5, <1>6, <1>7, <1>8, <1>9

\* A packet is copied behind the others.
LEMMA CopyPackets ==
  ASSUME DriverInv, DriverInv', PacketInv, Copy
  PROVE  PacketInv'
<1> DEFINE k == received + 1
<1>1. /\ SlotInv /\ pc \in [Workers -> ThreadStates] /\ handler = "copy"
      /\ Buffers = 1..Len(buffer) /\ Len(buffer) \in Nat
      /\ buffer \in [Buffers -> BufferType] /\ NoBuffer \notin Buffers
      /\ filling # NoBuffer => filling \in Slots /\ filling \in Buffers
  BY SlotFacts DEF DriverInv, TypeOK, ThreadsTyped, Copy, Slots
<1>2. CASE Handles("copy", "idle") /\ UNCHANGED <<slots, pc, buffer, copied>>
  BY <1>2, QuietPackets DEF Handles, NoneReturns, slots, control, world
<1>3. CASE /\ ~CannotFill
           /\ buffer' = [buffer EXCEPT ![filling].packets = Append(@, received + 1),
                                       ![filling].offset  = @ + Size(received + 1)]
           /\ copied' = Append(copied, received + 1)
           /\ Handles("copy", "idle") /\ UNCHANGED <<slots, pc>>
  <2> DEFINE after == filling
  <2>1. /\ after \in Buffers /\ k \in 1..MaxPackets
        /\ buffer' \in [Buffers -> BufferType]
        /\ buffer'[after].packets = Append(buffer[after].packets, k)
        /\ \A b \in Buffers : /\ buffer'[b].freed = buffer[b].freed
                              /\ buffer'[b].done_fill = buffer[b].done_fill
                              /\ buffer'[b].index = buffer[b].index
                              /\ b # after => buffer'[b] = buffer[b]
    BY <1>1, <1>3, CopyFits
  <2>2. after \in Slots /\ ~buffer[after].freed /\ after # NoBuffer
    BY <1>1, <2>1 DEF SlotInv
  <2>3. Len(buffer') = Len(buffer) /\ Buffers' = Buffers
    <3>1. Len(buffer') = Len(buffer)
      BY <1>1, <2>1
    <3> QED
      BY <3>1 DEF Buffers
  <2>4. UNCHANGED <<empty, filling>> /\ NoneReturns
    BY <1>3 DEF Handles, NoneReturns, slots, control, world
  <2>5. BuffersKept
    BY <2>1, <2>2, <2>3 DEF BuffersKept, BufferKept
  <2>8. \A b \in Buffers : b > after => buffer[b].packets = << >>
    BY <2>2 DEF PacketInv, NewestInv
  <2>6. NewestInv'
    <3>1. \A b \in Buffers : b > after => buffer'[b].packets = << >>
      BY <1>1, <2>1, <2>8
    <3>2. empty # NoBuffer =>
            /\ empty \in Buffers \ {after}
            /\ empty = Len(buffer) /\ buffer[empty].packets = << >>
      BY <1>1, SlotFacts DEF PacketInv, NewestInv, Slots, SlotInv
    <3> QED
      BY <2>1, <2>3, <2>4, <3>1, <3>2 DEF NewestInv
  <2>7. CopiedInv'
    <3> DEFINE N == 1..MaxPackets
               u == <<k>>
    <3>1. /\ Contents \in Seq(Seq(N)) /\ Len(Contents) = Len(buffer)
          /\ Contents' \in Seq(Seq(N)) /\ Len(Contents') = Len(buffer)
      <4>1. TypedContents /\ TypedContents'
        BY ContentsTyped, PTL
      <4> QED
        BY <2>3, <4>1 DEF TypedContents
    <3>2. k \in N /\ u \in Seq(N) /\ copied \in Seq(N)
      BY <2>1 DEF DriverInv, TypeOK, DriverTyped
    <3>3. Extends(Contents', Contents, after, u)
      <4>1. \A b \in Buffers : Contents[b] = buffer[b].packets /\ Contents'[b] = buffer'[b].packets
        BY <2>3 DEF Contents
      <4>2. Contents'[after] = Contents[after] \o u
        <5>1. Contents[after] \in Seq(N)
          BY <1>1, <2>1, <3>1
        <5>2. Contents'[after] = Append(Contents[after], k)
          BY <2>1, <4>1
        <5> HIDE DEF k, N
        <5>3. \A x \in Seq(N) : Append(x, k) = x \o u
          BY <3>2
        <5> QED
          BY <5>1, <5>2, <5>3
      <4>3. \A j \in 1..(after - 1) : Contents'[j] = Contents[j]
        <5> SUFFICES ASSUME NEW j \in 1..(after - 1) PROVE Contents'[j] = Contents[j]
          OBVIOUS
        <5>1. j \in Buffers /\ j # after
          BY <1>1, <2>1
        <5> QED
          BY <2>1, <4>1, <5>1
      <4>4. \A j \in (after + 1)..Len(buffer) : Contents[j] = << >> /\ Contents'[j] = << >>
        <5> SUFFICES ASSUME NEW j \in (after + 1)..Len(buffer)
                     PROVE  Contents[j] = << >> /\ Contents'[j] = << >>
          OBVIOUS
        <5>1. j \in Buffers /\ j # after /\ j > after
          BY <1>1, <2>1
        <5> QED
          BY <2>1, <2>8, <4>1, <5>1
      <4>5. after \in 1..Len(buffer)
        BY <1>1, <2>1
      <4> HIDE DEF u
      <4> QED
        BY <3>1, <4>2, <4>3, <4>4, <4>5, Zenon DEF Extends
    <3>4. FlattenSeq(Contents') = FlattenSeq(Contents) \o u
      <4> HIDE DEF N, u
      <4> QED
        BY <3>1, <3>2, <3>3, FlattenExtend
    <3>5. Append(copied, k) = copied \o u
      <4> HIDE DEF N, k
      <4> QED
        BY <3>2
    <3> QED
      BY <1>3, <3>4, <3>5 DEF PacketInv, CopiedInv
  <2>9. \A b \in Buffers : buffer'[b].freed => buffer[b].freed
    BY <2>1
  <2> QED
    BY <2>3, <2>4, <2>5, <2>6, <2>7, <2>9, SameFreed DEF PacketInv
<1>4. CASE Crash("other")
  BY <1>4, CrashPackets
<1> QED
  BY <1>2, <1>3, <1>4 DEF Copy

LEMMA PacketNext ==
  ASSUME DriverInv, DriverInv', PacketInv, [Next]_vars
  PROVE  PacketInv'
<1>1. CASE Receive \/ Handler
  BY <1>1, MovesOnPackets, CopyPackets DEF Handler
<1>2. ASSUME NEW w \in Workers, Thread(w) PROVE PacketInv'
  <2>1. CASE MapPages(w)
    BY <2>1, MapPagesPackets
  <2>2. CASE CleanUp(w)
    BY <2>2, CleanUpPackets
  <2>3. CASE Returned(w)
    BY <2>3, ReturnedPackets
  <2> QED
    BY <1>2, <2>1, <2>2, <2>3, QuietThreads DEF Thread
<1>3. CASE FirstFinish \/ LastFinish \/ StrangerFinishes
  <2>1. \E who : StartFinish(who) /\ main' = main
    BY <1>3 DEF FirstFinish, LastFinish, StrangerFinishes, StartFinish, ScanFails, Crash, world
  <2> QED
    BY <2>1, QuietOthers
<1>4. CASE EndFirst \/ EndLast \/ EndStranger
  BY <1>4, EndFinishPackets DEF EndFirst, EndLast, EndStranger
<1>5. CASE Setup
  BY <1>5, SetupPackets
<1>6. CASE \/ Kill \/ WaitForThreads \/ RunAgain \/ Dead \/ UNCHANGED vars
           \/ \E w \in Workers : Signal(w)
  BY <1>6, QuietOthers
<1> QED
  BY <1>1, <1>2, <1>3, <1>4, <1>5, <1>6 DEF Next, MainThread

LEMMA InitPackets == Init => PacketInv
<1> SUFFICES ASSUME Init PROVE PacketInv
  OBVIOUS
<1>1. Buffers = {}
  BY DEF Init, Buffers
<1>2. Contents = << >>
  BY <1>1 DEF Contents
<1> QED
  BY <1>1, <1>2, FlattenEmpty
     DEF Init, PacketInv, NewestInv, CopiedInv, ReturnedInv, FilesInv, FreedInv

LEMMA InvPackets ==
  ASSUME DriverInv, PacketInv
  PROVE  PacketsInOrder
<1>1. copy_packets + drop_packets = received
  BY DEF DriverInv, CountInv
<1>2. FlattenSeq([b \in Buffers |-> buffer[b].packets]) = copied
  BY DEF PacketInv, CopiedInv, Contents
<1>3. \A f \in files : WholeBuffer(f)
  BY DEF PacketInv, FilesInv
<1>4. dumping /\ main = "running" => \A b \in Buffers \ Live : Accounted(b)
  BY DEF PacketInv, FreedInv, Live
<1> QED
  BY <1>1, <1>2, <1>3, <1>4 DEF PacketsInOrder, WholeBuffer, Accounted, FileOf

\* No packet is lost, doubled or out of order between two buffers, each file is the
\* whole of a buffer under its index, and while packets are dumped every buffer
\* that was freed is a file or about to become one
\* (do_driver_packet_dump_rx_skb and do_driver_packet_dump_file, for any number of
\* threads, packets and buffers).
THEOREM PacketsAreKept == ASSUME ~BusyFinish PROVE Spec => []PacketsInOrder
<1>1. DriverInv /\ DriverInv' /\ PacketInv /\ [Next]_vars => PacketInv'
  BY PacketNext
<1>2. DriverInv /\ PacketInv => PacketsInOrder
  BY InvPackets
<1> QED
  BY <1>1, <1>2, InitPackets, DriverCorrect, PTL DEF Spec
=============================================================================
