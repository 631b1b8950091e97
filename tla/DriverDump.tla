----------------------------- MODULE DriverDump -----------------------------
(***************************************************************************)
(* Packet capture: the code added to a network driver                       *)
(* (raw-collection/network-driverdump/kernel-driver-add.c) and the program   *)
(* that drives it (driverdump.cpp).  Each file thread of driverdump waits in  *)
(* an ioctl with one buffer, the mapped pages of its output file; the         *)
(* interrupt handler moves buffers from empty to filling to filled.           *)
(*                                                                           *)
(* The interrupt handler runs beside the ioctls, so each of its steps that    *)
(* they can see is an action.  The two stores of a promotion (:296-297) are   *)
(* one: a buffer that is taken between them is taken before the wake-up too.  *)
(* When BUG() or freed memory is reached, the system stops.  A packet is its  *)
(* number.                                                                    *)
(***************************************************************************)
EXTENDS Naturals, Sequences, FiniteSets, SequencesExt

CONSTANTS
  Workers,      \* the file threads; main() becomes one of them
  Capacity,     \* bytes for packets in a buffer
  MaxFiles,     \* global_max_file_count
  BusyFinish,   \* may others than driverdump call finish while a file ioctl runs?
  MaxPackets,   \* bound: packets received
  MaxBuffers,   \* bound: buffers allocated
  MaxSignals,   \* bound: signals
  MaxRuns       \* bound: runs of driverdump

ASSUME DriverDumpAssumption ==
  /\ IsFiniteSet(Workers) /\ BusyFinish \in BOOLEAN
  /\ Capacity \in Nat \ {0, 1} /\ MaxFiles \in Nat \ {0}
  /\ MaxPackets \in Nat /\ MaxBuffers \in Nat /\ MaxSignals \in Nat /\ MaxRuns \in Nat

VARIABLES
  \* driver_dump_privdata
  dumping,
  empty, filling, filled,     \* a buffer, or NoBuffer
  cur_idx_num,
  copy_packets, drop_packets,
  handler,                    \* where the interrupt handler is
  finishing,                  \* who sleeps in finish, with the semaphore: "no" one,
                              \* "driverdump" or a "stranger"
  \* driver_dump_data, by the order of their allocation
  buffer,
  \* driverdump
  main,                       \* where main() is
  pc,                         \* where each file thread is
  new_ddd,                    \* its buffer
  interrupted,                \* has it a signal to handle?
  everyone_ok,
  \* the world
  received,                   \* packets so far
  signals, runs,
  files,                      \* the output files, with their index and packets
  copied,                     \* history: the packets of this run that were copied
  bug                         \* where BUG() was reached, or NULL or freed memory used

slots   == <<empty, filling, filled>>
counts  == <<copy_packets, drop_packets, received, handler>>
control == <<dumping, finishing, cur_idx_num>>
world   == <<signals, runs, main>>
vars == <<slots, counts, control, buffer, pc, new_ddd, interrupted, everyone_ok, world,
          files, copied, bug>>

NoBuffer == 0

Buffers == 1..Len(buffer)
Slots   == {empty, filling, filled} \ {NoBuffer}
Live    == {b \in Buffers : ~buffer[b].freed}

\* The semaphore is held by finish, which sleeps with it, and by a thread that maps
\* or releases the pages of a buffer.
Holds == {"mapping", "cleanup"}

SemFree == finishing = "no" /\ \A w \in Workers : pc[w] \notin Holds

\* Bytes of a packet with its header: small ones and large ones alternate.
Size(packet) == 1 + (packet % 2)

Fresh(index) == [packets |-> << >>, offset |-> 0, done_fill |-> FALSE, index |-> index,
                 freed |-> FALSE]

Up == bug = "none"

NoBug == Up /\ bug' = bug

\* BUG(), or the kernel dies of a pointer: nothing goes on.
Crash(where) ==
  /\ Up /\ bug' = where
  /\ UNCHANGED <<slots, counts, control, buffer, pc, new_ddd, interrupted, everyone_ok, world,
                 files, copied>>

----------------------------------------------------------------------------
\* Waiting and waking: a thread in "check ..." evaluates the condition of its
\* wait_event_interruptible, one in "sleep ..." has found it false.

\* Mutant: nobody is woken.
WakeEmpty_nobody(p) == p

\* wake_up(&wait_empty) wakes all: the waits are not exclusive
WakeEmpty(p) == [w \in Workers |-> IF p[w] = "sleep empty" THEN "check empty" ELSE p[w]]

\* wake_up_all(&b->thread_waiting), for every b in bs
WakeFill(p, bs) == [w \in Workers |-> IF p[w] = "sleep fill" /\ new_ddd[w] \in bs
                                      THEN "check fill" ELSE p[w]]

\* Mutant: those who wait for the empty slot are forgotten.
WakeAll_only_fill(p) == WakeFill(p, Slots)

\* do_driver_packet_dump_locked_wakeups
WakeAll(p) == WakeFill(WakeEmpty(p), Slots)

----------------------------------------------------------------------------
\* The interrupt handler

\* do_driver_packet_dump_can_fill, which says that one can not
CannotFill == filling # NoBuffer => buffer[filling].offset + Size(received + 1) > Capacity

Handles(from, to) ==
  /\ handler = from /\ handler' = to
  /\ UNCHANGED <<control, new_ddd, interrupted, everyone_ok, world, files>> /\ NoBug

Uncounted == UNCHANGED <<copy_packets, drop_packets, received, copied>>

\* The handler is called while dumping.  What it finds full it marks first, when it
\* can be promoted.
Receive ==
  /\ dumping /\ handler = "idle" /\ received < MaxPackets
  /\ IF CannotFill /\ filling # NoBuffer /\ filled = NoBuffer
       THEN \/ buffer[filling].done_fill /\ Crash("other")
            \/ /\ ~buffer[filling].done_fill
               /\ Handles("idle", "marked") /\ UNCHANGED <<slots, pc>> /\ Uncounted
               /\ buffer' = [buffer EXCEPT ![filling].done_fill = TRUE]
       ELSE /\ Handles("idle", IF CannotFill THEN "empty" ELSE "copy")
            /\ UNCHANGED <<slots, pc, buffer>> /\ Uncounted

\* The full buffer goes to filled.
Promote ==
  /\ Handles("marked", "wake fill") /\ UNCHANGED <<empty, pc, buffer>> /\ Uncounted
  /\ filled' = filling /\ filling' = NoBuffer

\* wake_up_all through filled, which is read again: its thread may have taken it
WakeFilled ==
  /\ handler = "wake fill"
  /\ \/ filled = NoBuffer /\ Crash("wake")
     \/ /\ filled # NoBuffer /\ pc' = WakeFill(pc, {filled})
        /\ Handles("wake fill", "empty") /\ UNCHANGED <<slots, buffer>> /\ Uncounted

\* The empty buffer goes to filling.
TakeEmpty ==
  /\ handler = "empty"
  /\ IF filling = NoBuffer /\ empty # NoBuffer
       THEN \/ buffer[empty].done_fill /\ Crash("other")
            \/ /\ ~buffer[empty].done_fill /\ filling' = empty /\ empty' = NoBuffer
               /\ Handles("empty", "wake empty") /\ UNCHANGED <<filled, pc, buffer>> /\ Uncounted
       ELSE Handles("empty", "copy") /\ UNCHANGED <<slots, pc, buffer>> /\ Uncounted

WakeWaiters ==
  /\ Handles("wake empty", "copy") /\ UNCHANGED <<slots, buffer>> /\ Uncounted
  /\ pc' = WakeEmpty(pc)

\* The packet is copied, or dropped.
Copy ==
  /\ handler = "copy"
  /\ \/ filling # NoBuffer /\ buffer[filling].freed /\ Crash("other")
     \/ /\ CannotFill /\ drop_packets' = drop_packets + 1 /\ received' = received + 1
        /\ Handles("copy", "idle") /\ UNCHANGED <<slots, pc, buffer, copy_packets, copied>>
     \/ /\ ~CannotFill /\ ~buffer[filling].freed
        /\ copy_packets' = copy_packets + 1 /\ received' = received + 1
        /\ buffer' = [buffer EXCEPT ![filling].packets = Append(@, received + 1),
                                    ![filling].offset  = @ + Size(received + 1)]
        /\ copied' = Append(copied, received + 1)
        /\ Handles("copy", "idle") /\ UNCHANGED <<slots, pc, drop_packets>>

Handler == Promote \/ WakeFilled \/ TakeEmpty \/ WakeWaiters \/ Copy

\* The handler is about to move a buffer on.
Moving == handler = "marked" \/ (handler = "empty" /\ filling = NoBuffer /\ empty # NoBuffer)

\* do_driver_packet_dump_locked_wakeups finds a buffer in a slot and reads the slot
\* again; the handler may have emptied it in between.  A buffer that moves on during
\* the scan moves in its direction, and is not missed.
ScanFails == \/ Moving /\ Crash("scan")
             \/ (\E b \in Slots : buffer[b].freed) /\ Crash("other")

----------------------------------------------------------------------------
\* The file ioctl

\* What changes of a thread when it moves on and nothing else happens.
Goes(w, from, to) ==
  /\ pc[w] = from
  /\ pc' = [pc EXCEPT ![w] = to]
  /\ UNCHANGED <<slots, counts, control, buffer, new_ddd, everyone_ok, world, files, copied>>
  /\ NoBug

Moves(w, from, to) == Goes(w, from, to) /\ UNCHANGED interrupted

\* down_interruptible was interrupted: somebody else has the semaphore.
DownInterrupted(w, from) == ~SemFree /\ interrupted[w] /\ Moves(w, from, "failed")

\* do_driver_packet_dump_file, with the semaphore
Enter(w) ==
  SemFree /\ Moves(w, "enter", IF ~dumping THEN "failed"
                               ELSE IF empty = NoBuffer THEN "mapping" ELSE "check empty")

\* Mutant: an if instead of the while.
EnterAgain_once(w) == SemFree /\ Moves(w, "down again", "mapping")

\* The loop that waits for the empty slot does not look at dumping again.
EnterAgain(w) ==
  SemFree /\ Moves(w, "down again", IF empty = NoBuffer THEN "mapping" ELSE "check empty")

\* do_driver_packet_dump_locked_init_empty, up to the wait, or its alloc_failure
MapPages(w) ==
  /\ pc[w] = "mapping"
  /\ \/ empty # NoBuffer /\ Crash("other")
     \/ /\ empty = NoBuffer /\ Len(buffer) < MaxBuffers
        /\ buffer' = Append(buffer, Fresh(cur_idx_num))
        /\ empty' = Len(buffer) + 1
        /\ cur_idx_num' = cur_idx_num + 1
        /\ new_ddd' = [new_ddd EXCEPT ![w] = empty']
        /\ pc' = [pc EXCEPT ![w] = "check fill"]
        /\ UNCHANGED <<filling, filled, counts, dumping, finishing, interrupted, everyone_ok,
                       world, files, copied>> /\ NoBug
     \/ Moves(w, "mapping", "failed")

CheckEmpty(w) ==
  Moves(w, "check empty",
        IF ~dumping THEN "failed"
        ELSE IF empty = NoBuffer THEN "down again"
        ELSE IF interrupted[w] THEN "failed" ELSE "sleep empty")

CheckFill(w) ==
  /\ pc[w] = "check fill"
  /\ Moves(w, "check fill",
           IF ~dumping THEN "failed"
           ELSE IF buffer[new_ddd[w]].done_fill THEN "down filled"
           ELSE IF interrupted[w] THEN "failed" ELSE "sleep fill")

\* "we get to do cleanup"
TakeFilled(w) ==
  /\ pc[w] = "down filled" /\ SemFree
  /\ \/ filled # new_ddd[w] /\ Crash("mismatch")
     \/ /\ filled = new_ddd[w]
        /\ filled' = NoBuffer
        /\ pc' = [pc EXCEPT ![w] = "cleanup"]
        /\ UNCHANGED <<empty, filling, counts, control, buffer, new_ddd, interrupted,
                       everyone_ok, world, files, copied>> /\ NoBug

\* do_driver_dump_data_cleanup
CleanUp(w) ==
  /\ pc[w] = "cleanup"
  /\ LET b == new_ddd[w] IN
     \/ buffer[b].freed /\ Crash("other")
     \/ /\ ~buffer[b].freed
        /\ buffer' = [buffer EXCEPT ![b].freed = TRUE]
        /\ pc' = [pc EXCEPT ![w] = "returned"]
        /\ UNCHANGED <<slots, counts, control, new_ddd, interrupted, everyone_ok, world,
                       files, copied>> /\ NoBug

\* The end of do_driver_packet_dump when the command failed
Failed(w) ==
  IF dumping THEN Moves(w, "failed", "abort")
  ELSE Goes(w, "failed", "leave") /\ interrupted' = [interrupted EXCEPT ![w] = FALSE]

\* do_driver_packet_dump_abort
Abort(w) ==
  /\ pc[w] = "abort" /\ SemFree
  /\ \/ ScanFails
     \/ /\ dumping' = FALSE
        /\ pc' = [WakeAll(pc) EXCEPT ![w] = "leave"]
        /\ interrupted' = [interrupted EXCEPT ![w] = FALSE]
        /\ UNCHANGED <<slots, counts, finishing, cur_idx_num, buffer, new_ddd, everyone_ok,
                       world, files, copied>> /\ NoBug

InKernel(w) == pc[w] \notin {"user", "returned", "leave", "gone"}

----------------------------------------------------------------------------
\* finish: dumping ends, two seconds for those who were woken, then all is freed

StartFinish(who) ==
  /\ SemFree
  /\ \/ ScanFails
     \/ /\ finishing' = who
        /\ dumping' = FALSE
        /\ pc' = WakeAll(pc)
        /\ UNCHANGED <<slots, counts, cur_idx_num, buffer, new_ddd, interrupted, everyone_ok,
                       world, files, copied>> /\ NoBug

\* Two seconds are enough for the handler to end, and for a thread that was woken to
\* see that dumping ended.
TwoSeconds == handler = "idle" /\ \A w \in Workers : pc[w] # "check fill"

EndFinish(who, next) ==
  /\ finishing = who /\ TwoSeconds
  /\ \/ (\E b \in Slots : buffer[b].freed) /\ Crash("other")
     \/ /\ \A b \in Slots : ~buffer[b].freed
        /\ finishing' = "no"
        /\ buffer' = [b \in Buffers |-> [buffer[b] EXCEPT !.freed = @ \/ b \in Slots]]
        /\ empty' = NoBuffer /\ filling' = NoBuffer /\ filled' = NoBuffer
        /\ main' = next
        /\ UNCHANGED <<counts, dumping, cur_idx_num, pc, new_ddd, interrupted, everyone_ok,
                       signals, runs, files, copied>> /\ NoBug

\* The close function of the driver, or another driverdump that starts
StrangerFinishes == /\ main = "running"
                    /\ BusyFinish \/ \A w \in Workers : ~InKernel(w)
                    /\ StartFinish("stranger")
EndStranger == EndFinish("stranger", main)

----------------------------------------------------------------------------
\* driverdump: main

FirstFinish == main = "start" /\ StartFinish("driverdump")
LastFinish  == main = "finish" /\ StartFinish("driverdump")
EndFirst    == main = "start" /\ EndFinish("driverdump", "setup")
EndLast     == main = "finish" /\ EndFinish("driverdump", "exited")

\* do_driver_packet_dump_setup, then the threads are created
Setup ==
  /\ main = "setup" /\ SemFree /\ ~dumping
  /\ \/ Slots # {} /\ Crash("other")
     \/ /\ Slots = {}
        /\ dumping' = TRUE
        /\ cur_idx_num' = 0 /\ copy_packets' = 0 /\ drop_packets' = 0
        /\ main' = "running"
        /\ everyone_ok' = TRUE
        /\ pc' = [w \in Workers |-> "user"]
        /\ received' = 0 /\ copied' = << >> /\ files' = {} /\ buffer' = << >>
        /\ new_ddd' = [w \in Workers |-> NoBuffer]
        /\ UNCHANGED <<slots, finishing, handler, interrupted, signals, runs>> /\ NoBug

\* The beginning of dpd_dofile: there may be no space left for the file.
Prepare(w) ==
  /\ main = "running"
  /\ Moves(w, "user", "enter") \/ Moves(w, "user", "leave")

\* Mutant: the kernel returns the index of the newest buffer.
Returned_latest_index(w) ==
  /\ main = "running" /\ pc[w] = "returned"
  /\ LET b == buffer[new_ddd[w]] IN
     /\ files' = files \cup {[index |-> cur_idx_num - 1, packets |-> b.packets]}
     /\ pc' = [pc EXCEPT ![w] = IF b.index + 1 >= MaxFiles \/ ~everyone_ok THEN "leave"
                                                                        ELSE "user"]
  /\ interrupted' = [interrupted EXCEPT ![w] = FALSE]
  /\ UNCHANGED <<slots, counts, control, buffer, new_ddd, everyone_ok, world, copied>>
  /\ NoBug

\* The rest of dpd_dofile, and the loop of dofile_pthread_start: the file is
\* renamed to its index.
Returned(w) ==
  /\ main = "running" /\ pc[w] = "returned"
  /\ LET b == buffer[new_ddd[w]] IN
     /\ files' = files \cup {[index |-> b.index, packets |-> b.packets]}
     /\ pc' = [pc EXCEPT ![w] = IF b.index + 1 >= MaxFiles \/ ~everyone_ok THEN "leave"
                                                                        ELSE "user"]
  /\ interrupted' = [interrupted EXCEPT ![w] = FALSE]
  /\ UNCHANGED <<slots, counts, control, buffer, new_ddd, everyone_ok, world, copied>>
  /\ NoBug

Leave(w) ==
  /\ main = "running" /\ pc[w] = "leave"
  /\ everyone_ok' = FALSE
  /\ pc' = [pc EXCEPT ![w] = "gone"]
  /\ UNCHANGED <<slots, counts, control, buffer, new_ddd, interrupted, world, files, copied>>
  /\ NoBug

AllGone == \A w \in Workers : pc[w] = "gone"

MainGoesOn(to) ==
  /\ main' = to
  /\ UNCHANGED <<slots, counts, control, buffer, pc, new_ddd, interrupted, everyone_ok,
                 signals, files, copied>> /\ NoBug

WaitForThreads == main = "running" /\ AllGone /\ MainGoesOn("finish") /\ UNCHANGED runs

RunAgain == main = "exited" /\ runs < MaxRuns /\ MainGoesOn("start") /\ runs' = runs + 1

\* A signal makes its thread leave the kernel, unless what it waits for is there.
Woken(p, ws) == [w \in Workers |-> IF w \notin ws THEN p[w]
                                   ELSE IF p[w] = "sleep empty" THEN "check empty"
                                   ELSE IF p[w] = "sleep fill" THEN "check fill" ELSE p[w]]

\* SIGINT, SIGHUP or SIGTERM, to any of the threads: signal_handler
Signal(w) ==
  /\ main = "running" /\ signals < MaxSignals /\ pc[w] # "gone"
  /\ signals' = signals + 1
  /\ everyone_ok' = FALSE
  /\ interrupted' = [interrupted EXCEPT ![w] = InKernel(w)]
  /\ pc' = Woken(pc, {w})
  /\ UNCHANGED <<slots, counts, control, buffer, new_ddd, runs, main, files, copied>>
  /\ NoBug

\* SIGKILL: threads in the kernel still leave it; nobody finishes.
Kill ==
  /\ main = "running" /\ signals < MaxSignals
  /\ signals' = signals + 1
  /\ main' = "killed"
  /\ interrupted' = [w \in Workers |-> InKernel(w)]
  /\ pc' = Woken([w \in Workers |-> IF InKernel(w) THEN pc[w] ELSE "gone"], Workers)
  /\ UNCHANGED <<slots, counts, control, buffer, new_ddd, everyone_ok, runs, files, copied>>
  /\ NoBug

Die(w) == main = "killed" /\ pc[w] \in {"returned", "leave"} /\ Goes(w, pc[w], "gone")
          /\ interrupted' = [interrupted EXCEPT ![w] = FALSE]

Dead == main = "killed" /\ AllGone /\ MainGoesOn("exited") /\ UNCHANGED runs

----------------------------------------------------------------------------

Thread(w) == \/ Enter(w) \/ EnterAgain(w) \/ MapPages(w) \/ CheckEmpty(w) \/ CheckFill(w)
             \/ TakeFilled(w) \/ CleanUp(w)
             \/ DownInterrupted(w, "enter") \/ DownInterrupted(w, "down again")
             \/ DownInterrupted(w, "down filled")
             \/ Failed(w) \/ Abort(w) \/ Prepare(w) \/ Returned(w) \/ Leave(w) \/ Die(w)

MainThread == \/ FirstFinish \/ EndFirst \/ Setup \/ WaitForThreads \/ LastFinish \/ EndLast
              \/ Dead

Next == \/ Receive \/ Handler \/ (\E w \in Workers : Thread(w) \/ Signal(w))
        \/ MainThread \/ Kill \/ RunAgain \/ StrangerFinishes \/ EndStranger

Init ==
  /\ dumping = FALSE /\ empty = NoBuffer /\ filling = NoBuffer /\ filled = NoBuffer
  /\ cur_idx_num = 0 /\ copy_packets = 0 /\ drop_packets = 0 /\ finishing = "no"
  /\ buffer = << >> /\ main = "exited" /\ pc = [w \in Workers |-> "gone"]
  /\ new_ddd = [w \in Workers |-> NoBuffer] /\ interrupted = [w \in Workers |-> FALSE]
  /\ everyone_ok = FALSE /\ received = 0 /\ signals = 0 /\ runs = 0
  /\ files = {} /\ copied = << >> /\ handler = "idle" /\ bug = "none"

Spec == Init /\ [][Next]_vars

\* Threads that can run are run, and the handler ends; nobody has to send packets or
\* signals.
FairSpec == /\ Spec
            /\ \A w \in Workers : WF_vars(Thread(w))
            /\ WF_vars(Handler)
            /\ WF_vars(MainThread) /\ WF_vars(EndStranger)

----------------------------------------------------------------------------
\* Properties

ThreadStates == {"user", "enter", "check empty", "sleep empty", "down again", "check fill",
                 "sleep fill", "down filled", "mapping", "cleanup", "failed", "abort",
                 "returned", "leave", "gone"}

HandlerStates == {"idle", "marked", "wake fill", "empty", "wake empty", "copy"}

ThreadsTyped ==
  /\ pc \in [Workers -> ThreadStates]
  /\ new_ddd \in [Workers -> Buffers \cup {NoBuffer}]
  /\ interrupted \in [Workers -> BOOLEAN] /\ everyone_ok \in BOOLEAN
  /\ main \in {"start", "setup", "running", "finish", "killed", "exited"}
  /\ finishing \in {"no", "driverdump", "stranger"}
  /\ signals \in 0..MaxSignals /\ runs \in 0..MaxRuns

BufferType == [packets : Seq(1..MaxPackets), offset : 0..Capacity, done_fill : BOOLEAN,
               index : 0..MaxBuffers, freed : BOOLEAN]

DriverTyped ==
  /\ dumping \in BOOLEAN
  /\ {empty, filling, filled} \subseteq Buffers \cup {NoBuffer}
  /\ buffer \in Seq(BufferType) /\ Len(buffer) <= MaxBuffers
  /\ cur_idx_num \in 0..MaxBuffers /\ received \in 0..MaxPackets
  /\ copy_packets \in 0..MaxPackets /\ drop_packets \in 0..MaxPackets
  /\ copied \in Seq(1..MaxPackets) /\ handler \in HandlerStates
  /\ bug \in {"none", "mismatch", "wake", "scan", "other"}

\* Every variable has its type, and the slots name buffers that exist.
TypeOK == ThreadsTyped /\ DriverTyped

\* Every packet received in this run was counted once, as copied or as dropped,
\* and the copied ones are in the buffers one after the other: none is lost
\* between two buffers, doubled or out of order.  A file gets the whole of its
\* buffer under its index, and while packets are dumped, every buffer that was
\* freed is a file or about to become one
\* (do_driver_packet_dump_rx_skb, and locked_init_empty from "we get to do
\* cleanup").
PacketsInOrder ==
  /\ copy_packets + drop_packets = received
  /\ FlattenSeq([b \in Buffers |-> buffer[b].packets]) = copied
  /\ \A f \in files : \E b \in Buffers : /\ f.index = buffer[b].index
                                         /\ f.packets = buffer[b].packets
                                         /\ buffer[b].done_fill /\ buffer[b].freed
  /\ dumping /\ main = "running" => \A b \in Buffers \ Live :
        \/ [index |-> buffer[b].index, packets |-> buffer[b].packets] \in files
        \/ \E w \in Workers : new_ddd[w] = b /\ pc[w] = "returned"

\* The BUG() and the uses of NULL or freed memory that the code can reach, all with the
\* handler between two of its steps: it has marked a buffer as full and not promoted it
\* (:295-296), and the thread of the buffer finds another one, or none, in filled
\* (:746); its thread has taken it before the handler woke it through filled (:304, "seems
\* really unlikely, so ignore"); or it empties a slot that the wake-ups of abort or
\* finish read twice (:571-584).
RacedOnly == \/ bug \in {"none", "wake", "scan"}
             \/ bug = "mismatch" /\ handler = "marked"

\* kernel-driver-add.c:755: at most three buffers are mapped at a time, each in
\* a slot of its own or with the one thread that releases its pages; when driverdump
\* has ended none is left.  No BUG() of kernel-driver-add.c is reached, and no buffer is
\* used or freed after it was freed, but in the windows of RacedOnly.
ThreeBuffers ==
  /\ TypeOK /\ RacedOnly
  /\ Live = Slots \cup {new_ddd[w] : w \in {v \in Workers : pc[v] = "cleanup"}}
  /\ Cardinality(Live) <= 3
  /\ \A s, t \in 1..3 : s # t /\ slots[s] = slots[t] => slots[s] = NoBuffer
  /\ main = "setup" => Live = {}

\* The handler has made buffer b full, and will wake those who wait for that.
WillWake(b) == \/ handler = "marked" /\ b = filling
               \/ handler = "wake fill" /\ b = filled

\* A thread sleeps only while it has to: the empty slot is taken, or its buffer
\* is not full yet, or the handler is about to wake it; and it has no signal, and
\* packets are dumped.
NoLostWakeup ==
  \A w \in Workers :
    /\ pc[w] = "sleep empty" => /\ empty # NoBuffer \/ handler = "wake empty"
                                /\ dumping /\ ~interrupted[w]
    /\ pc[w] = "sleep fill"  => /\ ~buffer[new_ddd[w]].done_fill \/ WillWake(new_ddd[w])
                                /\ dumping /\ ~interrupted[w]

\* Once nothing is dumped any more all the threads of driverdump end, and main
\* frees the buffers; this needs no packets and no second signal.  And a full
\* buffer does not stay: its thread writes it, or finish frees it, unless
\* driverdump was killed.  (The system goes on unless it has stopped at a bug.)
AbortEnds ==
  /\ (main = "running" /\ ~dumping) ~> (main \in {"exited", "killed"} \/ ~Up)
  /\ filled # NoBuffer ~> (filled = NoBuffer \/ main \in {"killed", "exited"} \/ ~Up)
=============================================================================
