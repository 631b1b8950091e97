----------------------- MODULE RotatingFileSinkProofs -----------------------
(***************************************************************************)
(* Proofs about RotatingFileSink for any number of writers, files, extents  *)
(* and calls and any limit of the queues.                                   *)
(***************************************************************************)
EXTENDS RotatingFileSink, OperatorTheorems

----------------------------------------------------------------------------
\* The inductive invariants

\* Who holds mutex across actions, and that whoever can get it to write finds
\* room in the current sink.
MutexInv ==
  /\ \A w \in Writers : mutex = w <=> pc[w] = "queue_wait"
  /\ mutex = Owner <=> pc[Owner] = "flush_pending"
  /\ mutex = Worker <=> worker = "hand_over"
  /\ mutex \in Writers \cup {Owner} => current_sink # NoSink
  /\ mutex \in {Nobody, Owner} /\ current_sink # NoSink => CanQueue(current_sink)

\* What each place of the worker says of the change it makes and of its sinks.
ChangeInv ==
  /\ worker = "nullify" => new_filename = "closed"
  /\ worker \in {"create", "swap", "hand_over"} => new_filename = "file"
  /\ worker = "delete" => new_filename # "none"
  /\ worker \notin {"hand_over", "delete"} => old_sink = NoSink
  /\ worker = "swap" => current_sink < new_sink
  /\ worker = "hand_over" => current_sink = new_sink
  /\ worker = "hand_over" => current_sink # NoSink
  /\ old_sink # NoSink => old_sink # current_sink
  /\ new_sink <= asked
  /\ new_filename = "file" /\ worker \notin {"swap", "hand_over", "delete"} => new_sink < asked

\* A sink that is not created yet, or just created, is empty; one that is neither
\* current nor being replaced has written everything.  A callback runs for what is
\* in a batch.
SinkInv ==
  /\ \A f \in Sinks : f > new_sink \/ (f = new_sink /\ worker = "swap") =>
       sink[f] = EmptySink
  /\ \A f \in Sinks \ {current_sink, old_sink} : Quiet(f)
  /\ \A f \in Sinks : sink[f].place # "none" => sink[f].batch # << >> /\ sink[f].ewc # 0

TypeInv == TypeOK /\ MutexInv /\ ChangeInv /\ SinkInv

\* The worker is told to stop at the very end, and exits only then.
StopInv ==
  /\ worker_continue <=> pc[Owner] \notin {"join", "deleted"}
  /\ worker = "exited" => ~worker_continue

\* The current sink has the callback of the whole; no sink but the one that is
\* being replaced has a batch with a callback from before the last flush.
FenceInv ==
  /\ current_sink # NoSink => sink[current_sink].callback = callback
  /\ callback = 0 \/ callback >= fence
  /\ \A f \in Sinks \ {old_sink} :
       sink[f].batch # << >> => sink[f].ewc = 0 \/ sink[f].ewc >= fence

\* Where the owner is once close() has dropped the callback, while it waits for the
\* file to be closed, and when it has been.
EndPlaces == {"end", "end_wait"}
ClosedPlaces == {"closed", "stop", "join", "deleted"}
ClosePlaces == {"close_change", "retry", "retry_wait"} \cup EndPlaces \cup ClosedPlaces

\* close() has been asked for and the worker has not begun with it.
ToBeClosed == new_filename = "closed" /\ worker \in {"running", "nullify"}

ClosingInv ==
  /\ pc[Owner] \in ClosePlaces => callback = 0
  /\ pc[Owner] \in EndPlaces =>
       ToBeClosed \/ \A f \in Sinks \ {old_sink} : sink[f].batch # << >> => sink[f].ewc = 0
  /\ CloseStopsCallbacks

CallbackInv == FenceInv /\ ClosingInv

\* In the destructor nobody is left who could write or change the file but the
\* callbacks of the last sink, and these only before it is deleted.
NoFile == /\ current_sink = NoSink
          /\ new_filename = "none" \/ (new_filename = "closed" /\ worker = "delete")

\* Who is done is done for good, and the owner only does the rest of the destructor.
DoneInv ==
  /\ pc[Owner] \in {"delete", "stop", "join", "deleted"} => pc[Rotater] = "done"
  /\ \A w \in Writers : pc[w] = "done" <=> pc[Rotater] = "done"
  /\ pc[Rotater] = "done" =>
       pc[Owner] \in {"delete", "close_change", "retry", "retry_wait", "end", "end_wait",
                      "stop", "join", "deleted"}

DestroyInv ==
  /\ DoneInv
  /\ pc[Rotater] = "done" =>
       /\ pending = << >>
       /\ pc[Owner] \in EndPlaces => ToBeClosed \/ NoFile
       /\ pc[Owner] \in {"stop", "join", "deleted"} => NoFile /\ new_filename = "none"

\* The same, and no assertion has failed.
DeleteInv == ~aborted /\ DestroyInv

----------------------------------------------------------------------------
\* TypeInv

\* The types of what is not about sinks and extents
LEMMA Plain ==
  ASSUME TypeOK
  PROVE  /\ asked \in 0..MaxFiles /\ asked \in Nat /\ MaxFiles \in Nat
         /\ new_sink \in 0..MaxFiles /\ new_sink \in Nat
         /\ current_sink \in 0..new_sink /\ current_sink \in Nat
         /\ old_sink \in 0..new_sink /\ old_sink \in Nat
         /\ current_sink # NoSink => current_sink \in Sinks
         /\ old_sink # NoSink => old_sink \in Sinks
         /\ worker \in WorkerPlaces /\ worker_continue \in BOOLEAN
         /\ new_filename \in {"none", "file", "closed"}
         /\ QueueLimit \in Nat \ {0}
<1>1. /\ asked \in 0..MaxFiles /\ MaxFiles \in Nat /\ new_sink \in 0..MaxFiles
      /\ current_sink \in 0..new_sink /\ old_sink \in 0..new_sink
      /\ worker \in WorkerPlaces /\ worker_continue \in BOOLEAN
      /\ new_filename \in {"none", "file", "closed"}
      /\ QueueLimit \in Nat \ {0}
  BY Zenon, RotatingAssumption DEF TypeOK, CallsTyped, ChangeTyped, SinksTyped
<1> QED
  BY <1>1 DEF NoSink, Sinks

\* A step that changes one sink and nothing that the others depend on.
OneSink(f) ==
  /\ sink' \in [Sinks -> SinkType(version')]
  /\ \A g \in Sinks \ {f} : sink'[g] = sink[g]

LEMMA SinkTyped ==
  ASSUME TypeOK, NEW f \in Sinks
  PROVE  /\ sink \in [Sinks -> SinkType(version)]
         /\ sink[f] \in SinkType(version)
         /\ sink[f].queue \in Seq(Extents) /\ sink[f].batch \in Seq(Extents)
         /\ sink[f].disk \in Seq(Extents)
         /\ sink[f].callback \in 0..version /\ sink[f].ewc \in 0..version
         /\ sink[f].place \in SinkPlaces
         /\ Len(sink[f].queue) <= QueueLimit
<1>1. sink \in [Sinks -> SinkType(version)]
  BY Zenon DEF TypeOK, CallsTyped, ChangeTyped, SinksTyped, SinkType
<1>2. sink[f] \in SinkType(version)
  BY <1>1
<1>3. Len(sink[f].queue) <= QueueLimit
  BY DEF TypeOK, CallsTyped, ChangeTyped, SinksTyped
<1> QED
  BY <1>1, <1>2, <1>3 DEF SinkType

\* What a sink does for itself: it takes nothing, keeps its callback, stays quiet
\* if it was, and its callback runs for what is in the batch.
LEMMA OwnStep ==
  ASSUME TypeInv, NEW f \in Sinks, OneSink(f), ~Quiet(f),
         sink'[f].callback = sink[f].callback,
         Len(sink'[f].queue) <= Len(sink[f].queue),
         sink'[f].place # "none" => sink'[f].batch # << >> /\ sink'[f].ewc # 0,
         worker' = worker \/ (worker = "waiting" /\ worker' = "running"),
         UNCHANGED <<pc, mutex, current_sink, old_sink, new_sink, version>>
  PROVE  MutexInv' /\ SinkInv' /\ \A g \in Sinks : Len(sink'[g].queue) <= QueueLimit
<1>1. /\ TypeOK /\ MutexInv /\ SinkInv
      /\ \A g \in Sinks \ {f} : sink'[g] = sink[g]
      /\ f \in {current_sink, old_sink}
  BY DEF TypeInv, SinkInv, OneSink
<1>2. \A g \in Sinks : Len(sink[g].queue) \in Nat /\ Len(sink'[g].queue) \in Nat
  <2>1. \A g \in Sinks : sink[g].queue \in Seq(Extents)
    BY <1>1, SinkTyped
  <2>2. \A g \in Sinks : sink'[g].queue \in Seq(Extents)
    BY DEF OneSink, SinkType
  <2> QED
    BY <2>1, <2>2
<1>3. \A g \in Sinks : Len(sink'[g].queue) <= Len(sink[g].queue)
  BY <1>1, <1>2
<1>4. \A g \in Sinks : Len(sink[g].queue) <= QueueLimit
  BY <1>1, SinkTyped
<1>5. QueueLimit \in Nat /\ current_sink \in Nat /\ (current_sink # NoSink => current_sink \in Sinks)
  BY <1>1, Plain
<1>6. MutexInv'
  BY <1>1, <1>2, <1>3, <1>5 DEF MutexInv, CanQueue
<1>7. ~(f > new_sink \/ (f = new_sink /\ worker = "swap"))
  BY <1>1 DEF SinkInv, EmptySink, Quiet
<1>8. SinkInv'
  BY <1>1, <1>7 DEF SinkInv, Quiet
<1> QED
  BY <1>2, <1>3, <1>4, <1>5, <1>6, <1>8

LEMMA InitType == Init => TypeInv
<1> SUFFICES ASSUME Init PROVE TypeInv
  OBVIOUS
<1> USE RotatingAssumption DEF Init, NoSink, Sinks
<1>1. << >> \in Seq(Extents)
  OBVIOUS
<1>2. EmptySink \in SinkType(0)
  BY <1>1 DEF EmptySink, SinkType, SinkPlaces
<1>3. sink \in [Sinks -> SinkType(version)]
  BY <1>2
<1>4. \A f \in Sinks : Len(sink[f].queue) = 0
  BY DEF EmptySink
<1>5. TypeOK
  <2>1. /\ pc \in [Clients -> OwnerPlaces \cup {"queue_wait", "done"}]
        /\ \A w \in Writers : pc[w] \in {"idle", "queue_wait", "done"}
        /\ pc[Owner] \in OwnerPlaces /\ pc[Rotater] \in {"idle", "done"}
    BY DEF OwnerPlaces, Clients
  <2>2. /\ written \in [Writers -> 0..MaxWrites] /\ calls \in 0..MaxCalls
        /\ new_sink \in 0..MaxFiles /\ asked \in 0..MaxFiles
        /\ current_sink \in 0..new_sink /\ old_sink \in 0..new_sink
        /\ version \in Nat /\ callback \in 0..version /\ fence \in 0..version
        /\ worker \in WorkerPlaces
    BY DEF WorkerPlaces
  <2>3. \A f \in Sinks : Len(sink[f].queue) <= QueueLimit
    BY <1>4
  <2> QED
    BY <1>1, <1>3, <2>1, <2>2, <2>3, Zenon DEF TypeOK, CallsTyped, ChangeTyped,
       SinksTyped, SinkType
<1>6. MutexInv
  BY DEF MutexInv, Clients
<1>7. ChangeInv
  BY DEF ChangeInv
<1>8. SinkInv
  BY DEF SinkInv, EmptySink, Quiet
<1> QED
  BY <1>5, <1>6, <1>7, <1>8 DEF TypeInv

LEMMA TakeBatchType ==
  ASSUME NEW f \in Sinks, TypeInv, TakeBatch(f)
  PROVE  TypeInv'
<1>1. PICK n \in 1..Len(sink[f].queue) :
        sink' = [sink EXCEPT ![f].batch = SubSeq(sink[f].queue, 1, n),
                             ![f].queue = SubSeq(@, n + 1, Len(@)),
                             ![f].ewc = sink[f].callback]
  BY DEF TakeBatch
<1>2. /\ TypeOK /\ ChangeInv /\ SinkInv /\ sink[f].batch = << >>
      /\ UNCHANGED <<clientVars, mutex, dataVars, current_sink, workerVars, changeVars,
                     callbackVars, aborted>>
  BY DEF TypeInv, TakeBatch
<1>3. /\ sink[f] \in SinkType(version) /\ sink[f].queue \in Seq(Extents)
      /\ sink[f].callback \in 0..version /\ sink \in [Sinks -> SinkType(version)]
  BY <1>2, SinkTyped
<1>4. /\ SubSeq(sink[f].queue, 1, n) \in Seq(Extents)
      /\ SubSeq(sink[f].queue, n + 1, Len(sink[f].queue)) \in Seq(Extents)
      /\ Len(SubSeq(sink[f].queue, n + 1, Len(sink[f].queue))) <= Len(sink[f].queue)
  BY <1>3
<1>5. /\ sink'[f].callback = sink[f].callback /\ sink'[f].place = sink[f].place
      /\ sink'[f].queue = SubSeq(sink[f].queue, n + 1, Len(sink[f].queue))
  BY <1>1, <1>3 DEF SinkType
<1>6. OneSink(f)
  BY <1>1, <1>2, <1>3, <1>4 DEF OneSink, SinkType, callbackVars
<1>7. ~Quiet(f) /\ sink[f].place = "none"
  BY <1>1, <1>2, <1>3 DEF Quiet, SinkInv
<1>8. MutexInv' /\ SinkInv' /\ \A g \in Sinks : Len(sink'[g].queue) <= QueueLimit
  BY <1>2, <1>4, <1>5, <1>6, <1>7, OwnStep DEF clientVars, workerVars, callbackVars
<1>9. TypeOK'
  BY <1>2, <1>6, <1>8, Zenon DEF TypeOK, CallsTyped, ChangeTyped, SinksTyped, OneSink,
     SinkType, clientVars, dataVars, workerVars, changeVars, callbackVars
<1>10. ChangeInv'
  BY <1>2 DEF ChangeInv, workerVars, changeVars
<1> QED
  BY <1>8, <1>9, <1>10 DEF TypeInv

LEMMA CallCallbackType ==
  ASSUME NEW f \in Sinks, TypeInv, CallCallback(f)
  PROVE  TypeInv'
<1>1. /\ TypeOK /\ ChangeInv /\ sink[f].batch # << >> /\ sink[f].ewc # 0
      /\ sink' = [sink EXCEPT ![f].place = "called"]
      /\ UNCHANGED <<clientVars, mutex, dataVars, current_sink, workerVars, changeVars,
                     callbackVars, aborted>>
  BY DEF TypeInv, CallCallback
<1>2. sink[f] \in SinkType(version) /\ sink \in [Sinks -> SinkType(version)]
  BY <1>1, SinkTyped
<1>3. /\ sink'[f].callback = sink[f].callback /\ sink'[f].queue = sink[f].queue
      /\ sink'[f].batch = sink[f].batch /\ sink'[f].ewc = sink[f].ewc
  BY <1>1, <1>2 DEF SinkType
<1>4. OneSink(f)
  BY <1>1, <1>2 DEF OneSink, SinkType, SinkPlaces, callbackVars
<1>5. MutexInv' /\ SinkInv' /\ \A g \in Sinks : Len(sink'[g].queue) <= QueueLimit
  <2>1. Len(sink'[f].queue) <= Len(sink[f].queue)
    BY <1>2, <1>3 DEF SinkType
  <2> QED
    BY <1>1, <1>3, <1>4, <2>1, OwnStep DEF Quiet, clientVars, workerVars, callbackVars
<1>6. TypeOK'
  BY <1>1, <1>4, <1>5, Zenon DEF TypeOK, CallsTyped, ChangeTyped, SinksTyped, OneSink,
     SinkType, clientVars, dataVars, workerVars, changeVars, callbackVars
<1>7. ChangeInv'
  BY <1>1 DEF ChangeInv, workerVars, changeVars
<1> QED
  BY <1>5, <1>6, <1>7 DEF TypeInv

LEMMA WriteOneType ==
  ASSUME NEW f \in Sinks, TypeInv, WriteOne(f)
  PROVE  TypeInv'
<1>1. /\ TypeOK /\ ChangeInv /\ sink[f].batch # << >>
      /\ sink' = [sink EXCEPT ![f].disk = Append(@, Head(sink[f].batch)),
                              ![f].batch = Tail(@), ![f].place = "none"]
      /\ UNCHANGED <<clientVars, mutex, dataVars, current_sink, workerVars, changeVars,
                     callbackVars, aborted>>
  BY DEF TypeInv, WriteOne
<1>2. /\ sink[f] \in SinkType(version) /\ sink \in [Sinks -> SinkType(version)]
      /\ sink[f].batch \in Seq(Extents) /\ sink[f].disk \in Seq(Extents)
  BY <1>1, SinkTyped
<1>3. /\ sink'[f].callback = sink[f].callback /\ sink'[f].queue = sink[f].queue
      /\ sink'[f].place = "none"
  BY <1>1, <1>2 DEF SinkType
<1>4. OneSink(f)
  <2>1. /\ Tail(sink[f].batch) \in Seq(Extents)
        /\ Append(sink[f].disk, Head(sink[f].batch)) \in Seq(Extents)
    BY <1>1, <1>2
  <2> QED
    BY <1>1, <1>2, <2>1 DEF OneSink, SinkType, SinkPlaces, callbackVars
<1>5. MutexInv' /\ SinkInv' /\ \A g \in Sinks : Len(sink'[g].queue) <= QueueLimit
  <2>1. Len(sink'[f].queue) <= Len(sink[f].queue)
    BY <1>2, <1>3 DEF SinkType
  <2> QED
    BY <1>1, <1>3, <1>4, <2>1, OwnStep DEF Quiet, clientVars, workerVars, callbackVars
<1>6. TypeOK'
  BY <1>1, <1>4, <1>5, Zenon DEF TypeOK, CallsTyped, ChangeTyped, SinksTyped, OneSink,
     SinkType, clientVars, dataVars, workerVars, changeVars, callbackVars
<1>7. ChangeInv'
  BY <1>1 DEF ChangeInv, workerVars, changeVars
<1> QED
  BY <1>5, <1>6, <1>7 DEF TypeInv

LEMMA CallbackChecksType ==
  ASSUME NEW f \in Sinks, TypeInv, CallbackChecks(f)
  PROVE  TypeInv'
<1>1. /\ TypeOK /\ ChangeInv /\ SinkInv /\ sink[f].place = "called"
      /\ sink' = [sink EXCEPT ![f].place = "can_change"]
      /\ UNCHANGED <<clientVars, mutex, dataVars, current_sink, workerVars, changeVars,
                     callbackVars, aborted>>
  BY DEF TypeInv, CallbackChecks
<1>2. sink[f] \in SinkType(version) /\ sink \in [Sinks -> SinkType(version)]
  BY <1>1, SinkTyped
<1>3. /\ sink'[f].callback = sink[f].callback /\ sink'[f].queue = sink[f].queue
      /\ sink'[f].batch = sink[f].batch /\ sink'[f].ewc = sink[f].ewc
      /\ sink[f].batch # << >> /\ sink[f].ewc # 0
  BY <1>1, <1>2 DEF SinkType, SinkInv
<1>4. OneSink(f)
  BY <1>1, <1>2 DEF OneSink, SinkType, SinkPlaces, callbackVars
<1>5. MutexInv' /\ SinkInv' /\ \A g \in Sinks : Len(sink'[g].queue) <= QueueLimit
  <2>1. Len(sink'[f].queue) <= Len(sink[f].queue)
    BY <1>2, <1>3 DEF SinkType
  <2> QED
    BY <1>1, <1>3, <1>4, <2>1, OwnStep DEF Quiet, clientVars, workerVars, callbackVars
<1>6. TypeOK'
  BY <1>1, <1>4, <1>5, Zenon DEF TypeOK, CallsTyped, ChangeTyped, SinksTyped, OneSink,
     SinkType, clientVars, dataVars, workerVars, changeVars, callbackVars
<1>7. ChangeInv'
  BY <1>1 DEF ChangeInv, workerVars, changeVars
<1> QED
  BY <1>5, <1>6, <1>7 DEF TypeInv

\* changeFile, called by anyone, leaves what is said of the worker intact.
LEMMA ChangeKept ==
  ASSUME TypeInv, NEW name \in {"file", "closed"}, NEW ok \in BOOLEAN,
         changeFile(name, ok), asked' \in Nat, asked' >= asked,
         name = "file" => asked' > asked,
         UNCHANGED current_sink
  PROVE  /\ ChangeInv'
         /\ worker' = worker \/ (worker = "waiting" /\ worker' = "running")
         /\ new_filename' \in {"none", "file", "closed"} /\ aborted' \in BOOLEAN
         /\ UNCHANGED <<worker_continue, old_sink, new_sink>>
<1>1. /\ TypeOK /\ ChangeInv /\ asked \in Nat /\ new_sink \in Nat
      /\ worker \in WorkerPlaces /\ new_filename \in {"none", "file", "closed"}
      /\ aborted \in BOOLEAN
  BY Plain, Zenon DEF TypeInv, TypeOK, CallsTyped, ChangeTyped, SinksTyped
<1>2. CASE SetNewFilename(name) /\ UNCHANGED aborted
  BY <1>1, <1>2 DEF ChangeInv, SetNewFilename, canChangeFile, WorkerWoken
<1>3. CASE /\ ~canChangeFile /\ Invariant(ok)
           /\ UNCHANGED <<worker_continue, new_filename, workerVars>>
  <2>1. aborted' \in BOOLEAN
    BY <1>3, Zenon DEF Invariant
  <2> QED
    BY <1>1, <1>3, <2>1 DEF ChangeInv, workerVars
<1> QED
  BY <1>2, <1>3 DEF changeFile

LEMMA CallbackChangesType ==
  ASSUME NEW f \in Sinks, TypeInv, CallbackChanges(f)
  PROVE  TypeInv'
<1>1. /\ TypeOK /\ ChangeInv /\ SinkInv /\ sink[f].place = "can_change"
      /\ sink' = [sink EXCEPT ![f].place = "changed"]
      /\ UNCHANGED <<clientVars, mutex, dataVars, current_sink, callbackVars>>
  BY DEF TypeInv, CallbackChanges
<1>2. sink[f] \in SinkType(version) /\ sink \in [Sinks -> SinkType(version)]
  BY <1>1, SinkTyped
<1>3. /\ sink'[f].callback = sink[f].callback /\ sink'[f].queue = sink[f].queue
      /\ sink'[f].batch = sink[f].batch /\ sink'[f].ewc = sink[f].ewc
      /\ sink[f].batch # << >> /\ sink[f].ewc # 0
  BY <1>1, <1>2 DEF SinkType, SinkInv
<1>4. OneSink(f)
  BY <1>1, <1>2 DEF OneSink, SinkType, SinkPlaces, callbackVars
<1>5. /\ ChangeInv' /\ asked' \in 0..MaxFiles
      /\ worker' = worker \/ (worker = "waiting" /\ worker' = "running")
      /\ new_filename' \in {"none", "file", "closed"} /\ aborted' \in BOOLEAN
      /\ UNCHANGED <<worker_continue, old_sink, new_sink>>
  <2>1. CASE asked < MaxFiles /\ asked' = asked + 1 /\ changeFile("file", FailureOk)
    <3>1. asked \in Nat /\ asked' \in 0..MaxFiles /\ asked' > asked
      BY <1>1, <2>1, Plain
    <3> QED
      BY <1>1, <2>1, <3>1, ChangeKept, RotatingAssumption
  <2>2. CASE UNCHANGED <<changeVars, workerVars, aborted>>
    BY <1>1, <2>2 DEF TypeOK, CallsTyped, ChangeTyped, SinksTyped, ChangeInv,
       changeVars, workerVars
  <2> QED
    BY <2>1, <2>2 DEF CallbackChanges
<1>6. MutexInv' /\ SinkInv' /\ \A g \in Sinks : Len(sink'[g].queue) <= QueueLimit
  <2>1. Len(sink'[f].queue) <= Len(sink[f].queue)
    BY <1>2, <1>3 DEF SinkType
  <2> QED
    BY <1>1, <1>3, <1>4, <1>5, <2>1, OwnStep DEF Quiet, clientVars, callbackVars
<1>7. TypeOK'
  BY <1>1, <1>4, <1>5, <1>6, Zenon DEF TypeOK, CallsTyped, ChangeTyped, SinksTyped,
     OneSink, SinkType, WorkerPlaces, clientVars, dataVars, callbackVars
<1> QED
  BY <1>5, <1>6, <1>7 DEF TypeInv

LEMMA Appended ==
  ASSUME NEW S, NEW s \in Seq(S), NEW e \in S
  PROVE  Append(s, e) \in Seq(S)
OBVIOUS

\* An extent is given to a sink that has room.
LEMMA Queued ==
  ASSUME TypeOK, NEW f \in Sinks, NEW e \in Extents, CanQueue(f),
         sink' = [sink EXCEPT ![f].queue = Append(@, e)]
  PROVE  /\ sink' \in [Sinks -> SinkType(version)]
         /\ \A g \in Sinks : Len(sink'[g].queue) <= QueueLimit
         /\ \A g \in Sinks : /\ sink'[g].batch = sink[g].batch /\ sink'[g].ewc = sink[g].ewc
                             /\ sink'[g].place = sink[g].place
                             /\ sink'[g].callback = sink[g].callback
         /\ \A g \in Sinks \ {f} : sink'[g] = sink[g]
<1>1. /\ sink \in [Sinks -> SinkType(version)] /\ sink[f] \in SinkType(version)
      /\ sink[f].queue \in Seq(Extents) /\ QueueLimit \in Nat
  BY SinkTyped, Plain
<1>2. Append(sink[f].queue, e) \in Seq(Extents) /\ Len(Append(sink[f].queue, e)) <= QueueLimit
  BY <1>1 DEF CanQueue
<1>3. /\ sink'[f] = [sink[f] EXCEPT !.queue = Append(sink[f].queue, e)]
      /\ \A g \in Sinks \ {f} : sink'[g] = sink[g]
      /\ sink' = [sink EXCEPT ![f] = sink'[f]]
  BY <1>1
<1>4. /\ sink'[f] \in SinkType(version) /\ sink'[f].queue = Append(sink[f].queue, e)
      /\ sink'[f].batch = sink[f].batch /\ sink'[f].ewc = sink[f].ewc
      /\ sink'[f].place = sink[f].place /\ sink'[f].callback = sink[f].callback
  BY <1>1, <1>2, <1>3 DEF SinkType
<1>5. \A g \in Sinks : Len(sink[g].queue) <= QueueLimit
  BY SinkTyped
<1> QED
  BY <1>1, <1>2, <1>3, <1>4, <1>5

\* The callback of a sink is set.
LEMMA CallbackSet ==
  ASSUME TypeOK, NEW f \in Sinks, NEW n \in Nat, n >= version, NEW v \in 0..n,
         sink' = [sink EXCEPT ![f].callback = v]
  PROVE  /\ sink' \in [Sinks -> SinkType(n)]
         /\ \A g \in Sinks : /\ sink'[g].batch = sink[g].batch /\ sink'[g].ewc = sink[g].ewc
                             /\ sink'[g].place = sink[g].place
                             /\ sink'[g].queue = sink[g].queue
         /\ \A g \in Sinks \ {f} : sink'[g] = sink[g]
<1>1. /\ sink \in [Sinks -> SinkType(version)] /\ \A g \in Sinks : sink[g] \in SinkType(version)
      /\ version \in Nat
  BY SinkTyped DEF TypeOK, SinksTyped
<1>2. \A g \in Sinks : sink[g] \in SinkType(n)
  BY <1>1 DEF SinkType
<1>3. /\ sink'[f] = [sink[f] EXCEPT !.callback = v]
      /\ \A g \in Sinks \ {f} : sink'[g] = sink[g]
      /\ sink' = [sink EXCEPT ![f] = sink'[f]]
  BY <1>1
<1>4. /\ sink'[f] \in SinkType(n)
      /\ sink'[f].batch = sink[f].batch /\ sink'[f].ewc = sink[f].ewc
      /\ sink'[f].place = sink[f].place /\ sink'[f].queue = sink[f].queue
  <2>1. sink[f] \in SinkType(n)
    BY <1>2
  <2>2. sink'[f] = [sink[f] EXCEPT !.callback = v]
    BY <1>3
  <2> QED
    BY <2>1, <2>2 DEF SinkType
<1> QED
  BY <1>1, <1>2, <1>3, <1>4

LEMMA RotaterChangesType ==
  ASSUME TypeInv, RotaterChanges
  PROVE  TypeInv'
<1> USE DEF RotaterChanges, clientVars, dataVars, workerVars, changeVars, callbackVars,
    SetNewFilename, canChangeFile, WorkerWoken
<1>1. /\ TypeOK /\ CallsTyped /\ ChangeTyped /\ SinksTyped
      /\ MutexInv /\ ChangeInv /\ SinkInv
  BY DEF TypeInv, TypeOK
<1>2. CallsTyped'
  BY <1>1, RotatingAssumption DEF CallsTyped, Clients, OwnerPlaces
<1>3. ChangeTyped'
  BY <1>1, RotatingAssumption DEF ChangeTyped, WorkerPlaces, NoSink
<1>4. SinksTyped'
  BY <1>1, Zenon DEF SinksTyped, SinkType
<1>5. MutexInv'
  BY <1>1, Plain, RotatingAssumption DEF CallsTyped, MutexInv, Clients, CanQueue
<1>6. ChangeInv'
  BY <1>1, Plain DEF ChangeInv, MutexInv, WorkerPlaces, NoSink
<1>7. SinkInv'
  BY <1>1, Plain DEF SinkInv, ChangeInv, MutexInv, EmptySink, Quiet, Sinks, NoSink
<1> QED
  BY <1>2, <1>3, <1>4, <1>5, <1>6, <1>7 DEF TypeInv, TypeOK

LEMMA WriteExtentType ==
  ASSUME NEW w \in Writers, TypeInv, WriteExtent(w)
  PROVE  TypeInv'
<1> USE DEF WriteExtent, clientVars, dataVars, workerVars, changeVars, callbackVars,
    Invariant
<1>1. /\ TypeOK /\ CallsTyped /\ ChangeTyped /\ SinksTyped
      /\ MutexInv /\ ChangeInv /\ SinkInv
  BY DEF TypeInv, TypeOK
<1>e. <<w, written[w] + 1>> \in Extents /\ written[w] + 1 \in 0..MaxWrites
  BY <1>1, RotatingAssumption DEF CallsTyped, Extents
<1>f. /\ mutex = Nobody /\ accepted' = Append(accepted, <<w, written[w] + 1>>)
      /\ \/ /\ current_sink \in Sinks /\ CanQueue(current_sink)
            /\ sink' = [sink EXCEPT ![current_sink].queue = Append(@, <<w, written[w] + 1>>)]
            /\ UNCHANGED pending
         \/ UNCHANGED sink /\ pending' = Append(pending, <<w, written[w] + 1>>)
  BY <1>1, Plain DEF MutexInv
<1>g. /\ sink' \in [Sinks -> SinkType(version)]
      /\ \A f \in Sinks : Len(sink'[f].queue) <= QueueLimit
      /\ \A f \in Sinks : /\ sink'[f].batch = sink[f].batch /\ sink'[f].ewc = sink[f].ewc
                          /\ sink'[f].place = sink[f].place
      /\ \A f \in Sinks \ {current_sink} : sink'[f] = sink[f]
  <2>1. CASE UNCHANGED sink
    BY <1>1, <2>1, Zenon DEF SinksTyped
  <2>2. CASE ~UNCHANGED sink
    BY <1>1, <1>e, <1>f, <2>2, Queued
  <2> QED
    BY <2>1, <2>2
<1>h. accepted' \in Seq(Extents) /\ pending' \in Seq(Extents)
  <2>1. accepted \in Seq(Extents) /\ pending \in Seq(Extents)
    BY <1>1 DEF SinksTyped
  <2>2. /\ Append(accepted, <<w, written[w] + 1>>) \in Seq(Extents)
        /\ Append(pending, <<w, written[w] + 1>>) \in Seq(Extents)
    BY <1>e, <2>1, Appended, Zenon
  <2> QED
    BY <1>f, <2>1, <2>2, Zenon
<1>2. CallsTyped'
  BY <1>1, <1>e, RotatingAssumption DEF CallsTyped, Clients
<1>3. ChangeTyped'
  <2>1. aborted' \in BOOLEAN
    BY Zenon
  <2> QED
    BY <1>1, <2>1, Zenon DEF ChangeTyped
<1>4. SinksTyped'
  BY <1>1, <1>g, <1>h, Zenon DEF SinksTyped
<1>5. MutexInv'
  BY <1>1, <1>f, Plain, RotatingAssumption DEF CallsTyped, MutexInv, Clients
<1>6. ChangeInv'
  BY <1>1, Plain DEF ChangeInv, MutexInv, WorkerPlaces, NoSink
<1>7. SinkInv'
  <2>1. \A f \in Sinks : f > new_sink \/ (f = new_sink /\ worker = "swap") => f # current_sink
    BY <1>1, Plain DEF ChangeInv, Sinks
  <2> QED
    BY <1>1, <1>g, <2>1, Zenon DEF SinkInv, Quiet
<1> QED
  BY <1>2, <1>3, <1>4, <1>5, <1>6, <1>7 DEF TypeInv, TypeOK

LEMMA WriteReturnType ==
  ASSUME NEW w \in Writers, TypeInv, WriteReturn(w)
  PROVE  TypeInv'
<1> USE DEF WriteReturn, clientVars, dataVars, workerVars, changeVars, callbackVars
<1>1. /\ TypeOK /\ CallsTyped /\ ChangeTyped /\ SinksTyped
      /\ MutexInv /\ ChangeInv /\ SinkInv
  BY DEF TypeInv, TypeOK
<1>2. CallsTyped'
  BY <1>1, RotatingAssumption DEF CallsTyped, Clients, OwnerPlaces
<1>3. ChangeTyped'
  BY <1>1, RotatingAssumption DEF ChangeTyped, WorkerPlaces, NoSink
<1>4. SinksTyped'
  BY <1>1, Zenon DEF SinksTyped, SinkType
<1>5. MutexInv'
  BY <1>1, Plain, RotatingAssumption DEF CallsTyped, MutexInv, Clients, CanQueue
<1>6. ChangeInv'
  BY <1>1, Plain DEF ChangeInv, MutexInv, WorkerPlaces, NoSink
<1>7. SinkInv'
  BY <1>1, Plain DEF SinkInv, ChangeInv, MutexInv, EmptySink, Quiet, Sinks, NoSink
<1> QED
  BY <1>2, <1>3, <1>4, <1>5, <1>6, <1>7 DEF TypeInv, TypeOK

LEMMA SetCallbackType ==
  ASSUME TypeInv, setExtentWriteCallback
  PROVE  TypeInv'
<1> USE DEF setExtentWriteCallback, clientVars, dataVars, workerVars, changeVars,
    callbackVars, Call, SetCallback
<1>1. /\ TypeOK /\ CallsTyped /\ ChangeTyped /\ SinksTyped
      /\ MutexInv /\ ChangeInv /\ SinkInv
  BY DEF TypeInv, TypeOK
<1>2. CallsTyped'
  BY <1>1, RotatingAssumption DEF CallsTyped, Clients, OwnerPlaces
<1>3. ChangeTyped'
  BY <1>1, RotatingAssumption DEF ChangeTyped, WorkerPlaces, NoSink
<1>4. SinksTyped'
  <2>1. /\ version' \in Nat /\ version' >= version /\ (version + 1) \in 0..version'
        /\ callback' \in 0..version' /\ fence' \in 0..version'
    BY <1>1 DEF SinksTyped
  <2>2. /\ sink' \in [Sinks -> SinkType(version')]
        /\ \A f \in Sinks : Len(sink'[f].queue) <= QueueLimit
    <3>1. CASE current_sink = NoSink
      <4>1. sink \in [Sinks -> SinkType(version)] /\ version \in Nat
        BY <1>1 DEF SinksTyped
      <4>2. \A f \in Sinks : sink[f] \in SinkType(version')
        BY <2>1, <4>1 DEF SinkType
      <4> QED
        BY <1>1, <3>1, <4>1, <4>2 DEF SinksTyped
    <3>2. CASE current_sink # NoSink
      <4>1. current_sink \in Sinks /\ sink' = [sink EXCEPT ![current_sink].callback = (version + 1)]
        BY <1>1, <3>2, Plain
      <4> QED
        BY <1>1, <2>1, <4>1, CallbackSet DEF SinksTyped
    <3> QED
      BY <3>1, <3>2
  <2> QED
    BY <1>1, <2>1, <2>2, Zenon DEF SinksTyped
<1>5. MutexInv'
  BY <1>1, Plain, RotatingAssumption DEF CallsTyped, MutexInv, Clients, CanQueue
<1>6. ChangeInv'
  BY <1>1, Plain DEF ChangeInv, MutexInv, WorkerPlaces, NoSink
<1>7. SinkInv'
  BY <1>1, Plain DEF SinkInv, ChangeInv, MutexInv, EmptySink, Quiet, Sinks, NoSink
<1> QED
  BY <1>2, <1>3, <1>4, <1>5, <1>6, <1>7 DEF TypeInv, TypeOK

LEMMA FlushType ==
  ASSUME TypeInv, Flush
  PROVE  TypeInv'
<1> USE DEF Flush, clientVars, dataVars, workerVars, changeVars, callbackVars, Call
<1>1. /\ TypeOK /\ CallsTyped /\ ChangeTyped /\ SinksTyped
      /\ MutexInv /\ ChangeInv /\ SinkInv
  BY DEF TypeInv, TypeOK
<1>2. CallsTyped'
  BY <1>1, RotatingAssumption DEF CallsTyped, Clients, OwnerPlaces
<1>3. ChangeTyped'
  BY <1>1, RotatingAssumption DEF ChangeTyped, WorkerPlaces, NoSink
<1>4. SinksTyped'
  BY <1>1, Zenon DEF SinksTyped, SinkType
<1>5. MutexInv'
  BY <1>1, Plain, RotatingAssumption DEF CallsTyped, MutexInv, Clients, CanQueue
<1>6. ChangeInv'
  BY <1>1, Plain DEF ChangeInv, MutexInv, WorkerPlaces, NoSink
<1>7. SinkInv'
  BY <1>1, Plain DEF SinkInv, ChangeInv, MutexInv, EmptySink, Quiet, Sinks, NoSink
<1> QED
  BY <1>2, <1>3, <1>4, <1>5, <1>6, <1>7 DEF TypeInv, TypeOK

LEMMA FlushWaitType ==
  ASSUME TypeInv, FlushWait
  PROVE  TypeInv'
<1> USE DEF FlushWait, clientVars, dataVars, workerVars, changeVars, callbackVars,
    waitForCanChange, Invariant
<1>1. /\ TypeOK /\ CallsTyped /\ ChangeTyped /\ SinksTyped
      /\ MutexInv /\ ChangeInv /\ SinkInv
  BY DEF TypeInv, TypeOK
<1>2. CallsTyped'
  BY <1>1, RotatingAssumption DEF CallsTyped, Clients, OwnerPlaces
<1>3. ChangeTyped'
  BY <1>1, RotatingAssumption DEF ChangeTyped, WorkerPlaces, NoSink
<1>4. SinksTyped'
  BY <1>1, Zenon DEF SinksTyped, SinkType
<1>5. MutexInv'
  BY <1>1, Plain, RotatingAssumption DEF CallsTyped, MutexInv, Clients, CanQueue
<1>6. ChangeInv'
  BY <1>1, Plain DEF ChangeInv, MutexInv, WorkerPlaces, NoSink
<1>7. SinkInv'
  BY <1>1, Plain DEF SinkInv, ChangeInv, MutexInv, EmptySink, Quiet, Sinks, NoSink
<1> QED
  BY <1>2, <1>3, <1>4, <1>5, <1>6, <1>7 DEF TypeInv, TypeOK

LEMMA FlushLockType ==
  ASSUME TypeInv, FlushLock
  PROVE  TypeInv'
<1> USE DEF FlushLock, clientVars, dataVars, workerVars, changeVars, callbackVars
<1>1. /\ TypeOK /\ CallsTyped /\ ChangeTyped /\ SinksTyped
      /\ MutexInv /\ ChangeInv /\ SinkInv
  BY DEF TypeInv, TypeOK
<1>2. CallsTyped'
  BY <1>1, RotatingAssumption DEF CallsTyped, Clients, OwnerPlaces
<1>3. ChangeTyped'
  BY <1>1, RotatingAssumption DEF ChangeTyped, WorkerPlaces, NoSink
<1>4. SinksTyped'
  BY <1>1, Zenon DEF SinksTyped, SinkType
<1>5. MutexInv'
  BY <1>1, Plain, RotatingAssumption DEF CallsTyped, MutexInv, Clients, CanQueue
<1>6. ChangeInv'
  BY <1>1, Plain DEF ChangeInv, MutexInv, WorkerPlaces, NoSink
<1>7. SinkInv'
  BY <1>1, Plain DEF SinkInv, ChangeInv, MutexInv, EmptySink, Quiet, Sinks, NoSink
<1> QED
  BY <1>2, <1>3, <1>4, <1>5, <1>6, <1>7 DEF TypeInv, TypeOK

LEMMA FlushReturnType ==
  ASSUME TypeInv, FlushReturn
  PROVE  TypeInv'
<1> USE DEF FlushReturn, clientVars, dataVars, workerVars, changeVars, callbackVars,
    CanQueue, Quiet
<1>1. /\ TypeOK /\ CallsTyped /\ ChangeTyped /\ SinksTyped
      /\ MutexInv /\ ChangeInv /\ SinkInv
  BY DEF TypeInv, TypeOK
<1>2. CallsTyped'
  BY <1>1, RotatingAssumption DEF CallsTyped, Clients, OwnerPlaces
<1>3. ChangeTyped'
  BY <1>1, RotatingAssumption DEF ChangeTyped, WorkerPlaces, NoSink
<1>4. SinksTyped'
  BY <1>1, Zenon DEF SinksTyped, SinkType
<1>5. MutexInv'
  BY <1>1, Plain, RotatingAssumption DEF CallsTyped, MutexInv, Clients, CanQueue
<1>6. ChangeInv'
  BY <1>1, Plain DEF ChangeInv, MutexInv, WorkerPlaces, NoSink
<1>7. SinkInv'
  BY <1>1, Plain DEF SinkInv, ChangeInv, MutexInv, EmptySink, Quiet, Sinks, NoSink
<1> QED
  BY <1>2, <1>3, <1>4, <1>5, <1>6, <1>7 DEF TypeInv, TypeOK

LEMMA CloseType ==
  ASSUME TypeInv, Close
  PROVE  TypeInv'
<1> USE DEF Close, clientVars, dataVars, workerVars, changeVars, callbackVars, Call
<1>1. /\ TypeOK /\ CallsTyped /\ ChangeTyped /\ SinksTyped
      /\ MutexInv /\ ChangeInv /\ SinkInv
  BY DEF TypeInv, TypeOK
<1>2. CallsTyped'
  BY <1>1, RotatingAssumption DEF CallsTyped, Clients, OwnerPlaces
<1>3. ChangeTyped'
  BY <1>1, RotatingAssumption DEF ChangeTyped, WorkerPlaces, NoSink
<1>4. SinksTyped'
  BY <1>1, Zenon DEF SinksTyped, SinkType
<1>5. MutexInv'
  BY <1>1, Plain, RotatingAssumption DEF CallsTyped, MutexInv, Clients, CanQueue
<1>6. ChangeInv'
  BY <1>1, Plain DEF ChangeInv, MutexInv, WorkerPlaces, NoSink
<1>7. SinkInv'
  BY <1>1, Plain DEF SinkInv, ChangeInv, MutexInv, EmptySink, Quiet, Sinks, NoSink
<1> QED
  BY <1>2, <1>3, <1>4, <1>5, <1>6, <1>7 DEF TypeInv, TypeOK

LEMMA DeleteType ==
  ASSUME TypeInv, Delete
  PROVE  TypeInv'
<1> USE DEF Delete, clientVars, dataVars, workerVars, changeVars, callbackVars
<1>1. /\ TypeOK /\ CallsTyped /\ ChangeTyped /\ SinksTyped
      /\ MutexInv /\ ChangeInv /\ SinkInv
  BY DEF TypeInv, TypeOK
<1>2. CallsTyped'
  BY <1>1, RotatingAssumption DEF CallsTyped, Clients, OwnerPlaces
<1>3. ChangeTyped'
  BY <1>1, RotatingAssumption DEF ChangeTyped, WorkerPlaces, NoSink
<1>4. SinksTyped'
  BY <1>1, Zenon DEF SinksTyped, SinkType
<1>5. MutexInv'
  BY <1>1, Plain, RotatingAssumption DEF CallsTyped, MutexInv, Clients, CanQueue
<1>6. ChangeInv'
  BY <1>1, Plain DEF ChangeInv, MutexInv, WorkerPlaces, NoSink
<1>7. SinkInv'
  BY <1>1, Plain DEF SinkInv, ChangeInv, MutexInv, EmptySink, Quiet, Sinks, NoSink
<1> QED
  BY <1>2, <1>3, <1>4, <1>5, <1>6, <1>7 DEF TypeInv, TypeOK

LEMMA CloseCallbackType ==
  ASSUME TypeInv, CloseCallback
  PROVE  TypeInv'
<1> USE DEF CloseCallback, clientVars, dataVars, workerVars, changeVars, callbackVars,
    SetCallback
<1>1. /\ TypeOK /\ CallsTyped /\ ChangeTyped /\ SinksTyped
      /\ MutexInv /\ ChangeInv /\ SinkInv
  BY DEF TypeInv, TypeOK
<1>2. CallsTyped'
  BY <1>1, RotatingAssumption DEF CallsTyped, Clients, OwnerPlaces
<1>3. ChangeTyped'
  BY <1>1, RotatingAssumption DEF ChangeTyped, WorkerPlaces, NoSink
<1>4. SinksTyped'
  <2>1. /\ version' \in Nat /\ version' >= version /\ 0 \in 0..version'
        /\ callback' \in 0..version' /\ fence' \in 0..version'
    BY <1>1 DEF SinksTyped
  <2>2. /\ sink' \in [Sinks -> SinkType(version')]
        /\ \A f \in Sinks : Len(sink'[f].queue) <= QueueLimit
    <3>1. CASE current_sink = NoSink
      <4>1. sink \in [Sinks -> SinkType(version)] /\ version \in Nat
        BY <1>1 DEF SinksTyped
      <4>2. \A f \in Sinks : sink[f] \in SinkType(version')
        BY <2>1, <4>1 DEF SinkType
      <4> QED
        BY <1>1, <3>1, <4>1, <4>2 DEF SinksTyped
    <3>2. CASE current_sink # NoSink
      <4>1. current_sink \in Sinks /\ sink' = [sink EXCEPT ![current_sink].callback = 0]
        BY <1>1, <3>2, Plain
      <4> QED
        BY <1>1, <2>1, <4>1, CallbackSet DEF SinksTyped
    <3> QED
      BY <3>1, <3>2
  <2> QED
    BY <1>1, <2>1, <2>2, Zenon DEF SinksTyped
<1>5. MutexInv'
  BY <1>1, Plain, RotatingAssumption DEF CallsTyped, MutexInv, Clients, CanQueue
<1>6. ChangeInv'
  BY <1>1, Plain DEF ChangeInv, MutexInv, WorkerPlaces, NoSink
<1>7. SinkInv'
  BY <1>1, Plain DEF SinkInv, ChangeInv, MutexInv, EmptySink, Quiet, Sinks, NoSink
<1> QED
  BY <1>2, <1>3, <1>4, <1>5, <1>6, <1>7 DEF TypeInv, TypeOK

LEMMA CloseChangeType ==
  ASSUME TypeInv, CloseChange
  PROVE  TypeInv'
<1> USE DEF CloseChange, clientVars, dataVars, workerVars, changeVars, callbackVars,
    changeFile, SetNewFilename, canChangeFile, WorkerWoken, Invariant, CloseNext
<1>1. /\ TypeOK /\ CallsTyped /\ ChangeTyped /\ SinksTyped
      /\ MutexInv /\ ChangeInv /\ SinkInv
  BY DEF TypeInv, TypeOK
<1>2. CallsTyped'
  BY <1>1, RotatingAssumption DEF CallsTyped, Clients, OwnerPlaces
<1>3. ChangeTyped'
  BY <1>1, RotatingAssumption DEF ChangeTyped, WorkerPlaces, NoSink
<1>4. SinksTyped'
  BY <1>1, Zenon DEF SinksTyped, SinkType
<1>5. MutexInv'
  BY <1>1, Plain, RotatingAssumption DEF CallsTyped, MutexInv, Clients, CanQueue
<1>6. ChangeInv'
  BY <1>1, Plain DEF ChangeInv, MutexInv, WorkerPlaces, NoSink
<1>7. SinkInv'
  BY <1>1, Plain DEF SinkInv, ChangeInv, MutexInv, EmptySink, Quiet, Sinks, NoSink
<1> QED
  BY <1>2, <1>3, <1>4, <1>5, <1>6, <1>7 DEF TypeInv, TypeOK

LEMMA CloseRetryType ==
  ASSUME TypeInv, CloseRetry
  PROVE  TypeInv'
<1> USE DEF CloseRetry, clientVars, dataVars, workerVars, changeVars, callbackVars,
    waitForCanChange, Invariant
<1>1. /\ TypeOK /\ CallsTyped /\ ChangeTyped /\ SinksTyped
      /\ MutexInv /\ ChangeInv /\ SinkInv
  BY DEF TypeInv, TypeOK
<1>2. CallsTyped'
  BY <1>1, RotatingAssumption DEF CallsTyped, Clients, OwnerPlaces
<1>3. ChangeTyped'
  BY <1>1, RotatingAssumption DEF ChangeTyped, WorkerPlaces, NoSink
<1>4. SinksTyped'
  BY <1>1, Zenon DEF SinksTyped, SinkType
<1>5. MutexInv'
  BY <1>1, Plain, RotatingAssumption DEF CallsTyped, MutexInv, Clients, CanQueue
<1>6. ChangeInv'
  BY <1>1, Plain DEF ChangeInv, MutexInv, WorkerPlaces, NoSink
<1>7. SinkInv'
  BY <1>1, Plain DEF SinkInv, ChangeInv, MutexInv, EmptySink, Quiet, Sinks, NoSink
<1> QED
  BY <1>2, <1>3, <1>4, <1>5, <1>6, <1>7 DEF TypeInv, TypeOK

LEMMA CloseEndType ==
  ASSUME TypeInv, CloseEnd
  PROVE  TypeInv'
<1> USE DEF CloseEnd, clientVars, dataVars, workerVars, changeVars, callbackVars,
    waitForCanChange, Invariant
<1>1. /\ TypeOK /\ CallsTyped /\ ChangeTyped /\ SinksTyped
      /\ MutexInv /\ ChangeInv /\ SinkInv
  BY DEF TypeInv, TypeOK
<1>2. CallsTyped'
  BY <1>1, RotatingAssumption DEF CallsTyped, Clients, OwnerPlaces
<1>3. ChangeTyped'
  BY <1>1, RotatingAssumption DEF ChangeTyped, WorkerPlaces, NoSink
<1>4. SinksTyped'
  BY <1>1, Zenon DEF SinksTyped, SinkType
<1>5. MutexInv'
  BY <1>1, Plain, RotatingAssumption DEF CallsTyped, MutexInv, Clients, CanQueue
<1>6. ChangeInv'
  BY <1>1, Plain DEF ChangeInv, MutexInv, WorkerPlaces, NoSink
<1>7. SinkInv'
  BY <1>1, Plain DEF SinkInv, ChangeInv, MutexInv, EmptySink, Quiet, Sinks, NoSink
<1> QED
  BY <1>2, <1>3, <1>4, <1>5, <1>6, <1>7 DEF TypeInv, TypeOK

LEMMA AfterCloseType ==
  ASSUME TypeInv, AfterClose
  PROVE  TypeInv'
<1> USE DEF AfterClose, clientVars, dataVars, workerVars, changeVars, callbackVars
<1>1. /\ TypeOK /\ CallsTyped /\ ChangeTyped /\ SinksTyped
      /\ MutexInv /\ ChangeInv /\ SinkInv
  BY DEF TypeInv, TypeOK
<1>2. CallsTyped'
  BY <1>1, RotatingAssumption DEF CallsTyped, Clients, OwnerPlaces
<1>3. ChangeTyped'
  BY <1>1, RotatingAssumption DEF ChangeTyped, WorkerPlaces, NoSink
<1>4. SinksTyped'
  BY <1>1, Zenon DEF SinksTyped, SinkType
<1>5. MutexInv'
  BY <1>1, Plain, RotatingAssumption DEF CallsTyped, MutexInv, Clients, CanQueue
<1>6. ChangeInv'
  BY <1>1, Plain DEF ChangeInv, MutexInv, WorkerPlaces, NoSink
<1>7. SinkInv'
  BY <1>1, Plain DEF SinkInv, ChangeInv, MutexInv, EmptySink, Quiet, Sinks, NoSink
<1> QED
  BY <1>2, <1>3, <1>4, <1>5, <1>6, <1>7 DEF TypeInv, TypeOK

LEMMA StopWorkerType ==
  ASSUME TypeInv, StopWorker
  PROVE  TypeInv'
<1> USE DEF StopWorker, clientVars, dataVars, workerVars, changeVars, callbackVars,
    WorkerWoken
<1>1. /\ TypeOK /\ CallsTyped /\ ChangeTyped /\ SinksTyped
      /\ MutexInv /\ ChangeInv /\ SinkInv
  BY DEF TypeInv, TypeOK
<1>2. CallsTyped'
  BY <1>1, RotatingAssumption DEF CallsTyped, Clients, OwnerPlaces
<1>3. ChangeTyped'
  BY <1>1, RotatingAssumption DEF ChangeTyped, WorkerPlaces, NoSink
<1>4. SinksTyped'
  BY <1>1, Zenon DEF SinksTyped, SinkType
<1>5. MutexInv'
  BY <1>1, Plain, RotatingAssumption DEF CallsTyped, MutexInv, Clients, CanQueue
<1>6. ChangeInv'
  BY <1>1, Plain DEF ChangeInv, MutexInv, WorkerPlaces, NoSink
<1>7. SinkInv'
  BY <1>1, Plain DEF SinkInv, ChangeInv, MutexInv, EmptySink, Quiet, Sinks, NoSink
<1> QED
  BY <1>2, <1>3, <1>4, <1>5, <1>6, <1>7 DEF TypeInv, TypeOK

LEMMA JoinWorkerType ==
  ASSUME TypeInv, JoinWorker
  PROVE  TypeInv'
<1> USE DEF JoinWorker, clientVars, dataVars, workerVars, changeVars, callbackVars,
    Invariant
<1>1. /\ TypeOK /\ CallsTyped /\ ChangeTyped /\ SinksTyped
      /\ MutexInv /\ ChangeInv /\ SinkInv
  BY DEF TypeInv, TypeOK
<1>2. CallsTyped'
  BY <1>1, RotatingAssumption DEF CallsTyped, Clients, OwnerPlaces
<1>3. ChangeTyped'
  BY <1>1, RotatingAssumption DEF ChangeTyped, WorkerPlaces, NoSink
<1>4. SinksTyped'
  BY <1>1, Zenon DEF SinksTyped, SinkType
<1>5. MutexInv'
  BY <1>1, Plain, RotatingAssumption DEF CallsTyped, MutexInv, Clients, CanQueue
<1>6. ChangeInv'
  BY <1>1, Plain DEF ChangeInv, MutexInv, WorkerPlaces, NoSink
<1>7. SinkInv'
  BY <1>1, Plain DEF SinkInv, ChangeInv, MutexInv, EmptySink, Quiet, Sinks, NoSink
<1> QED
  BY <1>2, <1>3, <1>4, <1>5, <1>6, <1>7 DEF TypeInv, TypeOK

LEMMA WorkerRunType ==
  ASSUME TypeInv, WorkerRun
  PROVE  TypeInv'
<1> USE DEF WorkerRun, clientVars, dataVars, workerVars, changeVars, callbackVars
<1>1. /\ TypeOK /\ CallsTyped /\ ChangeTyped /\ SinksTyped
      /\ MutexInv /\ ChangeInv /\ SinkInv
  BY DEF TypeInv, TypeOK
<1>2. CallsTyped'
  BY <1>1, RotatingAssumption DEF CallsTyped, Clients, OwnerPlaces
<1>3. ChangeTyped'
  BY <1>1, RotatingAssumption DEF ChangeTyped, WorkerPlaces, NoSink
<1>4. SinksTyped'
  BY <1>1, Zenon DEF SinksTyped, SinkType
<1>5. MutexInv'
  BY <1>1, Plain, RotatingAssumption DEF CallsTyped, MutexInv, Clients, CanQueue
<1>6. ChangeInv'
  BY <1>1, Plain DEF ChangeInv, MutexInv, WorkerPlaces, NoSink
<1>7. SinkInv'
  BY <1>1, Plain DEF SinkInv, ChangeInv, MutexInv, EmptySink, Quiet, Sinks, NoSink
<1> QED
  BY <1>2, <1>3, <1>4, <1>5, <1>6, <1>7 DEF TypeInv, TypeOK

LEMMA NullifyType ==
  ASSUME TypeInv, Nullify
  PROVE  TypeInv'
<1> USE DEF Nullify, clientVars, dataVars, workerVars, changeVars, callbackVars
<1>1. /\ TypeOK /\ CallsTyped /\ ChangeTyped /\ SinksTyped
      /\ MutexInv /\ ChangeInv /\ SinkInv
  BY DEF TypeInv, TypeOK
<1>2. CallsTyped'
  BY <1>1, RotatingAssumption DEF CallsTyped, Clients, OwnerPlaces
<1>3. ChangeTyped'
  BY <1>1, RotatingAssumption DEF ChangeTyped, WorkerPlaces, NoSink
<1>4. SinksTyped'
  BY <1>1, Zenon DEF SinksTyped, SinkType
<1>5. MutexInv'
  BY <1>1, Plain, RotatingAssumption DEF CallsTyped, MutexInv, Clients, CanQueue
<1>6. ChangeInv'
  BY <1>1, Plain DEF ChangeInv, MutexInv, WorkerPlaces, NoSink
<1>7. SinkInv'
  BY <1>1, Plain DEF SinkInv, ChangeInv, MutexInv, EmptySink, Quiet, Sinks, NoSink
<1> QED
  BY <1>2, <1>3, <1>4, <1>5, <1>6, <1>7 DEF TypeInv, TypeOK

LEMMA CreateSinkType ==
  ASSUME TypeInv, CreateSink
  PROVE  TypeInv'
<1> USE DEF CreateSink, clientVars, dataVars, workerVars, changeVars, callbackVars
<1>1. /\ TypeOK /\ CallsTyped /\ ChangeTyped /\ SinksTyped
      /\ MutexInv /\ ChangeInv /\ SinkInv
  BY DEF TypeInv, TypeOK
<1>2. CallsTyped'
  BY <1>1, RotatingAssumption DEF CallsTyped, Clients, OwnerPlaces
<1>3. ChangeTyped'
  <2>1. new_sink + 1 \in 0..MaxFiles /\ current_sink \in 0..(new_sink + 1)
        /\ old_sink \in 0..(new_sink + 1)
    BY <1>1, Plain DEF ChangeInv
  <2> QED
    BY <1>1, <2>1 DEF ChangeTyped, WorkerPlaces
<1>4. SinksTyped'
  BY <1>1, Zenon DEF SinksTyped, SinkType
<1>5. MutexInv'
  BY <1>1, Plain, RotatingAssumption DEF CallsTyped, MutexInv, Clients, CanQueue
<1>6. ChangeInv'
  BY <1>1, Plain DEF ChangeInv, MutexInv, WorkerPlaces, NoSink
<1>7. SinkInv'
  BY <1>1, Plain DEF SinkInv, ChangeInv, MutexInv, EmptySink, Quiet, Sinks, NoSink
<1> QED
  BY <1>2, <1>3, <1>4, <1>5, <1>6, <1>7 DEF TypeInv, TypeOK

LEMMA SwapSinksType ==
  ASSUME TypeInv, SwapSinks
  PROVE  TypeInv'
<1> USE DEF SwapSinks, clientVars, dataVars, workerVars, changeVars, callbackVars,
    SwappedCallback
<1>1. /\ TypeOK /\ CallsTyped /\ ChangeTyped /\ SinksTyped
      /\ MutexInv /\ ChangeInv /\ SinkInv
  BY DEF TypeInv, TypeOK
<1>2. CallsTyped'
  BY <1>1, RotatingAssumption DEF CallsTyped, Clients, OwnerPlaces
<1>3. ChangeTyped'
  BY <1>1, RotatingAssumption DEF ChangeTyped, WorkerPlaces, NoSink
<1>4. SinksTyped'
  BY <1>1, Zenon DEF SinksTyped, SinkType
<1>5. MutexInv'
  BY <1>1, Plain, RotatingAssumption DEF CallsTyped, MutexInv, Clients, CanQueue
<1>6. ChangeInv'
  BY <1>1, Plain DEF ChangeInv, MutexInv, WorkerPlaces, NoSink
<1>7. SinkInv'
  BY <1>1, Plain DEF SinkInv, ChangeInv, MutexInv, EmptySink, Quiet, Sinks, NoSink
<1> QED
  BY <1>2, <1>3, <1>4, <1>5, <1>6, <1>7 DEF TypeInv, TypeOK

LEMMA HandOverType ==
  ASSUME TypeInv, HandOver
  PROVE  TypeInv'
<1> USE DEF HandOver, clientVars, dataVars, workerVars, changeVars, callbackVars
<1>1. /\ TypeOK /\ CallsTyped /\ ChangeTyped /\ SinksTyped
      /\ MutexInv /\ ChangeInv /\ SinkInv
  BY DEF TypeInv, TypeOK
<1>2. CallsTyped'
  BY <1>1, RotatingAssumption DEF CallsTyped, Clients, OwnerPlaces
<1>3. ChangeTyped'
  BY <1>1, RotatingAssumption DEF ChangeTyped, WorkerPlaces, NoSink
<1>4. SinksTyped'
  <2>1. pending \in Seq(Extents) /\ pending # << >> /\ current_sink \in Sinks
        /\ CanQueue(current_sink)
    BY <1>1, Plain DEF SinksTyped, ChangeInv
  <2>2. Head(pending) \in Extents /\ Tail(pending) \in Seq(Extents)
    BY <2>1
  <2>3. /\ sink' \in [Sinks -> SinkType(version)]
        /\ \A f \in Sinks : Len(sink'[f].queue) <= QueueLimit
    BY <1>1, <2>1, <2>2, Queued
  <2> QED
    BY <1>1, <2>2, <2>3, Zenon DEF SinksTyped
<1>5. MutexInv'
  BY <1>1, Plain, RotatingAssumption DEF CallsTyped, MutexInv, Clients, CanQueue
<1>6. ChangeInv'
  BY <1>1, Plain DEF ChangeInv, MutexInv, WorkerPlaces, NoSink
<1>7. SinkInv'
  BY <1>1, Plain DEF SinkInv, ChangeInv, MutexInv, EmptySink, Quiet, Sinks, NoSink
<1> QED
  BY <1>2, <1>3, <1>4, <1>5, <1>6, <1>7 DEF TypeInv, TypeOK

LEMMA HandOverEndType ==
  ASSUME TypeInv, HandOverEnd
  PROVE  TypeInv'
<1> USE DEF HandOverEnd, clientVars, dataVars, workerVars, changeVars, callbackVars,
    HandedOver
<1>1. /\ TypeOK /\ CallsTyped /\ ChangeTyped /\ SinksTyped
      /\ MutexInv /\ ChangeInv /\ SinkInv
  BY DEF TypeInv, TypeOK
<1>2. CallsTyped'
  BY <1>1, RotatingAssumption DEF CallsTyped, Clients, OwnerPlaces
<1>3. ChangeTyped'
  BY <1>1, RotatingAssumption DEF ChangeTyped, WorkerPlaces, NoSink
<1>4. SinksTyped'
  BY <1>1, Zenon DEF SinksTyped, SinkType
<1>5. MutexInv'
  BY <1>1, Plain, RotatingAssumption DEF CallsTyped, MutexInv, Clients, CanQueue
<1>6. ChangeInv'
  BY <1>1, Plain DEF ChangeInv, MutexInv, WorkerPlaces, NoSink
<1>7. SinkInv'
  BY <1>1, Plain DEF SinkInv, ChangeInv, MutexInv, EmptySink, Quiet, Sinks, NoSink
<1> QED
  BY <1>2, <1>3, <1>4, <1>5, <1>6, <1>7 DEF TypeInv, TypeOK

LEMMA FinishChangeType ==
  ASSUME TypeInv, FinishChange
  PROVE  TypeInv'
<1> USE DEF FinishChange, clientVars, dataVars, workerVars, changeVars, callbackVars,
    ClientsWoken, Woken, Deletable
<1>1. /\ TypeOK /\ CallsTyped /\ ChangeTyped /\ SinksTyped
      /\ MutexInv /\ ChangeInv /\ SinkInv
  BY DEF TypeInv, TypeOK
<1>2. CallsTyped'
  BY <1>1, RotatingAssumption DEF CallsTyped, Clients, OwnerPlaces
<1>3. ChangeTyped'
  BY <1>1, RotatingAssumption DEF ChangeTyped, WorkerPlaces, NoSink
<1>4. SinksTyped'
  BY <1>1, Zenon DEF SinksTyped, SinkType
<1>5. MutexInv'
  BY <1>1, Plain, RotatingAssumption DEF CallsTyped, MutexInv, Clients, CanQueue
<1>6. ChangeInv'
  BY <1>1, Plain DEF ChangeInv, MutexInv, WorkerPlaces, NoSink
<1>7. SinkInv'
  BY <1>1, Plain DEF SinkInv, ChangeInv, MutexInv, EmptySink, Quiet, Sinks, NoSink
<1> QED
  BY <1>2, <1>3, <1>4, <1>5, <1>6, <1>7 DEF TypeInv, TypeOK

LEMMA TypeNext == TypeInv /\ [Next]_vars => TypeInv'
<1> SUFFICES ASSUME TypeInv, [Next]_vars PROVE TypeInv'
  OBVIOUS
<1>1. CASE NewCall
  BY <1>1, RotaterChangesType, WriteExtentType, SetCallbackType, FlushType, CloseType,
     DeleteType DEF NewCall
<1>2. CASE OwnerStep
  BY <1>2, FlushWaitType, FlushLockType, FlushReturnType, CloseCallbackType,
     CloseChangeType,
     CloseRetryType, CloseEndType, AfterCloseType, StopWorkerType,
     JoinWorkerType DEF OwnerStep
<1>3. CASE WorkerStep
  BY <1>3, WorkerRunType, NullifyType, CreateSinkType, SwapSinksType, HandOverType,
     HandOverEndType, FinishChangeType DEF WorkerStep
<1>4. CASE \E w \in Writers : WriteReturn(w)
  BY <1>4, WriteReturnType
<1>5. CASE \E f \in Sinks : SinkStep(f)
  BY <1>5, TakeBatchType, CallCallbackType, WriteOneType, CallbackChecksType,
     CallbackChangesType DEF SinkStep
<1>6. CASE UNCHANGED vars
  <2> USE DEF vars, clientVars, dataVars, workerVars, changeVars, callbackVars
  <2>1. TypeOK /\ MutexInv /\ ChangeInv /\ SinkInv
    BY DEF TypeInv
  <2>2. TypeOK'
    BY <1>6, <2>1, Zenon DEF TypeOK, CallsTyped, ChangeTyped, SinksTyped
  <2>3. MutexInv'
    BY <1>6, <2>1 DEF MutexInv, CanQueue
  <2>4. ChangeInv'
    BY <1>6, <2>1 DEF ChangeInv
  <2>5. SinkInv'
    BY <1>6, <2>1 DEF SinkInv, Quiet
  <2> QED
    BY <2>2, <2>3, <2>4, <2>5 DEF TypeInv
<1> QED
  BY <1>1, <1>2, <1>3, <1>4, <1>5, <1>6 DEF Next, Finished

\* Every reachable state is well typed; who holds mutex, what the worker is about, and
\* which sinks of RotatingFileSink.cpp may have extents left are as TypeInv says.
THEOREM TypeCorrect == Spec => []TypeInv
<1> QED
  BY InitType, TypeNext, PTL DEF Spec

----------------------------------------------------------------------------
\* NoLostWakeup

LEMMA WakeupNext == TypeInv /\ NoLostWakeup /\ [Next]_vars => NoLostWakeup'
<1> SUFFICES ASSUME TypeInv, NoLostWakeup, [Next]_vars PROVE NoLostWakeup'
  OBVIOUS
<1> USE DEF NoLostWakeup, vars, clientVars, workerVars, changeVars
<1>0. /\ pc \in [Clients -> OwnerPlaces \cup {"queue_wait", "done"}] /\ pc[Owner] \in OwnerPlaces
      /\ Owner \in Clients /\ Rotater \in Clients /\ Owner # Rotater /\ Writers \subseteq Clients
      /\ worker_continue \in BOOLEAN /\ new_filename \in {"none", "file", "closed"}
      /\ Owner \notin Writers
  BY Plain, RotatingAssumption DEF TypeInv, TypeOK, CallsTyped, Clients
<1>1. CASE NewCall
  BY <1>0, <1>1 DEF NewCall, setExtentWriteCallback, Flush, Close, Delete,
     RotaterChanges,
     WriteExtent, Call, SetNewFilename, WorkerWoken
<1>2. CASE OwnerStep
  <2>1. CASE FlushWait \/ CloseRetry \/ CloseEnd
    BY <1>0, <2>1 DEF FlushWait, CloseRetry, CloseEnd, waitForCanChange
  <2>2. CASE CloseChange
    BY <1>0, <2>2 DEF CloseChange, changeFile, SetNewFilename, WorkerWoken, CloseNext
  <2>3. CASE FlushLock \/ FlushReturn \/ CloseCallback \/ AfterClose \/ JoinWorker
    BY <1>0, <2>3 DEF FlushLock, FlushReturn, CloseCallback, AfterClose, JoinWorker
  <2>4. CASE StopWorker
    BY <1>0, <2>4 DEF StopWorker, WorkerWoken
  <2> QED
    BY <1>2, <2>1, <2>2, <2>3, <2>4 DEF OwnerStep
<1>3. CASE WorkerStep
  <2>1. CASE WorkerRun
    BY <1>0, <2>1 DEF WorkerRun
  <2>2. CASE FinishChange
    BY <1>0, <2>2 DEF FinishChange, ClientsWoken, Woken, OwnerPlaces
  <2>3. CASE Nullify \/ CreateSink \/ SwapSinks \/ HandOver \/ HandOverEnd
    BY <2>3 DEF Nullify, CreateSink, SwapSinks, HandOver, HandOverEnd
  <2> QED
    BY <1>3, <2>1, <2>2, <2>3 DEF WorkerStep
<1>4. CASE \E w \in Writers : WriteReturn(w)
  BY <1>0, <1>4 DEF WriteReturn
<1>5. CASE \E f \in Sinks : SinkStep(f)
  <2>1. PICK f \in Sinks : SinkStep(f)
    BY <1>5
  <2>2. CASE CallbackChanges(f)
    BY <2>2 DEF CallbackChanges, changeFile, SetNewFilename, WorkerWoken
  <2>3. CASE TakeBatch(f) \/ CallCallback(f) \/ WriteOne(f) \/ CallbackChecks(f)
    BY <2>3 DEF TakeBatch, CallCallback, WriteOne, CallbackChecks
  <2> QED
    BY <2>1, <2>2, <2>3 DEF SinkStep
<1>6. CASE UNCHANGED vars
  BY <1>6
<1> QED
  BY <1>1, <1>2, <1>3, <1>4, <1>5, <1>6 DEF Next, Finished

\* The condition variable of worker_mutex loses no wake-up, neither of the worker nor of
\* a caller of waitForCanChange, with any number of threads, files and sinks.
THEOREM NobodySleeps == Spec => []NoLostWakeup
<1>1. Init => NoLostWakeup
  BY RotatingAssumption DEF Init, NoLostWakeup, Clients
<1> QED
  BY <1>1, TypeCorrect, WakeupNext, PTL DEF Spec

----------------------------------------------------------------------------
\* What steps do to the sinks

\* A step of a sink is about that sink, and may begin a change of file.
LEMMA SinkStepKeeps ==
  ASSUME TypeInv, NEW f \in Sinks, SinkStep(f)
  PROVE  /\ UNCHANGED <<pc, pending, current_sink, old_sink, new_sink, worker_continue,
                        callback, version, fence>>
         /\ \A g \in Sinks \ {f} : sink'[g] = sink[g]
         /\ sink'[f].callback = sink[f].callback
         /\ ~Quiet(f)
         /\ sink'[f].batch # << >> =>
              IF sink[f].batch = << >> THEN sink'[f].ewc = sink[f].callback
                                       ELSE sink'[f].ewc = sink[f].ewc
         /\ \/ UNCHANGED <<new_filename, worker>>
            \/ /\ canChangeFile /\ sink[f].place # "none"
               /\ new_filename' = "file" /\ worker' = WorkerWoken
         /\ ~aborted /\ FailureOk => ~aborted'
<1> USE DEF clientVars, dataVars, workerVars, changeVars, callbackVars
<1>1. /\ TypeOK /\ SinkInv /\ sink \in [Sinks -> SinkType(version)]
      /\ sink[f] \in SinkType(version) /\ sink[f].queue \in Seq(Extents)
  BY SinkTyped DEF TypeInv
<1>2. CASE TakeBatch(f)
  BY <1>1, <1>2 DEF TakeBatch, SinkType, Quiet
<1>3. CASE CallCallback(f)
  BY <1>1, <1>3 DEF CallCallback, SinkType, Quiet
<1>4. CASE WriteOne(f)
  BY <1>1, <1>4 DEF WriteOne, SinkType, Quiet
<1>5. CASE CallbackChecks(f)
  BY <1>1, <1>5 DEF CallbackChecks, SinkType, Quiet, SinkInv
<1>6. CASE CallbackChanges(f)
  <2>1. /\ UNCHANGED <<pc, pending, current_sink, old_sink, new_sink, worker_continue,
                       callback, version, fence>>
        /\ \/ UNCHANGED <<new_filename, worker>>
           \/ canChangeFile /\ new_filename' = "file" /\ worker' = WorkerWoken
    BY <1>6 DEF CallbackChanges, changeFile, SetNewFilename
  <2>4. ~aborted /\ FailureOk => ~aborted'
    BY <1>6, Zenon DEF CallbackChanges, changeFile, Invariant
  <2>2. /\ sink' = [sink EXCEPT ![f].place = "changed"] /\ sink[f].place = "can_change"
        /\ ~Quiet(f)
    BY <1>1, <1>6 DEF CallbackChanges, SinkInv, Quiet
  <2>3. /\ \A g \in Sinks \ {f} : sink'[g] = sink[g]
        /\ sink'[f].callback = sink[f].callback
        /\ sink'[f].batch = sink[f].batch /\ sink'[f].ewc = sink[f].ewc
    BY <1>1, <2>2 DEF SinkType
  <2> QED
    BY <2>1, <2>2, <2>3, <2>4
<1> QED
  BY <1>2, <1>3, <1>4, <1>5, <1>6 DEF SinkStep

\* The other steps put extents into the current sink and set its callback.
OthersStep == \/ NewCall \/ OwnerStep \/ WorkerStep \/ UNCHANGED vars
              \/ \E w \in Writers : WriteReturn(w)

LEMMA OthersKeep ==
  ASSUME TypeInv, OthersStep
  PROVE  \A g \in Sinks :
           /\ sink'[g].batch = sink[g].batch /\ sink'[g].ewc = sink[g].ewc
           /\ sink'[g].place = sink[g].place
           /\ sink'[g].queue = sink[g].queue \/ g = current_sink'
           /\ \/ sink'[g].callback = sink[g].callback
              \/ g = current_sink' /\ sink'[g].callback = callback'
<1> DEFINE Kept(g) ==
             /\ sink'[g].batch = sink[g].batch /\ sink'[g].ewc = sink[g].ewc
             /\ sink'[g].place = sink[g].place
             /\ sink'[g].queue = sink[g].queue \/ g = current_sink'
             /\ \/ sink'[g].callback = sink[g].callback
                \/ g = current_sink' /\ sink'[g].callback = callback'
<1> SUFFICES \A g \in Sinks : Kept(g)
  OBVIOUS
<1>1. /\ TypeOK /\ MutexInv /\ ChangeInv /\ sink \in [Sinks -> SinkType(version)]
      /\ version \in Nat /\ callback \in 0..version
      /\ current_sink \in 0..new_sink /\ new_sink \in 0..MaxFiles
      /\ current_sink # NoSink => current_sink \in Sinks
  BY Plain DEF TypeInv, TypeOK, SinksTyped
<1>2. CASE UNCHANGED sink
  BY <1>2
<1>3. ASSUME NEW w \in Writers, WriteExtent(w), ~UNCHANGED sink
      PROVE  \A g \in Sinks : Kept(g)
  <2>1. /\ current_sink \in Sinks /\ UNCHANGED current_sink /\ CanQueue(current_sink)
        /\ sink' = [sink EXCEPT ![current_sink].queue = Append(@, <<w, written[w] + 1>>)]
    BY <1>1, <1>3 DEF WriteExtent, MutexInv
  <2>2. <<w, written[w] + 1>> \in Extents
    BY <1>1, <1>3, RotatingAssumption DEF TypeOK, CallsTyped, WriteExtent, Extents
  <2> QED
    BY <1>1, <2>1, <2>2, Queued
<1>4. ASSUME NEW v \in Nat, SetCallback(v), ~UNCHANGED sink, UNCHANGED current_sink,
             v = 0 \/ v = version + 1
      PROVE  \A g \in Sinks : Kept(g)
  <2>1. /\ current_sink \in Sinks /\ callback' = v
        /\ sink' = [sink EXCEPT ![current_sink].callback = v]
    BY <1>1, <1>4 DEF SetCallback
  <2>2. version + 1 \in Nat /\ version + 1 >= version /\ v \in 0..(version + 1)
    BY <1>1, <1>4
  <2>3. sink'[current_sink].callback = v
    BY <1>1, <2>1 DEF SinkType
  <2> QED
    BY <1>1, <1>4, <2>1, <2>2, <2>3, CallbackSet
<1>5. CASE SwapSinks
  <2>1. /\ new_sink \in Sinks /\ current_sink' = new_sink /\ UNCHANGED callback
        /\ sink' = [sink EXCEPT ![new_sink].callback = callback]
    BY <1>1, <1>5, Plain DEF SwapSinks, SwappedCallback, callbackVars, ChangeInv, Sinks
  <2>2. sink'[new_sink].callback = callback
    BY <1>1, <2>1 DEF SinkType
  <2> QED
    BY <1>1, <2>1, <2>2, CallbackSet
<1>6. CASE HandOver
  <2>1. /\ current_sink \in Sinks /\ UNCHANGED current_sink /\ CanQueue(current_sink)
        /\ sink' = [sink EXCEPT ![current_sink].queue = Append(@, Head(pending))]
    BY <1>1, <1>6 DEF HandOver, ChangeInv
  <2>2. Head(pending) \in Extents
    BY <1>1, <1>6 DEF HandOver, TypeOK, SinksTyped
  <2> QED
    BY <1>1, <2>1, <2>2, Queued
<1>7. CASE NewCall
  <2>1. CASE RotaterChanges \/ Flush \/ Close \/ Delete
    BY <1>2, <2>1 DEF RotaterChanges, Flush, Close, Delete
  <2>2. CASE setExtentWriteCallback
    <3>1. /\ SetCallback(version + 1) /\ version + 1 \in Nat /\ UNCHANGED current_sink
      BY <1>1, <2>2 DEF setExtentWriteCallback
    <3> QED
      BY <1>2, <1>4, <3>1
  <2> QED
    BY <1>2, <1>3, <1>7, <2>1, <2>2 DEF NewCall
<1>8. CASE OwnerStep
  <2>1. CASE CloseCallback
    BY <1>2, <1>4, <2>1 DEF CloseCallback
  <2>2. CASE ~CloseCallback
    BY <1>2, <1>8, <2>2 DEF OwnerStep, FlushWait, FlushLock, FlushReturn, CloseChange,
       CloseRetry,
       CloseEnd, AfterClose, StopWorker, JoinWorker, waitForCanChange
  <2> QED
    BY <2>1, <2>2
<1>9. CASE WorkerStep
  BY <1>2, <1>5, <1>6, <1>9 DEF WorkerStep, WorkerRun, Nullify, CreateSink,
     HandOverEnd, FinishChange
<1>10. CASE UNCHANGED vars
  BY <1>2, <1>10 DEF vars
<1>11. CASE \E w \in Writers : WriteReturn(w)
  BY <1>2, <1>11 DEF WriteReturn
<1> QED
  BY <1>7, <1>8, <1>9, <1>10, <1>11 DEF OthersStep

----------------------------------------------------------------------------
\* StopInv and FenceInv

LEMMA StepCases ==
  [Next]_vars => OthersStep \/ \E f \in Sinks : SinkStep(f)
BY DEF Next, OthersStep, Finished

LEMMA StopNext == TypeInv /\ StopInv /\ [Next]_vars => StopInv'
<1> SUFFICES ASSUME TypeInv, StopInv, [Next]_vars PROVE StopInv'
  OBVIOUS
<1> USE DEF StopInv, vars, clientVars, workerVars, changeVars
<1>0. /\ pc \in [Clients -> OwnerPlaces \cup {"queue_wait", "done"}] /\ pc[Owner] \in OwnerPlaces
      /\ Owner \in Clients /\ Rotater \in Clients /\ Owner # Rotater /\ Writers \subseteq Clients
      /\ worker_continue \in BOOLEAN /\ new_filename \in {"none", "file", "closed"}
      /\ Owner \notin Writers
  BY Plain, RotatingAssumption DEF TypeInv, TypeOK, CallsTyped, Clients
<1>1. CASE NewCall
  BY <1>0, <1>1 DEF NewCall, setExtentWriteCallback, Flush, Close, Delete,
     RotaterChanges,
     WriteExtent, Call, SetNewFilename, WorkerWoken
<1>2. CASE OwnerStep
  <2>1. CASE FlushWait \/ CloseRetry \/ CloseEnd
    BY <1>0, <2>1 DEF FlushWait, CloseRetry, CloseEnd, waitForCanChange
  <2>2. CASE CloseChange
    BY <1>0, <2>2 DEF CloseChange, changeFile, SetNewFilename, WorkerWoken, CloseNext
  <2>3. CASE FlushLock \/ FlushReturn \/ CloseCallback \/ AfterClose \/ JoinWorker
    BY <1>0, <2>3 DEF FlushLock, FlushReturn, CloseCallback, AfterClose, JoinWorker
  <2>4. CASE StopWorker
    BY <1>0, <2>4 DEF StopWorker, WorkerWoken
  <2> QED
    BY <1>2, <2>1, <2>2, <2>3, <2>4 DEF OwnerStep
<1>3. CASE WorkerStep
  <2>1. CASE WorkerRun
    BY <1>0, <2>1 DEF WorkerRun
  <2>2. CASE FinishChange
    BY <1>0, <2>2 DEF FinishChange, ClientsWoken, Woken, OwnerPlaces
  <2>3. CASE Nullify \/ CreateSink \/ SwapSinks \/ HandOver \/ HandOverEnd
    BY <2>3 DEF Nullify, CreateSink, SwapSinks, HandOver, HandOverEnd
  <2> QED
    BY <1>3, <2>1, <2>2, <2>3 DEF WorkerStep
<1>4. CASE \E w \in Writers : WriteReturn(w)
  BY <1>0, <1>4 DEF WriteReturn
<1>5. CASE \E f \in Sinks : SinkStep(f)
  BY <1>5, SinkStepKeeps DEF WorkerWoken
<1>6. CASE UNCHANGED vars
  BY <1>6
<1> QED
  BY <1>1, <1>2, <1>3, <1>4, <1>5, <1>6, StepCases DEF OthersStep

LEMMA FenceNext == TypeInv /\ FenceInv /\ [Next]_vars => FenceInv'
<1> SUFFICES ASSUME TypeInv, FenceInv, [Next]_vars PROVE FenceInv'
  OBVIOUS
<1> USE DEF clientVars, workerVars, changeVars, callbackVars, dataVars
<1>1. /\ TypeOK /\ SinkInv /\ ChangeInv /\ SinksTyped
      /\ version \in Nat /\ callback \in 0..version /\ fence \in 0..version
      /\ current_sink # NoSink => current_sink \in Sinks
      /\ \A g \in Sinks : g # NoSink
  BY Plain DEF TypeInv, TypeOK, SinksTyped, Sinks, NoSink
<1>2. CASE \E f \in Sinks : SinkStep(f)
  <2>1. PICK f \in Sinks : SinkStep(f)
    BY <1>2
  <2> HIDE <1>2
  <2>2. f \in {current_sink, old_sink}
    BY <1>1, <2>1, SinkStepKeeps DEF SinkInv
  <2>3. current_sink # NoSink => sink'[current_sink].callback = callback
    BY <1>1, <2>1, SinkStepKeeps DEF FenceInv
  <2>4. ASSUME NEW g \in Sinks, g # old_sink, sink'[g].batch # << >>
        PROVE  sink'[g].ewc = 0 \/ sink'[g].ewc >= fence
    <3>1. CASE g = f
      <4>1. current_sink = f /\ f # NoSink /\ sink[f].callback = callback
        BY <1>1, <2>2, <2>4, <3>1 DEF FenceInv
      <4>2. CASE sink[f].batch = << >>
        <5>1. sink'[f].ewc = callback
          BY <2>1, <2>4, <3>1, <4>1, <4>2, SinkStepKeeps
        <5> QED
          BY <3>1, <5>1 DEF FenceInv
      <4>3. CASE sink[f].batch # << >>
        <5>1. sink'[f].ewc = sink[f].ewc
          BY <2>1, <2>4, <3>1, <4>3, SinkStepKeeps
        <5> QED
          BY <2>4, <3>1, <4>3, <5>1 DEF FenceInv
      <4> QED
        BY <4>2, <4>3
    <3>2. CASE g # f
      BY <2>1, <2>4, <3>2, SinkStepKeeps DEF FenceInv
    <3> QED
      BY <3>1, <3>2
  <2> QED
    BY <1>1, <2>1, <2>3, <2>4, SinkStepKeeps DEF FenceInv
<1>3. ASSUME OthersStep, UNCHANGED <<current_sink, callback, fence>>,
             \/ UNCHANGED old_sink
             \/ \A g \in Sinks : g = old_sink => Quiet(g)
      PROVE  FenceInv'
  BY <1>1, <1>3, OthersKeep DEF FenceInv, Quiet
<1>4. ASSUME OthersStep, UNCHANGED <<current_sink, callback, old_sink>>, fence' = callback,
             current_sink # NoSink => Quiet(current_sink)
      PROVE  FenceInv'
  <2>1. \A g \in Sinks \ {old_sink} : sink[g].batch = << >>
    BY <1>1, <1>4 DEF SinkInv, Quiet
  <2> QED
    BY <1>1, <1>4, <2>1, OthersKeep DEF FenceInv
<1>5. ASSUME OthersStep, UNCHANGED <<current_sink, fence, old_sink>>, NEW v \in Nat,
             SetCallback(v), v = 0 \/ v = version + 1
      PROVE  FenceInv'
  <2>1. callback' = v /\ (v = 0 \/ v >= fence)
    BY <1>1, <1>5 DEF SetCallback
  <2>2. current_sink # NoSink => sink'[current_sink].callback = v
    BY <1>1, <1>5, SinkTyped DEF SetCallback, SinkType
  <2> QED
    BY <1>1, <1>5, <2>1, <2>2, OthersKeep DEF FenceInv
<1>6. CASE NewCall
  <2>1. OthersStep
    BY <1>6 DEF OthersStep
  <2>2. CASE setExtentWriteCallback
    <3>1. SetCallback(version + 1) /\ version + 1 \in Nat /\ UNCHANGED <<current_sink, fence, old_sink>>
      BY <1>1, <2>2 DEF setExtentWriteCallback
    <3> QED
      BY <1>5, <2>1, <3>1
  <2>3. CASE ~setExtentWriteCallback
    <3>1. UNCHANGED <<current_sink, callback, fence, old_sink>>
      BY <1>6, <2>3 DEF NewCall, Flush, Close, Delete, RotaterChanges, WriteExtent,
         SetNewFilename
    <3> QED
      BY <1>3, <2>1, <3>1
  <2> QED
    BY <2>2, <2>3
<1>7. CASE OwnerStep
  <2>1. OthersStep
    BY <1>7 DEF OthersStep
  <2>2. CASE CloseCallback
    BY <1>5, <2>1, <2>2 DEF CloseCallback
  <2>3. CASE FlushLock \/ FlushReturn
    <3>1. /\ UNCHANGED <<current_sink, callback, old_sink>>
          /\ \/ UNCHANGED fence
             \/ fence' = callback /\ (current_sink # NoSink => Quiet(current_sink))
      BY <2>3 DEF FlushLock, FlushReturn
    <3> QED
      BY <1>3, <1>4, <2>1, <3>1
  <2>4. CASE ~(CloseCallback \/ FlushLock \/ FlushReturn)
    <3>1. UNCHANGED <<current_sink, callback, fence, old_sink>>
      BY <1>7, <2>4 DEF OwnerStep, FlushWait, CloseChange, CloseRetry, CloseEnd,
         AfterClose,
         StopWorker, JoinWorker, waitForCanChange, changeFile, SetNewFilename
    <3> QED
      BY <1>3, <2>1, <3>1
  <2> QED
    BY <2>2, <2>3, <2>4
<1>8. CASE WorkerStep
  <2>1. OthersStep
    BY <1>8 DEF OthersStep
  <2>2. CASE Nullify \/ SwapSinks
    <3>1. /\ old_sink = NoSink /\ old_sink' = current_sink /\ UNCHANGED <<callback, fence>>
      BY <1>1, <2>2 DEF Nullify, SwapSinks, ChangeInv
    <3>2. current_sink' # NoSink => sink'[current_sink'].callback = callback
      <4>1. CASE Nullify
        BY <4>1 DEF Nullify
      <4>2. CASE SwapSinks
        <5>1. new_sink \in Sinks /\ sink' = [sink EXCEPT ![new_sink].callback = callback]
          BY <1>1, <4>2, Plain DEF SwapSinks, SwappedCallback, ChangeInv, Sinks
        <5>2. sink'[new_sink].callback = callback
          BY <1>1, <5>1, SinkTyped DEF SinkType
        <5> QED
          BY <4>2, <5>2 DEF SwapSinks
      <4> QED
        BY <2>2, <4>1, <4>2
    <3> QED
      BY <1>1, <2>1, <3>1, <3>2, OthersKeep DEF FenceInv
  <2>3. CASE FinishChange
    <3>1. /\ UNCHANGED <<current_sink, callback, fence>>
          /\ \A g \in Sinks : g = old_sink => Quiet(g)
      BY <1>1, <2>3 DEF FinishChange, Deletable
    <3> QED
      BY <1>3, <2>1, <3>1
  <2>4. CASE WorkerRun \/ CreateSink \/ HandOver \/ HandOverEnd
    <3>1. UNCHANGED <<current_sink, callback, fence, old_sink>>
      BY <2>4 DEF WorkerRun, CreateSink, HandOver, HandOverEnd
    <3> QED
      BY <1>3, <2>1, <3>1
  <2> QED
    BY <1>8, <2>2, <2>3, <2>4 DEF WorkerStep
<1>9. CASE \E w \in Writers : WriteReturn(w)
  <2>1. OthersStep
    BY <1>9 DEF OthersStep
  <2>2. UNCHANGED <<current_sink, callback, fence, old_sink>>
    BY <1>9 DEF WriteReturn
  <2> QED
    BY <1>3, <2>1, <2>2
<1>10. CASE UNCHANGED vars
  <2>1. OthersStep
    BY <1>10 DEF OthersStep
  <2>2. UNCHANGED <<current_sink, callback, fence, old_sink>>
    BY <1>10 DEF vars
  <2> QED
    BY <1>3, <2>1, <2>2
<1> QED
  BY <1>2, <1>6, <1>7, <1>8, <1>9, <1>10, StepCases DEF OthersStep

----------------------------------------------------------------------------
\* ClosingInv

LEMMA OwnerStays ==
  ASSUME TypeInv, OthersStep, ~(CloseCallback \/ CloseChange \/ CloseEnd)
  PROVE  /\ pc'[Owner] \in ClosePlaces => pc[Owner] \in ClosePlaces /\ UNCHANGED callback
         /\ pc'[Owner] \in EndPlaces => pc[Owner] \in EndPlaces
         /\ pc'[Owner] \in ClosedPlaces => pc[Owner] \in ClosedPlaces
<1> USE DEF ClosePlaces, EndPlaces, ClosedPlaces, clientVars, callbackVars
<1>0. /\ pc \in [Clients -> OwnerPlaces \cup {"queue_wait", "done"}] /\ pc[Owner] \in OwnerPlaces
      /\ Owner \in Clients /\ Rotater \in Clients /\ Owner # Rotater /\ Writers \subseteq Clients
      /\ Owner \notin Writers
  BY RotatingAssumption DEF TypeInv, TypeOK, CallsTyped, Clients
<1>1. CASE NewCall
  BY <1>0, <1>1 DEF NewCall, setExtentWriteCallback, Flush, Close, Delete,
     RotaterChanges,
     WriteExtent, Call
<1>2. CASE OwnerStep
  BY <1>0, <1>2 DEF OwnerStep, FlushWait, FlushLock, FlushReturn, CloseRetry,
     AfterClose,
     StopWorker, JoinWorker, waitForCanChange
<1>3. CASE WorkerStep
  <2>1. CASE FinishChange
    BY <1>0, <2>1 DEF FinishChange, ClientsWoken, Woken
  <2>2. CASE ~FinishChange
    BY <1>3, <2>2 DEF WorkerStep, WorkerRun, Nullify, CreateSink, SwapSinks, HandOver,
       HandOverEnd
  <2> QED
    BY <2>1, <2>2
<1>4. CASE \E w \in Writers : WriteReturn(w)
  BY <1>0, <1>4 DEF WriteReturn
<1>5. CASE UNCHANGED vars
  BY <1>5 DEF vars
<1> QED
  BY <1>1, <1>2, <1>3, <1>4, <1>5 DEF OthersStep

\* Between close() and the worker nobody changes the file.
LEMMA ToBeClosedKept ==
  ASSUME TypeInv, StopInv, ToBeClosed, pc[Owner] \in EndPlaces, OthersStep
  PROVE  ToBeClosed' \/ Nullify
<1> USE DEF ToBeClosed, EndPlaces, workerVars, changeVars
<1>0. worker_continue /\ new_filename = "closed" /\ worker \in {"running", "nullify"}
  BY DEF StopInv
<1>1. CASE NewCall
  BY <1>0, <1>1 DEF NewCall, setExtentWriteCallback, Flush, Close, Delete,
     RotaterChanges,
     WriteExtent, SetNewFilename, canChangeFile
<1>2. CASE OwnerStep
  BY <1>0, <1>2 DEF OwnerStep, FlushWait, FlushLock, FlushReturn, CloseCallback,
     CloseChange,
     CloseRetry, CloseEnd, AfterClose, StopWorker, JoinWorker, waitForCanChange
<1>3. CASE WorkerStep
  BY <1>0, <1>3 DEF WorkerStep, WorkerRun, CreateSink, SwapSinks, HandOver,
     HandOverEnd, FinishChange
<1>4. CASE \E w \in Writers : WriteReturn(w)
  BY <1>0, <1>4 DEF WriteReturn
<1>5. CASE UNCHANGED vars
  BY <1>0, <1>5 DEF vars
<1> QED
  BY <1>1, <1>2, <1>3, <1>4, <1>5 DEF OthersStep

\* A sink is deleted when it has written everything.
LEMMA OldSinkGone ==
  ASSUME TypeInv, OthersStep, NEW g \in Sinks, g = old_sink
  PROVE  g = old_sink' \/ Quiet(g)
<1> USE DEF workerVars
<1>1. CASE NewCall
  BY <1>1 DEF NewCall, setExtentWriteCallback, Flush, Close, Delete, RotaterChanges,
     WriteExtent,
     SetNewFilename
<1>2. CASE OwnerStep
  BY <1>2 DEF OwnerStep, FlushWait, FlushLock, FlushReturn, CloseCallback, CloseChange,
     CloseRetry, CloseEnd, AfterClose, StopWorker, JoinWorker, waitForCanChange,
     changeFile,
     SetNewFilename
<1>3. CASE WorkerStep
  <2>1. old_sink # NoSink /\ ChangeInv
    BY DEF TypeInv, NoSink, Sinks
  <2> QED
    BY <1>3, <2>1 DEF WorkerStep, WorkerRun, Nullify, CreateSink, SwapSinks, HandOver,
       HandOverEnd,
       FinishChange, Deletable, ChangeInv
<1>4. CASE \E w \in Writers : WriteReturn(w)
  BY <1>4 DEF WriteReturn
<1>5. CASE UNCHANGED vars
  BY <1>5 DEF vars
<1> QED
  BY <1>1, <1>2, <1>3, <1>4, <1>5 DEF OthersStep

LEMMA ClosingNext ==
  TypeInv /\ StopInv /\ FenceInv /\ ClosingInv /\ [Next]_vars => ClosingInv'
<1> SUFFICES ASSUME TypeInv, StopInv, FenceInv, ClosingInv, [Next]_vars PROVE ClosingInv'
  OBVIOUS
<1> DEFINE NoneCalls == \A f \in Sinks \ {old_sink} : sink[f].batch # << >> => sink[f].ewc = 0
<1>1. /\ TypeOK /\ SinkInv /\ ChangeInv /\ FenceInv'
      /\ current_sink # NoSink => current_sink \in Sinks
      /\ \A g \in Sinks : g # NoSink
      /\ pc \in [Clients -> OwnerPlaces \cup {"queue_wait", "done"}] /\ Owner \in Clients
      /\ worker \in WorkerPlaces
  BY FenceNext, Plain, RotatingAssumption DEF TypeInv, TypeOK, CallsTyped, Sinks,
     NoSink, Clients
<1>2. CASE \E f \in Sinks : SinkStep(f)
  <2>1. PICK f \in Sinks : SinkStep(f)
    BY <1>2
  <2> HIDE <1>2
  <2>2. f \in {current_sink, old_sink}
    BY <1>1, <2>1, SinkStepKeeps DEF SinkInv
  <2>3. ASSUME pc[Owner] \in EndPlaces, NoneCalls
        PROVE  NoneCalls'
    <3>1. ASSUME NEW g \in Sinks, g # old_sink, sink'[g].batch # << >>
          PROVE  sink'[g].ewc = 0
      <4>1. CASE g # f
        BY <2>1, <2>3, <3>1, <4>1, SinkStepKeeps
      <4>2. CASE g = f /\ sink[f].batch = << >>
        <5>1. sink[f].callback = 0
          BY <1>1, <2>2, <2>3, <3>1, <4>2 DEF FenceInv, ClosingInv, ClosePlaces
        <5> QED
          BY <2>1, <3>1, <4>2, <5>1, SinkStepKeeps
      <4>3. CASE g = f /\ sink[f].batch # << >>
        <5>1. sink[f].ewc = 0
          BY <2>3, <3>1, <4>3
        <5> QED
          BY <2>1, <3>1, <4>3, <5>1, SinkStepKeeps
      <4> QED
        BY <4>1, <4>2, <4>3
    <3> QED
      BY <2>1, <3>1, SinkStepKeeps
  <2>4. ToBeClosed => ToBeClosed'
    BY <2>1, SinkStepKeeps DEF ToBeClosed, canChangeFile
  <2>5. CloseStopsCallbacks'
    <3> SUFFICES ASSUME pc[Owner] \in ClosedPlaces
                 PROVE  /\ callback = 0
                        /\ \A g \in Sinks :
                             /\ sink'[g].batch # << >> => sink'[g].ewc = 0
                             /\ ~Quiet(g)' \/ g = current_sink => sink'[g].callback = 0
      BY <2>1, SinkStepKeeps DEF CloseStopsCallbacks, ClosedPlaces
    <3>1. CloseStopsCallbacks /\ callback = 0 /\ sink[f].callback = 0
      BY <2>1, SinkStepKeeps DEF ClosingInv, CloseStopsCallbacks, ClosedPlaces
    <3>2. sink'[f].callback = 0 /\ (sink'[f].batch # << >> => sink'[f].ewc = 0)
      <4>1. CASE sink[f].batch = << >>
        BY <2>1, <3>1, <4>1, SinkStepKeeps
      <4>2. CASE sink[f].batch # << >>
        <5>1. sink[f].ewc = 0
          BY <3>1, <4>2 DEF CloseStopsCallbacks, ClosedPlaces
        <5> QED
          BY <2>1, <3>1, <4>2, <5>1, SinkStepKeeps
      <4> QED
        BY <4>1, <4>2
    <3> QED
      BY <2>1, <3>1, <3>2, SinkStepKeeps DEF CloseStopsCallbacks, ClosedPlaces, Quiet
  <2> QED
    BY <2>1, <2>3, <2>4, <2>5, SinkStepKeeps DEF ClosingInv
<1>3. ASSUME OthersStep, NoneCalls
      PROVE  NoneCalls'
  BY <1>1, <1>3, OthersKeep, OldSinkGone DEF Quiet
<1>4. ASSUME OthersStep, UNCHANGED callback, pc[Owner] \in ClosedPlaces
      PROVE  CloseStopsCallbacks'
  BY <1>1, <1>4, OthersKeep DEF CloseStopsCallbacks, ClosingInv, ClosedPlaces,
     FenceInv, Quiet
<1>5. ASSUME OthersStep, ~(CloseCallback \/ CloseChange \/ CloseEnd)
      PROVE  ClosingInv'
  <2>1. pc'[Owner] \in EndPlaces => ToBeClosed' \/ NoneCalls'
    <3>1. CASE Nullify
      <4>1. NoneCalls'
        BY <1>1, <1>5, <3>1, OthersKeep DEF Nullify, SinkInv, ChangeInv, Quiet
      <4> QED
        BY <4>1
    <3>2. CASE ~Nullify
      BY <1>3, <1>5, <3>2, OwnerStays, ToBeClosedKept DEF ClosingInv
    <3> QED
      BY <3>1, <3>2
  <2>2. CloseStopsCallbacks'
    <3>1. CASE pc'[Owner] \in ClosedPlaces
      BY <1>4, <1>5, <3>1, OwnerStays DEF ClosePlaces
    <3>2. CASE pc'[Owner] \notin ClosedPlaces
      BY <3>2 DEF CloseStopsCallbacks, ClosedPlaces
    <3> QED
      BY <3>1, <3>2
  <2> QED
    BY <1>5, <2>1, <2>2, OwnerStays DEF ClosingInv
<1>6. CASE CloseCallback
  <2>1. callback' = 0 /\ pc'[Owner] = "close_change"
    BY <1>1, <1>6 DEF CloseCallback, SetCallback
  <2> QED
    BY <2>1 DEF ClosingInv, CloseStopsCallbacks, EndPlaces
<1>7. CASE CloseChange
  <2>1. /\ callback = 0 /\ UNCHANGED callback
        /\ pc'[Owner] = CloseNext
    BY <1>1, <1>7 DEF CloseChange, ClosingInv, ClosePlaces, callbackVars
  <2>2. canChangeFile => ToBeClosed'
    <3>1. canChangeFile => worker \in {"running", "waiting"}
      BY <1>1 DEF canChangeFile, ChangeInv, StopInv, WorkerPlaces
    <3> QED
      BY <1>7, <3>1 DEF CloseChange, changeFile, SetNewFilename, WorkerWoken, ToBeClosed
  <2> QED
    BY <2>1, <2>2 DEF ClosingInv, CloseStopsCallbacks, CloseNext, EndPlaces,
       canChangeFile
<1>8. CASE CloseEnd
  <2>1. /\ callback = 0
        /\ ToBeClosed \/ NoneCalls
        /\ UNCHANGED <<callback, sink, current_sink, old_sink, new_filename, worker>>
        /\ pc'[Owner] \in IF new_filename = "none" THEN {"stop", "closed"} ELSE {"end_wait"}
    BY <1>1, <1>8 DEF CloseEnd, waitForCanChange, ClosingInv, ClosePlaces, EndPlaces,
       callbackVars,
       workerVars, changeVars
  <2>2. CASE new_filename = "none"
    <3>1. NoneCalls /\ old_sink = NoSink
      BY <1>1, <2>1, <2>2 DEF ToBeClosed, ChangeInv
    <3>2. \A g \in Sinks : /\ sink[g].batch # << >> => sink[g].ewc = 0
                           /\ ~Quiet(g) \/ g = current_sink => sink[g].callback = 0
      <4> TAKE g \in Sinks
      <4>1. sink[g].batch # << >> => sink[g].ewc = 0
        BY <1>1, <3>1
      <4>2. ~Quiet(g) => g = current_sink
        BY <1>1, <3>1 DEF SinkInv
      <4>3. g = current_sink => sink[g].callback = 0
        BY <1>1, <2>1 DEF FenceInv
      <4> QED
        BY <4>1, <4>2, <4>3
    <3>3. CloseStopsCallbacks'
      BY <2>1, <3>2, Zenon DEF CloseStopsCallbacks, Quiet
    <3>4. pc'[Owner] \notin EndPlaces /\ callback' = 0
      BY <2>1, <2>2 DEF EndPlaces
    <3> QED
      BY <3>3, <3>4 DEF ClosingInv
  <2>3. CASE new_filename # "none"
    <3>1. ToBeClosed' \/ NoneCalls'
      BY <2>1 DEF ToBeClosed
    <3>2. pc'[Owner] = "end_wait" /\ callback' = 0
      BY <2>1, <2>3
    <3>3. CloseStopsCallbacks'
      BY <3>2 DEF CloseStopsCallbacks
    <3> QED
      BY <3>1, <3>2, <3>3 DEF ClosingInv
  <2> QED
    BY <2>2, <2>3
<1> QED
  BY <1>2, <1>5, <1>6, <1>7, <1>8, StepCases

----------------------------------------------------------------------------
\* DeleteInv

\* In the destructor only CloseChange asks for a change of file, once no callback
\* is left that could.
LEMMA NoFileKept ==
  ASSUME TypeInv, NoFile, pc[Rotater] = "done", ~CloseChange,
         OthersStep \/ \E f \in Sinks : SinkStep(f)
  PROVE  NoFile' /\ (new_filename = "none" => new_filename' = "none")
<1> USE DEF NoFile, workerVars, changeVars
<1>1. /\ ChangeInv /\ SinkInv
      /\ worker \in WorkerPlaces
      /\ \A g \in Sinks : g # NoSink
  BY Plain DEF TypeInv, Sinks, NoSink
<1>2. CASE \E f \in Sinks : SinkStep(f)
  <2>1. PICK f \in Sinks : SinkStep(f)
    BY <1>2
  <2> HIDE <1>2
  <2>2. ~canChangeFile
    <3>1. f # current_sink /\ f \in {current_sink, old_sink}
      BY <1>1, <2>1, SinkStepKeeps DEF SinkInv
    <3> QED
      BY <1>1, <3>1 DEF canChangeFile, ChangeInv
  <2> QED
    BY <2>1, <2>2, SinkStepKeeps
<1>3. CASE NewCall
  BY <1>3 DEF NewCall, setExtentWriteCallback, Flush, Close, Delete, RotaterChanges,
     WriteExtent
<1>4. CASE OwnerStep
  <2>1. UNCHANGED <<current_sink, new_filename>>
    BY <1>4 DEF OwnerStep, FlushWait, FlushLock, FlushReturn, CloseCallback, CloseRetry,
       CloseEnd, AfterClose, StopWorker, JoinWorker, waitForCanChange
  <2>2. worker' = worker \/ worker = "waiting"
    BY <1>4 DEF OwnerStep, FlushWait, FlushLock, FlushReturn, CloseCallback, CloseRetry,
       CloseEnd, AfterClose, StopWorker, JoinWorker, waitForCanChange, WorkerWoken
  <2> QED
    BY <2>1, <2>2
<1>5. CASE WorkerStep
  BY <1>1, <1>5 DEF WorkerStep, WorkerRun, Nullify, CreateSink, SwapSinks, HandOver,
     HandOverEnd,
     FinishChange, ChangeInv
<1>6. CASE \E w \in Writers : WriteReturn(w)
  BY <1>6 DEF WriteReturn
<1>7. CASE UNCHANGED vars
  BY <1>7 DEF vars
<1> QED
  BY <1>2, <1>3, <1>4, <1>5, <1>6, <1>7 DEF OthersStep

LEMMA DoneNext ==
  ASSUME TypeInv, DoneInv, [Next]_vars
  PROVE  DoneInv' /\ (pc'[Rotater] = "done" => pc[Rotater] = "done" \/ Delete)
<1> USE DEF DoneInv, clientVars
<1>0. /\ pc \in [Clients -> OwnerPlaces \cup {"queue_wait", "done"}] /\ pc[Owner] \in OwnerPlaces
      /\ Owner \in Clients /\ Rotater \in Clients /\ Owner # Rotater /\ Writers \subseteq Clients
      /\ Owner \notin Writers /\ Rotater \notin Writers
  BY RotatingAssumption DEF TypeInv, TypeOK, CallsTyped, Clients
<1>1. CASE NewCall
  BY <1>0, <1>1 DEF NewCall, setExtentWriteCallback, Flush, Close, Delete,
     RotaterChanges,
     WriteExtent, Call
<1>2. CASE OwnerStep
  BY <1>0, <1>2 DEF OwnerStep, FlushWait, FlushLock, FlushReturn, CloseCallback,
     CloseChange,
     CloseRetry, CloseEnd, AfterClose, StopWorker, JoinWorker, waitForCanChange,
     CloseNext
<1>3. CASE WorkerStep
  <2>1. CASE FinishChange
    BY <1>0, <2>1 DEF FinishChange, ClientsWoken, Woken
  <2>2. CASE ~FinishChange
    BY <1>3, <2>2 DEF WorkerStep, WorkerRun, Nullify, CreateSink, SwapSinks, HandOver,
       HandOverEnd
  <2> QED
    BY <2>1, <2>2
<1>4. CASE \E w \in Writers : WriteReturn(w)
  BY <1>0, <1>4 DEF WriteReturn
<1>5. CASE \E f \in Sinks : SinkStep(f)
  BY <1>5, SinkStepKeeps
<1>6. CASE UNCHANGED vars
  BY <1>6 DEF vars
<1> QED
  BY <1>1, <1>2, <1>3, <1>4, <1>5, <1>6, StepCases DEF OthersStep

LEMMA NotAborted ==
  ASSUME FailureOk, TypeInv, StopInv, DeleteInv, [Next]_vars
  PROVE  ~aborted'
<1> USE DEF Invariant
<1>1. /\ ~aborted
      /\ pc[Owner] \notin {"join", "deleted"} => worker_continue
      /\ \A w \in Writers : pc[w] # "done" => worker_continue
      /\ pc[Owner] = "join" => current_sink = NoSink /\ pending = << >>
  BY DEF DeleteInv, DestroyInv, DoneInv, StopInv, NoFile
<1>2. ASSUME NEW w \in Writers, WriteExtent(w)
      PROVE  ~aborted'
  <2>1. worker_continue
    BY <1>1, <1>2 DEF WriteExtent
  <2> QED
    BY <1>2, <2>1, Zenon DEF WriteExtent
<1>3. CASE FlushWait \/ CloseRetry \/ CloseEnd
  <2>1. worker_continue
    BY <1>1, <1>3 DEF FlushWait, CloseRetry, CloseEnd
  <2> QED
    BY <1>3, <2>1, Zenon DEF FlushWait, CloseRetry, CloseEnd, waitForCanChange
<1>4. CASE CloseChange
  BY <1>1, <1>4, Zenon DEF CloseChange, changeFile
<1>5. CASE JoinWorker
  BY <1>1, <1>5, Zenon DEF JoinWorker
<1>6. CASE \E f \in Sinks : SinkStep(f)
  BY <1>1, <1>6, SinkStepKeeps
<1>7. CASE WorkerStep
  BY <1>1, <1>7 DEF WorkerStep, WorkerRun, Nullify, CreateSink, SwapSinks, HandOver,
     HandOverEnd,
     FinishChange
<1>8. CASE NewCall
  <2>1. CASE \E w \in Writers : WriteExtent(w)
    BY <1>2, <2>1
  <2>2. CASE ~\E w \in Writers : WriteExtent(w)
    BY <1>1, <1>8, <2>2 DEF NewCall, setExtentWriteCallback, Flush, Close, Delete,
       RotaterChanges
  <2> QED
    BY <2>1, <2>2
<1>9. CASE OwnerStep
  <2>1. CASE FlushLock \/ FlushReturn \/ CloseCallback \/ AfterClose \/ StopWorker
    BY <1>1, <2>1 DEF FlushLock, FlushReturn, CloseCallback, AfterClose, StopWorker
  <2> QED
    BY <1>3, <1>4, <1>5, <1>9, <2>1 DEF OwnerStep
<1>10. CASE (\E w \in Writers : WriteReturn(w)) \/ UNCHANGED vars
  BY <1>1, <1>10 DEF WriteReturn, vars
<1> QED
  BY <1>6, <1>7, <1>8, <1>9, <1>10, StepCases DEF OthersStep

LEMMA DestroyNext == TypeInv /\ StopInv /\ DestroyInv /\ [Next]_vars => DestroyInv'
<1> SUFFICES ASSUME TypeInv, StopInv, DestroyInv, [Next]_vars PROVE DestroyInv'
  OBVIOUS
<1>1. DoneInv /\ DoneInv' /\ (pc'[Rotater] = "done" => pc[Rotater] = "done" \/ Delete)
  <2>1. DoneInv
    BY DEF DestroyInv
  <2> QED
    BY <2>1, DoneNext
<1>2. SUFFICES ASSUME pc'[Rotater] = "done"
               PROVE  /\ pending' = << >>
                      /\ pc'[Owner] \in EndPlaces => ToBeClosed' \/ NoFile'
                      /\ pc'[Owner] \in {"stop", "join", "deleted"} =>
                           NoFile' /\ new_filename' = "none"
  BY <1>1, Zenon DEF DestroyInv
<1>3. /\ pc \in [Clients -> OwnerPlaces \cup {"queue_wait", "done"}] /\ pc[Owner] \in OwnerPlaces
      /\ Owner \in Clients /\ ChangeInv /\ worker \in WorkerPlaces
  BY Plain, RotatingAssumption DEF TypeInv, TypeOK, CallsTyped, Clients
<1>4. CASE Delete
  BY <1>3, <1>4 DEF Delete, EndPlaces, dataVars
<1>5. CASE ~Delete
  <2>1. /\ pc[Rotater] = "done" /\ pending = << >>
        /\ \A w \in Writers : pc[w] = "done"
        /\ pc[Owner] \in EndPlaces => ToBeClosed \/ NoFile
        /\ pc[Owner] \in {"stop", "join", "deleted"} => NoFile /\ new_filename = "none"
    BY <1>1, <1>2, <1>5 DEF DestroyInv, DoneInv
  <2>2. CASE \E f \in Sinks : SinkStep(f)
    <3>1. UNCHANGED <<pc, pending>> /\ (ToBeClosed => ToBeClosed')
      BY <2>2, SinkStepKeeps DEF ToBeClosed, canChangeFile
    <3>2. ~CloseChange \/ pc[Owner] = "close_change"
      BY DEF CloseChange
    <3> QED
      BY <2>1, <2>2, <3>1, <3>2, NoFileKept DEF EndPlaces
  <2>3. CASE OthersStep
    <3>1. pending' = << >>
      <4>1. ~HandOver /\ \A w \in Writers : ~WriteExtent(w)
        BY <2>1 DEF HandOver, WriteExtent
      <4>2. UNCHANGED pending
        BY <2>3, <4>1 DEF OthersStep, NewCall, OwnerStep, WorkerStep,
           setExtentWriteCallback,
           Flush, Close, Delete, RotaterChanges, FlushWait, FlushLock, FlushReturn,
           CloseCallback,
           CloseChange, CloseRetry, CloseEnd, AfterClose, StopWorker, JoinWorker,
           waitForCanChange, WorkerRun, Nullify, CreateSink, SwapSinks, HandOverEnd,
           FinishChange, WriteReturn, vars, dataVars
      <4> QED
        BY <2>1, <4>2
    <3>2. CASE CloseChange
      <4>1. pc'[Owner] = CloseNext
        BY <1>3, <3>2 DEF CloseChange
      <4>2. canChangeFile => ToBeClosed'
        <5>1. canChangeFile => worker \in {"running", "waiting"}
          BY <1>3 DEF canChangeFile, ChangeInv, StopInv, WorkerPlaces
        <5> QED
          BY <3>2, <5>1 DEF CloseChange, changeFile, SetNewFilename, WorkerWoken,
             ToBeClosed
      <4> QED
        BY <3>1, <4>1, <4>2 DEF CloseNext, EndPlaces
    <3>3. CASE CloseEnd
      <4>1. /\ UNCHANGED <<current_sink, new_filename, worker>>
            /\ ToBeClosed \/ NoFile
            /\ pc'[Owner] = IF new_filename = "none" THEN "stop" ELSE "end_wait"
        BY <1>3, <2>1, <3>3 DEF CloseEnd, waitForCanChange, EndPlaces, workerVars,
           changeVars
      <4> QED
        BY <3>1, <4>1 DEF ToBeClosed, NoFile, EndPlaces
    <3>4. CASE ~(CloseChange \/ CloseEnd)
      <4>1. /\ pc'[Owner] \in EndPlaces => pc[Owner] \in EndPlaces
            /\ pc'[Owner] \in {"stop", "join", "deleted"} => pc[Owner] \in {"stop", "join", "deleted"}
        <5>1. CASE CloseCallback
          BY <1>3, <5>1 DEF CloseCallback, EndPlaces
        <5>2. CASE ~CloseCallback
          BY <1>1, <2>1, <2>3, <3>4, <5>2, OwnerStays DEF ClosedPlaces, EndPlaces,
             DoneInv
        <5> QED
          BY <5>1, <5>2
      <4>2. ToBeClosed /\ pc[Owner] \in EndPlaces => ToBeClosed' \/ NoFile'
        <5>1. Nullify /\ ToBeClosed => NoFile'
          BY DEF Nullify, NoFile, ToBeClosed, changeVars
        <5> QED
          BY <2>3, <5>1, ToBeClosedKept
      <4> QED
        BY <2>1, <2>3, <3>1, <3>4, <4>1, <4>2, NoFileKept
    <3> QED
      BY <3>2, <3>3, <3>4
  <2> QED
    BY <2>2, <2>3, StepCases
<1> QED
  BY <1>4, <1>5

LEMMA DeleteNext ==
  FailureOk /\ TypeInv /\ StopInv /\ DeleteInv /\ [Next]_vars => DeleteInv'
BY DestroyNext, NotAborted DEF DeleteInv

----------------------------------------------------------------------------
\* Nothing is kept back

LEMMA KeptBackNext == TypeInv /\ NothingKeptBack /\ [Next]_vars => NothingKeptBack'
<1> SUFFICES ASSUME TypeInv, NothingKeptBack, [Next]_vars PROVE NothingKeptBack'
  OBVIOUS
<1> USE DEF NothingKeptBack, dataVars
<1>1. /\ MutexInv
      /\ mutex = Worker <=> worker = "hand_over"
      /\ Worker \notin Writers /\ Worker # Owner /\ Worker # Nobody
  BY RotatingAssumption DEF TypeInv, MutexInv, Clients
<1>2. CASE NewCall
  BY <1>1, <1>2 DEF NewCall, setExtentWriteCallback, Flush, Close, Delete,
     RotaterChanges, WriteExtent
<1>3. CASE OwnerStep
  BY <1>1, <1>3 DEF OwnerStep, FlushWait, FlushLock, FlushReturn, CloseCallback,
     CloseChange,
     CloseRetry, CloseEnd, AfterClose, StopWorker, JoinWorker, waitForCanChange,
     MutexInv
<1>4. CASE WorkerStep
  BY <1>1, <1>4 DEF WorkerStep, WorkerRun, Nullify, CreateSink, SwapSinks, HandOver,
     HandOverEnd,
     FinishChange, HandedOver
<1>5. CASE \E w \in Writers : WriteReturn(w)
  BY <1>1, <1>5 DEF WriteReturn, MutexInv
<1>6. CASE \E f \in Sinks : SinkStep(f)
  <2>1. UNCHANGED <<mutex, pending, current_sink>>
    BY <1>6 DEF SinkStep, TakeBatch, CallCallback, WriteOne, CallbackChecks,
       CallbackChanges
  <2> QED
    BY <2>1
<1>7. CASE UNCHANGED vars
  BY <1>7 DEF vars
<1> QED
  BY <1>2, <1>3, <1>4, <1>5, <1>6, <1>7, StepCases DEF OthersStep

LEMMA SinksComplete == TypeInv => ReplacedSinksAreComplete
<1> SUFFICES ASSUME TypeInv, NEW f \in 1..new_sink, f \notin {current_sink, old_sink}
             PROVE  Quiet(f) /\ sink[f].place = "none"
  BY DEF ReplacedSinksAreComplete
<1>1. f \in Sinks
  BY Plain DEF TypeInv, Sinks
<1> QED
  BY <1>1 DEF TypeInv, SinkInv, Quiet

\* With a file to write to nothing is kept back, and a sink that has been replaced
\* has written all it was given and calls no callback: at most two files are open.
THEOREM FilesAreComplete == Spec => [](NothingKeptBack /\ ReplacedSinksAreComplete)
<1>1. Init => NothingKeptBack
  BY DEF Init, NothingKeptBack
<1> QED
  BY <1>1, TypeCorrect, KeptBackNext, SinksComplete, PTL DEF Spec

----------------------------------------------------------------------------
\* CallbacksStop

LEMMA InitCalls == Init => StopInv /\ CallbackInv /\ DeleteInv
<1> SUFFICES ASSUME Init PROVE StopInv /\ CallbackInv /\ DeleteInv
  OBVIOUS
<1>1. /\ pc[Owner] = "idle" /\ pc[Rotater] = "idle" /\ \A w \in Writers : pc[w] = "idle"
      /\ current_sink = NoSink /\ callback = 0 /\ worker = "running" /\ worker_continue = TRUE
      /\ new_filename = "none" /\ aborted = FALSE /\ fence = 0
      /\ \A f \in Sinks : sink[f].batch = << >>
  BY DEF Init, Clients, EmptySink
<1>2. StopInv
  BY <1>1 DEF StopInv
<1>3. CallbackInv
  BY <1>1 DEF CallbackInv, FenceInv, ClosingInv, CloseStopsCallbacks, ClosePlaces,
     EndPlaces, ClosedPlaces
<1>4. DeleteInv
  <2>1. ~aborted
    BY <1>1
  <2> QED
    BY <1>1, <2>1 DEF DeleteInv, DestroyInv, DoneInv
<1> QED
  BY <1>2, <1>3, <1>4

\* Only a sink that is being replaced can still run a callback from before the
\* last flush.
LEMMA OldCallbacks == TypeInv /\ FenceInv => OnlyOldSinksCallBack
<1> SUFFICES ASSUME TypeInv, FenceInv, NEW f \in Sinks, sink[f].place # "none",
                    sink[f].ewc < fence
             PROVE  f = old_sink
  BY DEF OnlyOldSinksCallBack
<1>1. sink[f].batch # << >> /\ sink[f].ewc # 0 /\ sink[f].ewc \in Nat /\ fence \in Nat
  BY SinkTyped DEF TypeInv, TypeOK, SinksTyped, SinkInv
<1> QED
  BY <1>1 DEF FenceInv

LEMMA CallsInvariant == Spec => [](TypeInv /\ StopInv /\ CallbackInv)
<1>1. TypeInv /\ StopInv /\ CallbackInv /\ [Next]_vars => (TypeInv /\ StopInv /\ CallbackInv)'
  BY TypeNext, StopNext, FenceNext, ClosingNext DEF CallbackInv
<1> QED
  BY <1>1, InitType, InitCalls, PTL DEF Spec

\* After close() no callback is called, whoever else changes the file meanwhile,
\* and after a flush only the sink that is being replaced calls an older one.
THEOREM CloseIsFinal == Spec => [](CloseStopsCallbacks /\ OnlyOldSinksCallBack)
<1>1. TypeInv /\ StopInv /\ CallbackInv => CloseStopsCallbacks /\ OnlyOldSinksCallBack
  BY OldCallbacks DEF CallbackInv, ClosingInv
<1> QED
  BY <1>1, CallsInvariant, PTL

\* The same, and no assertion fails, when the callbacks let changeFile fail.
THEOREM CallbacksDoStop ==
  ASSUME FailureOk
  PROVE  Spec => []CallbacksStop
<1>1. TypeInv /\ StopInv /\ DeleteInv /\ [Next]_vars => (TypeInv /\ StopInv /\ DeleteInv)'
  BY TypeNext, StopNext, DeleteNext
<1>2. Spec => [](TypeInv /\ StopInv /\ DeleteInv)
  BY <1>1, InitType, InitCalls, PTL DEF Spec
<1>3. DeleteInv => NoFatalError
  BY DEF DeleteInv, NoFatalError
<1>4. NoFatalError /\ CloseStopsCallbacks /\ OnlyOldSinksCallBack => CallbacksStop
  BY DEF CallbacksStop
<1> QED
  BY <1>2, <1>3, <1>4, CloseIsFinal, PTL

----------------------------------------------------------------------------
\* ExtentsInOrder

\* The current sink is the last one there is, or the last but the one that is
\* about to replace it.
CurrentInv ==
  current_sink # NoSink =>
    IF worker = "swap" THEN current_sink = new_sink - 1 ELSE current_sink = new_sink

Contents == [f \in Sinks |-> Content(f)]

OrderInv == InOrder /\ CurrentInv /\ NothingKeptBack

\* Splitting a queue, or moving the first extent of a batch to the file, leaves the
\* sequence as it is; an extent that is queued comes at its end.
LEMMA BatchTaken ==
  ASSUME NEW S, NEW d \in Seq(S), NEW q \in Seq(S), NEW n \in 1..Len(q)
  PROVE  (d \o SubSeq(q, 1, n)) \o SubSeq(q, n + 1, Len(q)) = (d \o << >>) \o q
<1> DEFINE x == SubSeq(q, 1, n)
           y == SubSeq(q, n + 1, Len(q))
<1>1. x \in Seq(S) /\ y \in Seq(S)
  OBVIOUS
<1>2. x \o y = q
  <2>1. Len(x) = n /\ Len(y) = Len(q) - n /\ Len(q) \in Nat /\ n \in Nat
    OBVIOUS
  <2>2. x \o y \in Seq(S) /\ Len(x \o y) = Len(x) + Len(y)
    <3> HIDE DEF x, y
    <3> QED
      BY <1>1
  <2>3. \A i \in 1..Len(q) : (x \o y)[i] = q[i]
    OBVIOUS
  <2> HIDE DEF x, y
  <2>4. Len(x \o y) = Len(q)
    BY <2>1, <2>2
  <2> QED
    BY <2>2, <2>3, <2>4, SeqEqual
<1>3. d \o << >> = d
  OBVIOUS
<1> HIDE DEF x, y
<1>4. (d \o x) \o y = d \o (x \o y)
  BY <1>1
<1> QED
  BY <1>2, <1>3, <1>4 DEF x, y

LEMMA FirstWritten ==
  ASSUME NEW S, NEW d \in Seq(S), NEW b \in Seq(S), NEW q \in Seq(S), b # << >>
  PROVE  (Append(d, Head(b)) \o Tail(b)) \o q = (d \o b) \o q
<1>1. Append(d, Head(b)) \o Tail(b) = d \o b
  <2>1. Head(b) \in S /\ Tail(b) \in Seq(S) /\ Len(Tail(b)) = Len(b) - 1
    OBVIOUS
  <2>2. Append(d, Head(b)) \in Seq(S) /\ Len(Append(d, Head(b))) = Len(d) + 1
    BY <2>1
  <2>3. /\ Append(d, Head(b)) \o Tail(b) \in Seq(S) /\ d \o b \in Seq(S)
        /\ Len(Append(d, Head(b)) \o Tail(b)) = Len(d) + Len(b)
        /\ Len(d \o b) = Len(d) + Len(b)
    BY <2>1, <2>2
  <2>4. \A i \in 1..(Len(d) + Len(b)) : (Append(d, Head(b)) \o Tail(b))[i] = (d \o b)[i]
    BY <2>1, <2>2
  <2> QED
    BY <2>3, <2>4
<1> QED
  BY <1>1

LEMMA LastQueued ==
  ASSUME NEW S, NEW d \in Seq(S), NEW b \in Seq(S), NEW q \in Seq(S), NEW e \in S
  PROVE  (d \o b) \o Append(q, e) = ((d \o b) \o q) \o <<e>>
<1> DEFINE x == d \o b
           y == <<e>>
<1>1. x \in Seq(S) /\ y \in Seq(S) /\ Append(q, e) = q \o y
  OBVIOUS
<1> HIDE DEF x, y
<1>2. x \o (q \o y) = (x \o q) \o y
  BY <1>1
<1> QED
  BY <1>1, <1>2 DEF x, y

LEMMA ContentTyped ==
  ASSUME TypeOK, NEW f \in Sinks
  PROVE  /\ Content(f) \in Seq(Extents)
         /\ sink[f].queue \in Seq(Extents) /\ sink[f].batch \in Seq(Extents)
         /\ sink[f].disk \in Seq(Extents)
<1>1. /\ sink[f].queue \in Seq(Extents) /\ sink[f].batch \in Seq(Extents)
      /\ sink[f].disk \in Seq(Extents)
  BY SinkTyped
<1>2. sink[f].disk \o sink[f].batch \in Seq(Extents)
  BY <1>1
<1> QED
  BY <1>1, <1>2 DEF Content

ContentsOk == /\ Contents \in Seq(Seq(Extents)) /\ Len(Contents) = MaxFiles
              /\ FlattenSeq(Contents) \in Seq(Extents)
              /\ pending \in Seq(Extents) /\ accepted \in Seq(Extents)

LEMMA ContentsTyped == TypeOK => ContentsOk
<1> SUFFICES ASSUME TypeOK PROVE ContentsOk
  OBVIOUS
<1>1. MaxFiles \in Nat /\ \A f \in 1..MaxFiles : Content(f) \in Seq(Extents)
  BY ContentTyped, RotatingAssumption DEF Sinks
<1>2. Contents \in Seq(Seq(Extents)) /\ Len(Contents) = MaxFiles
  BY <1>1 DEF Contents, Sinks
<1> QED
  BY <1>2, FlattenType DEF TypeOK, SinksTyped, ContentsOk

\* No sink has got or lost an extent.
LEMMA SameOrder ==
  ASSUME InOrder, \A f \in Sinks : Content(f)' = Content(f), UNCHANGED <<pending, accepted>>
  PROVE  InOrder'
<1>1. Contents' = Contents
  BY DEF Contents
<1> QED
  BY <1>1 DEF InOrder, Contents

LEMMA SinkStepOrder ==
  ASSUME TypeInv, InOrder, NEW f \in Sinks, SinkStep(f)
  PROVE  InOrder'
<1>1. /\ TypeOK /\ sink \in [Sinks -> SinkType(version)]
      /\ sink[f] \in SinkType(version) /\ sink[f].queue \in Seq(Extents)
      /\ sink[f].batch \in Seq(Extents) /\ sink[f].disk \in Seq(Extents)
  BY SinkTyped DEF TypeInv
<1>2. UNCHANGED <<pending, accepted>>
  BY DEF SinkStep, TakeBatch, CallCallback, WriteOne, CallbackChecks, CallbackChanges, dataVars
<1>3. \A g \in Sinks \ {f} : Content(g)' = Content(g)
  BY SinkStepKeeps DEF Content
<1>4. Content(f)' = Content(f)
  <2>1. CASE TakeBatch(f)
    <3>1. PICK n \in 1..Len(sink[f].queue) :
            sink' = [sink EXCEPT ![f].batch = SubSeq(sink[f].queue, 1, n),
                                 ![f].queue = SubSeq(@, n + 1, Len(@)),
                                 ![f].ewc = sink[f].callback]
      BY <2>1 DEF TakeBatch
    <3>2. /\ sink'[f].batch = SubSeq(sink[f].queue, 1, n)
          /\ sink'[f].queue = SubSeq(sink[f].queue, n + 1, Len(sink[f].queue))
          /\ sink'[f].disk = sink[f].disk /\ sink[f].batch = << >>
      BY <1>1, <2>1, <3>1 DEF SinkType, TakeBatch
    <3> QED
      BY <1>1, <3>2, BatchTaken DEF Content
  <2>2. CASE WriteOne(f)
    <3>1. /\ sink'[f].disk = Append(sink[f].disk, Head(sink[f].batch))
          /\ sink'[f].batch = Tail(sink[f].batch)
          /\ sink'[f].queue = sink[f].queue /\ sink[f].batch # << >>
      BY <1>1, <2>2 DEF WriteOne, SinkType
    <3>2. (Append(sink[f].disk, Head(sink[f].batch)) \o Tail(sink[f].batch)) \o sink[f].queue
            = (sink[f].disk \o sink[f].batch) \o sink[f].queue
      <4> DEFINE d == sink[f].disk
                 b == sink[f].batch
                 q == sink[f].queue
      <4>1. d \in Seq(Extents) /\ b \in Seq(Extents) /\ q \in Seq(Extents) /\ b # << >>
        BY <1>1, <3>1
      <4> HIDE DEF d, b, q
      <4>2. (Append(d, Head(b)) \o Tail(b)) \o q = (d \o b) \o q
        BY <4>1, FirstWritten
      <4> QED
        BY <4>2 DEF d, b, q
    <3> QED
      BY <3>1, <3>2 DEF Content
  <2>3. CASE CallCallback(f) \/ CallbackChecks(f) \/ CallbackChanges(f)
    <3>1. /\ sink'[f].disk = sink[f].disk /\ sink'[f].batch = sink[f].batch
          /\ sink'[f].queue = sink[f].queue
      BY <1>1, <2>3 DEF CallCallback, CallbackChecks, CallbackChanges, SinkType
    <3> QED
      BY <3>1 DEF Content
  <2> QED
    BY <2>1, <2>2, <2>3 DEF SinkStep
<1> QED
  BY <1>2, <1>3, <1>4, SameOrder

\* The current sink takes an extent: it is the last that has any.
LEMMA QueuedOrder ==
  ASSUME TypeInv, TypeOK', CurrentInv, current_sink # NoSink,
         NEW e \in Extents, NEW c, c = current_sink,
         sink' = [sink EXCEPT ![current_sink].queue = Append(@, e)]
  PROVE  FlattenSeq(Contents)' = FlattenSeq(Contents) \o <<e>>
<1>1. /\ TypeOK /\ SinkInv /\ c \in Sinks /\ new_sink \in Nat /\ MaxFiles \in Nat
      /\ IF worker = "swap" THEN c = new_sink - 1 ELSE c = new_sink
  BY Plain, RotatingAssumption DEF TypeInv, CurrentInv
<1>2. /\ sink \in [Sinks -> SinkType(version)] /\ sink[c] \in SinkType(version)
      /\ \A g \in Sinks \ {c} : sink'[g] = sink[g]
  BY <1>1, SinkTyped
<1>3. Content(c)' = Content(c) \o <<e>>
  <2>4. sink'[c] = [sink[c] EXCEPT !.queue = Append(sink[c].queue, e)]
    BY <1>1, <1>2
  <2>1. /\ sink'[c].queue = Append(sink[c].queue, e)
        /\ sink'[c].disk = sink[c].disk /\ sink'[c].batch = sink[c].batch
    BY <1>2, <2>4 DEF SinkType
  <2>2. /\ sink[c].queue \in Seq(Extents) /\ sink[c].batch \in Seq(Extents)
        /\ sink[c].disk \in Seq(Extents)
    BY <1>1, SinkTyped
  <2>3. Content(c)' = (sink[c].disk \o sink[c].batch) \o Append(sink[c].queue, e)
    BY <2>1 DEF Content
  <2>5. (sink[c].disk \o sink[c].batch) \o Append(sink[c].queue, e)
          = ((sink[c].disk \o sink[c].batch) \o sink[c].queue) \o <<e>>
    <3> DEFINE d == sink[c].disk
               b == sink[c].batch
               q == sink[c].queue
    <3>1. d \in Seq(Extents) /\ b \in Seq(Extents) /\ q \in Seq(Extents)
      BY <2>2
    <3> HIDE DEF d, b, q
    <3>2. (d \o b) \o Append(q, e) = ((d \o b) \o q) \o <<e>>
      BY <3>1, LastQueued
    <3> QED
      BY <3>2 DEF d, b, q
  <2> QED
    BY <2>3, <2>5 DEF Content
<1>4. \A g \in Sinks \ {c} : Content(g)' = Content(g)
  BY <1>2 DEF Content
<1>5. \A g \in Sinks : g > c => Content(g) = << >>
  <2> SUFFICES ASSUME NEW g \in Sinks, g > c PROVE Content(g) = << >>
    OBVIOUS
  <2>1. g > new_sink \/ (g = new_sink /\ worker = "swap")
    BY <1>1 DEF Sinks
  <2>2. sink[g] = EmptySink
    BY <1>1, <2>1 DEF SinkInv
  <2> QED
    BY <2>2 DEF EmptySink, Content
<1>6. /\ Contents \in Seq(Seq(Extents)) /\ Len(Contents) = MaxFiles
      /\ Contents' \in Seq(Seq(Extents)) /\ Len(Contents') = MaxFiles
  <2>1. ContentsOk /\ ContentsOk'
    BY <1>1, ContentsTyped, PTL
  <2> QED
    BY <2>1, <1>1, RotatingAssumption DEF ContentsOk
<1>7. Extends(Contents', Contents, c, <<e>>)
  <2>1. c \in 1..MaxFiles /\ Sinks = 1..MaxFiles
    BY <1>1 DEF Sinks
  <2>2. \A g \in 1..MaxFiles : Contents[g] = Content(g) /\ Contents'[g] = Content(g)'
    BY <2>1 DEF Contents
  <2>3. Contents'[c] = Contents[c] \o <<e>>
    BY <1>3, <2>1, <2>2
  <2>4. \A j \in 1..(c - 1) : Contents'[j] = Contents[j]
    <3> SUFFICES ASSUME NEW j \in 1..(c - 1) PROVE Contents'[j] = Contents[j]
      OBVIOUS
    <3>1. j \in 1..MaxFiles /\ j # c
      BY <1>1, <2>1
    <3> QED
      BY <1>4, <2>1, <2>2, <3>1
  <2>5. \A j \in (c + 1)..MaxFiles : Contents[j] = << >> /\ Contents'[j] = << >>
    <3> SUFFICES ASSUME NEW j \in (c + 1)..MaxFiles
                 PROVE  Contents[j] = << >> /\ Contents'[j] = << >>
      OBVIOUS
    <3>1. j \in 1..MaxFiles /\ j # c /\ j > c
      BY <1>1, <2>1
    <3> QED
      BY <1>4, <1>5, <2>1, <2>2, <3>1
  <2> QED
    BY <1>6, <2>1, <2>3, <2>4, <2>5, Zenon DEF Extends
<1>8. <<e>> \in Seq(Extents)
  OBVIOUS
<1>9. FlattenSeq(Contents') = FlattenSeq(Contents) \o <<e>>
  BY <1>6, <1>7, <1>8, FlattenExtend
<1> QED
  BY <1>9

LEMMA CurrentNext == TypeInv /\ CurrentInv /\ [Next]_vars => CurrentInv'
<1> SUFFICES ASSUME TypeInv, CurrentInv, [Next]_vars PROVE CurrentInv'
  OBVIOUS
<1> USE DEF CurrentInv, workerVars
<1>1. /\ current_sink \in Nat /\ new_sink \in Nat /\ ChangeInv
      /\ worker \in WorkerPlaces /\ worker_continue \in BOOLEAN
      /\ new_filename \in {"none", "file", "closed"}
  BY Plain DEF TypeInv
<1>2. WorkerWoken = worker \/ (worker = "waiting" /\ WorkerWoken = "running")
  BY DEF WorkerWoken
<1>3. CASE \E f \in Sinks : SinkStep(f)
  <2>1. UNCHANGED <<current_sink, new_sink>> /\ (worker' = worker \/ worker' = WorkerWoken)
    BY <1>3, SinkStepKeeps
  <2> QED
    BY <1>2, <2>1
<1>4. CASE NewCall
  BY <1>2, <1>4 DEF NewCall, setExtentWriteCallback, Flush, Close, Delete, RotaterChanges,
     SetNewFilename, WriteExtent
<1>5. CASE OwnerStep
  BY <1>2, <1>5 DEF OwnerStep, FlushWait, FlushLock, FlushReturn, CloseCallback,
     CloseChange, changeFile, SetNewFilename, CloseRetry, CloseEnd, AfterClose,
     StopWorker, JoinWorker, waitForCanChange
<1>6. CASE WorkerStep
  <2>1. CASE WorkerRun
    <3>1. worker' \in {"exited", "waiting", "nullify", "create"} /\ worker = "running"
      BY <1>1, <2>1 DEF WorkerRun
    <3> QED
      BY <2>1, <3>1 DEF WorkerRun
  <2>2. CASE Nullify \/ SwapSinks
    BY <2>2 DEF Nullify, SwapSinks
  <2>3. CASE CreateSink
    BY <1>1, <2>3 DEF CreateSink
  <2>4. CASE HandOver \/ HandOverEnd \/ FinishChange
    BY <1>1, <2>4 DEF HandOver, HandOverEnd, FinishChange
  <2> QED
    BY <1>6, <2>1, <2>2, <2>3, <2>4 DEF WorkerStep
<1>7. CASE (\E w \in Writers : WriteReturn(w)) \/ UNCHANGED vars
  BY <1>7 DEF WriteReturn, vars
<1> QED
  BY <1>3, <1>4, <1>5, <1>6, <1>7, StepCases DEF OthersStep

\* What is to be written is handed on in order.
LEMMA HeadMoves ==
  ASSUME NEW S, NEW x \in Seq(S), NEW p \in Seq(S), p # << >>
  PROVE  (x \o <<Head(p)>>) \o Tail(p) = x \o p
<1> DEFINE h == <<Head(p)>>
           t == Tail(p)
<1>1. h \in Seq(S) /\ t \in Seq(S)
  OBVIOUS
<1>2. h \o t = p
  OBVIOUS
<1> HIDE DEF h, t
<1>3. (x \o h) \o t = x \o (h \o t)
  BY <1>1
<1> QED
  BY <1>2, <1>3 DEF h, t

LEMMA WriteExtentOrder ==
  ASSUME TypeInv, TypeOK', OrderInv, NEW w \in Writers, WriteExtent(w)
  PROVE  InOrder'
<1> DEFINE e == <<w, written[w] + 1>>
<1>1. /\ ContentsOk /\ TypeOK /\ MutexInv /\ mutex = Nobody /\ accepted' = Append(accepted, e)
      /\ InOrder /\ CurrentInv /\ NothingKeptBack /\ UNCHANGED <<current_sink, worker>>
  BY ContentsTyped DEF TypeInv, OrderInv, WriteExtent, workerVars
<1>2. e \in Extents
  BY <1>1, RotatingAssumption DEF TypeOK, CallsTyped, WriteExtent, Extents
<1>3. accepted' = accepted \o <<e>>
  <2> HIDE DEF e
  <2>1. accepted \in Seq(Extents)
    BY <1>1 DEF ContentsOk
  <2> QED
    BY <1>1, <1>2, <2>1
<1>4. CASE current_sink # NoSink
  <2>1. /\ sink' = [sink EXCEPT ![current_sink].queue = Append(@, e)]
        /\ pending' = pending
    BY <1>4 DEF WriteExtent
  <2>2. pending = << >>
    BY <1>1, <1>4, RotatingAssumption DEF NothingKeptBack, Clients
  <2>3. PICK c : c = current_sink
    OBVIOUS
  <2>4. FlattenSeq(Contents)' = FlattenSeq(Contents) \o <<e>>
    <3> HIDE DEF e
    <3> QED
      BY <1>1, <1>2, <1>4, <2>1, <2>3, QueuedOrder
  <2>5. accepted = FlattenSeq(Contents) \o pending
    BY <1>1 DEF InOrder, Contents
  <2>6. FlattenSeq(Contents) \in Seq(Extents) /\ <<e>> \in Seq(Extents)
    BY <1>1, <1>2 DEF ContentsOk
  <2>7. FlattenSeq(Contents)' \o pending' = accepted'
    <3> DEFINE x == FlattenSeq(Contents)
    <3> HIDE DEF e
    <3>1. x \in Seq(Extents) /\ <<e>> \in Seq(Extents) /\ accepted = x \o << >>
          /\ x' = x \o <<e>> /\ pending' = << >>
      BY <2>1, <2>2, <2>4, <2>5, <2>6
    <3> HIDE DEF x
    <3>2. accepted = x /\ x \o <<e>> \in Seq(Extents)
      BY <3>1
    <3>3. (x \o <<e>>) \o << >> = x \o <<e>>
      BY <3>2
    <3> QED
      BY <1>3, <3>1, <3>2, <3>3 DEF x
  <2> QED
    BY <2>7 DEF InOrder, Contents
<1>5. CASE current_sink = NoSink
  <2>1. /\ pending' = Append(pending, e) /\ UNCHANGED sink
    BY <1>5 DEF WriteExtent
  <2>2. FlattenSeq(Contents)' = FlattenSeq(Contents)
    BY <2>1 DEF Contents, Content
  <2>3. accepted = FlattenSeq(Contents) \o pending
    BY <1>1 DEF InOrder, Contents
  <2>4. FlattenSeq(Contents) \o Append(pending, e) = Append(FlattenSeq(Contents) \o pending, e)
    <3> DEFINE x == FlattenSeq(Contents)
    <3>1. x \in Seq(Extents) /\ pending \in Seq(Extents)
      BY <1>1 DEF ContentsOk
    <3> HIDE DEF e, x
    <3>2. x \o Append(pending, e) = Append(x \o pending, e)
      BY <1>2, <3>1
    <3> QED
      BY <3>2 DEF x
  <2> QED
    BY <1>1, <2>1, <2>2, <2>3, <2>4 DEF InOrder, Contents
<1> QED
  BY <1>4, <1>5

LEMMA HandOverOrder ==
  ASSUME TypeInv, TypeOK', OrderInv, HandOver
  PROVE  InOrder'
<1> DEFINE e == Head(pending)
<1>1. /\ ContentsOk /\ TypeOK /\ ChangeInv /\ worker = "hand_over"
      /\ InOrder /\ CurrentInv /\ pending # << >> /\ accepted' = accepted
      /\ pending' = Tail(pending)
      /\ sink' = [sink EXCEPT ![current_sink].queue = Append(@, Head(pending))]
      /\ UNCHANGED <<current_sink, worker>>
  BY ContentsTyped DEF TypeInv, OrderInv, HandOver, workerVars
<1>2. e \in Extents /\ current_sink # NoSink
  BY <1>1 DEF ContentsOk, ChangeInv
<1>3. PICK c : c = current_sink
  OBVIOUS
<1>4. FlattenSeq(Contents)' = FlattenSeq(Contents) \o <<e>>
  <2>1. sink' = [sink EXCEPT ![current_sink].queue = Append(@, e)]
    BY <1>1
  <2> HIDE DEF e
  <2> QED
    BY <1>1, <1>2, <1>3, <2>1, QueuedOrder
<1>5. (FlattenSeq(Contents) \o <<e>>) \o Tail(pending) = FlattenSeq(Contents) \o pending
  <2> DEFINE x == FlattenSeq(Contents)
  <2>1. x \in Seq(Extents) /\ pending \in Seq(Extents)
    BY <1>1 DEF ContentsOk
  <2> HIDE DEF x
  <2>2. (x \o <<Head(pending)>>) \o Tail(pending) = x \o pending
    BY <1>1, <2>1, HeadMoves
  <2> QED
    BY <2>2 DEF x
<1>6. FlattenSeq(Contents)' \o pending' = accepted'
  BY <1>1, <1>4, <1>5 DEF InOrder, Contents
<1> QED
  BY <1>6 DEF InOrder, Contents

\* The other steps change at most the callback of a sink.
LEMMA OthersOrder ==
  ASSUME TypeInv, InOrder, OthersStep, ~HandOver, \A w \in Writers : ~WriteExtent(w)
  PROVE  InOrder'
<1>1. UNCHANGED <<pending, accepted>>
  BY DEF OthersStep, NewCall, OwnerStep, WorkerStep, setExtentWriteCallback, Flush, Close,
     Delete, RotaterChanges, FlushWait, FlushLock, FlushReturn, CloseCallback,
     CloseChange, CloseRetry, CloseEnd, AfterClose, StopWorker, JoinWorker,
     waitForCanChange, WorkerRun, Nullify, CreateSink, SwapSinks, HandOverEnd,
     FinishChange, WriteReturn, vars, dataVars
<1>2. \/ UNCHANGED sink
      \/ \E g, v : sink' = [sink EXCEPT ![g].callback = v]
  <2>1. CASE setExtentWriteCallback \/ CloseCallback
    BY <2>1 DEF setExtentWriteCallback, CloseCallback, SetCallback
  <2>2. CASE SwapSinks
    BY <2>2 DEF SwapSinks, SwappedCallback
  <2>3. CASE ~(setExtentWriteCallback \/ CloseCallback \/ SwapSinks)
    BY <2>3 DEF OthersStep, NewCall, OwnerStep, WorkerStep, Flush, Close,
       Delete, RotaterChanges, FlushWait, FlushLock, FlushReturn,
       CloseChange, CloseRetry, CloseEnd, AfterClose, StopWorker, JoinWorker,
       waitForCanChange, WorkerRun, Nullify, CreateSink, HandOverEnd,
       FinishChange, WriteReturn, vars
  <2> QED
    BY <2>1, <2>2, <2>3
<1>3. ASSUME NEW f \in Sinks PROVE Content(f)' = Content(f)
  <2>1. sink \in [Sinks -> SinkType(version)] /\ sink[f] \in SinkType(version)
    BY SinkTyped DEF TypeInv
  <2>2. ASSUME NEW g, NEW v, sink' = [sink EXCEPT ![g].callback = v]
        PROVE  sink'[f].disk = sink[f].disk /\ sink'[f].batch = sink[f].batch
               /\ sink'[f].queue = sink[f].queue
    <3>1. sink'[f] = IF f = g THEN [sink[f] EXCEPT !.callback = v] ELSE sink[f]
      BY <2>1, <2>2
    <3> QED
      BY <2>1, <3>1 DEF SinkType
  <2>3. sink'[f].disk = sink[f].disk /\ sink'[f].batch = sink[f].batch
        /\ sink'[f].queue = sink[f].queue
    BY <1>2, <2>2
  <2> QED
    BY <2>3 DEF Content
<1> QED
  BY <1>1, <1>3, SameOrder

LEMMA OrderNext == TypeInv /\ OrderInv /\ [Next]_vars => OrderInv'
<1> SUFFICES ASSUME TypeInv, OrderInv, [Next]_vars PROVE OrderInv'
  OBVIOUS
<1>1. /\ InOrder /\ CurrentInv /\ NothingKeptBack /\ TypeOK'
  BY TypeNext DEF OrderInv, TypeInv
<1>2. CurrentInv' /\ NothingKeptBack'
  BY <1>1, CurrentNext, KeptBackNext
<1>3. InOrder'
  <2>1. CASE \E w \in Writers : WriteExtent(w)
    BY <1>1, <2>1, WriteExtentOrder
  <2>2. CASE HandOver
    BY <1>1, <2>2, HandOverOrder
  <2>3. CASE \E f \in Sinks : SinkStep(f)
    BY <1>1, <2>3, SinkStepOrder
  <2> QED
    BY <1>1, <2>1, <2>2, <2>3, OthersOrder, StepCases
<1> QED
  BY <1>2, <1>3 DEF OrderInv

LEMMA InitOrder == Init => OrderInv
<1> SUFFICES ASSUME Init PROVE OrderInv
  OBVIOUS
<1>1. CurrentInv /\ NothingKeptBack
  BY DEF Init, CurrentInv, NothingKeptBack
<1>3. Contents \in Seq(Seq({}))
  <2>1. Contents = [f \in 1..MaxFiles |-> << >>]
    BY DEF Init, Contents, Content, EmptySink, Sinks
  <2>2. << >> \in Seq({}) /\ MaxFiles \in Nat
    BY RotatingAssumption
  <2> QED
    BY <2>1, <2>2
<1>4. FlattenSeq(Contents) = << >>
  <2>1. FlattenSeq(Contents) \in Seq({})
    BY <1>3, FlattenType
  <2> QED
    BY <2>1
<1>5. InOrder
  BY <1>4 DEF Init, InOrder, Contents
<1> QED
  BY <1>1, <1>5 DEF OrderInv

\* When the destructor has joined the worker, every sink has written all it has.
LEMMA DeletedWritten ==
  ASSUME TypeInv, DestroyInv, InOrder
  PROVE  DeletedIsWritten
<1> SUFFICES ASSUME pc[Owner] = "deleted"
             PROVE  FlattenSeq([f \in Sinks |-> sink[f].disk]) = accepted
  BY DEF DeletedIsWritten
<1>1. /\ TypeOK /\ ChangeInv /\ SinkInv /\ DoneInv
      /\ pc[Rotater] = "done" /\ pending = << >> /\ current_sink = NoSink
      /\ new_filename = "none"
  BY DEF TypeInv, DestroyInv, DoneInv, NoFile
<1>2. old_sink = NoSink
  BY <1>1 DEF ChangeInv
<1>3. ASSUME NEW f \in Sinks PROVE Content(f) = sink[f].disk
  <2>1. f \in Sinks \ {current_sink, old_sink}
    BY <1>1, <1>2 DEF Sinks, NoSink
  <2>2. sink[f].queue = << >> /\ sink[f].batch = << >>
    BY <1>1, <2>1 DEF SinkInv, Quiet
  <2>3. sink[f].disk \in Seq(Extents)
    BY <1>1, SinkTyped
  <2> QED
    BY <2>2, <2>3 DEF Content
<1>4. [f \in Sinks |-> sink[f].disk] = Contents
  BY <1>3 DEF Contents
<1>5. FlattenSeq(Contents) \in Seq(Extents) /\ FlattenSeq(Contents) \o pending = accepted
  BY <1>1, ContentsTyped DEF ContentsOk, InOrder, Contents
<1> QED
  BY <1>1, <1>4, <1>5

\* Read one after another the files have the extents in the order in which they
\* were written, whatever changes of file the worker makes meanwhile, then come
\* those that are waiting for a file; at most two files are open, and when the
\* destructor returns every extent is on disk.
THEOREM FilesAreInOrder == Spec => []ExtentsInOrder
<1> DEFINE I == TypeInv /\ StopInv /\ DestroyInv /\ OrderInv
<1>1. Init => I
  BY InitType, InitCalls, InitOrder DEF DeleteInv
<1>2. I /\ [Next]_vars => I'
  BY TypeNext, StopNext, DestroyNext, OrderNext
<1>3. I => ExtentsInOrder
  BY SinksComplete, DeletedWritten DEF OrderInv, ExtentsInOrder, TypeInv
<1> QED
  BY <1>1, <1>2, <1>3, PTL DEF Spec
=============================================================================
