-------------------------- MODULE RotatingFileSink --------------------------
(***************************************************************************)
(* RotatingFileSink (src/base/RotatingFileSink.cpp): writers write into the *)
(* current DataSeriesSink while a worker thread opens the next one, swaps   *)
(* it in and closes the old one.  Changes of file are asked for by a        *)
(* thread, by an extent write callback, or by close().                      *)
(*                                                                          *)
(* worker_mutex is only held within an action.  mutex is also held across   *)
(* calls into the current sink, which may block: it has a variable.  Each   *)
(* DataSeriesSink is reduced to what DataSeriesSink.tla establishes of it:  *)
(* a queue written in order, in batches that use one copy of the callback.  *)
(***************************************************************************)
EXTENDS Integers, Sequences, FiniteSets, SequencesExt

CONSTANTS
  Writers,      \* threads that write extents
  Owner,        \* the thread that sets the callback, flushes, closes, deletes
  Rotater,      \* a thread that changes the file now and then
  Worker,       \* the sink's own thread
  Nobody,       \* the mutex is free
  FailureOk,    \* the failure_ok with which callbacks call changeFile
  QueueLimit,   \* extents in the queue of a DataSeriesSink before a write blocks
  MaxFiles,     \* bound: calls of changeFile, other than by close()
  MaxWrites,    \* bound: extents each writer writes
  MaxCalls      \* bound: calls of setExtentWriteCallback, flush and close

Clients == Writers \cup {Owner, Rotater}
Sinks   == 1..MaxFiles          \* DataSeriesSink objects, as they are created
Extents == Writers \X (1..MaxWrites)

ASSUME RotatingAssumption ==
  /\ Owner \notin Writers /\ Rotater \notin Writers /\ Owner # Rotater
  /\ Worker \notin Clients /\ Nobody \notin Clients \cup {Worker}
  /\ FailureOk \in BOOLEAN
  /\ QueueLimit \in Nat \ {0} /\ MaxFiles \in Nat
  /\ MaxWrites \in Nat /\ MaxCalls \in Nat

VARIABLES
  pc,               \* where each client is
  written,          \* extents each writer has written
  calls,            \* calls the owner has made
  mutex,            \* who holds it across actions
  pending, current_sink, callback,
  worker_continue, new_filename,
  worker,           \* where the worker is
  old_sink, new_sink, \* its locals
  \* the DataSeriesSinks
  sink,
  asked,            \* these calls so far
  \* history
  accepted,         \* the extents, in the order in which writeExtent took them
  version,          \* callbacks set so far; they are numbered, 0 is none
  fence,            \* the callback at the end of the last flush
  aborted           \* has an INVARIANT failed, or FATAL_ERROR been called?

clientVars == <<pc, written, calls>>
dataVars   == <<pending, accepted>>
workerVars == <<worker, old_sink, new_sink>>
changeVars == <<worker_continue, new_filename, asked>>
callbackVars == <<callback, version, fence>>
vars == <<clientVars, mutex, dataVars, current_sink, workerVars, changeVars, sink,
          callbackVars, aborted>>

Invariant(P) == aborted' = ~P

----------------------------------------------------------------------------
\* The DataSeriesSinks

NoSink == 0
EmptySink == [queue |-> << >>, batch |-> << >>, disk |-> << >>,
              callback |-> 0,    \* extent_write_callback
              ewc |-> 0,         \* its copy for the batch
              place |-> "none"]  \* where the callback is

\* WorkerInfo::canQueueWork
CanQueue(f) == Len(sink[f].queue) < QueueLimit

Quiet(f) == sink[f].queue = << >> /\ sink[f].batch = << >>

\* The writer of f takes some of the queue and copies the callback.
TakeBatch(f) ==
  /\ sink[f].batch = << >>
  /\ \E n \in 1..Len(sink[f].queue) :
       sink' = [sink EXCEPT ![f].batch = SubSeq(sink[f].queue, 1, n),
                            ![f].queue = SubSeq(@, n + 1, Len(@)),
                            ![f].ewc = sink[f].callback]
  /\ UNCHANGED <<clientVars, mutex, dataVars, current_sink, workerVars, changeVars,
                 callbackVars, aborted>>

CallCallback(f) ==
  /\ sink[f].batch # << >> /\ sink[f].ewc # 0 /\ sink[f].place = "none"
  /\ sink' = [sink EXCEPT ![f].place = "called"]
  /\ UNCHANGED <<clientVars, mutex, dataVars, current_sink, workerVars, changeVars,
                 callbackVars, aborted>>

\* The callback, if there is one, has returned.
WriteOne(f) ==
  /\ sink[f].batch # << >>
  /\ sink[f].ewc = 0 \/ sink[f].place \in {"called", "changed"}
  /\ sink' = [sink EXCEPT ![f].disk = Append(@, Head(sink[f].batch)),
                          ![f].batch = Tail(@), ![f].place = "none"]
  /\ UNCHANGED <<clientVars, mutex, dataVars, current_sink, workerVars, changeVars,
                 callbackVars, aborted>>

----------------------------------------------------------------------------
\* Changing the file.  Definitions with a suffix are mutants of the one that
\* follows (README.md, "Mutants").

\* cond.broadcast(), for the threads in waitForCanChange
Woken(place) == CASE place = "flush_wait" -> "flush"
                  [] place = "retry_wait" -> "retry"
                  [] place = "end_wait"   -> "end"
                  [] OTHER -> place

ClientsWoken_missing == pc

ClientsWoken == [c \in Clients |-> Woken(pc[c])]

WorkerWoken_missing == worker

WorkerWoken == IF worker = "waiting" THEN "running" ELSE worker

canChangeFile == worker_continue /\ new_filename = "none"

\* A successful changeFile
SetNewFilename(name) ==
  /\ canChangeFile
  /\ new_filename' = name
  /\ worker' = WorkerWoken
  /\ UNCHANGED <<worker_continue, old_sink, new_sink>>

changeFile(name, failure_ok) ==
  \/ SetNewFilename(name) /\ UNCHANGED aborted
  \/ /\ ~canChangeFile
     /\ Invariant(failure_ok)
     /\ UNCHANGED <<worker_continue, new_filename, workerVars>>

\* A thread that calls changeFile with failure_ok; refused, it does nothing.
RotaterChanges ==
  /\ pc[Rotater] = "idle" /\ asked < MaxFiles
  /\ \E name \in {"file", "closed"} : SetNewFilename(name)
  /\ asked' = asked + 1
  /\ UNCHANGED <<clientVars, mutex, dataVars, current_sink, sink, callbackVars,
                 aborted>>

\* A callback may do "if (rfs->canChangeFile()) rfs->changeFile(...)".
CallbackChecks(f) ==
  /\ sink[f].place = "called" /\ asked < MaxFiles
  /\ canChangeFile
  /\ sink' = [sink EXCEPT ![f].place = "can_change"]
  /\ UNCHANGED <<clientVars, mutex, dataVars, current_sink, workerVars, changeVars,
                 callbackVars, aborted>>

\* It does not call changeFile when the bound has been reached.
CallbackChanges(f) ==
  /\ sink[f].place = "can_change"
  /\ \/ /\ asked < MaxFiles /\ asked' = asked + 1
        /\ changeFile("file", FailureOk)
     \/ asked = MaxFiles /\ UNCHANGED <<changeVars, workerVars, aborted>>
  /\ sink' = [sink EXCEPT ![f].place = "changed"]
  /\ UNCHANGED <<clientVars, mutex, dataVars, current_sink, callbackVars>>

SinkStep(f) == \/ TakeBatch(f) \/ CallCallback(f) \/ WriteOne(f)
               \/ CallbackChecks(f) \/ CallbackChanges(f)

----------------------------------------------------------------------------
\* writeExtent

WriteExtent(w) ==
  LET e == <<w, written[w] + 1>> IN
  /\ pc[w] = "idle" /\ written[w] < MaxWrites
  /\ mutex = Nobody
  /\ Invariant(worker_continue)
  /\ written' = [written EXCEPT ![w] = @ + 1]
  /\ accepted' = Append(accepted, e)
  /\ \/ /\ current_sink # NoSink
        /\ sink' = [sink EXCEPT ![current_sink].queue = Append(@, e)]
        /\ mutex' = w
        /\ pc' = [pc EXCEPT ![w] = "queue_wait"]
        /\ UNCHANGED pending
     \/ /\ current_sink = NoSink
        /\ pending' = Append(pending, e)
        /\ UNCHANGED <<sink, mutex, pc>>
  /\ UNCHANGED <<calls, current_sink, workerVars, changeVars, callbackVars>>

\* The DataSeriesSink has room, its writeExtent returns.
WriteReturn(w) ==
  /\ pc[w] = "queue_wait" /\ CanQueue(current_sink)
  /\ mutex' = Nobody
  /\ pc' = [pc EXCEPT ![w] = "idle"]
  /\ UNCHANGED <<written, calls, dataVars, current_sink, workerVars, changeVars,
                 sink, callbackVars, aborted>>

----------------------------------------------------------------------------
\* The owner's calls

Call(place) == /\ pc[Owner] = "idle" /\ calls < MaxCalls
               /\ calls' = calls + 1
               /\ pc' = [pc EXCEPT ![Owner] = place]

\* The body of setExtentWriteCallback
SetCallback(v) ==
  /\ mutex = Nobody
  /\ callback' = v
  /\ sink' = IF current_sink = NoSink THEN sink
             ELSE [sink EXCEPT ![current_sink].callback = v]

setExtentWriteCallback ==
  /\ Call("idle")
  /\ SetCallback(version + 1)
  /\ version' = version + 1
  /\ UNCHANGED <<written, mutex, dataVars, current_sink, workerVars, changeVars,
                 fence, aborted>>

\* waitForCanChange, when the owner calls it and when it is woken: it goes on
\* to the place next or sleeps at the place wait.
waitForCanChange(wait, next) ==
  /\ Invariant(worker_continue)
  /\ pc' = [pc EXCEPT ![Owner] = IF new_filename = "none" THEN next ELSE wait]
  /\ UNCHANGED <<written, calls, mutex, dataVars, current_sink, workerVars,
                 changeVars, sink, callbackVars>>

Flush == /\ Call("flush")
         /\ UNCHANGED <<written, mutex, dataVars, current_sink, workerVars,
                        changeVars, sink, callbackVars, aborted>>

FlushWait == pc[Owner] = "flush" /\ waitForCanChange("flush_wait", "flush_lock")

FlushLock ==
  /\ pc[Owner] = "flush_lock" /\ mutex = Nobody
  /\ \/ /\ current_sink = NoSink
        /\ pc' = [pc EXCEPT ![Owner] = "idle"]
        /\ fence' = callback
        /\ UNCHANGED mutex
     \/ /\ current_sink # NoSink
        /\ pc' = [pc EXCEPT ![Owner] = "flush_pending"]
        /\ mutex' = Owner
        /\ UNCHANGED fence
  /\ UNCHANGED <<written, calls, dataVars, current_sink, workerVars, changeVars,
                 sink, callback, version, aborted>>

\* current_sink->flushPending() returns.
FlushReturn ==
  /\ pc[Owner] = "flush_pending" /\ Quiet(current_sink)
  /\ mutex' = Nobody
  /\ fence' = callback
  /\ pc' = [pc EXCEPT ![Owner] = "idle"]
  /\ UNCHANGED <<written, calls, dataVars, current_sink, workerVars, changeVars,
                 sink, callback, version, aborted>>

Close == /\ Call("close")
         /\ UNCHANGED <<written, mutex, dataVars, current_sink, workerVars,
                        changeVars, sink, callbackVars, aborted>>

\* The destructor, which begins with close().  No other thread may be using the
\* object then or later (callbacks may), and there must be no extents without a
\* file ("did you write extents but never call changeFile?").
Delete ==
  /\ \A c \in Clients : pc[c] = "idle"
  /\ pending = << >>
  /\ pc' = [c \in Clients |-> IF c = Owner THEN "delete" ELSE "done"]
  /\ UNCHANGED <<written, calls, mutex, dataVars, current_sink, workerVars,
                 changeVars, sink, callbackVars, aborted>>

\* close() first drops the callback.
CloseCallback ==
  /\ pc[Owner] \in {"close", "delete"}
  /\ SetCallback(0)
  /\ pc' = [pc EXCEPT ![Owner] = "close_change"]
  /\ UNCHANGED <<written, calls, mutex, dataVars, current_sink, workerVars,
                 changeVars, version, fence, aborted>>

CloseNext == IF canChangeFile THEN "end" ELSE "retry"

CloseChange ==
  /\ pc[Owner] = "close_change"
  /\ changeFile("closed", TRUE)
  /\ pc' = [pc EXCEPT ![Owner] = CloseNext]
  /\ UNCHANGED <<written, calls, mutex, dataVars, current_sink, sink, asked,
                 callbackVars>>

CloseRetry == pc[Owner] = "retry" /\ waitForCanChange("retry_wait", "close_change")

CloseEnd == /\ pc[Owner] = "end"
            /\ waitForCanChange("end_wait",
                                IF pc[Rotater] = "done" THEN "stop" ELSE "closed")

\* The owner goes on after close(); extents are still accepted.
AfterClose ==
  /\ pc[Owner] = "closed"
  /\ pc' = [pc EXCEPT ![Owner] = "idle"]
  /\ UNCHANGED <<written, calls, mutex, dataVars, current_sink, workerVars,
                 changeVars, sink, callbackVars, aborted>>

\* The rest of the destructor: stop the worker and join it.
StopWorker ==
  /\ pc[Owner] = "stop"
  /\ worker_continue' = FALSE
  /\ worker' = WorkerWoken
  /\ pc' = [pc EXCEPT ![Owner] = "join"]
  /\ UNCHANGED <<written, calls, mutex, dataVars, current_sink, old_sink, new_sink,
                 new_filename, asked, sink, callbackVars, aborted>>

JoinWorker ==
  /\ pc[Owner] = "join" /\ worker = "exited"
  /\ Invariant(current_sink = NoSink /\ pending = << >>)
  /\ pc' = [pc EXCEPT ![Owner] = "deleted"]
  /\ UNCHANGED <<written, calls, mutex, dataVars, current_sink, workerVars,
                 changeVars, sink, callbackVars>>

----------------------------------------------------------------------------
\* worker

\* The top of its loop, with worker_mutex held
WorkerRun ==
  /\ worker = "running"
  /\ worker' = CASE ~worker_continue -> "exited"
                 [] worker_continue /\ new_filename = "none" -> "waiting"
                 [] worker_continue /\ new_filename = "closed" -> "nullify"
                 [] worker_continue /\ new_filename = "file" -> "create"
  /\ UNCHANGED <<clientVars, mutex, dataVars, current_sink, old_sink, new_sink,
                 changeVars, sink, callbackVars, aborted>>

\* workerNullifyCurrent, up to the delete
Nullify ==
  /\ worker = "nullify" /\ mutex = Nobody
  /\ old_sink' = current_sink
  /\ current_sink' = NoSink
  /\ worker' = "delete"
  /\ UNCHANGED <<clientVars, mutex, dataVars, new_sink, changeVars, sink,
                 callbackVars, aborted>>

\* Stage 1
CreateSink ==
  /\ worker = "create"
  /\ new_sink' = new_sink + 1
  /\ worker' = "swap"
  /\ UNCHANGED <<clientVars, mutex, dataVars, current_sink, old_sink, changeVars,
                 sink, callbackVars, aborted>>

SwappedCallback_kept == [sink EXCEPT ![new_sink].callback = version]

SwappedCallback == [sink EXCEPT ![new_sink].callback = callback]

\* Stage 2, which ends when the pending extents have been written into the new
\* sink.
SwapSinks ==
  /\ worker = "swap" /\ mutex = Nobody
  /\ mutex' = Worker
  /\ old_sink' = current_sink
  /\ current_sink' = new_sink
  /\ sink' = SwappedCallback
  /\ worker' = "hand_over"
  /\ UNCHANGED <<clientVars, dataVars, new_sink, changeVars, callbackVars, aborted>>

HandOver ==
  /\ worker = "hand_over" /\ pending # << >> /\ CanQueue(current_sink)
  /\ sink' = [sink EXCEPT ![current_sink].queue = Append(@, Head(pending))]
  /\ pending' = Tail(pending)
  /\ UNCHANGED <<clientVars, mutex, accepted, current_sink, workerVars, changeVars,
                 callbackVars, aborted>>

HandedOver_not_all == TRUE

HandedOver == pending = << >>

HandOverEnd ==
  /\ worker = "hand_over" /\ HandedOver /\ CanQueue(current_sink)
  /\ mutex' = Nobody
  /\ worker' = "delete"
  /\ UNCHANGED <<clientVars, dataVars, current_sink, old_sink, new_sink, changeVars,
                 sink, callbackVars, aborted>>

\* The destructor of the old sink closes it, which writes out what it has.
Deletable == old_sink # NoSink => Quiet(old_sink)

\* Stages 3 and 4: the old sink is deleted, the change is complete, and the
\* worker is at the top of its loop again.
FinishChange ==
  /\ worker = "delete" /\ Deletable
  /\ old_sink' = NoSink
  /\ new_filename' = "none"
  /\ pc' = ClientsWoken
  /\ worker' = IF worker_continue THEN "waiting" ELSE "exited"
  /\ UNCHANGED <<written, calls, mutex, dataVars, current_sink, new_sink,
                 worker_continue, asked, sink, callbackVars, aborted>>

----------------------------------------------------------------------------
Init ==
  /\ pc = [c \in Clients |-> "idle"]
  /\ written = [w \in Writers |-> 0] /\ calls = 0
  /\ mutex = Nobody
  /\ pending = << >> /\ accepted = << >>
  /\ current_sink = NoSink
  /\ worker = "running" /\ old_sink = NoSink /\ new_sink = NoSink
  /\ worker_continue = TRUE /\ new_filename = "none" /\ asked = 0
  /\ sink = [f \in Sinks |-> EmptySink]
  /\ callback = 0 /\ version = 0 /\ fence = 0
  /\ aborted = FALSE

OwnerStep == \/ FlushWait \/ FlushLock \/ FlushReturn
             \/ CloseCallback \/ CloseChange \/ CloseRetry \/ CloseEnd
             \/ AfterClose \/ StopWorker \/ JoinWorker

WorkerStep == \/ WorkerRun \/ Nullify \/ CreateSink \/ SwapSinks \/ HandOver
              \/ HandOverEnd \/ FinishChange

NewCall == \/ setExtentWriteCallback \/ Flush \/ Close \/ Delete
           \/ RotaterChanges
           \/ \E w \in Writers : WriteExtent(w)

\* Nobody has anything left to do.
Finished == /\ \/ pc[Owner] = "deleted"
               \/ \A c \in Clients : pc[c] = "idle"
            /\ worker \in {"waiting", "exited"}
            /\ UNCHANGED vars

Next == /\ ~aborted
        /\ \/ NewCall \/ OwnerStep \/ WorkerStep
           \/ \E w \in Writers : WriteReturn(w)
           \/ \E f \in Sinks : SinkStep(f)
           \/ Finished

Spec == Init /\ [][Next]_vars

\* A thread or sink that can go on does; nobody has to make a call.
Fairness == /\ WF_vars(~aborted /\ OwnerStep)
            /\ WF_vars(~aborted /\ WorkerStep)
            /\ \A w \in Writers : WF_vars(~aborted /\ WriteReturn(w))
            /\ \A f \in Sinks : WF_vars(~aborted /\ SinkStep(f))

FairSpec == Spec /\ Fairness

----------------------------------------------------------------------------
\* Properties

OwnerPlaces == {"idle", "flush", "flush_wait", "flush_lock", "flush_pending",
                "close", "close_change", "retry", "retry_wait", "end", "end_wait",
                "closed", "delete", "stop", "join", "deleted"}
WorkerPlaces == {"running", "waiting", "nullify", "create", "swap", "hand_over",
                 "delete", "exited"}
SinkPlaces == {"none", "called", "can_change", "changed"}

CallsTyped ==
  /\ pc \in [Clients -> OwnerPlaces \cup {"queue_wait", "done"}]
  /\ \A w \in Writers : pc[w] \in {"idle", "queue_wait", "done"}
  /\ pc[Owner] \in OwnerPlaces /\ pc[Rotater] \in {"idle", "done"}
  /\ written \in [Writers -> 0..MaxWrites] /\ calls \in 0..MaxCalls
  /\ mutex \in Writers \cup {Owner, Worker, Nobody}

ChangeTyped ==
  /\ asked \in 0..MaxFiles /\ new_sink \in 0..MaxFiles
  /\ current_sink \in 0..new_sink /\ old_sink \in 0..new_sink
  /\ worker \in WorkerPlaces /\ worker_continue \in BOOLEAN
  /\ new_filename \in {"none", "file", "closed"}
  /\ aborted \in BOOLEAN

SinkType(v) == [queue : Seq(Extents), batch : Seq(Extents), disk : Seq(Extents),
                callback : 0..v, ewc : 0..v, place : SinkPlaces]

SinksTyped ==
  /\ pending \in Seq(Extents) /\ accepted \in Seq(Extents)
  /\ version \in Nat /\ callback \in 0..version /\ fence \in 0..version
  /\ sink \in [Sinks -> SinkType(version)]
  /\ \A f \in Sinks : Len(sink[f].queue) <= QueueLimit

\* Type correctness; the queue of a sink stays within its limit, also while the
\* worker hands over what was pending.
TypeOK == CallsTyped /\ ChangeTyped /\ SinksTyped

\* No assertion fails and changeFile is never refused fatally: waitForCanChange
\* finds the worker alive, the destructor finds no sink and no extent left.
NoFatalError == ~aborted

\* Every extent is in exactly one file, or waiting for one, and read one after
\* another the files have the extents in the order in which they were written,
\* although an old sink is still being closed when the next one takes extents;
\* with a file to write to, nothing is kept back (the worker is the only thread
\* to see both, while it holds the mutex).
\* A sink that is neither the current one nor being replaced has written all it
\* was given and calls no callback any more: at most two files are open.  The
\* destructor leaves every extent on disk.
Content(f) == sink[f].disk \o sink[f].batch \o sink[f].queue

InOrder == FlattenSeq([f \in Sinks |-> Content(f)]) \o pending = accepted

NothingKeptBack == current_sink # NoSink /\ mutex # Worker => pending = << >>

ReplacedSinksAreComplete ==
  \A f \in 1..new_sink :
    f \notin {current_sink, old_sink} /\ (f = new_sink => worker # "swap") =>
      Quiet(f) /\ sink[f].place = "none"

DeletedIsWritten ==
  pc[Owner] = "deleted" => FlattenSeq([f \in Sinks |-> sink[f].disk]) = accepted

ExtentsInOrder == /\ TypeOK /\ InOrder /\ NothingKeptBack
                  /\ ReplacedSinksAreComplete /\ DeletedIsWritten

\* cond loses no wake-up: the worker sleeps only while there is no change to
\* make, and waitForCanChange only while there is one.
NoLostWakeup ==
  /\ worker = "waiting" => new_filename = "none" /\ worker_continue
  /\ pc[Owner] \in {"flush_wait", "retry_wait", "end_wait"} => new_filename # "none"

CloseStopsCallbacks ==
  pc[Owner] \in {"closed", "stop", "join", "deleted"} =>
    /\ callback = 0
    /\ \A f \in Sinks : /\ sink[f].batch # << >> => sink[f].ewc = 0
                        /\ ~Quiet(f) \/ f = current_sink => sink[f].callback = 0

OnlyOldSinksCallBack ==
  \A f \in Sinks : sink[f].place # "none" /\ sink[f].ewc < fence => f = old_sink

\* "Close a RotatingFileSink, after this call, no callback will be called"
\* (RotatingFileSink.hpp:57): none is running and no sink has one to call.  And
\* close() gets there: it is not refused fatally, whoever else changes the file.
\* After setExtentWriteCallback and a flush, nobody calls the callback of before
\* but a sink that is just being replaced, whose change of file began between the
\* wait of flush() and its lock (RotatingFileSink.hpp:52 promises even more).
CallbacksStop == NoFatalError /\ CloseStopsCallbacks /\ OnlyOldSinksCallBack

\* A change of file that was asked for is carried out, even though the worker
\* needs the mutex that writers and flush() hold while they block.  And flush,
\* close and the destructor return, and so does a writer that has to wait for
\* room with the mutex held: neither a callback that changes the file nor the
\* worker can block them for ever.
CallsReturn ==
  /\ new_filename # "none" ~> new_filename = "none"
  /\ pc[Owner] = "flush" ~> pc[Owner] = "idle"
  /\ pc[Owner] = "close" ~> pc[Owner] = "closed"
  /\ pc[Owner] = "delete" ~> pc[Owner] = "deleted"
  /\ \A w \in Writers : pc[w] = "queue_wait" ~> pc[w] # "queue_wait"
=============================================================================
