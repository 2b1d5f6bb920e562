--------------------------- MODULE UniffiSession ---------------------------
(***************************************************************************)
(* One UniFFI session (crates/r-uniffi/src/uniffi/session.rs, worker.rs):  *)
(* API callers on host threads, the bounded command queue, the interpreter *)
(* worker thread, the callback dispatcher, and the bounded shutdown.       *)
(*                                                                         *)
(* A step is what one thread does between two points where another can     *)
(* observe it: a section under the table's mutex, a channel operation, a   *)
(* read of the cancellation token, an interpreter call.  The mutex around  *)
(* the worker handle is held over several steps, so it is a variable.      *)
(*                                                                         *)
(* A command is the id of its operation; request[id] says what it is:      *)
(*   eval    evaluation, sees the token while it runs                      *)
(*   page    data_frame_page: evaluations without callbacks                *)
(*   render  no cancellation hook: the token is read before and after      *)
(*   load    load_package: runs R code and ignores the token               *)
(*   query   the other commands: short, ignore the token                   *)
(***************************************************************************)
EXTENDS OperationTable, CallbackDispatcher

CONSTANTS Callers,        \* host threads inside enqueue or a synchronous request
          QueueCapacity,  \* QUEUE_CAPACITY
          Shutdown,       \* the command that stops the worker
          Requests        \* the kinds of request made: records [kind, sync]

Kinds == {"eval", "page", "render", "load", "query"}

ASSUME CallersAssumption == "free" \notin Callers
ASSUME QueueCapacityAssumption == QueueCapacity \in Nat \ {0}
ASSUME ShutdownAssumption == Shutdown \notin Ids
ASSUME RequestsAssumption ==
  Requests \subseteq {r \in [kind : Kinds, sync : BOOLEAN] :
                        ~r.sync => r.kind \in {"eval", "render"}}

VARIABLES phase,       \* the constructor: "initializing", "open" or "failed"
          ready,       \* the handshake channel: "pending", "ok" or "failed"
          handle,      \* the worker handle is in its Option
          workerLock,  \* who holds the mutex around the handle, or "free"
          nextId,      \* next_operation_id
          queue,       \* the command queue
          senderOpen,  \* the queue's sender has not been dropped
          request,     \* request[id]: what the command asks for
          reply,       \* reply[id]: the reply channel of a synchronous request
          caller,      \* caller[c]: [at, op]
          worker,      \* the worker thread: [at, op, result]
          closer,      \* the thread in shutdown_worker or drop
          dropping,    \* that thread runs Drop for RSession
          waits        \* join timeouts the last shutdown sat through

sessionVars == <<phase, ready, handle, workerLock, nextId, queue, senderOpen, request,
                 reply, caller, worker, closer, dropping, waits>>
vars == <<tableVars, dispatcherVars, sessionVars>>

Closer == "closer"

SessionTypeOK ==
  /\ TableTypeOK /\ DispatcherTypeOK
  /\ phase \in {"initializing", "open", "failed"}
  /\ ready \in {"pending", "ok", "failed"}
  /\ handle \in BOOLEAN
  /\ workerLock \in Callers \cup {Closer, "free"}
  /\ nextId \in Nat
  /\ queue \in Seq(Ids \cup {Shutdown}) /\ Len(queue) <= QueueCapacity
  /\ senderOpen \in BOOLEAN
  /\ request \in [Ids -> Requests \cup {NoOp}]
  /\ reply \in [Ids -> {"none", "open", "ok", "error", "cancelled", "dropped"}]
  /\ caller \in [Callers -> [at : {"idle", "sending", "rejected", "waiting", "timedOut"},
                             op : Ids \cup {NoOp}]]
  /\ worker \in [at : {"init", "receiving", "dequeued", "starting", "checking", "working",
                       "rechecking", "publishing", "printing", "completing",
                       "announcing", "replying", "exiting", "signaled", "exited"},
                 op : Ids \cup {NoOp},
                 result : {"none", "ok", "error", "cancelled"}]
  /\ closer \in {"idle", "cancelled", "joining", "dropHandle", "draining", "gone"}
  /\ dropping \in BOOLEAN
  /\ waits \in 0..2

SessionInit ==
  /\ TableInit /\ DispatcherInit
  /\ phase = "initializing"
  /\ ready = "pending"
  /\ handle = FALSE
  /\ workerLock = "free"
  /\ nextId = 0
  /\ queue = <<>>
  /\ senderOpen = TRUE
  /\ request = [id \in Ids |-> NoOp]
  /\ reply = [id \in Ids |-> "none"]
  /\ caller = [c \in Callers |-> [at |-> "idle", op |-> NoOp]]
  /\ worker = [at |-> "init", op |-> NoOp, result |-> "none"]
  /\ closer = "idle"
  /\ dropping = FALSE
  /\ waits = 0

\* The object is built and nobody is dropping it: its methods can be called.
Usable == phase = "open" /\ ~dropping
-----------------------------------------------------------------------------
(* The constructor and its handshake with the worker *)

InitSucceeds ==
  /\ worker.at = "init"
  /\ ready' = "ok"
  /\ worker' = [worker EXCEPT !.at = "receiving"]
  /\ UNCHANGED <<tableVars, dispatcherVars, phase, handle, workerLock, nextId, queue,
                 senderOpen, request, reply, caller, closer, dropping, waits>>

\* An error or a panic of the injected init: the thread returns.
InitFails ==
  /\ worker.at = "init"
  /\ ready' = "failed"
  /\ worker' = [worker EXCEPT !.at = "exited"]
  /\ UNCHANGED <<tableVars, dispatcherVars, phase, handle, workerLock, nextId, queue,
                 senderOpen, request, reply, caller, closer, dropping, waits>>

ConstructorReturns ==
  /\ phase = "initializing" /\ ready = "ok"
  /\ phase' = "open"
  /\ handle' = TRUE
  /\ UNCHANGED <<tableVars, dispatcherVars, ready, workerLock, nextId, queue, senderOpen,
                 request, reply, caller, worker, closer, dropping, waits>>

BugConstructorFails ==
  /\ phase = "initializing" /\ ready # "ok"
  /\ phase' = "failed"
  /\ UNCHANGED <<tableVars, dispatcherVars, ready, handle, workerLock, nextId, queue,
                 senderOpen, request, reply, caller, worker, closer, dropping, waits>>

\* InitFailed: the worker reported a failure, or the deadline passed first and
\* the worker is detached; either way the queue is closed.
ConstructorFails ==
  /\ phase = "initializing" /\ ready # "ok"
  /\ phase' = "failed"
  /\ senderOpen' = FALSE
  /\ UNCHANGED <<tableVars, dispatcherVars, ready, handle, workerLock, nextId, queue,
                 request, reply, caller, worker, closer, dropping, waits>>

\* A session that never opened has no Drop: the dispatcher's sender goes with
\* its last clone, which the worker thread holds until it ends.
ReleaseDispatcher ==
  /\ phase = "failed" /\ worker.at = "exited" /\ txOpen
  /\ CloseTx
  /\ UNCHANGED <<tableVars, sessionVars>>

-----------------------------------------------------------------------------
(* API callers *)

BugAllocated == nextId

\* allocate_operation_id: what fetch_add leaves in the counter.
Allocated == nextId + 1

\* enqueue up to the registration: the handle's mutex stays locked.  (With the
\* handle gone it returns SessionClosed and changes nothing.)
Enqueue(c) ==
  /\ Usable /\ handle /\ workerLock = "free"
  /\ caller[c].at = "idle" /\ nextId \in Ids
  /\ \E r \in Requests :
       /\ Register(nextId, ~r.sync)
       /\ request' = [request EXCEPT ![nextId] = r]
       /\ reply' = [reply EXCEPT ![nextId] = IF r.sync THEN "open" ELSE "none"]
  /\ nextId' = Allocated
  /\ workerLock' = c
  /\ caller' = [caller EXCEPT ![c] = [at |-> "sending", op |-> nextId]]
  /\ UNCHANGED <<dispatcherVars, phase, ready, handle, queue, senderOpen, worker,
                 closer, dropping, waits>>

\* try_send succeeds.
Send(c) ==
  /\ caller[c].at = "sending"
  /\ Len(queue) < QueueCapacity /\ worker.at # "exited"
  /\ queue' = Append(queue, caller[c].op)
  /\ workerLock' = "free"
  /\ caller' = [caller EXCEPT ![c] =
                  IF request[caller[c].op].sync THEN [@ EXCEPT !.at = "waiting"]
                                                ELSE [at |-> "idle", op |-> NoOp]]
  /\ UNCHANGED <<tableVars, dispatcherVars, phase, ready, handle, nextId, senderOpen,
                 request, reply, worker, closer, dropping, waits>>

\* try_send fails: the queue is full, or its receiver is gone.
SendFails(c) ==
  /\ caller[c].at = "sending"
  /\ Len(queue) >= QueueCapacity \/ worker.at = "exited"
  /\ caller' = [caller EXCEPT ![c].at = "rejected"]
  /\ UNCHANGED <<tableVars, dispatcherVars, phase, ready, handle, workerLock, nextId, queue,
                 senderOpen, request, reply, worker, closer, dropping, waits>>

\* The entry stays.
BugRollback(c) ==
  /\ caller[c].at = "rejected"
  /\ reply' = [reply EXCEPT ![caller[c].op] = "none"]
  /\ workerLock' = "free"
  /\ caller' = [caller EXCEPT ![c] = [at |-> "idle", op |-> NoOp]]
  /\ UNCHANGED <<tableVars, dispatcherVars, phase, ready, handle, nextId, queue, senderOpen,
                 request, worker, closer, dropping, waits>>

\* The entry is rolled back, and QueueFull or SessionClosed returned.
Rollback(c) ==
  /\ caller[c].at = "rejected"
  /\ Forget(caller[c].op)
  /\ reply' = [reply EXCEPT ![caller[c].op] = "none"]
  /\ workerLock' = "free"
  /\ caller' = [caller EXCEPT ![c] = [at |-> "idle", op |-> NoOp]]
  /\ UNCHANGED <<dispatcherVars, phase, ready, handle, nextId, queue, senderOpen, request,
                 worker, closer, dropping, waits>>

\* recv_timeout returns the reply, or finds its sender dropped.
ReceiveReply(c) ==
  /\ caller[c].at = "waiting" /\ reply[caller[c].op] # "open"
  /\ caller' = [caller EXCEPT ![c] = [at |-> "idle", op |-> NoOp]]
  /\ UNCHANGED <<tableVars, dispatcherVars, phase, ready, handle, workerLock, nextId, queue,
                 senderOpen, request, reply, worker, closer, dropping, waits>>

BugTimeOut(c) == FALSE

\* recv_timeout gives up; the worker may still finish before the next step.
TimeOut(c) ==
  /\ caller[c].at = "waiting" /\ reply[caller[c].op] = "open"
  /\ caller' = [caller EXCEPT ![c].at = "timedOut"]
  /\ UNCHANGED <<tableVars, dispatcherVars, phase, ready, handle, workerLock, nextId, queue,
                 senderOpen, request, reply, worker, closer, dropping, waits>>

BugCancelTimedOut(c) ==
  /\ caller[c].at = "timedOut"
  /\ caller' = [caller EXCEPT ![c] = [at |-> "idle", op |-> NoOp]]
  /\ UNCHANGED <<tableVars, dispatcherVars, phase, ready, handle, workerLock, nextId, queue,
                 senderOpen, request, reply, worker, closer, dropping, waits>>

\* cancel_operation if it is still queued or running, then return Timeout.
CancelTimedOut(c) ==
  /\ caller[c].at = "timedOut"
  /\ IF status[caller[c].op] \in Pending THEN CancelOperation(caller[c].op)
                                         ELSE UNCHANGED tableVars
  /\ caller' = [caller EXCEPT ![c] = [at |-> "idle", op |-> NoOp]]
  /\ UNCHANGED <<dispatcherVars, phase, ready, handle, workerLock, nextId, queue, senderOpen,
                 request, reply, worker, closer, dropping, waits>>

CallerStep(c) == Send(c) \/ SendFails(c) \/ Rollback(c) \/ ReceiveReply(c)
                 \/ TimeOut(c) \/ CancelTimedOut(c)

\* The methods that are one section under the table's mutex, from any thread,
\* the callback included.
Cancel            == Usable /\ CancelAll /\ UNCHANGED <<dispatcherVars, sessionVars>>
CancelOne(id)     == Usable /\ CancelOperation(id) /\ UNCHANGED <<dispatcherVars, sessionVars>>
Take(id)          == Usable /\ TakeResult(id) /\ UNCHANGED <<dispatcherVars, sessionVars>>
InstallCallback   == Usable /\ SetCallback /\ UNCHANGED <<tableVars, sessionVars>>

-----------------------------------------------------------------------------
(* shutdown_worker and Drop *)

\* cancel_all.  Drop needs the last reference: no call is in progress.
ShutdownBegins ==
  /\ Usable /\ closer = "idle"
  /\ CancelAll
  /\ closer' = "cancelled"
  /\ dropping' \in IF \A c \in Callers : caller[c].at = "idle" THEN BOOLEAN ELSE {FALSE}
  /\ waits' = 0
  /\ UNCHANGED <<dispatcherVars, phase, ready, handle, workerLock, nextId, queue, senderOpen,
                 request, reply, caller, worker>>

\* Shutdown is sent however full the queue is.
BugWithShutdownForced == Append(queue, Shutdown)

WithShutdown == IF Len(queue) < QueueCapacity THEN Append(queue, Shutdown) ELSE queue

\* The handle is taken while enqueue is still between its registration and send.
BugTakeHandle ==
  /\ closer = "cancelled" /\ handle
  /\ handle' = FALSE
  /\ queue' = WithShutdown
  /\ senderOpen' = FALSE
  /\ closer' = "joining"
  /\ UNCHANGED <<tableVars, dispatcherVars, phase, ready, workerLock, nextId, request, reply,
                 caller, worker, dropping, waits>>

\* Take the handle, try_send(Shutdown), drop the sender.  A full queue does not
\* take the message; the worker then ends when it has drained the queue.
TakeHandle ==
  /\ closer = "cancelled" /\ workerLock = "free" /\ handle
  /\ handle' = FALSE
  /\ workerLock' = Closer
  /\ queue' = WithShutdown
  /\ senderOpen' = FALSE
  /\ closer' = "joining"
  /\ UNCHANGED <<tableVars, dispatcherVars, phase, ready, nextId, request, reply, caller,
                 worker, dropping, waits>>

\* What follows shutdown_worker: nothing, or the dispatcher's shutdown in Drop.
AfterShutdown == IF dropping THEN "draining" ELSE "idle"

NoHandle ==
  /\ closer = "cancelled" /\ workerLock = "free" /\ ~handle
  /\ closer' = AfterShutdown
  /\ txOpen' = (txOpen /\ ~dropping)
  /\ UNCHANGED <<tableVars, callbackSet, events, dispatcher, delivering, delivered, phase,
                 ready, handle, workerLock, nextId, queue, senderOpen, request, reply, caller,
                 worker, dropping, waits>>

BugJoinTimesOut == FALSE

\* The worker has said that it is ending, or is gone: join_bounded stops waiting
\* for the signal.
ExitSignaled == worker.at \in {"signaled", "exited"}

\* join_bounded in shutdown() gets no signal in time and detaches the thread.
JoinTimesOut ==
  /\ closer = "joining" /\ ~ExitSignaled
  /\ closer' = "dropHandle"
  /\ waits' = waits + 1
  /\ UNCHANGED <<tableVars, dispatcherVars, phase, ready, handle, workerLock, nextId, queue,
                 senderOpen, request, reply, caller, worker, dropping>>

\* shutdown() returns and the handle is dropped with the lock still held.  A
\* thread that signalled in time is joined to its end, however long that takes.
\* One that was detached is not joined again, but Drop waits for its signal once
\* more.
HandleDropped ==
  /\ \/ closer = "joining" /\ worker.at = "exited" /\ waits' = waits
     \/ closer = "dropHandle" /\ ExitSignaled /\ waits' = waits
     \/ closer = "dropHandle" /\ ~ExitSignaled /\ waits' = waits + 1
  /\ workerLock' = "free"
  /\ closer' = AfterShutdown
  /\ txOpen' = (txOpen /\ ~dropping)
  /\ UNCHANGED <<tableVars, callbackSet, events, dispatcher, delivering, delivered, phase,
                 ready, handle, nextId, queue, senderOpen, request, reply, caller, worker,
                 dropping>>

\* The dispatcher's join: the thread has exited, or the wait is over and it is
\* detached.
DispatcherJoined ==
  /\ closer = "draining"
  /\ closer' = "gone"
  /\ UNCHANGED <<tableVars, dispatcherVars, phase, ready, handle, workerLock, nextId, queue,
                 senderOpen, request, reply, caller, worker, dropping, waits>>

CloserStep == TakeHandle \/ NoHandle \/ JoinTimesOut \/ HandleDropped \/ DispatcherJoined
-----------------------------------------------------------------------------
(* The worker thread *)

Op        == worker.op
Kind      == request[Op].kind
Callbacks == Kind \in {"eval", "render"}   \* kinds with progress and result events

\* What most worker steps leave alone.
UnchangedByWorker == UNCHANGED <<phase, ready, handle, workerLock, nextId, senderOpen,
                                 request, caller, closer, dropping, waits>>

MoveTo(at) == worker' = [worker EXCEPT !.at = at]

\* A step between two program points that touches nothing shared.
Internal == UNCHANGED <<tableVars, dispatcherVars, queue, reply>> /\ UnchangedByWorker

ReceiveCommand ==
  /\ worker.at = "receiving" /\ queue # <<>>
  /\ queue' = Tail(queue)
  /\ IF Head(queue) = Shutdown
     THEN MoveTo("exiting")
     ELSE worker' = [at |-> "dequeued", op |-> Head(queue), result |-> "none"]
  /\ UNCHANGED <<tableVars, dispatcherVars, reply>>
  /\ UnchangedByWorker

QueueClosed ==
  /\ worker.at = "receiving" /\ queue = <<>> /\ ~senderOpen
  /\ MoveTo("exiting")
  /\ Internal

\* exited.send(()): whoever joins now waits for the end of the thread.
SignalExit ==
  /\ worker.at = "exiting"
  /\ MoveTo("signaled")
  /\ Internal

\* The thread ends: its session and the receiver are dropped, and with the
\* receiver the commands still queued and their reply senders.
WorkerExits ==
  /\ worker.at = "signaled"
  /\ MoveTo("exited")
  /\ reply' = [id \in Ids |-> IF id \in ToSet(queue) /\ reply[id] = "open"
                             THEN "dropped" ELSE reply[id]]
  /\ queue' = <<>>
  /\ UNCHANGED <<tableVars, dispatcherVars>>
  /\ UnchangedByWorker

BeginOperation ==
  /\ worker.at = "dequeued"
  /\ MarkRunning(Op)
  /\ MoveTo(IF Callbacks THEN "starting" ELSE "working")
  /\ UNCHANGED <<dispatcherVars, queue, reply>>
  /\ UnchangedByWorker

Started ==
  /\ worker.at = "starting"
  /\ Dispatch(Op, "started")
  /\ MoveTo(IF Kind = "render" THEN "checking" ELSE "working")
  /\ UNCHANGED <<tableVars, queue, reply>>
  /\ UnchangedByWorker

\* A render is skipped when its token is already set.
CheckToken ==
  /\ worker.at = "checking"
  /\ worker' = IF token[Op] THEN [worker EXCEPT !.at = "rechecking", !.result = "cancelled"]
                            ELSE [worker EXCEPT !.at = "working"]
  /\ Internal

\* Where an interpreter call with this result continues.
Settle(result) == IF result = "ok" /\ Callbacks THEN "publishing" ELSE "completing"

\* Evaluation returns a value, an error, or the cancellation error that a set
\* token provokes.  map_eval_error looks for the text "operation cancelled"
\* anywhere in the message, so an error of the script's own that holds those
\* words is mapped to Cancelled too: the outcome needs no set token.
CancellableReturns(result) ==
  /\ worker.at = "working" /\ Kind \in {"eval", "page"}
  /\ worker' = [worker EXCEPT !.at = Settle(result), !.result = result]
  /\ Internal

\* settle(): the result as it is, whatever the token says.
PlainReturns(kind) ==
  /\ worker.at = "working" /\ Kind = kind
  /\ \E result \in {"ok", "error"} :
       worker' = [worker EXCEPT !.at = Settle(result), !.result = result]
  /\ Internal

RenderReturns ==
  /\ worker.at = "working" /\ Kind = "render"
  /\ \E result \in {"ok", "error"} :
       worker' = [worker EXCEPT !.at = "rechecking", !.result = result]
  /\ Internal

\* A cancellation that arrived during the render discards the plot.
RecheckToken ==
  /\ worker.at = "rechecking"
  /\ LET result == IF token[Op] THEN "cancelled" ELSE worker.result
     IN  worker' = [worker EXCEPT !.at = Settle(result), !.result = result]
  /\ Internal

\* The terminal callback goes out with the progress, before the outcome is set.
BugFinished ==
  /\ worker.at = "publishing"
  /\ Dispatch(Op, "result")
  /\ MoveTo(IF Kind = "eval" THEN "printing" ELSE "completing")
  /\ UNCHANGED <<tableVars, queue, reply>>
  /\ UnchangedByWorker

Finished ==
  /\ worker.at = "publishing"
  /\ Dispatch(Op, "finished")
  /\ MoveTo(IF Kind = "eval" THEN "printing" ELSE "completing")
  /\ UNCHANGED <<tableVars, queue, reply>>
  /\ UnchangedByWorker

\* The lines of the output; at most one is modelled.
PrintLine ==
  /\ worker.at = "printing"
  /\ Dispatch(Op, "output")
  /\ MoveTo("completing")
  /\ UNCHANGED <<tableVars, queue, reply>>
  /\ UnchangedByWorker

PrintNothing ==
  /\ worker.at = "printing"
  /\ MoveTo("completing")
  /\ Internal

Outcome(result) == CASE result = "ok"    -> "succeeded"
                     [] result = "error" -> "failed"
                     [] OTHER            -> "cancelled"

\* The outcome is recorded before the terminal callback is queued.
CompleteOperation ==
  /\ worker.at = "completing"
  /\ Complete(Op, Outcome(worker.result))
  /\ MoveTo(IF Callbacks \/ worker.result # "ok" THEN "announcing" ELSE "replying")
  /\ UNCHANGED <<dispatcherVars, queue, reply>>
  /\ UnchangedByWorker

Idle == [at |-> "receiving", op |-> NoOp, result |-> "none"]

Announce ==
  /\ worker.at = "announcing"
  /\ Dispatch(Op, IF worker.result = "ok" THEN "result" ELSE "error")
  /\ IF request[Op].sync THEN MoveTo("replying") ELSE worker' = Idle
  /\ UNCHANGED <<tableVars, queue, reply>>
  /\ UnchangedByWorker

\* fire_reply: the requester may have given up; then the send is lost.
Reply ==
  /\ worker.at = "replying"
  /\ reply' = [reply EXCEPT ![Op] = worker.result]
  /\ worker' = Idle
  /\ UNCHANGED <<tableVars, dispatcherVars, queue>>
  /\ UnchangedByWorker

\* The steps the thread takes by itself; the interpreter's calls come apart,
\* because only some of them must return.
WorkerStep ==
  \/ ReceiveCommand \/ QueueClosed \/ SignalExit \/ WorkerExits \/ BeginOperation
  \/ Started \/ CheckToken \/ RecheckToken \/ Finished \/ PrintLine \/ PrintNothing
  \/ CompleteOperation \/ Announce \/ Reply

\* An evaluation that does not poll its token.
BugInterrupted == FALSE

\* A set token ends an evaluation.
Interrupted == worker.op # NoOp /\ token[Op] /\ CancellableReturns("cancelled")

InterpreterStep ==
  \/ \E result \in {"ok", "error", "cancelled"} : CancellableReturns(result)
  \/ \E kind \in {"load", "query"} : PlainReturns(kind)
  \/ RenderReturns

-----------------------------------------------------------------------------

Next ==
  \/ InitSucceeds \/ InitFails \/ ConstructorReturns \/ ConstructorFails \/ ReleaseDispatcher
  \/ \E c \in Callers : Enqueue(c) \/ CallerStep(c)
  \/ Cancel \/ InstallCallback
  \/ \E id \in Ids : CancelOne(id) \/ Take(id)
  \/ ShutdownBegins \/ CloserStep
  \/ WorkerStep \/ InterpreterStep
  \/ DispatcherStep /\ UNCHANGED <<tableVars, sessionVars>>

SafetySpec == SessionInit /\ [][Next]_vars

\* Threads keep running, waits are bounded, and an evaluation stops when its
\* token is set (eval polls it).  Nothing makes an evaluation without a set token,
\* a render, a package load, a query, an init or a host callback return, and
\* nothing makes a host call anything.
Fairness ==
  /\ WF_vars(ConstructorReturns) /\ WF_vars(ConstructorFails) /\ WF_vars(ReleaseDispatcher)
  /\ \A c \in Callers : WF_vars(CallerStep(c))
  /\ WF_vars(CloserStep)
  /\ WF_vars(WorkerStep)
  /\ WF_vars(Interrupted)
  /\ WF_vars((DropEvent \/ Deliver \/ DispatcherExits) /\ UNCHANGED <<tableVars, sessionVars>>)

Spec == SafetySpec /\ Fairness

-----------------------------------------------------------------------------
(* Properties *)

\* The operation is being sent, is in the queue, or is with the worker.
Held(id) ==
  \/ id \in ToSet(queue)
  \/ worker.op = id
  \/ \E c \in Callers : caller[c].op = id /\ caller[c].at \in {"sending", "rejected"}

\* No operation is stranded: one that the table calls active is in somebody's
\* hands - also when it slipped in between cancel_all and the closing of the
\* queue (session.rs:237-242, 304-325).
ActiveIsHeld == \A id \in Ids : status[id] \in Active => Held(id)

\* While a caller can reach the handle the worker is there to receive: no
\* command meets a queue without a receiver, and no synchronous request loses
\* its reply sender.  Whoever still waits for a reply waits for one to come: its
\* command is in somebody's hands until the reply is sent, even if the operation
\* has left the table (session.rs:342-353, worker.rs:317-338).
NoRequestAbandoned ==
  /\ handle => worker.at \notin {"exiting", "signaled", "exited"}
  /\ \A c \in Callers :
       caller[c].at = "sending" => worker.at \notin {"exiting", "signaled", "exited"}
  /\ \A id \in Ids : reply[id] # "dropped" /\ (reply[id] = "open" => Held(id))

\* "Publish the retained result before the terminal callback so a re-entrant
\* callback can take it immediately" (worker.rs:458-459): a terminal event that
\* is queued or being delivered says what the table has of its operation, unless
\* that was taken or evicted meanwhile or was not to be kept.
TerminalAfterOutcome ==
  \A event \in ToSet(events) \cup {delivering} :
    /\ event.what = "result" => status[event.op] \in {"succeeded", "absent"}
    /\ event.what = "error"  => status[event.op] \in {"failed", "cancelled", "absent"}

\* A request that timed out leaves no operation that is still queued or running
\* without a cancellation (session.rs:334-350).
TimedOutIsCancelled ==
  \A id \in Ids :
    reply[id] # "none" /\ status[id] \in Pending =>
      \E c \in Callers : caller[c].op = id

\* The session uses the table the way the table's own specification says: ids
\* are fresh, each operation completes at most once and is forgotten only
\* before the worker could complete it.
UsesTable == TableSpec

\* Whoever waits for a reply gets an answer in bounded time, and a shutdown or
\* drop returns, whatever the interpreter or the host's callback does
\* (lib.rs:11-19).
RequestReturns  == \A c \in Callers : caller[c].at # "idle" ~> caller[c].at = "idle"
ShutdownReturns == closer # "idle" ~> closer \in {"idle", "gone"}

\* The worker leaves an evaluation or a page once its token is set
\* (session.rs:334-336), whatever it was doing for it, the host's callbacks
\* included.  A render has no hook for that (worker.rs:528), nor have the others.
CancelledUnwinds ==
  \A id \in Ids :
    worker.op = id /\ token[id] /\ request[id].kind \in {"eval", "page"}
      ~> worker.op # id

\* A timed-out request cancels its operation "so the single worker thread does
\* not stay wedged behind it" (session.rs:334-336).  load_package ignores the
\* token, so the worker stays.
EveryCancelledUnwinds ==
  \A id \in Ids : worker.op = id /\ token[id] ~> worker.op # id

\* "a cancellation requested while it was running still wins at the operation
\* seam: discard the late plot instead of reporting a cancelled operation as
\* successful" (worker.rs:544-547).  One that arrives between the read of the
\* token there and complete() does not.
RenderCancelWins ==
  \A id \in Ids :
    status[id] = "succeeded" /\ request[id].kind = "render" => ~token[id]

\* Shutdown and Drop "join the worker with this bounded wait; if the worker has
\* not exited in time it is detached" (worker.rs:27-29).  The handle's own Drop
\* waits a second time.
SingleBoundedWait == waits <= 1

\* "the worker exits after draining the pending operations (whose tokens the
\* caller cancelled first)" (worker.rs:722-724): no operation is left to drain
\* that shutdown did not cancel.  One that is enqueued between cancel_all and
\* the closing of the queue is.
DrainedAreCancelled ==
  closer \in {"joining", "dropHandle"} => \A id \in ToSet(queue) \ {Shutdown} : token[id]

\* A constructor that failed leaves no thread behind once init returns
\* (worker.rs:730-741).
FailedInitLeavesNoThread ==
  phase = "failed" /\ ready # "pending" ~> worker.at = "exited" /\ dispatcher = "exited"
=============================================================================
