------------------------ MODULE UniffiSession_proofs ------------------------
(***************************************************************************)
(* Proofs about a whole session, for any number of callers and operations, *)
(* any queue capacity and any mixture of requests.                         *)
(*                                                                         *)
(* SessionInv says where everything is: how far the constructor, the       *)
(* shutdown and the worker have come (Life), who has each active operation *)
(* (Places), which replies are settled (Replies), and how much the host    *)
(* has been or will be told of each operation (InOrder).                   *)
(***************************************************************************)
EXTENDS UniffiSession, OperationTable_proofs

Busy    == {"dequeued", "starting", "checking", "working", "rechecking",
            "publishing", "printing", "completing"}
Leaving == {"announcing", "replying"}
Ended   == {"exiting", "signaled", "exited"}
Sending == {"sending", "rejected"}

\* A sender holds the handle's mutex, and while the handle is there nothing
\* stops the worker: the queue is open and has no Shutdown in it.
Life ==
  /\ worker.at = "init" <=> ready = "pending"
  /\ phase # "open" => ~handle /\ queue = <<>> /\ closer = "idle"
  /\ phase = "initializing" => senderOpen
  /\ phase = "initializing" /\ ready = "ok" => worker.at \notin Ended
  /\ phase = "open" => ready = "ok"
  /\ handle => senderOpen /\ Shutdown \notin ToSet(queue) /\ worker.at \notin Ended
  /\ \A c \in Callers : caller[c].at \in Sending => handle /\ workerLock = c
  /\ closer \in {"joining", "dropHandle"} => ~handle
  /\ worker.at \in Ended => queue = <<>>
  /\ \A i \in DOMAIN queue : queue[i] = Shutdown => i = Len(queue)
  /\ closer \in {"cancelled", "joining"} => waits = 0
  /\ closer = "dropHandle" => waits = 1

\* An active operation is in one place only.
Places ==
  /\ NoRepeats(queue)
  /\ \A id \in Ids \cap ToSet(queue) : status[id] \in Active /\ id # worker.op
  /\ \A c \in Callers : IF caller[c].at = "idle" THEN caller[c].op = NoOp
                                               ELSE caller[c].op \in Ids
  /\ \A c \in Callers : caller[c].at \in Sending =>
       /\ caller[c].op \notin ToSet(queue) /\ caller[c].op # worker.op
       /\ status[caller[c].op] \in Active
  /\ worker.at \in Busy => worker.op \in Ids /\ status[worker.op] \in Active
  /\ worker.at \in Leaving => worker.op \in registered /\ status[worker.op] \notin Active
  /\ worker.at \notin Busy \cup Leaving => worker.op = NoOp
  /\ ActiveIsHeld
  /\ \A id \in registered : id < nextId

\* A reply is sent when its operation is over, and none is lost.
Replies ==
  /\ \A id \in Ids : reply[id] \notin {"none", "open"} =>
       id \in registered /\ status[id] \notin Active
  /\ \A c \in Callers : caller[c].at = "sending" /\ ~request[caller[c].op].sync =>
       reply[caller[c].op] = "none"
  /\ \A id \in Ids : reply[id] # "dropped"
  /\ TimedOutIsCancelled

\* The rank of the last event that the worker has dispatched when it is there.
Stage(at) == CASE at \in {"dequeued", "starting"} -> 0
               [] at \in {"checking", "working", "rechecking", "publishing"} -> 1
               [] at = "printing" -> 2
               [] at \in {"completing", "announcing"} -> 3
               [] OTHER -> 4

Reached(id) == IF id = worker.op THEN Stage(worker.at)
               ELSE IF id \in registered /\ status[id] \notin Active THEN 4
               ELSE 0

\* No terminal event waits of an operation that is still active.
TerminalSettled ==
  \A event \in ToSet(events) \cup {delivering} :
    event.what \in {"result", "error"} => status[event.op] \notin Active

\* Nothing after Reached(id) has been dispatched for id, and what has is in
\* order, in the channel and in what the host has seen.
InOrder ==
  /\ \A i, j \in DOMAIN events :
       i < j /\ events[i].op = events[j].op => Rank(events[i].what) < Rank(events[j].what)
  /\ \A j \in DOMAIN events : \A i \in DOMAIN delivered[events[j].op] :
       Rank(delivered[events[j].op][i]) < Rank(events[j].what)
  /\ DeliveryOrder
  /\ \A j \in DOMAIN events : Rank(events[j].what) <= Reached(events[j].op)
  /\ \A id \in Ids : \A i \in DOMAIN delivered[id] : Rank(delivered[id][i]) <= Reached(id)
  /\ delivering # NoEvent => delivering.op \in registered
  /\ TerminalSettled

SessionInv == SessionTypeOK /\ TableInv /\ Life /\ Places /\ Replies /\ InOrder

-----------------------------------------------------------------------------
(* What the table's methods do to the set of active operations *)

Keeps(id) == /\ status'[id] \in Active <=> status[id] \in Active
             /\ status'[id] \in Pending => status[id] \in Pending

KeepsAll == registered' = registered /\ \A id \in Ids : Keeps(id)

LEMMA MethodsKeep ==
  ASSUME TableInv,
         \/ CancelAll
         \/ \E id \in Ids : TakeResult(id) \/ CancelOperation(id) \/ MarkRunning(id)
         \/ UNCHANGED tableVars
  PROVE  KeepsAll
<1> USE DEF TableInv, TableTypeOK, KeepsAll, Keeps, Pending, Active, Outcomes
<1>1. CASE CancelAll
  BY <1>1 DEF CancelAll
<1>2. CASE \E id \in Ids : TakeResult(id)
  BY <1>2 DEF TakeResult, TakeOutcome, TakeTombstone
<1>3. CASE \E id \in Ids : CancelOperation(id) \/ MarkRunning(id)
  BY <1>3 DEF CancelOperation, MarkRunning
<1>4. CASE UNCHANGED tableVars
  BY <1>4 DEF tableVars
<1>. QED
  BY <1>1, <1>2, <1>3, <1>4

\* An operation that is completed or forgotten is no longer active; the entry
\* that a completion may evict was not active either.
LEMMA EndsOnly ==
  ASSUME TableInv, NEW id \in Ids, status[id] \in Active,
         Forget(id) \/ \E outcome \in Outcomes : Complete(id, outcome)
  PROVE  /\ registered' = registered
         /\ status'[id] \notin Active
         /\ \A x \in Ids \ {id} : Keeps(x)
<1> USE DEF TableInv, TableTypeOK, Keeps, Pending, Active, Outcomes
<1>1. CASE Forget(id)
  BY <1>1 DEF Forget
<1>2. CASE CompleteUnretained(id)
  BY <1>2 DEF CompleteUnretained
<1>3. CASE \E outcome \in Outcomes : CompleteRetained(id, outcome)
  BY <1>3 DEF CompleteRetained
<1>4. ASSUME NEW outcome \in Outcomes, CompleteEvicting(id, outcome)
      PROVE  /\ registered' = registered
             /\ status'[id] \notin Active
             /\ \A x \in Ids \ {id} : Keeps(x)
  <2> DEFINE evicted == Head(Append(fifo, id))
  <2>1. /\ registered' = registered
        /\ status' = [[status EXCEPT ![id] = outcome] EXCEPT ![evicted] = "absent"]
    BY <1>4 DEF CompleteEvicting
  <2>2. evicted \in ToSet(fifo) \cup {id}
    <3>1. Append(fifo, id) \in Seq(Ids) /\ Append(fifo, id) # <<>>
          /\ ToSet(Append(fifo, id)) = ToSet(fifo) \cup {id}
      BY AppendNoRepeats, AppendProperties
    <3>2. 1 \in DOMAIN Append(fifo, id)
      BY <3>1, EmptySeq, LenProperties
    <3>. QED
      BY <3>1, <3>2 DEF ToSet
  <2>3. evicted # id => status[evicted] \in Outcomes
    BY <2>2 DEF TableConsistent
  <2>. QED
    BY <2>1, <2>2, <2>3
<1>. QED
  BY <1>1, <1>2, <1>3, <1>4 DEF Complete

-----------------------------------------------------------------------------
(* Every step is one that the table's own specification allows *)

LEMMA FreshId ==
  ASSUME SessionInv, nextId \in Ids
  PROVE  nextId \notin registered /\ status[nextId] = "absent"
BY IdsAssumption DEF SessionInv, Places, SessionTypeOK, TableInv, EntriesRegistered

LEMMA MethodsAllowed ==
  ASSUME SessionInv,
         \/ CancelAll
         \/ \E id \in Ids : TakeResult(id) \/ CancelOperation(id) \/ MarkRunning(id)
         \/ UNCHANGED tableVars
  PROVE  [TableNext]_tableVars
BY DEF TableNext, Step

LEMMA TableStep ==
  ASSUME SessionInv, [Next]_vars
  PROVE  [TableNext]_tableVars
<1>1. CASE \E c \in Callers : Enqueue(c)
  <2>1. \E r \in Requests : r.sync \in BOOLEAN /\ Register(nextId, ~r.sync)
    BY <1>1, RequestsAssumption DEF Enqueue
  <2>2. nextId \in Ids
    BY <1>1 DEF Enqueue
  <2>. QED
    BY <2>1, <2>2, FreshId DEF TableNext, Step
<1>2. ASSUME NEW c \in Callers, CallerStep(c)
      PROVE  [TableNext]_tableVars
  <2>1. CASE Rollback(c)
    <3>1. caller[c].op \in Ids /\ status[caller[c].op] \in Active /\ Forget(caller[c].op)
      BY <2>1 DEF Rollback, SessionInv, Places, Sending
    <3>. QED
      BY <3>1 DEF TableNext, Step
  <2>2. CASE CancelTimedOut(c)
    <3>1. caller[c].op \in Ids
      BY <2>2 DEF CancelTimedOut, SessionInv, Places
    <3>. QED
      BY <3>1, <2>2, MethodsAllowed DEF CancelTimedOut
  <2>3. CASE Send(c) \/ SendFails(c) \/ ReceiveReply(c) \/ TimeOut(c)
    BY <2>3 DEF Send, SendFails, ReceiveReply, TimeOut
  <2>. QED
    BY <1>2, <2>1, <2>2, <2>3 DEF CallerStep
<1>3. CASE WorkerStep
  <2>1. CASE BeginOperation
    <3>1. worker.op \in Ids
      BY <2>1 DEF BeginOperation, SessionInv, Places, Busy
    <3>. QED
      BY <3>1, <2>1, MethodsAllowed DEF BeginOperation, Op
  <2>2. CASE CompleteOperation
    <3>1. worker.op \in Ids /\ status[worker.op] \in Active
      BY <2>2 DEF CompleteOperation, SessionInv, Places, Busy
    <3>2. Outcome(worker.result) \in Outcomes
      BY DEF Outcome, Outcomes
    <3>. QED
      BY <3>1, <3>2, <2>2 DEF CompleteOperation, Op, TableNext, Step
  <2>. QED
    BY <1>3, <2>1, <2>2
    DEF WorkerStep, ReceiveCommand, QueueClosed, SignalExit, WorkerExits, Started, CheckToken,
        RecheckToken, Finished, PrintLine, PrintNothing, Announce, Reply, Internal
<1>4. CASE Cancel \/ (\E id \in Ids : CancelOne(id) \/ Take(id)) \/ ShutdownBegins
  BY <1>4, MethodsAllowed DEF Cancel, CancelOne, Take, ShutdownBegins
<1>5. CASE CloserStep \/ InterpreterStep
  BY <1>5 DEF CloserStep, TakeHandle, NoHandle, JoinTimesOut, HandleDropped,
              DispatcherJoined, InterpreterStep, CancellableReturns, PlainReturns,
              RenderReturns, Internal
<1>6. CASE InitSucceeds \/ InitFails \/ ConstructorReturns \/ ConstructorFails
           \/ ReleaseDispatcher
  BY <1>6 DEF InitSucceeds, InitFails, ConstructorReturns, ConstructorFails,
              ReleaseDispatcher
<1>7. CASE InstallCallback \/ UNCHANGED vars \/ UNCHANGED tableVars
  BY <1>7 DEF InstallCallback, vars
<1>. QED
  BY <1>1, <1>2, <1>3, <1>4, <1>5, <1>6, <1>7 DEF Next

-----------------------------------------------------------------------------
(* What keeps one part of the invariant *)

LEMMA Ranks ==
  /\ \A what : Rank(what) \in 1..4
  /\ \A at : Stage(at) \in 0..4
  /\ \A id : Reached(id) \in 0..4
BY DEF Rank, Stage, Reached

\* Events are about operations that were registered.
LEMMA EventsRegistered ==
  ASSUME SessionInv
  PROVE  /\ \A j \in DOMAIN events : events[j] \in Event /\ events[j].op \in registered
         /\ \A id \in Ids : id \notin registered => delivered[id] = <<>>
<1>1. \A id \in Ids : Reached(id) # 0 => id \in registered
  <2>1. \A id \in Ids : id = worker.op => id \in registered
    BY IdsAssumption
    DEF SessionInv, Places, TableInv, EntriesRegistered, Active, Pending
  <2>. QED
    BY <2>1 DEF Reached
<1>2. ASSUME NEW j \in DOMAIN events
      PROVE  events[j] \in Event /\ events[j].op \in registered
  <2>1. events[j] \in Event
    BY ElementOfSeq, LenProperties DEF SessionInv, SessionTypeOK, DispatcherTypeOK
  <2>2. events[j].op \in Ids /\ Rank(events[j].what) <= Reached(events[j].op)
    BY <2>1 DEF Event, SessionInv, InOrder
  <2>. QED
    BY <2>1, <2>2, <1>1, Ranks
<1>3. ASSUME NEW id \in Ids, id \notin registered
      PROVE  delivered[id] = <<>>
  <2>1. delivered[id] \in Seq(Whats)
    BY DEF SessionInv, SessionTypeOK, DispatcherTypeOK
  <2>2. \A i \in DOMAIN delivered[id] : Rank(delivered[id][i]) <= Reached(id)
    BY DEF SessionInv, InOrder
  <2>3. 1 \notin DOMAIN delivered[id]
    BY <1>1, <1>3, <2>2, Ranks
  <2>4. Len(delivered[id]) \in Nat /\ DOMAIN delivered[id] = 1..Len(delivered[id])
    BY <2>1, LenProperties
  <2>5. Len(delivered[id]) = 0
    BY <2>3, <2>4
  <2>. QED
    BY <2>1, <2>5, EmptySeq
<1>. QED
  BY <1>2, <1>3

\* A step that dispatches and delivers nothing, and takes no operation back.
LEMMA NoEvents ==
  ASSUME SessionInv, UNCHANGED <<events, delivered, delivering>>,
         registered \subseteq registered',
         \A id \in Ids \cap registered : status[id] \notin Active => status'[id] \notin Active,
         \A id \in Ids : Reached(id) <= Reached(id)' \/ id \notin registered
  PROVE  InOrder'
<1>1. \A j \in DOMAIN events : events[j].op \in Ids \cap registered
  BY EventsRegistered DEF Event
<1>2. \A j \in DOMAIN events : Rank(events[j].what) <= Reached(events[j].op)'
  <2>1. ASSUME NEW j \in DOMAIN events
        PROVE  Rank(events[j].what) <= Reached(events[j].op)'
    <3>1. /\ Rank(events[j].what) <= Reached(events[j].op)
          /\ Reached(events[j].op) <= Reached(events[j].op)'
      BY <1>1 DEF SessionInv, InOrder
    <3>2. /\ Rank(events[j].what) \in 1..4
          /\ Reached(events[j].op) \in 0..4
          /\ Reached(events[j].op)' \in 0..4
      BY Ranks DEF Reached, Stage
    <3>. QED
      BY <3>1, <3>2
  <2>. QED
    BY <2>1
<1>3. ASSUME NEW id \in Ids, NEW i \in DOMAIN delivered[id]
      PROVE  Rank(delivered[id][i]) <= Reached(id)'
  <2>1. id \in registered
    BY EventsRegistered
  <2>2. /\ Rank(delivered[id][i]) <= Reached(id) /\ Reached(id) <= Reached(id)'
    BY <2>1 DEF SessionInv, InOrder
  <2>3. /\ Rank(delivered[id][i]) \in 1..4
        /\ Reached(id) \in 0..4 /\ Reached(id)' \in 0..4
    BY Ranks DEF Reached, Stage
  <2>. QED
    BY <2>2, <2>3
<1>4. \A event \in ToSet(events) \cup {delivering} :
        event.what \in {"result", "error"} => status'[event.op] \notin Active
  <2>1. \A event \in ToSet(events) : event.op \in Ids \cap registered
    BY <1>1 DEF ToSet
  <2>2. delivering = NoEvent \/ delivering.op \in Ids \cap registered
    BY DEF SessionInv, SessionTypeOK, DispatcherTypeOK, InOrder, Event
  <2>3. NoEvent.what \notin {"result", "error"}
    BY DEF NoEvent
  <2>. QED
    BY <2>1, <2>2, <2>3 DEF SessionInv, InOrder, TerminalSettled
<1>. QED
  BY <1>2, <1>3, <1>4 DEF SessionInv, InOrder, DeliveryOrder, TerminalSettled

\* A step that moves no operation and ends none.
LEMMA Apart ==
  ASSUME SessionInv, KeepsAll,
         UNCHANGED <<events, delivered, delivering, queue, nextId, request, reply, caller>>,
         \/ worker' = worker
         \/ /\ worker'.op = worker.op
            /\ worker.at \notin Busy \cup Leaving /\ worker'.at \notin Busy \cup Leaving
  PROVE  Places' /\ Replies' /\ InOrder'
<1>1. \A id \in Ids : id # worker.op \/ worker' = worker
  BY IdsAssumption DEF SessionInv, Places
<1>2. \A id \in Ids : Reached(id)' = Reached(id)
  BY <1>1 DEF Reached, KeepsAll, Keeps
<1>3. registered \subseteq Ids
  BY DEF SessionInv, SessionTypeOK, TableTypeOK
<1>4. Places'
  BY <1>3 DEF SessionInv, Places, ActiveIsHeld, Held, KeepsAll, Keeps, Sending
<1>5. Replies'
  BY DEF SessionInv, Replies, TimedOutIsCancelled, KeepsAll, Keeps
<1>6. InOrder'
  BY <1>2, Ranks, NoEvents DEF KeepsAll, Keeps
<1>. QED
  BY <1>4, <1>5, <1>6

-----------------------------------------------------------------------------
(* The constructor, the table's methods and the shutdown *)

LEMMA TableKept == SessionInv /\ [Next]_vars => TableInv'
BY TableStep, TableInvStep DEF SessionInv

LEMMA DispatcherTyped ==
  ASSUME SessionTypeOK, UNCHANGED <<callbackSet, events, dispatcher, delivering, delivered>>,
         txOpen' \in BOOLEAN
  PROVE  DispatcherTypeOK'
BY DEF SessionTypeOK, DispatcherTypeOK

LEMMA ConstructorKept ==
  ASSUME SessionInv, TableInv',
         InitSucceeds \/ InitFails \/ ConstructorReturns \/ ConstructorFails
         \/ ReleaseDispatcher
  PROVE  SessionInv'
<1> USE DEF InitSucceeds, InitFails, ConstructorReturns, ConstructorFails,
            ReleaseDispatcher, CloseTx, Ended, tableVars, dispatcherVars, sessionVars
<1>0. SessionTypeOK /\ TableTypeOK' /\ DispatcherTypeOK'
  BY DispatcherTyped DEF SessionInv, SessionTypeOK, DispatcherTypeOK, TableInv
<1>1. SessionTypeOK'
  <2>1. worker' = worker \/ \E at \in {"receiving", "exited"} :
                              worker' = [worker EXCEPT !.at = at]
    OBVIOUS
  <2>2. /\ phase' \in {"initializing", "open", "failed"}
        /\ ready' \in {"pending", "ok", "failed"}
        /\ handle' \in BOOLEAN /\ senderOpen' \in BOOLEAN
    BY <1>0 DEF SessionTypeOK
  <2>3. UNCHANGED <<workerLock, nextId, queue, request, reply, caller, closer, dropping,
                    waits>>
    OBVIOUS
  <2>. QED
    BY ONLY <1>0, <2>1, <2>2, <2>3 DEF SessionTypeOK
<1>2. Life'
  BY EmptySeq DEF SessionInv, SessionTypeOK, Life, Sending, ToSet
<1>3. Places' /\ Replies' /\ InOrder'
  <2>1. KeepsAll
    BY MethodsKeep DEF SessionInv
  <2>2. \/ worker' = worker
        \/ /\ worker.at = "init" /\ worker'.at \in {"receiving", "exited"}
           /\ worker'.op = worker.op
    BY DEF SessionInv, SessionTypeOK
  <2>. QED
    BY <2>1, <2>2, Apart DEF Busy, Leaving
<1>. QED
  BY <1>1, <1>2, <1>3 DEF SessionInv

LEMMA MethodsKept ==
  ASSUME SessionInv, TableInv',
         \/ Cancel \/ InstallCallback
         \/ \E id \in Ids : CancelOne(id) \/ Take(id)
         \/ UNCHANGED vars
  PROVE  SessionInv'
<1>0. /\ UNCHANGED sessionVars /\ UNCHANGED <<events, dispatcher, delivering, delivered>>
      /\ callbackSet' \in {callbackSet, TRUE} /\ txOpen' = txOpen
      /\ KeepsAll
  BY MethodsKeep
  DEF Cancel, InstallCallback, SetCallback, CancelOne, Take, vars, dispatcherVars, SessionInv
<1>1. SessionTypeOK'
  <2>1. DispatcherTypeOK' /\ TableTypeOK' /\ SessionTypeOK
    BY <1>0 DEF SessionInv, SessionTypeOK, TableInv, DispatcherTypeOK
  <2>. QED
    BY ONLY <1>0, <2>1 DEF SessionTypeOK, sessionVars
<1>2. Life'
  BY <1>0 DEF SessionInv, Life, sessionVars
<1>. QED
  BY <1>0, <1>1, <1>2, Apart DEF SessionInv, sessionVars

\* The shutdown waits at most twice, and it takes the handle when no caller is
\* between its registration and its send.
LEMMA ShutdownKept ==
  ASSUME SessionInv, TableInv',
         ShutdownBegins \/ NoHandle \/ JoinTimesOut \/ HandleDropped \/ DispatcherJoined
  PROVE  SessionInv'
<1> USE DEF ShutdownBegins, NoHandle, JoinTimesOut, HandleDropped, DispatcherJoined,
            Usable, AfterShutdown, tableVars, dispatcherVars
<1>1. UNCHANGED <<phase, ready, handle, nextId, queue, senderOpen, request, reply, caller,
                  worker, callbackSet, events, dispatcher, delivering, delivered>>
  OBVIOUS
<1>2. /\ workerLock' = workerLock \/ (~handle /\ workerLock' = "free")
      /\ phase # "open" => closer' = "idle"
      /\ closer' \in {"joining", "dropHandle"} => ~handle
      /\ closer' \in {"idle", "cancelled", "joining", "dropHandle", "draining", "gone"}
      /\ closer' \in {"cancelled", "joining"} => waits' = 0
      /\ closer' = "dropHandle" => waits' = 1
      /\ waits' \in 0..2
      /\ dropping' \in BOOLEAN /\ txOpen' \in BOOLEAN
  <2>1. /\ dropping \in BOOLEAN /\ txOpen \in BOOLEAN /\ waits \in 0..2
        /\ phase # "open" => closer = "idle"
        /\ closer \in {"joining", "dropHandle"} => ~handle
        /\ closer \in {"cancelled", "joining"} => waits = 0
        /\ closer = "dropHandle" => waits = 1
    BY DEF SessionInv, Life, SessionTypeOK, DispatcherTypeOK
  <2>2. CASE ShutdownBegins
    <3>1. dropping' \in BOOLEAN
      BY <2>2
    <3>2. /\ phase = "open" /\ closer' = "cancelled" /\ waits' = 0
          /\ UNCHANGED <<workerLock, txOpen>>
      BY <2>2
    <3>. QED
      BY ONLY <2>1, <3>1, <3>2
  <2>3. CASE NoHandle
    BY <2>1, <2>3
  <2>4. CASE JoinTimesOut
    BY <2>1, <2>4
  <2>5. CASE HandleDropped
    BY <2>1, <2>5
  <2>6. CASE DispatcherJoined
    BY <2>1, <2>6
  <2>. QED
    BY <2>2, <2>3, <2>4, <2>5, <2>6
<1>3. Life'
  BY ONLY SessionInv, <1>1, <1>2 DEF SessionInv, Life, Sending
<1>4. SessionTypeOK'
  <2>1. DispatcherTypeOK' /\ TableTypeOK' /\ SessionTypeOK
    BY <1>1, <1>2, DispatcherTyped DEF SessionInv, TableInv
  <2>. QED
    BY ONLY <1>1, <1>2, <2>1 DEF SessionTypeOK
<1>5. KeepsAll
  BY MethodsKeep DEF SessionInv
<1>. QED
  BY <1>1, <1>3, <1>4, <1>5, Apart DEF SessionInv

\* What a push to the queue does.
LEMMA Pushed ==
  ASSUME SessionInv, NEW x \in Ids \cup {Shutdown}, queue' = Append(queue, x),
         Len(queue) < QueueCapacity
  PROVE  /\ queue' \in Seq(Ids \cup {Shutdown}) /\ Len(queue') <= QueueCapacity
         /\ ToSet(queue') = ToSet(queue) \cup {x}
         /\ x \notin ToSet(queue) => NoRepeats(queue')
         /\ Shutdown \notin ToSet(queue)
              => \A i \in DOMAIN queue' : queue'[i] = Shutdown => i = Len(queue')
<1> DEFINE S == Ids \cup {Shutdown}
<1>1. queue \in Seq(S) /\ NoRepeats(queue) /\ Len(queue) \in Nat /\ QueueCapacity \in Nat
  BY LenProperties, QueueCapacityAssumption DEF SessionInv, SessionTypeOK, Places
<1>2. /\ queue' \in Seq(S) /\ Len(queue') = Len(queue) + 1
      /\ ToSet(queue') = ToSet(queue) \cup {x}
      /\ x \notin ToSet(queue) => NoRepeats(queue')
  BY <1>1, AppendNoRepeats
<1>3. Len(queue') <= QueueCapacity
  BY <1>1, <1>2
<1>4. ASSUME Shutdown \notin ToSet(queue), NEW i \in DOMAIN queue', queue'[i] = Shutdown
      PROVE  i = Len(queue')
  <2>1. i \in 1..(Len(queue) + 1)
    BY <1>2, LenProperties
  <2>2. i \in 1..Len(queue) => queue'[i] = queue[i] /\ i \in DOMAIN queue
    BY <1>1, AppendProperties, LenProperties
  <2>3. i \notin DOMAIN queue
    BY <1>4, <2>2, <2>1, <1>1, LenProperties DEF ToSet
  <2>. QED
    BY <1>1, <1>2, <2>1, <2>2, <2>3
<1>. QED
  BY <1>2, <1>3, <1>4

\* The order of the events when nothing is dispatched and the worker stays.
LEMMA NoEventsHere ==
  ASSUME SessionInv, UNCHANGED <<events, delivered, delivering, worker>>,
         registered' = registered,
         \A id \in Ids : status[id] \notin Active => status'[id] \notin Active
  PROVE  InOrder'
<1>1. \A id \in Ids : Reached(id) <= Reached(id)'
  BY Ranks DEF Reached, Stage
<1>. QED
  BY <1>1, NoEvents

LEMMA TakeHandleKept ==
  ASSUME SessionInv, TableInv', TakeHandle
  PROVE  SessionInv'
<1>1. /\ workerLock = "free" /\ handle /\ phase = "open"
      /\ handle' = FALSE /\ workerLock' = Closer /\ closer' = "joining"
      /\ senderOpen' = FALSE /\ closer = "cancelled" /\ waits = 0
      /\ Shutdown \notin ToSet(queue) /\ worker.at \notin Ended
  BY DEF TakeHandle, SessionInv, Life
<1>2. UNCHANGED <<tableVars, dispatcherVars, phase, ready, nextId, request, reply, caller,
                  worker, dropping, waits>>
  BY DEF TakeHandle
<1>3. \A c \in Callers : caller[c].at \notin Sending
  BY <1>1, CallersAssumption DEF SessionInv, Life
<1>4. /\ queue' \in Seq(Ids \cup {Shutdown}) /\ Len(queue') <= QueueCapacity
      /\ Ids \cap ToSet(queue') = Ids \cap ToSet(queue)
      /\ NoRepeats(queue')
      /\ \A i \in DOMAIN queue' : queue'[i] = Shutdown => i = Len(queue')
  <2>1. CASE Len(queue) < QueueCapacity
    BY <1>1, <2>1, Pushed, ShutdownAssumption DEF TakeHandle, WithShutdown
  <2>2. CASE ~(Len(queue) < QueueCapacity)
    BY <2>2 DEF TakeHandle, WithShutdown, SessionInv, SessionTypeOK, Places, Life
  <2>. QED
    BY <2>1, <2>2
<1>5. Life'
  BY <1>1, <1>2, <1>3, <1>4 DEF SessionInv, Life
<1>6. SessionTypeOK'
  <2>1. DispatcherTypeOK' /\ TableTypeOK' /\ SessionTypeOK
    BY <1>2 DEF SessionInv, SessionTypeOK, TableInv, DispatcherTypeOK, dispatcherVars
  <2>2. /\ handle' \in BOOLEAN /\ senderOpen' \in BOOLEAN
        /\ workerLock' \in Callers \cup {Closer, "free"}
        /\ closer' \in {"idle", "cancelled", "joining", "dropHandle", "draining", "gone"}
    BY ONLY <1>1
  <2>3. UNCHANGED <<phase, ready, nextId, request, reply, caller, worker, dropping, waits>>
    BY ONLY <1>2
  <2>. QED
    BY ONLY <1>4, <2>1, <2>2, <2>3 DEF SessionTypeOK
<1>7. Places'
  BY <1>2, <1>3, <1>4 DEF SessionInv, Places, ActiveIsHeld, Held, tableVars
<1>8. Replies'
  BY <1>2 DEF SessionInv, Replies, TimedOutIsCancelled, tableVars
<1>9. InOrder'
  BY <1>2, NoEventsHere DEF tableVars, dispatcherVars
<1>. QED
  BY <1>5, <1>6, <1>7, <1>8, <1>9 DEF SessionInv

-----------------------------------------------------------------------------
(* The callers *)

CallerStates  == [at : {"idle", "sending", "rejected", "waiting", "timedOut"},
                  op : Ids \cup {NoOp}]
ReplyStates   == {"none", "open", "ok", "error", "cancelled", "dropped"}

\* What a step of one caller leaves alone, and what it does to that caller.
LEMMA CallerTyped ==
  ASSUME SessionInv, TableInv', NEW c \in Callers, NEW next \in CallerStates,
         caller' = [caller EXCEPT ![c] = next],
         UNCHANGED <<dispatcherVars, phase, ready, handle, senderOpen, worker, closer,
                     dropping, waits>>,
         workerLock' \in Callers \cup {Closer, "free"}, nextId' \in Nat,
         queue' \in Seq(Ids \cup {Shutdown}), Len(queue') <= QueueCapacity,
         request' \in [Ids -> Requests \cup {NoOp}], reply' \in [Ids -> ReplyStates]
  PROVE  /\ SessionTypeOK'
         /\ caller'[c] = next /\ \A d \in Callers \ {c} : caller'[d] = caller[d]
<1>1. DispatcherTypeOK' /\ TableTypeOK' /\ SessionTypeOK
  BY DEF SessionInv, SessionTypeOK, TableInv, DispatcherTypeOK, dispatcherVars
<1>2. caller' \in [Callers -> CallerStates]
  BY <1>1 DEF SessionTypeOK, CallerStates
<1>3. SessionTypeOK'
  BY <1>1, <1>2 DEF SessionTypeOK, CallerStates, ReplyStates
<1>. QED
  BY <1>1, <1>3 DEF SessionTypeOK

LEMMA EnqueueKept ==
  ASSUME SessionInv, TableInv', NEW c \in Callers, Enqueue(c)
  PROVE  SessionInv'
<1> DEFINE id   == nextId
           next == [at |-> "sending", op |-> id]
<1>1. /\ handle /\ workerLock = "free" /\ caller[c].at = "idle" /\ id \in Ids
      /\ workerLock' = c /\ nextId' = id + 1 /\ caller' = [caller EXCEPT ![c] = next]
      /\ UNCHANGED <<dispatcherVars, phase, ready, handle, queue, senderOpen, worker,
                     closer, dropping, waits>>
  BY DEF Enqueue, Allocated
<1>2. PICK r \in Requests :
        /\ Register(id, ~r.sync)
        /\ request' = [request EXCEPT ![id] = r]
        /\ reply' = [reply EXCEPT ![id] = IF r.sync THEN "open" ELSE "none"]
  BY DEF Enqueue
<1>3. /\ id \notin registered /\ status[id] = "absent"
      /\ registered \subseteq Ids
  BY <1>1, FreshId DEF SessionInv, SessionTypeOK, TableTypeOK
<1>4. /\ registered' = registered \cup {id} /\ status'[id] = "queued"
      /\ \A x \in Ids \ {id} : status'[x] = status[x]
  BY <1>1, <1>2 DEF Register, SessionInv, SessionTypeOK, TableTypeOK
<1>5. /\ request'[id] = r
      /\ reply'[id] = IF r.sync THEN "open" ELSE "none"
      /\ \A x \in Ids \ {id} : request'[x] = request[x] /\ reply'[x] = reply[x]
      /\ request' \in [Ids -> Requests \cup {NoOp}] /\ reply' \in [Ids -> ReplyStates]
  BY <1>1, <1>2 DEF SessionInv, SessionTypeOK, ReplyStates
<1>6. /\ SessionTypeOK'
      /\ caller'[c] = next /\ \A d \in Callers \ {c} : caller'[d] = caller[d]
  <2>1. next \in CallerStates /\ nextId' \in Nat
    BY <1>1, IdsAssumption DEF CallerStates
  <2>. QED
    BY <2>1, <1>1, <1>5, CallerTyped DEF SessionInv, SessionTypeOK
<1>7. \A d \in Callers : caller[d].at \notin Sending
  BY <1>1, CallersAssumption DEF SessionInv, Life
<1>8. Life'
  BY <1>1, <1>6, <1>7 DEF SessionInv, Life
<1>9. /\ id \notin ToSet(queue)
      /\ id # worker.op
  <2>1. worker.op \in Ids => worker.op \in registered
    BY IdsAssumption DEF SessionInv, Places, TableInv, EntriesRegistered, Active, Pending
  <2>. QED
    BY <2>1, <1>1, <1>3 DEF SessionInv, Places, Active, Pending
<1>10. Places'
  <2>1. \A x \in registered' : x < nextId'
    BY <1>1, <1>3, <1>4, IdsAssumption DEF SessionInv, Places
  <2>2. ActiveIsHeld'
    BY <1>1, <1>4, <1>6, <1>7 DEF SessionInv, Places, ActiveIsHeld, Held, Sending
  <2>. QED
    BY <1>1, <1>3, <1>4, <1>6, <1>7, <1>9, <2>1, <2>2
    DEF SessionInv, Places, Sending, Active, Pending
<1>11. Replies'
  <2>1. TimedOutIsCancelled'
    <3>1. caller[c].op \notin Ids
      BY <1>1, IdsAssumption DEF SessionInv, Places
    <3>. QED
      BY <3>1, <1>1, <1>4, <1>5, <1>6 DEF SessionInv, Replies, TimedOutIsCancelled
  <2>. QED
    BY <2>1, <1>1, <1>3, <1>4, <1>5, <1>6, <1>7
    DEF SessionInv, Replies, Sending
<1>12. InOrder'
  <2>1. \A x \in Ids \cap registered : Reached(x)' = Reached(x) /\ status'[x] = status[x]
    BY <1>1, <1>3, <1>4 DEF Reached
  <2>. QED
    BY <2>1, <1>1, <1>4, Ranks, NoEvents DEF dispatcherVars
<1>. QED
  BY <1>6, <1>8, <1>10, <1>11, <1>12 DEF SessionInv

LEMMA SendKept ==
  ASSUME SessionInv, TableInv', NEW c \in Callers, Send(c)
  PROVE  SessionInv'
<1> DEFINE id   == caller[c].op
           next == IF request[id].sync THEN [caller[c] EXCEPT !.at = "waiting"]
                                       ELSE [at |-> "idle", op |-> NoOp]
<1>1. /\ caller[c].at = "sending" /\ Len(queue) < QueueCapacity
      /\ queue' = Append(queue, id) /\ workerLock' = "free"
      /\ caller' = [caller EXCEPT ![c] = next]
      /\ UNCHANGED <<tableVars, dispatcherVars, phase, ready, handle, nextId, senderOpen,
                     request, reply, worker, closer, dropping, waits>>
  BY DEF Send
<1>2. /\ id \in Ids /\ id \notin ToSet(queue) /\ id # worker.op /\ status[id] \in Active
      /\ handle /\ workerLock = c /\ Shutdown \notin ToSet(queue)
      /\ worker.at \notin Ended /\ phase = "open"
  BY <1>1 DEF SessionInv, Places, Life, Sending
<1>3. \A d \in Callers \ {c} : caller[d].at \notin Sending
  BY <1>2 DEF SessionInv, Life
<1>4. /\ queue' \in Seq(Ids \cup {Shutdown}) /\ Len(queue') <= QueueCapacity
      /\ ToSet(queue') = ToSet(queue) \cup {id} /\ NoRepeats(queue')
      /\ \A i \in DOMAIN queue' : queue'[i] = Shutdown => i = Len(queue')
  BY <1>1, <1>2, Pushed
<1>5. /\ next \in CallerStates
      /\ next.at \in {"waiting", "idle"}
      /\ request[id].sync => next = [at |-> "waiting", op |-> id]
      /\ ~request[id].sync => next = [at |-> "idle", op |-> NoOp]
  BY <1>1, <1>2 DEF CallerStates, SessionInv, SessionTypeOK
<1> HIDE DEF next
<1>6. /\ SessionTypeOK'
      /\ caller'[c] = next /\ \A d \in Callers \ {c} : caller'[d] = caller[d]
  BY <1>1, <1>4, <1>5, CallerTyped DEF SessionInv, SessionTypeOK, ReplyStates
<1>7. Life'
  BY <1>1, <1>2, <1>3, <1>4, <1>5, <1>6, ShutdownAssumption DEF SessionInv, Life, Sending
<1>8. Places'
  <2>1. ActiveIsHeld'
    BY <1>1, <1>3, <1>4, <1>6 DEF SessionInv, Places, ActiveIsHeld, Held, Sending, tableVars
  <2>. QED
    BY <1>1, <1>2, <1>3, <1>4, <1>5, <1>6, <2>1
    DEF SessionInv, Places, Sending, tableVars
<1>9. Replies'
  <2>1. TimedOutIsCancelled'
    <3>1. ~request[id].sync => reply[id] = "none"
      BY <1>1 DEF SessionInv, Replies
    <3>. QED
      BY <3>1, <1>1, <1>5, <1>6 DEF SessionInv, Replies, TimedOutIsCancelled, tableVars
  <2>. QED
    BY <2>1, <1>1, <1>5, <1>6 DEF SessionInv, Replies, tableVars
<1>10. InOrder'
  BY <1>1, NoEventsHere DEF tableVars, dispatcherVars
<1>. QED
  BY <1>6, <1>7, <1>8, <1>9, <1>10 DEF SessionInv

LEMMA RollbackKept ==
  ASSUME SessionInv, TableInv', NEW c \in Callers, Rollback(c)
  PROVE  SessionInv'
<1> DEFINE id   == caller[c].op
           next == [at |-> "idle", op |-> NoOp]
<1>1. /\ caller[c].at = "rejected" /\ Forget(id) /\ workerLock' = "free"
      /\ reply' = [reply EXCEPT ![id] = "none"]
      /\ caller' = [caller EXCEPT ![c] = next]
      /\ UNCHANGED <<dispatcherVars, phase, ready, handle, nextId, queue, senderOpen,
                     request, worker, closer, dropping, waits>>
  BY DEF Rollback
<1>2. /\ id \in Ids /\ id \notin ToSet(queue) /\ id # worker.op /\ status[id] \in Active
      /\ handle /\ workerLock = c
  BY <1>1 DEF SessionInv, Places, Life, Sending
<1>3. \A d \in Callers \ {c} : caller[d].at \notin Sending
  BY <1>2 DEF SessionInv, Life
<1>4. /\ registered' = registered /\ status'[id] \notin Active
      /\ \A x \in Ids \ {id} : Keeps(x)
  BY <1>1, <1>2, EndsOnly DEF SessionInv
<1>5. /\ reply' \in [Ids -> ReplyStates] /\ reply'[id] = "none"
      /\ \A x \in Ids \ {id} : reply'[x] = reply[x]
  BY <1>1, <1>2 DEF SessionInv, SessionTypeOK, ReplyStates
<1>6. /\ SessionTypeOK'
      /\ caller'[c] = next /\ \A d \in Callers \ {c} : caller'[d] = caller[d]
  <2>1. next \in CallerStates
    BY DEF CallerStates
  <2>. QED
    BY <2>1, <1>1, <1>5, CallerTyped DEF SessionInv, SessionTypeOK
<1>7. Life'
  BY <1>1, <1>3, <1>6 DEF SessionInv, Life, Sending
<1>8. Places'
  <2>0. registered \subseteq Ids
    BY DEF SessionInv, SessionTypeOK, TableTypeOK
  <2>1. ActiveIsHeld'
    BY <1>1, <1>3, <1>4, <1>6 DEF SessionInv, Places, ActiveIsHeld, Held, Sending, Keeps
  <2>. QED
    BY <1>1, <1>2, <1>3, <1>4, <1>6, <2>0, <2>1 DEF SessionInv, Places, Sending, Keeps
<1>9. Replies'
  BY <1>1, <1>2, <1>4, <1>5, <1>6
  DEF SessionInv, Replies, TimedOutIsCancelled, Keeps
<1>10. InOrder'
  BY <1>1, <1>2, <1>4, NoEventsHere DEF Keeps, dispatcherVars
<1>. QED
  BY <1>6, <1>7, <1>8, <1>9, <1>10 DEF SessionInv

\* A request that was sent ends with its reply, or with its cancellation after
\* the timeout.
LEMMA RequestKept ==
  ASSUME SessionInv, TableInv', NEW c \in Callers,
         SendFails(c) \/ ReceiveReply(c) \/ TimeOut(c) \/ CancelTimedOut(c)
  PROVE  SessionInv'
<1> DEFINE id == caller[c].op
<1>1. UNCHANGED <<dispatcherVars, phase, ready, handle, workerLock, nextId, queue,
                  senderOpen, request, reply, worker, closer, dropping, waits>>
  BY DEF SendFails, ReceiveReply, TimeOut, CancelTimedOut
<1>2. PICK next \in CallerStates :
        /\ caller' = [caller EXCEPT ![c] = next]
        /\ caller[c].at \in {"sending", "waiting", "timedOut"}
        /\ caller[c].at = "sending" => next = [at |-> "rejected", op |-> id]
        /\ caller[c].at # "sending" =>
             \/ next = [at |-> "timedOut", op |-> id]
             \/ /\ next = [at |-> "idle", op |-> NoOp]
                /\ reply[id] # "none" => status'[id] \notin Pending
  <2>0. /\ caller[c] \in CallerStates
        /\ caller[c].at # "idle" => id \in Ids
        /\ caller \in [Callers -> CallerStates]
    BY DEF SessionInv, SessionTypeOK, CallerStates, Places
  <2>a. \A at : [caller EXCEPT ![c].at = at] = [caller EXCEPT ![c] = [at |-> at, op |-> id]]
    <3>1. \A at : [caller[c] EXCEPT !.at = at] = [at |-> at, op |-> id]
      BY <2>0 DEF CallerStates
    <3>. QED
      BY <2>0, <3>1
  <2>1. CASE SendFails(c)
    <3>1. caller' = [caller EXCEPT ![c] = [at |-> "rejected", op |-> id]]
      BY <2>a, <2>1 DEF SendFails
    <3>. QED
      BY <2>0, <2>1, <3>1 DEF SendFails, CallerStates
  <2>2. CASE ReceiveReply(c)
    <3>1. id \in Ids /\ reply[id] # "none" => status[id] \notin Active /\ status' = status
      BY <2>2 DEF ReceiveReply, SessionInv, Replies, tableVars
    <3>. QED
      BY <2>0, <2>2, <3>1 DEF ReceiveReply, CallerStates, Active
  <2>3. CASE TimeOut(c)
    <3>1. caller' = [caller EXCEPT ![c] = [at |-> "timedOut", op |-> id]]
      BY <2>a, <2>3 DEF TimeOut
    <3>. QED
      BY <2>0, <2>3, <3>1 DEF TimeOut, CallerStates
  <2>4. CASE CancelTimedOut(c)
    <3>1. id \in Ids => status'[id] \notin Pending
      BY <2>4 DEF CancelTimedOut, CancelOperation, SessionInv, SessionTypeOK, TableTypeOK,
                  tableVars, Pending
    <3>. QED
      BY <2>0, <2>4, <3>1 DEF CancelTimedOut, CallerStates
  <2>. QED
    BY <2>1, <2>2, <2>3, <2>4
<1>3. KeepsAll
  <2>1. id \in Ids
    BY <1>2 DEF SessionInv, Places
  <2>. QED
    BY <2>1, MethodsKeep DEF SendFails, ReceiveReply, TimeOut, CancelTimedOut, SessionInv
<1>4. /\ SessionTypeOK'
      /\ caller'[c] = next /\ \A d \in Callers \ {c} : caller'[d] = caller[d]
  BY <1>1, <1>2, CallerTyped DEF SessionInv, SessionTypeOK, ReplyStates
<1>5. /\ caller'[c].at \in Sending <=> caller[c].at \in Sending
      /\ caller'[c].at # "sending"
      /\ caller'[c].at # "idle" => caller'[c].op = id
      /\ caller'[c].at = "idle" => caller'[c].op = NoOp
      /\ caller[c].at # "idle"
  BY <1>2, <1>4 DEF Sending, CallerStates
<1>6. Life'
  BY <1>1, <1>4, <1>5 DEF SessionInv, Life
<1>7. Places'
  <2>0. registered \subseteq Ids
    BY DEF SessionInv, SessionTypeOK, TableTypeOK
  <2>1. ActiveIsHeld'
    BY <1>1, <1>3, <1>4, <1>5 DEF SessionInv, Places, ActiveIsHeld, Held, Sending, KeepsAll, Keeps
  <2>. QED
    BY <1>1, <1>3, <1>4, <1>5, <2>0, <2>1 DEF SessionInv, Places, Sending, KeepsAll, Keeps
<1>8. Replies'
  BY <1>1, <1>2, <1>3, <1>4 DEF SessionInv, Replies, TimedOutIsCancelled, KeepsAll, Keeps
<1>9. InOrder'
  BY <1>1, <1>3, NoEventsHere DEF KeepsAll, Keeps, dispatcherVars
<1>. QED
  BY <1>4, <1>6, <1>7, <1>8, <1>9 DEF SessionInv

-----------------------------------------------------------------------------
(* The worker *)

WorkerStates ==
  [at : {"init", "receiving", "dequeued", "starting", "checking", "working", "rechecking",
         "publishing", "printing", "completing", "announcing", "replying", "exiting", "signaled",
         "exited"},
   op : Ids \cup {NoOp},
   result : {"none", "ok", "error", "cancelled"}]

LEMMA WorkerTyped ==
  ASSUME SessionInv, TableInv', DispatcherTypeOK', UnchangedByWorker,
         worker' \in WorkerStates, reply' \in [Ids -> ReplyStates],
         queue' \in Seq(Ids \cup {Shutdown}), Len(queue') <= QueueCapacity
  PROVE  SessionTypeOK'
<1>1. SessionTypeOK /\ TableTypeOK'
  BY DEF SessionInv, TableInv
<1>. QED
  BY <1>1 DEF SessionTypeOK, WorkerStates, ReplyStates, UnchangedByWorker

\* The worker goes on with its operation, and the table's actives stay.
LEMMA GoesOn ==
  ASSUME SessionInv, TableInv', DispatcherTypeOK', UnchangedByWorker, KeepsAll,
         UNCHANGED <<queue, reply>>, worker.at \in Busy,
         worker' \in WorkerStates, worker'.at \in Busy, worker'.op = worker.op
  PROVE  SessionTypeOK' /\ Life' /\ Places' /\ Replies'
<1>1. SessionTypeOK'
  <2>1. /\ reply \in [Ids -> ReplyStates]
        /\ queue \in Seq(Ids \cup {Shutdown}) /\ Len(queue) <= QueueCapacity
    BY DEF SessionInv, SessionTypeOK, ReplyStates
  <2>. QED
    BY <2>1, WorkerTyped
<1>2. /\ worker.at \notin Ended /\ worker'.at \notin Ended
      /\ worker.at # "init" /\ worker'.at # "init"
      /\ worker.at \notin Leaving /\ worker'.at \notin Leaving
  BY DEF Busy, Ended, Leaving
<1>3. Life'
  BY <1>2 DEF SessionInv, Life, UnchangedByWorker
<1>4. Places'
  <2>1. registered \subseteq Ids
    BY DEF SessionInv, SessionTypeOK, TableTypeOK
  <2>2. ActiveIsHeld'
    BY DEF SessionInv, Places, ActiveIsHeld, Held, UnchangedByWorker, KeepsAll, Keeps
  <2>. QED
    BY <1>2, <2>1, <2>2 DEF SessionInv, Places, Sending, UnchangedByWorker, KeepsAll, Keeps
<1>5. Replies'
  BY DEF SessionInv, Replies, TimedOutIsCancelled, UnchangedByWorker, KeepsAll, Keeps
<1>. QED
  BY <1>1, <1>3, <1>4, <1>5

\* Between two dispatches the worker only moves towards the end of an operation.
LEMMA MovesOn ==
  ASSUME SessionInv, TableInv', UnchangedByWorker, KeepsAll,
         UNCHANGED <<dispatcherVars, queue, reply>>, worker.at \in Busy,
         worker' \in WorkerStates, worker'.at \in Busy, worker'.op = worker.op,
         Stage(worker.at) <= Stage(worker'.at)
  PROVE  SessionInv'
<1>1. DispatcherTypeOK'
  BY DEF SessionInv, SessionTypeOK, DispatcherTypeOK, dispatcherVars
<1>2. \A id \in Ids : Reached(id) <= Reached(id)'
  BY Ranks DEF Reached, KeepsAll, Keeps, Stage
<1>3. InOrder'
  BY <1>2, NoEvents DEF KeepsAll, Keeps, dispatcherVars
<1>. QED
  BY <1>1, <1>3, GoesOn DEF SessionInv

LEMMA InternalKept ==
  ASSUME SessionInv, TableInv',
         BeginOperation \/ CheckToken \/ RecheckToken \/ PrintNothing \/ InterpreterStep
  PROVE  SessionInv'
<1> DEFINE states == {"starting", "working", "rechecking", "publishing", "completing"}
<1>0. worker \in WorkerStates
  BY DEF SessionInv, SessionTypeOK, WorkerStates
<1>1. /\ UnchangedByWorker /\ UNCHANGED <<dispatcherVars, queue, reply>>
      /\ worker.at \in Busy
  BY DEF BeginOperation, CheckToken, RecheckToken, PrintNothing, InterpreterStep,
         CancellableReturns, PlainReturns, RenderReturns, Internal, Busy
<1>2. /\ worker' \in WorkerStates /\ worker'.at \in states /\ worker'.op = worker.op
      /\ Stage(worker.at) <= Stage(worker'.at)
  <2>1. /\ Stage("dequeued") = 0 /\ Stage("starting") = 0
        /\ \A at \in {"checking", "working", "rechecking", "publishing"} : Stage(at) = 1
        /\ Stage("printing") = 2 /\ Stage("completing") = 3
    BY DEF Stage
  <2>2. \A at \in states : \A result \in {"none", "ok", "error", "cancelled"} :
          LET next == [worker EXCEPT !.at = at, !.result = result]
          IN  next \in WorkerStates /\ next.at = at /\ next.op = worker.op
    BY <1>0 DEF WorkerStates
  <2>3. \A at \in states :
          LET next == [worker EXCEPT !.at = at]
          IN  next \in WorkerStates /\ next.at = at /\ next.op = worker.op
    BY <1>0 DEF WorkerStates
  <2>4. worker.result \in {"none", "ok", "error", "cancelled"}
    BY <1>0 DEF WorkerStates
  <2>5. \A result : Settle(result) \in {"publishing", "completing"}
    BY DEF Settle
  <2>6. ASSUME worker.at \in {"working", "rechecking"},
               NEW result \in {"ok", "error", "cancelled", "none"},
               NEW at \in {Settle(result), "rechecking"},
               worker' = [worker EXCEPT !.at = at, !.result = result]
        PROVE  /\ worker' \in WorkerStates /\ worker'.at \in states
               /\ worker'.op = worker.op
               /\ Stage(worker.at) <= Stage(worker'.at)
    <3>1. at \in {"publishing", "completing", "rechecking"}
      BY <2>5
    <3>2. worker' \in WorkerStates /\ worker'.at = at /\ worker'.op = worker.op
      BY <1>0, <2>6, <3>1 DEF WorkerStates
    <3>3. Stage(worker.at) = 1 /\ Stage(at) \in {1, 3}
      BY <2>1, <2>6, <3>1
    <3>. QED
      BY <3>1, <3>2, <3>3
  <2>7. CASE BeginOperation
    BY <2>1, <2>3, <2>7 DEF BeginOperation, MoveTo
  <2>8. CASE CheckToken
    BY <2>1, <2>2, <2>3, <2>8 DEF CheckToken
  <2>9. CASE RecheckToken
    <3>1. \E result \in {"ok", "error", "cancelled", "none"} :
            worker' = [worker EXCEPT !.at = Settle(result), !.result = result]
      BY <2>4, <2>9 DEF RecheckToken
    <3>. QED
      BY <2>6, <2>9, <3>1 DEF RecheckToken
  <2>10. CASE PrintNothing
    BY <2>1, <2>3, <2>10 DEF PrintNothing, MoveTo
  <2>11. CASE InterpreterStep
    <3>1. /\ worker.at = "working"
          /\ \E result \in {"ok", "error", "cancelled"} : \E at \in {Settle(result), "rechecking"} :
               worker' = [worker EXCEPT !.at = at, !.result = result]
      BY <2>11 DEF InterpreterStep, CancellableReturns, PlainReturns, RenderReturns
    <3>. QED
      BY <2>6, <3>1
  <2>. QED
    BY <2>7, <2>8, <2>9, <2>10, <2>11
<1>4. KeepsAll
  <2>1. worker.op \in Ids
    BY <1>1 DEF SessionInv, Places
  <2>. QED
    BY <2>1, MethodsKeep
    DEF BeginOperation, CheckToken, RecheckToken, PrintNothing, InterpreterStep,
        CancellableReturns, PlainReturns, RenderReturns, Internal, SessionInv, Op
<1>. QED
  BY <1>1, <1>2, <1>4, MovesOn DEF Busy

\* An event of a higher rank than all before it is dispatched, or dropped.
LEMMA Dispatched ==
  ASSUME SessionInv, NEW id \in registered, NEW what \in Whats, Dispatch(id, what),
         UNCHANGED <<status, registered>>,
         what \in {"result", "error"} => status[id] \notin Active,
         Reached(id) < Rank(what), Rank(what) <= Reached(id)',
         \A x \in Ids \ {id} : Reached(x)' = Reached(x)
  PROVE  DispatcherTypeOK' /\ InOrder'
<1> DEFINE n == Len(events)
           e == [op |-> id, what |-> what]
<1>0. /\ id \in Ids /\ e \in Event
      /\ events \in Seq(Event) /\ n \in Nat /\ DOMAIN events = 1..n
      /\ delivered \in [Ids -> Seq(Whats)]
      /\ UNCHANGED <<callbackSet, txOpen, dispatcher, delivering, delivered>>
      /\ events' = events \/ events' = Append(events, e)
  BY LenProperties
  DEF SessionInv, SessionTypeOK, TableTypeOK, DispatcherTypeOK, Dispatch, Event
<1>e. e.op = id /\ e.what = what
  OBVIOUS
<1> HIDE DEF e
<1>1. DispatcherTypeOK'
  <2>1. events' \in Seq(Event)
    BY <1>0, AppendProperties
  <2>. QED
    BY <1>0, <2>1 DEF SessionInv, SessionTypeOK, DispatcherTypeOK
<1>a. /\ \A w : Rank(w) \in 1..4
      /\ \A x : Reached(x) \in 0..4 /\ Reached(x)' \in 0..4
  <2>1. \A x : Reached(x)' \in 0..4
    BY DEF Reached, Stage
  <2>. QED
    BY <2>1, Ranks
<1>2. \A x \in Ids : Reached(x) <= Reached(x)'
  <2>1. Reached(id) <= Reached(id)'
    BY <1>a
  <2>. QED
    BY <1>a, <2>1
<1>3. CASE events' = events
  BY <1>0, <1>1, <1>2, <1>3, NoEvents
<1>4. CASE events' = Append(events, e)
  <2>1. /\ DOMAIN events' = 1..(n + 1) /\ events'[n + 1] = e
        /\ \A i \in 1..n : events'[i] = events[i]
        /\ ToSet(events') = ToSet(events) \cup {e}
    BY <1>0, <1>4, AppendProperties, AppendNoRepeats, LenProperties
  <2>2. \A j \in 1..n : /\ events[j].op \in Ids
                        /\ Rank(events[j].what) <= Reached(events[j].op)
    BY <1>0, EventsRegistered DEF Event, SessionInv, InOrder
  <2>3. \A x \in Ids : \A i \in DOMAIN delivered[x] : Rank(delivered[x][i]) <= Reached(x)
    BY DEF SessionInv, InOrder
  <2>5. ASSUME NEW i \in DOMAIN events', NEW j \in DOMAIN events', i < j,
               events'[i].op = events'[j].op
        PROVE  Rank(events'[i].what) < Rank(events'[j].what)
    <3>1. CASE j = n + 1
      <4>1. i \in 1..n /\ events[i].op = id
        BY <1>0, <1>e, <2>1, <2>5, <3>1
      <4>. QED
        BY <4>1, <1>e, <2>1, <2>2, <1>a, <3>1
    <3>2. CASE j \in 1..n
      BY <1>0, <2>1, <2>5, <3>2 DEF SessionInv, InOrder
    <3>. QED
      BY <1>0, <2>1, <3>1, <3>2
  <2>6. ASSUME NEW j \in DOMAIN events', NEW i \in DOMAIN delivered[events'[j].op]
        PROVE  Rank(delivered[events'[j].op][i]) < Rank(events'[j].what)
    <3>1. CASE j = n + 1
      BY <1>0, <1>e, <2>1, <2>3, <1>a, <3>1
    <3>2. CASE j \in 1..n
      BY <1>0, <2>1, <3>2 DEF SessionInv, InOrder
    <3>. QED
      BY <1>0, <2>1, <3>1, <3>2
  <2>7. ASSUME NEW x \in Ids, NEW j \in DOMAIN events', events'[j].op = x
        PROVE  Rank(events'[j].what) <= Reached(x)'
    <3>1. CASE j = n + 1
      BY <1>0, <1>e, <2>1, <2>7, <3>1
    <3>2. CASE j \in 1..n
      <4>1. events[j].op = x /\ events'[j].what = events[j].what
        BY <2>1, <2>7, <3>2
      <4>2. Rank(events[j].what) <= Reached(x) /\ Reached(x) <= Reached(x)'
        BY <1>2, <2>2, <3>2, <4>1
      <4>. QED
        BY <1>a, <4>1, <4>2
    <3>. QED
      BY <1>0, <2>1, <3>1, <3>2
  <2>8. \A x \in Ids : \A i \in DOMAIN delivered[x] :
          Rank(delivered[x][i]) <= Reached(x)'
    BY <1>2, <2>3, <1>a
  <2>9. TerminalSettled'
    BY <1>0, <1>e, <2>1 DEF SessionInv, InOrder, TerminalSettled
  <2>10. (\A j \in DOMAIN events : Rank(events[j].what) <= Reached(events[j].op))'
    <3>1. \A j \in DOMAIN events' : events'[j].op \in Ids
      BY <1>0, <1>e, <2>1, <2>2
    <3>. QED
      BY <2>7, <3>1 DEF Reached
  <2>11. DeliveryOrder' /\ (delivering' # NoEvent => delivering'.op \in registered')
    BY <1>0 DEF SessionInv, InOrder, DeliveryOrder
  <2>12. /\ \A j \in DOMAIN events' : \A i \in DOMAIN delivered'[events'[j].op] :
              Rank(delivered'[events'[j].op][i]) < Rank(events'[j].what)
         /\ (\A x \in Ids : \A i \in DOMAIN delivered[x] :
              Rank(delivered[x][i]) <= Reached(x))'
    BY <1>0, <2>6, <2>8
  <2>. QED
    BY <1>1, <2>5, <2>9, <2>10, <2>11, <2>12 DEF InOrder
<1>. QED
  BY <1>0, <1>1, <1>3, <1>4

\* The worker's operation is registered.
LEMMA WorkerRegistered ==
  ASSUME SessionInv, worker.at \in Busy \cup Leaving
  PROVE  worker.op \in registered /\ worker.op \in Ids
BY DEF SessionInv, SessionTypeOK, TableTypeOK, Places, TableInv, EntriesRegistered, Active, Pending

LEMMA ProgressKept ==
  ASSUME SessionInv, TableInv', Started \/ Finished \/ PrintLine
  PROVE  SessionInv'
<1> DEFINE id == worker.op
<1>0. worker \in WorkerStates
  BY DEF SessionInv, SessionTypeOK, WorkerStates
<1>1. /\ UnchangedByWorker /\ UNCHANGED <<tableVars, queue, reply>> /\ worker.at \in Busy
  BY DEF Started, Finished, PrintLine, Busy
<1>2. PICK what \in {"started", "finished", "output"},
           at \in {"checking", "working", "printing", "completing"} :
        /\ Dispatch(id, what)
        /\ worker' = [worker EXCEPT !.at = at]
        /\ Stage(worker.at) < Rank(what) /\ Rank(what) <= Stage(at)
  <2>1. CASE Started
    <3>1. Stage("starting") = 0 /\ Rank("started") = 1
          /\ Stage("checking") = 1 /\ Stage("working") = 1
      BY DEF Stage, Rank
    <3>. QED
      BY <2>1, <3>1 DEF Started, MoveTo, Op
  <2>2. CASE Finished
    <3>1. Stage("publishing") = 1 /\ Rank("finished") = 2
          /\ Stage("printing") = 2 /\ Stage("completing") = 3
      BY DEF Stage, Rank
    <3>. QED
      BY <2>2, <3>1 DEF Finished, MoveTo, Op
  <2>3. CASE PrintLine
    <3>1. Stage("printing") = 2 /\ Rank("output") = 3 /\ Stage("completing") = 3
      BY DEF Stage, Rank
    <3>. QED
      BY <2>3, <3>1 DEF PrintLine, MoveTo, Op
  <2>. QED
    BY <2>1, <2>2, <2>3
<1>3. worker' \in WorkerStates /\ worker'.at = at /\ worker'.op = id /\ at \in Busy
  BY <1>0, <1>2 DEF WorkerStates, Busy
<1>4. KeepsAll
  BY <1>1, MethodsKeep DEF SessionInv
<1>5. DispatcherTypeOK' /\ InOrder'
  <2>1. id \in registered /\ id \in Ids
    BY <1>1, WorkerRegistered
  <2>2. UNCHANGED <<status, registered>>
    BY <1>1 DEF tableVars
  <2>3. /\ Reached(id) = Stage(worker.at) /\ Reached(id)' = Stage(at)
        /\ \A x \in Ids \ {id} : Reached(x)' = Reached(x)
    BY <1>3, <2>2 DEF Reached
  <2>4. what \in Whats /\ what \notin {"result", "error"}
    BY <1>2 DEF Whats
  <2>. QED
    BY <1>2, <2>1, <2>2, <2>3, <2>4, Dispatched
<1>. QED
  BY <1>1, <1>3, <1>4, <1>5, GoesOn DEF SessionInv

\* A settled operation is announced and answered; then the worker is idle.
LEMMA LeavingKept ==
  ASSUME SessionInv, TableInv', DispatcherTypeOK', InOrder', UnchangedByWorker,
         UNCHANGED <<tableVars, queue>>, worker.at \in Leaving,
         \/ worker'.at = "replying" /\ worker'.op = worker.op
         \/ worker' = Idle,
         worker' \in WorkerStates, reply' \in [Ids -> ReplyStates],
         \A id \in Ids : reply'[id] = reply[id] \/ (id = worker.op /\ reply'[id] # "dropped")
  PROVE  SessionInv'
<1>1. SessionTypeOK'
  BY WorkerTyped DEF SessionInv, SessionTypeOK
<1>2. /\ worker.at \notin Ended /\ worker'.at \notin Ended
      /\ worker.at # "init" /\ worker'.at # "init"
      /\ worker'.at \notin Busy /\ worker.op \in registered /\ worker.op \in Ids
      /\ worker.op # NoOp /\ status[worker.op] \notin Active
      /\ worker'.op \in {worker.op, NoOp}
      /\ worker'.at \in Leaving => worker'.op = worker.op
      /\ worker'.at \notin Leaving => worker'.op = NoOp
  BY WorkerRegistered, IdsAssumption
  DEF Busy, Ended, Leaving, Idle, SessionInv, Places
<1>3. Life'
  BY <1>2 DEF SessionInv, Life, UnchangedByWorker
<1>4. Places'
  <2>1. ActiveIsHeld'
    BY <1>2 DEF SessionInv, Places, ActiveIsHeld, Held, UnchangedByWorker, tableVars
  <2>2. \A id \in Ids : id # worker.op => id # worker'.op
    BY <1>2, IdsAssumption
  <2>. QED
    BY <1>2, <2>1, <2>2 DEF SessionInv, Places, Sending, UnchangedByWorker, tableVars
<1>5. Replies'
  <2>1. \A c \in Callers : caller[c].at = "sending" => caller[c].op \in Ids \ {worker.op}
    BY DEF SessionInv, Places, Sending
  <2>2. TimedOutIsCancelled'
    BY <1>2 DEF SessionInv, Replies, TimedOutIsCancelled, UnchangedByWorker, tableVars,
                Active
  <2>. QED
    BY <1>2, <2>1, <2>2 DEF SessionInv, Replies, UnchangedByWorker, tableVars
<1>. QED
  BY <1>1, <1>3, <1>4, <1>5 DEF SessionInv

LEMMA AnnounceKept ==
  ASSUME SessionInv, TableInv', Announce
  PROVE  SessionInv'
<1> DEFINE what == IF worker.result = "ok" THEN "result" ELSE "error"
<1>0. PICK id : id = worker.op
  OBVIOUS
<1>1. /\ worker.at = "announcing" /\ Dispatch(id, what)
      /\ UnchangedByWorker /\ UNCHANGED <<tableVars, queue, reply>>
      /\ worker' = [worker EXCEPT !.at = "replying"] \/ worker' = Idle
  BY <1>0 DEF Announce, MoveTo, Op
<1>2. /\ worker' \in WorkerStates
      /\ worker' = Idle \/ (worker'.at = "replying" /\ worker'.op = id)
  BY <1>0, <1>1 DEF SessionInv, SessionTypeOK, WorkerStates, Idle
<1>3. /\ id \in registered /\ id \in Ids /\ status[id] \notin Active
  BY <1>0, <1>1, WorkerRegistered DEF SessionInv, Places, Leaving
<1>4. DispatcherTypeOK' /\ InOrder'
  <2>1. UNCHANGED <<status, registered>>
    BY <1>1 DEF tableVars
  <2>2. Stage("announcing") = 3 /\ Stage("replying") = 4 /\ Rank(what) = 4
    BY DEF Stage, Rank
  <2>3. Reached(id) = 3 /\ Reached(id)' = 4
    BY <1>0, <1>1, <1>2, <1>3, <2>1, <2>2, IdsAssumption DEF Reached, Idle
  <2>4. \A x \in Ids \ {id} : Reached(x)' = Reached(x)
    BY <1>0, <1>2, <2>1, IdsAssumption DEF Reached, Idle
  <2>5. what \in Whats
    BY DEF Whats
  <2>. QED
    BY <1>1, <1>3, <2>1, <2>2, <2>3, <2>4, <2>5, Dispatched
<1>5. reply \in [Ids -> ReplyStates]
  BY DEF SessionInv, SessionTypeOK, ReplyStates
<1>. QED
  BY <1>1, <1>2, <1>4, <1>5, <1>0, LeavingKept DEF Leaving

LEMMA ReplyKept ==
  ASSUME SessionInv, TableInv', Reply
  PROVE  SessionInv'
<1>0. PICK id : id = worker.op
  OBVIOUS
<1>1. /\ worker.at = "replying" /\ worker' = Idle
      /\ reply' = [reply EXCEPT ![id] = worker.result]
      /\ UnchangedByWorker /\ UNCHANGED <<tableVars, dispatcherVars, queue>>
  BY <1>0 DEF Reply, Op
<1>2. /\ worker' \in WorkerStates /\ worker.result \in {"none", "ok", "error", "cancelled"}
      /\ DispatcherTypeOK'
  BY <1>1 DEF SessionInv, SessionTypeOK, WorkerStates, Idle, DispatcherTypeOK, dispatcherVars
<1>3. /\ id \in registered /\ id \in Ids /\ status[id] \notin Active
  BY <1>0, <1>1, WorkerRegistered DEF SessionInv, Places, Leaving
<1>4. /\ reply' \in [Ids -> ReplyStates]
      /\ \A x \in Ids : reply'[x] = reply[x] \/ (x = id /\ reply'[x] # "dropped")
  BY <1>1, <1>2, <1>3 DEF SessionInv, SessionTypeOK, ReplyStates
<1>5. InOrder'
  <2>1. Reached(id)' = 4
    BY <1>1, <1>3, IdsAssumption DEF Reached, Idle, tableVars
  <2>2. \A x \in Ids \ {id} : Reached(x)' = Reached(x)
    BY <1>0, <1>1, IdsAssumption DEF Reached, Idle, tableVars
  <2>3. \A x \in Ids : Reached(x) <= Reached(x)'
    BY <2>1, <2>2, Ranks
  <2>. QED
    BY <1>1, <2>3, NoEvents DEF tableVars, dispatcherVars
<1>. QED
  BY <1>1, <1>2, <1>4, <1>5, <1>0, LeavingKept DEF Leaving

LEMMA CompleteKept ==
  ASSUME SessionInv, TableInv', CompleteOperation
  PROVE  SessionInv'
<1>0. PICK id : id = worker.op
  OBVIOUS
<1>1. /\ worker.at = "completing" /\ \E outcome \in Outcomes : Complete(id, outcome)
      /\ UnchangedByWorker /\ UNCHANGED <<dispatcherVars, queue, reply>>
      /\ \E at \in Leaving : worker' = [worker EXCEPT !.at = at]
  BY <1>0 DEF CompleteOperation, MoveTo, Op, Outcome, Outcomes, Leaving
<1>2. /\ worker' \in WorkerStates /\ worker'.at \in Leaving /\ worker'.op = id
  BY <1>0, <1>1 DEF SessionInv, SessionTypeOK, WorkerStates, Leaving
<1>3. id \in registered /\ id \in Ids /\ status[id] \in Active
  BY <1>0, <1>1, WorkerRegistered DEF SessionInv, Places, Busy
<1>4. /\ registered' = registered /\ status'[id] \notin Active
      /\ \A x \in Ids \ {id} : Keeps(x)
  BY <1>1, <1>3, EndsOnly DEF SessionInv
<1>5. SessionTypeOK'
  <2>1. DispatcherTypeOK'
    BY <1>1 DEF SessionInv, SessionTypeOK, DispatcherTypeOK, dispatcherVars
  <2>. QED
    BY <1>1, <1>2, <2>1, WorkerTyped DEF SessionInv, SessionTypeOK, ReplyStates
<1>6. /\ worker'.at \notin Busy /\ worker'.at \notin Ended /\ worker'.at # "init"
      /\ worker.at \notin Ended /\ worker.at # "init"
  BY <1>1, <1>2 DEF Busy, Leaving, Ended
<1>7. Life'
  BY <1>1, <1>6 DEF SessionInv, Life, UnchangedByWorker
<1>8. Places'
  <2>0. registered \subseteq Ids
    BY DEF SessionInv, SessionTypeOK, TableTypeOK
  <2>1. ActiveIsHeld'
    BY <1>0, <1>1, <1>2, <1>4
    DEF SessionInv, Places, ActiveIsHeld, Held, UnchangedByWorker, Keeps
  <2>. QED
    BY <1>0, <1>1, <1>2, <1>3, <1>4, <1>6, <2>0, <2>1
    DEF SessionInv, Places, Sending, UnchangedByWorker, Keeps
<1>9. Replies'
  BY <1>1, <1>3, <1>4
  DEF SessionInv, Replies, TimedOutIsCancelled, UnchangedByWorker, Keeps, Active
<1>10. InOrder'
  <2>1. /\ Stage("completing") = 3 /\ \A at \in Leaving : Stage(at) \in {3, 4}
    BY DEF Stage, Leaving
  <2>2. Reached(id) = 3 /\ Reached(id)' \in {3, 4}
    BY <1>0, <1>1, <1>2, <2>1 DEF Reached
  <2>3. \A x \in Ids \ {id} : Reached(x)' = Reached(x)
    BY <1>0, <1>2, <1>4 DEF Reached, Keeps
  <2>4. \A x \in Ids : Reached(x) <= Reached(x)'
    BY <2>2, <2>3, Ranks
  <2>5. \A x \in Ids : status[x] \notin Active => status'[x] \notin Active
    BY <1>3, <1>4 DEF Keeps
  <2>. QED
    BY <1>1, <1>4, <2>4, <2>5, NoEvents DEF dispatcherVars
<1>. QED
  BY <1>5, <1>7, <1>8, <1>9, <1>10 DEF SessionInv

\* The worker takes the next command; Shutdown is always the last.
LEMMA ReceiveKept ==
  ASSUME SessionInv, TableInv', ReceiveCommand
  PROVE  SessionInv'
<1> DEFINE S == Ids \cup {Shutdown}
<1>1. /\ worker.at = "receiving" /\ queue # <<>> /\ queue' = Tail(queue)
      /\ UnchangedByWorker /\ UNCHANGED <<tableVars, dispatcherVars, reply>>
      /\ IF Head(queue) = Shutdown
         THEN worker' = [worker EXCEPT !.at = "exiting"]
         ELSE worker' = [at |-> "dequeued", op |-> Head(queue), result |-> "none"]
  BY DEF ReceiveCommand, MoveTo
<1>2. /\ queue \in Seq(S) /\ Len(queue) \in Nat \ {0} /\ DOMAIN queue = 1..Len(queue)
      /\ NoRepeats(queue) /\ Len(queue) <= QueueCapacity
      /\ worker.op = NoOp /\ phase = "open" /\ worker \in WorkerStates
  BY <1>1, EmptySeq, LenProperties
  DEF SessionInv, SessionTypeOK, Places, Life, Busy, Leaving, WorkerStates
<1>3. /\ queue' \in Seq(S) /\ Len(queue') = Len(queue) - 1
      /\ Head(queue) \in S /\ Head(queue) \in ToSet(queue) /\ Head(queue) = queue[1]
      /\ ToSet(queue') = ToSet(queue) \ {Head(queue)}
      /\ NoRepeats(queue')
      /\ \A i \in 1..Len(queue') : queue'[i] = queue[i + 1]
      /\ DOMAIN queue' = 1..Len(queue')
  BY <1>1, <1>2, TailNoRepeats, HeadTailProperties, LenProperties
<1>4. \A i \in DOMAIN queue' : queue'[i] = Shutdown => i = Len(queue')
  <2>1. \A i \in DOMAIN queue : queue[i] = Shutdown => i = Len(queue)
    BY DEF SessionInv, Life
  <2>. QED
    BY <1>2, <1>3, <2>1
<1>5. DispatcherTypeOK'
  BY <1>1 DEF SessionInv, SessionTypeOK, DispatcherTypeOK, dispatcherVars
<1>6. worker' \in WorkerStates => SessionTypeOK'
  <2>1. Len(queue') <= QueueCapacity
    BY <1>2, <1>3, QueueCapacityAssumption
  <2>. QED
    BY <1>1, <1>3, <1>5, <2>1, WorkerTyped DEF SessionInv, SessionTypeOK, ReplyStates
<1>7. Replies'
  BY <1>1 DEF SessionInv, Replies, TimedOutIsCancelled, UnchangedByWorker, tableVars
<1>8. CASE Head(queue) = Shutdown
  <2>1. worker' \in WorkerStates /\ worker'.at = "exiting" /\ worker'.op = NoOp
    BY <1>1, <1>2, <1>8 DEF WorkerStates
  <2>2. queue' = <<>>
    <3>1. Len(queue) = 1
      BY <1>2, <1>3, <1>8 DEF SessionInv, Life
    <3>. QED
      BY <1>3, <3>1, EmptySeq
  <2>3. ~handle
    BY <1>3, <1>8 DEF SessionInv, Life
  <2>4. Life'
    BY <1>1, <1>2, <1>4, <2>1, <2>2, <2>3 DEF SessionInv, Life, UnchangedByWorker, Ended
  <2>5. Places'
    <3>1. \A id \in Ids : id \in ToSet(queue') <=> id \in ToSet(queue)
      BY <1>3, <1>8, ShutdownAssumption
    <3>2. ActiveIsHeld'
      BY <1>1, <1>2, <2>1, <3>1 DEF SessionInv, Places, ActiveIsHeld, Held, UnchangedByWorker, tableVars
    <3>3. worker'.at \notin Busy \cup Leaving
      BY <2>1 DEF Busy, Leaving
    <3>. QED
      BY <1>1, <1>2, <1>3, <2>1, <3>1, <3>2, <3>3
      DEF SessionInv, Places, Sending, UnchangedByWorker, tableVars
  <2>6. InOrder'
    <3>1. \A x \in Ids : Reached(x)' = Reached(x)
      BY <1>1, <1>2, <2>1, IdsAssumption DEF Reached, tableVars
    <3>. QED
      BY <1>1, <3>1, Ranks, NoEvents DEF tableVars, dispatcherVars
  <2>. QED
    BY <1>6, <1>7, <2>1, <2>4, <2>5, <2>6 DEF SessionInv
<1>9. CASE Head(queue) # Shutdown
  <2>0. PICK id \in Ids : id = Head(queue)
    BY <1>3, <1>9
  <2>1. /\ worker' = [at |-> "dequeued", op |-> id, result |-> "none"]
        /\ id \in ToSet(queue) /\ ToSet(queue') = ToSet(queue) \ {id}
    BY <1>1, <1>3, <1>9, <2>0
  <2>2. worker' \in WorkerStates /\ worker'.at = "dequeued" /\ worker'.op = id
    BY <2>1 DEF WorkerStates
  <2>3. status[id] \in Active /\ id # NoOp /\ id # worker.op
    BY <2>1, IdsAssumption DEF SessionInv, Places
  <2>4. Life'
    BY <1>1, <1>2, <1>4, <2>1, <2>2 DEF SessionInv, Life, UnchangedByWorker, Ended
  <2>5. Places'
    <3>1. ActiveIsHeld'
      BY <1>1, <1>2, <2>1, <2>2, IdsAssumption
      DEF SessionInv, Places, ActiveIsHeld, Held, UnchangedByWorker, tableVars
    <3>2. worker'.at \in Busy /\ worker'.at \notin Leaving
      BY <2>2 DEF Busy, Leaving
    <3>. QED
      BY <1>1, <1>2, <1>3, <2>1, <2>2, <2>3, <3>1, <3>2
      DEF SessionInv, Places, Sending, UnchangedByWorker, tableVars
  <2>6. InOrder'
    <3>1. Stage("dequeued") = 0
      BY DEF Stage
    <3>2. Reached(id) = 0 /\ Reached(id)' = 0
      BY <2>2, <2>3, <3>1 DEF Reached
    <3>3. \A x \in Ids \ {id} : Reached(x)' = Reached(x)
      BY <1>1, <1>2, <2>2, IdsAssumption DEF Reached, tableVars
    <3>4. \A x \in Ids : Reached(x) <= Reached(x)'
      BY <3>2, <3>3, Ranks
    <3>. QED
      BY <1>1, <3>4, NoEvents DEF tableVars, dispatcherVars
  <2>. QED
    BY <1>6, <1>7, <2>2, <2>4, <2>5, <2>6 DEF SessionInv
<1>. QED
  BY <1>8, <1>9

\* The worker stops when nothing can reach it, with its queue drained.
LEMMA ExitKept ==
  ASSUME SessionInv, TableInv', QueueClosed \/ SignalExit \/ WorkerExits
  PROVE  SessionInv'
<1>1. /\ worker.at \in {"receiving", "exiting", "signaled"}
      /\ \E at \in Ended : worker' = [worker EXCEPT !.at = at]
      /\ queue = <<>> /\ queue' = <<>>
      /\ worker.at = "receiving" => ~senderOpen
      /\ UnchangedByWorker /\ UNCHANGED <<tableVars, dispatcherVars>>
  BY DEF QueueClosed, SignalExit, WorkerExits, MoveTo, Internal, SessionInv, Life, Ended
<1>2. reply' = reply
  <2>1. CASE QueueClosed \/ SignalExit
    BY <2>1 DEF QueueClosed, SignalExit, Internal
  <2>2. CASE WorkerExits
    BY <1>1, <2>2 DEF WorkerExits, SessionInv, SessionTypeOK, ToSet
  <2>. QED
    BY <2>1, <2>2
<1>3. /\ worker' \in WorkerStates /\ worker'.at \in Ended /\ worker'.op = worker.op
      /\ worker'.at \notin Busy \cup Leaving /\ worker.at \notin Busy \cup Leaving
      /\ worker'.at # "init" /\ worker.at # "init"
  BY <1>1 DEF SessionInv, SessionTypeOK, WorkerStates, Ended, Busy, Leaving
<1>4. SessionTypeOK'
  <2>1. DispatcherTypeOK'
    BY <1>1 DEF SessionInv, SessionTypeOK, DispatcherTypeOK, dispatcherVars
  <2>. QED
    BY <1>1, <1>2, <1>3, <2>1, WorkerTyped DEF SessionInv, SessionTypeOK, ReplyStates
<1>5. Life'
  <2>1. ~handle /\ (phase = "initializing" /\ ready = "ok" => FALSE)
    BY <1>1 DEF SessionInv, Life, Ended
  <2>. QED
    BY <1>1, <1>3, <2>1 DEF SessionInv, Life, UnchangedByWorker
<1>6. KeepsAll
  BY <1>1, MethodsKeep DEF SessionInv
<1>7. Places' /\ Replies' /\ InOrder'
  BY <1>1, <1>2, <1>3, <1>6, Apart DEF UnchangedByWorker, dispatcherVars
<1>. QED
  BY <1>4, <1>5, <1>7 DEF SessionInv

-----------------------------------------------------------------------------
(* The dispatcher *)

LEMMA DispatcherKept ==
  ASSUME SessionInv, TableInv', DispatcherStep, UNCHANGED <<tableVars, sessionVars>>
  PROVE  SessionInv'
<1> DEFINE n == Len(events)
<1>1. /\ SessionTypeOK /\ events \in Seq(Event) /\ delivered \in [Ids -> Seq(Whats)]
      /\ n \in Nat /\ DOMAIN events = 1..n
  BY LenProperties DEF SessionInv, SessionTypeOK, DispatcherTypeOK
<1>2. Life' /\ Replies' /\ Places'
  BY DEF SessionInv, Life, Replies, TimedOutIsCancelled, Places, ActiveIsHeld, Held,
         sessionVars, tableVars
<1>3. DispatcherTypeOK' => SessionTypeOK'
  <2>1. TableTypeOK'
    BY DEF TableInv
  <2>. QED
    BY <1>1, <2>1 DEF SessionTypeOK, sessionVars
<1>4. \A id : Reached(id)' = Reached(id)
  BY DEF Reached, sessionVars, tableVars
<1>5. CASE CallbackReturns \/ CallbackPanics \/ DispatcherExits
  <2>1. /\ events' = events \/ events' = <<>>
        /\ delivering' = delivering \/ delivering' = NoEvent
        /\ dispatcher' \in {"receiving", "calling", "exited"}
        /\ UNCHANGED <<callbackSet, txOpen, delivered>>
    BY <1>5 DEF CallbackReturns, CallbackPanics, DispatcherExits
  <2>2. DispatcherTypeOK'
    <3>1. events' \in Seq(Event)
      BY <1>1, <2>1, EmptySeq
    <3>. QED
      BY <1>1, <2>1, <3>1 DEF SessionTypeOK, DispatcherTypeOK
  <2>3. DOMAIN events' \subseteq DOMAIN events /\ \A j \in DOMAIN events' : events'[j] = events[j]
    BY <2>1, EmptySeq
  <2>4. (\A j \in DOMAIN events : Rank(events[j].what) <= Reached(events[j].op))'
    BY <1>4, <2>3 DEF SessionInv, InOrder, Reached, sessionVars, tableVars
  <2>5. TerminalSettled'
    BY <2>1, <2>3 DEF SessionInv, InOrder, TerminalSettled, NoEvent, ToSet, tableVars
  <2>6. InOrder'
    BY <1>4, <2>1, <2>3, <2>4, <2>5
    DEF SessionInv, InOrder, DeliveryOrder, NoEvent, tableVars
  <2>. QED
    BY <1>2, <1>3, <2>2, <2>6 DEF SessionInv
<1>6. CASE DropEvent \/ Deliver
  <2>1. /\ events # <<>> /\ events' = Tail(events)
        /\ UNCHANGED <<callbackSet, txOpen>>
        /\ \/ UNCHANGED <<dispatcher, delivering, delivered>>
           \/ /\ dispatcher' = "calling" /\ delivering' = Head(events)
              /\ delivered' = [delivered EXCEPT ![Head(events).op] =
                                 Append(@, Head(events).what)]
    BY <1>6 DEF DropEvent, Deliver
  <2>2. /\ n \in Nat \ {0} /\ 1 \in DOMAIN events /\ Head(events) = events[1]
        /\ events' \in Seq(Event) /\ DOMAIN events' = 1..(n - 1)
        /\ \A j \in DOMAIN events' : j + 1 \in DOMAIN events /\ events'[j] = events[j + 1]
    BY <1>1, <2>1, EmptySeq, HeadTailProperties, LenProperties
  <2>3. \A j \in DOMAIN events :
          /\ events[j] \in Event /\ events[j].op \in Ids /\ events[j].what \in Whats
          /\ events[j].op \in registered
    BY EventsRegistered DEF Event
  <2>4. (\A j \in DOMAIN events : Rank(events[j].what) <= Reached(events[j].op))'
    BY <1>4, <2>2 DEF SessionInv, InOrder, Reached, sessionVars, tableVars
  <2>5. (\A i, j \in DOMAIN events :
           i < j /\ events[i].op = events[j].op => Rank(events[i].what) < Rank(events[j].what))'
    <3>1. ASSUME NEW i \in DOMAIN events', NEW j \in DOMAIN events', i < j,
                 events'[i].op = events'[j].op
          PROVE  Rank(events'[i].what) < Rank(events'[j].what)
      <4>1. /\ i + 1 \in DOMAIN events /\ j + 1 \in DOMAIN events
            /\ events'[i] = events[i + 1] /\ events'[j] = events[j + 1]
        BY <2>2
      <4>2. i \in 1..(n - 1) /\ j \in 1..(n - 1)
        BY <2>2
      <4>3. i + 1 < j + 1
        BY <2>2, <3>1, <4>2
      <4>. QED
        BY <3>1, <4>1, <4>3 DEF SessionInv, InOrder
    <3>. QED
      BY <3>1
  <2>a. ToSet(events') \subseteq ToSet(events) /\ Head(events) \in ToSet(events)
    BY <2>2 DEF ToSet
  <2>b. /\ dispatcher \in {"receiving", "calling", "exited"} /\ delivering \in Event \cup {NoEvent}
        /\ callbackSet \in BOOLEAN /\ txOpen \in BOOLEAN
    BY <1>1 DEF SessionTypeOK, DispatcherTypeOK
  <2>6. CASE UNCHANGED <<dispatcher, delivering, delivered>>
    <3>1. DispatcherTypeOK'
      BY <1>1, <2>1, <2>2, <2>6, <2>b DEF DispatcherTypeOK
    <3>2. (\A j \in DOMAIN events : \A i \in DOMAIN delivered[events[j].op] :
             Rank(delivered[events[j].op][i]) < Rank(events[j].what))'
      BY <2>2, <2>6 DEF SessionInv, InOrder
    <3>3. /\ DeliveryOrder'
          /\ (\A id \in Ids : \A i \in DOMAIN delivered[id] :
                Rank(delivered[id][i]) <= Reached(id))'
          /\ (delivering # NoEvent => delivering.op \in registered)'
      BY <1>4, <2>6 DEF SessionInv, InOrder, DeliveryOrder, tableVars
    <3>4. TerminalSettled'
      BY <2>6, <2>a DEF SessionInv, InOrder, TerminalSettled, tableVars
    <3>5. InOrder'
      BY <2>4, <2>5, <3>2, <3>3, <3>4 DEF InOrder
    <3>. QED
      BY <1>2, <1>3, <3>1, <3>5 DEF SessionInv
  <2>7. CASE /\ dispatcher' = "calling" /\ delivering' = Head(events)
             /\ delivered' = [delivered EXCEPT ![Head(events).op] =
                                 Append(@, Head(events).what)]
    <3>0. PICK e \in Event : e = events[1] /\ e.op \in Ids /\ e.op \in registered
      BY <2>2, <2>3
    <3> DEFINE s == delivered[e.op]
               t == delivered'[e.op]
    <3>1. /\ t = Append(s, e.what) /\ s \in Seq(Whats)
          /\ \A id \in Ids \ {e.op} : delivered'[id] = delivered[id]
          /\ e.what \in Whats
      BY <1>1, <2>2, <2>3, <2>7, <3>0
    <3>2. /\ t \in Seq(Whats) /\ Len(s) \in Nat /\ DOMAIN s = 1..Len(s)
          /\ DOMAIN t = 1..(Len(s) + 1) /\ t[Len(s) + 1] = e.what
          /\ \A i \in 1..Len(s) : t[i] = s[i]
      BY <3>1, AppendProperties, LenProperties
    <3>3. DispatcherTypeOK'
      <4>1. delivered' \in [Ids -> Seq(Whats)]
        BY <1>1, <2>7, <3>1, <3>2
      <4>. QED
        BY <2>1, <2>2, <2>3, <2>7, <2>b, <4>1 DEF DispatcherTypeOK
    <3>4. /\ \A i \in DOMAIN s : Rank(s[i]) < Rank(e.what) /\ Rank(s[i]) <= Reached(e.op)
          /\ Rank(e.what) <= Reached(e.op)
          /\ \A i, j \in DOMAIN s : i < j => Rank(s[i]) < Rank(s[j])
      BY <2>2, <3>0 DEF SessionInv, InOrder, DeliveryOrder
    <3>5. ASSUME NEW j \in DOMAIN events', NEW i \in DOMAIN delivered'[events'[j].op]
          PROVE  Rank(delivered'[events'[j].op][i]) < Rank(events'[j].what)
      <4>1. /\ j + 1 \in DOMAIN events /\ events'[j] = events[j + 1]
            /\ events[j + 1].op \in Ids /\ 1 < j + 1 /\ 1 \in DOMAIN events
        BY <2>2, <2>3
      <4>2. \A k \in DOMAIN delivered[events[j + 1].op] :
              Rank(delivered[events[j + 1].op][k]) < Rank(events[j + 1].what)
        BY <4>1 DEF SessionInv, InOrder
      <4>3. CASE events[j + 1].op = e.op
        <5>1. Rank(e.what) < Rank(events[j + 1].what)
          BY <3>0, <4>1, <4>3 DEF SessionInv, InOrder
        <5>2. i \in 1..(Len(s) + 1)
          BY <3>2, <3>5, <4>1, <4>3
        <5>3. delivered'[events'[j].op] = t /\ events'[j].what = events[j + 1].what
          BY <4>1, <4>3
        <5>4. CASE i = Len(s) + 1
          BY <3>2, <5>1, <5>3, <5>4
        <5>5. CASE i # Len(s) + 1
          <6>1. i \in 1..Len(s)
            BY <3>2, <5>2, <5>5
          <6>2. t[i] = s[i] /\ i \in DOMAIN s
            BY <3>2, <6>1
          <6>. QED
            BY <4>2, <4>3, <5>3, <6>2
        <5>. QED
          BY <5>4, <5>5
      <4>4. CASE events[j + 1].op # e.op
        BY <3>1, <3>5, <4>1, <4>2, <4>4
      <4>. QED
        BY <4>3, <4>4
    <3>6. DeliveryOrder'
      <4>1. ASSUME NEW i \in DOMAIN t, NEW j \in DOMAIN t, i < j
            PROVE  Rank(t[i]) < Rank(t[j])
        <5>1. i \in 1..Len(s) /\ j \in 1..(Len(s) + 1)
          BY <3>2, <4>1
        <5>2. t[i] = s[i] /\ i \in DOMAIN s
          BY <3>2, <5>1
        <5>3. CASE j = Len(s) + 1
          BY <3>2, <3>4, <5>2, <5>3
        <5>4. CASE j # Len(s) + 1
          <6>1. j \in 1..Len(s)
            BY <3>2, <5>1, <5>4
          <6>2. t[j] = s[j] /\ j \in DOMAIN s
            BY <3>2, <6>1
          <6>. QED
            BY <3>4, <4>1, <5>2, <6>2
        <5>. QED
          BY <5>3, <5>4
      <4>. QED
        BY <3>1, <4>1 DEF SessionInv, InOrder, DeliveryOrder
    <3>7. (\A id \in Ids : \A i \in DOMAIN delivered[id] :
             Rank(delivered[id][i]) <= Reached(id))'
      <4>1. \A i \in DOMAIN t : Rank(t[i]) <= Reached(e.op)
        BY <3>2, <3>4
      <4>. QED
        BY <1>4, <3>1, <4>1 DEF SessionInv, InOrder
    <3>8. /\ (delivering # NoEvent => delivering.op \in registered)'
          /\ TerminalSettled'
      BY <2>2, <2>7, <2>a, <3>0 DEF SessionInv, InOrder, TerminalSettled, tableVars
    <3>9. InOrder'
      BY <2>4, <2>5, <3>5, <3>6, <3>7, <3>8 DEF InOrder
    <3>. QED
      BY <1>2, <1>3, <3>3, <3>9 DEF SessionInv
  <2>. QED
    BY <2>1, <2>6, <2>7
<1>. QED
  BY <1>5, <1>6 DEF DispatcherStep

-----------------------------------------------------------------------------
(* The theorems *)

LEMMA SessionInvInit == SessionInit => SessionInv
<1> SUFFICES ASSUME SessionInit
             PROVE  SessionInv
  OBVIOUS
<1>1. TableInv
  BY TableInvInit DEF SessionInit
<1>2. DispatcherTypeOK
  BY EmptySeq DEF SessionInit, DispatcherInit, DispatcherTypeOK
<1>3. SessionTypeOK
  <2>1. queue \in Seq(Ids \cup {Shutdown}) /\ Len(queue) <= QueueCapacity
    BY EmptySeq, QueueCapacityAssumption DEF SessionInit
  <2>2. TableTypeOK
    BY <1>1 DEF TableInv
  <2>3. worker \in WorkerStates
    BY DEF SessionInit, WorkerStates
  <2>4. caller \in [Callers -> CallerStates]
    BY DEF SessionInit, CallerStates
  <2>5. /\ request \in [Ids -> Requests \cup {NoOp}] /\ reply \in [Ids -> ReplyStates]
        /\ workerLock \in Callers \cup {Closer, "free"}
    BY DEF SessionInit, ReplyStates
  <2>6. /\ phase \in {"initializing", "open", "failed"}
        /\ ready \in {"pending", "ok", "failed"}
        /\ closer \in {"idle", "cancelled", "joining", "dropHandle", "draining", "gone"}
    BY DEF SessionInit
  <2>7. /\ handle \in BOOLEAN /\ senderOpen \in BOOLEAN /\ dropping \in BOOLEAN
        /\ nextId \in Nat /\ waits \in 0..2
    <3>1. handle \in BOOLEAN /\ senderOpen \in BOOLEAN /\ dropping \in BOOLEAN
      BY Zenon DEF SessionInit
    <3>2. nextId = 0 /\ waits = 0
      BY DEF SessionInit
    <3>. QED
      BY <3>1, <3>2
  <2>. QED
    BY <1>2, <2>1, <2>2, <2>3, <2>4, <2>5, <2>6, <2>7
    DEF SessionTypeOK, WorkerStates, CallerStates, ReplyStates
<1>4. DOMAIN <<>> = {} /\ ToSet(<<>>) = {}
  BY DEF ToSet
<1>5. Life
  BY <1>4 DEF SessionInit, Life, Sending, Ended
<1>6. Places
  BY <1>4 DEF SessionInit, TableInit, Places, NoRepeats, ActiveIsHeld, Held, Busy, Leaving, Sending,
              Active, Pending
<1>7. Replies
  BY DEF SessionInit, Replies, TimedOutIsCancelled
<1>8. InOrder
  <2>1. /\ events = <<>> /\ delivering = NoEvent /\ ToSet(events) = {}
        /\ \A id \in Ids : delivered[id] = <<>>
        /\ \A j : j \notin DOMAIN events
    BY <1>4 DEF SessionInit, DispatcherInit
  <2>2. \A id \in Ids : \A i : i \notin DOMAIN delivered[id]
    BY <1>4, <2>1
  <2>3. TerminalSettled
    BY <2>1 DEF TerminalSettled, NoEvent
  <2>4. DeliveryOrder
    BY <2>2 DEF DeliveryOrder
  <2>. QED
    BY ONLY <2>1, <2>2, <2>3, <2>4 DEF InOrder
<1>. QED
  BY <1>1, <1>3, <1>5, <1>6, <1>7, <1>8 DEF SessionInv

LEMMA SessionInvStep == SessionInv /\ [Next]_vars => SessionInv'
<1> SUFFICES ASSUME SessionInv, [Next]_vars
             PROVE  SessionInv'
  OBVIOUS
<1>1. TableInv'
  BY TableKept
<1>2. CASE InitSucceeds \/ InitFails \/ ConstructorReturns \/ ConstructorFails
           \/ ReleaseDispatcher
  BY <1>1, <1>2, ConstructorKept
<1>3. CASE \E c \in Callers : Enqueue(c) \/ CallerStep(c)
  BY <1>1, <1>3, EnqueueKept, SendKept, RollbackKept, RequestKept DEF CallerStep
<1>4. CASE \/ Cancel \/ InstallCallback
           \/ \E id \in Ids : CancelOne(id) \/ Take(id)
           \/ UNCHANGED vars
  BY <1>1, <1>4, MethodsKept
<1>5. CASE ShutdownBegins \/ CloserStep
  BY <1>1, <1>5, ShutdownKept, TakeHandleKept DEF CloserStep
<1>6. CASE WorkerStep \/ InterpreterStep
  BY <1>1, <1>6, InternalKept, ProgressKept, AnnounceKept, ReplyKept, CompleteKept,
     ReceiveKept, ExitKept
  DEF WorkerStep
<1>7. CASE DispatcherStep /\ UNCHANGED <<tableVars, sessionVars>>
  BY <1>1, <1>7, DispatcherKept
<1>. QED
  BY <1>2, <1>3, <1>4, <1>5, <1>6, <1>7 DEF Next

\* Whatever the callers, the worker, the dispatcher and the shutdown do, and in
\* whatever order, SessionInv holds throughout.
THEOREM SessionInvariance == SafetySpec => []SessionInv
BY SessionInvInit, SessionInvStep, PTL DEF SafetySpec

\* The session's variables stay in their types: the queue within its capacity,
\* and no shutdown waits more than twice.
THEOREM SessionTyped == SafetySpec => []SessionTypeOK
BY SessionInvariance, PTL DEF SessionInv

\* Every operation that the table calls active is being sent, queued or with
\* the worker.
THEOREM NothingStranded == SafetySpec => []ActiveIsHeld
<1>1. SessionInv => ActiveIsHeld
  BY DEF SessionInv, Places
<1>. QED
  BY <1>1, SessionInvariance, PTL

\* A request that timed out leaves no operation that runs on uncancelled.
THEOREM TimeoutsCancel == SafetySpec => []TimedOutIsCancelled
<1>1. SessionInv => TimedOutIsCancelled
  BY DEF SessionInv, Replies
<1>. QED
  BY <1>1, SessionInvariance, PTL

-----------------------------------------------------------------------------
(* What a terminal event says is what the table has of its operation.       *)
(* Between the completion and the announcement only the worker knows which  *)
(* event it will send, so the invariant speaks of that one, too.            *)

\* An operation with status s may be announced with a what event.
Told(what, s) ==
  /\ what = "result" => s \in {"succeeded", "absent"}
  /\ what = "error"  => s \in {"failed", "cancelled", "absent"}

Announced(result) == IF result = "ok" THEN "result" ELSE "error"

Tidings ==
  /\ \A event \in ToSet(events) \cup {delivering} : Told(event.what, status[event.op])
  /\ worker.at = "announcing" => Told(Announced(worker.result), status[worker.op])

\* Only the worker and the dispatcher touch the channel, and of the worker's
\* steps only the announcement dispatches a terminal event.
LEMMA ChannelSteps ==
  ASSUME [Next]_vars
  PROVE  \/ UNCHANGED <<events, delivering>>
         \/ /\ worker.at \in Busy
            /\ \E what \in {"started", "finished", "output"} : Dispatch(worker.op, what)
         \/ worker.at = "announcing" /\ Dispatch(worker.op, Announced(worker.result))
         \/ DispatcherStep
<1>1. CASE \/ InitSucceeds \/ InitFails \/ ConstructorReturns \/ ConstructorFails
           \/ ReleaseDispatcher
  BY <1>1 DEF InitSucceeds, InitFails, ConstructorReturns, ConstructorFails,
              ReleaseDispatcher, CloseTx, dispatcherVars
<1>2. CASE \E c \in Callers : Enqueue(c) \/ CallerStep(c)
  BY <1>2 DEF Enqueue, CallerStep, Send, SendFails, Rollback, ReceiveReply, TimeOut,
              CancelTimedOut, dispatcherVars
<1>3. CASE \/ Cancel \/ InstallCallback \/ \E id \in Ids : CancelOne(id) \/ Take(id)
           \/ UNCHANGED vars
  BY <1>3 DEF Cancel, InstallCallback, CancelOne, Take, SetCallback, dispatcherVars, vars
<1>4. CASE ShutdownBegins \/ CloserStep
  BY <1>4 DEF ShutdownBegins, CloserStep, TakeHandle, NoHandle, JoinTimesOut, HandleDropped,
              DispatcherJoined, dispatcherVars
<1>5. CASE Started \/ Finished \/ PrintLine \/ Announce
  BY <1>5 DEF Started, Finished, PrintLine, Announce, Announced, Op, Busy
<1>6. CASE \/ ReceiveCommand \/ QueueClosed \/ SignalExit \/ WorkerExits
           \/ BeginOperation \/ CheckToken
           \/ RecheckToken \/ PrintNothing \/ CompleteOperation \/ Reply
  BY <1>6 DEF ReceiveCommand, QueueClosed, SignalExit, WorkerExits, BeginOperation, CheckToken,
              RecheckToken, PrintNothing, CompleteOperation, Reply, Internal, dispatcherVars
<1>7. CASE InterpreterStep
  BY <1>7 DEF InterpreterStep, CancellableReturns, PlainReturns, RenderReturns, Internal,
              dispatcherVars
<1>8. CASE DispatcherStep
  BY <1>8
<1>. QED
  BY <1>1, <1>2, <1>3, <1>4, <1>5, <1>6, <1>7, <1>8 DEF Next, WorkerStep

\* What the channel holds after the dispatcher's or the worker's step.
LEMMA ChannelContents ==
  ASSUME events \in Seq(Event)
  PROVE  /\ events # <<>> => /\ Head(events) \in ToSet(events)
                             /\ ToSet(Tail(events)) \subseteq ToSet(events)
         /\ \A e \in Event : ToSet(Append(events, e)) \subseteq ToSet(events) \cup {e}
         /\ ToSet(<<>>) = {}
<1> DEFINE n == Len(events)
<1>1. n \in Nat /\ DOMAIN events = 1..n
  BY LenProperties
<1>2. ASSUME events # <<>>
      PROVE  Head(events) \in ToSet(events) /\ ToSet(Tail(events)) \subseteq ToSet(events)
  <2>1. n >= 1 /\ Head(events) = events[1]
    BY <1>1, <1>2, EmptySeq
  <2>2. DOMAIN Tail(events) = 1..(n - 1) /\ \A i \in 1..(n - 1) : Tail(events)[i] = events[i + 1]
    BY <1>2, HeadTailProperties, LenProperties
  <2>. QED
    BY <1>1, <2>1, <2>2 DEF ToSet
<1>3. ASSUME NEW e \in Event
      PROVE  ToSet(Append(events, e)) \subseteq ToSet(events) \cup {e}
  <2>1. /\ DOMAIN Append(events, e) = 1..(n + 1) /\ Append(events, e)[n + 1] = e
        /\ \A i \in 1..n : Append(events, e)[i] = events[i]
    BY AppendProperties, LenProperties
  <2>. QED
    BY <1>1, <2>1 DEF ToSet
<1>4. ToSet(<<>>) = {}
  BY EmptySeq DEF ToSet
<1>. QED
  BY <1>2, <1>3, <1>4

\* An event that waits after a step waited before it or was dispatched by it.
LEMMA EventSources ==
  ASSUME SessionInv, [Next]_vars, NEW event \in ToSet(events') \cup {delivering'}
  PROVE  \/ event \in ToSet(events) \cup {delivering}
         \/ event.what \notin {"result", "error"}
         \/ /\ worker.at = "announcing"
            /\ event = [op |-> worker.op, what |-> Announced(worker.result)]
<1>1. events \in Seq(Event)
  BY DEF SessionInv, SessionTypeOK, DispatcherTypeOK
<1>2. worker.at \in Busy \cup Leaving => worker.op \in Ids
  BY DEF SessionInv, SessionTypeOK, TableTypeOK, Places
<1>3. ASSUME NEW what \in Whats, Dispatch(worker.op, what), worker.at \in Busy \cup Leaving
      PROVE  event \in ToSet(events) \cup {delivering, [op |-> worker.op, what |-> what]}
  <2>1. [op |-> worker.op, what |-> what] \in Event
    BY <1>2, <1>3 DEF Event
  <2>. QED
    BY <1>1, <1>3, <2>1, ChannelContents DEF Dispatch
<1>4. CASE /\ worker.at \in Busy
           /\ \E what \in {"started", "finished", "output"} : Dispatch(worker.op, what)
  <2>1. PICK what \in {"started", "finished", "output"} : Dispatch(worker.op, what)
    BY <1>4
  <2>2. what \in Whats /\ what \notin {"result", "error"}
    BY DEF Whats
  <2>3. event \in ToSet(events) \cup {delivering, [op |-> worker.op, what |-> what]}
    BY <1>3, <1>4, <2>1, <2>2
  <2>. QED
    BY <2>2, <2>3
<1>5. CASE worker.at = "announcing" /\ Dispatch(worker.op, Announced(worker.result))
  <2>1. Announced(worker.result) \in Whats /\ worker.at \in Leaving
    BY <1>5 DEF Announced, Whats, Leaving
  <2>. QED
    BY <1>3, <1>5, <2>1
<1>6. CASE DispatcherStep
  <2>1. \/ event \in ToSet(events) \cup {delivering}
        \/ event = NoEvent
    BY <1>1, <1>6, ChannelContents
    DEF DispatcherStep, DropEvent, Deliver, CallbackReturns, CallbackPanics, DispatcherExits
  <2>. QED
    BY <2>1 DEF NoEvent
<1>. QED
  BY <1>4, <1>5, <1>6, ChannelSteps

\* The operation of an event that waits, and one that is announced, is settled
\* and can only be taken, evicted or dropped from the table.
LEMMA SettledStays ==
  ASSUME SessionInv, [Next]_vars, NEW id \in registered,
         NEW what, Told(what, status[id]), what \in {"result", "error"}
  PROVE  Told(what, status'[id])
<1>1. [TableNext]_tableVars /\ TableInv
  BY TableStep DEF SessionInv
<1>2. id \in Ids
  BY <1>1 DEF TableInv, TableTypeOK
<1>. QED
  BY <1>1, <1>2, OutcomeStep DEF Told, Outcomes

\* complete() leaves the outcome it was given, or no entry.
LEMMA CompleteRecords ==
  ASSUME TableInv, NEW id \in Ids, NEW outcome \in Outcomes, Complete(id, outcome)
  PROVE  status'[id] \in {outcome, "absent"}
<1> USE DEF TableInv, TableTypeOK
<1>1. CASE CompleteUnretained(id)
  BY <1>1 DEF CompleteUnretained
<1>2. CASE CompleteRetained(id, outcome)
  BY <1>2 DEF CompleteRetained
<1>3. CASE CompleteEvicting(id, outcome)
  <2> DEFINE evicted == Head(Append(fifo, id))
  <2>1. status' = [[status EXCEPT ![id] = outcome] EXCEPT ![evicted] = "absent"]
    BY <1>3 DEF CompleteEvicting
  <2> HIDE DEF evicted
  <2>. QED
    BY <2>1
<1>. QED
  BY <1>1, <1>2, <1>3 DEF Complete

\* The worker comes to the announcement by completing the operation.
LEMMA AnnouncementComes ==
  ASSUME SessionInv, [Next]_vars, worker'.at = "announcing"
  PROVE  worker' = worker \/ CompleteOperation
<1>0. worker \in WorkerStates
  BY DEF SessionInv, SessionTypeOK, WorkerStates
<1> USE DEF MoveTo, WorkerStates
<1>1. CASE \/ InitSucceeds \/ InitFails \/ ConstructorReturns \/ ConstructorFails
           \/ ReleaseDispatcher
  BY <1>0, <1>1 DEF InitSucceeds, InitFails, ConstructorReturns, ConstructorFails,
              ReleaseDispatcher, sessionVars
<1>2. CASE \E c \in Callers : Enqueue(c) \/ CallerStep(c)
  BY <1>2 DEF Enqueue, CallerStep, Send, SendFails, Rollback, ReceiveReply, TimeOut,
              CancelTimedOut
<1>3. CASE \/ Cancel \/ InstallCallback \/ \E id \in Ids : CancelOne(id) \/ Take(id)
           \/ UNCHANGED vars
           \/ DispatcherStep /\ UNCHANGED <<tableVars, sessionVars>>
  BY <1>3 DEF Cancel, InstallCallback, CancelOne, Take, sessionVars, vars
<1>4. CASE ShutdownBegins \/ CloserStep
  BY <1>4 DEF ShutdownBegins, CloserStep, TakeHandle, NoHandle, JoinTimesOut, HandleDropped,
              DispatcherJoined
<1>5. CASE Started \/ Finished \/ PrintLine \/ PrintNothing \/ Announce \/ Reply
  BY <1>0, <1>5 DEF Started, Finished, PrintLine, PrintNothing, Announce, Reply, Idle
<1>6. CASE \/ ReceiveCommand \/ QueueClosed \/ SignalExit \/ WorkerExits \/ BeginOperation
  BY <1>0, <1>6 DEF ReceiveCommand, QueueClosed, SignalExit, WorkerExits, BeginOperation
<1>7. CASE CheckToken \/ RecheckToken \/ InterpreterStep
  BY <1>0, <1>7 DEF CheckToken, RecheckToken, InterpreterStep, CancellableReturns,
                    PlainReturns, RenderReturns, Settle
<1>. QED
  BY <1>1, <1>2, <1>3, <1>4, <1>5, <1>6, <1>7 DEF Next, WorkerStep

LEMMA TidingsStep == SessionInv /\ Tidings /\ [Next]_vars => Tidings'
<1> SUFFICES ASSUME SessionInv, Tidings, [Next]_vars
             PROVE  Tidings'
  OBVIOUS
<1>1. ASSUME NEW event \in ToSet(events') \cup {delivering'}
      PROVE  Told(event.what, status'[event.op])
  <2>1. CASE event.what \notin {"result", "error"}
    BY <2>1 DEF Told
  <2>2. ASSUME event.what \in {"result", "error"}
        PROVE  event.op \in registered /\ Told(event.what, status[event.op])
    <3>1. CASE event \in ToSet(events)
      BY <3>1, EventsRegistered DEF ToSet, Tidings
    <3>2. CASE event = delivering
      BY <2>2, <3>2 DEF SessionInv, InOrder, NoEvent, Tidings
    <3>3. CASE /\ worker.at = "announcing"
               /\ event = [op |-> worker.op, what |-> Announced(worker.result)]
      BY <3>3 DEF SessionInv, Places, Leaving, Tidings
    <3>. QED
      BY <2>2, <3>1, <3>2, <3>3, EventSources
  <2>. QED
    BY <2>1, <2>2, SettledStays
<1>2. ASSUME worker'.at = "announcing"
      PROVE  Told(Announced(worker'.result), status'[worker'.op])
  <2>1. CASE worker' = worker
    <3>1. worker.op \in registered /\ Told(Announced(worker.result), status[worker.op])
      BY <1>2, <2>1 DEF SessionInv, Places, Leaving, Tidings
    <3>2. Announced(worker.result) \in {"result", "error"}
      BY DEF Announced
    <3>3. Told(Announced(worker.result), status'[worker.op])
      BY <3>1, <3>2, SettledStays
    <3>. QED
      BY <2>1, <3>3
  <2>2. CASE CompleteOperation
    <3>1. /\ Complete(worker.op, Outcome(worker.result)) /\ worker.op \in Ids
          /\ worker'.op = worker.op /\ worker'.result = worker.result
      BY <2>2 DEF CompleteOperation, Op, MoveTo, SessionInv, SessionTypeOK, Places, Busy
    <3>2. Outcome(worker.result) \in Outcomes
      BY DEF Outcome, Outcomes
    <3>3. status'[worker.op] \in {Outcome(worker.result), "absent"}
      BY <3>1, <3>2, CompleteRecords DEF SessionInv
    <3>4. Told(Announced(worker.result), status'[worker.op])
      BY <3>3 DEF Told, Announced, Outcome
    <3>. QED
      BY <3>1, <3>4
  <2>. QED
    BY <1>2, <2>1, <2>2, AnnouncementComes
<1>. QED
  BY <1>1, <1>2 DEF Tidings

\* "Publish the retained result before the terminal callback": an event that
\* tells the host of an operation's end says what the table recorded, until the
\* outcome is taken or evicted (worker.rs:458-459).
THEOREM OutcomeFirst == SafetySpec => []TerminalAfterOutcome
<1>1. SessionInit => Tidings
  <2>1. ToSet(<<>>) = {}
    BY EmptySeq DEF ToSet
  <2>. QED
    BY <2>1 DEF SessionInit, DispatcherInit, NoEvent, Tidings, Told
<1>2. Tidings => TerminalAfterOutcome
  BY DEF Tidings, Told, TerminalAfterOutcome
<1>. QED
  BY <1>1, <1>2, TidingsStep, SessionInvariance, PTL DEF SafetySpec

-----------------------------------------------------------------------------
(* A reply that is awaited will come.  After complete() the table may know   *)
(* nothing of the operation any more, so this does not follow from           *)
(* ActiveIsHeld.  An asynchronous command leaves the worker's hands when it  *)
(* is announced, a synchronous one when it is answered.                      *)

Awaited == \A id \in Ids : reply[id] = "open" => request[id].sync /\ Held(id)

LEMMA HeadOrTail ==
  ASSUME NEW S, NEW s \in Seq(S), s # <<>>, NEW x \in ToSet(s)
  PROVE  x = Head(s) \/ x \in ToSet(Tail(s))
<1>1. PICK i \in 1..Len(s) : x = s[i]
  BY LenProperties DEF ToSet
<1>2. Len(s) \in Nat /\ Head(s) = s[1]
  BY LenProperties
<1>3. /\ DOMAIN Tail(s) = 1..(Len(s) - 1)
      /\ \A j \in 1..(Len(s) - 1) : Tail(s)[j] = s[j + 1]
  BY HeadTailProperties, LenProperties
<1>4. i # 1 => i - 1 \in 1..(Len(s) - 1) /\ Tail(s)[i - 1] = x
  BY <1>1, <1>2, <1>3
<1>. QED
  BY <1>1, <1>2, <1>3, <1>4 DEF ToSet

\* What is held stays held when the queue loses nothing, the worker keeps its
\* command and no sender lets go.
LEMMA StillHeld ==
  ASSUME ToSet(queue) \subseteq ToSet(queue'), worker'.op = worker.op,
         \A c \in Callers : caller[c].at \in Sending => caller'[c] = caller[c]
  PROVE  \A id : Held(id) => Held(id)'
BY DEF Held, Sending

LEMMA AwaitedStep == SessionInv /\ Awaited /\ [Next]_vars => Awaited'
<1> SUFFICES ASSUME SessionInv, Awaited, [Next]_vars
             PROVE  Awaited'
  OBVIOUS
<1> DEFINE Same == UNCHANGED <<request, reply>>
<1>0. worker \in WorkerStates /\ caller \in [Callers -> CallerStates]
  BY DEF SessionInv, SessionTypeOK, WorkerStates, CallerStates
<1>1. ASSUME Same, \A id \in Ids : Held(id) => Held(id)'
      PROVE  Awaited'
  BY <1>1 DEF Awaited
<1>2. ASSUME Same, UNCHANGED <<queue, caller>>, worker'.op = worker.op
      PROVE  Awaited'
  BY <1>1, <1>2, StillHeld
<1>3. CASE \/ InitSucceeds \/ InitFails \/ ConstructorReturns \/ ConstructorFails
           \/ ReleaseDispatcher
  BY <1>0, <1>2, <1>3 DEF InitSucceeds, InitFails, ConstructorReturns, ConstructorFails,
                          ReleaseDispatcher, sessionVars, WorkerStates
<1>4. CASE \/ Cancel \/ InstallCallback \/ \E id \in Ids : CancelOne(id) \/ Take(id)
           \/ UNCHANGED vars
           \/ DispatcherStep /\ UNCHANGED <<tableVars, sessionVars>>
  BY <1>2, <1>4 DEF Cancel, InstallCallback, CancelOne, Take, sessionVars, vars
<1>5. CASE ShutdownBegins \/ NoHandle \/ JoinTimesOut \/ HandleDropped \/ DispatcherJoined
  BY <1>2, <1>5 DEF ShutdownBegins, NoHandle, JoinTimesOut, HandleDropped, DispatcherJoined
<1>6. CASE TakeHandle
  <2>1. ToSet(queue) \subseteq ToSet(queue')
    <3>1. queue \in Seq(Ids \cup {Shutdown}) /\ NoRepeats(queue)
      BY DEF SessionInv, SessionTypeOK, Places
    <3>2. ToSet(Append(queue, Shutdown)) = ToSet(queue) \cup {Shutdown}
      BY <3>1, AppendNoRepeats
    <3>. QED
      BY <1>6, <3>2 DEF TakeHandle, WithShutdown
  <2>2. Same /\ UNCHANGED <<caller, worker>>
    BY <1>6 DEF TakeHandle
  <2>. QED
    BY <1>1, <2>1, <2>2, StillHeld
<1>7. ASSUME NEW c \in Callers, Enqueue(c)
      PROVE  Awaited'
  <2>0. PICK new \in Ids : new = nextId
    BY <1>7 DEF Enqueue
  <2>1. PICK r \in Requests :
          /\ request' = [request EXCEPT ![new] = r]
          /\ reply' = [reply EXCEPT ![new] = IF r.sync THEN "open" ELSE "none"]
    BY <1>7, <2>0 DEF Enqueue
  <2>2. /\ caller[c].at = "idle" /\ UNCHANGED <<queue, worker>>
        /\ caller' = [caller EXCEPT ![c] = [at |-> "sending", op |-> new]]
    BY <1>7, <2>0 DEF Enqueue
  <2>3. request \in [Ids -> Requests \cup {NoOp}] /\ reply \in [Ids -> ReplyStates]
    BY DEF SessionInv, SessionTypeOK, ReplyStates
  <2>4. \A id : Held(id) => Held(id)'
    BY <1>0, <2>2, StillHeld DEF Sending
  <2>5. Held(new)'
    BY <1>0, <2>2 DEF Held
  <2>. QED
    BY <2>1, <2>2, <2>3, <2>4, <2>5 DEF Awaited
<1>8. ASSUME NEW c \in Callers, Send(c)
      PROVE  Awaited'
  <2>1. queue \in Seq(Ids \cup {Shutdown}) /\ NoRepeats(queue) /\ caller[c].op \in Ids
    BY <1>8 DEF Send, SessionInv, SessionTypeOK, Places
  <2>2. ToSet(queue') = ToSet(queue) \cup {caller[c].op}
    BY <1>8, <2>1, AppendNoRepeats DEF Send
  <2>3. \A d \in Callers : d # c => caller'[d] = caller[d]
    BY <1>0, <1>8 DEF Send
  <2>4. Same /\ UNCHANGED worker
    BY <1>8 DEF Send
  <2>5. \A id \in Ids : Held(id) => Held(id)'
    BY <2>2, <2>3, <2>4 DEF Held
  <2>. QED
    BY <1>1, <2>4, <2>5
<1>9. ASSUME NEW c \in Callers, SendFails(c)
      PROVE  Awaited'
  <2>1. /\ \A d \in Callers : d # c => caller'[d] = caller[d]
        /\ caller'[c].at = "rejected" /\ caller'[c].op = caller[c].op
    BY <1>0, <1>9 DEF SendFails, CallerStates
  <2>2. Same /\ UNCHANGED <<queue, worker>>
    BY <1>9 DEF SendFails
  <2>3. \A id \in Ids : Held(id) => Held(id)'
    BY <2>1, <2>2 DEF Held
  <2>. QED
    BY <1>1, <2>2, <2>3
<1>10. ASSUME NEW c \in Callers, Rollback(c)
       PROVE  Awaited'
  <2>1. \A d \in Callers : d # c => caller'[d] = caller[d]
    BY <1>0, <1>10 DEF Rollback
  <2>2. UNCHANGED <<queue, worker, request>>
    BY <1>10 DEF Rollback
  <2>3. reply' = [reply EXCEPT ![caller[c].op] = "none"] /\ reply \in [Ids -> ReplyStates]
    BY <1>10 DEF Rollback, SessionInv, SessionTypeOK, ReplyStates
  <2>4. \A id \in Ids : Held(id) => Held(id)' \/ id = caller[c].op
    BY <2>1, <2>2 DEF Held
  <2>5. \A id \in Ids : reply'[id] = "open" => id # caller[c].op /\ reply[id] = "open"
    BY <2>3
  <2>. QED
    BY <2>2, <2>4, <2>5 DEF Awaited
<1>11. ASSUME NEW c \in Callers, ReceiveReply(c) \/ TimeOut(c) \/ CancelTimedOut(c)
       PROVE  Awaited'
  <2>1. \A d \in Callers : caller[d].at \in Sending => caller'[d] = caller[d]
    BY <1>0, <1>11 DEF ReceiveReply, TimeOut, CancelTimedOut, Sending
  <2>2. Same /\ UNCHANGED <<queue, worker>>
    BY <1>11 DEF ReceiveReply, TimeOut, CancelTimedOut
  <2>. QED
    BY <1>1, <2>1, <2>2, StillHeld
<1>12. CASE \/ QueueClosed \/ SignalExit \/ BeginOperation \/ Started \/ CheckToken \/ RecheckToken
            \/ Finished \/ PrintLine \/ PrintNothing \/ CompleteOperation \/ InterpreterStep
  <2>1. Same /\ UNCHANGED <<queue, caller>>
    BY <1>12 DEF QueueClosed, SignalExit, BeginOperation, Started, CheckToken, RecheckToken,
                 Finished,
                 PrintLine, PrintNothing, CompleteOperation, InterpreterStep,
                 CancellableReturns, PlainReturns, RenderReturns, Internal, UnchangedByWorker
  <2>2. worker'.op = worker.op
    BY <1>0, <1>12 DEF QueueClosed, SignalExit, BeginOperation, Started, CheckToken, RecheckToken,
                       Finished, PrintLine, PrintNothing, CompleteOperation, InterpreterStep,
                       CancellableReturns, PlainReturns, RenderReturns, MoveTo, WorkerStates
  <2>. QED
    BY <1>2, <2>1, <2>2
<1>13. CASE ReceiveCommand
  <2>1. queue \in Seq(Ids \cup {Shutdown}) /\ worker.op = NoOp /\ NoOp \notin Ids
    BY <1>13, IdsAssumption DEF ReceiveCommand, SessionInv, SessionTypeOK, Places, Busy, Leaving
  <2>2. \A x \in ToSet(queue) : x = Head(queue) \/ x \in ToSet(Tail(queue))
    BY <1>13, <2>1, HeadOrTail DEF ReceiveCommand
  <2>3. Same /\ UNCHANGED caller /\ queue' = Tail(queue)
    BY <1>13 DEF ReceiveCommand, UnchangedByWorker
  <2>4. Head(queue) \in Ids => worker'.op = Head(queue)
    BY <1>13, ShutdownAssumption DEF ReceiveCommand
  <2>5. \A id \in Ids : Held(id) => Held(id)'
    BY <2>1, <2>2, <2>3, <2>4 DEF Held
  <2>. QED
    BY <1>1, <2>3, <2>5
<1>14. CASE WorkerExits
  <2>1. /\ worker'.op = worker.op /\ UNCHANGED <<request, caller>>
        /\ \A id \in Ids : reply'[id] = "open" => reply[id] = "open" /\ id \notin ToSet(queue)
    BY <1>0, <1>14 DEF WorkerExits, MoveTo, UnchangedByWorker, WorkerStates
  <2>2. \A id \in Ids : Held(id) => Held(id)' \/ id \in ToSet(queue)
    BY <2>1 DEF Held
  <2>. QED
    BY <2>1, <2>2 DEF Awaited
<1>15. CASE Announce
  <2>1. Same /\ UNCHANGED <<queue, caller>>
    BY <1>15 DEF Announce, UnchangedByWorker
  <2>2. CASE request[worker.op].sync
    BY <1>0, <1>2, <1>15, <2>1, <2>2 DEF Announce, Op, MoveTo, WorkerStates
  <2>3. CASE ~request[worker.op].sync
    <3>1. \A id \in Ids : reply[id] = "open" => id # worker.op
      BY <2>3 DEF Awaited
    <3>2. \A id \in Ids : Held(id) => Held(id)' \/ id = worker.op
      BY <2>1 DEF Held
    <3>. QED
      BY <2>1, <3>1, <3>2 DEF Awaited
  <2>. QED
    BY <2>2, <2>3
<1>16. CASE Reply
  <2>1. UNCHANGED <<request, queue, caller>> /\ reply' = [reply EXCEPT ![worker.op] = worker.result]
    BY <1>16 DEF Reply, UnchangedByWorker, Op
  <2>2. reply \in [Ids -> ReplyStates] /\ worker.result # "open"
    BY <1>0 DEF SessionInv, SessionTypeOK, ReplyStates, WorkerStates
  <2>3. \A id \in Ids : reply'[id] = "open" => reply[id] = "open" /\ id # worker.op
    BY <2>1, <2>2
  <2>4. \A id \in Ids : Held(id) => Held(id)' \/ id = worker.op
    BY <2>1 DEF Held
  <2>. QED
    BY <2>1, <2>3, <2>4 DEF Awaited
<1>. QED
  BY <1>3, <1>4, <1>5, <1>6, <1>7, <1>8, <1>9, <1>10, <1>11, <1>12, <1>13, <1>14, <1>15, <1>16
  DEF Next, CallerStep, CloserStep, WorkerStep

\* A caller that can reach the handle finds the worker there, no reply sender is
\* dropped unanswered, and a reply that is awaited is still to come.
THEOREM RequestsServed == SafetySpec => []NoRequestAbandoned
<1>1. SessionInit => Awaited
  BY DEF SessionInit, Awaited
<1>2. SessionInv /\ Awaited => NoRequestAbandoned
  BY DEF SessionInv, Life, Replies, Awaited, NoRequestAbandoned, Ended, Sending
<1>. QED
  BY <1>1, <1>2, AwaitedStep, SessionInvariance, PTL DEF SafetySpec

\* The host sees the events of an operation in order, the terminal one last.
THEOREM DeliveredInOrder == SafetySpec => []DeliveryOrder
<1>1. SessionInv => DeliveryOrder
  BY DEF SessionInv, InOrder
<1>. QED
  BY <1>1, SessionInvariance, PTL

\* The session implements the table's specification, so all that is proved of
\* the table holds of the table inside a session.
THEOREM SessionUsesTable == SafetySpec => UsesTable
<1>1. SessionInit => TableInit
  BY DEF SessionInit
<1>. QED
  BY <1>1, SessionInvInit, SessionInvStep, TableStep, PTL DEF SafetySpec, UsesTable, TableSpec

\* What take_result promises its callers, whatever the session does around it:
\* an outcome is handed out once, never changes, and can be had while it is
\* among the newest.
THEOREM TableInSession ==
  SafetySpec => ConsumedOnce /\ OutcomeFinal /\ []WindowKept
BY SessionUsesTable, HandedOutOnce, OutcomesAreFinal, RetentionWindow, PTL DEF UsesTable

-----------------------------------------------------------------------------
(* The mutex around the worker's handle is held only by a caller in enqueue   *)
(* or by the thread that joins the worker, and neither waits for anything but *)
(* a bounded join while it has it: nobody who needs the handle waits for ever.*)

LockInUse ==
  \/ workerLock = "free"
  \/ workerLock = Closer /\ closer \in {"joining", "dropHandle"}
  \/ \E c \in Callers : workerLock = c /\ caller[c].at \in Sending

LEMMA LockInUseStep == SessionInv /\ LockInUse /\ [Next]_vars => LockInUse'
<1> SUFFICES ASSUME SessionInv, LockInUse, [Next]_vars
             PROVE  LockInUse'
  OBVIOUS
<1>0. caller \in [Callers -> CallerStates]
  BY DEF SessionInv, SessionTypeOK, CallerStates
<1>1. CASE UNCHANGED <<workerLock, closer, caller>>
  BY <1>1 DEF LockInUse
<1>2. CASE \/ InitSucceeds \/ InitFails \/ ConstructorReturns \/ ConstructorFails
           \/ ReleaseDispatcher \/ Cancel \/ InstallCallback
           \/ \E id \in Ids : CancelOne(id) \/ Take(id)
           \/ DispatcherStep /\ UNCHANGED <<tableVars, sessionVars>>
           \/ UNCHANGED vars
  BY <1>1, <1>2 DEF InitSucceeds, InitFails, ConstructorReturns, ConstructorFails,
                    ReleaseDispatcher, Cancel, InstallCallback, CancelOne, Take, sessionVars, vars
<1>3. CASE WorkerStep \/ InterpreterStep
  BY <1>1, <1>3
  DEF WorkerStep, ReceiveCommand, QueueClosed, SignalExit, WorkerExits, BeginOperation, Started,
      CheckToken,
      RecheckToken, Finished, PrintLine, PrintNothing, CompleteOperation, Announce, Reply,
      InterpreterStep, CancellableReturns, PlainReturns, RenderReturns, Internal,
      UnchangedByWorker
<1>4. ASSUME NEW c \in Callers, Enqueue(c)
      PROVE  LockInUse'
  BY <1>0, <1>4 DEF Enqueue, LockInUse, Sending
<1>5. ASSUME NEW c \in Callers, CallerStep(c)
      PROVE  LockInUse'
  <2>1. CASE Send(c) \/ Rollback(c)
    BY <2>1 DEF Send, Rollback, LockInUse
  <2>2. CASE SendFails(c)
    <3>1. /\ UNCHANGED <<workerLock, closer>> /\ caller'[c].at \in Sending
          /\ \A d \in Callers : d # c => caller'[d] = caller[d]
      BY <1>0, <2>2 DEF SendFails, CallerStates, Sending
    <3>. QED
      BY <3>1 DEF LockInUse
  <2>3. CASE ReceiveReply(c) \/ TimeOut(c) \/ CancelTimedOut(c)
    <3>1. /\ UNCHANGED <<workerLock, closer>> /\ caller[c].at \notin Sending
          /\ \A d \in Callers : d # c => caller'[d] = caller[d]
      BY <1>0, <2>3 DEF ReceiveReply, TimeOut, CancelTimedOut, Sending
    <3>. QED
      BY <3>1 DEF LockInUse
  <2>. QED
    BY <1>5, <2>1, <2>2, <2>3 DEF CallerStep
<1>6. CASE ShutdownBegins \/ NoHandle \/ JoinTimesOut \/ DispatcherJoined
  BY <1>6 DEF ShutdownBegins, NoHandle, JoinTimesOut, DispatcherJoined, LockInUse
<1>7. CASE TakeHandle \/ HandleDropped
  BY <1>7 DEF TakeHandle, HandleDropped, LockInUse
<1>. QED
  BY <1>2, <1>3, <1>4, <1>5, <1>6, <1>7 DEF Next, CloserStep

\* Whoever holds the mutex around the handle is on the way to releasing it: a
\* sender, whose try_send does not wait, or the thread in a bounded join
\* (session.rs:237-242, 304-325).
THEOREM MutexInUse == SafetySpec => []LockInUse
<1>1. SessionInit => LockInUse
  BY DEF SessionInit, LockInUse
<1>. QED
  BY <1>1, LockInUseStep, SessionInvariance, PTL DEF SafetySpec
=============================================================================
