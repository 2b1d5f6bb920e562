------------------------- MODULE CallbackDispatcher -------------------------
(***************************************************************************)
(* The dispatcher thread that delivers host callbacks away from the        *)
(* interpreter thread (crates/r-uniffi/src/uniffi/worker.rs).  The worker  *)
(* appends small events to an unbounded channel; one thread takes them in  *)
(* order and runs the host's callback, for as long as the host likes.      *)
(*                                                                         *)
(* An event is [op, what]; its payload is left out.  delivered is history: *)
(* what the host's callback was called with, per operation.                *)
(***************************************************************************)
EXTENDS OperationIds, SequencesExt

VARIABLES callbackSet,  \* a host callback is installed
          txOpen,       \* the channel's sender has not been dropped
          events,       \* the channel
          dispatcher,   \* the thread: "receiving", "calling" or "exited"
          delivering,   \* the event whose callback runs, or NoEvent
          delivered     \* history: delivered[id], in order of delivery

dispatcherVars == <<callbackSet, txOpen, events, dispatcher, delivering, delivered>>

\* Progress 0, Progress 1, Output, then EvalComplete/PlotReady or Error.
Whats   == {"started", "finished", "output", "result", "error"}
Event   == [op : Ids, what : Whats]
NoEvent == [op |-> NoOp, what |-> "none"]

DispatcherTypeOK ==
  /\ callbackSet \in BOOLEAN
  /\ txOpen \in BOOLEAN
  /\ events \in Seq(Event)
  /\ dispatcher \in {"receiving", "calling", "exited"}
  /\ delivering \in Event \cup {NoEvent}
  /\ delivered \in [Ids -> Seq(Whats)]

DispatcherInit ==
  /\ callbackSet = FALSE
  /\ txOpen = TRUE
  /\ events = <<>>
  /\ dispatcher = "receiving"
  /\ delivering = NoEvent
  /\ delivered = [id \in Ids |-> <<>>]

SetCallback ==
  /\ callbackSet' = TRUE
  /\ UNCHANGED <<txOpen, events, dispatcher, delivering, delivered>>

BugDispatch(id, what) ==
  /\ events' = IF txOpen /\ dispatcher # "exited"
               THEN <<[op |-> id, what |-> what]>> \o events ELSE events
  /\ UNCHANGED <<callbackSet, txOpen, dispatcher, delivering, delivered>>

\* dispatch(): never blocks; the event is dropped after shutdown, and once the
\* thread is gone.
Dispatch(id, what) ==
  /\ events' = IF txOpen /\ dispatcher # "exited"
               THEN Append(events, [op |-> id, what |-> what]) ELSE events
  /\ UNCHANGED <<callbackSet, txOpen, dispatcher, delivering, delivered>>

\* The thread takes an event and looks the callback up; without one the event
\* is dropped.
DropEvent ==
  /\ dispatcher = "receiving" /\ events # <<>> /\ ~callbackSet
  /\ events' = Tail(events)
  /\ UNCHANGED <<callbackSet, txOpen, dispatcher, delivering, delivered>>

Deliver ==
  /\ dispatcher = "receiving" /\ events # <<>> /\ callbackSet
  /\ events' = Tail(events)
  /\ dispatcher' = "calling"
  /\ delivering' = Head(events)
  /\ delivered' = [delivered EXCEPT ![Head(events).op] = Append(@, Head(events).what)]
  /\ UNCHANGED <<callbackSet, txOpen>>

CallbackReturns ==
  /\ dispatcher = "calling"
  /\ dispatcher' = "receiving"
  /\ delivering' = NoEvent
  /\ UNCHANGED <<callbackSet, txOpen, events, delivered>>

\* The callback panics (an exception of the host's): the thread unwinds and the
\* channel goes with its receiver.
CallbackPanics ==
  /\ dispatcher = "calling"
  /\ dispatcher' = "exited"
  /\ delivering' = NoEvent
  /\ events' = <<>>
  /\ UNCHANGED <<callbackSet, txOpen, delivered>>

\* The channel is empty and its only sender is gone.
DispatcherExits ==
  /\ dispatcher = "receiving" /\ events = <<>> /\ ~txOpen
  /\ dispatcher' = "exited"
  /\ UNCHANGED <<callbackSet, txOpen, events, delivering, delivered>>

\* The first step of shutdown(), or dropping the last clone of the dispatcher.
CloseTx ==
  /\ txOpen' = FALSE
  /\ UNCHANGED <<callbackSet, events, dispatcher, delivering, delivered>>

DispatcherStep ==
  DropEvent \/ Deliver \/ CallbackReturns \/ CallbackPanics \/ DispatcherExits

-----------------------------------------------------------------------------

Rank(what) == CASE what = "started"  -> 1
                [] what = "finished" -> 2
                [] what = "output"   -> 3
                [] OTHER             -> 4

\* Delivery is ordered (worker.rs:68-70): the host sees an operation's progress,
\* output and terminal event in that order, the terminal event once and last,
\* however late the callback was installed or early the channel was closed.
DeliveryOrder ==
  \A id \in Ids : \A i, j \in DOMAIN delivered[id] :
    i < j => Rank(delivered[id][i]) < Rank(delivered[id][j])
=============================================================================
