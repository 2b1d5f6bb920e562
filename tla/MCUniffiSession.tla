-------------------------- MODULE MCUniffiSession --------------------------
(* UniffiSession with the requests of a host that uses the asynchronous     *)
(* calls, of one that uses the synchronous ones, or of a mixture.           *)
EXTENDS UniffiSession

Async(kind) == [kind |-> kind, sync |-> FALSE]
Sync(kind)  == [kind |-> kind, sync |-> TRUE]

AsyncRequests == {Async("eval"), Async("render")}
SyncRequests  == {Sync("page"), Sync("query")}
WedgingRequests == {Sync("page"), Sync("load")}

LivenessRequests == {Sync("eval"), Sync("page"), Sync("load"), Sync("render")}

\* The host of the liveness run: it installs its callback before it asks for
\* anything, and what it asks for second is a page, whatever came first.
HostBound ==
  /\ callbackSet' # callbackSet => nextId = 0
  /\ request'[0] # Sync("page") /\ request'[1] \in {NoOp, Sync("page")}

\* Spec with that host.  The bound is on calls that no fairness makes it take.
BoundedHostSpec == SessionInit /\ [][Next /\ HostBound]_vars /\ Fairness

\* Callers are interchangeable; used by runs without liveness properties.
CallerSymmetry == Permutations(Callers)
=============================================================================
