----------------------------- MODULE Collector -----------------------------
(***************************************************************************)
(* The generational, nonmoving collector of an interpreter instance        *)
(* (crates/rmath/src/sexp/gengc.rs and gengc/) with the finalizer queue    *)
(* (mainutils/memory_main.rs) and the program that runs between            *)
(* collections.  A collection runs on the interpreter's thread and calls   *)
(* nothing while it marks and sweeps, so a collection is a step.  What it  *)
(* calls afterwards, GC callbacks and finalizers, may do whatever the      *)
(* program may, collect included: callbacks are therefore left out, and    *)
(* with them in_gc, which keeps a callback from collecting in gctorture(). *)
(* So is gc_pending: any safe point may find that the arena has grown.     *)
(*                                                                         *)
(* A node is its slot: freeing one and allocating the slot again gives     *)
(* another object, which a reference left behind would alias.              *)
(***************************************************************************)
EXTENDS Naturals, FiniteSets

CONSTANTS Nodes,          \* slots of the arena
          Nil,            \* R_NilValue
          NotWeak,        \* the key of a node that is not a weak reference
          MaxFields,      \* nodes that one node holds
          MaxHeld,        \* nodes under construction at a time
          MaxFinalizers,  \* registrations, over the whole run
          OnExit,         \* the registrations made with onexit = TRUE
          InR             \* the registrations of an R function, not a C one

ASSUME CollectorAssumption ==
  /\ Nil \notin Nodes /\ NotWeak \notin Nodes \cup {Nil}
  /\ MaxFinalizers \in Nat /\ MaxFields \in Nat /\ MaxHeld \in Nat
  /\ OnExit \subseteq 1..MaxFinalizers /\ InR \subseteq 1..MaxFinalizers

VARIABLES gen,         \* generation of a node, "free" when its slot is not in use
          edges,       \* the nodes that its strong fields hold
          key,         \* of a weak reference: its key, Nil once that was collected
          roots,       \* what some root channel holds: bindings, leases, handles
          held,        \* nodes under construction, in locals of native code only
          remembered,  \* remembered_set
          missed,      \* history: the <<promise, value>> that it should know and does not
          fin,         \* registrations: in pending_finalizers, in the batch being run, or done
          running      \* running_finalizers

vars     == <<gen, edges, key, roots, held, remembered, missed, fin, running>>
heapVars == <<gen, edges, key, remembered, missed>>

Finalizers == 1..MaxFinalizers
Finalizer  == [queued : {"no", "waiting", "ready"},  \* the place in the queue
               run : {"no", "claimed", "running", "ran", "done"},  \* and in the batch
               obj : Nodes \cup {Nil}, fun : Nodes \cup {Nil}]
Unused     == [queued |-> "no", run |-> "no", obj |-> Nil, fun |-> Nil]

CollectorTypeOK ==
  /\ gen \in [Nodes -> {"free", "young", "old"}]
  /\ edges \in [Nodes -> SUBSET Nodes]
  /\ key \in [Nodes -> Nodes \cup {Nil, NotWeak}]
  /\ roots \subseteq Nodes /\ held \subseteq Nodes
  /\ remembered \subseteq Nodes /\ missed \subseteq Nodes \X Nodes
  /\ fin \in [Finalizers -> Finalizer]
  /\ running \in BOOLEAN

Init ==
  /\ gen = [n \in Nodes |-> "free"]
  /\ edges = [n \in Nodes |-> {}]
  /\ key = [n \in Nodes |-> NotWeak]
  /\ roots = {} /\ held = {} /\ remembered = {} /\ missed = {}
  /\ fin = [i \in Finalizers |-> Unused]
  /\ running = FALSE

-----------------------------------------------------------------------------
(* Tracing *)

WeakRefs == {w \in Nodes : key[w] # NotWeak}

Closed(S) == \A n \in S : edges[n] \subseteq S

\* What is reached from S over strong fields.  The key of a weak reference is
\* not one of them.
Reach(S) == LET more == {T \in SUBSET (Nodes \ S) : Closed(S \cup T)}
            IN  {n \in Nodes : n \in S \/ \A T \in more : n \in T}

Queued(states)  == {i \in Finalizers : fin[i].queued \in states}
InBatch(states) == {i \in Finalizers : fin[i].run \in states}
Keys(I)         == {fin[i].obj : i \in I}
Functions(I)    == {fin[i].fun : i \in I} \ {Nil}

\* The batch that is being run stays rooted until all of it has run.
BugBatchRoots == {}

BatchRoots == LET batch == InBatch({"claimed", "running", "ran"})
              IN  Keys(batch) \cup Functions(batch)

\* A function is kept whatever its key is; a key only once it is ready.
QueueRoots == Keys(Queued({"ready"})) \cup Functions(Queued({"waiting", "ready"}))

\* mark_instance_roots
InstanceRoots == roots \cup BatchRoots \cup QueueRoots

\* What the running code can get hold of - and the keys of weak references there.
Accessible == Reach(roots \cup held \cup Keys(InBatch({"running"})))
WeakKeys(S) == {key[w] : w \in S} \cap Nodes

-----------------------------------------------------------------------------
(* The program: native code, the evaluator, callbacks and finalizers *)

Allocate(n, children, weakKey) ==
  /\ gen[n] = "free"
  /\ Cardinality(held) < MaxHeld /\ Cardinality(children) <= MaxFields
  /\ weakKey # NotWeak => WeakRefs = {}
  /\ gen' = [gen EXCEPT ![n] = "young"]
  /\ edges' = [edges EXCEPT ![n] = children]
  /\ key' = [key EXCEPT ![n] = weakKey]
  /\ held' = held \cup {n}
  /\ UNCHANGED <<roots, remembered, missed, fin, running>>

\* No barrier.
BugBarrier(parent, child) == remembered

\* write_barrier_in
Barrier(parent, child) ==
  IF gen[parent] = "old" /\ gen[child] = "young" THEN remembered \cup {parent} ELSE remembered

\* A weak reference has no setter.
SetField(parent, child) ==
  /\ key[parent] = NotWeak /\ child \notin edges[parent] \cup {parent}
  /\ Cardinality(edges[parent]) < MaxFields
  /\ edges' = [edges EXCEPT ![parent] = @ \cup {child}]
  /\ remembered' = Barrier(parent, child)
  /\ UNCHANGED <<gen, key, roots, held, missed, fin, running>>

\* Evaluation::publish stores the value of a forced promise, and R_NilValue for
\* its environment: the one store into a node that may be old without a barrier.
PublishValue(promise, environment, value) ==
  /\ key[promise] = NotWeak /\ value \notin edges[promise] \cup {promise}
  /\ edges' = [edges EXCEPT ![promise] = (@ \ {environment}) \cup {value}]
  /\ Cardinality(edges'[promise]) <= MaxFields
  /\ missed' = (missed \ {<<promise, environment>>}) \cup
                (IF Barrier(promise, value) = remembered THEN {} ELSE {<<promise, value>>})
  /\ UNCHANGED <<gen, key, roots, held, remembered, fin, running>>

ClearField(parent, child) ==
  /\ key[parent] = NotWeak /\ child \in edges[parent]
  /\ edges' = [edges EXCEPT ![parent] = @ \ {child}]
  /\ missed' = missed \ {<<parent, child>>}
  /\ UNCHANGED <<gen, key, roots, held, remembered, fin, running>>

Root(n) ==
  /\ n \notin roots
  /\ roots' = roots \cup {n}
  /\ UNCHANGED <<heapVars, held, fin, running>>

Unroot(n) ==
  /\ n \in roots
  /\ roots' = roots \ {n}
  /\ UNCHANGED <<heapVars, held, fin, running>>

\* Native code is done with a node it made: it has stored it, or returned.
Forget(n) ==
  /\ n \in held
  /\ held' = held \ {n}
  /\ UNCHANGED <<heapVars, roots, fin, running>>

\* register_r_finalizer and register_c_finalizer
Register(obj, fun) ==
  /\ \E i \in Finalizers :
       /\ fin[i] = Unused /\ \A j \in 1..(i - 1) : fin[j] # Unused
       /\ fin' = [fin EXCEPT ![i] = [queued |-> "waiting", run |-> "no", obj |-> obj,
                                       fun |-> IF i \in InR THEN fun ELSE Nil]]
  /\ UNCHANGED <<heapVars, roots, held, running>>

-----------------------------------------------------------------------------
(* Collections *)

\* Only the keys, not what they hold.
BugRetained(ready) == ready

Retained(ready) == Reach(ready)

\* The cut leaves R_NilValue among the children.
BugSwept(marked, dead) ==
  [n \in Nodes |-> IF n \in dead THEN {}
                  ELSE IF edges[n] \cap dead = {} THEN edges[n] ELSE (edges[n] \ dead) \cup {Nil}]

\* What a partial sweep cuts out of a node that it did not mark but keeps.
\* A marked node holds no dead one.
Swept(marked, dead) ==
  [n \in Nodes |-> IF n \in dead THEN {} ELSE IF n \in marked THEN edges[n] ELSE edges[n] \ dead]

MakeReady(I) == [i \in Finalizers |-> IF i \in I THEN [fin[i] EXCEPT !.queued = "ready"] ELSE fin[i]]

\* Collect the nodes of a generation in gens that tracing from base does not
\* reach.  The keys among them make their finalizers ready, and then the graphs
\* of all ready keys are kept; what is reached is promoted if promote is set.
Sweep(gens, base, promote) ==
  LET reached   == Reach(base)
      unreached == {n \in Nodes : gen[n] \in gens} \ reached
      dying     == {i \in Queued({"waiting"}) : fin[i].obj \in unreached}
      marked    == reached \cup Retained(Keys(dying))
      dead      == unreached \ marked
  IN  /\ gen' = [n \in Nodes |-> IF n \in dead THEN "free"
                                 ELSE IF promote /\ n \in marked THEN "old" ELSE gen[n]]
      /\ edges' = Swept(marked, dead)
      /\ key' = [n \in Nodes |-> IF n \in dead THEN NotWeak
                                 ELSE IF key[n] \in dead THEN Nil ELSE key[n]]
      /\ fin' = MakeReady(dying)
      /\ remembered' = IF promote THEN {} ELSE remembered \ dead
      /\ missed' = IF promote THEN {} ELSE {m \in missed : m[1] \notin dead}
      /\ UNCHANGED <<roots, held, running>>

\* The remembered parents are left out.
BugMinorRoots == InstanceRoots

\* mark_from_all_roots_in
MinorRoots == InstanceRoots \cup remembered

\* Safe points come between statements, when no local holds a node.
AtSafePoint == held = {}

\* do_minor_gc_in
MinorCollection ==
  /\ AtSafePoint
  /\ Sweep({"young"}, MinorRoots, TRUE)

\* do_full_mark_sweep_in, from gc() or at every 64th safe point.
FullCollection ==
  /\ AtSafePoint
  /\ Sweep({"young", "old"}, InstanceRoots, TRUE)

\* maybe_torture_gc_in, in the middle of constructions: young nodes are spared.
TortureCollection == Sweep({"old"}, MinorRoots, FALSE)

-----------------------------------------------------------------------------
(* Running finalizers *)

\* The queue keeps what is taken from it.
BugTaken(f) == [f EXCEPT !.run = "claimed"]

Taken(f) == [f EXCEPT !.queued = "no", !.run = "claimed"]

\* R_RunPendingFinalizers: take what is ready, root it, and remove it from the
\* queue - unless a finalizer is calling.
TakeReady(fs) ==
  IF running \/ \A i \in Finalizers : fs[i].queued # "ready"
  THEN fin' = fs /\ UNCHANGED running
  ELSE /\ fin' = [i \in Finalizers |-> IF fs[i].queued = "ready" THEN Taken(fs[i]) ELSE fs[i]]
       /\ running' = TRUE

RunPendingFinalizers ==
  /\ AtSafePoint /\ ~running /\ Queued({"ready"}) # {}
  /\ TakeReady(fin)
  /\ UNCHANGED <<heapVars, roots, held>>

\* R_RunExitFinalizers_memory
RunExitFinalizers ==
  /\ AtSafePoint /\ Queued({"waiting"}) \cap OnExit # {}
  /\ TakeReady(MakeReady(Queued({"waiting"}) \cap OnExit))
  /\ UNCHANGED <<heapVars, roots, held>>

\* What has run keeps its roots until the whole batch has.
Returned(f) == IF f.run = "running" THEN [f EXCEPT !.run = "ran"] ELSE f
Done(f)     == IF f.run \in {"running", "ran"}
               THEN [f EXCEPT !.run = "done", !.obj = Nil, !.fun = Nil] ELSE f

\* The next of the batch starts, in the order of the queue, when the one before
\* has returned or failed.
NextFinalizer ==
  /\ running
  /\ \E i \in InBatch({"claimed"}) :
       /\ \A j \in InBatch({"claimed"}) : i <= j
       /\ fin' = [j \in Finalizers |-> IF j = i THEN [fin[j] EXCEPT !.run = "running"]
                                       ELSE Returned(fin[j])]
  /\ UNCHANGED <<heapVars, roots, held, running>>

BatchDone ==
  /\ running /\ InBatch({"claimed"}) = {}
  /\ fin' = [i \in Finalizers |-> Done(fin[i])]
  /\ running' = FALSE
  /\ UNCHANGED <<heapVars, roots, held>>

Mutate ==
  LET nodes == Accessible
  IN  \/ \E n \in Nodes, children \in SUBSET nodes, weakKey \in (nodes \ WeakRefs) \cup {NotWeak} :
           Allocate(n, children, weakKey)
      \/ \E parent, child \in nodes : SetField(parent, child) \/ ClearField(parent, child)
      \/ \E promise, value \in nodes : \E environment \in edges[promise] \cup {Nil} :
           PublishValue(promise, environment, value)
      \/ \E n \in nodes \cup WeakKeys(nodes) : Root(n)
      \/ \E n \in Nodes : Unroot(n) \/ Forget(n)
      \/ \E obj, fun \in nodes \ WeakRefs : Register(obj, fun)

Collect ==
  \/ MinorCollection
  \/ FullCollection
  \/ TortureCollection

Next ==
  \/ Mutate \/ Collect
  \/ RunPendingFinalizers \/ RunExitFinalizers \/ NextFinalizer \/ BatchDone

Spec == Init /\ [][Next]_vars

-----------------------------------------------------------------------------
(* Properties *)

Alive == {n \in Nodes : gen[n] # "free"}

\* Nothing refers to a freed slot, so no reference is ever taken for one to the
\* slot's next object: not a root, not a local of native code, not a field or a
\* weak key, not a remembered parent, not a finalizer that is queued or runs.
NoDangling ==
  /\ roots \cup held \cup remembered \subseteq Alive
  /\ \A n \in Nodes : edges[n] \subseteq Alive /\ key[n] \in Alive \cup {Nil, NotWeak}
  /\ \A i \in Finalizers : fin[i].obj \in Alive \cup {Nil} /\ fin[i].fun \in Alive \cup {Nil}

\* An old node that holds a young one is in the remembered set, or is a promise
\* whose value was published; also after a gctorture() collection, which promotes
\* nothing and therefore must not clear the set (gengc/mark.rs:471-475).
OldToYoungRemembered ==
  \A p, c \in Nodes : gen[p] = "old" /\ gen[c] = "young" /\ c \in edges[p] =>
    p \in remembered \/ <<p, c>> \in missed

\* A collection at a safe point frees a node or leaves its fields alone, whether
\* it traced the node or not: an old node that a minor collection did not reach
\* may be reached again, over a weak reference, or from its finalizer.  Only a
\* promise published without a barrier can lose its value (promise_state.rs:112).
SurvivorsIntact ==
  [][\A n \in Alive \cap Alive' : \A c \in edges[n] \ edges'[n] :
       <<n, c>> \notin missed => ~(MinorCollection \/ FullCollection)]_vars

\* A registration is in the queue, or in the batch, or has been run: a finalizer
\* that registers others, collects or fails makes none run twice and loses none.
FinalizersOnce ==
  \A i \in Finalizers : fin[i] = Unused \/ (fin[i].queued = "no") # (fin[i].run = "no")

\* At a safe point a finalizer is made ready only for a key that the program can
\* no longer reach, also a key that another finalizer is looking at right now.
FinalizedUnreachable ==
  [][\A i \in Queued({"waiting"}) :
       fin'[i].queued = "ready" /\ AtSafePoint => fin[i].obj \notin Accessible \/ RunExitFinalizers]_vars
=============================================================================
