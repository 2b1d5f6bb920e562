-------------------------- MODULE Collector_proofs --------------------------
(***************************************************************************)
(* What holds of the collector for any number of nodes and finalizers.     *)
(*                                                                         *)
(* The invariants of Collector are inductive together with two facts: a    *)
(* node that only a local holds is young, and a finalizer that is queued   *)
(* or being run has a key.  The one step that takes an argument is a       *)
(* collection: what tracing reached is closed under fields, so nothing     *)
(* that is kept whole holds a node that is freed.                          *)
(***************************************************************************)
EXTENDS Collector, TLAPS

HeldYoung == \A n \in held : gen[n] = "young"

HasKey(f) == f.queued # "no" \/ f.run \in {"claimed", "running", "ran"}

KeysAreNodes ==
  \A i \in Finalizers : IF HasKey(fin[i]) THEN fin[i].obj \in Nodes
                        ELSE fin[i].obj = Nil /\ fin[i].fun = Nil

IInv ==
  /\ CollectorTypeOK
  /\ NoDangling
  /\ OldToYoungRemembered
  /\ FinalizersOnce
  /\ HeldYoung
  /\ KeysAreNodes

USE CollectorAssumption DEF Finalizers

-----------------------------------------------------------------------------
(* Reachability *)

\* Reach(S) is the least set of nodes that contains S and is closed under fields.
LEMMA ReachLeast ==
  ASSUME CollectorTypeOK, NEW S
  PROVE  /\ Reach(S) \subseteq Nodes
         /\ S \cap Nodes \subseteq Reach(S)
         /\ Closed(Reach(S))
         /\ \A T \in SUBSET Nodes : S \subseteq T /\ Closed(T) => Reach(S) \subseteq T
<1>1. Reach(S) \subseteq Nodes
  BY DEF Reach
<1>2. S \cap Nodes \subseteq Reach(S)
  BY DEF Reach
<1>3. ASSUME NEW n \in Reach(S), NEW c \in edges[n]
      PROVE  c \in Reach(S)
  <2>1. c \in Nodes
    BY <1>1, <1>3 DEF CollectorTypeOK
  <2>2. ASSUME NEW T \in SUBSET (Nodes \ S), Closed(S \cup T), c \notin S
        PROVE  c \in T
    <3>1. n \in S \cup T
      BY <1>3, <2>2 DEF Reach
    <3>2. QED
      BY <3>1, <1>3, <2>2 DEF Closed
  <2>3. QED
    BY <2>1, <2>2 DEF Reach
<1>4. ASSUME NEW T \in SUBSET Nodes, S \subseteq T, Closed(T)
      PROVE  Reach(S) \subseteq T
  <2>1. T \ S \in SUBSET (Nodes \ S) /\ S \cup (T \ S) = T
    BY <1>4
  <2>2. QED
    BY <2>1, <1>4 DEF Reach
<1>5. QED
  BY <1>1, <1>2, <1>3, <1>4 DEF Closed

\* More roots reach more.
LEMMA ReachMonotone ==
  ASSUME CollectorTypeOK, NEW S \in SUBSET Nodes, NEW R, S \subseteq R
  PROVE  Reach(S) \subseteq Reach(R)
BY ReachLeast

\* The running code can only get hold of nodes that are in use.
LEMMA AccessibleAlive ==
  ASSUME IInv
  PROVE  Accessible \subseteq Alive
<1> USE DEF IInv
<1>1. Keys(InBatch({"running"})) \subseteq Alive
  BY DEF Keys, InBatch, KeysAreNodes, HasKey, NoDangling
<1>2. Closed(Alive)
  BY DEF Closed, NoDangling, Alive
<1>3. Alive \in SUBSET Nodes
  BY DEF Alive
<1>4. roots \cup held \cup Keys(InBatch({"running"})) \subseteq Alive
  BY <1>1 DEF NoDangling
<1>5. QED
  BY <1>2, <1>3, <1>4, ReachLeast DEF Accessible

-----------------------------------------------------------------------------
(* A collection *)

Unreached(gens, base) == {n \in Nodes : gen[n] \in gens} \ Reach(base)
Dying(gens, base)     == {i \in Queued({"waiting"}) : fin[i].obj \in Unreached(gens, base)}
Marked(gens, base)    == Reach(base) \cup Retained(Keys(Dying(gens, base)))
Dead(gens, base)      == Unreached(gens, base) \ Marked(gens, base)

\* The generations that a collection may take: all young ones when it promotes,
\* as no local then holds a node; old ones only in the middle of a construction.
Justified(gens, base, promote) ==
  /\ promote \in BOOLEAN
  /\ InstanceRoots \subseteq base
  /\ promote => held = {} /\ "young" \in gens
  /\ ~promote => gens = {"old"}

LEMMA SweepMeans ==
  ASSUME NEW gens, NEW base, NEW promote, Sweep(gens, base, promote)
  PROVE  /\ gen' = [n \in Nodes |-> IF n \in Dead(gens, base) THEN "free"
                                    ELSE IF promote /\ n \in Marked(gens, base) THEN "old" ELSE gen[n]]
         /\ edges' = Swept(Marked(gens, base), Dead(gens, base))
         /\ key' = [n \in Nodes |-> IF n \in Dead(gens, base) THEN NotWeak
                                    ELSE IF key[n] \in Dead(gens, base) THEN Nil ELSE key[n]]
         /\ fin' = MakeReady(Dying(gens, base))
         /\ remembered' = IF promote THEN {} ELSE remembered \ Dead(gens, base)
         /\ missed' = IF promote THEN {} ELSE {m \in missed : m[1] \notin Dead(gens, base)}
         /\ UNCHANGED <<roots, held, running>>
BY DEF Sweep, Dead, Marked, Dying, Unreached

\* What a collection keeps whole holds nothing that it frees, and every root of
\* the instance is kept, as is the key of every registration.
LEMMA MarkedClosed ==
  ASSUME IInv, NEW gens, NEW base, InstanceRoots \subseteq base
  PROVE  /\ Marked(gens, base) \subseteq Nodes /\ Closed(Marked(gens, base))
         /\ Dead(gens, base) \subseteq Nodes
         /\ Dead(gens, base) \cap Marked(gens, base) = {}
         /\ Reach(base) \subseteq Marked(gens, base)
         /\ InstanceRoots \cap Nodes \subseteq Marked(gens, base)
         /\ \A i \in Finalizers : fin[i].obj \notin Dead(gens, base) /\ fin[i].fun \notin Dead(gens, base)
<1> DEFINE D == Dying(gens, base)
           U == Unreached(gens, base)
           M == Marked(gens, base)
           X == Dead(gens, base)
<1>0. CollectorTypeOK
  BY DEF IInv
<1>1. M \subseteq Nodes /\ Closed(M)
  BY <1>0, ReachLeast DEF Marked, Retained, Closed
<1>2. X \subseteq Nodes /\ X \cap M = {} /\ Reach(base) \subseteq M
  BY DEF Dead, Unreached, Marked
<1>3. InstanceRoots \cap Nodes \subseteq M
  BY <1>0, <1>2, ReachLeast
<1>4. Keys(D) \cap Nodes \subseteq M
  BY <1>0, ReachLeast DEF Marked, Retained
<1>5. ASSUME NEW i \in Finalizers
      PROVE  fin[i].obj \notin X /\ fin[i].fun \notin X
  <2>1. fin[i] \in Finalizer
    BY <1>0 DEF CollectorTypeOK
  <2>2. fin[i].fun \notin X
    <3>1. CASE fin[i].fun = Nil
      BY <3>1, <1>2
    <3>2. CASE fin[i].fun # Nil
      <4>1. HasKey(fin[i])
        BY <3>2 DEF IInv, KeysAreNodes
      <4>2. fin[i].fun \in InstanceRoots
        BY <4>1, <3>2, <2>1 DEF HasKey, InstanceRoots, BatchRoots, QueueRoots, Functions, Queued, InBatch, Finalizer
      <4>3. QED
        BY <4>2, <1>3, <1>2
    <3>3. QED
      BY <3>1, <3>2
  <2>3. fin[i].obj \notin X
    <3>1. CASE ~HasKey(fin[i])
      BY <3>1, <1>2 DEF IInv, KeysAreNodes
    <3>2. CASE fin[i].queued = "waiting"
      <4>1. CASE fin[i].obj \in U
        <5>1. i \in D
          BY <3>2, <4>1 DEF Dying, Queued
        <5>2. fin[i].obj \in Keys(D)
          BY <5>1 DEF Keys
        <5>3. QED
          BY <5>2, <1>4, <1>2
      <4>2. CASE fin[i].obj \notin U
        BY <4>2 DEF Dead
      <4>3. QED
        BY <4>1, <4>2
    <3>3. CASE HasKey(fin[i]) /\ fin[i].queued # "waiting"
      <4>1. fin[i].obj \in InstanceRoots
        BY <3>3, <2>1 DEF HasKey, InstanceRoots, BatchRoots, QueueRoots, Keys, Queued, InBatch, Finalizer
      <4>2. QED
        BY <4>1, <1>3, <1>2
    <3>4. QED
      BY <3>1, <3>2, <3>3
  <2>4. QED
    BY <2>2, <2>3
<1>6. QED
  BY <1>1, <1>2, <1>3, <1>5

LEMMA SweepKeepsInv ==
  ASSUME IInv, NEW gens, NEW base, NEW promote, Justified(gens, base, promote),
         Sweep(gens, base, promote)
  PROVE  IInv'
<1> DEFINE D == Dying(gens, base)
           M == Marked(gens, base)
           X == Dead(gens, base)
<1>0. CollectorTypeOK /\ NoDangling
  BY DEF IInv
<1>1. /\ gen' = [n \in Nodes |-> IF n \in X THEN "free"
                                 ELSE IF promote /\ n \in M THEN "old" ELSE gen[n]]
      /\ edges' = Swept(M, X)
      /\ key' = [n \in Nodes |-> IF n \in X THEN NotWeak ELSE IF key[n] \in X THEN Nil ELSE key[n]]
      /\ fin' = MakeReady(D)
      /\ remembered' = IF promote THEN {} ELSE remembered \ X
      /\ missed' = IF promote THEN {} ELSE {m \in missed : m[1] \notin X}
      /\ roots' = roots /\ held' = held /\ running' = running
  BY SweepMeans
<1>2. /\ M \subseteq Nodes /\ Closed(M) /\ X \subseteq Nodes /\ X \cap M = {} /\ Reach(base) \subseteq M
      /\ InstanceRoots \cap Nodes \subseteq M
      /\ \A i \in Finalizers : fin[i].obj \notin X /\ fin[i].fun \notin X
  BY MarkedClosed DEF Justified
<1> HIDE DEF D, M, X
<1>3. \A n \in Nodes : edges'[n] \subseteq edges[n] \ X
  <2>1. ASSUME NEW n \in Nodes, NEW c \in edges'[n]
        PROVE  c \in edges[n] /\ c \notin X
    BY <1>1, <1>2, <2>1 DEF Swept, Closed
  <2>2. QED
    BY <2>1
<1>4. Alive \ X \subseteq Alive'
  BY <1>0, <1>1 DEF Alive, CollectorTypeOK
<1>5. ASSUME NEW i \in Finalizers
      PROVE  /\ fin'[i] \in Finalizer
             /\ fin'[i].obj = fin[i].obj /\ fin'[i].fun = fin[i].fun /\ fin'[i].run = fin[i].run
             /\ fin[i].queued = "no" => fin'[i].queued = "no"
             /\ fin[i].queued # "no" => fin'[i].queued # "no"
  <2>1. fin[i] \in Finalizer
    BY <1>0 DEF CollectorTypeOK
  <2>2. i \in D => fin[i].queued = "waiting"
    BY DEF D, Dying, Queued
  <2>3. fin'[i] = IF i \in D THEN [fin[i] EXCEPT !.queued = "ready"] ELSE fin[i]
    BY <1>1 DEF MakeReady
  <2>4. QED
    BY <2>1, <2>2, <2>3 DEF Finalizer
<1>6. \A n \in held : n \notin X /\ ~promote
  BY DEF X, Dead, Unreached, Justified, IInv, HeldYoung
<1>7. CollectorTypeOK'
  <2>1. gen' \in [Nodes -> {"free", "young", "old"}]
    BY <1>0, <1>1 DEF CollectorTypeOK
  <2>2. edges' \in [Nodes -> SUBSET Nodes]
    BY <1>0, <1>1 DEF CollectorTypeOK, Swept
  <2>3. key' \in [Nodes -> Nodes \cup {Nil, NotWeak}]
    BY <1>0, <1>1 DEF CollectorTypeOK
  <2>4. fin' \in [Finalizers -> Finalizer]
    <3>1. fin' = [i \in Finalizers |-> fin'[i]]
      BY <1>1 DEF MakeReady
    <3>2. QED
      BY <3>1, <1>5
  <2>5. QED
    BY <1>0, <1>1, <2>1, <2>2, <2>3, <2>4 DEF CollectorTypeOK
<1>8. NoDangling'
  <2>1. roots' \subseteq Alive'
    <3>1. roots \subseteq InstanceRoots \cap Nodes
      BY <1>0 DEF InstanceRoots, CollectorTypeOK
    <3>2. QED
      BY <3>1, <1>0, <1>1, <1>2, <1>4 DEF NoDangling
  <2>2. held' \subseteq Alive'
    BY <1>0, <1>1, <1>4, <1>6 DEF NoDangling
  <2>3. remembered' \subseteq Alive'
    BY <1>0, <1>1, <1>4 DEF NoDangling
  <2>4. ASSUME NEW n \in Nodes
        PROVE  edges'[n] \subseteq Alive' /\ key'[n] \in Alive' \cup {Nil, NotWeak}
    <3>1. edges'[n] \subseteq Alive'
      BY <1>0, <1>3, <1>4 DEF NoDangling
    <3>2. key[n] \in Alive \cup {Nil, NotWeak}
      BY <1>0 DEF NoDangling
    <3>3. key'[n] = NotWeak \/ key'[n] = Nil \/ (key'[n] = key[n] /\ key[n] \notin X)
      BY <1>1
    <3>4. QED
      BY <1>4, <3>1, <3>2, <3>3
  <2>5. ASSUME NEW i \in Finalizers
        PROVE  fin'[i].obj \in Alive' \cup {Nil} /\ fin'[i].fun \in Alive' \cup {Nil}
    <3>1. fin[i].obj \in Alive \cup {Nil} /\ fin[i].fun \in Alive \cup {Nil}
      BY <1>0 DEF NoDangling
    <3>2. QED
      BY <3>1, <1>2, <1>4, <1>5
  <2>6. QED
    BY <2>1, <2>2, <2>3, <2>4, <2>5 DEF NoDangling
<1>9. OldToYoungRemembered'
  <2>1. ASSUME NEW p \in Nodes, NEW c \in Nodes, gen'[p] = "old", gen'[c] = "young", c \in edges'[p]
        PROVE  p \in remembered' \/ <<p, c>> \in missed'
    <3>1. gen[c] = "young" /\ c \notin X /\ ~(promote /\ c \in M)
      BY <1>0, <1>1, <2>1 DEF CollectorTypeOK
    <3>2. CASE promote
      BY <3>1, <3>2, <1>2 DEF X, Dead, Unreached, M, Justified
    <3>3. CASE ~promote
      BY <3>1, <3>3, <2>1, <1>0, <1>1, <1>3 DEF IInv, OldToYoungRemembered, CollectorTypeOK
    <3>4. QED
      BY <3>2, <3>3
  <2>2. QED
    BY <2>1 DEF OldToYoungRemembered
<1>10. FinalizersOnce'
  <2>1. ASSUME NEW i \in Finalizers
        PROVE  fin'[i] = Unused \/ (fin'[i].queued = "no") # (fin'[i].run = "no")
    <3>1. CASE fin[i] = Unused
      <4>1. i \notin D
        BY <3>1 DEF D, Dying, Queued, Unused
      <4>2. QED
        BY <4>1, <3>1, <1>1 DEF MakeReady
    <3>2. CASE (fin[i].queued = "no") # (fin[i].run = "no")
      BY <3>2, <1>5
    <3>3. QED
      BY <3>1, <3>2 DEF IInv, FinalizersOnce
  <2>2. QED
    BY <2>1 DEF FinalizersOnce
<1>11. HeldYoung'
  BY <1>0, <1>1, <1>6 DEF HeldYoung, IInv, CollectorTypeOK
<1>12. KeysAreNodes'
  <2>1. ASSUME NEW i \in Finalizers
        PROVE  IF HasKey(fin'[i]) THEN fin'[i].obj \in Nodes
               ELSE fin'[i].obj = Nil /\ fin'[i].fun = Nil
    <3>1. HasKey(fin'[i]) <=> HasKey(fin[i])
      BY <1>5 DEF HasKey
    <3>2. QED
      BY <3>1, <1>5 DEF KeysAreNodes, IInv
  <2>2. QED
    BY <2>1 DEF KeysAreNodes
<1>13. QED
  BY <1>7, <1>8, <1>9, <1>10, <1>11, <1>12 DEF IInv

\* The three collections are justified where the code makes them.
LEMMA CollectKeepsInv ==
  ASSUME IInv, Collect
  PROVE  IInv'
<1>1. CASE MinorCollection
  <2>1. Justified({"young"}, MinorRoots, TRUE)
    BY <1>1 DEF MinorCollection, Justified, MinorRoots, AtSafePoint
  <2>2. QED
    BY <1>1, <2>1, SweepKeepsInv DEF MinorCollection
<1>2. CASE FullCollection
  <2>1. Justified({"young", "old"}, InstanceRoots, TRUE)
    BY <1>2 DEF FullCollection, Justified, AtSafePoint
  <2>2. QED
    BY <1>2, <2>1, SweepKeepsInv DEF FullCollection
<1>3. CASE TortureCollection
  <2>1. Justified({"old"}, MinorRoots, FALSE)
    BY DEF Justified, MinorRoots
  <2>2. QED
    BY <1>3, <2>1, SweepKeepsInv DEF TortureCollection
<1>4. QED
  BY <1>1, <1>2, <1>3 DEF Collect

-----------------------------------------------------------------------------
(* The program *)

LEMMA AllocateKeepsInv ==
  ASSUME IInv, NEW n \in Nodes, NEW children \in SUBSET Accessible,
         NEW weakKey \in Accessible \cup {NotWeak}, Allocate(n, children, weakKey)
  PROVE  IInv'
<1>0. CollectorTypeOK /\ NoDangling /\ Accessible \subseteq Alive /\ Alive \subseteq Nodes
  BY AccessibleAlive DEF IInv, Alive
<1>1. n \notin Alive /\ Alive' = Alive \cup {n}
  BY <1>0 DEF Allocate, CollectorTypeOK, Alive
<1>2. CollectorTypeOK'
  BY <1>0 DEF Allocate, CollectorTypeOK
<1>3. NoDangling'
  <2>1. roots' \cup held' \cup remembered' \subseteq Alive'
    BY <1>0, <1>1 DEF Allocate, NoDangling
  <2>2. ASSUME NEW m \in Nodes
        PROVE  edges'[m] \subseteq Alive' /\ key'[m] \in Alive' \cup {Nil, NotWeak}
    BY <1>0, <1>1 DEF Allocate, NoDangling, CollectorTypeOK
  <2>3. ASSUME NEW i \in Finalizers
        PROVE  fin'[i].obj \in Alive' \cup {Nil} /\ fin'[i].fun \in Alive' \cup {Nil}
    BY <1>0, <1>1 DEF Allocate, NoDangling
  <2>4. QED
    BY <2>1, <2>2, <2>3 DEF NoDangling
<1>4. OldToYoungRemembered'
  <2>1. ASSUME NEW p \in Nodes, NEW c \in Nodes, gen'[p] = "old", gen'[c] = "young", c \in edges'[p]
        PROVE  p \in remembered' \/ <<p, c>> \in missed'
    <3>1. p # n /\ gen[p] = "old" /\ c \in edges[p]
      BY <1>0, <2>1 DEF Allocate, CollectorTypeOK
    <3>2. c # n
      BY <1>0, <1>1, <3>1 DEF NoDangling
    <3>3. QED
      BY <1>0, <2>1, <3>1, <3>2 DEF Allocate, CollectorTypeOK, IInv, OldToYoungRemembered
  <2>2. QED
    BY <2>1 DEF OldToYoungRemembered
<1>5. HeldYoung'
  BY <1>0 DEF Allocate, IInv, HeldYoung, CollectorTypeOK
<1>6. FinalizersOnce' /\ KeysAreNodes'
  BY DEF Allocate, IInv, FinalizersOnce, KeysAreNodes, HasKey
<1>7. QED
  BY <1>2, <1>3, <1>4, <1>5, <1>6 DEF IInv

\* The barrier remembers the parent whose new child is younger.
LEMMA SetFieldKeepsInv ==
  ASSUME IInv, NEW parent \in Accessible, NEW child \in Accessible, SetField(parent, child)
  PROVE  IInv'
<1>0. CollectorTypeOK /\ NoDangling /\ parent \in Alive /\ child \in Alive /\ Alive \subseteq Nodes
  BY AccessibleAlive DEF IInv, Alive
<1>1. Alive' = Alive
  BY DEF SetField, Alive
<1>2. CollectorTypeOK'
  BY <1>0 DEF SetField, Barrier, CollectorTypeOK
<1>3. NoDangling'
  <2>1. roots' \cup held' \cup remembered' \subseteq Alive'
    BY <1>0, <1>1 DEF SetField, Barrier, NoDangling
  <2>2. ASSUME NEW m \in Nodes
        PROVE  edges'[m] \subseteq Alive' /\ key'[m] \in Alive' \cup {Nil, NotWeak}
    BY <1>0, <1>1 DEF SetField, NoDangling, CollectorTypeOK
  <2>3. QED
    BY <1>0, <1>1, <2>1, <2>2 DEF SetField, NoDangling
<1>4. OldToYoungRemembered'
  <2>1. ASSUME NEW p \in Nodes, NEW c \in Nodes, gen'[p] = "old", gen'[c] = "young", c \in edges'[p]
        PROVE  p \in remembered' \/ <<p, c>> \in missed'
    <3>1. gen[p] = "old" /\ gen[c] = "young" /\ (c \in edges[p] \/ (p = parent /\ c = child))
      BY <1>0, <2>1 DEF SetField, CollectorTypeOK
    <3>2. QED
      BY <3>1 DEF SetField, Barrier, IInv, OldToYoungRemembered
  <2>2. QED
    BY <2>1 DEF OldToYoungRemembered
<1>5. HeldYoung' /\ FinalizersOnce' /\ KeysAreNodes'
  BY DEF SetField, IInv, HeldYoung, FinalizersOnce, KeysAreNodes, HasKey
<1>6. QED
  BY <1>2, <1>3, <1>4, <1>5 DEF IInv

LEMMA ClearFieldKeepsInv ==
  ASSUME IInv, NEW parent \in Accessible, NEW child \in Accessible, ClearField(parent, child)
  PROVE  IInv'
<1>0. CollectorTypeOK /\ NoDangling
  BY DEF IInv
<1>1. Alive' = Alive
  BY DEF ClearField, Alive
<1>2. \A n \in Nodes : edges'[n] \subseteq edges[n]
  BY <1>0 DEF ClearField, CollectorTypeOK
<1>3. CollectorTypeOK'
  BY <1>0 DEF ClearField, CollectorTypeOK
<1>4. NoDangling'
  BY <1>0, <1>1, <1>2 DEF ClearField, NoDangling
<1>5. OldToYoungRemembered'
  <2>1. ASSUME NEW p \in Nodes, NEW c \in Nodes, gen'[p] = "old", gen'[c] = "young", c \in edges'[p]
        PROVE  p \in remembered' \/ <<p, c>> \in missed'
    <3>1. p \in remembered \/ <<p, c>> \in missed
      BY <1>2, <2>1 DEF ClearField, IInv, OldToYoungRemembered
    <3>2. <<p, c>> # <<parent, child>>
      BY <1>0, <2>1 DEF ClearField, CollectorTypeOK
    <3>3. QED
      BY <3>1, <3>2 DEF ClearField
  <2>2. QED
    BY <2>1 DEF OldToYoungRemembered
<1>6. HeldYoung' /\ FinalizersOnce' /\ KeysAreNodes'
  BY DEF ClearField, IInv, HeldYoung, FinalizersOnce, KeysAreNodes, HasKey
<1>7. QED
  BY <1>3, <1>4, <1>5, <1>6 DEF IInv

\* A promise whose value is published is remembered already, or joins the missed.
LEMMA PublishKeepsInv ==
  ASSUME IInv, NEW promise \in Accessible, NEW value \in Accessible,
         NEW environment \in edges[promise] \cup {Nil}, PublishValue(promise, environment, value)
  PROVE  IInv'
<1>0. CollectorTypeOK /\ NoDangling /\ promise \in Alive /\ value \in Alive /\ Alive \subseteq Nodes
  BY AccessibleAlive DEF IInv, Alive
<1>1. Alive' = Alive
  BY DEF PublishValue, Alive
<1>2. /\ edges' = [edges EXCEPT ![promise] = (@ \ {environment}) \cup {value}]
      /\ missed' = (missed \ {<<promise, environment>>}) \cup
                    (IF Barrier(promise, value) = remembered THEN {} ELSE {<<promise, value>>})
      /\ UNCHANGED <<gen, key, roots, held, remembered, fin, running>>
  BY DEF PublishValue
<1>3. CollectorTypeOK'
  <2>1. missed' \subseteq Nodes \X Nodes
    BY <1>0, <1>2 DEF CollectorTypeOK
  <2>2. edges' \in [Nodes -> SUBSET Nodes]
    BY <1>0, <1>2 DEF CollectorTypeOK
  <2>3. QED
    BY <1>0, <1>2, <2>1, <2>2 DEF CollectorTypeOK
<1>4. NoDangling'
  <2>1. ASSUME NEW m \in Nodes
        PROVE  edges'[m] \subseteq Alive' /\ key'[m] \in Alive' \cup {Nil, NotWeak}
    BY <1>0, <1>1, <1>2 DEF NoDangling, CollectorTypeOK
  <2>2. QED
    BY <1>0, <1>1, <1>2, <2>1 DEF NoDangling
<1>5. OldToYoungRemembered'
  <2>1. ASSUME NEW p \in Nodes, NEW c \in Nodes, gen'[p] = "old", gen'[c] = "young", c \in edges'[p]
        PROVE  p \in remembered' \/ <<p, c>> \in missed'
    <3>1. CASE p = promise /\ c = value
      <4>1. Barrier(promise, value) = remembered \cup {promise}
        BY <2>1, <3>1, <1>2 DEF Barrier
      <4>2. QED
        BY <4>1, <3>1, <1>2
    <3>2. CASE ~(p = promise /\ c = value)
      <4>1. c \in edges[p] /\ ~(p = promise /\ c = environment)
        BY <1>0, <1>2, <2>1, <3>2 DEF CollectorTypeOK
      <4>2. p \in remembered \/ <<p, c>> \in missed
        BY <1>2, <2>1, <4>1 DEF IInv, OldToYoungRemembered
      <4>3. <<p, c>> # <<promise, environment>>
        BY <4>1
      <4>4. QED
        BY <1>2, <4>2, <4>3
    <3>3. QED
      BY <3>1, <3>2
  <2>2. QED
    BY <2>1 DEF OldToYoungRemembered
<1>6. HeldYoung' /\ FinalizersOnce' /\ KeysAreNodes'
  BY <1>2 DEF IInv, HeldYoung, FinalizersOnce, KeysAreNodes, HasKey
<1>7. QED
  BY <1>3, <1>4, <1>5, <1>6 DEF IInv

\* Roots and locals may change as long as they hold nodes in use, and locals young ones.
LEMMA RootingKeepsInv ==
  ASSUME IInv, UNCHANGED <<heapVars, fin, running>>, roots' \subseteq Alive, held' \subseteq held
  PROVE  IInv'
<1>1. Alive' = Alive /\ Alive \subseteq Nodes
  BY DEF Alive, heapVars
<1>2. CollectorTypeOK'
  BY <1>1 DEF IInv, CollectorTypeOK, heapVars
<1>3. NoDangling'
  BY <1>1 DEF IInv, NoDangling, heapVars
<1>4. OldToYoungRemembered' /\ FinalizersOnce' /\ HeldYoung' /\ KeysAreNodes'
  BY DEF IInv, OldToYoungRemembered, FinalizersOnce, HeldYoung, KeysAreNodes, HasKey, heapVars
<1>5. QED
  BY <1>2, <1>3, <1>4 DEF IInv

LEMMA RootKeepsInv ==
  ASSUME IInv, NEW n \in Accessible \cup WeakKeys(Accessible), Root(n)
  PROVE  IInv'
<1>1. n \in Alive
  <2>1. CASE n \in Accessible
    BY <2>1, AccessibleAlive
  <2>2. CASE n \in WeakKeys(Accessible)
    <3>1. PICK w \in Accessible : n = key[w] /\ n \in Nodes
      BY <2>2 DEF WeakKeys
    <3>2. w \in Nodes
      BY AccessibleAlive DEF Alive
    <3>3. QED
      BY <3>1, <3>2 DEF IInv, NoDangling
  <2>3. QED
    BY <2>1, <2>2
<1>2. QED
  BY <1>1, RootingKeepsInv DEF Root, IInv, NoDangling

-----------------------------------------------------------------------------
(* The queue *)

\* What the invariants ask of one registration.
Sound(f) ==
  /\ f \in Finalizer
  /\ f.obj \in Alive \cup {Nil} /\ f.fun \in Alive \cup {Nil}
  /\ f = Unused \/ (f.queued = "no") # (f.run = "no")
  /\ IF HasKey(f) THEN f.obj \in Nodes ELSE f.obj = Nil /\ f.fun = Nil

LEMMA AllSound ==
  ASSUME IInv
  PROVE  \A i \in Finalizers : Sound(fin[i])
BY DEF IInv, Sound, CollectorTypeOK, NoDangling, FinalizersOnce, KeysAreNodes

\* A step of the queue alone keeps the invariants if it leaves sound registrations.
LEMMA QueueKeepsInv ==
  ASSUME IInv, UNCHANGED <<heapVars, roots, held>>, running' \in BOOLEAN,
         fin' = [i \in Finalizers |-> fin'[i]], \A i \in Finalizers : Sound(fin'[i])
  PROVE  IInv'
<1>1. Alive' = Alive
  BY DEF Alive, heapVars
<1>2. CollectorTypeOK'
  <2>1. fin' \in [Finalizers -> Finalizer]
    BY DEF Sound
  <2>2. QED
    BY <2>1 DEF IInv, CollectorTypeOK, heapVars
<1>3. NoDangling'
  BY <1>1 DEF IInv, NoDangling, heapVars, Sound
<1>4. OldToYoungRemembered' /\ HeldYoung'
  BY DEF IInv, OldToYoungRemembered, HeldYoung, heapVars
<1>5. FinalizersOnce' /\ KeysAreNodes'
  BY DEF FinalizersOnce, KeysAreNodes, Sound, HasKey
<1>6. QED
  BY <1>2, <1>3, <1>4, <1>5 DEF IInv

LEMMA RegisterKeepsInv ==
  ASSUME IInv, NEW obj \in Accessible, NEW fun \in Accessible, Register(obj, fun)
  PROVE  IInv'
<1>1. obj \in Alive /\ fun \in Alive /\ Alive \subseteq Nodes
  BY AccessibleAlive DEF Alive
<1>2. PICK i \in Finalizers :
        fin' = [fin EXCEPT ![i] = [queued |-> "waiting", run |-> "no", obj |-> obj,
                                     fun |-> IF i \in InR THEN fun ELSE Nil]]
  BY DEF Register
<1>3. fin \in [Finalizers -> Finalizer]
  BY DEF IInv, CollectorTypeOK
<1>4. fin' = [j \in Finalizers |-> fin'[j]]
  BY <1>2, <1>3
<1>5. ASSUME NEW j \in Finalizers
      PROVE  Sound(fin'[j])
  <2>1. CASE j # i
    BY <2>1, <1>2, <1>3, AllSound
  <2>2. CASE j = i
    <3> DEFINE r == [queued |-> "waiting", run |-> "no", obj |-> obj,
                     fun |-> IF i \in InR THEN fun ELSE Nil]
    <3>1. fin'[j] = r
      BY <2>2, <1>2, <1>3
    <3>2. r \in Finalizer /\ r.queued = "waiting" /\ r.run = "no" /\ r.obj = obj
          /\ r.fun \in Alive \cup {Nil}
      BY <1>1 DEF Finalizer
    <3>3. QED
      BY <3>1, <3>2, <1>1 DEF Sound, HasKey
  <2>3. QED
    BY <2>1, <2>2
<1>6. QED
  BY <1>4, <1>5, QueueKeepsInv DEF Register, IInv, CollectorTypeOK

\* Making a waiting registration ready, or taking a ready one, keeps it sound.
LEMMA ReadySound ==
  ASSUME IInv, NEW I, I \subseteq Queued({"waiting"}), NEW i \in Finalizers
  PROVE  Sound(MakeReady(I)[i])
<1> DEFINE f == fin[i]
           g == [f EXCEPT !.queued = "ready"]
<1>0. f \in Finalizer /\ Sound(f)
  BY AllSound DEF IInv, CollectorTypeOK
<1>1. MakeReady(I)[i] = IF i \in I THEN g ELSE f
  BY DEF MakeReady
<1>2. CASE i \in I
  <2>1. f.queued = "waiting"
    BY <1>2 DEF Queued
  <2>2. g \in Finalizer /\ g.queued = "ready" /\ g.run = f.run /\ g.obj = f.obj /\ g.fun = f.fun
    BY <1>0 DEF Finalizer
  <2>3. f.run = "no"
    BY <2>1, <1>0 DEF Sound, Unused
  <2>4. Sound(g)
    BY <1>0, <2>1, <2>2, <2>3 DEF Sound, HasKey
  <2>5. QED
    BY <1>1, <1>2, <2>4
<1>3. QED
  BY <1>0, <1>1, <1>2

LEMMA TakenSound ==
  ASSUME NEW f, Sound(f), f.queued = "ready"
  PROVE  Sound(Taken(f))
<1>1. /\ Taken(f) \in Finalizer /\ Taken(f).queued = "no" /\ Taken(f).run = "claimed"
      /\ Taken(f).obj = f.obj /\ Taken(f).fun = f.fun
  BY DEF Sound, Finalizer, Taken
<1>2. QED
  BY <1>1 DEF Sound, HasKey

LEMMA TakeReadyKeepsInv ==
  ASSUME IInv, NEW fs, fs = [i \in Finalizers |-> fs[i]], \A i \in Finalizers : Sound(fs[i]),
         TakeReady(fs), UNCHANGED <<heapVars, roots, held>>
  PROVE  IInv'
<1>1. running' \in BOOLEAN
  BY DEF TakeReady, IInv, CollectorTypeOK
<1>2. fin' = [i \in Finalizers |-> fin'[i]]
  BY DEF TakeReady
<1>3. ASSUME NEW i \in Finalizers
      PROVE  Sound(fin'[i])
  <2>1. fin'[i] = fs[i] \/ (fs[i].queued = "ready" /\ fin'[i] = Taken(fs[i]))
    BY DEF TakeReady
  <2>2. QED
    BY <2>1, TakenSound
<1>4. QED
  BY <1>1, <1>2, <1>3, QueueKeepsInv

LEMMA RunPendingKeepsInv ==
  ASSUME IInv, RunPendingFinalizers
  PROVE  IInv'
<1>1. fin = [i \in Finalizers |-> fin[i]]
  BY DEF IInv, CollectorTypeOK
<1>2. QED
  BY <1>1, AllSound, TakeReadyKeepsInv DEF RunPendingFinalizers

LEMMA RunExitKeepsInv ==
  ASSUME IInv, RunExitFinalizers
  PROVE  IInv'
<1> DEFINE I == Queued({"waiting"}) \cap OnExit
<1>1. \A i \in Finalizers : Sound(MakeReady(I)[i])
  BY ReadySound
<1>2. MakeReady(I) = [i \in Finalizers |-> MakeReady(I)[i]]
  BY DEF MakeReady
<1>3. TakeReady(MakeReady(I)) /\ UNCHANGED <<heapVars, roots, held>>
  BY DEF RunExitFinalizers
<1>4. QED
  BY <1>1, <1>2, <1>3, TakeReadyKeepsInv

LEMMA NextFinalizerKeepsInv ==
  ASSUME IInv, NextFinalizer
  PROVE  IInv'
<1>1. PICK i \in InBatch({"claimed"}) :
        fin' = [j \in Finalizers |-> IF j = i THEN [fin[j] EXCEPT !.run = "running"]
                                     ELSE Returned(fin[j])]
  BY DEF NextFinalizer
<1>2. ASSUME NEW j \in Finalizers
      PROVE  Sound(fin'[j])
  <2> DEFINE f == fin[j]
             g == fin'[j]
  <2>0. f \in Finalizer /\ Sound(f)
    BY AllSound DEF IInv, CollectorTypeOK
  <2>1. g = f \/ (/\ f.run \in {"claimed", "running"}
                  /\ g \in {[f EXCEPT !.run = "running"], [f EXCEPT !.run = "ran"]})
    BY <1>1 DEF Returned, InBatch
  <2>2. CASE g # f
    <3>1. /\ f.run \in {"claimed", "running"} /\ g \in Finalizer /\ g.run \in {"running", "ran"}
          /\ g.queued = f.queued /\ g.obj = f.obj /\ g.fun = f.fun
      BY <2>0, <2>1, <2>2 DEF Finalizer
    <3>2. QED
      BY <2>0, <3>1 DEF Sound, HasKey, Unused
  <2>3. QED
    BY <2>0, <2>2
<1>3. fin' = [j \in Finalizers |-> fin'[j]]
  BY <1>1
<1>4. QED
  BY <1>2, <1>3, QueueKeepsInv DEF NextFinalizer, IInv, CollectorTypeOK

LEMMA BatchDoneKeepsInv ==
  ASSUME IInv, BatchDone
  PROVE  IInv'
<1>1. fin' = [j \in Finalizers |-> Done(fin[j])]
  BY DEF BatchDone
<1>2. ASSUME NEW j \in Finalizers
      PROVE  Sound(fin'[j])
  <2> DEFINE f == fin[j]
             g == [f EXCEPT !.run = "done", !.obj = Nil, !.fun = Nil]
  <2>0. f \in Finalizer /\ Sound(f)
    BY AllSound DEF IInv, CollectorTypeOK
  <2>1. fin'[j] = f \/ (f.run \in {"running", "ran"} /\ fin'[j] = g)
    BY <1>1 DEF Done
  <2>2. CASE f.run \in {"running", "ran"}
    <3>1. g \in Finalizer /\ g.queued = f.queued /\ g.run = "done" /\ g.obj = Nil /\ g.fun = Nil
      BY <2>0 DEF Finalizer
    <3>2. f.queued = "no"
      BY <2>0, <2>2 DEF Sound, Unused
    <3>3. Sound(g)
      BY <3>1, <3>2 DEF Sound, HasKey
    <3>4. QED
      BY <2>0, <2>1, <3>3
  <2>3. QED
    BY <2>0, <2>1, <2>2
<1>3. fin' = [j \in Finalizers |-> fin'[j]]
  BY <1>1
<1>4. QED
  BY <1>2, <1>3, QueueKeepsInv DEF BatchDone

-----------------------------------------------------------------------------
(* Every step *)

LEMMA MutateKeepsInv ==
  ASSUME IInv, Mutate
  PROVE  IInv'
<1>1. CASE \E n \in Nodes, children \in SUBSET Accessible,
              weakKey \in (Accessible \ WeakRefs) \cup {NotWeak} : Allocate(n, children, weakKey)
  BY <1>1, AllocateKeepsInv
<1>2. CASE \E parent, child \in Accessible : SetField(parent, child) \/ ClearField(parent, child)
  BY <1>2, SetFieldKeepsInv, ClearFieldKeepsInv
<1>3. CASE \E promise, value \in Accessible : \E environment \in edges[promise] \cup {Nil} :
              PublishValue(promise, environment, value)
  BY <1>3, PublishKeepsInv
<1>4. CASE \E n \in Accessible \cup WeakKeys(Accessible) : Root(n)
  BY <1>4, RootKeepsInv
<1>5. CASE \E n \in Nodes : Unroot(n) \/ Forget(n)
  BY <1>5, RootingKeepsInv DEF Unroot, Forget, heapVars, IInv, NoDangling
<1>6. CASE \E obj, fun \in Accessible \ WeakRefs : Register(obj, fun)
  BY <1>6, RegisterKeepsInv
<1>7. QED
  BY <1>1, <1>2, <1>3, <1>4, <1>5, <1>6 DEF Mutate

LEMMA InitInv == Init => IInv
<1> SUFFICES ASSUME Init
             PROVE  IInv
  OBVIOUS
<1>1. Unused \in Finalizer /\ ~HasKey(Unused)
  BY DEF Unused, Finalizer, HasKey
<1>2. CollectorTypeOK
  BY <1>1 DEF Init, CollectorTypeOK
<1>3. NoDangling
  BY DEF Init, NoDangling, Unused
<1>4. OldToYoungRemembered /\ FinalizersOnce /\ HeldYoung
  BY DEF Init, OldToYoungRemembered, FinalizersOnce, HeldYoung
<1>5. KeysAreNodes
  BY <1>1 DEF Init, KeysAreNodes, Unused
<1>6. QED
  BY <1>2, <1>3, <1>4, <1>5 DEF IInv

LEMMA NextInv == IInv /\ [Next]_vars => IInv'
<1> SUFFICES ASSUME IInv, [Next]_vars
             PROVE  IInv'
  OBVIOUS
<1>1. CASE Mutate
  BY <1>1, MutateKeepsInv
<1>2. CASE Collect
  BY <1>2, CollectKeepsInv
<1>3. CASE RunPendingFinalizers \/ RunExitFinalizers \/ NextFinalizer \/ BatchDone
  BY <1>3, RunPendingKeepsInv, RunExitKeepsInv, NextFinalizerKeepsInv, BatchDoneKeepsInv
<1>4. CASE UNCHANGED vars
  <2>1. UNCHANGED <<heapVars, roots, held, fin, running>>
    BY <1>4 DEF vars, heapVars
  <2>2. QED
    BY <2>1, RootingKeepsInv DEF IInv, NoDangling
<1>5. QED
  BY <1>1, <1>2, <1>3, <1>4 DEF Next

\* The inductive invariant holds in every reachable state.
THEOREM Invariance == Spec => []IInv
BY InitInv, NextInv, PTL DEF Spec

\* Every variable keeps its type.
THEOREM TypeCorrect == Spec => []CollectorTypeOK
<1>1. IInv => CollectorTypeOK
  BY DEF IInv
<1>2. QED
  BY <1>1, Invariance, PTL

\* No root, local, field, weak key, remembered parent or finalizer ever refers
\* to a freed slot.
THEOREM NothingDangles == Spec => []NoDangling
<1>1. IInv => NoDangling
  BY DEF IInv
<1>2. QED
  BY <1>1, Invariance, PTL

\* The remembered set always holds every old parent of a young node, except a
\* promise for the value that was published into it.
THEOREM BarrierComplete == Spec => []OldToYoungRemembered
<1>1. IInv => OldToYoungRemembered
  BY DEF IInv
<1>2. QED
  BY <1>1, Invariance, PTL

\* No registration is lost, and none is run twice.
THEOREM EachFinalizerOnce == Spec => []FinalizersOnce
<1>1. IInv => FinalizersOnce
  BY DEF IInv
<1>2. QED
  BY <1>1, Invariance, PTL

-----------------------------------------------------------------------------
(* What a collection may do *)

LEMMA CollectionKeepsSurvivors ==
  ASSUME IInv, MinorCollection \/ FullCollection, NEW n \in Alive, n \in Alive',
         NEW c \in edges[n] \ edges'[n]
  PROVE  <<n, c>> \in missed
<1>0. CollectorTypeOK /\ NoDangling /\ n \in Nodes
  BY DEF IInv, Alive
<1>1. PICK gens, base :
        /\ Sweep(gens, base, TRUE) /\ InstanceRoots \subseteq base
        /\ \/ gens = {"young"} /\ base = MinorRoots
           \/ gens = {"young", "old"}
  BY DEF MinorCollection, FullCollection, MinorRoots
<1> DEFINE M == Marked(gens, base)
           X == Dead(gens, base)
<1>2. /\ gen' = [m \in Nodes |-> IF m \in X THEN "free" ELSE IF TRUE /\ m \in M THEN "old" ELSE gen[m]]
      /\ edges' = Swept(M, X)
  BY <1>1, SweepMeans, Zenon
<1> HIDE DEF M, X
<1>3. n \notin X
  BY <1>0, <1>2 DEF Alive
<1>4. edges'[n] = IF n \in M THEN edges[n] ELSE edges[n] \ X
  BY <1>0, <1>3, <1>2 DEF Swept
<1>5. CASE n \in M
  BY <1>4, <1>5
<1>6. CASE n \notin M
  <2>1. n \notin Reach(base)
    BY <1>6 DEF M, Marked
  <2>2. gen[n] \notin gens
    BY <1>0, <1>3, <1>6, <2>1 DEF M, X, Dead, Unreached
  <2>3. gens = {"young"} /\ base = MinorRoots /\ gen[n] = "old"
    BY <1>0, <1>1, <2>2 DEF CollectorTypeOK, Alive
  <2>4. n \notin remembered
    BY <1>0, <2>1, <2>3, ReachLeast DEF MinorRoots
  <2>5. c \in Nodes /\ c \in X
    BY <1>0, <1>4, <1>6 DEF CollectorTypeOK
  <2>6. gen[c] = "young"
    BY <2>3, <2>5 DEF X, Dead, Unreached
  <2>7. QED
    BY <1>0, <2>3, <2>4, <2>5, <2>6 DEF IInv, OldToYoungRemembered
<1>7. QED
  BY <1>5, <1>6

\* A collection at a safe point frees a node or leaves its fields alone, those of
\* a promise published without a barrier excepted.
THEOREM CollectionsSpareFields == Spec => SurvivorsIntact
<1>1. IInv /\ [Next]_vars =>
        [\A n \in Alive \cap Alive' : \A c \in edges[n] \ edges'[n] :
           <<n, c>> \notin missed => ~(MinorCollection \/ FullCollection)]_vars
  BY CollectionKeepsSurvivors
<1>2. QED
  BY <1>1, Invariance, PTL DEF SurvivorsIntact, Spec

LEMMA ReadyIsUnreachable ==
  ASSUME IInv, Collect, AtSafePoint, NEW i \in Queued({"waiting"}), fin'[i].queued = "ready"
  PROVE  fin[i].obj \notin Accessible
<1>1. PICK gens, base, promote : Sweep(gens, base, promote) /\ InstanceRoots \subseteq base
  BY DEF Collect, MinorCollection, FullCollection, TortureCollection, MinorRoots
<1>2. i \in Dying(gens, base)
  BY <1>1, SweepMeans DEF MakeReady, Queued
<1>3. fin[i].obj \notin Reach(base)
  BY <1>2 DEF Dying, Unreached
<1>4. roots \cup held \cup Keys(InBatch({"running"})) \subseteq base
  BY <1>1 DEF AtSafePoint, InstanceRoots, BatchRoots, Keys, InBatch
<1>5. Accessible \subseteq Reach(base)
  <2>1. roots \cup held \cup Keys(InBatch({"running"})) \in SUBSET Nodes
    BY DEF IInv, CollectorTypeOK, KeysAreNodes, HasKey, Keys, InBatch
  <2>2. QED
    BY <2>1, <1>4, ReachMonotone DEF Accessible, IInv
<1>6. QED
  BY <1>3, <1>5

\* At a safe point only what the program cannot reach is finalized.
THEOREM OnlyUnreachableFinalized == Spec => FinalizedUnreachable
<1> DEFINE P == \A i \in Queued({"waiting"}) :
                  fin'[i].queued = "ready" /\ AtSafePoint => fin[i].obj \notin Accessible \/ RunExitFinalizers
<1>1. IInv /\ [Next]_vars => [P]_vars
  <2> SUFFICES ASSUME IInv, Next, NEW i \in Queued({"waiting"}),
                      fin'[i].queued = "ready", AtSafePoint
               PROVE  fin[i].obj \notin Accessible \/ RunExitFinalizers
    OBVIOUS
  <2>0. i \in Finalizers /\ fin[i] \in Finalizer /\ fin[i].queued = "waiting"
        /\ fin \in [Finalizers -> Finalizer]
    BY DEF Queued, IInv, CollectorTypeOK
  <2>1. ~Mutate
    BY <2>0 DEF Mutate, Allocate, SetField, ClearField, PublishValue,
              Root, Unroot, Forget, Register, Unused
  <2>2. CASE Collect
    BY <2>2, ReadyIsUnreachable
  <2>3. ~RunPendingFinalizers
    BY <2>0 DEF RunPendingFinalizers, TakeReady
  <2>4. ~NextFinalizer
    BY <2>0 DEF NextFinalizer, Returned, InBatch, Finalizer
  <2>5. ~BatchDone
    <3>1. Done(fin[i]).queued = "waiting"
      BY <2>0 DEF Done, Finalizer
    <3>2. QED
      BY <2>0, <3>1 DEF BatchDone
  <2>6. QED
    BY <2>1, <2>2, <2>3, <2>4, <2>5 DEF Next
<1>2. QED
  BY <1>1, Invariance, PTL DEF FinalizedUnreachable, Spec
=============================================================================
