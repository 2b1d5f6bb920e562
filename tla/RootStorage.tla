---------------------------- MODULE RootStorage ----------------------------
(***************************************************************************)
(* The slot table behind the root leases of an interpreter instance        *)
(* (crates/rmath/src/sexp/root_storage.rs): entries that keep their index, *)
(* a free list of vacant ones, and a generation per lease that tells a     *)
(* handle to a released slot from the slot's next owner.  It belongs to    *)
(* one thread and is borrowed for one call at a time, so a call is a step. *)
(*                                                                         *)
(* entries is the first len slots; an index beyond them is Blank.  The     *)
(* order of the free list is left out: free[i] counts i's occurrences, and *)
(* a claim pops any of them.  Both buffers grow together, so one capacity  *)
(* stands for the two.                                                     *)
(***************************************************************************)
EXTENDS Naturals, FiniteSets, Functions

CONSTANTS Values, NoValue, MaxSlots, MaxGeneration

ASSUME StorageAssumption ==
  /\ NoValue \notin Values
  /\ MaxSlots \in Nat
  /\ MaxGeneration \in Nat

VARIABLES slots,     \* entries: slots[i], for i < len
          len,       \* entries.len()
          free,      \* free[i]: occurrences of i in the free list
          capacity,  \* of both buffers
          next,      \* next_generation
          issued,    \* history: the handles (SlotId) that claims returned
          call       \* history: the last call, and what it was made with

storageVars == <<slots, len, free, capacity, next, issued, call>>

Indices     == 0..(MaxSlots - 1)
Generations == 0..(MaxGeneration - 1)
Entry  == [generation : Nat, value : Values \cup {NoValue}, managed : BOOLEAN]
Handle == [index : Indices, generation : Generations]
Blank  == [generation |-> 0, value |-> NoValue, managed |-> FALSE]
Call   == [op : {"new", "claim", "release", "replace", "replace_if_current",
                 "retain_managed", "restore", "truncate"}, arg : Nat]

Occupied(i) == i < len /\ slots[i].value # NoValue

StorageTypeOK ==
  /\ slots \in [Indices -> Entry]
  /\ len \in 0..MaxSlots
  /\ free \in [Indices -> Nat]
  /\ capacity \in 0..MaxSlots
  /\ next \in 0..MaxGeneration
  /\ issued \subseteq Handle
  /\ call \in Call

StorageInit ==
  /\ slots = [i \in Indices |-> Blank]
  /\ len = 0
  /\ free = [i \in Indices |-> 0]
  /\ capacity = 0
  /\ next = 0
  /\ issued = {}
  /\ call = [op |-> "new", arg |-> 0]

Called(op, arg) == call' = [op |-> op, arg |-> arg]
-----------------------------------------------------------------------------
(* Claims.  A claim that fails - generations exhausted, or no memory for    *)
(* the replacement buffers - changes nothing and is no step.                *)

LargestOf(a, b) == IF a > b THEN a ELSE b

\* A full buffer counts as large enough.
BugReserved ==
  IF len <= capacity THEN {capacity}
  ELSE {LargestOf(2 * capacity, LargestOf(len + 1, 4)), len + 1} \cap 0..MaxSlots

\* reserve_new_slots(1): twice the capacity if the ledger admits that, else
\* what is needed.  MaxSlots is what the ledger can admit at all.
Reserved ==
  IF len < capacity THEN {capacity}
  ELSE {LargestOf(2 * capacity, LargestOf(len + 1, 4)), len + 1} \cap 0..MaxSlots

BugGenerationLeft == TRUE

\* checked_add on the generation.
GenerationLeft == next < MaxGeneration

\* A recycled slot does not get a generation of its own.
BugLease(i, value, managed) ==
  /\ slots' = [slots EXCEPT ![i] = [generation |-> next, value |-> value, managed |-> managed]]
  /\ next' = IF i < len THEN next ELSE next + 1
  /\ issued' = issued \cup {[index |-> i, generation |-> next]}
  /\ Called("claim", next)

Lease(i, value, managed) ==
  /\ slots' = [slots EXCEPT ![i] = [generation |-> next, value |-> value, managed |-> managed]]
  /\ next' = next + 1
  /\ issued' = issued \cup {[index |-> i, generation |-> next]}
  /\ Called("claim", next)

\* try_claim with a vacancy: free.pop().
ClaimVacant(value, managed) ==
  /\ GenerationLeft
  /\ \E i \in Indices :
       /\ free[i] > 0
       /\ free' = [free EXCEPT ![i] = @ - 1]
       /\ Lease(i, value, managed)
  /\ UNCHANGED <<len, capacity>>

\* try_claim without one: entries.push().
ClaimFresh(value, managed) ==
  /\ GenerationLeft
  /\ \A i \in Indices : free[i] = 0
  /\ capacity' \in Reserved
  /\ len \in Indices
  /\ Lease(len, value, managed)
  /\ len' = len + 1
  /\ UNCHANGED free

-----------------------------------------------------------------------------
(* Calls with a handle.  One that is stale changes nothing.                 *)

\* A handle is its index.
BugHolds(h) == Occupied(h.index)

Holds(h) == Occupied(h.index) /\ slots[h.index].generation = h.generation

UnchangedStorage == UNCHANGED <<slots, len, free, capacity, next, issued>>

\* The tail that is vacant once the slots are as in f is f[n], f[n+1], ...
IsVacantTail(f, n) ==
  /\ n > 0 => f[n - 1].value # NoValue
  /\ \A j \in n..(len - 1) : f[j].value = NoValue

\* Each popped index is taken out of the free list, once.
PopTail(f, n) ==
  [i \in Indices |-> IF i \in n..(len - 1) /\ f[i] > 0 THEN f[i] - 1 ELSE f[i]]

\* The slots and the free list once the occupied slots in vacated are cleared
\* and pushed.
Emptied(vacated) ==
  [i \in Indices |-> IF i \in vacated
                     THEN [generation |-> slots[i].generation, value |-> NoValue,
                           managed |-> FALSE]
                     ELSE slots[i]]
Pushed(vacated) ==
  [i \in Indices |-> IF i \in vacated THEN free[i] + 1 ELSE free[i]]

\* release of the slots in vacated: clear them, push them, pop the vacant tail.
Vacate(vacated) ==
  /\ \E n \in 0..len :
       /\ IsVacantTail(Emptied(vacated), n)
       /\ len' = n
       /\ slots' = [i \in Indices |-> IF i < n THEN Emptied(vacated)[i] ELSE Blank]
       /\ free' = PopTail(Pushed(vacated), n)
  /\ UNCHANGED <<capacity, next, issued>>

Release(h) ==
  /\ IF Holds(h) THEN Vacate({h.index}) ELSE UnchangedStorage
  /\ Called("release", h.generation)

\* The slots once the entry at i is changed in place.
Written(i, value, managed) ==
  [slots EXCEPT ![i] = [generation |-> slots[i].generation, value |-> value,
                        managed |-> managed]]

Replace(h, value) ==
  /\ slots' = IF Holds(h) THEN Written(h.index, value, slots[h.index].managed) ELSE slots
  /\ UNCHANGED <<len, free, capacity, next, issued>>
  /\ Called("replace", h.generation)

\* An update prepared earlier from updates_snapshot, with the value it read:
\* callbacks may have run since.
ReplaceIfCurrent(h, expected, value) ==
  /\ slots' = IF Holds(h) /\ slots[h.index].value = expected
              THEN Written(h.index, value, slots[h.index].managed) ELSE slots
  /\ UNCHANGED <<len, free, capacity, next, issued>>
  /\ Called("replace_if_current", h.generation)

RetainManaged(h) ==
  /\ slots' = IF Holds(h) THEN Written(h.index, slots[h.index].value, TRUE) ELSE slots
  /\ UNCHANGED <<len, free, capacity, next, issued>>
  /\ Called("retain_managed", h.generation)

-----------------------------------------------------------------------------
(* Calls on the whole table *)

\* restore releases its slots one by one from the top; a slot it has yet to
\* reach is occupied, so no tail that a release pops contains one, and the
\* outcome is that of releasing them together.
Restore(checkpoint) ==
  LET scoped == {i \in Indices : /\ Occupied(i)
                                 /\ ~slots[i].managed
                                 /\ slots[i].generation >= checkpoint}
  IN  /\ IF scoped = {} THEN UnchangedStorage ELSE Vacate(scoped)
      /\ Called("restore", checkpoint)

\* The free list is not truncated.
BugTruncate(depth) ==
  /\ len' = IF depth < len THEN depth ELSE len
  /\ slots' = [i \in Indices |-> IF i < depth THEN slots[i] ELSE Blank]
  /\ UNCHANGED <<free, capacity, next, issued>>
  /\ Called("truncate", depth)

\* truncate, and clear as truncate(0); vacancies at the new end stay.
Truncate(depth) ==
  /\ len' = IF depth < len THEN depth ELSE len
  /\ slots' = [i \in Indices |-> IF i < depth THEN slots[i] ELSE Blank]
  /\ free' = [i \in Indices |-> IF i < depth THEN free[i] ELSE 0]
  /\ UNCHANGED <<capacity, next, issued>>
  /\ Called("truncate", depth)

StorageNext ==
  \/ \E value \in Values, managed \in BOOLEAN :
       ClaimVacant(value, managed) \/ ClaimFresh(value, managed)
  \/ \E h \in issued :
       \/ Release(h)
       \/ RetainManaged(h)
       \/ \E value \in Values :
            \/ Replace(h, value)
            \/ \E expected \in Values : ReplaceIfCurrent(h, expected, value)
  \/ \E checkpoint \in 0..next : Restore(checkpoint)
  \/ \E depth \in 0..MaxSlots : Truncate(depth)

StorageSpec == StorageInit /\ [][StorageNext]_storageVars

-----------------------------------------------------------------------------
(* Properties *)

\* The free list holds exactly the vacant entries, each once: a slot is never
\* handed out while it is occupied, nor to two owners, and never leaks, in any
\* order of releases, scope ends, truncations and claims
\* (root_storage.rs:128-155, 212-261).
FreeIsVacancies ==
  \A i \in Indices : free[i] = IF i < len /\ slots[i].value = NoValue THEN 1 ELSE 0

\* No two owners hold the same lease, and none holds one that is yet to be
\* made: what makes comparing generations enough to detect a stale handle.
GenerationsDistinct ==
  /\ \A i \in Indices : Occupied(i) =>
       /\ slots[i].generation < next
       /\ [index |-> i, generation |-> slots[i].generation] \in issued
  /\ \A h1, h2 \in issued : h1.generation = h2.generation => h1 = h2
  /\ \A h \in issued : h.generation < next

\* "releasing a value therefore needs neither allocation nor a new generation"
\* (root_storage.rs:24-25): every vacancy that cleaning up could make fits the
\* free list's buffer.
ReleaseNeedsNoRoom ==
  /\ len <= capacity
  /\ SumFunction(free) + Cardinality({i \in Indices : Occupied(i)}) <= capacity

\* The live leases, and the specification of leases.
LeaseAt(i) == [generation |-> slots[i].generation, index |-> i,
               value |-> slots[i].value, managed |-> slots[i].managed]
Leases     == {LeaseAt(i) : i \in {j \in Indices : Occupied(j)}}

RL == INSTANCE RootLeases WITH leases <- Leases

\* A call made through a handle acts on the lease that handle was issued for,
\* or on nothing, however often its slot was released and handed out again.
ImplementsLeases == RL!LeaseSpec
=============================================================================
