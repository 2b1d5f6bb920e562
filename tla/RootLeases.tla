----------------------------- MODULE RootLeases -----------------------------
(***************************************************************************)
(* What the root table of an interpreter instance promises: every claim    *)
(* makes a lease of its own, and a call made through a lease's handle acts *)
(* on that lease or on nothing, however the slots below are recycled       *)
(* ("recycling either a root slot or a heap address cannot revive an older *)
(* lease", crates/rmath/src/sexp/protect/stacks.rs).                       *)
(*                                                                         *)
(* A lease is named by its generation.  call is the interface: the last    *)
(* call, and the lease (or the checkpoint, or the depth) it was made with. *)
(***************************************************************************)
EXTENDS Naturals

CONSTANTS Values,         \* the roots that are stored
          MaxSlots,       \* slots the memory budget has room for
          MaxGeneration   \* u64::MAX: leases an instance can make

VARIABLES leases,  \* the live leases
          next,    \* next_generation
          call     \* the last call: [op, arg]

leaseVars == <<leases, next, call>>

Indices     == 0..(MaxSlots - 1)
Generations == 0..(MaxGeneration - 1)
Lease == [generation : Generations, index : Indices, value : Values, managed : BOOLEAN]

\* The part of a lease that its owner can change.
Updated(lease, value, managed) ==
  [generation |-> lease.generation, index |-> lease.index, value |-> value,
   managed |-> managed]

Called(op, arg) == call' = [op |-> op, arg |-> arg]

LeaseInit ==
  /\ leases = {}
  /\ next = 0
  /\ call = [op |-> "new", arg |-> 0]

LeaseClaim(value, managed) ==
  /\ next < MaxGeneration
  /\ \E index \in Indices :
       /\ \A lease \in leases : lease.index # index
       /\ leases' = leases \cup {[generation |-> next, index |-> index,
                                  value |-> value, managed |-> managed]}
  /\ next' = next + 1
  /\ Called("claim", next)

LeaseRelease(g) ==
  /\ leases' = {lease \in leases : lease.generation # g}
  /\ UNCHANGED next
  /\ Called("release", g)

LeaseReplace(g, value) ==
  /\ leases' = {IF lease.generation = g THEN Updated(lease, value, lease.managed)
                                        ELSE lease : lease \in leases}
  /\ UNCHANGED next
  /\ Called("replace", g)

LeaseReplaceIfCurrent(g, expected, value) ==
  /\ leases' = {IF lease.generation = g /\ lease.value = expected
                THEN Updated(lease, value, lease.managed) ELSE lease : lease \in leases}
  /\ UNCHANGED next
  /\ Called("replace_if_current", g)

LeaseRetain(g) ==
  /\ leases' = {IF lease.generation = g THEN Updated(lease, lease.value, TRUE)
                                        ELSE lease : lease \in leases}
  /\ UNCHANGED next
  /\ Called("retain_managed", g)

\* What a scope leaves behind: the older leases and the managed ones.
LeaseRestore(checkpoint) ==
  /\ leases' = {lease \in leases : lease.managed \/ lease.generation < checkpoint}
  /\ UNCHANGED next
  /\ Called("restore", checkpoint)

LeaseTruncate(depth) ==
  /\ leases' = {lease \in leases : lease.index < depth}
  /\ UNCHANGED next
  /\ Called("truncate", depth)

LeaseNext ==
  \/ \E value \in Values, managed \in BOOLEAN : LeaseClaim(value, managed)
  \/ \E g \in Generations :
       \/ LeaseRelease(g)
       \/ LeaseRetain(g)
       \/ \E value \in Values :
            \/ LeaseReplace(g, value)
            \/ \E expected \in Values : LeaseReplaceIfCurrent(g, expected, value)
  \/ \E checkpoint \in 0..MaxGeneration : LeaseRestore(checkpoint)
  \/ \E depth \in 0..MaxSlots : LeaseTruncate(depth)

LeaseSpec == LeaseInit /\ [][LeaseNext]_leaseVars
=============================================================================
