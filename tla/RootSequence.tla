---------------------------- MODULE RootSequence ----------------------------
(***************************************************************************)
(* Ordered native roots (crates/rmath/src/sexp/root_sequence.rs): the      *)
(* protection stack of the translated C code and the preserved objects.    *)
(* An entry moves when an earlier one is removed, so what identifies it is *)
(* its lease, never its position or its value.                             *)
(*                                                                         *)
(* A root update works in two parts: it reads a snapshot, runs callbacks   *)
(* that may push, pop and preserve, and then rewrites, entry by entry,     *)
(* what is still there as it was read.  snapshot is what is left to do.    *)
(***************************************************************************)
EXTENDS Naturals, SequencesExt

CONSTANTS Values,
          MaxDepth,  \* entries the memory budget has room for
          MaxLease   \* u64::MAX: leases a sequence can make

ASSUME SequenceAssumption == MaxDepth \in Nat /\ MaxLease \in Nat

VARIABLES entries,    \* the roots, oldest first
          nextLease,  \* next_lease
          snapshot    \* entries read by an update that is being applied

rootVars     == <<entries, nextLease>>
sequenceVars == <<entries, nextLease, snapshot>>

Leases == 0..(MaxLease - 1)
Root   == [lease : Leases, value : Values]

SequenceTypeOK ==
  /\ entries \in Seq(Root) /\ Len(entries) <= MaxDepth
  /\ nextLease \in 0..MaxLease
  /\ snapshot \subseteq Root

SequenceInit ==
  /\ entries = <<>>
  /\ nextLease = 0
  /\ snapshot = {}
-----------------------------------------------------------------------------

BugLeaseLeft == TRUE

\* checked_add on the lease.
LeaseLeft == nextLease < MaxLease

\* A push that fails - leases exhausted, or no memory - changes nothing.
TryPush(value) ==
  /\ LeaseLeft /\ Len(entries) < MaxDepth
  /\ entries' = Append(entries, [lease |-> nextLease, value |-> value])
  /\ nextLease' = nextLease + 1

\* truncate, and clear as Truncate(0).
Truncate(depth) ==
  /\ entries' = SubSeq(entries, 1, IF depth < Len(entries) THEN depth ELSE Len(entries))
  /\ UNCHANGED nextLease

\* One entry too many.
BugPopCount(count) ==
  Truncate(IF count < Len(entries) THEN Len(entries) - count - 1 ELSE 0)

PopCount(count) == Truncate(IF count < Len(entries) THEN Len(entries) - count ELSE 0)

\* The last entry fills the hole.
BugWithoutEntry(i) ==
  [j \in 1..(Len(entries) - 1) |-> IF j = i THEN Last(entries) ELSE entries[j]]

WithoutEntry(i) == RemoveAt(entries, i)

RemoveLease(lease) ==
  /\ \E i \in DOMAIN entries : entries[i].lease = lease /\ entries' = WithoutEntry(i)
  /\ UNCHANGED nextLease

\* R_ReleaseObject: the first entry with this value.
RemoveFirstRoot(value) ==
  /\ \E i \in DOMAIN entries :
       /\ entries[i].value = value
       /\ \A j \in 1..(i - 1) : entries[j].value # value
       /\ entries' = WithoutEntry(i)
  /\ UNCHANGED nextLease

\* UNPROTECT_PTR: the topmost entry with this value.
RemoveLastRoot(value) ==
  /\ \E i \in DOMAIN entries :
       /\ entries[i].value = value
       /\ \A j \in (i + 1)..Len(entries) : entries[j].value # value
       /\ entries' = WithoutEntry(i)
  /\ UNCHANGED nextLease

\* The entry is recognised by its value.
BugReplaceIfCurrent(lease, expected, value) ==
  /\ \E i \in DOMAIN entries :
       /\ entries[i].value = expected
       /\ entries' = [entries EXCEPT ![i].value = value]
  /\ UNCHANGED nextLease

ReplaceIfCurrent(lease, expected, value) ==
  /\ \E i \in DOMAIN entries :
       /\ entries[i].lease = lease /\ entries[i].value = expected
       /\ entries' = [entries EXCEPT ![i].value = value]
  /\ UNCHANGED nextLease

-----------------------------------------------------------------------------
(* The sequence and one update of its roots, with callbacks in between *)

\* updates_snapshot
ReadSnapshot ==
  /\ snapshot = {} /\ entries # <<>>
  /\ snapshot' = ToSet(entries)
  /\ UNCHANGED rootVars

\* The update of one entry; it has no effect when the entry is not current.
Update(read, value) ==
  /\ snapshot' = snapshot \ {read}
  /\ \/ ReplaceIfCurrent(read.lease, read.value, value)
     \/ read \notin ToSet(entries) /\ UNCHANGED rootVars

SequenceCall ==
  \/ \E value \in Values : TryPush(value) \/ RemoveFirstRoot(value) \/ RemoveLastRoot(value)
  \/ \E depth \in 0..MaxDepth : Truncate(depth) \/ PopCount(depth)
  \/ \E lease \in Leases : RemoveLease(lease)

SequenceNext ==
  \/ SequenceCall /\ UNCHANGED snapshot
  \/ ReadSnapshot
  \/ \E read \in snapshot, value \in Values : Update(read, value)

SequenceSpec == SequenceInit /\ [][SequenceNext]_sequenceVars

-----------------------------------------------------------------------------
(* Properties *)

\* The roots stay in the order they were pushed in, and no lease is made twice:
\* removing from the middle never reorders what C code counts on
\* (root_sequence.rs:107-177).
LeasesAscend ==
  /\ \A i, j \in DOMAIN entries : i < j => entries[i].lease < entries[j].lease
  /\ \A i \in DOMAIN entries : entries[i].lease < nextLease

\* "A callback snapshot therefore cannot rewrite a newly pushed root merely
\* because its value or native address matches the old occupant"
\* (root_sequence.rs:16-18): what is rewritten is an entry that the snapshot
\* read, with the value it read.
OnlySnapshotRewritten ==
  [][\A old \in ToSet(entries), new \in ToSet(entries') :
       old.lease = new.lease /\ old.value # new.value => old \in snapshot]_sequenceVars
=============================================================================
