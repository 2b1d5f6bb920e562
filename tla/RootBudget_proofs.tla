-------------------------- MODULE RootBudget_proofs --------------------------
(***************************************************************************)
(* Root sequences and the buffers they pay for, for any values, number of  *)
(* leases, limit, tickets, rounding and diagnostics.                       *)
(*                                                                         *)
(* RootSequence alone: the roots keep the order they were pushed in, and   *)
(* an update of the roots rewrites only what its snapshot read.  The       *)
(* second rests on the first: since leases ascend, no two entries share    *)
(* one, so the entry that has the lease of an entry read before is that    *)
(* entry.                                                                  *)
(*                                                                         *)
(* LedgerInv: the counters balance, limit or no limit.  It adds that a     *)
(* reservation is held only between its loops.  HeldStep: a step that is   *)
(* not an admission counts no more against the limit than before, so the   *)
(* limit holds while buffers are replaced and tickets are dropped.         *)
(*                                                                         *)
(* BudgetInv: a push in all these steps is the atomic push of              *)
(* RootSequence.  It adds what a push in progress knows: the lease is      *)
(* still to be had, and the bytes asked for and held have room for one     *)
(* entry more.  MaxDepth bounds a sequence whose depth only its budget     *)
(* bounds, so these theorems suppose that it is no less than the limit.    *)
(***************************************************************************)
EXTENDS RootBudget, FiniteSums, SequenceTheorems

SequenceInv == SequenceTypeOK /\ LeasesAscend

\* Nothing is rewritten: what is left of the entries is as it was.
OnlyDrops == ToSet(entries') \subseteq ToSet(entries)

-----------------------------------------------------------------------------
(* Entries *)

LEMMA EntryTyped ==
  ASSUME NEW s \in Seq(Root), NEW i \in DOMAIN s
  PROVE  s[i] \in Root /\ s[i].lease \in Nat /\ s[i].lease < MaxLease /\ s[i].value \in Values
<1>1. s[i] \in Root
  OBVIOUS
<1>. QED
  BY <1>1, SequenceAssumption DEF Root, Leases

\* A lease tells entries apart.
LEMMA LeaseIdentifies ==
  ASSUME SequenceInv, NEW a \in ToSet(entries), NEW b \in ToSet(entries), a.lease = b.lease
  PROVE  a = b
<1>1. PICK i \in DOMAIN entries : a = entries[i]
  BY DEF ToSet
<1>2. PICK j \in DOMAIN entries : b = entries[j]
  BY DEF ToSet
<1>3. i \in Nat /\ j \in Nat /\ entries[i].lease \in Nat /\ entries[j].lease \in Nat
  BY EntryTyped DEF SequenceInv, SequenceTypeOK
<1>4. ~(i < j) /\ ~(j < i)
  BY <1>1, <1>2, <1>3 DEF SequenceInv, LeasesAscend
<1>. QED
  BY <1>1, <1>2, <1>3, <1>4

LEMMA RemovedShape ==
  ASSUME NEW T, NEW s \in Seq(T), NEW i \in DOMAIN s
  PROVE  /\ RemoveAt(s, i) \in Seq(T)
         /\ Len(RemoveAt(s, i)) = Len(s) - 1
         /\ \A j \in DOMAIN RemoveAt(s, i) :
              RemoveAt(s, i)[j] = IF j < i THEN s[j] ELSE s[j + 1]
<1> DEFINE front == SubSeq(s, 1, i - 1)
           back  == SubSeq(s, i + 1, Len(s))
           n     == Len(s)
<1>1. i \in 1..n /\ n \in Nat
  OBVIOUS
<1>2. front \in Seq(T) /\ Len(front) = i - 1
  BY <1>1
<1>3. \A j \in 1..(i - 1) : front[j] = s[j]
  BY <1>1
<1>4. back \in Seq(T) /\ Len(back) = n - i
  BY <1>1
<1>5. \A j \in 1..(n - i) : back[j] = s[i + j]
  BY <1>1
<1>6. RemoveAt(s, i) = front \o back
  BY DEF RemoveAt
<1> HIDE DEF front, back, n
<1>7. front \o back \in Seq(T) /\ Len(front \o back) = n - 1
  <2>1. Len(front \o back) = Len(front) + Len(back) /\ front \o back \in Seq(T)
    BY <1>2, <1>4, ConcatProperties
  <2>. QED
    BY <1>1, <1>2, <1>4, <2>1
<1>8. ASSUME NEW j \in 1..(n - 1)
      PROVE  (front \o back)[j] = IF j < i THEN s[j] ELSE s[j + 1]
  <2>1. CASE j < i
    <3>1. j \in 1..(i - 1)
      BY <1>1, <2>1
    <3>2. (front \o back)[j] = front[j]
      <4>1. j \in 1..(Len(front) + Len(back)) /\ j <= Len(front)
        BY <1>1, <1>2, <1>4, <3>1
      <4>. QED
        BY <1>2, <1>4, <4>1, ConcatProperties
    <3>. QED
      BY <1>3, <2>1, <3>1, <3>2
  <2>2. CASE ~(j < i)
    <3>1. j - (i - 1) \in 1..(n - i) /\ i + (j - (i - 1)) = j + 1
      BY <1>1, <2>2
    <3>2. back[j - (i - 1)] = s[j + 1]
      BY <1>5, <3>1
    <3>3. j \in (Len(front) + 1)..(Len(front) + Len(back)) /\ j - Len(front) = j - (i - 1)
      BY <1>1, <1>2, <1>4, <2>2
    <3>4. (front \o back)[j] = back[j - Len(front)]
      <4>1. j \in 1..(Len(front) + Len(back)) /\ ~(j <= Len(front))
        BY <1>1, <1>2, <1>4, <3>3
      <4>. QED
        BY <1>2, <1>4, <4>1, ConcatProperties
    <3>. QED
      BY <2>2, <3>2, <3>3, <3>4
  <2>. QED
    BY <2>1, <2>2
<1>9. DOMAIN (front \o back) = 1..(n - 1)
  BY <1>7
<1>. QED
  BY <1>6, <1>7, <1>8, <1>9 DEF n

-----------------------------------------------------------------------------
(* One lemma for each kind of call *)

LEMMA InitSequenceInv == SequenceInit => SequenceInv
BY SequenceAssumption
DEF SequenceInit, SequenceInv, SequenceTypeOK, LeasesAscend

LEMMA RemoveInv ==
  ASSUME SequenceInv, NEW i \in DOMAIN entries, entries' = WithoutEntry(i),
         UNCHANGED <<nextLease, snapshot>>
  PROVE  SequenceInv' /\ OnlyDrops
<1> USE DEF SequenceInv
<1>1. /\ entries \in Seq(Root) /\ i \in 1..Len(entries) /\ Len(entries) \in Nat
      /\ Len(entries) <= MaxDepth
  BY DEF SequenceTypeOK
<1>2. /\ entries' \in Seq(Root) /\ Len(entries') = Len(entries) - 1
      /\ \A j \in DOMAIN entries' :
           entries'[j] = IF j < i THEN entries[j] ELSE entries[j + 1]
  BY <1>1, RemovedShape DEF WithoutEntry
<1>3. SequenceTypeOK'
  BY <1>1, <1>2, SequenceAssumption DEF SequenceTypeOK, Root, Leases
<1>4. \A j \in DOMAIN entries' : j \in 1..(Len(entries) - 1)
  BY <1>1, <1>2
<1>5. LeasesAscend'
  <2>1. ASSUME NEW j \in DOMAIN entries', NEW k \in DOMAIN entries', j < k
        PROVE  entries'[j].lease < entries'[k].lease
    <3>1. PICK a \in DOMAIN entries, b \in DOMAIN entries :
            entries'[j] = entries[a] /\ entries'[k] = entries[b] /\ a < b
      <4>1. CASE k < i
        BY <2>1, <4>1, <1>1, <1>2, <1>4
      <4>2. CASE j < i /\ ~(k < i)
        <5>1. j \in DOMAIN entries /\ k + 1 \in DOMAIN entries /\ j < k + 1
          BY <2>1, <1>1, <1>4
        <5>. QED
          BY <4>2, <5>1, <1>2
      <4>3. CASE ~(j < i) /\ ~(k < i)
        <5>1. j + 1 \in DOMAIN entries /\ k + 1 \in DOMAIN entries /\ j + 1 < k + 1
          BY <2>1, <1>1, <1>4
        <5>. QED
          BY <4>3, <5>1, <1>2
      <4>. QED
        BY <4>1, <4>2, <4>3, <2>1, <1>1, <1>4
    <3>. QED
      BY <3>1 DEF LeasesAscend
  <2>2. ASSUME NEW j \in DOMAIN entries'
        PROVE  entries'[j].lease < nextLease'
    <3>1. j \in DOMAIN entries /\ j + 1 \in DOMAIN entries
      BY <1>1, <1>4
    <3>. QED
      BY <3>1, <1>2 DEF LeasesAscend
  <2>. QED
    BY <2>1, <2>2 DEF LeasesAscend
<1>6. OnlyDrops
  <2>1. ASSUME NEW j \in DOMAIN entries'
        PROVE  \E k \in DOMAIN entries : entries'[j] = entries[k]
    <3>1. j \in DOMAIN entries /\ j + 1 \in DOMAIN entries
      BY <1>1, <1>4
    <3>2. entries'[j] = entries[j] \/ entries'[j] = entries[j + 1]
      BY <1>2
    <3>. QED
      BY <3>1, <3>2
  <2>. QED
    BY <2>1 DEF OnlyDrops, ToSet
<1>. QED
  BY <1>3, <1>5, <1>6

LEMMA TruncateInv ==
  ASSUME SequenceInv, NEW depth \in Nat, Truncate(depth), UNCHANGED snapshot
  PROVE  SequenceInv' /\ OnlyDrops
<1> USE DEF SequenceInv
<1> DEFINE n == IF depth < Len(entries) THEN depth ELSE Len(entries)
<1>1. /\ entries \in Seq(Root) /\ Len(entries) \in Nat /\ Len(entries) <= MaxDepth
      /\ n \in 0..Len(entries)
      /\ entries' = SubSeq(entries, 1, n) /\ UNCHANGED nextLease
  BY DEF SequenceTypeOK, Truncate
<1> HIDE DEF n
<1>2. /\ entries' \in Seq(Root) /\ Len(entries') = n
      /\ \A j \in 1..n : entries'[j] = entries[j]
  BY <1>1
<1>3. DOMAIN entries' = 1..n /\ 1..n \subseteq DOMAIN entries
  BY <1>1, <1>2
<1>4. SequenceTypeOK'
  BY <1>1, <1>2, SequenceAssumption DEF SequenceTypeOK, Root, Leases
<1>5. LeasesAscend'
  BY <1>1, <1>2, <1>3 DEF LeasesAscend
<1>6. OnlyDrops
  BY <1>2, <1>3 DEF OnlyDrops, ToSet
<1>. QED
  BY <1>4, <1>5, <1>6

LEMMA PushInv ==
  ASSUME SequenceInv, NEW value \in Values, TryPush(value), UNCHANGED snapshot
  PROVE  /\ SequenceInv'
         /\ \A new \in ToSet(entries') : new \in ToSet(entries) \/ new.lease = nextLease
<1> USE DEF SequenceInv
<1> DEFINE entry == [lease |-> nextLease, value |-> value]
           n     == Len(entries)
<1>1. /\ entries \in Seq(Root) /\ n \in Nat /\ n < MaxDepth
      /\ nextLease \in 0..MaxLease /\ nextLease < MaxLease
      /\ entries' = Append(entries, entry) /\ nextLease' = nextLease + 1
  BY DEF SequenceTypeOK, TryPush, LeaseLeft
<1>2. entry \in Root
  BY <1>1, SequenceAssumption DEF Root, Leases
<1>3. /\ entries' \in Seq(Root) /\ Len(entries') = n + 1
      /\ DOMAIN entries' = DOMAIN entries \cup {n + 1}
      /\ \A j \in DOMAIN entries : entries'[j] = entries[j] /\ j < n + 1
      /\ entries'[n + 1] = entry
  BY <1>1, <1>2
<1>4. SequenceTypeOK'
  BY <1>1, <1>3, SequenceAssumption DEF SequenceTypeOK, Root, Leases
<1>5. entry.lease = nextLease
  OBVIOUS
<1> HIDE DEF entry
<1>6. \A j \in DOMAIN entries : entries[j].lease \in Nat
  BY <1>1, EntryTyped
<1>7. LeasesAscend'
  <2>1. ASSUME NEW j \in DOMAIN entries', NEW k \in DOMAIN entries', j < k
        PROVE  entries'[j].lease < entries'[k].lease
    <3>1. j \in DOMAIN entries
      BY <2>1, <1>1, <1>3
    <3>2. CASE k = n + 1
      BY <3>1, <3>2, <1>3, <1>5 DEF LeasesAscend
    <3>3. CASE k \in DOMAIN entries
      BY <2>1, <3>1, <3>3, <1>3 DEF LeasesAscend
    <3>. QED
      BY <3>2, <3>3, <1>3
  <2>2. ASSUME NEW j \in DOMAIN entries'
        PROVE  entries'[j].lease < nextLease'
    <3>1. CASE j = n + 1
      BY <3>1, <1>1, <1>3, <1>5
    <3>2. CASE j \in DOMAIN entries
      BY <3>2, <1>1, <1>3, <1>6 DEF LeasesAscend
    <3>. QED
      BY <3>1, <3>2, <1>3
  <2>. QED
    BY <2>1, <2>2 DEF LeasesAscend
<1>8. \A new \in ToSet(entries') : new \in ToSet(entries) \/ new.lease = nextLease
  BY <1>3, <1>5 DEF ToSet
<1>. QED
  BY <1>4, <1>7, <1>8

\* One entry gets a value, and it is the one that was read.
LEMMA ReplaceInv ==
  ASSUME SequenceInv, NEW read \in snapshot, NEW value \in Values,
         ReplaceIfCurrent(read.lease, read.value, value), snapshot' \subseteq snapshot
  PROVE  /\ SequenceInv'
         /\ \A new \in ToSet(entries') : new \in ToSet(entries) \/ new.lease = read.lease
         /\ read \in ToSet(entries)
<1> USE DEF SequenceInv
<1>1. PICK i \in DOMAIN entries :
        /\ entries[i].lease = read.lease /\ entries[i].value = read.value
        /\ entries' = [entries EXCEPT ![i].value = value]
  BY DEF ReplaceIfCurrent
<1>2. /\ entries \in Seq(Root) /\ read \in Root /\ entries[i] \in Root
      /\ nextLease' = nextLease
  BY EntryTyped DEF SequenceTypeOK, ReplaceIfCurrent
<1>3. read = entries[i]
  BY <1>1, <1>2 DEF Root
<1> DEFINE entry == [entries[i] EXCEPT !.value = value]
<1>4. entry \in Root /\ entry.lease = entries[i].lease
  BY <1>2 DEF Root
<1>5. /\ entries' = [entries EXCEPT ![i] = entry]
  BY <1>1
<1> HIDE DEF entry
<1>6. /\ entries' \in Seq(Root) /\ Len(entries') = Len(entries)
      /\ DOMAIN entries' = DOMAIN entries
      /\ \A j \in DOMAIN entries : entries'[j] = IF j = i THEN entry ELSE entries[j]
  BY <1>2, <1>4, <1>5
<1>7. \A j \in DOMAIN entries : entries'[j].lease = entries[j].lease
  BY <1>4, <1>6
<1>8. SequenceTypeOK'
  BY <1>2, <1>6 DEF SequenceTypeOK, Root, Leases
<1>9. LeasesAscend'
  BY <1>2, <1>6, <1>7 DEF LeasesAscend
<1>10. \A new \in ToSet(entries') : new \in ToSet(entries) \/ new.lease = read.lease
  BY <1>1, <1>4, <1>6 DEF ToSet
<1>11. read \in ToSet(entries)
  BY <1>3 DEF ToSet
<1>. QED
  BY <1>8, <1>9, <1>10, <1>11

\* Steps that leave the entries alone.
LEMMA EntriesKept ==
  ASSUME SequenceInv, UNCHANGED rootVars, snapshot' \subseteq Root
  PROVE  SequenceInv' /\ OnlyDrops
BY DEF SequenceInv, SequenceTypeOK, LeasesAscend, rootVars, OnlyDrops, Root, Leases

-----------------------------------------------------------------------------
(* Each step keeps the invariant, and rewrites nothing that was not read *)

Rewritten(old, new) == old.lease = new.lease /\ old.value # new.value

LEMMA DropsRewriteNothing ==
  ASSUME SequenceInv, OnlyDrops, NEW old \in ToSet(entries), NEW new \in ToSet(entries')
  PROVE  ~Rewritten(old, new)
BY LeaseIdentifies DEF OnlyDrops, Rewritten

LEMMA SequenceStep ==
  ASSUME SequenceInv, SequenceNext
  PROVE  /\ SequenceInv'
         /\ \A old \in ToSet(entries), new \in ToSet(entries') :
              Rewritten(old, new) => old \in snapshot
<1>1. CASE \E value \in Values : TryPush(value) /\ UNCHANGED snapshot
  <2>1. PICK value \in Values : TryPush(value) /\ UNCHANGED snapshot
    BY <1>1
  <2>2. /\ SequenceInv'
        /\ \A new \in ToSet(entries') : new \in ToSet(entries) \/ new.lease = nextLease
    BY <2>1, PushInv
  <2>3. ASSUME NEW old \in ToSet(entries), NEW new \in ToSet(entries')
        PROVE  ~Rewritten(old, new)
    <3>1. old.lease < nextLease /\ old.lease \in Nat /\ nextLease \in Nat
      BY EntryTyped DEF SequenceInv, SequenceTypeOK, LeasesAscend, ToSet
    <3>. QED
      BY <2>2, <3>1, LeaseIdentifies DEF Rewritten
  <2>. QED
    BY <2>2, <2>3
<1>2. CASE (\E value \in Values : RemoveFirstRoot(value) \/ RemoveLastRoot(value))
             /\ UNCHANGED snapshot
  BY <1>2, RemoveInv, DropsRewriteNothing DEF RemoveFirstRoot, RemoveLastRoot
<1>3. CASE (\E lease \in Leases : RemoveLease(lease)) /\ UNCHANGED snapshot
  BY <1>3, RemoveInv, DropsRewriteNothing DEF RemoveLease
<1>4. CASE (\E depth \in 0..MaxDepth : Truncate(depth) \/ PopCount(depth))
             /\ UNCHANGED snapshot
  <2>1. PICK depth \in Nat : Truncate(depth)
    <3>1. Len(entries) \in Nat
      BY DEF SequenceInv, SequenceTypeOK
    <3>2. CASE \E depth \in 0..MaxDepth : Truncate(depth)
      BY <3>2, SequenceAssumption
    <3>3. CASE \E count \in 0..MaxDepth : PopCount(count)
      <4>1. PICK count \in Nat : PopCount(count)
        BY <3>3, SequenceAssumption
      <4>2. (IF count < Len(entries) THEN Len(entries) - count ELSE 0) \in Nat
        BY <3>1
      <4>. QED
        BY <4>1, <4>2 DEF PopCount
    <3>. QED
      BY <1>4, <3>2, <3>3
  <2>. QED
    BY <1>4, <2>1, TruncateInv, DropsRewriteNothing
<1>5. CASE ReadSnapshot
  <2>1. snapshot' \subseteq Root
    BY <1>5, EntryTyped DEF ReadSnapshot, ToSet, SequenceInv, SequenceTypeOK
  <2>. QED
    BY <1>5, <2>1, EntriesKept, DropsRewriteNothing DEF ReadSnapshot
<1>6. CASE \E read \in snapshot, value \in Values : Update(read, value)
  <2>1. PICK read \in snapshot, value \in Values : Update(read, value)
    BY <1>6
  <2>2. snapshot' \subseteq snapshot
    BY <2>1 DEF Update
  <2>3. CASE ReplaceIfCurrent(read.lease, read.value, value)
    <3>1. /\ SequenceInv' /\ read \in ToSet(entries)
          /\ \A new \in ToSet(entries') : new \in ToSet(entries) \/ new.lease = read.lease
      BY <2>2, <2>3, ReplaceInv
    <3>2. ASSUME NEW old \in ToSet(entries), NEW new \in ToSet(entries'),
                 Rewritten(old, new)
          PROVE  old \in snapshot
      <4>1. CASE new \in ToSet(entries)
        BY <3>2, <4>1, LeaseIdentifies DEF Rewritten
      <4>2. CASE new.lease = read.lease
        BY <3>1, <3>2, <4>2, LeaseIdentifies DEF Rewritten
      <4>. QED
        BY <3>1, <4>1, <4>2
    <3>. QED
      BY <3>1, <3>2
  <2>4. CASE UNCHANGED rootVars
    BY <2>2, <2>4, EntriesKept, DropsRewriteNothing DEF SequenceInv, SequenceTypeOK
  <2>. QED
    BY <2>1, <2>3, <2>4 DEF Update
<1>. QED
  BY <1>1, <1>2, <1>3, <1>4, <1>5, <1>6 DEF SequenceNext, SequenceCall

-----------------------------------------------------------------------------
(* The theorems *)

\* The types, and the order of the leases.
THEOREM SequenceInvariance == SequenceSpec => []SequenceInv
<1>1. SequenceInv /\ [SequenceNext]_sequenceVars => SequenceInv'
  <2>1. SequenceInv /\ UNCHANGED sequenceVars => SequenceInv'
    BY EntriesKept DEF sequenceVars, rootVars, SequenceInv, SequenceTypeOK
  <2>. QED
    BY <2>1, SequenceStep
<1>. QED
  BY <1>1, InitSequenceInv, PTL DEF SequenceSpec

\* Removing from the middle never reorders the roots, and no lease is made twice.
THEOREM RootsStayInOrder == SequenceSpec => []LeasesAscend
BY SequenceInvariance, PTL DEF SequenceInv

\* An update of the roots rewrites what its snapshot read and nothing else.
THEOREM UpdatesStayInSnapshot == SequenceSpec => OnlySnapshotRewritten
<1> DEFINE Kept == \A old \in ToSet(entries), new \in ToSet(entries') :
                     old.lease = new.lease /\ old.value # new.value => old \in snapshot
<1>1. SequenceInv /\ [SequenceNext]_sequenceVars => [Kept]_sequenceVars
  BY SequenceStep DEF Rewritten
<1>. QED
  BY <1>1, SequenceInvariance, PTL DEF SequenceSpec, OnlySnapshotRewritten

-----------------------------------------------------------------------------
(* The counters balance *)

Entry == [lease : Nat, value : Values \cup {NoValue}]

LedgerInv ==
  /\ entries \in Seq(Entry) /\ nextLease \in Nat
  /\ LedgerTypeOK
  /\ capacity \in Bytes
  /\ work \in Work
  /\ At({"idle"} \cup Admitting) => work.held = 0
  /\ LedgerBalanced

LEMMA WorkGoes ==
  ASSUME work \in Work, NEW stage \in Stages
  PROVE  /\ GoTo(stage) \in Work
         /\ GoTo(stage).stage = stage /\ GoTo(stage).value = work.value
         /\ GoTo(stage).held = work.held /\ GoTo(stage).want = work.want
BY DEF Work, GoTo, Seen, Unread

LEMMA NoWorkTyped ==
  NoWork \in Work /\ NoWork.stage = "idle" /\ NoWork.held = 0
BY DEF NoWork, Work, Stages, Loops, Admitting, Releasing, Seen, Unread, Bytes

LEMMA DesiredEnough ==
  ASSUME capacity \in Nat, Len(entries) \in Nat
  PROVE  Desired \in Nat /\ Desired >= Len(entries) + 1
<1> DEFINE S == {2 * capacity, Len(entries) + 1, FirstCapacity}
<1>1. S \subseteq Nat
  BY BudgetAssumption
<1>2. \E x \in S : \A y \in S : x >= y
  BY BudgetAssumption
<1>3. Desired \in S /\ \A y \in S : Desired >= y
  BY <1>2 DEF Desired, Max
<1>. QED
  BY <1>1, <1>3

\* What the calls that are neither a push nor an allocation do to the entries.
LEMMA OtherCallShape ==
  ASSUME Len(entries) \in Nat, OtherCall
  PROVE  /\ nextLease' = nextLease
         /\ \/ \E i \in DOMAIN entries : entries' = WithoutEntry(i)
            \/ \E n \in 0..Len(entries) : entries' = SubSeq(entries, 1, n)
            \/ \E i \in DOMAIN entries, value \in Values :
                 entries' = [entries EXCEPT ![i].value = value]
            \/ entries' = entries
<1>1. ASSUME NEW depth \in 0..MaxDepth, Truncate(depth) \/ PopCount(depth)
      PROVE  \E n \in 0..Len(entries) : entries' = SubSeq(entries, 1, n)
  <2>1. PICK d \in Nat : Truncate(d)
    <3>1. CASE Truncate(depth)
      BY <3>1
    <3>2. CASE PopCount(depth)
      <4>1. (IF depth < Len(entries) THEN Len(entries) - depth ELSE 0) \in Nat
        OBVIOUS
      <4>. QED
        BY <3>2, <4>1 DEF PopCount
    <3>. QED
      BY <1>1, <3>1, <3>2
  <2>2. (IF d < Len(entries) THEN d ELSE Len(entries)) \in 0..Len(entries)
    OBVIOUS
  <2>. QED
    BY <2>1, <2>2 DEF Truncate
<1>2. nextLease' = nextLease
  BY DEF OtherCall, RemoveFirstRoot, RemoveLastRoot, RemoveLease, ReadSnapshot, Update,
         ReplaceIfCurrent, Truncate, PopCount, rootVars
<1>. QED
  BY <1>1, <1>2
  DEF OtherCall, RemoveFirstRoot, RemoveLastRoot, RemoveLease, ReadSnapshot, Update,
      ReplaceIfCurrent, rootVars

\* What a push does to the entries.
LEMMA EnteredTyped ==
  ASSUME entries \in Seq(Entry), nextLease \in Nat, NEW value \in Values \cup {NoValue},
         Entered(value)
  PROVE  entries' \in Seq(Entry) /\ nextLease' \in Nat
<1>1. [lease |-> nextLease, value |-> value] \in Entry
  BY DEF Entry
<1>. QED
  BY <1>1 DEF Entered

LEMMA LedgerNumbers ==
  ASSUME LedgerInv
  PROVE  /\ allocated \in Nat /\ transient \in Nat /\ capacity \in Nat
         /\ work.held \in Nat /\ work.want \in Nat
         /\ work.stage \in Stages /\ work.value \in Values \cup {NoValue}
         /\ Len(entries) \in Nat /\ TicketBytes \in Nat
         /\ transient = Reserved + TicketBytes
<1>1. TicketBytes \in Nat
  <2> DEFINE b == [k \in Tickets |-> tickets[k].bytes]
  <2>1. \A k \in Tickets : b[k] \in Nat
    BY DEF LedgerInv, LedgerTypeOK, Bytes
  <2>2. Sum(b, Tickets) \in Nat
    <3>. HIDE DEF b
    <3>. QED
      BY <2>1, SumNat, LedgerAssumption
  <2>. QED
    BY <2>2 DEF TicketBytes, Sum, SumFunction
<1>. QED
  BY <1>1 DEF LedgerInv, LedgerTypeOK, LedgerBalanced, Bytes, Work

\* A step of one ticket changes the sum by what it changes of that ticket.
LEMMA TicketBytesChanged ==
  ASSUME LedgerTypeOK, LedgerTypeOK', NEW k \in Tickets,
         \A j \in Tickets \ {k} : tickets'[j] = tickets[j]
  PROVE  /\ TicketBytes \in Nat /\ tickets[k].bytes \in Nat /\ tickets[k].bytes <= TicketBytes
         /\ TicketBytes' = TicketBytes - tickets[k].bytes + tickets'[k].bytes
<1> DEFINE b == [j \in Tickets |-> tickets[j].bytes]
           c == [j \in Tickets |-> tickets'[j].bytes]
<1>1. TicketBytes = Sum(b, Tickets) /\ TicketBytes' = Sum(c, Tickets)
  BY DEF TicketBytes, Sum, SumFunction
<1>2. \A j \in Tickets : b[j] \in Nat /\ c[j] \in Nat
  BY DEF LedgerTypeOK, Bytes
<1>3. \A j \in Tickets \ {k} : c[j] = b[j]
  OBVIOUS
<1>4. b[k] = tickets[k].bytes /\ c[k] = tickets'[k].bytes
  OBVIOUS
<1>. HIDE DEF b, c
<1>5. /\ Sum(b, Tickets) \in Nat /\ b[k] <= Sum(b, Tickets)
      /\ Sum(c, Tickets) = Sum(b, Tickets) - b[k] + c[k]
  <2>1. IsFiniteSet(Tickets)
    BY LedgerAssumption
  <2>2. Sum(b, Tickets) \in Nat /\ Sum(c, Tickets) = Sum(b, Tickets) - b[k] + c[k]
    BY ONLY <1>2, <1>3, <2>1, SumChanged, k \in Tickets
  <2>3. b[k] <= Sum(b, Tickets)
    BY <1>2, <2>1, SummandFits
  <2>. QED
    BY <2>2, <2>3
<1>. QED
  BY <1>1, <1>2, <1>4, <1>5

\* Steps that leave the sequence and the tickets alone.
LEMMA LedgerMoved ==
  ASSUME LedgerInv, UNCHANGED <<sequenceVars, tickets, capacity>>, work' \in Work,
         At({"idle"} \cup Admitting)' => work'.held = 0,
         transient' = Reserved' + TicketBytes, allocated' = capacity + Pending'
  PROVE  LedgerInv'
<1>1. TicketBytes' = TicketBytes /\ TicketBytes \in Nat /\ capacity \in Nat
  BY LedgerNumbers DEF TicketBytes
<1>2. work'.held \in Nat
  BY DEF Work, Bytes
<1>3. Reserved' \in Nat /\ Pending' \in Nat
  BY <1>2 DEF Reserved, Pending
<1>4. transient' \in Nat /\ allocated' \in Nat
  <2>1. \A a, b \in Nat : a + b \in Nat
    OBVIOUS
  <2>. QED
    BY <1>1, <1>3, <2>1
<1>5. LedgerBalanced'
  BY <1>1 DEF LedgerBalanced
<1>. QED
  BY <1>4, <1>5 DEF LedgerInv, LedgerTypeOK, sequenceVars, Bytes, Seen

\* And the counters.
LEMMA LedgerKept ==
  ASSUME LedgerInv, UNCHANGED <<sequenceVars, ledgerVars, capacity>>, work' \in Work,
         At({"idle"} \cup Admitting)' => work'.held = 0,
         Reserved' = Reserved, Pending' = Pending
  PROVE  LedgerInv'
BY LedgerMoved, LedgerNumbers DEF LedgerInv, LedgerBalanced, ledgerVars

LEMMA StartLedger ==
  ASSUME LedgerInv,
         \/ \E value \in Values : PushNeedsRoom(value)
         \/ \E bytes \in 1..MaxTicket : MakeDiagnostic(bytes)
  PROVE  LedgerInv'
<1>1. PICK stage \in {"desired", "diagnostic"}, value \in Values \cup {NoValue}, want \in Nat :
        work' = [work EXCEPT !.stage = stage, !.value = value, !.want = want]
  <2>1. CASE \E value \in Values : PushNeedsRoom(value)
    <3>1. Desired \in Nat
      BY DesiredEnough, LedgerNumbers
    <3>2. PICK value \in Values :
            work' = [work EXCEPT !.stage = "desired", !.value = value, !.want = Desired]
      BY <2>1 DEF PushNeedsRoom
    <3>. QED
      BY <3>1, <3>2
  <2>2. CASE \E bytes \in 1..MaxTicket : MakeDiagnostic(bytes)
    <3>1. PICK bytes \in Nat : work' = [work EXCEPT !.stage = "diagnostic", !.want = bytes]
      <4>1. PICK bytes \in 1..MaxTicket : MakeDiagnostic(bytes)
        BY <2>2
      <4>2. bytes \in Nat
        BY BudgetAssumption
      <4>. QED
        BY <4>1, <4>2 DEF MakeDiagnostic
    <3>2. work' = [work EXCEPT !.stage = "diagnostic", !.value = work.value, !.want = bytes]
      BY <3>1 DEF LedgerInv, Work
    <3>. QED
      BY <3>2, LedgerNumbers
  <2>. QED
    BY <2>1, <2>2
<1>2. At({"idle"}) /\ UNCHANGED <<sequenceVars, ledgerVars, capacity>> /\ work.held = 0
  BY DEF PushNeedsRoom, MakeDiagnostic, LedgerInv, At
<1>3. /\ work' \in Work /\ work'.stage \in {"desired", "diagnostic"} /\ work'.held = 0
  BY <1>1, <1>2 DEF LedgerInv, Work, Bytes, Stages, Loops, Admitting
<1>4. Reserved = 0 /\ Reserved' = 0 /\ Pending = 0 /\ Pending' = 0
  BY <1>2, <1>3 DEF Reserved, Pending, At
<1>. QED
  BY <1>2, <1>3, <1>4, LedgerKept

LEMMA LoopLedger ==
  ASSUME LedgerInv, Read \/ Retry
  PROVE  LedgerInv'
<1>1. PICK n \in Seen : work' = [work EXCEPT !.seen = n]
  BY LedgerNumbers DEF Read, Retry, Seen, Unread
<1>2. UNCHANGED <<sequenceVars, ledgerVars, capacity>>
  BY DEF Read, Retry
<1>3. work' \in Work /\ work'.stage = work.stage /\ work'.held = work.held
  BY <1>1 DEF LedgerInv, Work
<1>4. Reserved' = Reserved /\ Pending' = Pending
  BY <1>3 DEF Reserved, Pending, At
<1>5. At({"idle"} \cup Admitting)' => work'.held = 0
  BY <1>3 DEF LedgerInv, At
<1>. QED
  BY <1>2, <1>3, <1>4, <1>5, LedgerKept

\* What is reserved anew is counted; a resize replaces what was held.
LEMMA AdmitLedger ==
  ASSUME LedgerInv, Admit
  PROVE  LedgerInv'
<1>1. /\ At({"desired", "needed", "diagnostic", "resize"})
      /\ transient = work.seen /\ transient' = Reserving
      /\ work' = [GoTo(Granted) EXCEPT !.held = work.want]
      /\ UNCHANGED <<sequenceVars, allocated, tickets, capacity>>
  BY DEF Admit, Swap, Admitting, At
<1>2. Granted \in {"allocate", "send", "commit"}
  BY <1>1 DEF Granted, At
<1>3. work' \in Work /\ work'.stage = Granted /\ work'.held = work.want
  <2>1. Granted \in Stages
    BY <1>2 DEF Stages
  <2>2. GoTo(Granted) \in Work /\ GoTo(Granted).stage = Granted
    BY <2>1, WorkGoes DEF LedgerInv
  <2>. QED
    BY <1>1, <2>2, LedgerNumbers DEF Work, Bytes
<1>4. Reserved' = work.want /\ Pending' = 0 /\ Pending = 0
  BY <1>1, <1>2, <1>3 DEF Reserved, Pending, At
<1>5. transient' = work.want + TicketBytes
  <2>1. Reserved = work.held
    BY <1>1 DEF Reserved, At
  <2>2. CASE At({"resize"})
    BY <1>1, <2>1, <2>2, LedgerNumbers DEF Reserving
  <2>3. CASE ~At({"resize"})
    <3>1. work.held = 0
      BY <1>1, <2>3 DEF LedgerInv, At, Admitting
    <3>. QED
      BY <1>1, <2>1, <2>3, <3>1, LedgerNumbers DEF Reserving
  <2>. QED
    BY <2>2, <2>3
<1>6. ~At({"idle"} \cup Admitting)'
  BY <1>2, <1>3 DEF At, Admitting
<1>7. allocated' = capacity + Pending'
  BY <1>1, <1>4 DEF LedgerInv, LedgerBalanced
<1>. QED
  BY <1>1, <1>3, <1>4, <1>5, <1>6, <1>7, LedgerMoved

LEMMA RefuseLedger ==
  ASSUME LedgerInv, Refuse
  PROVE  LedgerInv'
<1>1. /\ At({"desired", "needed", "diagnostic", "resize"})
      /\ UNCHANGED <<sequenceVars, ledgerVars, capacity>>
  BY DEF Refuse, Admitting, At
<1>2. Reserved = work.held /\ Pending = 0
  BY <1>1 DEF Reserved, Pending, At
<1>3. CASE At({"desired"})
  <2>1. "needed" \in Stages
    BY DEF Stages, Loops, Admitting
  <2>2. work' = [GoTo("needed") EXCEPT !.want = Len(entries) + 1]
    BY <1>3 DEF Refuse, At
  <2>3. work' \in Work /\ work'.stage = "needed" /\ work'.held = work.held
    BY <2>1, <2>2, WorkGoes, LedgerNumbers DEF LedgerInv, Work, Bytes
  <2>4. Reserved' = Reserved /\ Pending' = Pending /\ work'.held = 0
    BY <1>2, <1>3, <2>3 DEF Reserved, Pending, LedgerInv, At, Admitting
  <2>. QED
    BY <1>1, <2>3, <2>4, LedgerKept
<1>4. CASE At({"resize"})
  <2>1. "failed" \in Stages
    BY DEF Stages, Loops, Releasing
  <2>2. work' = GoTo("failed")
    BY <1>4 DEF Refuse, At
  <2>3. work' \in Work /\ work'.stage = "failed" /\ work'.held = work.held
    BY <2>1, <2>2, WorkGoes DEF LedgerInv
  <2>4. Reserved' = Reserved /\ Pending' = Pending /\ ~At({"idle"} \cup Admitting)'
    BY <1>2, <2>3 DEF Reserved, Pending, At, Admitting
  <2>. QED
    BY <1>1, <2>3, <2>4, LedgerKept
<1>5. CASE At({"needed", "diagnostic"})
  <2>1. work' = NoWork
    BY <1>5 DEF Refuse, At
  <2>2. work.held = 0
    BY <1>5 DEF LedgerInv, At, Admitting
  <2>3. Reserved' = Reserved /\ Pending' = Pending
    BY <1>2, <2>1, <2>2, NoWorkTyped DEF Reserved, Pending, At
  <2>. QED
    BY <1>1, <2>1, <2>3, NoWorkTyped, LedgerKept
<1>. QED
  BY <1>1, <1>3, <1>4, <1>5 DEF At

LEMMA DropLedger ==
  ASSUME LedgerInv, DropReservation
  PROVE  LedgerInv'
<1>1. /\ At({"committed", "failed"})
      /\ transient = work.seen /\ transient' = work.seen - work.held
      /\ work' = IF At({"committed"}) THEN GoTo("install") ELSE NoWork
      /\ UNCHANGED <<sequenceVars, allocated, tickets, capacity>>
  BY DEF DropReservation, Swap, Releasing
<1>2. Reserved = work.held
  BY <1>1 DEF Reserved, At
<1>3. transient' = TicketBytes
  BY <1>1, <1>2, LedgerNumbers
<1>4. CASE At({"committed"})
  <2>1. "install" \in Stages
    BY DEF Stages
  <2>2. work' \in Work /\ work'.stage = "install" /\ work'.held = work.held
    BY <1>1, <1>4, <2>1, WorkGoes DEF LedgerInv
  <2>3. /\ Reserved' = 0 /\ Pending' = work.held /\ Pending = work.held
        /\ ~At({"idle"} \cup Admitting)'
    BY <1>4, <2>2 DEF Reserved, Pending, At, Admitting
  <2>4. allocated' = capacity + Pending'
    BY <1>1, <2>3 DEF LedgerInv, LedgerBalanced
  <2>. QED
    BY <1>1, <1>3, <2>2, <2>3, <2>4, LedgerMoved, LedgerNumbers
<1>5. CASE At({"failed"})
  <2>1. work' = NoWork
    BY <1>1, <1>5 DEF At
  <2>2. Reserved' = 0 /\ Pending' = 0 /\ Pending = 0
    BY <1>5, <2>1, NoWorkTyped DEF Reserved, Pending, At
  <2>3. allocated' = capacity + Pending'
    BY <1>1, <2>2 DEF LedgerInv, LedgerBalanced
  <2>. QED
    BY <1>1, <1>3, <2>1, <2>2, <2>3, NoWorkTyped, LedgerMoved, LedgerNumbers
<1>. QED
  BY <1>1, <1>4, <1>5 DEF At

LEMMA AllocateLedger ==
  ASSUME LedgerInv, Allocate
  PROVE  LedgerInv'
<1>1. At({"allocate"}) /\ UNCHANGED <<sequenceVars, ledgerVars, capacity>>
  BY DEF Allocate
<1>2. work' \in Work /\ work'.stage \in {"failed", "resize"} /\ work'.held = work.held
  <2>1. "failed" \in Stages /\ "resize" \in Stages
    BY DEF Stages, Loops, Releasing
  <2>2. CASE work' = GoTo("failed")
    BY <2>1, <2>2, WorkGoes DEF LedgerInv
  <2>3. CASE \E extra \in 0..MaxRounding :
               work' = [GoTo("resize") EXCEPT !.want = work.held + extra]
    <3>1. PICK extra \in Nat : work' = [GoTo("resize") EXCEPT !.want = work.held + extra]
      BY <2>3, BudgetAssumption
    <3>2. /\ GoTo("resize") \in Work /\ GoTo("resize").stage = "resize"
          /\ GoTo("resize").held = work.held
      BY <2>1, WorkGoes DEF LedgerInv
    <3>3. work.held + extra \in Nat
      BY LedgerNumbers
    <3>. QED
      BY <3>1, <3>2, <3>3 DEF Work, Bytes
  <2>. QED
    BY <2>2, <2>3 DEF Allocate
<1>3. Reserved' = Reserved /\ Pending' = Pending /\ ~At({"idle"} \cup Admitting)'
  BY <1>1, <1>2 DEF Reserved, Pending, At, Admitting
<1>. QED
  BY <1>1, <1>2, <1>3, LedgerKept

LEMMA CommitLedger ==
  ASSUME LedgerInv, CommitAllocation
  PROVE  LedgerInv'
<1>1. /\ At({"commit"}) /\ allocated' = allocated + work.held
      /\ work' = GoTo("committed")
      /\ UNCHANGED <<sequenceVars, transient, tickets, capacity>>
  BY DEF CommitAllocation
<1>2. work' \in Work /\ work'.stage = "committed" /\ work'.held = work.held
  <2>1. "committed" \in Stages
    BY DEF Stages, Loops, Releasing
  <2>. QED
    BY <1>1, <2>1, WorkGoes DEF LedgerInv
<1>3. /\ Reserved' = work.held /\ Reserved = work.held
      /\ Pending' = work.held /\ Pending = 0 /\ ~At({"idle"} \cup Admitting)'
  BY <1>1, <1>2 DEF Reserved, Pending, At, Admitting
<1>4. allocated' = capacity + Pending'
  BY <1>1, <1>3, LedgerNumbers DEF LedgerInv, LedgerBalanced
<1>5. transient' = Reserved' + TicketBytes
  BY <1>1, <1>3, LedgerNumbers
<1>. QED
  BY <1>1, <1>2, <1>3, <1>4, <1>5, LedgerMoved

\* The charge of the old buffer goes, that of the new one stays.
LEMMA InstallLedger ==
  ASSUME LedgerInv, Install
  PROVE  LedgerInv'
<1>1. /\ At({"install"}) /\ allocated' = allocated - capacity /\ capacity' = work.held
      /\ Entered(work.value) /\ work' = NoWork
      /\ UNCHANGED <<transient, tickets>>
  BY DEF Install
<1>2. /\ Reserved = 0 /\ Pending = work.held /\ Reserved' = 0 /\ Pending' = 0
      /\ work' \in Work /\ work'.held = 0
  BY <1>1, NoWorkTyped DEF Reserved, Pending, At
<1>3. allocated' = work.held /\ allocated' \in Nat
  BY <1>1, <1>2, LedgerNumbers DEF LedgerInv, LedgerBalanced
<1>4. LedgerBalanced'
  <2>1. TicketBytes' = TicketBytes
    BY <1>1 DEF TicketBytes
  <2>. QED
    BY <1>1, <1>2, <1>3, <2>1, LedgerNumbers DEF LedgerBalanced
<1>5. entries' \in Seq(Entry) /\ nextLease' \in Nat
  <2>1. work.value \in Values \cup {NoValue} /\ entries \in Seq(Entry) /\ nextLease \in Nat
    BY LedgerNumbers DEF LedgerInv
  <2>. QED
    BY <1>1, <2>1, EnteredTyped
<1>. QED
  BY <1>1, <1>2, <1>3, <1>4, <1>5, LedgerNumbers DEF LedgerInv, LedgerTypeOK, Bytes

LEMMA SendLedger ==
  ASSUME LedgerInv, SendDiagnostic
  PROVE  LedgerInv'
<1>1. /\ At({"send"}) /\ work' = NoWork
      /\ UNCHANGED <<sequenceVars, allocated, transient, capacity>>
  BY DEF SendDiagnostic
<1>2. PICK k \in Tickets : tickets[k] = NoBytes /\ tickets' = [tickets EXCEPT ![k].bytes = work.held]
  BY DEF SendDiagnostic, Free, MakeTicket
<1>3. tickets \in [Tickets -> [bytes : Nat, seen : Nat \cup {-1}]] /\ work.held \in Nat
  BY LedgerNumbers DEF LedgerInv, LedgerTypeOK, Bytes, Seen, Unread
<1>4. /\ LedgerTypeOK /\ LedgerTypeOK' /\ tickets[k].bytes = 0 /\ tickets'[k].bytes = work.held
      /\ \A j \in Tickets \ {k} : tickets'[j] = tickets[j]
  BY <1>1, <1>2, <1>3 DEF LedgerInv, LedgerTypeOK, NoBytes, Bytes, Seen, Unread
<1>5. TicketBytes' = TicketBytes + work.held
  BY <1>3, <1>4, TicketBytesChanged
<1>6. /\ Reserved = work.held /\ Pending = 0 /\ Reserved' = 0 /\ Pending' = 0
      /\ work' \in Work /\ work'.held = 0
  BY <1>1, NoWorkTyped DEF Reserved, Pending, At
<1>7. LedgerBalanced'
  BY <1>1, <1>5, <1>6, LedgerNumbers DEF LedgerInv, LedgerBalanced
<1>. QED
  BY <1>1, <1>4, <1>6, <1>7 DEF LedgerInv, sequenceVars

\* A thread that drops a ticket takes from the counter what the ticket has in it.
LEMMA OtherThreadLedger ==
  ASSUME LedgerInv, OtherThread, UNCHANGED <<sequenceVars, capacity, work>>
  PROVE  LedgerInv'
<1>1. PICK k \in Tickets : TicketRead(k) \/ TicketReleased(k) \/ TicketRetry(k)
  BY DEF OtherThread
<1>2. tickets \in [Tickets -> [bytes : Nat, seen : Nat \cup {-1}]] /\ transient \in Nat
  BY LedgerNumbers DEF LedgerInv, LedgerTypeOK, Bytes, Seen, Unread
<1>3. tickets[k].bytes \in Nat /\ tickets[k].seen \in Nat \cup {-1}
  BY <1>2
<1>4. /\ tickets' \in [Tickets -> [bytes : Nat, seen : Nat \cup {-1}]]
      /\ \A j \in Tickets \ {k} : tickets'[j] = tickets[j]
      /\ transient' \in Nat /\ allocated' = allocated
      /\ transient' = transient - tickets[k].bytes + tickets'[k].bytes
  <2>1. CASE TicketRead(k)
    <3>1. tickets' = [tickets EXCEPT ![k].seen = transient] /\ UNCHANGED <<allocated, transient>>
      BY <2>1 DEF TicketRead
    <3>. QED
      BY <1>2, <1>3, <3>1
  <2>2. CASE TicketReleased(k)
    <3>1. /\ tickets' = [tickets EXCEPT ![k] = [bytes |-> 0, seen |-> -1]]
          /\ allocated' = allocated /\ transient = tickets[k].seen
          /\ transient' = tickets[k].seen - tickets[k].bytes
          /\ tickets[k].bytes <= tickets[k].seen
      BY <2>2 DEF TicketReleased, Swap, NoBytes, Unread
    <3>2. transient' \in Nat /\ transient' = transient - tickets[k].bytes + 0
      BY <1>2, <1>3, <3>1
    <3>. QED
      BY <1>2, <3>1, <3>2
  <2>3. CASE TicketRetry(k)
    <3>1. tickets' = [tickets EXCEPT ![k].seen = -1] /\ UNCHANGED <<allocated, transient>>
      BY <2>3 DEF TicketRetry, Unread
    <3>. QED
      BY <1>2, <1>3, <3>1
  <2>. QED
    BY <1>1, <2>1, <2>2, <2>3
<1>5. LedgerTypeOK /\ LedgerTypeOK'
  BY <1>4 DEF LedgerInv, LedgerTypeOK, Bytes, Seen, Unread
<1>6. /\ TicketBytes' = TicketBytes - tickets[k].bytes + tickets'[k].bytes
      /\ TicketBytes \in Nat /\ tickets'[k].bytes \in Nat
  BY <1>4, <1>5, TicketBytesChanged
<1>7. Reserved' = Reserved /\ Pending' = Pending /\ Reserved \in Nat
  BY LedgerNumbers DEF Reserved, Pending, At
<1>8. LedgerBalanced'
  <2>1. transient' = Reserved + TicketBytes'
    <3>1. transient = Reserved + TicketBytes
      BY LedgerNumbers
    <3>2. transient' = transient - tickets[k].bytes + tickets'[k].bytes
      BY <1>4
    <3>3. \A r, b, c, all \in Nat : r + all - b + c = r + (all - b + c)
      OBVIOUS
    <3>. QED
      BY <1>3, <1>6, <1>7, <3>1, <3>2, <3>3
  <2>2. allocated' = capacity + Pending
    BY <1>4 DEF LedgerInv, LedgerBalanced
  <2>. QED
    BY <1>7, <2>1, <2>2 DEF LedgerBalanced
<1>. QED
  BY <1>5, <1>8 DEF LedgerInv, At, sequenceVars

\* An idle interpreter thread keeps the ledger as it is.
LEMMA IdleLedger ==
  ASSUME LedgerInv, UNCHANGED <<ledgerVars, capacity, work>>,
         entries' \in Seq(Entry), nextLease' \in Nat
  PROVE  LedgerInv'
BY DEF LedgerInv, LedgerTypeOK, ledgerVars, LedgerBalanced, TicketBytes, Reserved, Pending,
       At, Bytes, Seen

LEMMA OtherCallLedger ==
  ASSUME LedgerInv, OtherCall
  PROVE  LedgerInv'
<1>1. entries \in Seq(Entry) /\ Len(entries) \in Nat /\ nextLease \in Nat
  BY DEF LedgerInv
<1>2. ASSUME NEW i \in DOMAIN entries, entries' = WithoutEntry(i)
      PROVE  entries' \in Seq(Entry)
  BY <1>1, <1>2, RemovedShape DEF WithoutEntry
<1>3. ASSUME NEW n \in 0..Len(entries), entries' = SubSeq(entries, 1, n)
      PROVE  entries' \in Seq(Entry)
  BY <1>1, <1>3
<1>4. ASSUME NEW i \in DOMAIN entries, NEW value \in Values,
             entries' = [entries EXCEPT ![i].value = value]
      PROVE  entries' \in Seq(Entry)
  <2>1. entries[i] \in Entry
    BY <1>1
  <2>2. [entries[i] EXCEPT !.value = value] \in Entry
    BY <2>1 DEF Entry
  <2>3. entries' = [entries EXCEPT ![i] = [entries[i] EXCEPT !.value = value]]
    BY <1>4
  <2>. QED
    BY <1>1, <2>2, <2>3
<1>5. entries' \in Seq(Entry) /\ nextLease' = nextLease
  BY <1>1, <1>2, <1>3, <1>4, OtherCallShape
<1>. QED
  BY <1>1, <1>5, IdleLedger DEF OtherCall

LEMMA LedgerStep ==
  ASSUME LedgerInv, [BudgetNext]_budgetVars
  PROVE  LedgerInv'
<1>1. CASE \E value \in Values : PushInPlace(value)
  <2>1. PICK value \in Values : PushInPlace(value)
    BY <1>1
  <2>2. entries' \in Seq(Entry) /\ nextLease' \in Nat
    BY <2>1, EnteredTyped DEF PushInPlace, LedgerInv
  <2>. QED
    BY <2>1, <2>2, IdleLedger DEF PushInPlace
<1>2. CASE \/ \E value \in Values : PushNeedsRoom(value)
           \/ \E bytes \in 1..MaxTicket : MakeDiagnostic(bytes)
  BY <1>2, StartLedger
<1>3. CASE Read \/ Retry
  BY <1>3, LoopLedger
<1>4. CASE Admit \/ Refuse \/ DropReservation
  BY <1>4, AdmitLedger, RefuseLedger, DropLedger
<1>5. CASE Allocate \/ CommitAllocation \/ Install \/ SendDiagnostic
  BY <1>5, AllocateLedger, CommitLedger, InstallLedger, SendLedger
<1>6. CASE OtherCall
  BY <1>6, OtherCallLedger
<1>7. CASE OtherThread /\ UNCHANGED <<sequenceVars, capacity, work>>
  BY <1>7, OtherThreadLedger
<1>8. CASE UNCHANGED budgetVars
  BY <1>8, IdleLedger DEF budgetVars, sequenceVars, LedgerInv
<1>. QED
  BY <1>1, <1>2, <1>3, <1>4, <1>5, <1>6, <1>7, <1>8 DEF BudgetNext, Interpreter

LEMMA LedgerInitially == BudgetInit => LedgerInv
<1> SUFFICES ASSUME BudgetInit PROVE LedgerInv
  OBVIOUS
<1>1. /\ entries = <<>> /\ nextLease = 0 /\ capacity = 0 /\ work = NoWork
      /\ allocated = 0 /\ transient = 0 /\ tickets = [k \in Tickets |-> NoBytes]
  BY DEF BudgetInit, SequenceInit, LedgerInit
<1>2. LedgerTypeOK
  BY <1>1 DEF LedgerTypeOK, NoBytes, Bytes, Seen, Unread
<1>3. TicketBytes = 0
  <2> DEFINE b == [k \in Tickets |-> tickets[k].bytes]
  <2>1. \A k \in Tickets : b[k] = 0
    BY <1>1 DEF NoBytes
  <2>2. Sum(b, Tickets) = 0
    <3>. HIDE DEF b
    <3>. QED
      BY <2>1, SumZero, LedgerAssumption
  <2>. QED
    BY <2>2 DEF TicketBytes, Sum, SumFunction
<1>4. Reserved = 0 /\ Pending = 0
  BY <1>1, NoWorkTyped DEF Reserved, Pending, At
<1>. QED
  BY <1>1, <1>2, <1>3, <1>4, NoWorkTyped DEF LedgerInv, LedgerBalanced, Bytes

\* Every byte that the counters have belongs to a buffer, a reservation or a ticket
\* that is still to be dropped, whichever thread drops what and when; with a limit
\* or without (ledger.rs:33-44, ledger.rs:117-131).
THEOREM CountersBalance == BudgetSpec => []LedgerBalanced
<1>1. LedgerInv => LedgerBalanced
  BY DEF LedgerInv
<1>. QED
  BY <1>1, LedgerInitially, LedgerStep, PTL DEF BudgetSpec

\* So whoever gives bytes back finds them in the counter: no subtraction underflows,
\* in the drop of a reservation or of a ticket or of an old buffer's charge.
THEOREM NothingUnderflows ==
  BudgetSpec => [](/\ Reserved <= transient
                   /\ \A k \in Tickets : Reserved + tickets[k].bytes <= transient
                   /\ capacity <= allocated)
<1> DEFINE Found == /\ Reserved <= transient
                    /\ \A k \in Tickets : Reserved + tickets[k].bytes <= transient
                    /\ capacity <= allocated
<1>1. ASSUME LedgerInv
      PROVE  Found
  <2>1. /\ transient = Reserved + TicketBytes /\ TicketBytes \in Nat
        /\ Reserved \in Nat /\ Pending \in Nat
    BY <1>1, LedgerNumbers DEF Reserved, Pending
  <2>2. capacity <= allocated
    BY <1>1, <2>1, LedgerNumbers DEF LedgerInv, LedgerBalanced
  <2>3. ASSUME NEW k \in Tickets
        PROVE  tickets[k].bytes \in Nat /\ tickets[k].bytes <= TicketBytes
    <3> DEFINE b == [j \in Tickets |-> tickets[j].bytes]
    <3>1. \A j \in Tickets : b[j] \in Nat
      BY <1>1 DEF LedgerInv, LedgerTypeOK, Bytes
    <3>2. b[k] \in Nat /\ b[k] <= Sum(b, Tickets)
      <4>. HIDE DEF b
      <4>. QED
        BY <3>1, SummandFits, LedgerAssumption
    <3>. QED
      BY <3>2 DEF TicketBytes, Sum, SumFunction
  <2>. QED
    BY <2>1, <2>2, <2>3
<1>2. BudgetSpec => []LedgerInv
  BY LedgerInitially, LedgerStep, PTL DEF BudgetSpec
<1>. QED
  BY <1>1, <1>2, PTL

-----------------------------------------------------------------------------
(* The limit *)

\* What counts against the limit: a reservation that was turned into a charge, and is
\* still to be dropped, counts once.
Spent   == IF At({"committed"}) THEN work.held ELSE 0
Counted == allocated + transient - Spent

CountedRight == Counted \in Nat /\ (BudgetHeld <=> Limit = 0 \/ Counted <= Limit)

LEMMA CountedNat == LedgerInv => CountedRight
<1> SUFFICES ASSUME LedgerInv PROVE CountedRight
  OBVIOUS
<1>1. Spent \in Nat /\ Spent <= allocated /\ Pending \in Nat
  BY LedgerNumbers DEF Spent, Pending, LedgerInv, LedgerBalanced, At
<1>2. Counted \in Nat
  BY <1>1, LedgerNumbers DEF Counted
<1>. QED
  BY <1>2 DEF CountedRight, BudgetHeld, Counted, Spent

\* The swap succeeds only if the counter is what was compared with the limit, and what
\* is allocated is the interpreter thread's own.
LEMMA AdmitHeld ==
  ASSUME LedgerInv, BudgetHeld, Admit
  PROVE  Limit = 0 \/ Counted' <= Limit
<1>1. /\ At({"desired", "needed", "diagnostic", "resize"})
      /\ Admissible /\ transient = work.seen /\ transient' = Reserving
      /\ work'.stage = Granted /\ allocated' = allocated
  BY LedgerNumbers DEF Admit, Swap, Admitting, At, GoTo, LedgerInv, Work
<1>2. Granted \in {"allocate", "send", "commit"}
  BY <1>1 DEF Granted, At
<1>3. Counted' = allocated + Reserving
  <2>1. Spent' = 0 /\ Reserving \in Nat
    <3>1. transient' \in Nat
      BY AdmitLedger DEF LedgerInv, LedgerTypeOK, Bytes
    <3>. QED
      BY <1>1, <1>2, <3>1 DEF Spent, At
  <2>. QED
    BY <1>1, <2>1, LedgerNumbers DEF Counted
<1>4. CASE Fits(Reserving)
  BY <1>3, <1>4 DEF Fits
<1>5. CASE At({"resize"}) /\ work.want <= work.held
  <2>1. Counted = allocated + transient
    BY <1>5, LedgerNumbers DEF Counted, Spent, At
  <2>2. Reserving <= transient /\ Reserving \in Int
    BY <1>1, <1>5, LedgerNumbers DEF Reserving
  <2>3. Limit = 0 \/ Counted <= Limit
    BY CountedNat DEF CountedRight
  <2>. QED
    BY <1>3, <2>1, <2>2, <2>3, LedgerNumbers, LedgerAssumption
<1>. QED
  BY <1>1, <1>4, <1>5 DEF Admissible

\* Every other step counts no more than before.
LEMMA HeldStep ==
  ASSUME LedgerInv, BudgetHeld, [BudgetNext]_budgetVars
  PROVE  BudgetHeld'
<1>1. CountedRight /\ CountedRight'
  <2>1. (LedgerInv => CountedRight)'
    BY CountedNat, PTL
  <2>. QED
    BY <2>1, CountedNat, LedgerStep
<1>2. ASSUME Counted' <= Counted
      PROVE  BudgetHeld'
  <2>1. Counted \in Nat /\ Counted' \in Nat /\ Limit \in Nat
    BY <1>1, LedgerAssumption DEF CountedRight
  <2>2. Limit = 0 \/ Counted <= Limit
    BY <1>1 DEF CountedRight
  <2>3. Limit = 0 \/ Counted' <= Limit
    BY <1>2, <2>1, <2>2
  <2>4. BudgetHeld' <=> Limit = 0 \/ Counted' <= Limit
    BY <1>1 DEF CountedRight
  <2>. QED
    BY <2>3, <2>4
<1>3. /\ work' = work => Spent' = Spent
      /\ ~At({"committed"}) => Spent = 0
      /\ At({"committed"}) => Spent = work.held
      /\ Spent' = IF work'.stage = "committed" THEN work'.held ELSE 0
      /\ allocated \in Nat /\ transient \in Nat /\ work.held \in Nat
  BY LedgerNumbers DEF Spent, At
<1>4. CASE UNCHANGED <<allocated, transient>> /\ ~At({"committed"})
             /\ work'.stage # "committed"
  BY <1>2, <1>3, <1>4 DEF Counted
<1>5. CASE UNCHANGED <<allocated, transient, work>>
  BY <1>2, <1>3, <1>5 DEF Counted
<1>6. CASE \/ \E value \in Values : PushInPlace(value)
           \/ OtherCall \/ UNCHANGED budgetVars
  BY <1>5, <1>6 DEF PushInPlace, OtherCall, budgetVars, ledgerVars
<1>7. CASE \/ \E value \in Values : PushNeedsRoom(value)
           \/ \E bytes \in 1..MaxTicket : MakeDiagnostic(bytes)
  BY <1>4, <1>7 DEF PushNeedsRoom, MakeDiagnostic, At, ledgerVars, LedgerInv, Work
<1>8. CASE Read \/ Retry
  <2>1. UNCHANGED <<allocated, transient>> /\ work'.stage = work.stage /\ work'.held = work.held
    BY <1>8 DEF Read, Retry, ledgerVars, LedgerInv, Work
  <2>. QED
    BY <1>2, <1>3, <2>1 DEF Counted, Spent, At
<1>9. CASE Admit
  BY <1>1, <1>9, AdmitHeld DEF CountedRight
<1>10. CASE Refuse \/ Allocate \/ SendDiagnostic
  <2>1. UNCHANGED <<allocated, transient>> /\ ~At({"committed"})
    BY <1>10 DEF Refuse, Allocate, SendDiagnostic, ledgerVars, At, Admitting
  <2>2. work'.stage # "committed"
    BY <1>10, NoWorkTyped DEF Refuse, Allocate, SendDiagnostic, GoTo, LedgerInv, Work, At, Admitting
  <2>. QED
    BY <1>4, <2>1, <2>2
<1>11. CASE CommitAllocation
  <2>1. /\ ~At({"committed"}) /\ allocated' = allocated + work.held /\ transient' = transient
        /\ work'.stage = "committed" /\ work'.held = work.held
    BY <1>11 DEF CommitAllocation, GoTo, LedgerInv, Work, At
  <2>. QED
    BY <1>2, <1>3, <2>1 DEF Counted
<1>12. CASE DropReservation
  <2>1. /\ allocated' = allocated /\ transient' = transient - work.held
        /\ work'.stage # "committed"
    BY <1>12, NoWorkTyped DEF DropReservation, Swap, GoTo, LedgerInv, Work, At
  <2>2. Counted' = allocated + transient - work.held
    BY <1>3, <2>1 DEF Counted
  <2>3. Spent = work.held \/ Spent = 0
    BY <1>3
  <2>. QED
    BY <1>2, <1>3, <2>2, <2>3 DEF Counted
<1>13. CASE Install
  <2>1. /\ ~At({"committed"}) /\ allocated' = allocated - capacity /\ transient' = transient
        /\ work'.stage # "committed" /\ capacity \in Nat
    BY <1>13, NoWorkTyped, LedgerNumbers DEF Install, At
  <2>. QED
    BY <1>2, <1>3, <2>1 DEF Counted
<1>14. CASE OtherThread /\ UNCHANGED <<sequenceVars, capacity, work>>
  <2>1. PICK k \in Tickets : TicketRead(k) \/ TicketReleased(k) \/ TicketRetry(k)
    BY <1>14 DEF OtherThread
  <2>2. tickets[k].bytes \in Nat
    BY DEF LedgerInv, LedgerTypeOK, Bytes
  <2>3. allocated' = allocated /\ transient' \in Int /\ transient' <= transient
    BY <1>3, <2>1, <2>2 DEF TicketRead, TicketReleased, TicketRetry, Swap
  <2>. QED
    BY <1>2, <1>3, <1>14, <2>3 DEF Counted
<1>. QED
  BY <1>6, <1>7, <1>8, <1>9, <1>10, <1>11, <1>12, <1>13, <1>14 DEF BudgetNext, Interpreter

LEMMA HeldInitially == BudgetInit => BudgetHeld
BY NoWorkTyped, LedgerAssumption DEF BudgetInit, LedgerInit, BudgetHeld, At

\* The limit holds for what is allocated and reserved, whatever it is and whatever threads
\* drop tickets while a buffer is replaced (arena.rs:1387-1413, root_sequence.rs:80-103).
THEOREM LimitIsHeld == BudgetSpec => []BudgetHeld
BY LedgerInitially, LedgerStep, HeldInitially, HeldStep, PTL DEF BudgetSpec

-----------------------------------------------------------------------------
(* A push in all its steps *)

DepthFits == Limit # 0 /\ Limit <= MaxDepth

Pushing == {"desired", "needed", "allocate", "resize", "commit", "committed", "install"}

\* What a push in progress knows.
RoomAsked ==
  /\ At(Pushing) => work.value \in Values /\ nextLease < MaxLease
  /\ At({"desired", "needed", "resize"}) => work.want >= Len(entries) + 1
  /\ At({"allocate", "resize", "commit", "committed", "install"})
       => work.held >= Len(entries) + 1

RoomInv ==
  /\ SequenceInv
  /\ Len(entries) <= capacity
  /\ RoomAsked

BudgetInv == LedgerInv /\ BudgetHeld /\ RoomInv

\* Steps of the sequence itself are only taken while no push is in progress, or by it.
LEMMA RoomKept ==
  ASSUME BudgetInv, UNCHANGED <<sequenceVars, capacity>>, RoomAsked'
  PROVE  RoomInv'
<1>1. snapshot' \subseteq Root
  BY DEF sequenceVars, BudgetInv, RoomInv, SequenceInv, SequenceTypeOK
<1>2. SequenceInv'
  BY <1>1, EntriesKept DEF BudgetInv, RoomInv, sequenceVars, rootVars
<1>. QED
  BY <1>2 DEF BudgetInv, RoomInv, sequenceVars

LEMMA IdleRoom ==
  ASSUME work'.stage \in {"idle", "diagnostic", "send", "failed"}
  PROVE  RoomAsked'
BY DEF RoomAsked, At, Pushing

\* While there is a limit, what exists fits it.
LEMMA CapacityFits ==
  ASSUME DepthFits, BudgetInv
  PROVE  capacity <= MaxDepth /\ (At({"install"}) => work.held <= MaxDepth)
<1>1. /\ Limit # 0 /\ Limit <= MaxDepth /\ Limit \in Nat /\ MaxDepth \in Nat
      /\ allocated + transient - (IF At({"committed"}) THEN work.held ELSE 0) <= Limit
      /\ allocated = capacity + Pending
  BY LedgerAssumption, SequenceAssumption
  DEF DepthFits, BudgetInv, BudgetHeld, LedgerInv, LedgerBalanced
<1>2. /\ allocated \in Nat /\ transient \in Nat /\ capacity \in Nat /\ work.held \in Nat
  BY LedgerNumbers DEF BudgetInv
<1>3. CASE At({"committed"})
  BY <1>1, <1>2, <1>3 DEF Pending, At
<1>4. CASE ~At({"committed"})
  BY <1>1, <1>2, <1>4 DEF Pending, At
<1>. QED
  BY <1>3, <1>4 DEF At

LEMMA StartRoom ==
  ASSUME BudgetInv, NEW value \in Values, PushNeedsRoom(value)
  PROVE  RoomInv'
<1>1. /\ nextLease < MaxLease /\ UNCHANGED <<sequenceVars, capacity>>
      /\ work' = [work EXCEPT !.stage = "desired", !.value = value, !.want = Desired]
  BY DEF PushNeedsRoom, LeaseLeft
<1>2. Desired >= Len(entries) + 1
  BY DesiredEnough, LedgerNumbers DEF BudgetInv
<1>3. work'.stage = "desired" /\ work'.value = value /\ work'.want = Desired
  BY <1>1 DEF BudgetInv, LedgerInv, Work
<1>. QED
  BY <1>1, <1>2, <1>3, RoomKept DEF RoomAsked, At, Pushing, sequenceVars

\* Reading the counter, or giving up on a swap.
LEMMA LoopRoom ==
  ASSUME BudgetInv, Read \/ Retry
  PROVE  RoomInv'
<1>1. UNCHANGED <<sequenceVars, capacity>>
  BY DEF Read, Retry
<1>2. /\ work'.stage = work.stage /\ work'.value = work.value
      /\ work'.want = work.want /\ work'.held = work.held
  BY DEF Read, Retry, BudgetInv, LedgerInv, Work
<1>. QED
  BY <1>1, <1>2, RoomKept DEF BudgetInv, RoomInv, RoomAsked, At, sequenceVars

\* What was asked for is held now.
LEMMA AdmitRoom ==
  ASSUME BudgetInv, Admit
  PROVE  RoomInv'
<1>1. /\ At({"desired", "needed", "diagnostic", "resize"})
      /\ work' = [GoTo(Granted) EXCEPT !.held = work.want]
      /\ UNCHANGED <<sequenceVars, capacity>>
  BY DEF Admit, Admitting, At
<1>2. /\ At({"desired", "needed"}) => Granted = "allocate"
      /\ At({"diagnostic"}) => Granted = "send"
      /\ At({"resize"}) => Granted = "commit"
  BY <1>1 DEF Granted, At
<1>3. work'.stage = Granted /\ work'.held = work.want /\ work'.value = work.value
  BY <1>1 DEF GoTo, BudgetInv, LedgerInv, Work
<1>4. RoomAsked'
  BY <1>1, <1>2, <1>3 DEF BudgetInv, RoomInv, RoomAsked, At, Pushing, sequenceVars
<1>. QED
  BY <1>1, <1>4, RoomKept

LEMMA RefuseRoom ==
  ASSUME BudgetInv, Refuse
  PROVE  RoomInv'
<1>1. /\ At({"desired", "needed", "diagnostic", "resize"})
      /\ UNCHANGED <<sequenceVars, capacity>>
  BY DEF Refuse, Admitting, At
<1>2. CASE At({"desired"})
  <2>1. work' = [GoTo("needed") EXCEPT !.want = Len(entries) + 1]
    BY <1>2 DEF Refuse, At
  <2>2. work'.stage = "needed" /\ work'.want = Len(entries) + 1 /\ work'.value = work.value
    BY <2>1 DEF GoTo, BudgetInv, LedgerInv, Work
  <2>3. Len(entries) \in Nat
    BY LedgerNumbers DEF BudgetInv
  <2>4. RoomAsked'
    BY <1>1, <1>2, <2>2, <2>3 DEF BudgetInv, RoomInv, RoomAsked, At, Pushing, sequenceVars
  <2>. QED
    BY <1>1, <2>4, RoomKept
<1>3. CASE ~At({"desired"})
  <2>1. work' = GoTo("failed") \/ work' = NoWork
    BY <1>1, <1>3 DEF Refuse, At
  <2>2. work'.stage \in {"failed", "idle"}
    BY <2>1, NoWorkTyped DEF GoTo, BudgetInv, LedgerInv, Work
  <2>. QED
    BY <1>1, <2>2, IdleRoom, RoomKept
<1>. QED
  BY <1>2, <1>3

LEMMA DropRoom ==
  ASSUME BudgetInv, DropReservation
  PROVE  RoomInv'
<1>1. UNCHANGED <<sequenceVars, capacity>>
  BY DEF DropReservation
<1>2. CASE At({"committed"})
  <2>1. work'.stage = "install" /\ work'.held = work.held /\ work'.value = work.value
    BY <1>2 DEF DropReservation, GoTo, BudgetInv, LedgerInv, Work
  <2>. QED
    BY <1>1, <1>2, <2>1, RoomKept DEF BudgetInv, RoomInv, RoomAsked, At, Pushing, sequenceVars
<1>3. CASE ~At({"committed"})
  BY <1>1, <1>3, NoWorkTyped, IdleRoom, RoomKept DEF DropReservation
<1>. QED
  BY <1>2, <1>3

\* An allocator gives what was asked for, or more.
LEMMA AllocateRoom ==
  ASSUME BudgetInv, Allocate
  PROVE  RoomInv'
<1>1. At({"allocate"}) /\ UNCHANGED <<sequenceVars, capacity>>
  BY DEF Allocate
<1>2. CASE work' = GoTo("failed")
  <2>1. work'.stage = "failed"
    BY <1>2 DEF GoTo, BudgetInv, LedgerInv, Work
  <2>. QED
    BY <1>1, <2>1, IdleRoom, RoomKept
<1>3. CASE \E extra \in 0..MaxRounding : work' = [GoTo("resize") EXCEPT !.want = work.held + extra]
  <2>1. PICK extra \in Nat : work' = [GoTo("resize") EXCEPT !.want = work.held + extra]
    BY <1>3, BudgetAssumption
  <2>2. /\ work'.stage = "resize" /\ work'.held = work.held /\ work'.value = work.value
        /\ work'.want = work.held + extra
    BY <2>1 DEF GoTo, BudgetInv, LedgerInv, Work
  <2>3. work'.want >= Len(entries) + 1 /\ work.held >= Len(entries) + 1
    BY <1>1, <2>2, LedgerNumbers DEF BudgetInv, RoomInv, RoomAsked, At
  <2>4. RoomAsked'
    BY <1>1, <2>2, <2>3 DEF BudgetInv, RoomInv, RoomAsked, At, Pushing, sequenceVars
  <2>. QED
    BY <1>1, <2>4, RoomKept
<1>. QED
  BY <1>2, <1>3 DEF Allocate

LEMMA CommitRoom ==
  ASSUME BudgetInv, CommitAllocation
  PROVE  RoomInv'
<1>1. At({"commit"}) /\ UNCHANGED <<sequenceVars, capacity>>
  BY DEF CommitAllocation
<1>2. work'.stage = "committed" /\ work'.held = work.held /\ work'.value = work.value
  BY DEF CommitAllocation, GoTo, BudgetInv, LedgerInv, Work
<1>. QED
  BY <1>1, <1>2, RoomKept DEF BudgetInv, RoomInv, RoomAsked, At, Pushing, sequenceVars

\* The new buffer has room for the entry that is pushed.
LEMMA InstallRoom ==
  ASSUME DepthFits, BudgetInv, Install
  PROVE  RoomInv' /\ work.value \in Values /\ TryPush(work.value) /\ UNCHANGED snapshot
<1>1. At({"install"}) /\ capacity' = work.held /\ Entered(work.value) /\ work' = NoWork
  BY DEF Install
<1>2. /\ work.value \in Values /\ nextLease < MaxLease
      /\ work.held >= Len(entries) + 1 /\ work.held <= MaxDepth
      /\ Len(entries) \in Nat /\ work.held \in Nat /\ MaxDepth \in Nat
  BY <1>1, CapacityFits, LedgerNumbers, SequenceAssumption
  DEF BudgetInv, RoomInv, RoomAsked, At, Pushing
<1>3. TryPush(work.value) /\ UNCHANGED snapshot
  BY <1>1, <1>2 DEF TryPush, LeaseLeft, Entered
<1>4. SequenceInv'
  BY <1>2, <1>3, PushInv DEF BudgetInv, RoomInv
<1>5. Len(entries') = Len(entries) + 1
  BY <1>3 DEF TryPush, BudgetInv, RoomInv, SequenceInv, SequenceTypeOK
<1>6. RoomAsked'
  BY <1>1, NoWorkTyped, IdleRoom
<1>. QED
  BY <1>1, <1>2, <1>3, <1>4, <1>5, <1>6 DEF RoomInv

LEMMA PushInPlaceRoom ==
  ASSUME DepthFits, BudgetInv, NEW value \in Values, PushInPlace(value)
  PROVE  RoomInv' /\ TryPush(value) /\ UNCHANGED snapshot
<1>1. /\ At({"idle"}) /\ LeaseLeft /\ Len(entries) < capacity
      /\ Entered(value) /\ UNCHANGED <<capacity, work>>
  BY DEF PushInPlace
<1>2. /\ capacity <= MaxDepth /\ capacity \in Nat /\ Len(entries) \in Nat /\ MaxDepth \in Nat
  BY CapacityFits, LedgerNumbers, SequenceAssumption DEF BudgetInv
<1>3. TryPush(value) /\ UNCHANGED snapshot
  BY <1>1, <1>2 DEF TryPush, Entered
<1>4. SequenceInv'
  BY <1>3, PushInv DEF BudgetInv, RoomInv
<1>5. Len(entries') = Len(entries) + 1
  BY <1>3 DEF TryPush, BudgetInv, RoomInv, SequenceInv, SequenceTypeOK
<1>6. RoomAsked'
  BY <1>1, IdleRoom DEF At
<1>. QED
  BY <1>1, <1>2, <1>3, <1>4, <1>5, <1>6 DEF RoomInv

\* No other call makes the sequence longer.
LEMMA OtherCallRoom ==
  ASSUME BudgetInv, OtherCall
  PROVE  RoomInv' /\ SequenceNext
<1>1. At({"idle"}) /\ UNCHANGED <<capacity, work>> /\ SequenceNext
  BY DEF OtherCall, SequenceNext, SequenceCall
<1>2. SequenceInv'
  BY <1>1, SequenceStep DEF BudgetInv, RoomInv
<1>3. Len(entries') <= Len(entries)
  <2>1. entries \in Seq(Root) /\ Len(entries) \in Nat
    BY DEF BudgetInv, RoomInv, SequenceInv, SequenceTypeOK
  <2>2. CASE \E i \in DOMAIN entries : entries' = WithoutEntry(i)
    BY <2>1, <2>2, RemovedShape DEF WithoutEntry
  <2>3. CASE \E n \in 0..Len(entries) : entries' = SubSeq(entries, 1, n)
    BY <2>1, <2>3
  <2>4. CASE \E i \in DOMAIN entries, value \in Values :
               entries' = [entries EXCEPT ![i].value = value]
    BY <2>1, <2>4
  <2>5. CASE entries' = entries
    BY <2>1, <2>5
  <2>6. QED
    BY <2>1, <2>2, <2>3, <2>4, <2>5, OtherCallShape
<1>4. Len(entries) \in Nat /\ Len(entries') \in Nat /\ capacity \in Nat /\ Len(entries) <= capacity
  BY <1>2, LedgerNumbers DEF BudgetInv, RoomInv, SequenceInv, SequenceTypeOK
<1>5. RoomAsked'
  BY <1>1, IdleRoom DEF At
<1>. QED
  BY <1>1, <1>2, <1>3, <1>4, <1>5 DEF RoomInv

-----------------------------------------------------------------------------
(* The theorems *)

LEMMA BudgetInitially == BudgetInit => BudgetInv /\ SequenceInit
<1> SUFFICES ASSUME BudgetInit PROVE BudgetInv /\ SequenceInit
  OBVIOUS
<1>1. SequenceInit /\ LedgerInit /\ capacity = 0 /\ work = NoWork
  BY DEF BudgetInit
<1>2. SequenceInv /\ Len(entries) = 0
  BY <1>1, InitSequenceInv DEF SequenceInit
<1>3. RoomAsked
  BY <1>1, NoWorkTyped DEF RoomAsked, At, Pushing
<1>. QED
  BY <1>1, <1>2, <1>3, LedgerInitially, HeldInitially DEF BudgetInv, RoomInv

\* Each step keeps BudgetInv and is a step of RootSequence, or no step of it.
LEMMA BudgetStep ==
  ASSUME DepthFits, BudgetInv, [BudgetNext]_budgetVars
  PROVE  BudgetInv' /\ [SequenceNext]_sequenceVars
<1> SUFFICES RoomInv' /\ [SequenceNext]_sequenceVars
  BY LedgerStep, HeldStep DEF BudgetInv
<1>1. CASE \E value \in Values : PushInPlace(value)
  BY <1>1, PushInPlaceRoom DEF SequenceNext, SequenceCall
<1>2. CASE \E value \in Values : PushNeedsRoom(value)
  BY <1>2, StartRoom DEF PushNeedsRoom
<1>3. CASE \E bytes \in 1..MaxTicket : MakeDiagnostic(bytes)
  <2>1. work'.stage = "diagnostic" /\ UNCHANGED <<sequenceVars, capacity>>
    BY <1>3 DEF MakeDiagnostic, BudgetInv, LedgerInv, Work
  <2>. QED
    BY <2>1, IdleRoom, RoomKept
<1>4. CASE Read \/ Retry
  BY <1>4, LoopRoom DEF Read, Retry
<1>5. CASE Admit \/ Refuse \/ DropReservation
  BY <1>5, AdmitRoom, RefuseRoom, DropRoom DEF Admit, Refuse, DropReservation
<1>6. CASE Allocate \/ CommitAllocation
  BY <1>6, AllocateRoom, CommitRoom DEF Allocate, CommitAllocation
<1>7. CASE SendDiagnostic
  BY <1>7, NoWorkTyped, IdleRoom, RoomKept DEF SendDiagnostic
<1>8. CASE Install
  BY <1>8, InstallRoom DEF SequenceNext, SequenceCall
<1>9. CASE OtherCall
  BY <1>9, OtherCallRoom
<1>10. CASE UNCHANGED <<sequenceVars, capacity, work>>
  BY <1>10, RoomKept DEF BudgetInv, RoomInv, RoomAsked, At, sequenceVars
<1>. QED
  BY <1>1, <1>2, <1>3, <1>4, <1>5, <1>6, <1>7, <1>8, <1>9, <1>10
  DEF BudgetNext, Interpreter, budgetVars

\* Types, what a push in progress knows, and the budget.
THEOREM BudgetInvariance ==
  ASSUME DepthFits
  PROVE  BudgetSpec => []BudgetInv
BY BudgetInitially, BudgetStep, PTL DEF BudgetSpec

\* The sequence never outgrows its buffer, and no counter goes below zero
\* (root_sequence.rs:92-103, ledger.rs:33-44).
THEOREM BudgetTyped ==
  ASSUME DepthFits
  PROVE  BudgetSpec => []BudgetTypeOK
<1>1. BudgetInv => BudgetTypeOK
  BY DEF BudgetInv, RoomInv, LedgerInv, BudgetTypeOK, SequenceInv
<1>. QED
  BY <1>1, BudgetInvariance, PTL

\* A push that is paid for in steps is a push of the sequence, or none.
THEOREM BudgetImplementsSequence ==
  ASSUME DepthFits
  PROVE  BudgetSpec => ImplementsSequence
<1>1. BudgetInit => SequenceInit
  BY BudgetInitially
<1>. QED
  BY <1>1, BudgetStep, BudgetInvariance, PTL DEF BudgetSpec, SequenceSpec, ImplementsSequence

\* So what holds of the sequence holds of the one that pays.
THEOREM PaidRootsStayInOrder ==
  ASSUME DepthFits
  PROVE  BudgetSpec => []LeasesAscend /\ OnlySnapshotRewritten
BY BudgetImplementsSequence, RootsStayInOrder, UpdatesStayInSnapshot, PTL
DEF ImplementsSequence
=============================================================================
