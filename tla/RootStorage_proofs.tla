------------------------- MODULE RootStorage_proofs -------------------------
(***************************************************************************)
(* The root table keeps its free list and its generations consistent, and  *)
(* implements the leases of RootLeases, for every set of values, table     *)
(* size and number of generations.                                         *)
(***************************************************************************)
EXTENDS RootStorage, FiniteSums

USE StorageAssumption

\* The inductive invariant: what the runs check, and the room in the buffers.
StorageInv ==
  /\ StorageTypeOK
  /\ FreeIsVacancies
  /\ GenerationsDistinct
  /\ len <= capacity

\* What of the state the lemmas below speak about: everything but call.
TypeOfStorage ==
  /\ slots \in [Indices -> Entry]
  /\ len \in 0..MaxSlots
  /\ free \in [Indices -> Nat]
  /\ capacity \in 0..MaxSlots
  /\ next \in 0..MaxGeneration
  /\ issued \subseteq Handle

-----------------------------------------------------------------------------
(* Vacating a set of occupied slots (release, restore) *)

\* Afterwards the occupied slots are the ones left alone, and they are as
\* they were.
LEMMA VacateOccupied ==
  ASSUME StorageInv, NEW vacated \in SUBSET Indices,
         \A i \in vacated : Occupied(i), Vacate(vacated)
  PROVE  /\ \A i \in Indices : Occupied(i)' <=> Occupied(i) /\ i \notin vacated
         /\ \A i \in Indices : Occupied(i)' => slots'[i] = slots[i]
<1>1. PICK n \in 0..len :
        /\ IsVacantTail(Emptied(vacated), n)
        /\ len' = n
        /\ slots' = [i \in Indices |-> IF i < n THEN Emptied(vacated)[i] ELSE Blank]
  BY DEF Vacate
<1>2. n \in Nat /\ len \in Nat /\ \A i \in Indices : i \in Nat
  BY DEF StorageInv, StorageTypeOK, Indices
<1>3. /\ \A i \in vacated : Emptied(vacated)[i].value = NoValue
      /\ \A i \in Indices : i \notin vacated => Emptied(vacated)[i] = slots[i]
  BY DEF Emptied
<1>4. ASSUME NEW i \in Indices
      PROVE  /\ Occupied(i)' <=> Occupied(i) /\ i \notin vacated
             /\ Occupied(i)' => slots'[i] = slots[i]
  <2>1. CASE i < n
    <3>1. slots'[i] = Emptied(vacated)[i] /\ i < len /\ i < len'
      BY <1>1, <1>2, <2>1
    <3>2. QED BY <1>3, <3>1 DEF Occupied
  <2>2. CASE ~(i < n)
    <3>1. ~Occupied(i)'
      BY <1>1, <2>2 DEF Occupied
    <3>2. ASSUME i < len, i \notin vacated PROVE slots[i].value = NoValue
      <4>1. i \in n..(len - 1)
        BY <1>2, <2>2, <3>2
      <4>2. QED BY <1>1, <1>3, <3>2, <4>1 DEF IsVacantTail
    <3>3. QED BY <3>1, <3>2 DEF Occupied
  <2>3. QED BY <2>1, <2>2
<1>5. QED BY <1>4

\* Vacating keeps the types and the free list in step with the entries.
LEMMA VacateFree ==
  ASSUME StorageInv, NEW vacated \in SUBSET Indices,
         \A i \in vacated : Occupied(i), Vacate(vacated)
  PROVE  TypeOfStorage' /\ FreeIsVacancies' /\ len' <= capacity'
<1>1. PICK n \in 0..len :
        /\ IsVacantTail(Emptied(vacated), n)
        /\ len' = n
        /\ slots' = [i \in Indices |-> IF i < n THEN Emptied(vacated)[i] ELSE Blank]
        /\ free' = PopTail(Pushed(vacated), n)
  BY DEF Vacate
<1>2. /\ n \in Nat /\ len \in Nat /\ n <= len /\ len <= capacity
      /\ len \in 0..MaxSlots /\ capacity \in 0..MaxSlots
      /\ UNCHANGED <<capacity, next, issued>>
  BY DEF StorageInv, StorageTypeOK, Vacate
<1>3. \A i \in Indices : i \in Nat /\ slots[i] \in Entry
  BY DEF StorageInv, StorageTypeOK, Indices
<1>4. \A i \in Indices : Emptied(vacated)[i] \in Entry
  BY <1>3 DEF Emptied, Entry
<1>5. ASSUME NEW i \in Indices
      PROVE  Pushed(vacated)[i]
               = IF i < len /\ Emptied(vacated)[i].value = NoValue THEN 1 ELSE 0
  <2>1. free[i] = IF i < len /\ slots[i].value = NoValue THEN 1 ELSE 0
    BY DEF StorageInv, FreeIsVacancies
  <2>2. CASE i \in vacated
    <3>1. i < len /\ slots[i].value # NoValue
      BY <2>2 DEF Occupied
    <3>2. QED BY <2>1, <2>2, <3>1 DEF Emptied, Pushed
  <2>3. CASE i \notin vacated
    BY <2>1, <2>3 DEF Emptied, Pushed
  <2>4. QED BY <2>2, <2>3
<1>6. \A i \in Indices : ~(i < n) /\ i < len => Emptied(vacated)[i].value = NoValue
  BY <1>1, <1>2, <1>3 DEF IsVacantTail
<1>7. ASSUME NEW i \in Indices
      PROVE  free'[i] = IF i < n /\ Emptied(vacated)[i].value = NoValue THEN 1 ELSE 0
  <2>1. free'[i] = IF i \in n..(len - 1) /\ Pushed(vacated)[i] > 0
                   THEN Pushed(vacated)[i] - 1 ELSE Pushed(vacated)[i]
    BY <1>1 DEF PopTail
  <2>2. i \in n..(len - 1) <=> ~(i < n) /\ i < len
    BY <1>2, <1>3
  <2>3. QED BY <1>2, <1>3, <1>5, <1>6, <2>1, <2>2
<1>8. FreeIsVacancies'
  BY <1>1, <1>7 DEF FreeIsVacancies
<1>9. slots' \in [Indices -> Entry]
  <2>1. Blank \in Entry
    BY DEF Blank, Entry
  <2>2. QED BY <1>1, <1>4, <2>1
<1>10. free' \in [Indices -> Nat]
  <2>1. free' = [i \in Indices |-> free'[i]]
    BY <1>1 DEF PopTail
  <2>2. QED BY <1>7, <2>1
<1>11. QED
  BY <1>1, <1>2, <1>8, <1>9, <1>10 DEF TypeOfStorage, StorageInv, StorageTypeOK

\* The leases that are left are those whose slots were not vacated.
LEMMA VacateLeases ==
  ASSUME StorageInv, NEW vacated \in SUBSET Indices,
         \A i \in vacated : Occupied(i), Vacate(vacated)
  PROVE  Leases' = {lease \in Leases : lease.index \notin vacated}
<1>1. \A i \in Indices : Occupied(i)' <=> Occupied(i) /\ i \notin vacated
  BY VacateOccupied
<1>2. \A i \in Indices : Occupied(i)' => LeaseAt(i)' = LeaseAt(i)
  BY VacateOccupied DEF LeaseAt
<1>3. \A i \in Indices : LeaseAt(i).index = i
  BY DEF LeaseAt
<1>4. Leases' = {LeaseAt(i)' : i \in {j \in Indices : Occupied(j)'}}
  BY DEF Leases
<1>5. QED BY <1>1, <1>2, <1>3, <1>4 DEF Leases

\* Vacating leaves the generations distinct.
LEMMA VacateGenerations ==
  ASSUME StorageInv, NEW vacated \in SUBSET Indices,
         \A i \in vacated : Occupied(i), Vacate(vacated)
  PROVE  GenerationsDistinct'
<1>1. UNCHANGED <<next, issued>>
  BY DEF Vacate
<1>2. QED BY <1>1, VacateOccupied DEF StorageInv, GenerationsDistinct

-----------------------------------------------------------------------------
(* One step, one lemma: the invariant is kept, and the lease step is made.  *)

\* What a claim of index i does, if i is vacant or the next fresh index.
LEMMA LeaseTaken ==
  ASSUME StorageInv, NEW i \in Indices, NEW value \in Values, NEW managed \in BOOLEAN,
         ~Occupied(i), i < len', len' \in Nat, next < MaxGeneration,
         \A j \in Indices : j # i => (j < len' <=> j < len),
         Lease(i, value, managed)
  PROVE  /\ slots' \in [Indices -> Entry]
         /\ next' \in 0..MaxGeneration
         /\ issued' \subseteq Handle
         /\ call' \in Call
         /\ GenerationsDistinct'
         /\ \A lease \in Leases : lease.index # i
         /\ Leases' = Leases \cup {[generation |-> next, index |-> i,
                                     value |-> value, managed |-> managed]}
<1> DEFINE entry == [generation |-> next, value |-> value, managed |-> managed]
<1>1. /\ next \in Nat /\ next' = next + 1 /\ next \in Generations
      /\ slots \in [Indices -> Entry] /\ slots' = [slots EXCEPT ![i] = entry]
      /\ issued' = issued \cup {[index |-> i, generation |-> next]}
  BY DEF Lease, StorageInv, StorageTypeOK, Generations
<1>2. slots' \in [Indices -> Entry]
  <2>1. entry \in Entry
    BY <1>1 DEF Entry
  <2>2. QED BY <1>1, <2>1
<1>3. next' \in 0..MaxGeneration
  BY <1>1
<1>4. issued' \subseteq Handle
  BY <1>1 DEF Handle, StorageInv, StorageTypeOK
<1>5. call' \in Call
  BY <1>1 DEF Lease, Called, Call
<1>6. slots'[i] = entry /\ \A j \in Indices : j # i => slots'[j] = slots[j]
  BY <1>1
<1>7. \A j \in Indices : Occupied(j)' <=> Occupied(j) \/ j = i
  BY <1>6 DEF Occupied
<1>8. GenerationsDistinct'
  <2>1. /\ \A j \in Indices : Occupied(j) =>
             /\ slots[j].generation < next
             /\ [index |-> j, generation |-> slots[j].generation] \in issued
        /\ \A h1, h2 \in issued : h1.generation = h2.generation => h1 = h2
        /\ \A h \in issued : h.generation < next
    BY DEF StorageInv, GenerationsDistinct
  <2>2. \A h \in issued : h.generation \in Nat
    BY DEF StorageInv, StorageTypeOK, Handle, Generations
  <2>3. \A j \in Indices : slots[j].generation \in Nat
    BY <1>1 DEF Entry
  <2>4. ASSUME NEW j \in Indices, Occupied(j)'
        PROVE  /\ slots'[j].generation < next'
               /\ [index |-> j, generation |-> slots'[j].generation] \in issued'
    <3>1. CASE j = i
      BY <1>1, <1>6, <3>1
    <3>2. CASE j # i
      BY <1>1, <1>6, <1>7, <2>1, <2>3, <2>4, <3>2
    <3>3. QED BY <3>1, <3>2
  <2>5. \A h1, h2 \in issued' : h1.generation = h2.generation => h1 = h2
    BY <1>1, <2>1, <2>2
  <2>6. \A h \in issued' : h.generation < next'
    BY <1>1, <2>1, <2>2
  <2>7. QED BY <2>4, <2>5, <2>6 DEF GenerationsDistinct
<1>9. \A lease \in Leases : lease.index # i
  BY DEF Leases, LeaseAt
<1>10. Leases' = Leases \cup {[generation |-> next, index |-> i,
                               value |-> value, managed |-> managed]}
  <2>1. Leases' = {LeaseAt(j)' : j \in {k \in Indices : Occupied(k)'}}
    BY DEF Leases
  <2>2. \A j \in Indices : Occupied(j) => LeaseAt(j)' = LeaseAt(j)
    BY <1>6 DEF LeaseAt
  <2>3. LeaseAt(i)' = [generation |-> next, index |-> i,
                       value |-> value, managed |-> managed]
    BY <1>6 DEF LeaseAt
  <2>4. QED BY <1>7, <2>1, <2>2, <2>3 DEF Leases
<1>11. QED BY <1>2, <1>3, <1>4, <1>5, <1>8, <1>9, <1>10

LEMMA ClaimVacantStep ==
  ASSUME StorageInv, NEW value \in Values, NEW managed \in BOOLEAN,
         ClaimVacant(value, managed)
  PROVE  StorageInv' /\ RL!LeaseClaim(value, managed)
<1>1. PICK i \in Indices :
        /\ free[i] > 0
        /\ free' = [free EXCEPT ![i] = @ - 1]
        /\ Lease(i, value, managed)
  BY DEF ClaimVacant
<1>2. /\ len \in 0..MaxSlots /\ capacity \in 0..MaxSlots /\ len <= capacity
      /\ free \in [Indices -> Nat] /\ len' = len /\ capacity' = capacity
      /\ next < MaxGeneration
  BY DEF StorageInv, StorageTypeOK, ClaimVacant, GenerationLeft
<1>3. \A j \in Indices : free[j] = IF j < len /\ slots[j].value = NoValue THEN 1 ELSE 0
  BY DEF StorageInv, FreeIsVacancies
<1>4. i < len /\ slots[i].value = NoValue
  BY <1>1, <1>3
<1>5. ~Occupied(i)
  BY <1>4 DEF Occupied
<1>6. /\ slots' \in [Indices -> Entry] /\ next' \in 0..MaxGeneration
      /\ issued' \subseteq Handle /\ call' \in Call /\ GenerationsDistinct'
      /\ \A lease \in Leases : lease.index # i
      /\ Leases' = Leases \cup {[generation |-> next, index |-> i,
                                  value |-> value, managed |-> managed]}
  BY <1>1, <1>2, <1>4, <1>5, LeaseTaken
<1>7. free' \in [Indices -> Nat]
  BY <1>1, <1>2, <1>3
<1>8. FreeIsVacancies'
  <2>1. slots' = [slots EXCEPT ![i] = [generation |-> next, value |-> value,
                                        managed |-> managed]]
    BY <1>1 DEF Lease
  <2>2. slots \in [Indices -> Entry]
    BY DEF StorageInv, StorageTypeOK
  <2>3. QED BY <1>1, <1>2, <1>3, <1>4, <2>1, <2>2 DEF FreeIsVacancies
<1>9. StorageInv'
  BY <1>2, <1>6, <1>7, <1>8 DEF StorageInv, StorageTypeOK
<1>10. next' = next + 1 /\ call' = [op |-> "claim", arg |-> next]
  BY <1>1 DEF Lease, Called
<1>11. QED
  BY <1>1, <1>2, <1>6, <1>9, <1>10 DEF RL!LeaseClaim, RL!Called, RL!Indices, Indices

LEMMA ClaimFreshStep ==
  ASSUME StorageInv, NEW value \in Values, NEW managed \in BOOLEAN,
         ClaimFresh(value, managed)
  PROVE  StorageInv' /\ RL!LeaseClaim(value, managed)
<1>1. /\ len \in 0..MaxSlots /\ capacity \in 0..MaxSlots /\ len <= capacity
      /\ free \in [Indices -> Nat] /\ free' = free
      /\ slots \in [Indices -> Entry]
      /\ len \in Indices /\ len' = len + 1 /\ capacity' \in Reserved
      /\ next < MaxGeneration
      /\ \A j \in Indices : free[j] = 0
      /\ Lease(len, value, managed)
  BY DEF StorageInv, StorageTypeOK, ClaimFresh, GenerationLeft
<1>2. capacity' \in 0..MaxSlots /\ len' <= capacity' /\ len' \in 0..MaxSlots
  BY <1>1 DEF Reserved, LargestOf, Indices
<1>3. \A j \in Indices : j # len => (j < len' <=> j < len)
  BY <1>1 DEF Indices
<1>4. ~Occupied(len)
  BY <1>1 DEF Occupied
<1>5. /\ slots' \in [Indices -> Entry] /\ next' \in 0..MaxGeneration
      /\ issued' \subseteq Handle /\ call' \in Call /\ GenerationsDistinct'
      /\ \A lease \in Leases : lease.index # len
      /\ Leases' = Leases \cup {[generation |-> next, index |-> len,
                                  value |-> value, managed |-> managed]}
  <2>1. len < len' /\ len' \in Nat
    BY <1>1
  <2>2. QED BY <1>1, <1>3, <1>4, <2>1, LeaseTaken
<1>6. FreeIsVacancies'
  <2>1. slots' = [slots EXCEPT ![len] = [generation |-> next, value |-> value,
                                          managed |-> managed]]
    BY <1>1 DEF Lease
  <2>2. \A j \in Indices : free[j] = IF j < len /\ slots[j].value = NoValue THEN 1 ELSE 0
    BY DEF StorageInv, FreeIsVacancies
  <2>3. QED BY <1>1, <1>3, <2>1, <2>2 DEF FreeIsVacancies
<1>7. StorageInv'
  BY <1>1, <1>2, <1>5, <1>6 DEF StorageInv, StorageTypeOK
<1>8. next' = next + 1 /\ call' = [op |-> "claim", arg |-> next]
  BY <1>1 DEF Lease, Called
<1>9. QED
  BY <1>1, <1>5, <1>7, <1>8 DEF RL!LeaseClaim, RL!Called, RL!Indices, Indices

\* The lease with the generation of a handle that holds is the handle's slot.
LEMMA OwnLease ==
  ASSUME StorageInv, NEW h \in issued, Holds(h)
  PROVE  \A lease \in Leases : lease.generation = h.generation =>
           lease = LeaseAt(h.index)
<1>1. ASSUME NEW i \in Indices, Occupied(i), slots[i].generation = h.generation
      PROVE  i = h.index
  <2>1. [index |-> i, generation |-> slots[i].generation] \in issued
    BY <1>1 DEF StorageInv, GenerationsDistinct
  <2>2. h = [index |-> i, generation |-> slots[i].generation]
    BY <1>1, <2>1 DEF StorageInv, GenerationsDistinct
  <2>3. QED BY <2>2
<1>2. QED BY <1>1 DEF Leases, LeaseAt

\* What writing an entry through a handle that holds does.
LEMMA EntryWritten ==
  ASSUME StorageInv, NEW h \in issued, Holds(h),
         NEW value \in Values, NEW managed \in BOOLEAN,
         slots' = Written(h.index, value, managed),
         UNCHANGED <<len, free, capacity, next, issued>>, call' \in Call
  PROVE  /\ StorageInv'
         /\ Leases' = {IF lease.generation = h.generation
                       THEN RL!Updated(lease, value, managed)
                       ELSE lease : lease \in Leases}
<1> DEFINE i == h.index
           New(lease) == IF lease.generation = h.generation
                         THEN RL!Updated(lease, value, managed) ELSE lease
<1>1. /\ i \in Indices /\ Occupied(i) /\ slots[i].generation = h.generation
      /\ slots \in [Indices -> Entry]
      /\ value # NoValue
  BY DEF StorageInv, StorageTypeOK, Handle, Holds
<1>2. /\ slots'[i] = [generation |-> h.generation, value |-> value, managed |-> managed]
      /\ slots' \in [Indices -> Entry]
      /\ \A j \in Indices : j # i => slots'[j] = slots[j]
  BY <1>1 DEF Written, Entry
<1>3. \A j \in Indices : /\ slots'[j].generation = slots[j].generation
                         /\ slots'[j].value = NoValue <=> slots[j].value = NoValue
  BY <1>1, <1>2 DEF Occupied
<1>4. \A j \in Indices : Occupied(j)' <=> Occupied(j)
  BY <1>3 DEF Occupied
<1>5. StorageInv'
  <2>1. StorageTypeOK'
    BY <1>2 DEF StorageInv, StorageTypeOK
  <2>2. FreeIsVacancies'
    BY <1>3 DEF StorageInv, FreeIsVacancies
  <2>3. GenerationsDistinct'
    BY <1>3, <1>4 DEF StorageInv, GenerationsDistinct
  <2>4. QED BY <2>1, <2>2, <2>3 DEF StorageInv
<1>6. ASSUME NEW j \in Indices, Occupied(j) PROVE LeaseAt(j)' = New(LeaseAt(j))
  <2>1. CASE j = i
    BY <1>1, <1>2, <2>1 DEF LeaseAt, RL!Updated
  <2>2. CASE j # i
    <3>1. LeaseAt(j) \in Leases
      BY <1>6 DEF Leases
    <3>2. slots[j].generation # h.generation
      BY <2>2, <3>1, OwnLease DEF LeaseAt
    <3>3. QED BY <1>2, <2>2, <3>2 DEF LeaseAt
  <2>3. QED BY <2>1, <2>2
<1>7. Leases' = {LeaseAt(j)' : j \in {k \in Indices : Occupied(k)'}}
  BY DEF Leases
<1>8. Leases' = {New(lease) : lease \in Leases}
  <2> HIDE DEF New
  <2> QED BY <1>4, <1>6, <1>7 DEF Leases
<1>9. QED BY <1>5, <1>8

\* No lease has the generation of a handle that does not hold.
LEMMA StaleHasNoLease ==
  ASSUME StorageInv, NEW h \in issued, ~Holds(h)
  PROVE  \A lease \in Leases : lease.generation # h.generation
<1>1. SUFFICES ASSUME NEW i \in Indices, Occupied(i), slots[i].generation = h.generation
               PROVE  FALSE
  BY DEF Leases, LeaseAt
<1>2. [index |-> i, generation |-> slots[i].generation] \in issued
  BY <1>1 DEF StorageInv, GenerationsDistinct
<1>3. h = [index |-> i, generation |-> slots[i].generation]
  BY <1>1, <1>2 DEF StorageInv, GenerationsDistinct
<1>4. QED BY <1>1, <1>3 DEF Holds

\* The calls that leave the table alone.
LEMMA UnchangedStep ==
  ASSUME StorageInv, UnchangedStorage, call' \in Call
  PROVE  StorageInv' /\ Leases' = Leases
<1>1. \A i \in Indices : Occupied(i)' <=> Occupied(i)
  BY DEF UnchangedStorage, Occupied
<1>2. StorageInv'
  BY <1>1 DEF UnchangedStorage, StorageInv, StorageTypeOK, FreeIsVacancies,
              GenerationsDistinct
<1>3. Leases' = Leases
  BY <1>1 DEF UnchangedStorage, Leases, LeaseAt
<1>4. QED BY <1>2, <1>3

LEMMA HandleTyped ==
  ASSUME StorageInv, NEW h \in issued
  PROVE  h.index \in Indices /\ h.generation \in Generations /\ h.generation \in Nat
BY DEF StorageInv, StorageTypeOK, Handle, Generations

LEMMA ReplaceStep ==
  ASSUME StorageInv, NEW h \in issued, NEW value \in Values, Replace(h, value)
  PROVE  StorageInv' /\ RL!LeaseReplace(h.generation, value)
<1>1. /\ call' \in Call /\ RL!Called("replace", h.generation)
      /\ UNCHANGED <<len, free, capacity, next, issued>>
  BY HandleTyped DEF Replace, Called, RL!Called, Call
<1>2. CASE Holds(h)
  <2> DEFINE managed == slots[h.index].managed
  <2>1. slots[h.index] \in Entry /\ managed \in BOOLEAN
    BY HandleTyped DEF StorageInv, StorageTypeOK, Entry
  <2>2. slots' = Written(h.index, value, managed)
    BY <1>2 DEF Replace
  <2> HIDE DEF managed
  <2>3. /\ StorageInv'
        /\ Leases' = {IF lease.generation = h.generation
                      THEN RL!Updated(lease, value, managed)
                      ELSE lease : lease \in Leases}
    BY <1>1, <1>2, <2>1, <2>2, EntryWritten
  <2>4. \A lease \in Leases : lease.generation = h.generation => lease.managed = managed
    BY <1>2, OwnLease DEF LeaseAt, managed
  <2>5. \A lease \in Leases :
          (IF lease.generation = h.generation
           THEN RL!Updated(lease, value, managed) ELSE lease)
          = (IF lease.generation = h.generation
             THEN RL!Updated(lease, value, lease.managed) ELSE lease)
    BY <2>4
  <2>6. QED BY <1>1, <2>3, <2>5 DEF RL!LeaseReplace
<1>3. CASE ~Holds(h)
  <2>1. StorageInv' /\ Leases' = Leases
    BY <1>1, <1>3, UnchangedStep DEF Replace, UnchangedStorage
  <2>2. QED BY <1>1, <1>3, <2>1, StaleHasNoLease DEF RL!LeaseReplace
<1>4. QED BY <1>2, <1>3

LEMMA ReplaceIfCurrentStep ==
  ASSUME StorageInv, NEW h \in issued, NEW expected \in Values, NEW value \in Values,
         ReplaceIfCurrent(h, expected, value)
  PROVE  StorageInv' /\ RL!LeaseReplaceIfCurrent(h.generation, expected, value)
<1>1. /\ call' \in Call /\ RL!Called("replace_if_current", h.generation)
      /\ UNCHANGED <<len, free, capacity, next, issued>>
  BY HandleTyped DEF ReplaceIfCurrent, Called, RL!Called, Call
<1>2. CASE Holds(h) /\ slots[h.index].value = expected
  <2> DEFINE managed == slots[h.index].managed
  <2>1. slots[h.index] \in Entry /\ managed \in BOOLEAN
    BY HandleTyped DEF StorageInv, StorageTypeOK, Entry
  <2>2. slots' = Written(h.index, value, managed)
    BY <1>2 DEF ReplaceIfCurrent
  <2> HIDE DEF managed
  <2>3. /\ StorageInv'
        /\ Leases' = {IF lease.generation = h.generation
                      THEN RL!Updated(lease, value, managed)
                      ELSE lease : lease \in Leases}
    BY <1>1, <1>2, <2>1, <2>2, EntryWritten
  <2>4. \A lease \in Leases : lease.generation = h.generation =>
          lease.managed = managed /\ lease.value = expected
    BY <1>2, OwnLease DEF LeaseAt, managed
  <2>5. \A lease \in Leases :
          (IF lease.generation = h.generation
           THEN RL!Updated(lease, value, managed) ELSE lease)
          = (IF lease.generation = h.generation /\ lease.value = expected
             THEN RL!Updated(lease, value, lease.managed) ELSE lease)
    BY <2>4
  <2>6. QED BY <1>1, <2>3, <2>5 DEF RL!LeaseReplaceIfCurrent
<1>3. CASE ~(Holds(h) /\ slots[h.index].value = expected)
  <2>1. StorageInv' /\ Leases' = Leases
    BY <1>1, <1>3, UnchangedStep DEF ReplaceIfCurrent, UnchangedStorage
  <2>2. ASSUME NEW lease \in Leases
        PROVE  ~(lease.generation = h.generation /\ lease.value = expected)
    <3>1. CASE Holds(h)
      BY <1>3, <3>1, OwnLease DEF LeaseAt
    <3>2. CASE ~Holds(h)
      BY <3>2, StaleHasNoLease
    <3>3. QED BY <3>1, <3>2
  <2>3. QED BY <1>1, <2>1, <2>2 DEF RL!LeaseReplaceIfCurrent
<1>4. QED BY <1>2, <1>3

LEMMA RetainStep ==
  ASSUME StorageInv, NEW h \in issued, RetainManaged(h)
  PROVE  StorageInv' /\ RL!LeaseRetain(h.generation)
<1>1. /\ call' \in Call /\ RL!Called("retain_managed", h.generation)
      /\ UNCHANGED <<len, free, capacity, next, issued>>
  BY HandleTyped DEF RetainManaged, Called, RL!Called, Call
<1>2. CASE Holds(h)
  <2> DEFINE value == slots[h.index].value
  <2>1. slots[h.index] \in Entry /\ value \in Values
    BY <1>2, HandleTyped DEF StorageInv, StorageTypeOK, Entry, Holds, Occupied
  <2>2. slots' = Written(h.index, value, TRUE)
    BY <1>2 DEF RetainManaged
  <2> HIDE DEF value
  <2>3. /\ StorageInv'
        /\ Leases' = {IF lease.generation = h.generation
                      THEN RL!Updated(lease, value, TRUE)
                      ELSE lease : lease \in Leases}
    BY <1>1, <1>2, <2>1, <2>2, EntryWritten
  <2>4. \A lease \in Leases : lease.generation = h.generation => lease.value = value
    BY <1>2, OwnLease DEF LeaseAt, value
  <2>5. \A lease \in Leases :
          (IF lease.generation = h.generation
           THEN RL!Updated(lease, value, TRUE) ELSE lease)
          = (IF lease.generation = h.generation
             THEN RL!Updated(lease, lease.value, TRUE) ELSE lease)
    BY <2>4
  <2>6. QED BY <1>1, <2>3, <2>5 DEF RL!LeaseRetain
<1>3. CASE ~Holds(h)
  <2>1. StorageInv' /\ Leases' = Leases
    BY <1>1, <1>3, UnchangedStep DEF RetainManaged, UnchangedStorage
  <2>2. QED BY <1>1, <1>3, <2>1, StaleHasNoLease DEF RL!LeaseRetain
<1>4. QED BY <1>2, <1>3

LEMMA VacateInv ==
  ASSUME StorageInv, NEW vacated \in SUBSET Indices,
         \A i \in vacated : Occupied(i), Vacate(vacated), call' \in Call
  PROVE  StorageInv'
<1>1. TypeOfStorage' /\ FreeIsVacancies' /\ len' <= capacity'
  BY VacateFree
<1>2. GenerationsDistinct'
  BY VacateGenerations
<1>3. QED BY <1>1, <1>2 DEF StorageInv, StorageTypeOK, TypeOfStorage

LEMMA ReleaseStep ==
  ASSUME StorageInv, NEW h \in issued, Release(h)
  PROVE  StorageInv' /\ RL!LeaseRelease(h.generation)
<1>1. call' \in Call /\ RL!Called("release", h.generation)
  BY HandleTyped DEF Release, Called, RL!Called, Call
<1>2. CASE Holds(h)
  <2>1. /\ {h.index} \in SUBSET Indices /\ \A i \in {h.index} : Occupied(i)
        /\ Vacate({h.index})
    BY <1>2, HandleTyped DEF Holds, Release
  <2>2. StorageInv' /\ Leases' = {lease \in Leases : lease.index \notin {h.index}}
    BY <1>1, <2>1, VacateInv, VacateLeases
  <2>3. \A lease \in Leases : lease.index = h.index <=> lease.generation = h.generation
    <3>1. \A lease \in Leases : lease.index = h.index => lease.generation = h.generation
      BY <1>2 DEF Leases, LeaseAt, Holds
    <3>2. QED BY <1>2, <3>1, OwnLease DEF LeaseAt
  <2>4. UNCHANGED next
    BY <2>1 DEF Vacate
  <2>5. QED BY <1>1, <2>2, <2>3, <2>4 DEF RL!LeaseRelease
<1>3. CASE ~Holds(h)
  <2>1. UnchangedStorage
    BY <1>3 DEF Release
  <2>2. StorageInv' /\ Leases' = Leases
    BY <1>1, <2>1, UnchangedStep
  <2>3. QED BY <1>1, <1>3, <2>1, <2>2, StaleHasNoLease DEF RL!LeaseRelease, UnchangedStorage
<1>4. QED BY <1>2, <1>3

LEMMA RestoreStep ==
  ASSUME StorageInv, NEW checkpoint \in 0..next, Restore(checkpoint)
  PROVE  StorageInv' /\ RL!LeaseRestore(checkpoint)
<1> DEFINE scoped == {i \in Indices : /\ Occupied(i)
                                      /\ ~slots[i].managed
                                      /\ slots[i].generation >= checkpoint}
<1>1. call' \in Call /\ RL!Called("restore", checkpoint)
  BY DEF Restore, Called, RL!Called, Call, StorageInv, StorageTypeOK
<1>2. \A lease \in Leases :
        lease.index \notin scoped <=> lease.managed \/ lease.generation < checkpoint
  <2>1. ASSUME NEW i \in Indices, Occupied(i)
        PROVE  i \notin scoped <=> slots[i].managed \/ slots[i].generation < checkpoint
    <3>1. slots[i].generation \in Nat /\ checkpoint \in Nat
      BY DEF StorageInv, StorageTypeOK, Entry
    <3>2. QED BY <2>1, <3>1
  <2>2. QED BY <2>1 DEF Leases, LeaseAt
<1>3. CASE scoped = {}
  <2>1. UnchangedStorage
    BY <1>3 DEF Restore
  <2>2. StorageInv' /\ Leases' = Leases
    BY <1>1, <2>1, UnchangedStep
  <2>3. QED BY <1>1, <1>2, <1>3, <2>1, <2>2 DEF RL!LeaseRestore, UnchangedStorage
<1>4. CASE scoped # {}
  <2>1. scoped \in SUBSET Indices /\ (\A i \in scoped : Occupied(i)) /\ Vacate(scoped)
    BY <1>4 DEF Restore
  <2> HIDE DEF scoped
  <2>2. StorageInv' /\ Leases' = {lease \in Leases : lease.index \notin scoped}
    BY <1>1, <2>1, VacateInv, VacateLeases
  <2>3. UNCHANGED next
    BY <2>1 DEF Vacate
  <2>4. QED BY <1>1, <1>2, <2>2, <2>3 DEF RL!LeaseRestore
<1>5. QED BY <1>3, <1>4

LEMMA TruncateStep ==
  ASSUME StorageInv, NEW depth \in 0..MaxSlots, Truncate(depth)
  PROVE  StorageInv' /\ RL!LeaseTruncate(depth)
<1>1. /\ len \in 0..MaxSlots /\ slots \in [Indices -> Entry] /\ free \in [Indices -> Nat]
      /\ len <= capacity /\ capacity \in 0..MaxSlots
      /\ \A i \in Indices : i \in Nat
      /\ UNCHANGED <<capacity, next, issued>>
      /\ len' = IF depth < len THEN depth ELSE len
      /\ slots' = [i \in Indices |-> IF i < depth THEN slots[i] ELSE Blank]
      /\ free' = [i \in Indices |-> IF i < depth THEN free[i] ELSE 0]
      /\ call' \in Call /\ RL!Called("truncate", depth)
  BY DEF StorageInv, StorageTypeOK, Truncate, Called, RL!Called, Call, Indices
<1>2. \A i \in Indices : i < len' <=> i < len /\ i < depth
  BY <1>1
<1>3. \A i \in Indices : Occupied(i)' <=> Occupied(i) /\ i < depth
  BY <1>1, <1>2 DEF Occupied
<1>4. StorageTypeOK'
  <2>1. Blank \in Entry
    BY DEF Blank, Entry
  <2>2. slots' \in [Indices -> Entry] /\ free' \in [Indices -> Nat] /\ len' \in 0..MaxSlots
    BY <1>1, <2>1
  <2>3. QED BY <1>1, <2>2 DEF StorageInv, StorageTypeOK
<1>5. FreeIsVacancies'
  BY <1>1, <1>2 DEF StorageInv, FreeIsVacancies
<1>6. GenerationsDistinct'
  BY <1>1, <1>3 DEF StorageInv, GenerationsDistinct, Occupied
<1>7. StorageInv'
  BY <1>1, <1>4, <1>5, <1>6 DEF StorageInv
<1>8. Leases' = {lease \in Leases : lease.index < depth}
  <2>1. Leases' = {LeaseAt(i)' : i \in {j \in Indices : Occupied(j)'}}
    BY DEF Leases
  <2>2. \A i \in Indices : Occupied(i)' => LeaseAt(i)' = LeaseAt(i)
    BY <1>1, <1>3 DEF LeaseAt
  <2>3. \A i \in Indices : LeaseAt(i).index = i
    BY DEF LeaseAt
  <2>4. QED BY <1>3, <2>1, <2>2, <2>3 DEF Leases
<1>9. QED BY <1>1, <1>7, <1>8 DEF RL!LeaseTruncate

-----------------------------------------------------------------------------

LEMMA StorageInitially == StorageInit => StorageInv /\ RL!LeaseInit
<1> SUFFICES ASSUME StorageInit PROVE StorageInv /\ RL!LeaseInit
  OBVIOUS
<1>1. \A i \in Indices : i \in Nat /\ ~(i < 0) /\ ~Occupied(i)
  BY DEF Indices, StorageInit, Occupied
<1>2. StorageTypeOK
  BY DEF StorageInit, StorageTypeOK, Entry, Blank, Call
<1>3. FreeIsVacancies /\ GenerationsDistinct /\ len <= capacity
  BY <1>1 DEF StorageInit, FreeIsVacancies, GenerationsDistinct
<1>4. RL!LeaseInit
  BY <1>1 DEF StorageInit, RL!LeaseInit, Leases
<1>5. QED BY <1>2, <1>3, <1>4 DEF StorageInv

\* A step keeps the invariant and is a step of the leases, or stutters.
LEMMA StorageStep ==
  StorageInv /\ [StorageNext]_storageVars => StorageInv' /\ [RL!LeaseNext]_(RL!leaseVars)
<1> SUFFICES ASSUME StorageInv, [StorageNext]_storageVars
             PROVE  StorageInv' /\ [RL!LeaseNext]_(RL!leaseVars)
  OBVIOUS
<1>1. CASE \E value \in Values, managed \in BOOLEAN :
             ClaimVacant(value, managed) \/ ClaimFresh(value, managed)
  BY <1>1, ClaimVacantStep, ClaimFreshStep DEF RL!LeaseNext
<1>2. CASE \E h \in issued : Release(h)
  BY <1>2, ReleaseStep, HandleTyped DEF RL!LeaseNext, RL!Generations, Generations
<1>3. CASE \E h \in issued : RetainManaged(h)
  BY <1>3, RetainStep, HandleTyped DEF RL!LeaseNext, RL!Generations, Generations
<1>4. CASE \E h \in issued : \E value \in Values : Replace(h, value)
  BY <1>4, ReplaceStep, HandleTyped DEF RL!LeaseNext, RL!Generations, Generations
<1>5. CASE \E h \in issued : \E expected, value \in Values :
             ReplaceIfCurrent(h, expected, value)
  BY <1>5, ReplaceIfCurrentStep, HandleTyped DEF RL!LeaseNext, RL!Generations, Generations
<1>6. CASE \E checkpoint \in 0..next : Restore(checkpoint)
  <2>1. \A checkpoint \in 0..next : checkpoint \in 0..MaxGeneration
    BY DEF StorageInv, StorageTypeOK
  <2>2. QED BY <1>6, <2>1, RestoreStep DEF RL!LeaseNext
<1>7. CASE \E depth \in 0..MaxSlots : Truncate(depth)
  BY <1>7, TruncateStep DEF RL!LeaseNext
<1>8. CASE UNCHANGED storageVars
  <2>1. UnchangedStorage /\ UNCHANGED call
    BY <1>8 DEF storageVars, UnchangedStorage
  <2>2. call' \in Call
    BY <2>1 DEF StorageInv, StorageTypeOK
  <2>3. StorageInv' /\ Leases' = Leases
    BY <2>1, <2>2, UnchangedStep
  <2>4. QED BY <2>1, <2>3 DEF RL!leaseVars, UnchangedStorage
<1>9. QED
  BY <1>1, <1>2, <1>3, <1>4, <1>5, <1>6, <1>7, <1>8 DEF StorageNext

\* The free list is exactly the vacancies and no two owners hold one lease, in
\* every state the root table can reach (root_storage.rs:128-261).
THEOREM StorageSafe ==
  StorageSpec => [](StorageTypeOK /\ FreeIsVacancies /\ GenerationsDistinct)
<1>1. StorageInit => StorageInv
  BY StorageInitially
<1>2. StorageInv /\ [StorageNext]_storageVars => StorageInv'
  BY StorageStep
<1>3. StorageInv => StorageTypeOK /\ FreeIsVacancies /\ GenerationsDistinct
  BY DEF StorageInv
<1>4. QED BY <1>1, <1>2, <1>3, PTL DEF StorageSpec

\* Generations and buffers stay within their bounds, an exhausted counter
\* included (root_storage.rs:128-133).
THEOREM StorageTyped == StorageSpec => []StorageTypeOK
BY StorageSafe, PTL

\* No slot is handed out twice or lost (root_storage.rs:212-261).
THEOREM FreeListExact == StorageSpec => []FreeIsVacancies
BY StorageSafe, PTL

\* Vacancies and occupied slots are entries, and the entries fit the buffer; so
\* the free list has room for every slot that a release could still push
\* (root_storage.rs:24-25).
THEOREM RoomForEveryRelease == StorageSpec => []ReleaseNeedsNoRoom
<1> DEFINE vacant   == {i \in Indices : free[i] = 1}
           occupied == {i \in Indices : Occupied(i)}
<1>1. ASSUME StorageInv
      PROVE  ReleaseNeedsNoRoom
  <2>1. len \in Nat /\ capacity \in Nat /\ len <= capacity /\ len <= MaxSlots
    BY <1>1 DEF StorageInv, StorageTypeOK
  <2>2. Indices \in SUBSET Nat /\ IsFiniteSet(Indices) /\ IsFiniteSet(0..(len - 1))
    BY <2>1, FS_Interval DEF Indices
  <2>3. \A i \in Indices : free[i] \in {0, 1} /\ (free[i] = 1 => i < len /\ ~Occupied(i))
    BY <1>1 DEF StorageInv, FreeIsVacancies, Occupied
  <2>4. SumFunction(free) = Cardinality(vacant)
    <3>1. DOMAIN free = Indices
      BY <1>1 DEF StorageInv, StorageTypeOK
    <3>2. Sum(free, Indices) = Cardinality(vacant)
      BY <2>2, <2>3, SumCounts
    <3>. QED
      BY <3>1, <3>2 DEF Sum, SumFunction
  <2>5. vacant \in SUBSET (0..(len - 1)) /\ occupied \in SUBSET (0..(len - 1))
    <3>1. ASSUME NEW i \in Indices, i < len
          PROVE  i \in 0..(len - 1)
      BY <2>1, <2>2, <3>1
    <3>2. \A i \in vacant : i \in 0..(len - 1)
      BY <2>3, <3>1
    <3>3. \A i \in occupied : i \in 0..(len - 1)
      BY <3>1 DEF Occupied
    <3>. HIDE DEF vacant, occupied
    <3>. QED
      BY <3>2, <3>3
  <2>6. vacant \cap occupied = {}
    BY <2>3
  <2>. HIDE DEF vacant, occupied
  <2>7. IsFiniteSet(vacant) /\ IsFiniteSet(occupied)
    BY <2>2, <2>5, FS_Subset
  <2>8. /\ Cardinality(vacant) \in Nat /\ Cardinality(occupied) \in Nat
        /\ Cardinality(vacant \cap occupied) = 0
    BY <2>6, <2>7, FS_CardinalityType, FS_EmptySet
  <2>9. Cardinality(vacant \cup occupied) = Cardinality(vacant) + Cardinality(occupied)
    <3>1. Cardinality(vacant \cup occupied)
            = Cardinality(vacant) + Cardinality(occupied) - Cardinality(vacant \cap occupied)
      BY <2>7, FS_Union
    <3>. QED
      BY <2>8, <3>1
  <2>10. Cardinality(vacant \cup occupied) <= Cardinality(0..(len - 1))
    <3>1. vacant \cup occupied \in SUBSET (0..(len - 1))
      BY <2>5
    <3>. QED
      BY <2>2, <3>1, FS_Subset
  <2>11. Cardinality(0..(len - 1)) = len
    BY <2>1, FS_Interval
  <2>12. Cardinality(vacant) + Cardinality(occupied) <= capacity
    BY <2>1, <2>8, <2>9, <2>10, <2>11
  <2>. QED
    BY <2>1, <2>4, <2>12 DEF ReleaseNeedsNoRoom, occupied
<1>2. StorageSpec => []StorageInv
  BY StorageInitially, StorageStep, PTL DEF StorageSpec
<1>. QED
  BY <1>1, <1>2, PTL

\* Any finite set of naturals that is not empty has a largest element.
LEMMA LargestElement ==
  ASSUME NEW S \in SUBSET Nat, IsFiniteSet(S), S # {}
  PROVE  \E top \in S : \A i \in S : i <= top
<1> DEFINE Q == {s \in SUBSET S : s = {} \/ \E top \in s : \A i \in s : i <= top}
<1>1. {} \in Q
  OBVIOUS
<1>2. ASSUME NEW s \in SUBSET S, s # {}, \A x \in s : s \ {x} \in Q
      PROVE  s \in Q
  <2>1. PICK x \in s : TRUE
    BY <1>2
  <2>2. CASE s \ {x} = {}
    BY <2>1, <2>2
  <2>3. CASE s \ {x} # {}
    <3>1. PICK top \in s \ {x} : \A i \in s \ {x} : i <= top
      BY <1>2, <2>1, <2>3
    <3>2. top \in Nat /\ x \in Nat
      BY <2>1, <3>1
    <3>3. CASE x <= top
      BY <2>1, <3>1, <3>3
    <3>4. CASE ~(x <= top)
      BY <2>1, <3>1, <3>2, <3>4
    <3>. QED
      BY <3>3, <3>4
  <2>. QED
    BY <2>2, <2>3
<1>3. \A s \in SUBSET S : s # {} /\ (\A x \in s : s \ {x} \in Q) => s \in Q
  BY <1>2
<1>. HIDE DEF Q
<1>4. S \in Q
  BY <1>1, <1>3, SubsetInduction, S \in SUBSET S
<1>. QED
  BY <1>4 DEF Q

\* Release and restore never fail and leave nothing to chance: whichever occupied
\* slots they vacate, there is exactly one vacant tail to pop
\* (root_storage.rs:212-261).
THEOREM OneTailToPop ==
  ASSUME StorageInv, NEW vacated \in SUBSET Indices, \A i \in vacated : Occupied(i)
  PROVE  \E n \in 0..len : /\ IsVacantTail(Emptied(vacated), n)
                           /\ \A m \in 0..len : IsVacantTail(Emptied(vacated), m) => m = n
<1> DEFINE f    == Emptied(vacated)
           left == {i \in 0..(len - 1) : f[i].value # NoValue}
<1>1. len \in Nat
  BY DEF StorageInv, StorageTypeOK
<1>2. PICK n \in 0..len : /\ n > 0 => f[n - 1].value # NoValue
                          /\ \A j \in n..(len - 1) : f[j].value = NoValue
  <2>1. CASE left = {}
    <3>1. 0 \in 0..len /\ \A j \in 0..(len - 1) : f[j].value = NoValue
      BY <1>1, <2>1
    <3>. QED
      BY <3>1
  <2>2. CASE left # {}
    <3>1. left \in SUBSET Nat /\ IsFiniteSet(left)
      <4>1. left \in SUBSET (0..(len - 1))
        OBVIOUS
      <4>2. IsFiniteSet(0..(len - 1)) /\ 0..(len - 1) \in SUBSET Nat
        BY <1>1, FS_Interval
      <4>. HIDE DEF left
      <4>. QED
        BY <4>1, <4>2, FS_Subset
    <3>2. PICK top \in left : \A i \in left : i <= top
      <4>. HIDE DEF left
      <4>. QED
        BY <2>2, <3>1, LargestElement
    <3> DEFINE n == top + 1
    <3>3. top \in Nat /\ n \in 0..len /\ n > 0 /\ f[n - 1].value # NoValue
      BY <1>1, <3>2
    <3>4. ASSUME NEW j \in n..(len - 1)
          PROVE  f[j].value = NoValue
      <4>1. j \in 0..(len - 1) /\ ~(j <= top)
        BY <1>1, <3>3
      <4>. QED
        BY <3>2, <4>1
    <3>. QED
      BY <3>3, <3>4
  <2>. QED
    BY <2>1, <2>2
<1>3. ASSUME NEW m \in 0..len, m > 0 => f[m - 1].value # NoValue,
             \A j \in m..(len - 1) : f[j].value = NoValue
      PROVE  m = n
  <2>1. ~(m < n)
    <3>1. m < n => n - 1 \in m..(len - 1) /\ n > 0
      BY <1>1
    <3>. QED
      BY <1>2, <1>3, <3>1
  <2>2. ~(n < m)
    <3>1. n < m => m - 1 \in n..(len - 1) /\ m > 0
      BY <1>1
    <3>. QED
      BY <1>2, <1>3, <3>1
  <2>. QED
    BY <1>1, <2>1, <2>2
<1>. HIDE DEF f
<1>. QED
  BY <1>2, <1>3 DEF IsVacantTail, f

\* The table implements the leases: a call through a handle acts on the lease
\* that handle was issued for, or on nothing (stacks.rs:362-365).
THEOREM StorageImplementsLeases == StorageSpec => ImplementsLeases
<1>1. StorageInit => StorageInv /\ RL!LeaseInit
  BY StorageInitially
<1>2. StorageInv /\ [StorageNext]_storageVars
        => StorageInv' /\ [RL!LeaseNext]_(RL!leaseVars)
  BY StorageStep
<1>3. QED
  BY <1>1, <1>2, PTL DEF StorageSpec, ImplementsLeases, RL!LeaseSpec
=============================================================================
