----------------------- MODULE OperationTable_proofs -----------------------
(***************************************************************************)
(* Proofs about OperationTable for any set of ids, any retention window    *)
(* and any tombstone cap.                                                  *)
(***************************************************************************)
EXTENDS OperationTable, SequenceTheorems, TLAPS

(***************************************************************************)
(* Sequences without repeats: what push_back, pop_front and retain do.     *)
(***************************************************************************)

\* Pushing an element that is not there (VecDeque::push_back).
LEMMA AppendNoRepeats ==
  ASSUME NEW S, NEW s \in Seq(S), NEW x \in S
  PROVE  /\ Append(s, x) \in Seq(S)
         /\ Len(Append(s, x)) = Len(s) + 1
         /\ ToSet(Append(s, x)) = ToSet(s) \cup {x}
         /\ NoRepeats(s) /\ x \notin ToSet(s) => NoRepeats(Append(s, x))
<1> DEFINE t == Append(s, x)
<1>1. /\ t \in Seq(S) /\ Len(t) = Len(s) + 1
      /\ DOMAIN t = 1..(Len(s) + 1) /\ DOMAIN s = 1..Len(s) /\ Len(s) \in Nat
      /\ \A i \in 1..Len(s) : t[i] = s[i]
      /\ t[Len(s) + 1] = x
  BY AppendProperties, LenProperties
<1>2. ToSet(t) = ToSet(s) \cup {x}
  <2>1. ToSet(t) \subseteq ToSet(s) \cup {x}
    BY <1>1 DEF ToSet
  <2>2. \A i \in DOMAIN s : s[i] \in ToSet(t)
    <3> SUFFICES ASSUME NEW i \in DOMAIN s PROVE s[i] \in ToSet(t)
      OBVIOUS
    <3>1. i \in DOMAIN t /\ t[i] = s[i]
      BY <1>1
    <3> QED BY <3>1 DEF ToSet
  <2>3. x \in ToSet(t)
    <3>1. Len(s) + 1 \in DOMAIN t /\ t[Len(s) + 1] = x
      BY <1>1
    <3> QED BY <3>1 DEF ToSet
  <2> QED BY <2>1, <2>2, <2>3 DEF ToSet
<1>3. NoRepeats(s) /\ x \notin ToSet(s) => NoRepeats(t)
  <2> SUFFICES ASSUME NoRepeats(s), x \notin ToSet(s),
                      NEW i \in DOMAIN t, NEW j \in DOMAIN t, t[i] = t[j]
               PROVE  i = j
    BY DEF NoRepeats
  <2>1. \A k \in 1..Len(s) : s[k] # x
    BY <1>1 DEF ToSet
  <2> QED BY <1>1, <2>1 DEF NoRepeats
<1> QED BY <1>1, <1>2, <1>3

\* Dropping the head (VecDeque::pop_front).
LEMMA TailNoRepeats ==
  ASSUME NEW S, NEW s \in Seq(S), Len(s) > 0, NoRepeats(s)
  PROVE  /\ Tail(s) \in Seq(S)
         /\ Len(Tail(s)) = Len(s) - 1
         /\ Head(s) \in S
         /\ Head(s) \in ToSet(s)
         /\ ToSet(Tail(s)) = ToSet(s) \ {Head(s)}
         /\ NoRepeats(Tail(s))
<1> DEFINE t == Tail(s)
<1>1. /\ Len(s) \in Nat /\ DOMAIN s = 1..Len(s) /\ s # <<>>
  BY LenProperties, EmptySeq
<1>2. /\ t \in Seq(S) /\ Len(t) = Len(s) - 1 /\ DOMAIN t = 1..(Len(s) - 1)
      /\ \A i \in 1..(Len(s) - 1) : t[i] = s[i + 1]
      /\ Head(s) \in S
  BY <1>1, HeadTailProperties, LenProperties
<1>3. Head(s) = s[1] /\ Head(s) \in ToSet(s)
  BY <1>1 DEF ToSet
<1>4. ToSet(t) = ToSet(s) \ {Head(s)}
  <2>1. ASSUME NEW i \in DOMAIN t PROVE t[i] \in ToSet(s) \ {s[1]}
    <3>1. i + 1 \in DOMAIN s /\ 1 \in DOMAIN s /\ i + 1 # 1 /\ t[i] = s[i + 1]
      BY <1>1, <1>2
    <3> QED BY <3>1 DEF ToSet, NoRepeats
  <2>2. ASSUME NEW i \in DOMAIN s, s[i] # s[1] PROVE s[i] \in ToSet(t)
    <3>1. i # 1 /\ i - 1 \in DOMAIN t /\ t[i - 1] = s[i]
      BY <1>1, <1>2, <2>2
    <3> QED BY <3>1 DEF ToSet
  <2> QED BY <1>3, <2>1, <2>2 DEF ToSet
<1>5. NoRepeats(t)
  <2> SUFFICES ASSUME NEW i \in DOMAIN t, NEW j \in DOMAIN t, t[i] = t[j] PROVE i = j
    BY DEF NoRepeats
  <2>1. i + 1 \in DOMAIN s /\ j + 1 \in DOMAIN s /\ s[i + 1] = s[j + 1]
    BY <1>1, <1>2
  <2>2. i + 1 = j + 1
    BY <2>1 DEF NoRepeats
  <2> QED BY <1>2, <2>2
<1> QED BY <1>2, <1>3, <1>4, <1>5

\* Removing one element wherever it is (VecDeque::retain).
LEMMA WithoutNoRepeats ==
  ASSUME NEW S, NEW s \in Seq(S), NEW x, NoRepeats(s)
  PROVE  /\ Without(s, x) \in Seq(S)
         /\ Len(Without(s, x)) <= Len(s)
         /\ ToSet(Without(s, x)) = ToSet(s) \ {x}
         /\ NoRepeats(Without(s, x))
         /\ \A a \in DOMAIN Without(s, x) :
              \E b \in DOMAIN s : /\ s[b] = Without(s, x)[a]
                                  /\ Len(Without(s, x)) - a <= Len(s) - b
<1>0. Len(s) \in Nat /\ DOMAIN s = 1..Len(s)
  BY LenProperties
<1>1. CASE x \notin ToSet(s)
  BY <1>0, <1>1 DEF Without
<1>2. CASE x \in ToSet(s)
  <2> DEFINE k == CHOOSE i \in DOMAIN s : s[i] = x
             n == Len(s)
             a == SubSeq(s, 1, k - 1)
             b == SubSeq(s, k + 1, n)
             t == a \o b
  <2>1. k \in DOMAIN s /\ s[k] = x
    BY <1>2 DEF ToSet
  <2> HIDE DEF k
  <2>2. Without(s, x) = t
    BY <1>2 DEF Without, RemoveAt, k
  <2>3. /\ a \in Seq(S) /\ Len(a) = k - 1
        /\ \A i \in 1..(k - 1) : a[i] = s[i]
    <3>1. k \in Int /\ k >= 1 /\ k <= n /\ \A i \in 1..(k - 1) : s[i] \in S
      BY <1>0, <2>1, ElementOfSeq
    <3> QED BY <3>1, SubSeqProperties
  <2>4. /\ b \in Seq(S) /\ Len(b) = n - k
        /\ \A i \in 1..(n - k) : b[i] = s[k + i]
    <3>0. n \in Nat /\ k \in 1..n
      BY <1>0, <2>1
    <3>1. \A i \in (k + 1)..n : s[i] \in S
      BY <3>0, ElementOfSeq
    <3>2. /\ b \in Seq(S) /\ Len(b) = IF k + 1 <= n THEN n - (k + 1) + 1 ELSE 0
          /\ \A i \in 1..(n - (k + 1) + 1) : b[i] = s[(k + 1) + i - 1]
      BY <3>0, <3>1, SubSeqProperties
    <3> HIDE DEF b, n
    <3>3. Len(b) = n - k
      BY <3>0, <3>2
    <3>4. ASSUME NEW i \in 1..(n - k) PROVE b[i] = s[k + i]
      BY <3>0, <3>2
    <3> QED BY <3>2, <3>3, <3>4
  <2> HIDE DEF a, b
  <2>5. /\ t \in Seq(S) /\ Len(t) = n - 1 /\ DOMAIN t = 1..(n - 1)
        /\ \A i \in 1..(n - 1) : t[i] = IF i < k THEN s[i] ELSE s[i + 1]
    <3>1. /\ t \in Seq(S) /\ Len(t) = Len(a) + Len(b)
          /\ \A i \in 1..(Len(a) + Len(b)) :
               t[i] = IF i <= Len(a) THEN a[i] ELSE b[i - Len(a)]
      BY <2>3, <2>4, ConcatProperties
    <3>2. k \in 1..n /\ n \in Nat
      BY <1>0, <2>1
    <3>3. Len(t) = n - 1 /\ DOMAIN t = 1..(n - 1)
      BY <2>3, <2>4, <3>1, <3>2, LenProperties
    <3>4. ASSUME NEW i \in 1..(n - 1)
          PROVE  t[i] = IF i < k THEN s[i] ELSE s[i + 1]
      <4>1. t[i] = IF i <= k - 1 THEN a[i] ELSE b[i - (k - 1)]
        BY <2>3, <2>4, <3>1, <3>2
      <4>2. CASE i < k
        BY <2>3, <3>2, <4>1, <4>2
      <4>3. CASE ~(i < k)
        <5>1. i - (k - 1) \in 1..(n - k) /\ k + (i - (k - 1)) = i + 1
          BY <3>2, <4>3
        <5> QED BY <2>4, <3>2, <4>1, <4>3, <5>1
      <4> QED BY <4>2, <4>3
    <3> QED BY <3>1, <3>3, <3>4
  <2> HIDE DEF t
  <2>6. ToSet(t) = ToSet(s) \ {x}
    <3>1. ASSUME NEW i \in DOMAIN t PROVE t[i] \in ToSet(s) \ {x}
      <4>1. PICK j \in DOMAIN s : t[i] = s[j] /\ j # k
        BY <1>0, <2>1, <2>5
      <4> QED BY <2>1, <4>1 DEF ToSet, NoRepeats
    <3>2. ASSUME NEW i \in DOMAIN s, s[i] # x PROVE s[i] \in ToSet(t)
      <4>1. i # k
        BY <2>1, <3>2
      <4>2. CASE i < k
        <5>1. i \in DOMAIN t /\ t[i] = s[i]
          BY <1>0, <2>1, <2>5, <4>2
        <5> QED BY <5>1 DEF ToSet
      <4>3. CASE i > k
        <5>1. i - 1 \in DOMAIN t /\ t[i - 1] = s[i]
          BY <1>0, <2>1, <2>5, <4>3
        <5> QED BY <5>1 DEF ToSet
      <4> QED BY <1>0, <2>1, <4>1, <4>2, <4>3
    <3> QED BY <3>1, <3>2 DEF ToSet
  <2>7. NoRepeats(t)
    <3> SUFFICES ASSUME NEW i \in DOMAIN t, NEW j \in DOMAIN t, t[i] = t[j] PROVE i = j
      BY DEF NoRepeats
    <3> DEFINE p == IF i < k THEN i ELSE i + 1
               q == IF j < k THEN j ELSE j + 1
    <3>1. p \in DOMAIN s /\ q \in DOMAIN s /\ s[p] = s[q]
      BY <1>0, <2>1, <2>5
    <3>2. p = q
      BY <3>1 DEF NoRepeats
    <3> QED BY <1>0, <2>1, <2>5, <3>2
  <2>8. ASSUME NEW i \in DOMAIN t
        PROVE  \E m \in DOMAIN s : s[m] = t[i] /\ Len(t) - i <= Len(s) - m
    <3> DEFINE p == IF i < k THEN i ELSE i + 1
    <3>1. p \in DOMAIN s /\ s[p] = t[i] /\ Len(t) - i <= Len(s) - p
      BY <1>0, <2>1, <2>5
    <3> QED BY <3>1
  <2> QED BY <1>0, <2>1, <2>2, <2>5, <2>6, <2>7, <2>8
<1> QED BY <1>1, <1>2
(***************************************************************************)
(* The inductive invariant: the fields agree, and every entry belongs to   *)
(* an id that was registered, so that a fresh id meets no old entry.       *)
(***************************************************************************)
EntriesRegistered == \A id \in Ids : status[id] # "absent" => id \in registered

TableInv == TableTypeOK /\ TableConsistent /\ TokenMatchesStatus /\ EntriesRegistered

\* tombstone() of an id without a tombstone keeps the deque and the set equal,
\* free of repeats and within the cap.
LEMMA TombstoneKept ==
  ASSUME TableInv, NEW id \in Ids, id \notin expiredSet, Tombstone(id)
  PROVE  /\ expired' \in Seq(Ids)
         /\ expiredSet' \subseteq expiredSet \cup {id}
         /\ ToSet(expired') = expiredSet'
         /\ NoRepeats(expired')
         /\ Len(expired') <= TombstoneCap
<1> DEFINE pushed == Append(expired, id)
<1>1. /\ expired \in Seq(Ids) /\ ToSet(expired) = expiredSet /\ NoRepeats(expired)
      /\ Len(expired) <= TombstoneCap /\ TombstoneCap \in Nat
  BY TombstoneCapAssumption DEF TableInv, TableTypeOK, TableConsistent
<1>2. /\ pushed \in Seq(Ids) /\ Len(pushed) = Len(expired) + 1
      /\ ToSet(pushed) = expiredSet \cup {id} /\ NoRepeats(pushed)
  BY <1>1, AppendNoRepeats
<1>3. Len(expired) \in Nat
  BY <1>1, LenProperties
<1> HIDE DEF pushed
<1>4. CASE Len(pushed) > TombstoneCap
  <2>1. /\ expired' = Tail(pushed)
        /\ expiredSet' = (expiredSet \cup {id}) \ {Head(pushed)}
    BY <1>4 DEF Tombstone, pushed
  <2>2. /\ Tail(pushed) \in Seq(Ids) /\ Len(Tail(pushed)) = Len(pushed) - 1
        /\ ToSet(Tail(pushed)) = ToSet(pushed) \ {Head(pushed)}
        /\ NoRepeats(Tail(pushed))
    BY <1>2, <1>3, TailNoRepeats
  <2>3. Len(Tail(pushed)) <= TombstoneCap
    BY <1>1, <1>2, <1>3, <2>2
  <2> QED BY <1>2, <2>1, <2>2, <2>3
<1>5. CASE ~(Len(pushed) > TombstoneCap)
  <2>1. expired' = pushed /\ expiredSet' = expiredSet \cup {id}
    BY <1>5 DEF Tombstone, pushed
  <2> QED BY <1>1, <1>2, <1>3, <1>5, <2>1
<1> QED BY <1>4, <1>5

LEMMA TableInvInit == TableInit => TableInv
<1> SUFFICES ASSUME TableInit PROVE TableInv
  OBVIOUS
<1>1. <<>> \in Seq(Ids) /\ Len(<<>>) = 0 /\ ToSet(<<>>) = {} /\ NoRepeats(<<>>)
  BY EmptySeq DEF ToSet, NoRepeats
<1>2. TableTypeOK
  BY <1>1 DEF TableInit, TableTypeOK, Statuses
<1>3. TableConsistent
  BY <1>1, RetentionAssumption, TombstoneCapAssumption
  DEF TableInit, TableConsistent, Outcomes
<1>4. TokenMatchesStatus /\ EntriesRegistered
  BY DEF TableInit, TokenMatchesStatus, EntriesRegistered, Active, Pending
<1> QED BY <1>2, <1>3, <1>4 DEF TableInv
\* Methods that touch neither queue keep them consistent, provided no entry
\* starts or stops being finished and no tombstone gets an entry.
LEMMA QueuesUntouched ==
  ASSUME TableInv, UNCHANGED <<fifo, expired, expiredSet>>,
         \A id \in Ids : /\ status'[id] \in Outcomes <=> status[id] \in Outcomes
                         /\ status[id] \in Outcomes => retained'[id] = retained[id]
                         /\ id \in expiredSet => status'[id] = status[id],
         registered \subseteq registered'
  PROVE  TableConsistent'
<1>1. TableConsistent
  BY DEF TableInv
<1>2. ToSet(fifo') = {id \in Ids : status'[id] \in Outcomes}
  BY <1>1 DEF TableConsistent
<1>3. \A id \in ToSet(fifo') : retained'[id]
  BY <1>1, <1>2 DEF TableConsistent
<1>4. /\ NoRepeats(fifo') /\ Len(fifo') <= Retention
      /\ ToSet(expired') = expiredSet' /\ NoRepeats(expired')
      /\ Len(expired') <= TombstoneCap
  BY <1>1 DEF TableConsistent
<1>5. \A id \in expiredSet' : status'[id] = "absent" /\ id \in registered'
  BY <1>1 DEF TableConsistent, TableInv, TableTypeOK
<1> QED BY <1>2, <1>3, <1>4, <1>5 DEF TableConsistent

\* register() of a fresh id.
LEMMA RegisterKept ==
  ASSUME TableInv, NEW id \in Ids, id \notin registered,
         NEW keep \in BOOLEAN, Register(id, keep)
  PROVE  TableInv'
<1>1. status[id] = "absent" /\ id \notin expiredSet
  BY DEF TableInv, EntriesRegistered, TableConsistent
<1>2. TableTypeOK'
  BY DEF TableInv, TableTypeOK, Register, Statuses, Active, Pending
<1>3. TableConsistent'
  <2>1. \A x \in Ids : /\ status'[x] \in Outcomes <=> status[x] \in Outcomes
                       /\ status[x] \in Outcomes => retained'[x] = retained[x]
                       /\ x \in expiredSet => status'[x] = status[x]
    BY <1>1 DEF TableInv, TableTypeOK, Register, Outcomes
  <2>2. UNCHANGED <<fifo, expired, expiredSet>> /\ registered \subseteq registered'
    BY DEF Register
  <2> QED BY <2>1, <2>2, QueuesUntouched
<1>4. TokenMatchesStatus'
  BY DEF TableInv, TableTypeOK, TokenMatchesStatus, Register, Active, Pending
<1>5. EntriesRegistered'
  BY DEF TableInv, TableTypeOK, EntriesRegistered, Register
<1> QED BY <1>2, <1>3, <1>4, <1>5 DEF TableInv

\* mark_running(), forget() and complete() of an unretained operation, and the
\* two cancellations: they move active entries only.
LEMMA ActiveMoveKept ==
  ASSUME TableInv, UNCHANGED <<retained, fifo, expired, expiredSet, registered>>,
         status' \in [Ids -> Statuses], token' \in [Ids -> BOOLEAN],
         consumed' \subseteq Ids, completed' \in Seq(Ids),
         \A id \in Ids : \/ status'[id] = status[id] /\ token'[id] = token[id]
                         \/ /\ status[id] \in Active
                            /\ status'[id] \in Active \cup {"absent"}
                            /\ token'[id] <=> status'[id] = "cancelling"
                         \/ status[id] \in Active /\ status'[id] = "absent"
  PROVE  TableInv'
<1>1. TableTypeOK'
  BY DEF TableInv, TableTypeOK
<1>2. TableConsistent'
  <2>1. \A id \in Ids : /\ status'[id] \in Outcomes <=> status[id] \in Outcomes
                        /\ id \in expiredSet => status'[id] = status[id]
    BY DEF TableInv, TableConsistent, Outcomes, Active, Pending
  <2> QED BY <2>1, QueuesUntouched
<1>3. TokenMatchesStatus'
  BY DEF TableInv, TokenMatchesStatus, Active, Pending
<1>4. EntriesRegistered'
  BY DEF TableInv, EntriesRegistered, Active, Pending
<1> QED BY <1>1, <1>2, <1>3, <1>4 DEF TableInv

\* complete() of a retained operation with room in the window.
LEMMA CompleteRetainedKept ==
  ASSUME TableInv, NEW id \in Ids, status[id] \in Active,
         NEW outcome \in Outcomes, CompleteRetained(id, outcome)
  PROVE  TableInv'
<1>1. id \notin ToSet(fifo) /\ id \notin expiredSet /\ Len(fifo) \in Nat
  BY LenProperties DEF TableInv, TableTypeOK, TableConsistent, Active, Pending, Outcomes
<1>2. /\ fifo' \in Seq(Ids) /\ Len(fifo') = Len(fifo) + 1
      /\ ToSet(fifo') = ToSet(fifo) \cup {id} /\ NoRepeats(fifo')
  BY <1>1, AppendNoRepeats DEF TableInv, TableTypeOK, TableConsistent, CompleteRetained
<1>3. completed' \in Seq(Ids)
  BY AppendNoRepeats DEF TableInv, TableTypeOK, CompleteRetained
<1>4. status' = [status EXCEPT ![id] = outcome] /\ outcome \in Statuses
  BY DEF CompleteRetained, Statuses
<1>5. TableTypeOK'
  BY <1>2, <1>3, <1>4 DEF TableInv, TableTypeOK, CompleteRetained
<1>6. TableConsistent'
  <2>1. ToSet(fifo') = {x \in Ids : status'[x] \in Outcomes}
    BY <1>2, <1>4 DEF TableInv, TableTypeOK, TableConsistent
  <2>2. Len(fifo') <= Retention
    BY <1>1, <1>2, RetentionAssumption DEF CompleteRetained
  <2>3. \A x \in ToSet(fifo') : retained'[x]
    BY <1>2 DEF TableInv, TableConsistent, CompleteRetained
  <2>4. \A x \in expiredSet' : status'[x] = "absent" /\ x \in registered'
    BY <1>1, <1>4 DEF TableInv, TableTypeOK, TableConsistent, CompleteRetained
  <2> QED BY <1>2, <2>1, <2>2, <2>3, <2>4 DEF TableInv, TableConsistent, CompleteRetained
<1>7. TokenMatchesStatus'
  BY <1>4 DEF TableInv, TableTypeOK, TokenMatchesStatus, CompleteRetained, Active, Pending, Outcomes
<1>8. EntriesRegistered'
  BY <1>4 DEF TableInv, TableTypeOK, EntriesRegistered, CompleteRetained, Active, Pending
<1> QED BY <1>5, <1>6, <1>7, <1>8 DEF TableInv

\* complete() of a retained operation that evicts the oldest completion.
LEMMA CompleteEvictingKept ==
  ASSUME TableInv, NEW id \in Ids, status[id] \in Active,
         NEW outcome \in Outcomes, CompleteEvicting(id, outcome)
  PROVE  TableInv'
<1> DEFINE pushed  == Append(fifo, id)
           evicted == Head(pushed)
<1>1. /\ id \notin ToSet(fifo) /\ id \notin expiredSet
      /\ Len(fifo) = Retention /\ Retention \in Nat
  <2>1. Len(fifo) \in Nat /\ Len(fifo) <= Retention /\ Len(fifo) >= Retention
    BY LenProperties DEF TableInv, TableTypeOK, TableConsistent, CompleteEvicting
  <2> QED BY <2>1, RetentionAssumption
          DEF TableInv, TableTypeOK, TableConsistent, Active, Pending, Outcomes
<1>2. /\ pushed \in Seq(Ids) /\ Len(pushed) = Retention + 1
      /\ ToSet(pushed) = ToSet(fifo) \cup {id} /\ NoRepeats(pushed)
  BY <1>1, AppendNoRepeats DEF TableInv, TableTypeOK, TableConsistent
<1>3. /\ fifo' = Tail(pushed) /\ Tombstone(evicted)
      /\ status' = [[status EXCEPT ![id] = outcome] EXCEPT ![evicted] = "absent"]
      /\ completed' = Append(completed, id)
      /\ UNCHANGED <<retained, token, registered, consumed>>
      /\ retained[id]
  BY DEF CompleteEvicting
<1> HIDE DEF pushed
<1>4. /\ fifo' \in Seq(Ids) /\ Len(fifo') = Retention
      /\ evicted \in Ids /\ evicted \in ToSet(fifo) \cup {id}
      /\ ToSet(fifo') = (ToSet(fifo) \cup {id}) \ {evicted} /\ NoRepeats(fifo')
  BY <1>1, <1>2, <1>3, TailNoRepeats
<1> HIDE DEF evicted
<1>5. evicted \notin expiredSet /\ evicted \in registered
  BY <1>1, <1>4 DEF TableInv, TableTypeOK, TableConsistent, EntriesRegistered, Outcomes, Active, Pending
<1>6. /\ expired' \in Seq(Ids) /\ expiredSet' \subseteq expiredSet \cup {evicted}
      /\ ToSet(expired') = expiredSet' /\ NoRepeats(expired')
      /\ Len(expired') <= TombstoneCap
  BY <1>3, <1>4, <1>5, TombstoneKept
<1>7. \A x \in Ids : status'[x] = IF x = evicted THEN "absent"
                                  ELSE IF x = id THEN outcome ELSE status[x]
  BY <1>3, <1>4 DEF TableInv, TableTypeOK
<1>8. TableTypeOK'
  <2>1. completed' \in Seq(Ids)
    BY <1>3, AppendNoRepeats DEF TableInv, TableTypeOK
  <2>2. status' \in [Ids -> Statuses]
    BY <1>3, <1>4 DEF TableInv, TableTypeOK, Statuses
  <2>3. expiredSet' \subseteq Ids
    BY <1>4, <1>6 DEF TableInv, TableTypeOK
  <2> QED BY <1>3, <1>4, <1>6, <2>1, <2>2, <2>3 DEF TableInv, TableTypeOK
<1>9. TableConsistent'
  <2>1. ToSet(fifo') = {x \in Ids : status'[x] \in Outcomes}
    <3>1. ToSet(fifo) = {x \in Ids : status[x] \in Outcomes} /\ "absent" \notin Outcomes
      BY DEF TableInv, TableConsistent, Outcomes
    <3> QED BY <1>4, <1>7, <3>1
  <2>2. \A x \in ToSet(fifo') : retained'[x]
    BY <1>3, <1>4 DEF TableInv, TableConsistent
  <2>3. \A x \in expiredSet' : status'[x] = "absent" /\ x \in registered'
    BY <1>1, <1>3, <1>5, <1>6, <1>7 DEF TableInv, TableTypeOK, TableConsistent
  <2> QED BY <1>1, <1>4, <1>6, <2>1, <2>2, <2>3 DEF TableConsistent
<1>10. TokenMatchesStatus'
  BY <1>3, <1>7 DEF TableInv, TableTypeOK, TokenMatchesStatus, Active, Pending, Outcomes
<1>11. EntriesRegistered'
  BY <1>3, <1>7 DEF TableInv, TableTypeOK, EntriesRegistered, Active, Pending
<1> QED BY <1>8, <1>9, <1>10, <1>11 DEF TableInv

\* take_result() of a finished operation.
LEMMA TakeOutcomeKept ==
  ASSUME TableInv, NEW id \in Ids, TakeOutcome(id)
  PROVE  TableInv'
<1>1. /\ id \in ToSet(fifo) /\ id \notin expiredSet /\ id \in registered
      /\ Len(fifo) \in Nat
  BY LenProperties
  DEF TableInv, TableTypeOK, TableConsistent, EntriesRegistered, TakeOutcome, Outcomes
<1>2. /\ fifo' \in Seq(Ids) /\ Len(fifo') <= Len(fifo)
      /\ ToSet(fifo') = ToSet(fifo) \ {id} /\ NoRepeats(fifo')
  BY WithoutNoRepeats DEF TableInv, TableTypeOK, TableConsistent, TakeOutcome
<1>3. /\ expired' \in Seq(Ids) /\ expiredSet' \subseteq expiredSet \cup {id}
      /\ ToSet(expired') = expiredSet' /\ NoRepeats(expired')
      /\ Len(expired') <= TombstoneCap
  BY <1>1, TombstoneKept DEF TakeOutcome
<1>4. \A x \in Ids : status'[x] = IF x = id THEN "absent" ELSE status[x]
  BY DEF TableInv, TableTypeOK, TakeOutcome
<1>5. TableTypeOK'
  BY <1>2, <1>3 DEF TableInv, TableTypeOK, TakeOutcome, Statuses
<1>6. TableConsistent'
  <2>1. ToSet(fifo') = {x \in Ids : status'[x] \in Outcomes}
    <3>1. ToSet(fifo) = {x \in Ids : status[x] \in Outcomes} /\ "absent" \notin Outcomes
      BY DEF TableInv, TableConsistent, Outcomes
    <3> QED BY <1>2, <1>4, <3>1
  <2>2. Len(fifo') <= Retention
    <3>1. Len(fifo) <= Retention
      BY DEF TableInv, TableConsistent
    <3> QED BY <1>1, <1>2, <3>1, RetentionAssumption, LenProperties
  <2>3. \A x \in ToSet(fifo') : retained'[x]
    BY <1>2 DEF TableInv, TableConsistent, TakeOutcome
  <2>4. \A x \in expiredSet' : status'[x] = "absent" /\ x \in registered'
    BY <1>1, <1>3, <1>4 DEF TableInv, TableTypeOK, TableConsistent, TakeOutcome
  <2> QED BY <1>2, <1>3, <2>1, <2>2, <2>3, <2>4 DEF TableConsistent
<1>7. TokenMatchesStatus'
  BY <1>4 DEF TableInv, TableTypeOK, TokenMatchesStatus, TakeOutcome, Active, Pending
<1>8. EntriesRegistered'
  BY <1>4 DEF TableInv, EntriesRegistered, TakeOutcome
<1> QED BY <1>5, <1>6, <1>7, <1>8 DEF TableInv

\* take_result() of a tombstone.
LEMMA TakeTombstoneKept ==
  ASSUME TableInv, NEW id \in Ids, TakeTombstone(id)
  PROVE  TableInv'
<1>1. /\ expired' \in Seq(Ids) /\ Len(expired') <= Len(expired)
      /\ ToSet(expired') = ToSet(expired) \ {id} /\ NoRepeats(expired')
  BY WithoutNoRepeats DEF TableInv, TableTypeOK, TableConsistent, TakeTombstone
<1>2. expiredSet' = expiredSet \ {id} /\ ToSet(expired') = expiredSet'
  BY <1>1 DEF TableInv, TableConsistent, TakeTombstone
<1>3. Len(expired') <= TombstoneCap
  <2>1. Len(expired) \in Nat /\ Len(expired') \in Nat /\ Len(expired) <= TombstoneCap
    BY <1>1, LenProperties DEF TableInv, TableTypeOK, TableConsistent
  <2> QED BY <1>1, <2>1, TombstoneCapAssumption
<1>4. TableTypeOK'
  BY <1>1, <1>2 DEF TableInv, TableTypeOK, TakeTombstone
<1>5. TableConsistent'
  BY <1>1, <1>2, <1>3 DEF TableInv, TableConsistent, TakeTombstone
<1>6. TokenMatchesStatus' /\ EntriesRegistered'
  BY DEF TableInv, TokenMatchesStatus, EntriesRegistered, TakeTombstone
<1> QED BY <1>4, <1>5, <1>6 DEF TableInv
\* Every method preserves the invariant.
LEMMA TableInvStep == TableInv /\ [TableNext]_tableVars => TableInv'
<1> SUFFICES ASSUME TableInv, [TableNext]_tableVars PROVE TableInv'
  OBVIOUS
<1>0. TableTypeOK
  BY DEF TableInv
<1>1. CASE CancelAll
  <2>1. \A id \in Ids : \/ status'[id] = status[id] /\ token'[id] = token[id]
                        \/ status[id] \in Active /\ status'[id] = "cancelling" /\ token'[id]
    BY <1>0, <1>1 DEF CancelAll, TableTypeOK, Active, Pending
  <2>2. status' \in [Ids -> Statuses] /\ token' \in [Ids -> BOOLEAN]
    BY <1>0, <1>1 DEF CancelAll, TableTypeOK, Statuses, Active, Pending
  <2> QED BY <1>0, <1>1, <2>1, <2>2, ActiveMoveKept DEF CancelAll, Active, TableTypeOK
<1>2. ASSUME NEW id \in Ids, Step(id) PROVE TableInv'
  <2>1. ASSUME id \notin registered, NEW keep \in BOOLEAN, Register(id, keep)
        PROVE  TableInv'
    BY <2>1, RegisterKept
  <2>2. CASE MarkRunning(id)
    <3>1. \A x \in Ids : \/ status'[x] = status[x] /\ token'[x] = token[x]
                         \/ /\ status[x] \in Active
                            /\ status'[x] \in Active \cup {"absent"}
                            /\ token'[x] <=> status'[x] = "cancelling"
      BY <1>0, <2>2 DEF MarkRunning, TableTypeOK, Active, Pending
    <3>2. status' \in [Ids -> Statuses] /\ token' \in [Ids -> BOOLEAN]
      BY <1>0, <2>2 DEF MarkRunning, TableTypeOK, Statuses, Active, Pending
    <3> QED BY <1>0, <2>2, <3>1, <3>2, ActiveMoveKept DEF MarkRunning, TableTypeOK
  <2>3. ASSUME status[id] \in Active, NEW outcome \in Outcomes, Complete(id, outcome)
        PROVE  TableInv'
    <3>1. CASE CompleteUnretained(id)
      <4>1. \A x \in Ids : \/ status'[x] = status[x] /\ token'[x] = token[x]
                           \/ status[x] \in Active /\ status'[x] = "absent"
        BY <1>0, <2>3, <3>1 DEF CompleteUnretained, TableTypeOK
      <4>2. status' \in [Ids -> Statuses] /\ token' \in [Ids -> BOOLEAN]
        BY <1>0, <3>1 DEF CompleteUnretained, TableTypeOK, Statuses
      <4> QED BY <1>0, <3>1, <4>1, <4>2, ActiveMoveKept DEF CompleteUnretained, TableTypeOK
    <3>2. CASE CompleteRetained(id, outcome)
      BY <2>3, <3>2, CompleteRetainedKept
    <3>3. CASE CompleteEvicting(id, outcome)
      BY <2>3, <3>3, CompleteEvictingKept
    <3> QED BY <2>3, <3>1, <3>2, <3>3 DEF Complete
  <2>4. CASE status[id] \in Active /\ Forget(id)
    <3>1. \A x \in Ids : \/ status'[x] = status[x] /\ token'[x] = token[x]
                         \/ status[x] \in Active /\ status'[x] = "absent"
      BY <1>0, <2>4 DEF Forget, TableTypeOK
    <3>2. status' \in [Ids -> Statuses] /\ token' \in [Ids -> BOOLEAN]
      BY <1>0, <2>4 DEF Forget, TableTypeOK, Statuses
    <3> QED BY <1>0, <2>4, <3>1, <3>2, ActiveMoveKept DEF Forget, TableTypeOK
  <2>5. CASE TakeResult(id)
    BY <2>5, TakeOutcomeKept, TakeTombstoneKept DEF TakeResult
  <2>6. CASE CancelOperation(id)
    <3>1. \A x \in Ids : \/ status'[x] = status[x] /\ token'[x] = token[x]
                         \/ status[x] \in Active /\ status'[x] = "cancelling" /\ token'[x]
      BY <1>0, <2>6 DEF CancelOperation, TableTypeOK, Active, Pending
    <3>2. status' \in [Ids -> Statuses] /\ token' \in [Ids -> BOOLEAN]
      BY <1>0, <2>6 DEF CancelOperation, TableTypeOK, Statuses, Active, Pending
    <3> QED BY <1>0, <2>6, <3>1, <3>2, ActiveMoveKept
            DEF CancelOperation, Active, TableTypeOK
  <2> QED BY <1>2, <2>1, <2>2, <2>3, <2>4, <2>5, <2>6 DEF Step
<1>3. CASE UNCHANGED tableVars
  BY <1>3 DEF tableVars, TableInv, TableTypeOK, TableConsistent, TokenMatchesStatus,
              EntriesRegistered
<1> QED BY <1>1, <1>2, <1>3 DEF TableNext

\* The entries, the retention queue and the two copies of the tombstones agree,
\* and a token is set exactly when its active entry says Cancelling, whatever
\* the order of calls (operation.rs:117-253).
THEOREM TableSafe ==
  TableSpec => [](TableTypeOK /\ TableConsistent /\ TokenMatchesStatus)
<1>1. TableInv => TableTypeOK /\ TableConsistent /\ TokenMatchesStatus
  BY DEF TableInv
<1> QED BY TableInvInit, TableInvStep, <1>1, PTL DEF TableSpec

\* The limits hold too: neither the retained results nor the tombstones ever
\* outgrow them (operation.rs:153-161, 242-253).
THEOREM TableTyped == TableSpec => []TableTypeOK
BY TableSafe, PTL

\* A worker that polls its token sees a cancellation exactly while the table says
\* that its operation is being cancelled (operation.rs:128-139, 222-235).
THEOREM TokensMatch == TableSpec => []TokenMatchesStatus
BY TableSafe, PTL

(***************************************************************************)
(* Outcomes are final and are handed out once.                             *)
(***************************************************************************)

LEMMA OutcomeStep ==
  ASSUME TableInv, [TableNext]_tableVars
  PROVE  /\ \A id \in Ids : status[id] \in Outcomes => status'[id] \in {status[id], "absent"}
         /\ \A id \in registered : status[id] = "absent" => status'[id] = "absent"
<1> USE DEF TableInv, TableTypeOK, Active, Pending, Outcomes
<1>1. CASE CancelAll
  BY <1>1 DEF CancelAll
<1>2. ASSUME NEW id \in Ids, Step(id)
      PROVE  /\ \A x \in Ids : status[x] \in Outcomes => status'[x] \in {status[x], "absent"}
             /\ \A x \in registered : status[x] = "absent" => status'[x] = "absent"
  <2>1. ASSUME id \notin registered, NEW keep \in BOOLEAN, Register(id, keep)
        PROVE  /\ status[id] = "absent" /\ id \notin registered
               /\ \A x \in Ids : x # id => status'[x] = status[x]
    BY <2>1 DEF Register, EntriesRegistered
  <2>2. CASE MarkRunning(id)
    BY <2>2 DEF MarkRunning
  <2>3. ASSUME status[id] \in Active, NEW outcome \in Outcomes, Complete(id, outcome)
        PROVE  \A x \in Ids : x # id => status'[x] \in {status[x], "absent"}
    <3>1. CASE CompleteUnretained(id)
      BY <3>1 DEF CompleteUnretained
    <3>2. CASE CompleteRetained(id, outcome)
      BY <3>2 DEF CompleteRetained
    <3>3. CASE CompleteEvicting(id, outcome)
      BY <3>3 DEF CompleteEvicting
    <3> QED BY <2>3, <3>1, <3>2, <3>3 DEF Complete
  <2>4. CASE status[id] \in Active /\ Forget(id)
    BY <2>4 DEF Forget
  <2>5. CASE TakeResult(id)
    BY <2>5 DEF TakeResult, TakeOutcome, TakeTombstone
  <2>6. CASE CancelOperation(id)
    BY <2>6 DEF CancelOperation
  <2> QED BY <1>2, <2>1, <2>2, <2>3, <2>4, <2>5, <2>6 DEF Step
<1>3. CASE UNCHANGED tableVars
  BY <1>3 DEF tableVars
<1> QED BY <1>1, <1>2, <1>3 DEF TableNext

\* take_result hands an outcome out at most once: no call brings back an entry
\* that left the table (operation.rs:176-197).
THEOREM HandedOutOnce == TableSpec => ConsumedOnce
<1>1. TableInv /\ [TableNext]_tableVars
        => [\A id \in registered : status[id] = "absent" => status'[id] = "absent"]_tableVars
  BY OutcomeStep
<1> QED BY <1>1, TableInvInit, TableInvStep, PTL DEF TableSpec, ConsumedOnce

\* A recorded outcome never changes: a late cancellation or a second look at
\* the operation leaves it as it is (operation.rs:129-139, 208-235).
THEOREM OutcomesAreFinal == TableSpec => OutcomeFinal
<1>1. TableInv /\ [TableNext]_tableVars
        => [\A id \in Ids : status[id] \in Outcomes
                            => status'[id] \in {status[id], "absent"}]_tableVars
  BY OutcomeStep
<1> QED BY <1>1, TableInvInit, TableInvStep, PTL DEF TableSpec, OutcomeFinal
(***************************************************************************)
(* The retention window.  WindowKept alone is not inductive: an eviction   *)
(* takes the head of completed_fifo, so one must know how far back in the  *)
(* order of completion the entries of the queue can lie.  An entry with k  *)
(* entries behind it in the queue has at least k later completions.        *)
(***************************************************************************)
QueueFollowsCompletion ==
  \A a \in DOMAIN fifo : \A i \in DOMAIN completed :
    completed[i] = fifo[a] => Len(fifo) - a <= Len(completed) - i

WindowInv ==
  /\ TableInv
  /\ WindowKept
  /\ QueueFollowsCompletion
  /\ NoRepeats(completed)
  /\ \A id \in ToSet(completed) : id \in registered /\ status[id] \notin Active

\* A step that leaves both queues alone and only moves or drops entries that
\* have not finished keeps the window.
LEMMA WindowUntouched ==
  ASSUME WindowInv, TableInv', UNCHANGED <<fifo, completed, consumed>>,
         registered \subseteq registered',
         \A id \in ToSet(completed) : status'[id] = status[id]
  PROVE  WindowInv'
<1>1. \A i \in DOMAIN completed : completed[i] \in ToSet(completed)
  BY DEF ToSet
<1>2. WindowKept'
  BY <1>1 DEF WindowInv, WindowKept
<1>3. QueueFollowsCompletion'
  BY DEF WindowInv, QueueFollowsCompletion
<1> QED BY <1>2, <1>3 DEF WindowInv

\* Pushing a completion on both sequences keeps the distance to the end.
LEMMA PushKeepsOrder ==
  ASSUME WindowInv, NEW id \in Ids, id \notin ToSet(completed), id \notin ToSet(fifo)
  PROVE  \A a \in DOMAIN Append(fifo, id) : \A i \in DOMAIN Append(completed, id) :
           Append(completed, id)[i] = Append(fifo, id)[a]
             => Len(Append(fifo, id)) - a <= Len(Append(completed, id)) - i
<1> DEFINE p == Append(fifo, id)
           c == Append(completed, id)
<1>1. /\ fifo \in Seq(Ids) /\ completed \in Seq(Ids)
      /\ Len(fifo) \in Nat /\ Len(completed) \in Nat
      /\ DOMAIN fifo = 1..Len(fifo) /\ DOMAIN completed = 1..Len(completed)
  BY LenProperties DEF WindowInv, TableInv, TableTypeOK
<1>2. /\ Len(p) = Len(fifo) + 1 /\ DOMAIN p = 1..(Len(fifo) + 1)
      /\ \A a \in 1..Len(fifo) : p[a] = fifo[a]
      /\ p[Len(fifo) + 1] = id
  BY <1>1, AppendProperties, LenProperties
<1>3. /\ Len(c) = Len(completed) + 1 /\ DOMAIN c = 1..(Len(completed) + 1)
      /\ \A i \in 1..Len(completed) : c[i] = completed[i]
      /\ c[Len(completed) + 1] = id
  BY <1>1, AppendProperties, LenProperties
<1>4. /\ \A a \in 1..Len(fifo) : fifo[a] # id
      /\ \A i \in 1..Len(completed) : completed[i] # id
  BY <1>1 DEF ToSet
<1> HIDE DEF p, c
<1>5. ASSUME NEW a \in DOMAIN p, NEW i \in DOMAIN c, c[i] = p[a]
      PROVE  Len(p) - a <= Len(c) - i
  <2>1. CASE a = Len(fifo) + 1
    <3>1. i = Len(completed) + 1
      BY <1>1, <1>2, <1>3, <1>4, <1>5, <2>1
    <3> QED BY <1>1, <1>2, <1>3, <2>1, <3>1
  <2>2. CASE a \in 1..Len(fifo)
    <3>1. i \in 1..Len(completed)
      BY <1>1, <1>2, <1>3, <1>4, <1>5, <2>2
    <3>2. completed[i] = fifo[a]
      BY <1>2, <1>3, <1>5, <2>2, <3>1
    <3>3. Len(fifo) - a <= Len(completed) - i
      BY <1>1, <2>2, <3>1, <3>2 DEF WindowInv, QueueFollowsCompletion
    <3> QED BY <1>1, <1>2, <1>3, <2>2, <3>1, <3>3
  <2> QED BY <1>1, <1>2, <2>1, <2>2
<1> QED BY <1>5 DEF p, c

\* complete() of a retained operation, with or without an eviction.
LEMMA CompletionKeepsWindow ==
  ASSUME WindowInv, TableInv', NEW id \in Ids, status[id] \in Active,
         NEW outcome \in Outcomes,
         CompleteRetained(id, outcome) \/ CompleteEvicting(id, outcome)
  PROVE  WindowInv'
<1> DEFINE p == Append(fifo, id)
           c == Append(completed, id)
           evicted == Head(p)
<1>1. /\ fifo \in Seq(Ids) /\ completed \in Seq(Ids)
      /\ Len(fifo) \in Nat /\ Len(completed) \in Nat
      /\ DOMAIN fifo = 1..Len(fifo) /\ DOMAIN completed = 1..Len(completed)
      /\ Retention \in Nat
      /\ status \in [Ids -> Statuses]
  BY LenProperties, RetentionAssumption DEF WindowInv, TableInv, TableTypeOK
<1>2. id \notin ToSet(completed) /\ id \notin ToSet(fifo) /\ id \in registered
  BY DEF WindowInv, TableInv, TableConsistent, EntriesRegistered, Active, Pending, Outcomes
<1>3. /\ c \in Seq(Ids) /\ Len(c) = Len(completed) + 1 /\ DOMAIN c = 1..(Len(completed) + 1)
      /\ \A i \in 1..Len(completed) : c[i] = completed[i]
      /\ c[Len(completed) + 1] = id
      /\ NoRepeats(c) /\ ToSet(c) = ToSet(completed) \cup {id}
  BY <1>1, <1>2, AppendProperties, LenProperties, AppendNoRepeats DEF WindowInv
<1>4. /\ p \in Seq(Ids) /\ Len(p) = Len(fifo) + 1 /\ DOMAIN p = 1..(Len(fifo) + 1)
      /\ p # <<>>
  BY <1>1, AppendProperties, LenProperties
<1>5. \A a \in DOMAIN p : \A i \in DOMAIN c : c[i] = p[a] => Len(p) - a <= Len(c) - i
  BY <1>2, PushKeepsOrder
<1>6. /\ completed' = c /\ UNCHANGED <<registered, consumed>>
  BY DEF CompleteRetained, CompleteEvicting
<1> HIDE DEF p, c
<1>7. \A i \in 1..Len(completed) :
        i > Len(c) - Retention
          => completed[i] \in consumed \/ status[completed[i]] \in Outcomes
  BY <1>1, <1>3 DEF WindowInv, WindowKept
<1>8. CASE CompleteRetained(id, outcome)
  <2>1. /\ fifo' = p
        /\ \A x \in Ids : status'[x] = IF x = id THEN outcome ELSE status[x]
    BY <1>1, <1>8 DEF CompleteRetained, p
  <2>2. WindowKept'
    <3> SUFFICES ASSUME NEW i \in DOMAIN c, i > Len(c) - Retention
                 PROVE  c[i] \in consumed \/ status'[c[i]] \in Outcomes
      BY <1>6 DEF WindowKept
    <3>1. CASE i = Len(completed) + 1
      BY <1>3, <2>1, <3>1
    <3>2. CASE i \in 1..Len(completed)
      <4>1. c[i] = completed[i] /\ completed[i] \in Ids /\ completed[i] # id
        BY <1>1, <1>2, <1>3, <3>2, ElementOfSeq DEF ToSet
      <4> QED BY <1>7, <2>1, <3>2, <4>1
    <3> QED BY <1>1, <1>3, <3>1, <3>2
  <2>3. QueueFollowsCompletion'
    BY <1>5, <1>6, <2>1 DEF QueueFollowsCompletion
  <2>4. \A x \in ToSet(c) : x \in registered /\ status'[x] \notin Active
    <3>1. \A x \in ToSet(completed) : x \in Ids /\ x # id
      BY <1>1, <1>2, ElementOfSeq DEF ToSet
    <3> QED BY <1>2, <1>3, <2>1, <3>1 DEF WindowInv, Active, Pending, Outcomes
  <2> QED BY <1>3, <1>6, <2>2, <2>3, <2>4 DEF WindowInv
<1>9. CASE CompleteEvicting(id, outcome)
  <2>1. /\ fifo' = Tail(p) /\ Len(fifo) >= Retention
        /\ status' = [[status EXCEPT ![id] = outcome] EXCEPT ![evicted] = "absent"]
    BY <1>9 DEF CompleteEvicting, p
  <2>2. /\ evicted = p[1] /\ evicted \in Ids
        /\ Tail(p) \in Seq(Ids) /\ Len(Tail(p)) = Len(fifo)
        /\ DOMAIN Tail(p) = 1..Len(fifo)
        /\ \A a \in 1..Len(fifo) : Tail(p)[a] = p[a + 1]
    BY <1>1, <1>4, HeadTailProperties, LenProperties, ElementOfSeq
  <2>3. \A x \in Ids : status'[x] = IF x = evicted THEN "absent"
                                    ELSE IF x = id THEN outcome ELSE status[x]
    BY <1>1, <2>1, <2>2
  <2>4. \A i \in DOMAIN c : c[i] = evicted => i <= Len(c) - Retention
    <3> SUFFICES ASSUME NEW i \in DOMAIN c, c[i] = evicted PROVE i <= Len(c) - Retention
      OBVIOUS
    <3>1. 1 \in DOMAIN p
      BY <1>1, <1>4
    <3>2. Len(p) - 1 <= Len(c) - i
      BY <1>5, <2>2, <3>1
    <3> QED BY <1>1, <1>3, <1>4, <2>1, <3>2
  <2> HIDE DEF evicted
  <2>5. WindowKept'
    <3> SUFFICES ASSUME NEW i \in DOMAIN c, i > Len(c) - Retention
                 PROVE  c[i] \in consumed \/ status'[c[i]] \in Outcomes
      BY <1>6 DEF WindowKept
    <3>1. c[i] # evicted
      BY <1>1, <1>3, <2>4
    <3>2. CASE i = Len(completed) + 1
      BY <1>3, <2>3, <3>1, <3>2
    <3>3. CASE i \in 1..Len(completed)
      <4>1. c[i] = completed[i] /\ completed[i] \in Ids /\ completed[i] # id
        BY <1>1, <1>2, <1>3, <3>3, ElementOfSeq DEF ToSet
      <4> QED BY <1>7, <2>3, <3>1, <3>3, <4>1
    <3> QED BY <1>1, <1>3, <3>2, <3>3
  <2>6. QueueFollowsCompletion'
    <3> SUFFICES ASSUME NEW a \in 1..Len(fifo), NEW i \in DOMAIN c, c[i] = Tail(p)[a]
                 PROVE  Len(fifo) - a <= Len(c) - i
      BY <1>6, <2>1, <2>2 DEF QueueFollowsCompletion
    <3>1. a + 1 \in DOMAIN p /\ c[i] = p[a + 1]
      BY <1>1, <1>4, <2>2
    <3>2. Len(p) - (a + 1) <= Len(c) - i
      BY <1>5, <3>1
    <3> QED BY <1>1, <1>3, <1>4, <3>2
  <2>7. \A x \in ToSet(c) : x \in registered /\ status'[x] \notin Active
    <3>1. \A x \in ToSet(completed) : x \in Ids /\ x # id
      BY <1>1, <1>2, ElementOfSeq DEF ToSet
    <3> QED BY <1>2, <1>3, <2>3, <3>1 DEF WindowInv, Active, Pending, Outcomes
  <2> QED BY <1>3, <1>6, <2>5, <2>6, <2>7 DEF WindowInv
<1> QED BY <1>8, <1>9

\* take_result() of a finished operation.
LEMMA TakeKeepsWindow ==
  ASSUME WindowInv, TableInv', NEW id \in Ids, TakeOutcome(id)
  PROVE  WindowInv'
<1>1. /\ fifo \in Seq(Ids) /\ NoRepeats(fifo) /\ fifo' = Without(fifo, id)
      /\ completed' = completed /\ consumed' = consumed \cup {id}
      /\ registered' = registered
      /\ \A x \in Ids : status'[x] = IF x = id THEN "absent" ELSE status[x]
  BY DEF WindowInv, TableInv, TableTypeOK, TableConsistent, TakeOutcome
<1>2. \A i \in DOMAIN completed : completed[i] \in Ids
  BY ElementOfSeq, LenProperties DEF WindowInv, TableInv, TableTypeOK
<1>3. WindowKept'
  BY <1>1, <1>2 DEF WindowInv, WindowKept
<1>4. QueueFollowsCompletion'
  <2> SUFFICES ASSUME NEW a \in DOMAIN Without(fifo, id), NEW i \in DOMAIN completed,
                      completed[i] = Without(fifo, id)[a]
               PROVE  Len(Without(fifo, id)) - a <= Len(completed) - i
    BY <1>1 DEF QueueFollowsCompletion
  <2>1. PICK b \in DOMAIN fifo : /\ fifo[b] = Without(fifo, id)[a]
                                 /\ Len(Without(fifo, id)) - a <= Len(fifo) - b
    BY <1>1, WithoutNoRepeats
  <2>2. Len(fifo) - b <= Len(completed) - i
    BY <2>1 DEF WindowInv, QueueFollowsCompletion
  <2>3. /\ Without(fifo, id) \in Seq(Ids) /\ Len(Without(fifo, id)) \in Nat
        /\ a \in Int /\ b \in Int /\ i \in Int
        /\ Len(fifo) \in Nat /\ Len(completed) \in Nat
    BY <1>1, WithoutNoRepeats, LenProperties DEF WindowInv, TableInv, TableTypeOK
  <2> QED BY <2>1, <2>2, <2>3
<1>5. \A x \in ToSet(completed') : x \in registered' /\ status'[x] \notin Active
  BY <1>1, <1>2 DEF WindowInv, ToSet, Active, Pending
<1> QED BY <1>1, <1>3, <1>4, <1>5 DEF WindowInv

LEMMA WindowInvStep == WindowInv /\ [TableNext]_tableVars => WindowInv'
<1> SUFFICES ASSUME WindowInv, [TableNext]_tableVars PROVE WindowInv'
  OBVIOUS
<1>0. TableInv' /\ TableTypeOK
  BY TableInvStep DEF WindowInv, TableInv
<1>a. \A x \in ToSet(completed) : x \in Ids /\ x \in registered /\ status[x] \notin Active
  <2>1. \A i \in DOMAIN completed : completed[i] \in Ids
    BY <1>0, ElementOfSeq, LenProperties DEF TableTypeOK
  <2> QED BY <2>1 DEF WindowInv, ToSet
<1>1. CASE CancelAll
  <2>1. \A x \in ToSet(completed) : status'[x] = status[x]
    BY <1>0, <1>a, <1>1 DEF CancelAll, TableTypeOK, Active
  <2> QED BY <1>0, <1>1, <2>1, WindowUntouched DEF CancelAll
<1>2. ASSUME NEW id \in Ids, Step(id) PROVE WindowInv'
  <2>1. ASSUME id \notin registered, NEW keep \in BOOLEAN, Register(id, keep)
        PROVE  WindowInv'
    <3>1. \A x \in ToSet(completed) : status'[x] = status[x]
      BY <1>0, <1>a, <2>1 DEF Register, TableTypeOK
    <3> QED BY <1>0, <2>1, <3>1, WindowUntouched DEF Register
  <2>2. CASE MarkRunning(id)
    <3>1. \A x \in ToSet(completed) : status'[x] = status[x]
      BY <1>0, <1>a, <2>2 DEF MarkRunning, TableTypeOK, Active, Pending
    <3> QED BY <1>0, <2>2, <3>1, WindowUntouched DEF MarkRunning
  <2>3. ASSUME status[id] \in Active, NEW outcome \in Outcomes, Complete(id, outcome)
        PROVE  WindowInv'
    <3>1. CASE CompleteUnretained(id)
      <4>1. \A x \in ToSet(completed) : status'[x] = status[x]
        BY <1>0, <1>a, <2>3, <3>1 DEF CompleteUnretained, TableTypeOK
      <4> QED BY <1>0, <3>1, <4>1, WindowUntouched DEF CompleteUnretained
    <3>2. CASE CompleteRetained(id, outcome)
      BY <1>0, <2>3, <3>2, CompletionKeepsWindow
    <3>3. CASE CompleteEvicting(id, outcome)
      BY <1>0, <2>3, <3>3, CompletionKeepsWindow
    <3> QED BY <2>3, <3>1, <3>2, <3>3 DEF Complete
  <2>4. CASE status[id] \in Active /\ Forget(id)
    <3>1. \A x \in ToSet(completed) : status'[x] = status[x]
      BY <1>0, <1>a, <2>4 DEF Forget, TableTypeOK
    <3> QED BY <1>0, <2>4, <3>1, WindowUntouched DEF Forget
  <2>5. CASE TakeOutcome(id)
    BY <1>0, <2>5, TakeKeepsWindow
  <2>6. CASE TakeTombstone(id)
    BY <1>0, <2>6, WindowUntouched DEF TakeTombstone
  <2>7. CASE CancelOperation(id)
    <3>1. \A x \in ToSet(completed) : status'[x] = status[x]
      BY <1>0, <1>a, <2>7 DEF CancelOperation, TableTypeOK, Active
    <3> QED BY <1>0, <2>7, <3>1, WindowUntouched DEF CancelOperation
  <2> QED BY <1>2, <2>1, <2>2, <2>3, <2>4, <2>5, <2>6, <2>7 DEF Step, TakeResult
<1>3. CASE UNCHANGED tableVars
  BY <1>0, <1>3, WindowUntouched DEF tableVars
<1> QED BY <1>1, <1>2, <1>3 DEF TableNext

\* The last Retention retained completions stay readable until take_result
\* consumes them: an eviction never drops a newer completion before an older
\* one, whatever was consumed in between (operation.rs:144-161).
THEOREM RetentionWindow == TableSpec => []WindowKept
<1>1. TableInit => WindowInv
  <2> SUFFICES ASSUME TableInit PROVE WindowInv
    OBVIOUS
  <2>1. completed = <<>> /\ fifo = <<>> /\ DOMAIN <<>> = {}
    BY DEF TableInit
  <2> QED BY <2>1, TableInvInit
          DEF WindowInv, WindowKept, QueueFollowsCompletion, NoRepeats, ToSet
<1>2. WindowInv => WindowKept
  BY DEF WindowInv
<1> QED BY <1>1, <1>2, WindowInvStep, PTL DEF TableSpec
=============================================================================
