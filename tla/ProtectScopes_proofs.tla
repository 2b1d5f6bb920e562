------------------------ MODULE ProtectScopes_proofs ------------------------
(***************************************************************************)
(* For any slots, values, generations, depths and nesting: leaving a scope *)
(* takes the roots made in it and no others.  A lease knows the scope it   *)
(* was made in from its generation alone; HomesMatch says that comparing   *)
(* it with the open scopes' checkpoints gives the right answer for each    *)
(* live lease that no guard owns.  The slots are those of RootStorage,     *)
(* whose step lemmas are used here at the level of leases.                 *)
(***************************************************************************)
EXTENDS ProtectScopes, RootStorage_proofs

\* A live lease was made inside scope k exactly when k's checkpoint is not above it.
HomesMatch ==
  \A lease \in Leases : ~lease.managed =>
    /\ home[lease.generation] <= Len(scopes)
    /\ \A k \in DOMAIN scopes :
         home[lease.generation] >= k <=> scopes[k].checkpoint <= lease.generation

CheckpointsMade == \A k \in DOMAIN scopes : scopes[k].checkpoint <= next

ScopesTyped ==
  /\ Stack!SequenceTypeOK
  /\ scopes \in Seq(Scope) /\ Len(scopes) <= MaxScopes
  /\ home \in [Generations -> 0..MaxScopes]

ScopesInv == StorageInv /\ ScopesTyped /\ ScopesNested /\ CheckpointsMade /\ HomesMatch

-----------------------------------------------------------------------------
(* Leases and scopes *)

LEMMA LeaseTyped ==
  ASSUME StorageInv, NEW lease \in Leases
  PROVE  lease.generation \in Generations /\ lease.generation < next
<1>1. PICK i \in Indices : Occupied(i) /\ lease = LeaseAt(i)
  BY DEF Leases
<1>2. lease.generation = slots[i].generation
  BY <1>1 DEF LeaseAt
<1>3. slots[i].generation < next /\ slots[i].generation \in Nat /\ next \in 0..MaxGeneration
  BY <1>1 DEF StorageInv, StorageTypeOK, GenerationsDistinct, Entry
<1>. QED
  BY <1>2, <1>3, StorageAssumption DEF Generations

LEMMA ScopeTyped ==
  ASSUME ScopesTyped, NEW k \in DOMAIN scopes
  PROVE  /\ k \in 1..Len(scopes) /\ Len(scopes) \in Nat
         /\ scopes[k].depth \in 0..MaxDepth
         /\ scopes[k].checkpoint \in 0..MaxGeneration
<1>1. scopes[k] \in Scope /\ k \in 1..Len(scopes) /\ Len(scopes) \in Nat
  BY DEF ScopesTyped
<1>. QED
  BY <1>1 DEF Scope

LEMMA HomeTyped ==
  ASSUME StorageInv, ScopesTyped, NEW lease \in Leases
  PROVE  home[lease.generation] \in 0..MaxScopes /\ lease.generation \in Nat
BY LeaseTyped DEF ScopesTyped, Generations

\* What the protection stack does on a push, a pop and a truncation.
LEMMA StackCut ==
  ASSUME Stack!SequenceTypeOK, NEW depth \in Nat, Stack!Truncate(depth)
  PROVE  /\ Stack!SequenceTypeOK'
         /\ Len(protected') = IF depth < Len(protected) THEN depth ELSE Len(protected)
<1>1. /\ protected \in Seq(Stack!Root) /\ Len(protected) \in 0..MaxDepth
      /\ nextLease \in 0..MaxLease
  BY DEF Stack!SequenceTypeOK
<1> DEFINE n == IF depth < Len(protected) THEN depth ELSE Len(protected)
<1>2. /\ n \in 0..Len(protected) /\ n <= MaxDepth
      /\ protected' = SubSeq(protected, 1, n) /\ nextLease' = nextLease
  BY <1>1, ScopesAssumption DEF Stack!Truncate
<1>3. SubSeq(protected, 1, n) \in Seq(Stack!Root) /\ Len(SubSeq(protected, 1, n)) = n
  BY <1>1, <1>2
<1>. QED
  BY <1>1, <1>2, <1>3 DEF Stack!SequenceTypeOK, Stack!Root, Stack!Leases

LEMMA StackPushed ==
  ASSUME Stack!SequenceTypeOK, NEW value \in Values, Stack!TryPush(value)
  PROVE  Stack!SequenceTypeOK' /\ Len(protected') = Len(protected) + 1
<1> DEFINE entry == [lease |-> nextLease, value |-> value]
<1>1. /\ protected \in Seq(Stack!Root) /\ Len(protected) \in 0..MaxDepth
      /\ nextLease \in 0..MaxLease /\ nextLease < MaxLease
      /\ Len(protected) < MaxDepth
      /\ protected' = Append(protected, entry) /\ nextLease' = nextLease + 1
  BY DEF Stack!SequenceTypeOK, Stack!TryPush, Stack!LeaseLeft
<1>2. entry \in Stack!Root
  BY <1>1, ScopesAssumption DEF Stack!Root, Stack!Leases
<1>3. Append(protected, entry) \in Seq(Stack!Root)
      /\ Len(Append(protected, entry)) = Len(protected) + 1
  BY <1>1, <1>2
<1>. QED
  BY <1>1, <1>3, ScopesAssumption DEF Stack!SequenceTypeOK, Stack!Root, Stack!Leases

\* Steps that leave the table alone.
LEMMA StorageKept ==
  ASSUME StorageInv, UNCHANGED storageVars
  PROVE  StorageInv' /\ Leases' = Leases /\ next' = next
BY DEF StorageInv, StorageTypeOK, FreeIsVacancies, GenerationsDistinct, Leases, LeaseAt,
       Occupied, storageVars

-----------------------------------------------------------------------------
(* One lemma for each step *)

LEMMA InitScopesInv == ScopesInit => ScopesInv
<1> SUFFICES ASSUME ScopesInit PROVE ScopesInv
  OBVIOUS
<1>1. StorageInv /\ Leases = {}
  BY StorageInitially DEF ScopesInit, RL!LeaseInit
<1>. QED
  BY <1>1, ScopesAssumption
  DEF ScopesInit, ScopesInv, ScopesTyped, ScopesNested, CheckpointsMade, HomesMatch,
      Stack!SequenceTypeOK

LEMMA OpenScopeInv ==
  ASSUME ScopesInv, OpenScope
  PROVE  ScopesInv'
<1> DEFINE entry == [depth |-> Len(protected), checkpoint |-> next]
           n     == Len(scopes)
<1> USE DEF ScopesInv
<1>1. /\ scopes \in Seq(Scope) /\ n \in Nat /\ n < MaxScopes
      /\ scopes' = Append(scopes, entry)
      /\ UNCHANGED <<protected, nextLease, home>>
  BY DEF OpenScope, ScopesTyped
<1>2. StorageInv' /\ Leases' = Leases /\ next' = next
  BY StorageKept DEF OpenScope
<1>3. entry \in Scope
  BY DEF Scope, ScopesTyped, Stack!SequenceTypeOK, StorageInv, StorageTypeOK
<1>4. /\ scopes' \in Seq(Scope) /\ Len(scopes') = n + 1
      /\ DOMAIN scopes' = DOMAIN scopes \cup {n + 1}
      /\ \A k \in DOMAIN scopes : scopes'[k] = scopes[k] /\ k <= n
      /\ scopes'[n + 1] = entry
  BY <1>1, <1>3
<1>5. ScopesTyped'
  BY <1>1, <1>4, ScopesAssumption DEF ScopesTyped, Stack!SequenceTypeOK, Stack!Root, Stack!Leases
<1>6. next \in Nat /\ Len(protected) \in Nat
  BY DEF StorageInv, StorageTypeOK, ScopesTyped, Stack!SequenceTypeOK
<1>7. ScopesNested'
  <2>1. \A k \in DOMAIN scopes' : scopes'[k].depth <= Len(protected)
    BY <1>4, <1>6 DEF ScopesNested
  <2>2. ASSUME NEW j \in DOMAIN scopes', NEW k \in DOMAIN scopes', j < k
        PROVE  /\ scopes'[j].depth <= scopes'[k].depth
               /\ scopes'[j].checkpoint <= scopes'[k].checkpoint
    <3>1. j \in DOMAIN scopes
      BY <2>2, <1>1, <1>4
    <3>2. CASE k = n + 1
      BY <3>1, <3>2, <1>4 DEF ScopesNested, CheckpointsMade
    <3>3. CASE k \in DOMAIN scopes
      BY <2>2, <3>1, <3>3, <1>4 DEF ScopesNested
    <3>. QED
      BY <3>2, <3>3, <1>4
  <2>. QED
    BY <2>1, <2>2, <1>1 DEF ScopesNested
<1>8. CheckpointsMade'
  BY <1>2, <1>4, <1>6 DEF CheckpointsMade
<1>9. HomesMatch'
  <2>1. SUFFICES ASSUME NEW lease \in Leases, ~lease.managed
                 PROVE  /\ home[lease.generation] <= n + 1
                        /\ \A k \in DOMAIN scopes' :
                             home[lease.generation] >= k
                               <=> scopes'[k].checkpoint <= lease.generation
    BY <1>1, <1>2, <1>4 DEF HomesMatch
  <2>2. /\ home[lease.generation] \in Nat /\ lease.generation \in Nat
        /\ home[lease.generation] <= n /\ lease.generation < next
    BY <2>1, HomeTyped, LeaseTyped DEF HomesMatch
  <2>3. ASSUME NEW k \in DOMAIN scopes'
        PROVE  home[lease.generation] >= k <=> scopes'[k].checkpoint <= lease.generation
    <3>1. CASE k = n + 1
      BY <3>1, <2>2, <1>1, <1>4, <1>6
    <3>2. CASE k \in DOMAIN scopes
      BY <3>2, <2>1, <1>4 DEF HomesMatch
    <3>. QED
      BY <3>1, <3>2, <1>4
  <2>. QED
    BY <2>2, <2>3, <1>1
<1>. QED
  BY <1>2, <1>5, <1>7, <1>8, <1>9

\* What the scope that is left leaves of the leases and of the other scopes.
LEMMA ScopeClosed ==
  ASSUME ScopesInv, CloseScope
  PROVE  /\ StorageInv'
         /\ Leases' = {lease \in Leases :
                         lease.managed \/ lease.generation < Closing.checkpoint}
         /\ UNCHANGED <<next, home>>
         /\ Closing = scopes[Len(scopes)] /\ Len(scopes) \in DOMAIN scopes
         /\ Len(scopes') = Len(scopes) - 1
         /\ DOMAIN scopes' = DOMAIN scopes \ {Len(scopes)}
         /\ \A k \in DOMAIN scopes' : scopes'[k] = scopes[k]
<1> DEFINE n == Len(scopes)
<1> USE DEF ScopesInv
<1>1. /\ scopes # <<>> /\ scopes \in Seq(Scope) /\ n \in DOMAIN scopes
      /\ scopes' = SubSeq(scopes, 1, n - 1)
      /\ Closing = scopes[n] /\ UNCHANGED home
  BY DEF CloseScope, ScopesTyped, Closing
<1>2. Restore(Closing.checkpoint) /\ Closing.checkpoint \in 0..next
  BY <1>1, ScopeTyped DEF CloseScope, CheckpointsMade, StorageInv, StorageTypeOK
<1>3. StorageInv' /\ RL!LeaseRestore(Closing.checkpoint)
  BY <1>2, RestoreStep
<1>4. /\ Len(scopes') = n - 1
      /\ DOMAIN scopes' = DOMAIN scopes \ {n}
      /\ \A k \in DOMAIN scopes' : scopes'[k] = scopes[k]
  <2>1. n \in Nat \ {0} /\ DOMAIN scopes = 1..n
    BY <1>1
  <2>2. /\ Len(SubSeq(scopes, 1, n - 1)) = n - 1
        /\ SubSeq(scopes, 1, n - 1) \in Seq(Scope)
        /\ \A k \in 1..(n - 1) : SubSeq(scopes, 1, n - 1)[k] = scopes[k]
    BY <1>1, <2>1
  <2>3. DOMAIN scopes' = 1..(n - 1)
    BY <1>1, <2>2
  <2>. QED
    BY <1>1, <2>1, <2>2, <2>3
<1>5. Leases' = {lease \in Leases :
                   lease.managed \/ lease.generation < Closing.checkpoint}
      /\ UNCHANGED next
  BY <1>3 DEF RL!LeaseRestore
<1>. QED
  BY <1>1, <1>3, <1>4, <1>5

LEMMA CloseScopeInv ==
  ASSUME ScopesInv, CloseScope
  PROVE  ScopesInv'
<1> DEFINE n == Len(scopes)
<1> USE DEF ScopesInv
<1>1. n \in Nat /\ n \in DOMAIN scopes /\ n \in 1..MaxScopes
  BY ScopeClosed, ScopeTyped, ScopesAssumption DEF ScopesTyped
<1>2. ScopesTyped' /\ Len(protected') >= scopes[n].depth
  <2>1. /\ Stack!SequenceTypeOK'
        /\ Len(protected') = IF scopes[n].depth < Len(protected)
                             THEN scopes[n].depth ELSE Len(protected)
    BY <1>1, ScopeClosed, ScopeTyped, StackCut DEF CloseScope, ScopesTyped
  <2>2. scopes' \in Seq(Scope)
    BY <1>1 DEF CloseScope, ScopesTyped
  <2>3. scopes[n].depth <= Len(protected) /\ scopes[n].depth \in Nat
    BY <1>1, ScopeTyped DEF ScopesNested
  <2>. QED
    BY <1>1, <2>1, <2>2, <2>3, ScopeClosed, ScopesAssumption DEF ScopesTyped
<1>3. ScopesNested'
  <2>1. ASSUME NEW k \in DOMAIN scopes'
        PROVE  scopes'[k].depth <= Len(protected')
    <3>1. k \in DOMAIN scopes /\ scopes'[k] = scopes[k] /\ k < n
      BY ScopeClosed, ScopeTyped
    <3>2. scopes[k].depth <= scopes[n].depth
      BY <1>1, <3>1 DEF ScopesNested
    <3>3. Len(protected') \in Nat
      BY <1>2 DEF ScopesTyped, Stack!SequenceTypeOK
    <3>. QED
      BY <1>1, <1>2, <3>1, <3>2, <3>3, ScopeTyped
  <2>2. ASSUME NEW j \in DOMAIN scopes', NEW k \in DOMAIN scopes', j < k
        PROVE  /\ scopes'[j].depth <= scopes'[k].depth
               /\ scopes'[j].checkpoint <= scopes'[k].checkpoint
    BY <2>2, ScopeClosed DEF ScopesNested
  <2>. QED
    BY <2>1, <2>2 DEF ScopesNested
<1>4. CheckpointsMade'
  BY ScopeClosed DEF CheckpointsMade
<1>5. HomesMatch'
  <2>1. SUFFICES ASSUME NEW lease \in Leases', ~lease.managed
                 PROVE  /\ home[lease.generation] <= n - 1
                        /\ \A k \in DOMAIN scopes' :
                             home[lease.generation] >= k
                               <=> scopes'[k].checkpoint <= lease.generation
    BY ScopeClosed DEF HomesMatch
  <2>2. lease \in Leases /\ lease.generation < scopes[n].checkpoint
    BY <2>1, ScopeClosed
  <2>3. home[lease.generation] \in Nat /\ lease.generation \in Nat
    BY <2>2, HomeTyped
  <2>4. ~(home[lease.generation] >= n)
    BY <2>1, <2>2, <2>3, <1>1, ScopeTyped DEF HomesMatch
  <2>. QED
    BY <2>1, <2>2, <2>3, <2>4, <1>1, ScopeClosed DEF HomesMatch
<1>. QED
  BY <1>2, <1>3, <1>4, <1>5, ScopeClosed

LEMMA ClaimInv ==
  ASSUME ScopesInv, NEW value \in Values, NEW managed \in BOOLEAN, Claim(value, managed)
  PROVE  ScopesInv' /\ Leases \subseteq Leases'
<1> DEFINE n == Len(scopes)
<1> USE DEF ScopesInv
<1>1. StorageInv' /\ RL!LeaseClaim(value, managed)
  BY ClaimVacantStep, ClaimFreshStep DEF Claim
<1>2. PICK index \in RL!Indices :
        Leases' = Leases \cup {[generation |-> next, index |-> index,
                                value |-> value, managed |-> managed]}
  BY <1>1 DEF RL!LeaseClaim
<1>3. /\ next \in Nat /\ next' = next + 1 /\ next \in Generations
      /\ UNCHANGED <<protected, nextLease, scopes>>
      /\ home' = [home EXCEPT ![next] = n]
  BY <1>1, StorageAssumption
  DEF RL!LeaseClaim, Claim, StorageInv, StorageTypeOK, Generations
<1>4. ScopesTyped' /\ n \in 0..MaxScopes
  BY <1>3, ScopesAssumption
  DEF ScopesTyped, Stack!SequenceTypeOK, Stack!Root, Stack!Leases
<1>5. ScopesNested'
  BY <1>3 DEF ScopesNested
<1>6. CheckpointsMade'
  BY <1>3, ScopeTyped DEF CheckpointsMade
<1>7. HomesMatch'
  <2>1. SUFFICES ASSUME NEW lease \in Leases', ~lease.managed
                 PROVE  /\ home'[lease.generation] <= n
                        /\ \A k \in DOMAIN scopes :
                             home'[lease.generation] >= k
                               <=> scopes[k].checkpoint <= lease.generation
    BY <1>3 DEF HomesMatch
  <2>2. CASE lease \in Leases
    <3>1. lease.generation # next /\ lease.generation \in Generations
      BY <2>2, <1>3, LeaseTyped DEF Generations
    <3>2. home'[lease.generation] = home[lease.generation]
      BY <3>1, <1>3 DEF ScopesTyped
    <3>. QED
      BY <2>1, <2>2, <3>2 DEF HomesMatch
  <2>3. CASE lease \notin Leases
    <3>1. lease.generation = next
      BY <2>1, <2>3, <1>2
    <3>2. home'[next] = n
      BY <1>3 DEF ScopesTyped
    <3>3. \A k \in DOMAIN scopes : n >= k /\ scopes[k].checkpoint <= next
      BY ScopeTyped DEF CheckpointsMade
    <3>. QED
      BY <3>1, <3>2, <3>3, <1>4
  <2>. QED
    BY <2>2, <2>3
<1>. QED
  BY <1>1, <1>2, <1>4, <1>5, <1>6, <1>7

\* Fewer leases, and everything else as it was.
LEMMA DropGuardInv ==
  ASSUME ScopesInv, NEW h \in issued, DropGuard(h)
  PROVE  /\ ScopesInv'
         /\ \A lease \in Leases :
              lease \in Leases' \/ call' = [op |-> "release", arg |-> lease.generation]
<1> USE DEF ScopesInv
<1>1. /\ StorageInv'
      /\ Leases' = {lease \in Leases : lease.generation # h.generation}
      /\ call' = [op |-> "release", arg |-> h.generation]
      /\ UNCHANGED <<next, protected, nextLease, scopes, home>>
  BY ReleaseStep DEF DropGuard, RL!LeaseRelease, RL!Called
<1>2. ScopesTyped' /\ ScopesNested' /\ CheckpointsMade' /\ HomesMatch'
  BY <1>1
  DEF ScopesTyped, Stack!SequenceTypeOK, Stack!Root, Stack!Leases, ScopesNested,
      CheckpointsMade, HomesMatch
<1>. QED
  BY <1>1, <1>2

\* The protection stack alone moves, and stays above what the scopes noted.
LEMMA StackMoved ==
  ASSUME ScopesInv, UNCHANGED <<storageVars, scopes, home>>, Stack!SequenceTypeOK',
         \A k \in DOMAIN scopes : scopes[k].depth <= Len(protected')
  PROVE  ScopesInv' /\ Leases' = Leases
<1>1. StorageInv' /\ Leases' = Leases /\ next' = next
  BY StorageKept DEF ScopesInv
<1>2. ScopesTyped' /\ ScopesNested' /\ CheckpointsMade' /\ HomesMatch'
  BY <1>1 DEF ScopesInv, ScopesTyped, ScopesNested, CheckpointsMade, HomesMatch
<1>. QED
  BY <1>1, <1>2 DEF ScopesInv

LEMMA ProtectInv ==
  ASSUME ScopesInv, NEW value \in Values, Protect(value)
  PROVE  ScopesInv' /\ Leases' = Leases
<1>1. Stack!SequenceTypeOK' /\ Len(protected') = Len(protected) + 1
  BY StackPushed DEF Protect, ScopesInv, ScopesTyped
<1>2. \A k \in DOMAIN scopes : scopes[k].depth <= Len(protected')
  BY <1>1, ScopeTyped DEF ScopesInv, ScopesTyped, ScopesNested, Stack!SequenceTypeOK
<1>. QED
  BY <1>1, <1>2, StackMoved DEF Protect

LEMMA UnprotectInv ==
  ASSUME ScopesInv, NEW count \in 1..MaxDepth, Unprotect(count)
  PROVE  ScopesInv' /\ Leases' = Leases
<1> DEFINE n     == Len(scopes)
           floor == IF scopes = <<>> THEN 0 ELSE scopes[n].depth
           left  == IF count < Len(protected) THEN Len(protected) - count ELSE 0
<1>1. /\ Len(protected) \in Nat /\ count \in Nat /\ n \in Nat
      /\ n = 0 <=> scopes = <<>>
      /\ floor \in Nat
  <2>1. scopes # <<>> => n \in DOMAIN scopes
    BY DEF ScopesInv, ScopesTyped
  <2>. QED
    BY <2>1, ScopeTyped, ScopesAssumption DEF ScopesInv, ScopesTyped, Stack!SequenceTypeOK
<1>2. left \in Nat /\ Stack!Truncate(left) /\ left <= Len(protected)
  BY <1>1 DEF Unprotect, Stack!PopCount
<1>3. Stack!SequenceTypeOK' /\ Len(protected') = left
  BY <1>1, <1>2, StackCut DEF ScopesInv, ScopesTyped
<1>4. ASSUME NEW k \in DOMAIN scopes
      PROVE  scopes[k].depth <= Len(protected')
  <2>1. k \in 1..n /\ n \in DOMAIN scopes /\ scopes # <<>> /\ scopes[k].depth \in Nat
    BY <1>1, ScopeTyped DEF ScopesInv, ScopesTyped
  <2>2. scopes[k].depth <= scopes[n].depth
    BY <2>1, ScopeTyped DEF ScopesInv, ScopesNested
  <2>3. count <= Len(protected) - scopes[n].depth
    BY <2>1 DEF Unprotect
  <2>. QED
    BY <1>1, <1>3, <2>1, <2>2, <2>3
<1>. QED
  BY <1>3, <1>4, StackMoved DEF Unprotect

-----------------------------------------------------------------------------
(* The theorems *)

LEMMA ScopesStep == ScopesInv /\ [ScopesNext]_scopeVars => ScopesInv'
<1> SUFFICES ASSUME ScopesInv, [ScopesNext]_scopeVars
             PROVE  ScopesInv'
  OBVIOUS
<1>1. CASE OpenScope \/ CloseScope
  BY <1>1, OpenScopeInv, CloseScopeInv
<1>2. CASE RootsMove
  BY <1>2, ProtectInv, ClaimInv, DropGuardInv, UnprotectInv DEF RootsMove
<1>3. CASE UNCHANGED scopeVars
  <2>1. Stack!SequenceTypeOK' /\ UNCHANGED <<storageVars, protected, scopes, home>>
    BY <1>3 DEF scopeVars, ScopesInv, ScopesTyped, Stack!SequenceTypeOK, Stack!Root,
                Stack!Leases
  <2>. QED
    BY <2>1, StackMoved DEF ScopesInv, ScopesNested
<1>. QED
  BY <1>1, <1>2, <1>3 DEF ScopesNext

\* Types, the order of the noted positions, and the homes of the leases.
THEOREM ScopesInvariance == ScopesSpec => []ScopesInv
BY InitScopesInv, ScopesStep, PTL DEF ScopesSpec

\* A root made in a scope is gone once the scope is, unless a guard owns it
\* (session/guards.rs:314-327).
THEOREM NoRootLeaks == ScopesSpec => []NoRootOutlivesScope
<1>1. ScopesInv => NoRootOutlivesScope
  BY DEF ScopesInv, HomesMatch, NoRootOutlivesScope
<1>. QED
  BY <1>1, ScopesInvariance, PTL

\* No open scope has noted a position that is gone or out of order.
THEOREM PositionsNested == ScopesSpec => []ScopesNested
BY ScopesInvariance, PTL DEF ScopesInv

\* A step takes only roots that were released or made in a scope it leaves.
THEOREM OnlyOwnRootsGo == ScopesSpec => OuterRootsSurvive
<1> DEFINE Survives ==
      \A lease \in Leases :
        \/ lease \in Leases'
        \/ call' = [op |-> "release", arg |-> lease.generation]
        \/ ~lease.managed /\ home[lease.generation] > Len(scopes')
<1>1. ScopesInv /\ [ScopesNext]_scopeVars => [Survives]_scopeVars
  <2> SUFFICES ASSUME ScopesInv, ScopesNext
               PROVE  Survives
    OBVIOUS
  <2>1. CASE OpenScope
    BY <2>1, StorageKept DEF OpenScope, ScopesInv
  <2>2. CASE CloseScope
    <3>1. SUFFICES ASSUME NEW lease \in Leases, lease \notin Leases'
                   PROVE  ~lease.managed /\ home[lease.generation] > Len(scopes')
      OBVIOUS
    <3>2. ~lease.managed /\ ~(lease.generation < scopes[Len(scopes)].checkpoint)
      BY <2>2, <3>1, ScopeClosed
    <3>3. /\ Len(scopes) \in DOMAIN scopes /\ Len(scopes) \in Nat
          /\ scopes[Len(scopes)].checkpoint \in Nat
          /\ Len(scopes') = Len(scopes) - 1
      BY <2>2, ScopeClosed, ScopeTyped DEF ScopesInv
    <3>4. lease.generation \in Nat /\ home[lease.generation] \in Nat
      BY HomeTyped DEF ScopesInv
    <3>5. home[lease.generation] >= Len(scopes)
      BY <3>2, <3>3, <3>4 DEF ScopesInv, HomesMatch
    <3>. QED
      BY <3>2, <3>3, <3>4, <3>5
  <2>3. CASE RootsMove
    BY <2>3, ProtectInv, ClaimInv, DropGuardInv, UnprotectInv DEF RootsMove
  <2>. QED
    BY <2>1, <2>2, <2>3 DEF ScopesNext
<1>. QED
  BY <1>1, ScopesInvariance, PTL DEF ScopesSpec, OuterRootsSurvive

-----------------------------------------------------------------------------
(* Scopes, guards and protect() use the slot table and the protection stack *)
(* within what each promises: a checkpoint is never ahead of the table, and *)
(* a noted depth never beyond what a sequence can hold.                     *)

LEMMA ClosingTyped ==
  ASSUME ScopesInv, scopes # <<>>
  PROVE  Closing.checkpoint \in 0..next /\ Closing.depth \in 0..MaxDepth
<1>1. Len(scopes) \in DOMAIN scopes
  BY DEF ScopesInv, ScopesTyped
<1>2. /\ scopes[Len(scopes)].checkpoint \in 0..MaxGeneration
      /\ scopes[Len(scopes)].checkpoint <= next
      /\ scopes[Len(scopes)].depth \in 0..MaxDepth
  BY <1>1, ScopeTyped DEF ScopesInv, CheckpointsMade
<1>3. next \in 0..MaxGeneration /\ MaxGeneration \in Nat
  BY StorageAssumption DEF ScopesInv, StorageInv, StorageTypeOK
<1>. QED
  BY <1>2, <1>3 DEF Closing

\* Every run of the scopes is one of the slot table: what is proved of it - the
\* exact free list, room for every release, handles that reach their own lease
\* or nothing - holds under every nesting of evaluations.
THEOREM ScopesUseTable == ScopesSpec => StorageSpec
<1>1. ScopesInit => StorageInit
  BY DEF ScopesInit
<1>2. ScopesInv /\ [ScopesNext]_scopeVars => [StorageNext]_storageVars
  <2> SUFFICES ASSUME ScopesInv, [ScopesNext]_scopeVars
               PROVE  [StorageNext]_storageVars
    OBVIOUS
  <2>1. CASE CloseScope
    BY <2>1, ClosingTyped DEF CloseScope, StorageNext
  <2>2. ASSUME NEW value \in Values, NEW managed \in BOOLEAN, Claim(value, managed)
        PROVE  StorageNext
    BY <2>2 DEF Claim, StorageNext
  <2>3. ASSUME NEW h \in issued, DropGuard(h)
        PROVE  StorageNext
    BY <2>3 DEF DropGuard, StorageNext
  <2>4. CASE \/ OpenScope
             \/ \E value \in Values : Protect(value)
             \/ \E count \in 1..MaxDepth : Unprotect(count)
             \/ UNCHANGED scopeVars
    BY <2>4 DEF OpenScope, Protect, Unprotect, scopeVars
  <2>. QED
    BY <2>1, <2>2, <2>3, <2>4 DEF ScopesNext, RootsMove
<1>. QED
  BY <1>1, <1>2, ScopesInvariance, PTL DEF ScopesSpec, StorageSpec

\* Every run of the scopes is one of the protection stack's, on which no update
\* of the roots is under way.
THEOREM ScopesUseStack == ScopesSpec => Stack!SequenceSpec
<1>1. ScopesInit => Stack!SequenceInit
  BY DEF ScopesInit, Stack!SequenceInit
<1>2. ScopesInv /\ [ScopesNext]_scopeVars => [Stack!SequenceNext]_(Stack!sequenceVars)
  <2> SUFFICES ASSUME ScopesInv, [ScopesNext]_scopeVars
               PROVE  [Stack!SequenceNext]_(Stack!sequenceVars)
    OBVIOUS
  <2> USE DEF Stack!SequenceNext, Stack!SequenceCall
  <2>1. CASE CloseScope
    BY <2>1, ClosingTyped DEF CloseScope
  <2>2. CASE \E value \in Values : Protect(value)
    BY <2>2 DEF Protect
  <2>3. ASSUME NEW count \in 1..MaxDepth, Unprotect(count)
        PROVE  Stack!SequenceNext
    <3>1. count \in 0..MaxDepth
      BY ScopesAssumption
    <3>. QED
      BY <2>3, <3>1 DEF Unprotect
  <2>4. CASE \/ OpenScope
             \/ \E value \in Values, managed \in BOOLEAN : Claim(value, managed)
             \/ \E h \in issued : DropGuard(h)
             \/ UNCHANGED scopeVars
    BY <2>4 DEF OpenScope, Claim, DropGuard, scopeVars, Stack!sequenceVars, Stack!rootVars
  <2>. QED
    BY <2>1, <2>2, <2>3, <2>4 DEF ScopesNext, RootsMove
<1>. QED
  BY <1>1, <1>2, ScopesInvariance, PTL DEF ScopesSpec, Stack!SequenceSpec
=============================================================================
