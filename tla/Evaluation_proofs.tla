-------------------------- MODULE Evaluation_proofs --------------------------
(***************************************************************************)
(* For any set of promises and any depth of nested forces: a promise that  *)
(* is being forced is not forced again, and however its evaluation is left *)
(* it is settled or can be restarted.  PInv conjoins the invariants, which *)
(* hold each other up, and one more: an aborted restart warning leaves its *)
(* promise in state 1 for good, so nothing forces it again.                *)
(*                                                                         *)
(* The interpreter instance is its root scopes and its promises side by    *)
(* side: each step is a step of one and leaves the other alone, so what is *)
(* proved of each holds of both, however their calls nest.                 *)
(* What neither has is the order of the calls: Counted says that the       *)
(* frames are exactly the open scopes and the promises being forced.       *)
(***************************************************************************)
EXTENDS Evaluation, ProtectScopes_proofs, FiniteSetTheorems

AbortedStaySeen == \A p \in aborted : gp[p] = 1 /\ p \notin valued

PInv == PromisesTypeOK /\ ForcedOnce /\ Settled /\ AbortedStaySeen

-----------------------------------------------------------------------------
(* The stack of forces *)

\* Each force is of a promise.
LEMMA ForcedPromise ==
  ASSUME NEW s \in Seq(Forcing), NEW i \in DOMAIN s
  PROVE  s[i].promise \in Promises
<1>1. s[i] \in Forcing
  OBVIOUS
<1>. QED
  BY <1>1 DEF Forcing

\* The innermost force is one of the forces, and the outer ones are the rest.
LEMMA InnermostForce ==
  ASSUME forcing \in Seq(Forcing), forcing # <<>>
  PROVE  /\ Len(forcing) \in DOMAIN forcing
         /\ Innermost \in Forcing
         /\ Outer \in Seq(Forcing)
         /\ DOMAIN Outer = DOMAIN forcing \ {Len(forcing)}
         /\ \A i \in DOMAIN Outer : Outer[i] = forcing[i]
BY DEF Innermost, Outer

-----------------------------------------------------------------------------
(* One lemma for each step *)

LEMMA InitPInv == PromisesInit => PInv
BY DEF PromisesInit, PInv, PromisesTypeOK, ForcedOnce, Settled, AbortedStaySeen

LEMMA BeginPInv ==
  ASSUME PInv, NEW p \in Promises, Begin(p)
  PROVE  PInv'
<1> DEFINE entry == [promise |-> p, stage |-> IF gp[p] = 0 THEN "evaluating" ELSE "warning"]
<1> USE DEF PInv
<1>1. entry \in Forcing
  BY DEF Forcing, Stages
<1>2. /\ forcing \in Seq(Forcing)
      /\ forcing' = Append(forcing, entry)
      /\ Len(forcing) \in Nat
  BY DEF PromisesTypeOK, Begin
<1>3. /\ DOMAIN forcing' = DOMAIN forcing \cup {Len(forcing) + 1}
      /\ \A i \in DOMAIN forcing : forcing'[i] = forcing[i]
      /\ forcing'[Len(forcing) + 1] = entry
      /\ Len(forcing) + 1 \notin DOMAIN forcing
  BY <1>1, <1>2
<1>4. \A i \in DOMAIN forcing : forcing[i].promise # p
  BY DEF Begin, Admitted, ForcedOnce
<1>5. /\ gp' = [gp EXCEPT ![p] = 1] /\ gp[p] # 1 /\ p \notin valued
      /\ valued' = valued /\ aborted' = aborted
  BY DEF Begin, Admitted
<1>6. PromisesTypeOK'
  BY <1>1, <1>2, <1>5 DEF PromisesTypeOK
<1>7. ForcedOnce'
  <2>1. p \notin aborted
    BY <1>5 DEF AbortedStaySeen
  <2>2. gp'[p] = 1 /\ \A q \in Promises \ {p} : gp'[q] = gp[q]
    BY <1>5 DEF PromisesTypeOK
  <2>3. \A i \in DOMAIN forcing : forcing[i].promise \in Promises
    BY <1>2, ForcedPromise
  <2>4. entry.promise = p
    OBVIOUS
  <2>5. \A i, j \in DOMAIN forcing' :
          forcing'[i].promise = forcing'[j].promise => i = j
    BY <1>3, <1>4, <2>4 DEF ForcedOnce
  <2>6. ASSUME NEW i \in DOMAIN forcing'
        PROVE  LET q == forcing'[i].promise
               IN  gp'[q] = 1 /\ q \notin valued' /\ q \notin aborted'
    <3>1. CASE i = Len(forcing) + 1
      BY <3>1, <1>3, <1>5, <2>1, <2>2, <2>4
    <3>2. CASE i \in DOMAIN forcing
      BY <3>2, <1>3, <1>4, <1>5, <2>2, <2>3 DEF ForcedOnce
    <3>. QED
      BY <3>1, <3>2, <1>3
  <2>. QED
    BY <2>5, <2>6 DEF ForcedOnce
<1>8. Settled'
  <2>1. SUFFICES ASSUME NEW q \in Promises, gp'[q] = 1
                 PROVE  \/ \E i \in DOMAIN forcing' : forcing'[i].promise = q
                        \/ q \in aborted'
    BY DEF Settled
  <2>2. CASE q = p
    BY <2>2, <1>3
  <2>3. CASE q # p
    BY <2>1, <2>3, <1>3, <1>5 DEF Settled, PromisesTypeOK
  <2>. QED
    BY <2>2, <2>3
<1>9. AbortedStaySeen'
  BY <1>5 DEF AbortedStaySeen, PromisesTypeOK
<1>. QED
  BY <1>6, <1>7, <1>8, <1>9

LEMMA WarningReturnsPInv ==
  ASSUME PInv, WarningReturns
  PROVE  PInv'
<1> USE DEF PInv
<1>1. forcing # <<>> /\ forcing \in Seq(Forcing) /\ UNCHANGED <<gp, valued, aborted>>
  BY DEF WarningReturns, InStage, PromisesTypeOK
<1>2. forcing' = [forcing EXCEPT ![Len(forcing)].stage = "evaluating"]
  BY DEF WarningReturns
<1>3. /\ forcing' \in Seq(Forcing)
      /\ DOMAIN forcing' = DOMAIN forcing
      /\ \A i \in DOMAIN forcing : forcing'[i].promise = forcing[i].promise
  <2>1. Len(forcing) \in DOMAIN forcing /\ forcing[Len(forcing)] \in Forcing
    BY <1>1, InnermostForce DEF Innermost
  <2>2. [forcing[Len(forcing)] EXCEPT !.stage = "evaluating"] \in Forcing
    BY <2>1 DEF Forcing, Stages
  <2>3. [forcing[Len(forcing)] EXCEPT !.stage = "evaluating"].promise
          = forcing[Len(forcing)].promise
    BY <2>1 DEF Forcing
  <2>. QED
    BY <1>1, <1>2, <2>1, <2>2, <2>3
<1>. QED
  BY <1>1, <1>3 DEF PromisesTypeOK, ForcedOnce, Settled, AbortedStaySeen

LEMMA EndedPInv ==
  ASSUME PInv, Ended
  PROVE  PInv'
<1> DEFINE p == Innermost.promise
<1> USE DEF PInv
<1>1. forcing # <<>> /\ forcing \in Seq(Forcing) /\ forcing' = Outer
  BY DEF Ended, WarningAborts, Publish, Interrupt, InStage, PromisesTypeOK
<1>2. /\ Len(forcing) \in DOMAIN forcing /\ Len(forcing) \notin DOMAIN forcing'
      /\ forcing' \in Seq(Forcing)
      /\ DOMAIN forcing' = DOMAIN forcing \ {Len(forcing)}
      /\ \A i \in DOMAIN forcing' : forcing'[i] = forcing[i]
      /\ p \in Promises
  BY <1>1, InnermostForce DEF Forcing
<1>3. \A i \in DOMAIN forcing' : forcing'[i].promise # p
  BY <1>2 DEF ForcedOnce, Innermost
<1>4. gp[p] = 1 /\ p \notin valued /\ p \notin aborted
  BY <1>2 DEF ForcedOnce, Innermost
<1>5. \A q \in Promises \ {p} : /\ gp'[q] = gp[q]
                                /\ q \in valued' <=> q \in valued
                                /\ q \in aborted' <=> q \in aborted
  BY DEF Ended, WarningAborts, Publish, Interrupt, PromisesTypeOK
<1>6. /\ PromisesTypeOK'
      /\ gp'[p] = 1 => p \in aborted'
      /\ p \in aborted' => gp'[p] = 1 /\ p \notin valued'
  BY <1>2, <1>4 DEF Ended, WarningAborts, Publish, Interrupt, PromisesTypeOK
<1>7. ForcedOnce'
  <2>1. \A i, j \in DOMAIN forcing' :
          forcing'[i].promise = forcing'[j].promise => i = j
    BY <1>2 DEF ForcedOnce
  <2>2. \A i \in DOMAIN forcing' : forcing'[i].promise \in Promises \ {p}
    BY <1>2, <1>3, ForcedPromise
  <2>3. ASSUME NEW i \in DOMAIN forcing'
        PROVE  LET q == forcing'[i].promise
               IN  gp'[q] = 1 /\ q \notin valued' /\ q \notin aborted'
    BY <2>2, <1>2, <1>5 DEF ForcedOnce
  <2>. QED
    BY <2>1, <2>3 DEF ForcedOnce
<1>8. Settled'
  <2>1. SUFFICES ASSUME NEW q \in Promises, gp'[q] = 1, q # p
                 PROVE  \/ \E i \in DOMAIN forcing' : forcing'[i].promise = q
                        \/ q \in aborted'
    BY <1>6 DEF Settled
  <2>2. \/ \E i \in DOMAIN forcing : forcing[i].promise = q
        \/ q \in aborted
    BY <2>1, <1>5 DEF Settled
  <2>3. forcing[Len(forcing)].promise # q
    BY <2>1 DEF Innermost
  <2>. QED
    BY <2>1, <2>2, <2>3, <1>2, <1>5
<1>9. AbortedStaySeen'
  <2>1. aborted' \subseteq Promises
    BY <1>6 DEF PromisesTypeOK
  <2>. QED
    BY <2>1, <1>5, <1>6 DEF AbortedStaySeen
<1>. QED
  BY <1>6, <1>7, <1>8, <1>9

-----------------------------------------------------------------------------
(* Promises alone *)

\* Whatever is forced, in whatever nesting, PInv holds throughout.
THEOREM PromisesInvariance == PromisesSpec => []PInv
<1>1. PInv /\ [PromisesNext]_promiseVars => PInv'
  <2> SUFFICES ASSUME PInv, [PromisesNext]_promiseVars
               PROVE  PInv'
    OBVIOUS
  <2>1. CASE \E p \in Promises : Begin(p)
    BY <2>1, BeginPInv
  <2>2. CASE WarningReturns
    BY <2>2, WarningReturnsPInv
  <2>3. CASE Ended
    BY <2>3, EndedPInv
  <2>4. CASE UNCHANGED promiseVars
    BY <2>4 DEF promiseVars, PInv, PromisesTypeOK, ForcedOnce, Settled, AbortedStaySeen
  <2>. QED
    BY <2>1, <2>2, <2>3, <2>4 DEF PromisesNext
<1>. QED
  BY <1>1, InitPInv, PTL DEF PromisesSpec

\* A promise that is being forced is never forced again.
THEOREM NeverForcedTwice == PromisesSpec => []ForcedOnce
BY PromisesInvariance, PTL DEF PInv

\* A promise in state 1 is being forced, or its restart warning was aborted.
THEOREM AlwaysSettled == PromisesSpec => []Settled
BY PromisesInvariance, PTL DEF PInv

-----------------------------------------------------------------------------
(* Promises and root scopes together *)

LEMMA StepOfEither ==
  ASSUME [EvaluationNext]_evaluationVars
  PROVE  [ScopesNext]_scopeVars /\ [PromisesNext]_promiseVars
<1>1. CASE EvaluationNext
  BY <1>1 DEF EvaluationNext, ScopesNext, PromisesNext
<1>2. CASE UNCHANGED evaluationVars
  BY <1>2 DEF evaluationVars
<1>. QED
  BY <1>1, <1>2

\* Every run of the instance is one of its scopes and one of its promises.
THEOREM EvaluationIsBoth == EvaluationSpec => ScopesSpec /\ PromisesSpec
<1>1. EvaluationInit => ScopesInit /\ PromisesInit
  BY DEF EvaluationInit
<1>. QED
  BY <1>1, StepOfEither, PTL DEF EvaluationSpec, ScopesSpec, PromisesSpec

-----------------------------------------------------------------------------
(* The kinds of the calls on the stack *)

Positions(s, kind) == {i \in DOMAIN s : s[i] = kind}

LEMMA PositionsFinite ==
  ASSUME NEW s \in Seq(Kinds), NEW kind
  PROVE  IsFiniteSet(Positions(s, kind)) /\ Cardinality(Positions(s, kind)) \in Nat
<1>1. DOMAIN s = 1..Len(s) /\ Len(s) \in Nat
  OBVIOUS
<1>2. IsFiniteSet(1..Len(s))
  BY <1>1, FS_Interval
<1>3. Positions(s, kind) \in SUBSET (1..Len(s))
  BY <1>1 DEF Positions
<1>. QED
  BY <1>2, <1>3, FS_Subset, FS_CardinalityType

\* A call that is entered adds one to the calls of its kind.
LEMMA EnteredCount ==
  ASSUME frames \in Seq(Kinds), NEW kind \in Kinds, Entered(kind)
  PROVE  /\ frames' \in Seq(Kinds)
         /\ Count(kind)' = Count(kind) + 1
         /\ \A other \in Kinds \ {kind} : Count(other)' = Count(other)
<1> DEFINE last == Len(frames) + 1
<1>1. /\ frames' = Append(frames, kind)
      /\ frames' \in Seq(Kinds)
      /\ DOMAIN frames' = DOMAIN frames \cup {last} /\ last \notin DOMAIN frames
      /\ \A i \in DOMAIN frames : frames'[i] = frames[i]
      /\ frames'[last] = kind
  BY DEF Entered
<1>2. Positions(frames', kind) = Positions(frames, kind) \cup {last}
  BY <1>1 DEF Positions
<1>3. \A other \in Kinds \ {kind} : Positions(frames', other) = Positions(frames, other)
  BY <1>1 DEF Positions
<1>4. last \notin Positions(frames, kind)
  BY <1>1 DEF Positions
<1>5. Cardinality(Positions(frames', kind)) = Cardinality(Positions(frames, kind)) + 1
  BY <1>2, <1>4, PositionsFinite, FS_AddElement
<1>. QED
  BY <1>1, <1>3, <1>5 DEF Count, Positions

\* A call that is left takes one away.
LEMMA LeftCount ==
  ASSUME frames \in Seq(Kinds), NEW kind \in Kinds, Left(kind)
  PROVE  /\ frames' \in Seq(Kinds)
         /\ Count(kind) \in Nat
         /\ Count(kind)' = Count(kind) - 1
         /\ \A other \in Kinds \ {kind} : Count(other)' = Count(other)
<1> DEFINE last == Len(frames)
<1>1. /\ frames' \in Seq(Kinds)
      /\ DOMAIN frames' = DOMAIN frames \ {last} /\ last \in DOMAIN frames
      /\ \A i \in DOMAIN frames' : frames'[i] = frames[i]
      /\ frames[last] = kind
  BY DEF Left
<1>2. Positions(frames', kind) = Positions(frames, kind) \ {last}
  BY <1>1 DEF Positions
<1>3. \A other \in Kinds \ {kind} : Positions(frames', other) = Positions(frames, other)
  BY <1>1 DEF Positions
<1>4. last \in Positions(frames, kind)
  BY <1>1 DEF Positions
<1>5. Cardinality(Positions(frames', kind)) = Cardinality(Positions(frames, kind)) - 1
  BY <1>2, <1>4, PositionsFinite, FS_RemoveElement
<1>6. \A k \in Kinds : /\ Count(k)  = Cardinality(Positions(frames, k))
                        /\ Count(k)' = Cardinality(Positions(frames', k))
  BY DEF Count, Positions
<1>7. Cardinality(Positions(frames, kind)) \in Nat
  BY PositionsFinite
<1>. QED
  BY <1>1, <1>3, <1>5, <1>6, <1>7

Counted ==
  /\ frames \in Seq(Kinds)
  /\ Count("scope") = Len(scopes) /\ Count("promise") = Len(forcing)

LEMMA CountedInit == EvaluationInit => Counted
<1> SUFFICES ASSUME EvaluationInit
             PROVE  Counted
  OBVIOUS
<1>1. frames = <<>> /\ scopes = <<>> /\ forcing = <<>>
  BY DEF EvaluationInit, ScopesInit, PromisesInit
<1>2. \A kind \in Kinds : {i \in DOMAIN frames : frames[i] = kind} = {}
  BY <1>1
<1>3. \A kind \in Kinds : Count(kind) = 0
  BY <1>2, FS_EmptySet DEF Count
<1>. QED
  BY <1>1, <1>3 DEF Counted, Kinds

\* The lengths of the two stacks change with the calls of their kinds.
LEMMA CountedStep ==
  ASSUME Counted, ScopesInv, PInv, [EvaluationNext]_evaluationVars
  PROVE  Counted'
<1> USE DEF Counted
<1>1. scopes \in Seq(Scope) /\ forcing \in Seq(Forcing)
  BY DEF ScopesInv, ScopesTyped, PInv, PromisesTypeOK
<1>2. CASE OpenScope /\ Entered("scope") /\ UNCHANGED promiseVars
  <2>1. Len(scopes') = Len(scopes) + 1 /\ forcing' = forcing
    BY <1>1, <1>2 DEF OpenScope, promiseVars
  <2>. QED
    BY <1>2, <2>1, EnteredCount DEF Kinds
<1>3. CASE CloseScope /\ Left("scope") /\ UNCHANGED promiseVars
  <2>1. Len(scopes') = Len(scopes) - 1 /\ forcing' = forcing
    BY <1>1, <1>3 DEF CloseScope, promiseVars
  <2>. QED
    BY <1>3, <2>1, LeftCount DEF Kinds
<1>4. CASE UNCHANGED <<frames, scopes>> /\ Len(forcing') = Len(forcing)
  BY <1>4 DEF Count
<1>5. RootsMove => UNCHANGED scopes
  BY DEF RootsMove, Protect, Claim, DropGuard, Unprotect
<1>6. ASSUME NEW p \in Promises, Begin(p), Entered("promise"), UNCHANGED scopeVars
      PROVE  Counted'
  <2>1. Len(forcing') = Len(forcing) + 1 /\ scopes' = scopes
    BY <1>1, <1>6 DEF Begin, scopeVars
  <2>. QED
    BY <1>6, <2>1, EnteredCount DEF Kinds
<1>7. CASE Ended /\ Left("promise") /\ UNCHANGED scopeVars
  <2>1. forcing # <<>> /\ forcing' = Outer /\ scopes' = scopes
    BY <1>7 DEF Ended, WarningAborts, Publish, Interrupt, InStage, scopeVars
  <2>2. Len(forcing') = Len(forcing) - 1
    BY <1>1, <2>1 DEF Outer
  <2>. QED
    BY <1>7, <2>1, <2>2, LeftCount DEF Kinds
<1>8. WarningReturns => Len(forcing') = Len(forcing)
  BY <1>1 DEF WarningReturns
<1>9. CASE UNCHANGED evaluationVars
  BY <1>4, <1>9 DEF evaluationVars, scopeVars, promiseVars
<1>. QED
  BY <1>2, <1>3, <1>4, <1>5, <1>6, <1>7, <1>8, <1>9
  DEF EvaluationNext, promiseVars, scopeVars

\* The stack of the instance is well-typed: its frames are the open scopes and
\* the promises being forced, each once.
THEOREM EvaluationTyped == EvaluationSpec => []EvaluationTypeOK
<1>1. ScopesInv /\ PInv /\ Counted => EvaluationTypeOK
  BY DEF ScopesInv, ScopesTyped, StorageInv, PInv, Counted, EvaluationTypeOK, ScopesTypeOK
<1>2. Counted /\ ScopesInv /\ PInv /\ [EvaluationNext]_evaluationVars => Counted'
  BY CountedStep
<1>3. EvaluationSpec => []ScopesInv
  BY EvaluationIsBoth, ScopesInvariance, PTL
<1>4. EvaluationSpec => []PInv
  BY EvaluationIsBoth, PromisesInvariance, PTL
<1>. QED
  BY <1>1, <1>2, <1>3, <1>4, CountedInit, PTL DEF EvaluationSpec

-----------------------------------------------------------------------------
(* What holds of each holds of both *)

\* No evaluation leaves a root of its own behind, whatever is being forced in it.
THEOREM NoEvaluationLeaksRoots == EvaluationSpec => []NoRootOutlivesScope
BY EvaluationIsBoth, NoRootLeaks, PTL

\* The positions that the open scopes noted stay in order.
THEOREM EvaluationsNest == EvaluationSpec => []ScopesNested
BY EvaluationIsBoth, PositionsNested, PTL

\* No evaluation takes a root of the ones around it.
THEOREM OuterEvaluationsKeepRoots == EvaluationSpec => OuterRootsSurvive
BY EvaluationIsBoth, OnlyOwnRootsGo, PTL

\* No promise is evaluated again while it is being forced.
THEOREM EvaluatedOnceAtATime == EvaluationSpec => []ForcedOnce
BY EvaluationIsBoth, NeverForcedTwice, PTL

\* However a force is left, its promise can be forced again or has its value.
THEOREM ForcesSettle == EvaluationSpec => []Settled
BY EvaluationIsBoth, AlwaysSettled, PTL

\* However evaluations, scopes and forced promises nest and fail: the slot table
\* keeps its promises, and cleaning up after any of them needs no memory
\* (root_storage.rs:24-25).
THEOREM EvaluationKeepsTable ==
  EvaluationSpec => /\ []FreeIsVacancies
                    /\ []GenerationsDistinct
                    /\ []ReleaseNeedsNoRoom
                    /\ ImplementsLeases
BY EvaluationIsBoth, ScopesUseTable, StorageSafe, RoomForEveryRelease,
   StorageImplementsLeases, PTL
=============================================================================
