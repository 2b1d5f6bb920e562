----------------------------- MODULE Evaluation -----------------------------
(***************************************************************************)
(* The native stack of an interpreter instance: protected scopes of the    *)
(* host's calls and forced promises nest in any order, and an error may    *)
(* unwind any number of them before code in between catches it.  What a    *)
(* call undoes when it is left depends on its kind alone.                  *)
(***************************************************************************)
EXTENDS ProtectScopes, PromiseForcing

VARIABLE frames  \* the kinds of the calls, outermost first

evaluationVars == <<scopeVars, promiseVars, frames>>

Kinds == {"scope", "promise"}

Count(kind) == Cardinality({i \in DOMAIN frames : frames[i] = kind})

EvaluationTypeOK ==
  /\ ScopesTypeOK
  /\ PromisesTypeOK
  /\ frames \in Seq(Kinds)
  /\ Count("scope") = Len(scopes) /\ Count("promise") = Len(forcing)

EvaluationInit == ScopesInit /\ PromisesInit /\ frames = <<>>

Entered(kind) == frames' = Append(frames, kind)

Left(kind) ==
  /\ frames # <<>> /\ frames[Len(frames)] = kind
  /\ frames' = SubSeq(frames, 1, Len(frames) - 1)

EvaluationNext ==
  \/ /\ \/ OpenScope /\ Entered("scope")
        \/ CloseScope /\ Left("scope")
        \/ RootsMove /\ UNCHANGED frames
     /\ UNCHANGED promiseVars
  \/ /\ \/ \E p \in Promises : Begin(p) /\ Entered("promise")
        \/ Ended /\ Left("promise")
        \/ WarningReturns /\ frames[Len(frames)] = "promise" /\ UNCHANGED frames
     /\ UNCHANGED scopeVars

EvaluationSpec == EvaluationInit /\ [][EvaluationNext]_evaluationVars
=============================================================================
