--------------------------- MODULE PromiseForcing ---------------------------
(***************************************************************************)
(* The forcing of promises (crates/rmath/src/sexp/envir/promise_state.rs,  *)
(* and force_promise_result of sexp/envir.rs).  A promise without a value  *)
(* notes in its gp field whether it was seen: 0 it was not, 1 it is being  *)
(* evaluated, 2 its evaluation was interrupted.  To force it in state 2    *)
(* first signals a warning, and a handler of that may be R code.           *)
(*                                                                         *)
(* What is being forced are calls on the native stack, so the innermost is *)
(* left first, by a value or by an error that unwinds it.                  *)
(***************************************************************************)
EXTENDS Naturals, Sequences

CONSTANTS Promises

VARIABLES gp,       \* gp[p]: PRSEEN
          valued,   \* the promises whose value is set
          forcing,  \* the calls of force_promise_result, outermost first
          aborted   \* history: the promises whose restart warning did not return

promiseVars == <<gp, valued, forcing, aborted>>

Stages  == {"warning", "evaluating"}
Forcing == [promise : Promises, stage : Stages]

PromisesTypeOK ==
  /\ gp \in [Promises -> 0..2]
  /\ valued \subseteq Promises /\ aborted \subseteq Promises
  /\ forcing \in Seq(Forcing)

PromisesInit ==
  /\ gp = [p \in Promises |-> 0]
  /\ valued = {} /\ aborted = {}
  /\ forcing = <<>>

Innermost      == forcing[Len(forcing)]
InStage(stage) == forcing # <<>> /\ Innermost.stage = stage
Outer          == SubSeq(forcing, 1, Len(forcing) - 1)

-----------------------------------------------------------------------------

\* A promise that is being evaluated counts as interrupted.
BugAdmitted(p) == p \notin valued

\* A promise with a value answers with it; one in state 1 is an error, and so is
\* not forced again.
Admitted(p) == p \notin valued /\ gp[p] # 1

\* Admission::begin
Begin(p) ==
  /\ Admitted(p)
  /\ gp' = [gp EXCEPT ![p] = 1]
  /\ forcing' = Append(forcing, [promise |-> p,
                                 stage |-> IF gp[p] = 0 THEN "evaluating" ELSE "warning"])
  /\ UNCHANGED <<valued, aborted>>

\* Restart::enter
WarningReturns ==
  /\ InStage("warning")
  /\ forcing' = [forcing EXCEPT ![Len(forcing)].stage = "evaluating"]
  /\ UNCHANGED <<gp, valued, aborted>>

\* The warning unwinds, as an error or to a handler: no guard is armed yet.
WarningAborts ==
  /\ InStage("warning")
  /\ forcing' = Outer
  /\ aborted' = aborted \cup {Innermost.promise}
  /\ UNCHANGED <<gp, valued>>

\* Evaluation::publish
Publish ==
  /\ InStage("evaluating")
  /\ valued' = valued \cup {Innermost.promise}
  /\ gp' = [gp EXCEPT ![Innermost.promise] = 0]
  /\ forcing' = Outer
  /\ UNCHANGED aborted

\* A guard that is not armed.
BugInterrupt ==
  /\ InStage("evaluating")
  /\ forcing' = Outer
  /\ UNCHANGED <<gp, valued, aborted>>

\* Drop for Evaluation, after an error in the evaluation or in publish.
Interrupt ==
  /\ InStage("evaluating")
  /\ gp' = [gp EXCEPT ![Innermost.promise] = 2]
  /\ forcing' = Outer
  /\ UNCHANGED <<valued, aborted>>

Ended == WarningAborts \/ Publish \/ Interrupt

PromisesNext == (\E p \in Promises : Begin(p)) \/ WarningReturns \/ Ended

PromisesSpec == PromisesInit /\ [][PromisesNext]_promiseVars

-----------------------------------------------------------------------------
(* Properties *)

\* A promise is never evaluated again while it is being forced, neither by its
\* own expression nor by the handler of its restart warning: it occurs once among
\* the calls, is marked seen throughout and gets its value only then
\* (promise_state.rs:49-60).
ForcedOnce ==
  /\ \A i, j \in DOMAIN forcing : forcing[i].promise = forcing[j].promise => i = j
  /\ \A i \in DOMAIN forcing : LET p == forcing[i].promise
                               IN  gp[p] = 1 /\ p \notin valued /\ p \notin aborted

\* However an evaluation is left, its promise can be forced again or has its
\* value, unless the restart warning itself was aborted: "If the warning aborts
\* (including warn=2), state remains evaluating" (promise_state.rs:62-64).
Settled ==
  \A p \in Promises : gp[p] = 1 => \/ \E i \in DOMAIN forcing : forcing[i].promise = p
                                   \/ p \in aborted
=============================================================================
