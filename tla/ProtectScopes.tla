--------------------------- MODULE ProtectScopes ---------------------------
(***************************************************************************)
(* Protection scopes of an interpreter instance: a ProtectScope notes the  *)
(* depth of the protection stack and a checkpoint of the root table when   *)
(* an evaluation is entered, and unwinds both when it is left, by return   *)
(* or by error (crates/rmath/src/sexp/session/guards.rs), while guards     *)
(* (protect/guards.rs) and translated C code claim and release roots.      *)
(*                                                                         *)
(* Scopes nest, because each is a local of the call that opened it.        *)
(***************************************************************************)
EXTENDS RootStorage, Sequences

CONSTANTS MaxDepth, MaxLease, \* as in RootSequence
          MaxScopes           \* depth of nested evaluations

ASSUME ScopesAssumption == MaxScopes \in Nat /\ MaxDepth \in Nat /\ MaxLease \in Nat

VARIABLES protected,  \* legacy_protect: entries
          nextLease,  \* legacy_protect: next_lease
          scopes,     \* the open scopes, outermost first: [depth, checkpoint]
          home        \* history: home[g], the scopes open when lease g was made

scopeVars == <<storageVars, protected, nextLease, scopes, home>>

Stack == INSTANCE RootSequence WITH entries <- protected, snapshot <- {}

Scope == [depth : 0..MaxDepth, checkpoint : 0..MaxGeneration]

ScopesTypeOK ==
  /\ StorageTypeOK
  /\ Stack!SequenceTypeOK
  /\ scopes \in Seq(Scope) /\ Len(scopes) <= MaxScopes
  /\ home \in [Generations -> 0..MaxScopes]

ScopesInit ==
  /\ StorageInit
  /\ protected = <<>> /\ nextLease = 0
  /\ scopes = <<>>
  /\ home = [g \in Generations |-> 0]

-----------------------------------------------------------------------------

\* The checkpoint leaves out the lease that is claimed next.
BugOpenScope ==
  /\ Len(scopes) < MaxScopes
  /\ scopes' = Append(scopes, [depth |-> Len(protected), checkpoint |-> next + 1])
  /\ UNCHANGED <<storageVars, protected, nextLease, home>>

\* ProtectScope::new
OpenScope ==
  /\ Len(scopes) < MaxScopes
  /\ scopes' = Append(scopes, [depth |-> Len(protected), checkpoint |-> next])
  /\ UNCHANGED <<storageVars, protected, nextLease, home>>

BugClosing == scopes[1]

\* The scope that is left: the innermost.
Closing == scopes[Len(scopes)]

\* Only the protection stack is unwound.
BugCloseScope ==
  /\ scopes # <<>>
  /\ Stack!Truncate(Closing.depth)
  /\ scopes' = SubSeq(scopes, 1, Len(scopes) - 1)
  /\ UNCHANGED <<storageVars, home>>

\* Drop for ProtectScope
CloseScope ==
  /\ scopes # <<>>
  /\ Stack!Truncate(Closing.depth)
  /\ Restore(Closing.checkpoint)
  /\ scopes' = SubSeq(scopes, 1, Len(scopes) - 1)
  /\ UNCHANGED home

\* A guard (managed) or protect() and R_ProtectWithIndex (not managed).
Claim(value, managed) ==
  /\ ClaimVacant(value, managed) \/ ClaimFresh(value, managed)
  /\ home' = [home EXCEPT ![next] = Len(scopes)]
  /\ UNCHANGED <<protected, nextLease, scopes>>

\* Dropping a guard, also one whose lease a scope has ended.
DropGuard(h) ==
  /\ Release(h)
  /\ UNCHANGED <<protected, nextLease, scopes, home>>

Protect(value) ==
  /\ Stack!TryPush(value)
  /\ UNCHANGED <<storageVars, scopes, home>>

\* unprotect_count_in, by code that pops what it pushed: "LIFO discipline is the
\* CALLER's responsibility (as in C)" (stacks.rs:54).
Unprotect(count) ==
  /\ count <= Len(protected) - (IF scopes = <<>> THEN 0 ELSE scopes[Len(scopes)].depth)
  /\ Stack!PopCount(count)
  /\ UNCHANGED <<storageVars, scopes, home>>

RootsMove ==
  \/ \E value \in Values : Protect(value) \/ \E managed \in BOOLEAN : Claim(value, managed)
  \/ \E h \in issued : DropGuard(h)
  \/ \E count \in 1..MaxDepth : Unprotect(count)

ScopesNext == OpenScope \/ CloseScope \/ RootsMove

ScopesSpec == ScopesInit /\ [][ScopesNext]_scopeVars

-----------------------------------------------------------------------------
(* Properties *)

\* No root outlives its scope, unless a guard owns it: what an evaluation
\* protected and did not release is gone once it was left, however the scopes
\* nest and whatever slots were recycled in between.
NoRootOutlivesScope ==
  \A lease \in Leases : lease.managed \/ home[lease.generation] <= Len(scopes)

\* The open scopes have noted positions that still make sense: no entry below a
\* noted depth is gone, and the checkpoints are in order.
ScopesNested ==
  /\ \A k \in DOMAIN scopes : scopes[k].depth <= Len(protected)
  /\ \A j, k \in DOMAIN scopes : j < k => /\ scopes[j].depth <= scopes[k].depth
                                          /\ scopes[j].checkpoint <= scopes[k].checkpoint

\* Leaving a scope takes nothing from the ones around it, nor from a guard: a
\* root goes with the scope it was made in, or when its handle is dropped.
OuterRootsSurvive ==
  [][\A lease \in Leases :
       \/ lease \in Leases'
       \/ call' = [op |-> "release", arg |-> lease.generation]
       \/ ~lease.managed /\ home[lease.generation] > Len(scopes')]_scopeVars
=============================================================================
