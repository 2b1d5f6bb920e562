---------------------------- MODULE OperationIds ----------------------------
(* The operation ids of one UniFFI session: the values its counter        *)
(* next_operation_id (crates/r-uniffi/src/uniffi/session.rs) hands out.    *)
EXTENDS Naturals

CONSTANTS Ids,
          NoOp   \* no operation

ASSUME IdsAssumption == Ids \subseteq Nat /\ NoOp \notin Ids
=============================================================================
