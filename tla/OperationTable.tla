--------------------------- MODULE OperationTable ---------------------------
(***************************************************************************)
(* The registry of live and retained operations of one UniFFI session      *)
(* (crates/r-uniffi/src/uniffi/operation.rs).  Every method runs under the *)
(* table's mutex, so one method is one action.                             *)
(*                                                                         *)
(* entries is split into status (with "absent" for an id that has no       *)
(* entry), retained and token; payloads of outcomes are left out, because  *)
(* nothing in the table depends on them.  consumed and completed are       *)
(* history: which outcomes take_result handed out, and the order in which  *)
(* retained operations completed.                                          *)
(***************************************************************************)
EXTENDS OperationIds, SequencesExt

CONSTANTS Retention,    \* RETAINED_COMPLETED
          TombstoneCap  \* EXPIRED_TOMBSTONE_CAP

ASSUME RetentionAssumption == Retention \in Nat
ASSUME TombstoneCapAssumption == TombstoneCap \in Nat

VARIABLES status,      \* status[id]: state of the entry, or "absent"
          retained,    \* retained[id]: the entry outlives its completion
          token,       \* token[id]: the operation's cancellation token is set
          fifo,        \* completed_fifo
          expired,     \* the tombstones, oldest first
          expiredSet,  \* the same tombstones, for lookup
          registered,  \* history: ids ever registered
          consumed,    \* history: ids whose outcome take_result returned
          completed    \* history: retained ids in order of completion

tableVars == <<status, retained, token, fifo, expired, expiredSet,
               registered, consumed, completed>>

Pending   == {"queued", "running"}
Active    == Pending \cup {"cancelling"}
Outcomes  == {"succeeded", "failed", "cancelled"}
Statuses  == {"absent"} \cup Active \cup Outcomes

TableTypeOK ==
  /\ status \in [Ids -> Statuses]
  /\ retained \in [Ids -> BOOLEAN]
  /\ token \in [Ids -> BOOLEAN]
  /\ fifo \in Seq(Ids)
  /\ expired \in Seq(Ids)
  /\ expiredSet \subseteq Ids
  /\ registered \subseteq Ids
  /\ consumed \subseteq Ids
  /\ completed \in Seq(Ids)

TableInit ==
  /\ status = [id \in Ids |-> "absent"]
  /\ retained = [id \in Ids |-> FALSE]
  /\ token = [id \in Ids |-> FALSE]
  /\ fifo = <<>>
  /\ expired = <<>>
  /\ expiredSet = {}
  /\ registered = {}
  /\ consumed = {}
  /\ completed = <<>>

-----------------------------------------------------------------------------
(* Helpers *)

\* Slips the checks must catch: operators named Bug... stand in for the
\* definition that follows them, and nothing else uses them.
BugWithout(s, id) == s
BugWithoutHole(s, id) == [i \in DOMAIN s |-> IF s[i] = id THEN NoOp ELSE s[i]]

\* VecDeque::retain(|x| x != id) on a queue that holds id at most once.
Without(s, id) ==
  IF id \in ToSet(s) THEN RemoveAt(s, CHOOSE i \in DOMAIN s : s[i] = id) ELSE s

\* tombstone(id): push it, then drop the oldest beyond the cap.  The code's
\* loop runs at most once: one push follows at most TombstoneCap entries.
Tombstone(id) ==
  LET pushed == Append(expired, id)
      over   == Len(pushed) > TombstoneCap
  IN  /\ expired' = IF over THEN Tail(pushed) ELSE pushed
      /\ expiredSet' = IF over THEN (expiredSet \cup {id}) \ {Head(pushed)}
                               ELSE expiredSet \cup {id}

-----------------------------------------------------------------------------
(* Methods *)

Register(id, keep) ==
  /\ status' = [status EXCEPT ![id] = "queued"]
  /\ retained' = [retained EXCEPT ![id] = keep]
  /\ token' = [token EXCEPT ![id] = FALSE]
  /\ registered' = registered \cup {id}
  /\ UNCHANGED <<fifo, expired, expiredSet, consumed, completed>>

BugMarkRunning(id) ==
  /\ status' = [status EXCEPT ![id] = IF token[id] THEN "cancelling" ELSE "running"]
  /\ UNCHANGED <<retained, token, fifo, expired, expiredSet,
                 registered, consumed, completed>>

MarkRunning(id) ==
  /\ status' = IF status[id] = "queued"
               THEN [status EXCEPT ![id] = IF token[id] THEN "cancelling" ELSE "running"]
               ELSE status
  /\ UNCHANGED <<retained, token, fifo, expired, expiredSet,
                 registered, consumed, completed>>

\* complete() of a synchronous operation: the entry is removed at once; of an
\* id with no entry: nothing.
CompleteUnretained(id) ==
  /\ status[id] = "absent" \/ ~retained[id]
  /\ status' = [status EXCEPT ![id] = "absent"]
  /\ UNCHANGED <<retained, token, fifo, expired, expiredSet,
                 registered, consumed, completed>>

\* complete() of a retained operation that fits the retention window.
CompleteRetained(id, outcome) ==
  /\ status[id] # "absent" /\ retained[id]
  /\ Len(fifo) < Retention
  /\ status' = [status EXCEPT ![id] = outcome]
  /\ fifo' = Append(fifo, id)
  /\ completed' = Append(completed, id)
  /\ UNCHANGED <<retained, token, expired, expiredSet, registered, consumed>>

BugCompleteEvicting(id, outcome) ==
  LET pushed  == Append(fifo, id)
      evicted == Last(pushed)
  IN  /\ status[id] # "absent" /\ retained[id]
      /\ Len(fifo) >= Retention
      /\ status' = [[status EXCEPT ![id] = outcome] EXCEPT ![evicted] = "absent"]
      /\ fifo' = Front(pushed)
      /\ Tombstone(evicted)
      /\ completed' = Append(completed, id)
      /\ UNCHANGED <<retained, token, registered, consumed>>

\* complete() of a retained operation that pushes the oldest completion out.
\* The code's loop runs once: before the push the window held at most
\* Retention entries.
CompleteEvicting(id, outcome) ==
  LET pushed  == Append(fifo, id)
      evicted == Head(pushed)
  IN  /\ status[id] # "absent" /\ retained[id]
      /\ Len(fifo) >= Retention
      /\ status' = [[status EXCEPT ![id] = outcome] EXCEPT ![evicted] = "absent"]
      /\ fifo' = Tail(pushed)
      /\ Tombstone(evicted)
      /\ completed' = Append(completed, id)
      /\ UNCHANGED <<retained, token, registered, consumed>>

Complete(id, outcome) ==
  \/ CompleteUnretained(id)
  \/ CompleteRetained(id, outcome)
  \/ CompleteEvicting(id, outcome)

Forget(id) ==
  /\ status' = [status EXCEPT ![id] = "absent"]
  /\ UNCHANGED <<retained, token, fifo, expired, expiredSet,
                 registered, consumed, completed>>

\* take_result of a finished operation: the outcome leaves the table.
TakeOutcome(id) ==
  /\ status[id] \in Outcomes
  /\ status' = [status EXCEPT ![id] = "absent"]
  /\ fifo' = Without(fifo, id)
  /\ Tombstone(id)
  /\ consumed' = consumed \cup {id}
  /\ UNCHANGED <<retained, token, registered, completed>>

\* take_result of an id without an entry: its tombstone is reported once.
TakeTombstone(id) ==
  /\ status[id] = "absent" /\ id \in expiredSet
  /\ expiredSet' = expiredSet \ {id}
  /\ expired' = Without(expired, id)
  /\ UNCHANGED <<status, retained, token, fifo, registered, consumed, completed>>

\* take_result of an active or an unknown id only reads, so it is no action.
TakeResult(id) == TakeOutcome(id) \/ TakeTombstone(id)

BugCancelAll ==
  /\ status' = [id \in Ids |-> IF status[id] \in Pending THEN "cancelling" ELSE status[id]]
  /\ UNCHANGED <<retained, token, fifo, expired, expiredSet, registered, consumed, completed>>

CancelAll ==
  /\ status' = [id \in Ids |-> IF status[id] \in Pending THEN "cancelling" ELSE status[id]]
  /\ token' = [id \in Ids |-> token[id] \/ status[id] \in Pending]
  /\ UNCHANGED <<retained, fifo, expired, expiredSet, registered, consumed, completed>>

BugCancelOperation(id) ==
  /\ status[id] # "absent"
  /\ status' = [status EXCEPT ![id] = "cancelling"]
  /\ token' = [token EXCEPT ![id] = TRUE]
  /\ UNCHANGED <<retained, fifo, expired, expiredSet, registered, consumed, completed>>

\* Returns FALSE, and changes nothing, outside Pending.
CancelOperation(id) ==
  /\ status[id] \in Pending
  /\ status' = [status EXCEPT ![id] = "cancelling"]
  /\ token' = [token EXCEPT ![id] = TRUE]
  /\ UNCHANGED <<retained, fifo, expired, expiredSet, registered, consumed, completed>>

-----------------------------------------------------------------------------
(* The table under every order of calls its callers can make: an id is    *)
(* registered once, completed at most once and only then, and forgotten   *)
(* only before the worker could complete it.                              *)

Step(id) ==
  \/ id \notin registered /\ \E keep \in BOOLEAN : Register(id, keep)
  \/ MarkRunning(id)
  \/ status[id] \in Active /\ \E outcome \in Outcomes : Complete(id, outcome)
  \/ status[id] \in Active /\ Forget(id)
  \/ TakeResult(id)
  \/ CancelOperation(id)

TableNext == CancelAll \/ \E id \in Ids : Step(id)

TableSpec == TableInit /\ [][TableNext]_tableVars
-----------------------------------------------------------------------------
(* Properties *)

NoRepeats(s) == \A i, j \in DOMAIN s : s[i] = s[j] => i = j

\* The queues and the entries agree: completed_fifo holds exactly the finished
\* entries, each once and never more than Retention, all of them retained; the
\* two copies of the tombstones hold the same ids, each once, and none of them
\* has an entry.  complete, take_result and tombstone each update several of
\* these fields and rely on it (operation.rs:144-206, 242-253).
TableConsistent ==
  /\ ToSet(fifo) = {id \in Ids : status[id] \in Outcomes}
  /\ NoRepeats(fifo)
  /\ Len(fifo) <= Retention
  /\ \A id \in ToSet(fifo) : retained[id]
  /\ ToSet(expired) = expiredSet
  /\ NoRepeats(expired)
  /\ Len(expired) <= TombstoneCap
  /\ \A id \in expiredSet : status[id] = "absent" /\ id \in registered

\* A token is set exactly when the active entry says Cancelling: every cancel
\* entry point moves both under one lock, so the worker never runs an operation
\* as Running that was cancelled while queued (operation.rs:129-139, 210-235).
TokenMatchesStatus ==
  \A id \in Ids : status[id] \in Active => (token[id] <=> status[id] = "cancelling")

\* The last Retention retained completions can still be read, unless they were
\* consumed: eviction never takes a newer completion before an older one
\* (lib.rs:26-29, operation.rs:144-161).
WindowKept ==
  \A i \in DOMAIN completed :
    i > Len(completed) - Retention
      => \/ completed[i] \in consumed
         \/ status[completed[i]] \in Outcomes

\* take_result hands an outcome out at most once, and nothing brings a consumed
\* or evicted operation back (operation.rs:176-197).
ConsumedOnce ==
  [][\A id \in registered : status[id] = "absent" => status'[id] = "absent"]_tableVars

\* A recorded outcome is final: it is kept as it is or it leaves the table; a
\* cancellation that comes late does not change it (operation.rs:222-235).
OutcomeFinal ==
  [][\A id \in Ids : status[id] \in Outcomes => status'[id] \in {status[id], "absent"}]_tableVars
=============================================================================
