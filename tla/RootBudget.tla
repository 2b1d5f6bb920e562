----------------------------- MODULE RootBudget -----------------------------
(***************************************************************************)
(* A root sequence that pays for its buffer: a push that finds it full     *)
(* reserves the bytes of a larger one, allocates it beside the old one,    *)
(* turns the reservation into a charge and only then gives the old buffer  *)
(* and its charge up (root_sequence.rs:62-105).  Meanwhile other threads   *)
(* drop tickets of the same ledger.                                        *)
(*                                                                         *)
(* A byte is the room for one entry.  work is what the interpreter thread  *)
(* is in: a push, or the making of a diagnostic for another thread.        *)
(***************************************************************************)
EXTENDS RootSequence, MemoryLedger

CONSTANTS NoValue,
          FirstCapacity, \* 4: the smallest buffer that is asked for
          MaxRounding,   \* entries an allocator may give beyond the request
          MaxTicket      \* bytes of the largest diagnostic

ASSUME BudgetAssumption ==
  NoValue \notin Values /\ FirstCapacity \in Nat \ {0} /\ MaxRounding \in Nat /\ MaxTicket \in Nat

VARIABLES capacity,  \* room of the buffer; its charge is as many bytes
          work       \* [stage, value, held, want, seen]

budgetVars == <<sequenceVars, ledgerVars, capacity, work>>

Admitting == {"desired", "needed", "diagnostic"}
Releasing == {"committed", "failed"}
Loops     == Admitting \cup Releasing \cup {"resize"}
Stages    == Loops \cup {"idle", "allocate", "commit", "install", "send"}

Work == [stage : Stages, value : Values \cup {NoValue}, held : Bytes, want : Bytes, seen : Seen]

NoWork == [stage |-> "idle", value |-> NoValue, held |-> 0, want |-> 0, seen |-> Unread]

BudgetTypeOK ==
  /\ SequenceTypeOK
  /\ LedgerTypeOK
  /\ capacity \in Bytes /\ Len(entries) <= capacity
  /\ work \in Work

BudgetInit ==
  /\ SequenceInit
  /\ LedgerInit
  /\ capacity = 0
  /\ work = NoWork

At(stages)  == work.stage \in stages
GoTo(stage) == [work EXCEPT !.stage = stage, !.seen = Unread]

\* Bytes that transient counts for what the interpreter thread is doing, and
\* bytes that allocated counts for a buffer that is not the sequence's yet.
Reserved == IF At({"idle", "install"}) THEN 0 ELSE work.held
Pending  == IF At({"committed", "install"}) THEN work.held ELSE 0

-----------------------------------------------------------------------------
(* The start of a push, of a diagnostic *)

Desired == Max({2 * capacity, Len(entries) + 1, FirstCapacity})

Entered(value) ==
  /\ entries' = Append(entries, [lease |-> nextLease, value |-> value])
  /\ nextLease' = nextLease + 1
  /\ UNCHANGED snapshot

PushInPlace(value) ==
  /\ At({"idle"}) /\ LeaseLeft /\ Len(entries) < capacity
  /\ Entered(value)
  /\ UNCHANGED <<ledgerVars, capacity, work>>

PushNeedsRoom(value) ==
  /\ At({"idle"}) /\ LeaseLeft /\ Len(entries) = capacity
  /\ work' = [work EXCEPT !.stage = "desired", !.value = value, !.want = Desired]
  /\ UNCHANGED <<sequenceVars, ledgerVars, capacity>>

MakeDiagnostic(bytes) ==
  /\ At({"idle"}) /\ Free # {}
  /\ work' = [work EXCEPT !.stage = "diagnostic", !.want = bytes]
  /\ UNCHANGED <<sequenceVars, ledgerVars, capacity>>

-----------------------------------------------------------------------------
(* The loops on the counter *)

\* A resize that adds to what is held.
BugReserving == work.seen + work.want

\* The counter once the loop is done: try_resize replaces what is held.
Reserving ==
  IF At({"resize"}) THEN work.seen - work.held + work.want ELSE work.seen + work.want

Read ==
  /\ At(Loops) /\ work.seen = Unread
  /\ work' = [work EXCEPT !.seen = transient]
  /\ UNCHANGED <<sequenceVars, ledgerVars, capacity>>

Retry ==
  /\ At(Loops) /\ work.seen # Unread
  /\ work' = [work EXCEPT !.seen = Unread]
  /\ UNCHANGED <<sequenceVars, ledgerVars, capacity>>

\* Giving bytes back always fits.
Admissible == (At({"resize"}) /\ work.want <= work.held) \/ Fits(Reserving)

Granted ==
  CASE At({"desired", "needed"}) -> "allocate"
    [] At({"diagnostic"})        -> "send"
    [] At({"resize"})            -> "commit"

Admit ==
  /\ At(Admitting \cup {"resize"}) /\ work.seen # Unread
  /\ Admissible
  /\ Swap(work.seen, Reserving)
  /\ work' = [GoTo(Granted) EXCEPT !.held = work.want]
  /\ UNCHANGED <<sequenceVars, allocated, tickets, capacity>>

\* The smaller buffer is tried next; a refused push or diagnostic fails.
Refuse ==
  /\ At(Admitting \cup {"resize"}) /\ work.seen # Unread
  /\ ~Admissible
  /\ work' = CASE At({"desired"}) -> [GoTo("needed") EXCEPT !.want = Len(entries) + 1]
               [] At({"resize"})  -> GoTo("failed")
               [] OTHER           -> NoWork
  /\ UNCHANGED <<sequenceVars, ledgerVars, capacity>>

\* Drop for TransientReservation, of a buffer that is now charged or that failed.
DropReservation ==
  /\ At(Releasing) /\ work.seen # Unread
  /\ work.held <= work.seen
  /\ Swap(work.seen, work.seen - work.held)
  /\ work' = IF At({"committed"}) THEN GoTo("install") ELSE NoWork
  /\ UNCHANGED <<sequenceVars, allocated, tickets, capacity>>

-----------------------------------------------------------------------------
(* What the interpreter thread does in between *)

\* try_reserve_exact
Allocate ==
  /\ At({"allocate"})
  /\ \/ work' = GoTo("failed")
     \/ \E extra \in 0..MaxRounding :
          work' = [GoTo("resize") EXCEPT !.want = work.held + extra]
  /\ UNCHANGED <<sequenceVars, ledgerVars, capacity>>

CommitAllocation ==
  /\ At({"commit"})
  /\ allocated' = allocated + work.held
  /\ work' = GoTo("committed")
  /\ UNCHANGED <<sequenceVars, transient, tickets, capacity>>

\* The entries move, the old buffer goes, and its charge with it; then the push.
Install ==
  /\ At({"install"})
  /\ allocated' = allocated - capacity
  /\ capacity' = work.held
  /\ Entered(work.value)
  /\ work' = NoWork
  /\ UNCHANGED <<transient, tickets>>

SendDiagnostic ==
  /\ At({"send"})
  /\ \E k \in Free : MakeTicket(k, work.held)
  /\ work' = NoWork
  /\ UNCHANGED <<sequenceVars, allocated, transient, capacity>>

\* The rest of the sequence's calls, and the parts of an update.
OtherCall ==
  /\ At({"idle"})
  /\ \/ /\ \/ \E value \in Values : RemoveFirstRoot(value) \/ RemoveLastRoot(value)
           \/ \E depth \in 0..MaxDepth : Truncate(depth) \/ PopCount(depth)
           \/ \E lease \in Leases : RemoveLease(lease)
        /\ UNCHANGED snapshot
     \/ ReadSnapshot
     \/ \E read \in snapshot, value \in Values : Update(read, value)
  /\ UNCHANGED <<ledgerVars, capacity, work>>

Interpreter ==
  \/ \E value \in Values : PushInPlace(value) \/ PushNeedsRoom(value)
  \/ \E bytes \in 1..MaxTicket : MakeDiagnostic(bytes)
  \/ Read \/ Retry \/ Admit \/ Refuse \/ DropReservation
  \/ Allocate \/ CommitAllocation \/ Install \/ SendDiagnostic
  \/ OtherCall

BudgetNext ==
  \/ Interpreter
  \/ OtherThread /\ UNCHANGED <<sequenceVars, capacity, work>>

BudgetSpec == BudgetInit /\ [][BudgetNext]_budgetVars

-----------------------------------------------------------------------------
(* Properties *)

\* The counters say what exists: every reserved byte belongs to a reservation or
\* a ticket that is still to be dropped, every allocated byte to a buffer.  So
\* the subtractions of ledger.rs:38 and ledger.rs:125 never fail, whichever
\* thread drops what and when.
LedgerBalanced ==
  /\ transient = Reserved + TicketBytes
  /\ allocated = capacity + Pending

\* The limit holds for everything that exists or is promised, also while two
\* buffers coexist and tickets come back; only the bytes of a buffer that was
\* just charged are counted twice, until its reservation is dropped
\* (root_sequence.rs:80, arena.rs:1411).
BudgetHeld ==
  Limit = 0 \/ allocated + transient - (IF At({"committed"}) THEN work.held ELSE 0) <= Limit

\* To its callers a push is one step that succeeds or changes nothing, and the
\* limit bounds the depth of the sequence.
ImplementsSequence == SequenceSpec
=============================================================================
