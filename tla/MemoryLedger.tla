---------------------------- MODULE MemoryLedger ----------------------------
(***************************************************************************)
(* The bytes of one heap (crates/rmath/src/sexp/memory/ledger.rs and the   *)
(* reservations of memory/arena.rs).  What is allocated is known to the    *)
(* interpreter thread alone; what is reserved is an atomic counter, since  *)
(* a reservation turned into a Send ticket is dropped by any thread.  Each *)
(* change of the counter is a loop: read it, compute, compare-and-swap.    *)
(*                                                                         *)
(* Tickets are the diagnostics that may be under way at the same time.     *)
(***************************************************************************)
EXTENDS Integers, FiniteSets, Functions

CONSTANTS Tickets,
          Limit        \* max_bytes; 0 is no limit

ASSUME LedgerAssumption == Limit \in Nat /\ IsFiniteSet(Tickets)

VARIABLES allocated,   \* allocated: bytes of storage that exists
          transient,   \* transient: bytes reserved
          tickets      \* tickets[k]: [bytes, seen], a SendWorkspaceReservation

ledgerVars == <<allocated, transient, tickets>>

Unread  == -1          \* a loop that has not read the counter
Bytes   == Nat
Seen    == Nat \cup {Unread}
NoBytes == [bytes |-> 0, seen |-> Unread]

LedgerTypeOK ==
  /\ allocated \in Bytes /\ transient \in Bytes
  /\ tickets \in [Tickets -> [bytes : Bytes, seen : Seen]]

LedgerInit ==
  /\ allocated = 0 /\ transient = 0
  /\ tickets = [k \in Tickets |-> NoBytes]

-----------------------------------------------------------------------------

\* Judged without what is allocated.
BugFits(reserved) == Limit = 0 \/ reserved <= Limit

\* The bytes allocated, and these reserved, are within the limit.
Fits(reserved) == Limit = 0 \/ allocated + reserved <= Limit

\* A store: what another thread released since the read comes back.
BugSwap(seen, new) == transient' = new

\* compare_exchange; it may also fail without reason, see Retry and TicketRetry.
Swap(seen, new) == transient = seen /\ transient' = new

Free == {k \in Tickets : tickets[k] = NoBytes}

\* into_send, by the interpreter thread.
MakeTicket(k, bytes) == tickets' = [tickets EXCEPT ![k].bytes = bytes]

-----------------------------------------------------------------------------
(* TransientCounter::release of a ticket, on whatever thread drops it *)

TicketRead(k) ==
  /\ tickets[k].bytes > 0 /\ tickets[k].seen = Unread
  /\ tickets' = [tickets EXCEPT ![k].seen = transient]
  /\ UNCHANGED <<allocated, transient>>

TicketReleased(k) ==
  /\ tickets[k].seen # Unread
  /\ tickets[k].bytes <= tickets[k].seen
  /\ Swap(tickets[k].seen, tickets[k].seen - tickets[k].bytes)
  /\ tickets' = [tickets EXCEPT ![k] = NoBytes]
  /\ UNCHANGED allocated

TicketRetry(k) ==
  /\ tickets[k].seen # Unread
  /\ tickets' = [tickets EXCEPT ![k].seen = Unread]
  /\ UNCHANGED <<allocated, transient>>

OtherThread == \E k \in Tickets : TicketRead(k) \/ TicketReleased(k) \/ TicketRetry(k)

TicketBytes == SumFunction([k \in Tickets |-> tickets[k].bytes])
=============================================================================
