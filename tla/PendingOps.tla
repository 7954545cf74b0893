----------------------------- MODULE PendingOps -----------------------------
(***************************************************************************)
(* What a zeromq.js socket promises about its asynchronous operations,     *)
(* whatever libzmq, libuv and the worker pool do underneath:               *)
(*   - there is one slot per direction: an operation can only begin while  *)
(*     its slot is free and the socket is not closed;                      *)
(*   - an operation leaves its slot by being settled, exactly once;        *)
(*   - closing is final, and closing makes every operation still pending   *)
(*     due;                                                                *)
(*   - a due operation (one with a deadline, one that only waits for the   *)
(*     next tick, or any one left on a closed socket) is settled in the    *)
(*     end.                                                                *)
(* Socket.tla implements this module (see Socket!Ops).                     *)
(***************************************************************************)
EXTENDS FiniteSets

CONSTANT Slots          \* the directions that can each hold one operation

VARIABLES
  pending,              \* the slots that hold an unsettled promise
  due,                  \* those among them that are bound to be settled
  closed                \* the socket has been closed

vars == <<pending, due, closed>>

Init ==
  /\ pending = {}
  /\ due = {}
  /\ closed = FALSE

(* An operation that could not complete at once takes its slot; it is due  *)
(* when it carries a deadline or waits for nothing but the next tick.      *)
Begin(s) ==
  /\ ~closed
  /\ s \notin pending
  /\ pending' = pending \cup {s}
  /\ due' \in {due, due \cup {s}}
  /\ UNCHANGED closed

Settle(S) ==
  /\ S # {}
  /\ S \subseteq pending
  /\ pending' = pending \ S
  /\ due' = due \ S
  /\ UNCHANGED closed

(* Closing settles some operations at once and makes the others due.       *)
Close ==
  /\ ~closed
  /\ closed' = TRUE
  /\ pending' \subseteq pending
  /\ due' = pending'

Next ==
  \/ \E s \in Slots : Begin(s)
  \/ \E S \in SUBSET Slots : Settle(S)
  \/ Close

SafeSpec == Init /\ [][Next]_vars

SettleDue(s) == s \in due /\ \E S \in SUBSET Slots : s \in S /\ Settle(S)

Spec == SafeSpec /\ \A s \in Slots : WF_vars(SettleDue(s))
=============================================================================
