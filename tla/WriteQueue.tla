----------------------------- MODULE WriteQueue -----------------------------
(***************************************************************************)
(* What an asynchronous write path promises its callers, whatever buffers  *)
(* it: a write that was accepted is settled (tried against the storage)    *)
(* once, and the queue closes only when it owes nothing.                   *)
(***************************************************************************)
CONSTANT Writes

VARIABLES
  accepted,  \* the writes callers were told are on their way
  settled,   \* those among them that were given to the storage
  closed     \* has the storage been taken away?

Init ==
  /\ accepted = {}
  /\ settled = {}
  /\ closed = FALSE

Accept(w) ==
  /\ ~closed
  /\ w \notin accepted
  /\ accepted' = accepted \union {w}
  /\ UNCHANGED <<settled, closed>>

Settle(w) ==
  /\ ~closed
  /\ w \in accepted \ settled
  /\ settled' = settled \union {w}
  /\ UNCHANGED <<accepted, closed>>

Close ==
  /\ accepted = settled
  /\ closed' = TRUE
  /\ UNCHANGED <<accepted, settled>>

Next == Close \/ \E w \in Writes : Accept(w) \/ Settle(w)

Spec == Init /\ [][Next]_<<accepted, settled, closed>>
=============================================================================
