---------------------------- MODULE TurnDelivery ----------------------------
(***************************************************************************)
(* What the durable bot turns promise, with no workers, queues, locks or   *)
(* retries in sight: a serial outgoing channel for one customer.  A turn   *)
(* is claimed, posted to Meta at most once, or closed; claims never        *)
(* overlap and never go back behind a later turn; after the customer's     *)
(* STOP nothing is posted.                                                 *)
(***************************************************************************)
EXTENDS Naturals

CONSTANT Turns   \* natural numbers, in the order the messages arrived

VARIABLES
  phase,     \* phase of each turn
  stopped    \* has the customer sent STOP?

vars == <<phase, stopped>>

Phases == {"open", "claimed", "posted", "closed"}

Init ==
  /\ phase = [t \in Turns |-> "open"]
  /\ stopped = FALSE

(* A turn may cross the boundary when no other turn is crossing it and     *)
(* none of the later ones has.                                             *)
Claim(t) ==
  /\ phase[t] = "open"
  /\ ~stopped
  /\ \A u \in Turns : phase[u] # "claimed"
  /\ \A u \in Turns : u > t => phase[u] # "posted"
  /\ phase' = [phase EXCEPT ![t] = "claimed"]
  /\ UNCHANGED stopped

Post(t) ==
  /\ phase[t] = "claimed"
  /\ ~stopped
  /\ phase' = [phase EXCEPT ![t] = "posted"]
  /\ UNCHANGED stopped

(* The turn is given up: its outcome is for a human to settle.             *)
Close(t) ==
  /\ phase[t] \in {"open", "claimed"}
  /\ phase' = [phase EXCEPT ![t] = "closed"]
  /\ UNCHANGED stopped

(* The recovery sweep closes every lost turn it found at once.             *)
CloseAll(lost) ==
  /\ \A t \in lost : phase[t] = "claimed"
  /\ phase' = [t \in Turns |-> IF t \in lost THEN "closed" ELSE phase[t]]
  /\ UNCHANGED stopped

Stop ==
  /\ stopped' = TRUE
  /\ UNCHANGED phase

Next ==
  \/ \E t \in Turns : Claim(t) \/ Post(t) \/ Close(t)
  \/ \E lost \in SUBSET Turns : CloseAll(lost)
  \/ Stop

Spec == Init /\ [][Next]_vars
=============================================================================
