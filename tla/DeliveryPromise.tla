-------------------------- MODULE DeliveryPromise --------------------------
(***************************************************************************)
(* What the scheduled-send queue promises the person who queued a message: *)
(* it is delivered at most once, it is either delivered, reported as       *)
(* failed or cancelled, and that answer never changes.  No table, worker,  *)
(* clock or retry appears here.                                            *)
(***************************************************************************)
EXTENDS Naturals

CONSTANT Messages

VARIABLES
  fate,        \* what became of each message
  deliveries   \* how often the provider was given it

Fates == {"none", "queued", "delivered", "failed", "cancelled"}

TypeOK == fate \in [Messages -> Fates] /\ deliveries \in [Messages -> Nat]

Init ==
  /\ fate = [m \in Messages |-> "none"]
  /\ deliveries = [m \in Messages |-> 0]

Become(m, f) == fate' = [fate EXCEPT ![m] = f]

Accept(m) == fate[m] = "none" /\ Become(m, "queued") /\ UNCHANGED deliveries

Deliver(m) ==
  /\ fate[m] = "queued"
  /\ Become(m, "delivered")
  /\ deliveries' = [deliveries EXCEPT ![m] = @ + 1]

Withdraw(m) == fate[m] = "queued" /\ Become(m, "cancelled") /\ UNCHANGED deliveries

\* Several messages may be given up at once: the reclaim is one UPDATE.
GiveUp(M) ==
  /\ M # {} /\ \A m \in M : fate[m] = "queued"
  /\ fate' = [m \in Messages |-> IF m \in M THEN "failed" ELSE fate[m]]
  /\ UNCHANGED deliveries

Next ==
  \/ \E m \in Messages : Accept(m) \/ Deliver(m) \/ Withdraw(m)
  \/ \E M \in SUBSET Messages : GiveUp(M)

Spec == Init /\ [][Next]_<<fate, deliveries>>

\* Every accepted message gets an answer.
Answered == \A m \in Messages : fate[m] = "queued" ~> fate[m] # "queued"

FairSpec == Spec /\ Answered
=============================================================================
