-------------------------- MODULE ApprovalPromise --------------------------
(***************************************************************************)
(* What holding a send for a human promises: the request can change only   *)
(* while it is held, approving it freezes what will go out, what goes out  *)
(* is exactly that, once, and a refused request never goes out.  There are *)
(* no revisions, pages, markers or concurrent requests here.               *)
(***************************************************************************)
CONSTANT Versions

VARIABLES
  fate,      \* what became of the request
  version,   \* what it says
  sent       \* what went out

Fates == {"none", "held", "approved", "delivered", "refused"}

TypeOK == fate \in Fates /\ version \in Versions /\ sent \in SUBSET Versions

Init == fate = "none" /\ version \in Versions /\ sent = {}

Hold == fate = "none" /\ fate' = "held" /\ UNCHANGED <<version, sent>>

Change == fate = "held" /\ version' \in Versions /\ UNCHANGED <<fate, sent>>

Approve == fate = "held" /\ fate' = "approved" /\ UNCHANGED <<version, sent>>

\* The approval could not be queued: the request is held again.
Withdraw == fate = "approved" /\ fate' = "held" /\ UNCHANGED <<version, sent>>

Refuse == fate = "held" /\ fate' = "refused" /\ UNCHANGED <<version, sent>>

Deliver ==
  /\ fate = "approved"
  /\ fate' = "delivered"
  /\ sent' = {version}
  /\ UNCHANGED version

Next == Hold \/ Change \/ Approve \/ Withdraw \/ Refuse \/ Deliver

Spec == Init /\ [][Next]_<<fate, version, sent>>
=============================================================================
