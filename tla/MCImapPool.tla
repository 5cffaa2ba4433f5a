----------------------------- MODULE MCImapPool -----------------------------
(***************************************************************************)
(* Instances of ImapPool: a background poll, an operation that takes two   *)
(* connections, and an interactive request that came last.                 *)
(***************************************************************************)
EXTENDS ImapPool

Poll == 1
Worker == 2
Reader == 3
Calls == 1 .. 4
Flows == <<Poll, Worker, Worker, Reader>>
Arrivals == <<1, 2, 2, 3>>
Classes == <<"background", "normal", "normal", "interactive">>

\* With all four checkouts either leases age or the isolate shuts down; both
\* happen while one of the four is away.
VARIABLES trouble, away

TroubleInit ==
  /\ Init
  /\ trouble \in {"leak", "shutdown", "both"}
  /\ away \in Checkouts \cup {NoOne}
  /\ trouble = "both" <=> away # NoOne
TroubleNext ==
  /\ Next
  /\ UNCHANGED <<trouble, away>>
  /\ trouble = "leak" => ~closed'
  /\ trouble = "shutdown" => ~old'
  /\ away # NoOne => pc'[away] = "new"
TroubleSpec == TroubleInit /\ [][TroubleNext]_<<vars, trouble, away>> /\ Fairness

=============================================================================
