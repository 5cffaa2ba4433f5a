------------------------------ MODULE MCReview ------------------------------
(***************************************************************************)
(* Three small instances that share nothing: one approval (MCLedger has it  *)
(* again with lost inserts), one idempotency key of an inbox that sends     *)
(* directly, across the expiry of its record, and the mail watch.  A        *)
(* behaviour picks one of them and the others rest, so that one run checks  *)
(* the three at the price of the sum of their states.                       *)
(***************************************************************************)
EXTENDS SendApprovals, MailWatch, TLC

CONSTANTS r1, r2, c1, c2, now, later, none, k1, k2, k3, q1, q2, absent

VARIABLES
  part,
  \* the variables of OutboundIdempotency
  kRecord, kPc, kRequest, kSaw, kOutcome, kAnswer, kApproval, kDispatched,
  kTicks, kFaults, kSent, kSince, kUnwritten

keyVars == <<kRecord, kPc, kRequest, kSaw, kOutcome, kAnswer, kApproval, kDispatched,
             kTicks, kFaults, kSent, kSince, kUnwritten>>
allVars == <<part, vars, keyVars, watchVars>>

\* Three calls of two requests, two whole lives of a record and two incidents.
Key == INSTANCE OutboundIdempotency WITH
  Calls <- {k1, k2, k3}, Requests <- {q1, q2},
  Outcomes <- {"ok", "unknown", "not_sent", "refused"},
  NoRecord <- absent, NoCall <- none, WINDOW <- 2, MaxTicks <- 4, MaxFaults <- 2,
  record <- kRecord, pc <- kPc, request <- kRequest, saw <- kSaw, outcome <- kOutcome,
  answer <- kAnswer, approval <- kApproval, dispatched <- kDispatched,
  ticks <- kTicks, faults <- kFaults, sent <- kSent, since <- kSince,
  unwritten <- kUnwritten

\* What no definition tells apart.
Interchangeable == Permutations(Reviewers) \cup Permutations({k1, k2, k3})

\* Two instances of the watch: two messages, and a receiver that may refuse the event of
\* the first; and three messages, one more than a page of the history, whose events are
\* all taken, with one of the passes slow at times.
Refused == {e \in Arrivals : \E p \in Passes : errand[p][e] = "bad"}
FirstRefused == landed <= 2 /\ Refused \subseteq {<<0, 1>>}
SlowOnly == watchFaults' # watchFaults => outlived' = {CHOOSE p \in Passes : TRUE}

AllInit ==
  /\ Init /\ Key!Init /\ WatchInit
  /\ part \in {"approval", "key", "watch", "reads"}
  /\ part = "key" \/ kRequest = [k \in {k1, k2, k3} |-> q1]
  /\ part = "approval" \/ sendAt = now     \* a part at rest has one initial state

AllNext ==
  /\ UNCHANGED part
  /\ \/ part = "approval" /\ Next /\ UNCHANGED <<keyVars, watchVars>>
     \/ part = "key" /\ Key!Next /\ UNCHANGED <<vars, watchVars>>
     \/ /\ part \in {"watch", "reads"} /\ WatchNext /\ UNCHANGED <<vars, keyVars>>
        /\ IF part = "watch" THEN FirstRefused' ELSE SlowOnly /\ Refused' = {}

AllSpec == AllInit /\ [][AllNext]_allVars

-----------------------------------------------------------------------------
\* RunsOnce of OutboundIdempotency, across the expiry of a record.
RunsOnce == Key!RunsOnce
=============================================================================
