------------------------ MODULE SendApprovalsProofs ------------------------
(***************************************************************************)
(* Proofs about SendApprovals, for every set of reviewers, cards and times *)
(* and every number of faults.                                             *)
(***************************************************************************)
EXTENDS SendApprovals, TLAPS

\* The marker insert reports what it did.  Without it the properties below
\* that say so are false, as the run MCLostInsertSends shows.
InsertsAnswer == MaxLostInserts = 0

(***************************************************************************)
(* Type correctness: every column, request variable and history variable   *)
(* keeps its type.                                                         *)
(***************************************************************************)
LEMMA TypeStep == TypeOK /\ [Next]_vars => TypeOK'
<1> SUFFICES ASSUME TypeOK, [Next]_vars PROVE TypeOK'
  OBVIOUS
<1> USE ActorsAssumption, BoundsAssumption
<1> USE DEF TypeOK, Statuses, Versions, Shown, ReviewSteps, ReviewAnswers, CardSteps, CardAnswers,
            MarkerSteps, rowVars, reviewVars, cardVars, markerVars, boundVars, historyVars
<1>1. ASSUME Queue PROVE TypeOK'
  BY <1>1 DEF Queue
<1>2. ASSUME Lapse PROVE TypeOK'
  BY <1>2 DEF Lapse
<1>3. ASSUME RetireUnseen PROVE TypeOK'
  BY <1>3 DEF RetireUnseen, RetiredStatus
<1>4. ASSUME RemoveInbox PROVE TypeOK'
  BY <1>4 DEF RemoveInbox, RetiredStatus
<1>5. ASSUME NEW r \in Reviewers, Render(r) PROVE TypeOK'
  BY <1>5 DEF Render, ReviewGoto, Row
<1>6. ASSUME NEW r \in Reviewers, DecideRead(r) PROVE TypeOK'
  BY <1>6 DEF DecideRead, ReviewGoto, ReviewStep, IsExpired
<1>7. ASSUME NEW r \in Reviewers, DecideRetire(r) PROVE TypeOK'
  BY <1>7 DEF DecideRetire, ReviewGoto, ReviewStep, RetiredStatus
<1>8. ASSUME NEW r \in Reviewers, Claim(r) PROVE TypeOK'
  BY <1>8 DEF Claim, ReviewGoto, ReviewStep, Claimable
<1>9. ASSUME NEW r \in Reviewers, LoseClaim(r) PROVE TypeOK'
  BY <1>9 DEF LoseClaim, ReviewGoto, ReviewStep
<1>10. ASSUME NEW r \in Reviewers, Insert(r) PROVE TypeOK'
  BY <1>10 DEF Insert, ReviewGoto, ReviewStep, MarkerGoto
<1>11. ASSUME NEW r \in Reviewers, LoseInsertAnswer(r) PROVE TypeOK'
  BY <1>11 DEF LoseInsertAnswer, ReviewGoto, ReviewStep, MarkerGoto
<1>12. ASSUME NEW r \in Reviewers, Release(r) PROVE TypeOK'
  BY <1>12 DEF Release, ReviewGoto, ReviewStep, Released
<1>13. ASSUME NEW r \in Reviewers, Reject(r) PROVE TypeOK'
  BY <1>13 DEF Reject, ReviewGoto, ReviewStep, Rejectable
<1>14. ASSUME NEW r \in Reviewers, LoseClaimAnswer(r) PROVE TypeOK'
  BY <1>14 DEF LoseClaimAnswer, ReviewGoto, ReviewStep, Claimable, Fault
<1>15. ASSUME NEW r \in Reviewers, DecideDies(r) PROVE TypeOK'
  BY <1>15 DEF DecideDies, ReviewGoto, ReviewStep, Fault
<1>16. ASSUME NEW r \in Reviewers, DispatchRead(r) PROVE TypeOK'
  BY <1>16 DEF DispatchRead, MarkerGoto, MarkerStep
<1>17. ASSUME NEW r \in Reviewers, DispatchBind(r) PROVE TypeOK'
  BY <1>17 DEF DispatchBind, MarkerGoto, MarkerStep, Bindable
<1>18. ASSUME NEW r \in Reviewers, DispatchSend(r) PROVE TypeOK'
  BY <1>18 DEF DispatchSend, MarkerGoto, MarkerStep
<1>19. ASSUME NEW r \in Reviewers, DispatchFails(r) PROVE TypeOK'
  BY <1>19 DEF DispatchFails, MarkerGoto, MarkerStep
<1>20. ASSUME NEW r \in Reviewers, CancelMarker(r) PROVE TypeOK'
  BY <1>20 DEF CancelMarker, MarkerGoto, MarkerStep
<1>21. ASSUME NEW c \in Cards, CardLoad(c) PROVE TypeOK'
  <2> USE <1>21 DEF CardLoad, CardStep
  <2>1. \E l \in CardSteps \cup CardAnswers : CardGoto(c, l)
    OBVIOUS
  <2>2. seen' \in [Cards -> Shown]
    BY DEF Row
  <2> QED
    BY <2>1, <2>2 DEF CardGoto
<1>22. ASSUME NEW c \in Cards, CardRetire(c) PROVE TypeOK'
  BY <1>22 DEF CardRetire, CardGoto, CardStep, RetiredStatus
<1>23. ASSUME NEW c \in Cards, CardReject(c) PROVE TypeOK'
  BY <1>23 DEF CardReject, CardGoto, CardStep, Rejectable
<1>24. ASSUME NEW c \in Cards, CardUpdate(c) PROVE TypeOK'
  <2> USE <1>24 DEF CardUpdate, CardGoto, CardStep
  <2>1. seen[c].edits \cup {c} \in SUBSET Cards
    OBVIOUS
  <2>2. edits' \in SUBSET Cards /\ revision' \in Nat
    BY <2>1
  <2>3. call' \in [Cards -> CardSteps \cup CardAnswers]
    OBVIOUS
  <2> QED
    BY <2>2, <2>3
<1>25. ASSUME NEW c \in Cards, CardSchedule(c) PROVE TypeOK'
  <2> USE <1>25 DEF CardSchedule, CardGoto, CardStep
  <2>1. sendAt' \in SendTimes /\ revision' \in Nat
    OBVIOUS
  <2>2. call' \in [Cards -> CardSteps \cup CardAnswers]
    OBVIOUS
  <2> QED
    BY <2>1, <2>2
<1>26. ASSUME NEW c \in Cards, CardDies(c) PROVE TypeOK'
  BY <1>26 DEF CardDies, CardGoto, CardStep, Fault
<1>27. CASE UNCHANGED vars
  BY <1>27 DEF vars
<1> QED
  BY <1>1, <1>2, <1>3, <1>4, <1>5, <1>6, <1>7, <1>8, <1>9, <1>10, <1>11, <1>12, <1>13, <1>14, <1>15, <1>16, <1>17, <1>18, <1>19, <1>20, <1>21, <1>22, <1>23, <1>24, <1>25, <1>26, <1>27 DEF Next, Decide

\* The types hold in every state of every behaviour, whatever crashes, lost
\* answers and concurrent decisions occur.
THEOREM TypeCorrect == Spec => []TypeOK
<1>1. ASSUME Init PROVE TypeOK
  <2> USE <1>1 DEF Init
  <2>1. Row \in Shown
    BY DEF Row, Shown
  <2>2. shown \in [Reviewers -> Shown] /\ seen \in [Cards -> Shown]
    BY <2>1
  <2>3. at \in [Reviewers -> ReviewSteps \cup ReviewAnswers] /\ call \in [Cards -> CardSteps \cup CardAnswers]
    BY DEF ReviewSteps, CardSteps
  <2>4. marker \in [Reviewers -> MarkerSteps]
    BY DEF MarkerSteps
  <2>5. delivered \in [Reviewers -> SUBSET Versions] /\ loaded \in [Reviewers -> SUBSET Cards]
    OBVIOUS
  <2> QED
    BY <2>2, <2>3, <2>4, <2>5 DEF TypeOK, Statuses
<1> QED
  BY <1>1, TypeStep, PTL DEF Spec

(***************************************************************************)
(* Revisions.  What a page or a call has read is what the row says as long *)
(* as the revision has not moved, which is what the WHERE clauses on the   *)
(* revision rest on.                                                       *)
(***************************************************************************)
Names(v) ==
  /\ v.revision \leq revision
  /\ v.revision = revision => v.edits = edits /\ v.sendAt = sendAt

Current ==
  /\ \A r \in Reviewers : Names(shown[r])
  /\ \A c \in Cards : Names(seen[c])

\* Every step that changes what the row says moves its revision.
LEMMA CurrentStep == TypeOK /\ Current /\ [Next]_vars => Current'
<1> SUFFICES ASSUME TypeOK, Current, [Next]_vars PROVE Current'
  OBVIOUS
<1> USE DEF TypeOK, Shown, rowVars, reviewVars, cardVars, markerVars, boundVars, historyVars
<1>1. ASSUME UNCHANGED <<revision, edits, sendAt, shown, seen>> PROVE Current'
  BY <1>1 DEF Current, Names
<1>2. ASSUME RemoveInbox PROVE Current'
  BY <1>2 DEF RemoveInbox, Current, Names
<1>3. ASSUME NEW r \in Reviewers, Render(r) PROVE Current'
  BY <1>3 DEF Render, Row, Current, Names
<1>4. ASSUME NEW c \in Cards, CardLoad(c) PROVE Current'
  BY <1>4 DEF CardLoad, CardStep, Row, Current, Names
<1>5. ASSUME NEW c \in Cards, CardUpdate(c) PROVE Current'
  BY <1>5 DEF CardUpdate, CardStep, Current, Names
<1>6. ASSUME NEW c \in Cards, CardSchedule(c) PROVE Current'
  BY <1>6 DEF CardSchedule, CardStep, Current, Names
<1>7. CASE Queue \/ Lapse \/ RetireUnseen \/ UNCHANGED vars
  BY <1>7, <1>1 DEF Queue, Lapse, RetireUnseen, vars
<1>8. ASSUME NEW r \in Reviewers,
             \/ DecideRead(r) \/ Decide(r) \/ LoseClaimAnswer(r) \/ LoseInsertAnswer(r)
             \/ DecideDies(r)
      PROVE Current'
  BY <1>8, <1>1 DEF DecideRead, Decide, DecideRetire, Claim, LoseClaim, Insert, Release, Reject,
     LoseClaimAnswer, LoseInsertAnswer, DecideDies, ReviewStep
<1>9. ASSUME NEW r \in Reviewers,
             \/ DispatchRead(r) \/ DispatchBind(r) \/ DispatchSend(r) \/ DispatchFails(r)
             \/ CancelMarker(r)
      PROVE Current'
  BY <1>9, <1>1 DEF DispatchRead, DispatchBind, DispatchSend, DispatchFails, CancelMarker, MarkerStep
<1>10. ASSUME NEW c \in Cards, CardRetire(c) \/ CardReject(c) \/ CardDies(c) PROVE Current'
  BY <1>10, <1>1 DEF CardRetire, CardReject, CardDies, CardStep
<1> QED
  BY <1>2, <1>3, <1>4, <1>5, <1>6, <1>7, <1>8, <1>9, <1>10 DEF Next

LEMMA CurrentAlways == Spec => []Current
<1>1. Init => Current
  BY DEF Init, Current, Names, Row
<1> QED
  BY <1>1, TypeCorrect, CurrentStep, PTL DEF Spec

\* An edit that was answered "updated" stays in the request, for any number of
\* concurrent edits, reschedules and decisions.
THEOREM EditsAreKept == Spec => []NoLostEdit
<1>1. Init => NoLostEdit
  BY DEF Init, NoLostEdit
<1>2. TypeOK /\ Current /\ NoLostEdit /\ [Next]_vars => NoLostEdit'
  <2> SUFFICES ASSUME TypeOK, Current, NoLostEdit, [Next]_vars PROVE NoLostEdit'
    OBVIOUS
  <2> USE DEF TypeOK, Shown, rowVars, reviewVars, cardVars, markerVars, boundVars, historyVars
  <2>1. ASSUME UNCHANGED <<edits, call>> PROVE NoLostEdit'
    BY <2>1 DEF NoLostEdit
  <2>2. ASSUME NEW c \in Cards, CardUpdate(c) PROVE NoLostEdit'
    <3>1. CASE Editable(c)
      <4>1. edits' = edits \cup {c}
        BY <2>2, <3>1 DEF CardUpdate, Editable, Current, Names
      <4> QED
        BY <2>2, <4>1 DEF CardUpdate, CardGoto, NoLostEdit
    <3>2. CASE ~Editable(c)
      BY <2>2, <3>2 DEF CardUpdate, CardGoto, NoLostEdit
    <3> QED
      BY <3>1, <3>2
  <2>3. ASSUME NEW c \in Cards,
               CardLoad(c) \/ CardRetire(c) \/ CardReject(c) \/ CardSchedule(c) \/ CardDies(c)
        PROVE NoLostEdit'
    BY <2>3 DEF CardLoad, CardRetire, CardReject, CardSchedule, CardDies, CardGoto, NoLostEdit
  <2>4. CASE Queue \/ Lapse \/ RetireUnseen \/ RemoveInbox \/ UNCHANGED vars
    BY <2>4, <2>1 DEF Queue, Lapse, RetireUnseen, RemoveInbox, vars
  <2>5. ASSUME NEW r \in Reviewers,
               \/ Render(r) \/ DecideRead(r) \/ Decide(r) \/ LoseClaimAnswer(r)
               \/ LoseInsertAnswer(r) \/ DecideDies(r)
        PROVE NoLostEdit'
    BY <2>5, <2>1 DEF Render, DecideRead, Decide, DecideRetire, Claim, LoseClaim, Insert, Release,
       Reject, LoseClaimAnswer, LoseInsertAnswer, DecideDies, ReviewStep
  <2>6. ASSUME NEW r \in Reviewers,
               \/ DispatchRead(r) \/ DispatchBind(r) \/ DispatchSend(r) \/ DispatchFails(r)
               \/ CancelMarker(r)
        PROVE NoLostEdit'
    BY <2>6, <2>1 DEF DispatchRead, DispatchBind, DispatchSend, DispatchFails, CancelMarker, MarkerStep
  <2> QED
    BY <2>2, <2>3, <2>4, <2>5, <2>6 DEF Next
<1> QED
  BY <1>1, <1>2, TypeCorrect, CurrentAlways, PTL DEF Spec

(***************************************************************************)
(* Single use: a marker gets past the binding only while the approval      *)
(* names it, and the name is written once.                                 *)
(***************************************************************************)
Undecided == {"idle", "rendered", "retire", "claim", "insert", "reject"}

Bound ==
  \A r \in Reviewers :
    /\ at[r] \in Undecided => marker[r] = "none"
    /\ marker[r] \in {"bound", "sent"} => bound = r
    /\ delivered[r] # {} => marker[r] = "sent"

LEMMA BoundStep == TypeOK /\ Bound /\ [Next]_vars => Bound'
<1> SUFFICES ASSUME TypeOK, Bound, [Next]_vars PROVE Bound'
  OBVIOUS
<1> USE ActorsAssumption
<1> USE DEF TypeOK, Bound, Undecided, rowVars, reviewVars, cardVars, markerVars, boundVars, historyVars
<1>1. ASSUME UNCHANGED <<bound, marker, delivered, at>> PROVE Bound'
  BY <1>1
<1>2. ASSUME NEW r \in Reviewers, Render(r) \/ DecideRead(r) \/ DecideDies(r) PROVE Bound'
  BY <1>2 DEF Render, DecideRead, DecideDies, ReviewStep, ReviewGoto, ReviewSteps
<1>3. ASSUME NEW r \in Reviewers,
             \/ DecideRetire(r) \/ Claim(r) \/ LoseClaim(r) \/ LoseClaimAnswer(r) \/ Release(r)
             \/ Reject(r)
      PROVE Bound'
  BY <1>3 DEF DecideRetire, Claim, LoseClaim, LoseClaimAnswer, Release, Reject, ReviewStep, ReviewGoto
<1>4. ASSUME NEW r \in Reviewers, Insert(r) \/ LoseInsertAnswer(r) PROVE Bound'
  BY <1>4 DEF Insert, LoseInsertAnswer, ReviewStep, ReviewGoto, MarkerGoto
<1>5. ASSUME NEW r \in Reviewers, DispatchRead(r) PROVE Bound'
  BY <1>5 DEF DispatchRead, MarkerStep, MarkerGoto
<1>6. ASSUME NEW r \in Reviewers, DispatchBind(r) PROVE Bound'
  BY <1>6 DEF DispatchBind, Bindable, MarkerStep, MarkerGoto
<1>7. ASSUME NEW r \in Reviewers, DispatchSend(r) PROVE Bound'
  BY <1>7 DEF DispatchSend, MarkerStep, MarkerGoto
<1>8. ASSUME NEW r \in Reviewers, DispatchFails(r) \/ CancelMarker(r) PROVE Bound'
  BY <1>8 DEF DispatchFails, CancelMarker, MarkerStep, MarkerGoto
<1>9. CASE Queue \/ Lapse \/ RetireUnseen \/ RemoveInbox \/ UNCHANGED vars
  BY <1>9, <1>1 DEF Queue, Lapse, RetireUnseen, RemoveInbox, vars
<1>10. ASSUME NEW c \in Cards,
              \/ CardLoad(c) \/ CardRetire(c) \/ CardReject(c) \/ CardUpdate(c)
              \/ CardSchedule(c) \/ CardDies(c)
       PROVE Bound'
  BY <1>10, <1>1 DEF CardLoad, CardRetire, CardReject, CardUpdate, CardSchedule, CardDies, CardStep
<1> QED
  BY <1>2, <1>3, <1>4, <1>5, <1>6, <1>7, <1>8, <1>9, <1>10 DEF Next, Decide

LEMMA BoundAlways == Spec => []Bound
<1>1. Init => Bound
  BY DEF Init, Bound
<1> QED
  BY <1>1, TypeCorrect, BoundStep, PTL DEF Spec

\* Of all the markers that releases, lost answers and new approvals leave
\* behind, one is delivered.
THEOREM OneDelivery == Spec => []DeliveredOnce
<1>1. Bound => DeliveredOnce
  BY DEF Bound, DeliveredOnce
<1> QED
  BY <1>1, BoundAlways, PTL

(***************************************************************************)
(* Who holds an approval: from the claim to the delivery one request, or   *)
(* its marker, stands behind the status 'approved', so nobody else can     *)
(* decide, release or change the row.                                      *)
(***************************************************************************)
Holds(r) == at[r] \in {"insert", "release"} \/ marker[r] # "none"

Agreed == [edits |-> edits, sendAt |-> sendAt]

Backed(r) ==
  /\ status = "approved"
  /\ decided = "in_time"
  /\ read[r].sendAt = sendAt
  /\ Agreed \in approved

Held ==
  /\ \A r \in Reviewers : marker[r] # "none" => at[r] = "approved"
  /\ \A q, r \in Reviewers : Holds(q) /\ Holds(r) => q = r
  /\ \A r \in Reviewers : Holds(r) => Backed(r)
  /\ \A r \in Reviewers :
       at[r] = "claim" => ~read[r].late /\ read[r].sendAt = shown[r].sendAt
  /\ \A r \in Reviewers : marker[r] \in {"read", "bound", "sent"} => loaded[r] = edits
  /\ \A r \in Reviewers :
       delivered[r] # {} => marker[r] = "sent" /\ delivered[r] = {Agreed}

\* A step that leaves the holder, the row and the markers alone.
LEMMA HeldFrame ==
  ASSUME Held,
         UNCHANGED <<edits, sendAt, marker, loaded, delivered, read, shown>>,
         approved \subseteq approved',
         \A r \in Reviewers : marker[r] # "none" => at'[r] = at[r],
         \A r \in Reviewers : at'[r] \in {"claim", "insert", "release"} => at[r] = at'[r],
         status = "approved" => status' = status /\ decided' = decided
  PROVE  Held'
BY DEF Held, Holds, Backed, Agreed

LEMMA HeldStep ==
  ASSUME InsertsAnswer
  PROVE  TypeOK /\ Current /\ Held /\ [Next]_vars => Held'
<1> SUFFICES ASSUME TypeOK, Current, Held, [Next]_vars PROVE Held'
  OBVIOUS
<1> USE DEF TypeOK, rowVars, reviewVars, cardVars, markerVars, boundVars, historyVars
<1>1. ASSUME Queue \/ Lapse \/ RetireUnseen \/ RemoveInbox \/ UNCHANGED vars PROVE Held'
  BY <1>1, HeldFrame DEF Queue, Lapse, RetireUnseen, RemoveInbox, RetiredStatus, vars
<1>2. ASSUME NEW r \in Reviewers, Render(r) PROVE Held'
  BY <1>2 DEF Render, ReviewGoto, Held, Holds, Backed, Agreed
<1>3. ASSUME NEW r \in Reviewers, DecideRead(r) PROVE Held'
  <2> USE <1>3 DEF DecideRead, ReviewGoto, ReviewStep, IsExpired
  <2>1. marker[r] = "none" /\ ~Holds(r) /\ ~Holds(r)'
    BY DEF Held, Holds
  <2>2. at'[r] = "claim" => ~read'[r].late /\ read'[r].sendAt = shown'[r].sendAt
    BY DEF Current, Names
  <2>3. \A q \in Reviewers \ {r} : at'[q] = at[q] /\ read'[q] = read[q]
    OBVIOUS
  <2> QED
    BY <2>1, <2>2, <2>3 DEF Held, Holds, Backed, Agreed
<1>4. ASSUME NEW r \in Reviewers, DecideRetire(r) \/ LoseClaim(r) \/ Reject(r) \/ DecideDies(r)
      PROVE Held'
  BY <1>4, HeldFrame DEF DecideRetire, LoseClaim, Reject, DecideDies, ReviewGoto, ReviewStep,
     RetiredStatus, Rejectable, Held, ReviewSteps
<1>5. ASSUME NEW r \in Reviewers, Claim(r) PROVE Held'
  <2> USE <1>5 DEF Claim, Claimable, ReviewGoto, ReviewStep
  <2>1. \A q \in Reviewers : ~Holds(q)
    BY DEF Held, Backed
  <2>2. \A q \in Reviewers : Holds(q)' => q = r
    BY <2>1 DEF Holds
  <2>3. Backed(r)'
    BY DEF Backed, Agreed, Held, Current, Names
  <2> QED
    BY <2>1, <2>2, <2>3 DEF Held, Holds, Agreed
<1>6. ASSUME NEW r \in Reviewers, LoseClaimAnswer(r) PROVE Held'
  <2> USE <1>6 DEF LoseClaimAnswer, Claimable, ReviewGoto, ReviewStep
  <2>1. \A q \in Reviewers : ~Holds(q)
    BY DEF Held, Backed
  <2>2. \A q \in Reviewers : ~Holds(q)'
    BY <2>1 DEF Holds
  <2> QED
    BY <2>1, <2>2 DEF Held, Holds
<1>7. ASSUME NEW r \in Reviewers, Insert(r) PROVE Held'
  <2> USE <1>7 DEF Insert, ReviewGoto, MarkerGoto, ReviewStep
  <2>1. Holds(r) /\ marker[r] = "none" /\ delivered[r] = {}
    BY DEF Held, Holds
  <2>2. \A q \in Reviewers : Holds(q)' <=> Holds(q)
    BY <2>1 DEF Holds
  <2>3. \A q \in Reviewers : Backed(q)' <=> Backed(q)
    BY DEF Backed, Agreed
  <2>4. \A q \in Reviewers : marker'[q] # "none" => at'[q] = "approved"
    BY <2>1 DEF Held
  <2>5. \A q \in Reviewers : marker'[q] \in {"read", "bound", "sent"} => marker[q] = marker'[q]
    OBVIOUS
  <2>6. \A q \in Reviewers : at'[q] # "claim" \/ at'[q] = at[q]
    OBVIOUS
  <2>7. \A q \in Reviewers : marker[q] = "sent" => marker'[q] = "sent"
    BY <2>1
  <2>8. Agreed' = Agreed
    BY DEF Agreed
  <2>9. \A q \in Reviewers : delivered'[q] = delivered[q] /\ loaded'[q] = loaded[q]
    OBVIOUS
  <2>10. \A q \in Reviewers :
           at'[q] = "claim" => ~read'[q].late /\ read'[q].sendAt = shown'[q].sendAt
    BY <2>6 DEF Held
  <2>11. \A q \in Reviewers : marker'[q] \in {"read", "bound", "sent"} => loaded'[q] = edits'
    BY <2>5 DEF Held
  <2>12. \A q \in Reviewers :
           delivered'[q] # {} => marker'[q] = "sent" /\ delivered'[q] = {Agreed'}
    BY <2>7, <2>8, <2>9 DEF Held
  <2> QED
    BY <2>2, <2>3, <2>4, <2>10, <2>11, <2>12 DEF Held
<1>8. ASSUME NEW r \in Reviewers, LoseInsertAnswer(r) PROVE FALSE
  BY <1>8 DEF LoseInsertAnswer, InsertsAnswer
<1>9. ASSUME NEW r \in Reviewers, Release(r) PROVE Held'
  <2> USE <1>9 DEF Release, ReviewGoto, ReviewStep
  <2>1. \A q \in Reviewers : Holds(q) <=> q = r
    BY DEF Held, Holds
  <2>2. marker[r] = "none"
    BY DEF Held
  <2>3. \A q \in Reviewers : ~Holds(q)'
    BY <2>1, <2>2 DEF Holds
  <2> QED
    BY <2>3 DEF Held, Holds
<1>10. ASSUME NEW r \in Reviewers,
              DispatchRead(r) \/ DispatchBind(r) \/ DispatchFails(r) \/ CancelMarker(r)
       PROVE Held'
  <2> USE <1>10 DEF DispatchRead, DispatchBind, DispatchFails, CancelMarker, MarkerGoto, MarkerStep
  <2>1. \A q \in Reviewers : Holds(q)' <=> Holds(q)
    BY DEF Holds
  <2>2. \A q \in Reviewers : Backed(q)' <=> Backed(q)
    BY DEF Backed, Agreed
  <2>3. \A q \in Reviewers : marker'[q] \in {"read", "bound", "sent"} => loaded'[q] = edits
    BY DEF Held
  <2>4. UNCHANGED <<at, read, shown, delivered, edits, sendAt>>
    BY DEF reviewVars, historyVars
  <2>5. \A q \in Reviewers : marker'[q] # "none" => marker[q] # "none"
    OBVIOUS
  <2>6. \A q \in Reviewers : marker[q] = "sent" => marker'[q] = "sent"
    OBVIOUS
  <2>7. \A q \in Reviewers :
          delivered'[q] # {} => marker'[q] = "sent" /\ delivered'[q] = {Agreed'}
    BY <2>4, <2>6 DEF Held, Agreed
  <2> QED
    BY <2>1, <2>2, <2>3, <2>4, <2>5, <2>7 DEF Held
<1>11. ASSUME NEW r \in Reviewers, DispatchSend(r) PROVE Held'
  <2> USE <1>11 DEF DispatchSend, MarkerGoto, MarkerStep
  <2>1. \A q \in Reviewers : Holds(q)' <=> Holds(q)
    BY DEF Holds
  <2>2. \A q \in Reviewers : Backed(q)' <=> Backed(q)
    BY DEF Backed, Agreed
  <2>3. delivered'[r] = {Agreed}
    BY DEF Held, Holds, Backed, Agreed
  <2> QED
    BY <2>1, <2>2, <2>3 DEF Held, Agreed
<1>12. ASSUME NEW c \in Cards, CardLoad(c) \/ CardRetire(c) \/ CardReject(c) \/ CardDies(c)
       PROVE Held'
  BY <1>12, HeldFrame DEF CardLoad, CardRetire, CardReject, CardDies, CardStep, RetiredStatus, Rejectable
<1>13. ASSUME NEW c \in Cards, CardUpdate(c) \/ CardSchedule(c) PROVE Held'
  <2> USE <1>13 DEF CardUpdate, CardSchedule, CardStep, Editable
  <2>1. CASE UNCHANGED <<edits, sendAt>>
    BY <2>1, HeldFrame
  <2>2. CASE ~UNCHANGED <<edits, sendAt>>
    <3>1. \A q \in Reviewers : ~Holds(q)
      BY <2>2 DEF Held, Backed
    <3>2. \A q \in Reviewers : ~Holds(q)'
      BY <3>1 DEF Holds
    <3> QED
      BY <3>1, <3>2 DEF Held, Holds
  <2> QED
    BY <2>1, <2>2
<1> QED
  BY <1>1, <1>2, <1>3, <1>4, <1>5, <1>6, <1>7, <1>8, <1>9, <1>10, <1>11, <1>12, <1>13 DEF Next, Decide

LEMMA HeldAlways == ASSUME InsertsAnswer PROVE Spec => []Held
<1>1. Init => Held
  BY DEF Init, Held, Holds
<1>2. TypeOK /\ Current /\ Held /\ [Next]_vars => Held'
  BY HeldStep
<1> QED
  BY <1>1, <1>2, TypeCorrect, CurrentAlways, PTL DEF Spec

\* What goes out, content and time, is what a reviewer approved, however edits,
\* reschedules, decisions, crashes and the dispatcher interleave.
THEOREM SentWasApproved == ASSUME InsertsAnswer PROVE Spec => []SentAsReviewed
<1>1. Held => SentAsReviewed
  BY DEF Held, Holds, Backed, SentAsReviewed, Deliveries
<1> QED
  BY <1>1, HeldAlways, PTL

\* A request that reads rejected or expired was not sent and, as the dispatcher
\* sends approved ones only, will not be.
THEOREM RefusalsHold == ASSUME InsertsAnswer PROVE Spec => []RefusedIsUnsent
<1>1. Held => RefusedIsUnsent
  <2> SUFFICES ASSUME Held, status # "approved" PROVE Deliveries = {}
    BY DEF RefusedIsUnsent
  <2>1. \A r \in Reviewers : delivered[r] = {}
    BY DEF Held, Holds, Backed
  <2> QED
    BY <2>1 DEF Deliveries
<1> QED
  BY <1>1, HeldAlways, PTL

\* What goes out was decided inside the 24 hours.
THEOREM DecidedInTime == ASSUME InsertsAnswer PROVE Spec => []LateNeverSent
<1>1. Held => LateNeverSent
  BY DEF Held, Holds, Backed, LateNeverSent, Deliveries
<1> QED
  BY <1>1, HeldAlways, PTL

\* A rejection or an expiry is final.
THEOREM DecisionIsFinal == Spec => DecisionStays
<1>1. TypeOK /\ [Next]_vars => [(status \in {"rejected", "expired"}) => status' = status]_vars
  <2> SUFFICES ASSUME [Next]_vars, status \in {"rejected", "expired"} PROVE status' = status
    OBVIOUS
  <2> USE DEF rowVars
  <2>1. CASE Queue \/ Lapse \/ RetireUnseen \/ RemoveInbox \/ UNCHANGED vars
    BY <2>1 DEF Queue, Lapse, RetireUnseen, RemoveInbox, vars
  <2>2. ASSUME NEW r \in Reviewers,
               \/ Render(r) \/ DecideRead(r) \/ Decide(r) \/ LoseClaimAnswer(r)
               \/ LoseInsertAnswer(r) \/ DecideDies(r)
        PROVE status' = status
    BY <2>2 DEF Render, DecideRead, Decide, DecideRetire, Claim, LoseClaim, Insert, Release, Reject,
       LoseClaimAnswer, LoseInsertAnswer, DecideDies, RetiredStatus, Claimable, Rejectable
  <2>3. ASSUME NEW r \in Reviewers,
               \/ DispatchRead(r) \/ DispatchBind(r) \/ DispatchSend(r) \/ DispatchFails(r)
               \/ CancelMarker(r)
        PROVE status' = status
    BY <2>3 DEF DispatchRead, DispatchBind, DispatchSend, DispatchFails, CancelMarker, MarkerStep
  <2>4. ASSUME NEW c \in Cards,
               \/ CardLoad(c) \/ CardRetire(c) \/ CardReject(c) \/ CardUpdate(c)
               \/ CardSchedule(c) \/ CardDies(c)
        PROVE status' = status
    BY <2>4 DEF CardLoad, CardRetire, CardReject, CardUpdate, CardSchedule, CardDies, CardStep,
       RetiredStatus, Rejectable
  <2> QED
    BY <2>1, <2>2, <2>3, <2>4 DEF Next
<1> QED
  BY <1>1, TypeCorrect, PTL DEF Spec, DecisionStays

(***************************************************************************)
(* The review path implements ApprovalPromise.                             *)
(***************************************************************************)
LEMMA PromiseInit == Init => Promise!Init
<1> SUFFICES ASSUME Init PROVE Promise!Init
  OBVIOUS
<1>1. Deliveries = {}
  BY DEF Init, Deliveries
<1>2. Agreed \in Versions
  BY DEF Init, Agreed, Versions
<1>3. Fate = "none"
  BY DEF Init, Fate
<1> QED
  BY <1>1, <1>2, <1>3 DEF Promise!Init, Agreed

\* Nothing was delivered, or the row as it stands was.
LEMMA DeliveredAgreed ==
  ASSUME TypeOK, Held
  PROVE  /\ Deliveries \in {{}, {Agreed}}
         /\ Deliveries # {} => status = "approved"
         /\ \A r \in Reviewers : Holds(r) /\ marker[r] # "sent" => Deliveries = {}
<1>1. \A r \in Reviewers : delivered[r] \in {{}, {Agreed}}
  BY DEF Held
<1>2. \A r \in Reviewers : delivered[r] # {} => Holds(r) /\ status = "approved" /\ marker[r] = "sent"
  BY DEF Held, Holds, Backed
<1>3. \A r \in Reviewers : Holds(r) /\ marker[r] # "sent" => Deliveries = {}
  BY <1>2 DEF Held, Deliveries
<1> QED
  BY <1>1, <1>2, <1>3 DEF Deliveries

\* A step that delivers nothing and leaves the row's words alone maps to what
\* its change of status says.
LEMMA StatusStep ==
  ASSUME TypeOK, Held, UNCHANGED <<edits, sendAt, delivered>>,
         \/ status' = status
         \/ status = "absent" /\ status' = "pending"
         \/ status = "pending" /\ status' \in {"approved", "rejected", "expired"}
         \/ status = "approved" /\ status' = "pending" /\ Deliveries = {}
  PROVE  [Promise!Next]_<<Fate, Agreed, Deliveries>>
<1> USE DEF TypeOK, Statuses
<1>1. UNCHANGED Deliveries /\ UNCHANGED Agreed
  BY DEF Deliveries, Agreed
<1>2. status # "approved" => Deliveries = {}
  BY DeliveredAgreed
<1> USE <1>1, <1>2 DEF Promise!Next, Agreed
<1>3. CASE status' = status
  BY <1>3 DEF Fate
<1>4. CASE status = "absent" /\ status' = "pending"
  BY <1>4 DEF Fate, Promise!Hold
<1>5. CASE status = "pending" /\ status' = "approved"
  BY <1>5 DEF Fate, Promise!Approve
<1>6. CASE status = "pending" /\ status' \in {"rejected", "expired"}
  BY <1>6 DEF Fate, Promise!Refuse
<1>7. CASE status = "approved" /\ status' = "pending" /\ Deliveries = {}
  BY <1>7 DEF Fate, Promise!Withdraw
<1> QED
  BY <1>3, <1>4, <1>5, <1>6, <1>7

LEMMA PromiseStep ==
  ASSUME InsertsAnswer
  PROVE  TypeOK /\ TypeOK' /\ Current /\ Held /\ Held' /\ [Next]_vars =>
           [Promise!Next]_<<Fate, Agreed, Deliveries>>
<1> SUFFICES ASSUME TypeOK, TypeOK', Current, Held, Held', [Next]_vars
             PROVE [Promise!Next]_<<Fate, Agreed, Deliveries>>
  OBVIOUS
<1> USE DEF rowVars, reviewVars, cardVars, markerVars, boundVars, historyVars
<1>1. CASE Queue \/ Lapse \/ RetireUnseen \/ RemoveInbox \/ UNCHANGED vars
  BY <1>1, StatusStep DEF Queue, Lapse, RetireUnseen, RemoveInbox, RetiredStatus, vars
<1>2. ASSUME NEW r \in Reviewers,
             \/ Render(r) \/ DecideRead(r) \/ DecideRetire(r) \/ Claim(r) \/ LoseClaim(r)
             \/ Insert(r) \/ Reject(r) \/ LoseClaimAnswer(r) \/ DecideDies(r)
      PROVE [Promise!Next]_<<Fate, Agreed, Deliveries>>
  BY <1>2, StatusStep DEF Render, DecideRead, DecideRetire, Claim, LoseClaim, Insert, Reject,
     LoseClaimAnswer, DecideDies, ReviewStep, RetiredStatus, Claimable, Rejectable
<1>3. ASSUME NEW r \in Reviewers, LoseInsertAnswer(r) PROVE FALSE
  BY <1>3 DEF LoseInsertAnswer, InsertsAnswer, TypeOK
<1>4. ASSUME NEW r \in Reviewers, Release(r) PROVE [Promise!Next]_<<Fate, Agreed, Deliveries>>
  <2>1. Deliveries = {}
    BY <1>4, DeliveredAgreed DEF Release, Held, Holds
  <2> QED
    BY <1>4, <2>1, StatusStep DEF Release, Released, ReviewStep
<1>5. ASSUME NEW r \in Reviewers,
             DispatchRead(r) \/ DispatchBind(r) \/ DispatchFails(r) \/ CancelMarker(r)
      PROVE [Promise!Next]_<<Fate, Agreed, Deliveries>>
  BY <1>5, StatusStep DEF DispatchRead, DispatchBind, DispatchFails, CancelMarker, MarkerStep
<1>6. ASSUME NEW r \in Reviewers, DispatchSend(r) PROVE [Promise!Next]_<<Fate, Agreed, Deliveries>>
  <2> USE <1>6 DEF DispatchSend, MarkerGoto, MarkerStep
  <2>1. Holds(r) /\ status = "approved" /\ Deliveries = {}
    BY DeliveredAgreed DEF Held, Holds, Backed
  <2>2. \A q \in Reviewers \ {r} : delivered'[q] = {}
    BY <2>1 DEF Deliveries, TypeOK
  <2>3. delivered'[r] = {Agreed}
    <3>1. delivered[r] = {}
      BY <2>1 DEF Deliveries
    <3> QED
      BY <3>1, <2>1 DEF Held, Holds, Backed, Agreed, TypeOK
  <2>4. Deliveries' = {Agreed}
    BY <2>2, <2>3 DEF Deliveries
  <2>5. UNCHANGED Agreed
    BY DEF Agreed
  <2>6. Fate = "approved" /\ Fate' = "delivered"
    BY <2>1, <2>4 DEF Fate
  <2> QED
    BY <2>1, <2>4, <2>5, <2>6 DEF Promise!Next, Promise!Deliver, Agreed
<1>7. ASSUME NEW c \in Cards, CardLoad(c) \/ CardRetire(c) \/ CardReject(c) \/ CardDies(c)
      PROVE [Promise!Next]_<<Fate, Agreed, Deliveries>>
  BY <1>7, StatusStep DEF CardLoad, CardRetire, CardReject, CardDies, CardStep, RetiredStatus, Rejectable
<1>8. ASSUME NEW c \in Cards, CardUpdate(c) \/ CardSchedule(c)
      PROVE [Promise!Next]_<<Fate, Agreed, Deliveries>>
  <2> USE <1>8 DEF CardUpdate, CardSchedule, CardStep
  <2>1. CASE UNCHANGED <<edits, sendAt>>
    BY <2>1, StatusStep
  <2>2. CASE ~UNCHANGED <<edits, sendAt>>
    <3>1. status = "pending" /\ status' = "pending"
      BY <2>2 DEF Editable
    <3>2. Fate = "held" /\ Fate' = "held"
      BY <3>1 DEF Fate
    <3>3. UNCHANGED Deliveries
      BY DEF Deliveries
    <3>4. Agreed' \in Versions
      BY DEF Agreed, Versions, TypeOK
    <3> QED
      BY <3>2, <3>3, <3>4 DEF Promise!Next, Promise!Change, Agreed
  <2> QED
    BY <2>1, <2>2
<1> QED
  BY <1>1, <1>2, <1>3, <1>4, <1>5, <1>6, <1>7, <1>8 DEF Next, Decide

\* The whole review path, with its pages, revisions, claims, releases and
\* markers, keeps the promise made to the person who approves a send.
THEOREM ApprovalKeepsPromise == ASSUME InsertsAnswer PROVE Spec => KeepsPromise
<1>1. Init => Promise!Init
  BY PromiseInit
<1>2. TypeOK /\ TypeOK' /\ Current /\ Held /\ Held' /\ [Next]_vars =>
        [Promise!Next]_<<Fate, [edits |-> edits, sendAt |-> sendAt], Deliveries>>
  BY PromiseStep DEF Agreed
<1> QED
  BY <1>1, <1>2, TypeCorrect, CurrentAlways, HeldAlways, PTL DEF Spec, KeepsPromise, Promise!Spec

(***************************************************************************)
(* The request is an approval as OutboundIdempotency knows it.  That       *)
(* module sees less of it than ApprovalPromise does, so each step of the   *)
(* promise is read as a step, or a stutter, of that approval.              *)
(***************************************************************************)
\* What the key's side sees, given the fate of the request.
FateShows ==
  /\ Fate = "none" => status = "absent" /\ KeyView = "none" /\ Delivery = "no"
  /\ Fate = "held" => status # "absent" /\ KeyView = "pending" /\ Delivery = "no"
  /\ Fate = "approved" => status # "absent" /\ KeyView = "approved" /\ Delivery = "no"
  /\ Fate = "delivered" => status # "absent" /\ KeyView = "approved" /\ Delivery = "sent"
  /\ Fate = "refused" => status # "absent" /\ KeyView = "dead" /\ Delivery = "no"
  /\ Fate \in Promise!Fates

LEMMA FateAlwaysShows == ASSUME InsertsAnswer PROVE Spec => []FateShows
<1>1. TypeOK /\ Held => FateShows
  <2> SUFFICES ASSUME TypeOK, Held PROVE FateShows
    OBVIOUS
  <2>1. status # "approved" => Deliveries = {}
    BY DeliveredAgreed
  <2> QED
    BY <2>1 DEF FateShows, Fate, KeyView, Delivery, Promise!Fates, TypeOK, Statuses
<1> QED
  BY <1>1, TypeCorrect, HeldAlways, PTL

\* A step of the promise is a step the key's approval may take.
LEMMA PromiseServes ==
  ASSUME FateShows, FateShows', [Promise!Next]_<<Fate, Agreed, Deliveries>>
  PROVE  [ApprovalStep]_<<KeyView, Delivery>>
<1>1. "call" \in Caller /\ \A c \in Caller : c = "call"
  BY DEF Caller
<1>2. /\ Delivery = "no" <=> Deliveries = {}
      /\ Delivery' = "no" <=> Deliveries' = {}
      /\ Delivery \in {"no", "sent"} /\ Delivery' \in {"no", "sent"}
  BY DEF Delivery
<1> USE <1>1, <1>2
<1> USE DEF FateShows, Ledger!Goto, Ledger!EnvStep, Ledger!callVars, Ledger!worldVars
<1>3. CASE Promise!Hold
  <2>1. Ledger!Run("call")
    BY <1>3 DEF Promise!Hold, Ledger!Run
  <2> QED
    BY <2>1 DEF ApprovalStep
<1>4. CASE Promise!Approve \/ Promise!Refuse
  <2>1. Ledger!DecideApproval("call")
    BY <1>4 DEF Promise!Approve, Promise!Refuse, Ledger!DecideApproval
  <2> QED
    BY <2>1 DEF ApprovalStep
<1>5. CASE Promise!Withdraw
  <2>1. Ledger!ReleaseApproval("call")
    BY <1>5 DEF Promise!Withdraw, Ledger!ReleaseApproval
  <2> QED
    BY <2>1 DEF ApprovalStep
<1>6. CASE Promise!Deliver
  <2>1. Ledger!Dispatch("call")
    BY <1>6 DEF Promise!Deliver, Ledger!Dispatch
  <2> QED
    BY <2>1 DEF ApprovalStep
<1>7. CASE Promise!Change \/ UNCHANGED <<Fate, Agreed, Deliveries>>
  <2>1. Fate' = Fate /\ Deliveries' = Deliveries
    BY <1>7 DEF Promise!Change
  <2> QED
    BY <2>1 DEF Promise!Fates
<1> QED
  BY <1>3, <1>4, <1>5, <1>6, <1>7 DEF Promise!Next, Agreed

\* Whatever pages, edits, decisions, releases and markers do to a request is a
\* step that OutboundIdempotency allows its approval: the two modules meet in
\* what SendApprovals proves and OutboundIdempotency takes for granted.
THEOREM ApprovalServesKey == ASSUME InsertsAnswer PROVE Spec => ServesKey
<1>1. TypeOK /\ TypeOK' /\ Current /\ Held /\ Held' /\ FateShows /\ FateShows'
        /\ [Next]_vars => [ApprovalStep]_<<KeyView, Delivery>>
  BY PromiseStep, PromiseServes
<1> QED
  BY <1>1, TypeCorrect, CurrentAlways, HeldAlways, FateAlwaysShows, PTL DEF Spec, ServesKey

=============================================================================
