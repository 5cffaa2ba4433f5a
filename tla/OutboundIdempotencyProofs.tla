---------------------- MODULE OutboundIdempotencyProofs ----------------------
(***************************************************************************)
(* What one idempotency key guarantees, for any number of calls, faults    *)
(* and requests.                                                           *)
(*                                                                         *)
(* Everything but the types rests on OneLifeOrDirect: either the claims    *)
(* are looked at within the life of one record, or the inbox sends         *)
(* directly.  Without it the theorems do not hold (MCReclaimedExpires).    *)
(*                                                                         *)
(* The idea of the invariant: a call that runs, that has sent in the last  *)
(* WINDOW ticks, or whose approval may still send, is Live; a live call    *)
(* owns the record and is as old as it, and a record has one owner.        *)
(***************************************************************************)
EXTENDS OutboundIdempotency, TLAPS

-----------------------------------------------------------------------------
(* Types *)

LEMMA TypeInit == Init => TypeOK
BY BoundsAssumption DEF Init, TypeOK, Locations, Answers, AllOutcomes

LEMMA TypeStep == TypeOK /\ [Next]_vars => TypeOK'
<1> SUFFICES ASSUME TypeOK, [Next]_vars PROVE TypeOK'
  OBVIOUS
<1> USE BoundsAssumption, CallsAssumption, RecordAssumption DEF TypeOK
<1>1. ASSUME NEW c \in Calls, Start(c) PROVE TypeOK'
  BY <1>1 DEF Start, Goto, Locations, approvalVars, worldVars, historyVars
<1>2. ASSUME NEW c \in Calls, Clear(c) PROVE TypeOK'
  BY <1>2 DEF Clear, Goto, Locations, ClaimStep, approvalVars
<1>3. ASSUME NEW c \in Calls, ClearFails(c) PROVE TypeOK'
  BY <1>3 DEF ClearFails, Fault, Goto, Locations, ClaimStep, approvalVars
<1>4. ASSUME NEW c \in Calls, Look(c) PROVE TypeOK'
  <2> USE <1>4 DEF Look, ClaimStep, approvalVars
  <2>1. saw' \in [Calls -> Calls \cup {NoCall}]
    BY DEF Record, Stored
  <2>2. pc' \in [Calls -> Locations]
    BY DEF Goto, Answer, Locations
  <2>3. answer' \in [Calls -> Answers]
    BY DEF Answer, Answers, Record, Stored
  <2> QED
    BY <2>1, <2>2, <2>3
<1>5. ASSUME NEW c \in Calls, Check(c) PROVE TypeOK'
  <2> USE <1>5 DEF Check, ClaimStep, approvalVars
  <2>1. pc' \in [Calls -> Locations]
    BY DEF Goto, Answer, Locations
  <2>2. answer' \in [Calls -> Answers]
    BY DEF Answer, Answers, Statuses
  <2> QED
    BY <2>1, <2>2
<1>6. ASSUME NEW c \in Calls, Reclaim(c) PROVE TypeOK'
  <2> USE <1>6 DEF Reclaim, ClaimStep, approvalVars
  <2>1. record' \in Record \cup {NoRecord}
    <3>1. CASE UNCHANGED record
      BY <3>1
    <3>2. CASE Stored /\ record' = [record EXCEPT !.status = "processing", !.approval = NoCall, !.owner = c]
      BY <3>2 DEF Stored, Record, Statuses
    <3> QED
      BY <3>1, <3>2 DEF Reclaimable
  <2>2. since' \in [Calls -> 0 .. WINDOW]
    OBVIOUS
  <2>3. pc' \in [Calls -> Locations]
    BY DEF Goto, Answer, Locations
  <2>4. answer' \in [Calls -> Answers]
    BY DEF Answer, Answers, Statuses
  <2> QED
    BY <2>1, <2>2, <2>3, <2>4
<1>7. ASSUME NEW c \in Calls, Insert(c) PROVE TypeOK'
  BY <1>7 DEF Insert, NewRecord, Record, Statuses, Goto, Locations, ClaimStep, approvalVars
<1>8. ASSUME NEW c \in Calls, LoseInsertAnswer(c) PROVE TypeOK'
  BY <1>8 DEF LoseInsertAnswer, Fault, NewRecord, Record, Statuses, Goto, Locations, ClaimStep, approvalVars
<1>9. ASSUME NEW c \in Calls, Reread(c) PROVE TypeOK'
  <2> USE <1>9 DEF Reread, ClaimStep, approvalVars
  <2>1. pc' \in [Calls -> Locations]
    BY DEF Goto, Answer, Locations
  <2>2. answer' \in [Calls -> Answers]
    BY DEF Answer, Answers, Record, Stored
  <2> QED
    BY <2>1, <2>2
<1>10. ASSUME NEW c \in Calls, Unavailable(c) PROVE TypeOK'
  <2> USE <1>10 DEF Unavailable, Fault, ClaimStep, approvalVars
  <2>1. pc' \in [Calls -> Locations]
    BY DEF Goto, Answer, Locations
  <2>2. answer' \in [Calls -> Answers]
    BY DEF Answer, Answers, Statuses
  <2> QED
    BY <2>1, <2>2
<1>11. ASSUME NEW c \in Calls, Run(c) PROVE TypeOK'
  <2> USE <1>11 DEF Run, worldVars
  <2>1. PICK o \in Outcomes :
          /\ outcome' = [outcome EXCEPT ![c] = o]
          /\ approval' = IF o = "held" THEN [approval EXCEPT ![c] = "pending"] ELSE approval
          /\ sent' = sent \/ sent' = sent \cup {c}
    BY Zenon
  <2>2. outcome' \in [Calls -> AllOutcomes \cup {"none"}]
    BY <2>1
  <2>3. approval' \in [Calls -> {"none", "pending", "approved", "dead"}] /\ sent' \in SUBSET Calls
    BY <2>1
  <2>4. pc' \in [Calls -> Locations]
    BY DEF Goto, Locations
  <2> QED
    BY <2>2, <2>3, <2>4
<1>12. ASSUME NEW c \in Calls, Settle(c) PROVE TypeOK'
  <2> USE <1>12 DEF Settle, approvalVars, worldVars, historyVars
  <2>1. record' \in Record \cup {NoRecord}
    BY DEF Record, Statuses, Stored, SettledAs
  <2>2. pc' \in [Calls -> Locations]
    BY DEF Goto, Answer, Locations
  <2>3. answer' \in [Calls -> Answers]
    BY DEF Answer, Answers
  <2> QED
    BY <2>1, <2>2, <2>3
<1>21. ASSUME NEW c \in Calls, SettleFails(c) PROVE TypeOK'
  <2> USE <1>21 DEF SettleFails, Fault, approvalVars
  <2>1. pc' \in [Calls -> Locations]
    BY DEF Goto, Answer, Locations
  <2>2. answer' \in [Calls -> Answers]
    BY DEF Answer, Answers
  <2> QED
    BY <2>1, <2>2
<1>13. ASSUME NEW c \in Calls, Crash(c) PROVE TypeOK'
  <2> USE <1>13 DEF Crash, Fault, approvalVars, historyVars
  <2>1. pc' \in [Calls -> Locations]
    BY DEF Goto, Answer, Locations
  <2>2. answer' \in [Calls -> Answers]
    BY DEF Answer, Answers
  <2> QED
    BY <2>1, <2>2
<1>14. ASSUME NEW c \in Calls, DecideApproval(c) PROVE TypeOK'
  BY <1>14 DEF DecideApproval, EnvStep, callVars, worldVars
<1>15. ASSUME NEW c \in Calls, ReleaseApproval(c) PROVE TypeOK'
  BY <1>15 DEF ReleaseApproval, EnvStep, callVars, worldVars
<1>16. ASSUME NEW c \in Calls, Dispatch(c) PROVE TypeOK'
  BY <1>16 DEF Dispatch, EnvStep, callVars, worldVars
<1>17. ASSUME NEW c \in Calls, RecordDispatch(c) PROVE TypeOK'
  BY <1>17 DEF RecordDispatch, CompleteApproved, Stored, Record, Statuses, EnvStep, callVars, worldVars
<1>18. ASSUME NEW c \in Calls, DispatchFails(c) PROVE TypeOK'
  BY <1>18 DEF DispatchFails, CompleteApproved, Stored, Record, Statuses, EnvStep, callVars, worldVars
<1>19. CASE Tick
  <2> USE <1>19 DEF Tick, callVars, approvalVars
  <2>1. record' \in Record \cup {NoRecord}
    BY DEF Record, Stored, Expired
  <2>2. since' \in [Calls -> 0 .. WINDOW]
    OBVIOUS
  <2> QED
    BY <2>1, <2>2
<1>20. CASE UNCHANGED vars
  BY <1>20 DEF vars, callVars, approvalVars, worldVars, historyVars
<1> QED
  BY <1>1, <1>2, <1>3, <1>4, <1>5, <1>6, <1>7, <1>8, <1>9, <1>10, <1>11, <1>12, <1>13, <1>14,
     <1>15, <1>16, <1>17, <1>18, <1>19, <1>20, <1>21 DEF Next, Claim

\* Every variable keeps its type, the record included.
THEOREM TypeCorrect == Spec => []TypeOK
BY TypeInit, TypeStep, PTL DEF Spec

-----------------------------------------------------------------------------
(* The inductive invariant *)

OneLifeOrDirect == MaxTicks = 0 \/ "held" \notin Outcomes

Live(c) ==
  \/ pc[c] \in Running
  \/ approval[c] \in {"pending", "approved"}
  \/ c \in sent /\ since[c] < WINDOW

\* What the assumption says of the state.
InMode ==
  /\ MaxTicks = 0 => ticks = 0 /\ (Stored => record.age = 0) /\ \A c \in Calls : since[c] = 0
  /\ "held" \notin Outcomes => \A c \in Calls : approval[c] = "none"

Owned == \A c \in Calls : Live(c) => Stored /\ record.owner = c /\ record.age = since[c]

\* A call by the phase it is in.
Phases ==
  \A c \in Calls :
    /\ pc[c] \notin {"settle", "done"} => c \notin sent /\ approval[c] = "none"
    /\ pc[c] # "done" => answer[c] = "none"
    /\ pc[c] \in Running => since[c] <= 1 /\ record.status = "processing" /\ record.approval = NoCall
    /\ pc[c] = "settle" =>
         /\ outcome[c] = "held" <=> approval[c] # "none"
         /\ outcome[c] = "ok" => c \in sent
         /\ outcome[c] \notin {"held", "ok", "unknown"} => c \notin sent
    /\ pc[c] \in {"check", "reclaim"} => saw[c] \in Calls
    /\ pc[c] = "reclaim" => approval[saw[c]] = "dead"
    /\ c \in sent => approval[c] \in {"none", "approved"}
    /\ c \in sent /\ approval[c] # "none" => dispatched[c] # "no"
    /\ dispatched[c] = "sent" => c \in sent

Truthful ==
  Stored =>
    /\ record.request = request[record.owner]
    /\ record.approval \in {NoCall, record.owner}
    /\ record.approval # NoCall => approval[record.owner] # "none"
    /\ record.status = "pending_approval" => record.approval # NoCall
    /\ record.status = "succeeded" => record.owner \in sent
    /\ record.status = "failed" /\ record.approval = NoCall =>
         record.owner \notin sent /\ approval[record.owner] = "none"

Ind == InMode /\ Owned /\ Phases /\ Truthful /\ NotSentFreesKey

-----------------------------------------------------------------------------
(* When nobody is live, the key may change hands *)

\* The owner is the only live call.
LEMMA OneLiveCall ==
  ASSUME Owned, NEW c \in Calls, NEW d \in Calls, Live(c), Live(d)
  PROVE c = d
BY DEF Owned

LEMMA ExpiredIsDead ==
  ASSUME OneLifeOrDirect, TypeOK, Ind, Expired, NEW c \in Calls
  PROVE ~Live(c)
<1> SUFFICES ASSUME Live(c) PROVE FALSE
  OBVIOUS
<1>1. Stored /\ record.age = WINDOW /\ since[c] = WINDOW
  BY DEF Expired, Ind, Owned
<1>2. MaxTicks # 0 /\ approval[c] = "none"
  BY <1>1, BoundsAssumption DEF OneLifeOrDirect, Ind, InMode
<1>3. pc[c] \notin Running
  BY <1>1, BoundsAssumption DEF Ind, Phases
<1> QED
  BY <1>1, <1>2, <1>3, BoundsAssumption DEF Live

\* A dead approval can be claimed again only while nobody is live.
LEMMA ReclaimedIsDead ==
  ASSUME OneLifeOrDirect, TypeOK, Ind, NEW c \in Calls, pc[c] = "reclaim", Reclaimable(c), NEW d \in Calls
  PROVE ~Live(d) /\ MaxTicks = 0
<1>1. /\ Stored /\ record.status = "pending_approval"
      /\ saw[c] \in Calls /\ approval[saw[c]] = "dead" /\ record.approval = saw[c]
  BY DEF Reclaimable, Ind, Phases
<1>2. record.owner = saw[c]
  BY <1>1, CallsAssumption DEF Ind, Truthful
<1>3. MaxTicks = 0
  BY <1>1 DEF OneLifeOrDirect, Ind, InMode
<1>4. ~Live(saw[c])
  BY <1>1 DEF Live, Ind, Phases
<1> QED
  BY <1>2, <1>3, <1>4 DEF Ind, Owned

-----------------------------------------------------------------------------
LEMMA IndInit == Init => Ind
BY BoundsAssumption
DEF Init, Ind, InMode, Owned, Phases, Truthful, NotSentFreesKey, Live, Running, Stored

LEMMA IndStep == ASSUME OneLifeOrDirect PROVE TypeOK /\ TypeOK' /\ Ind /\ [Next]_vars => Ind'
<1> SUFFICES ASSUME OneLifeOrDirect, TypeOK, TypeOK', Ind, [Next]_vars PROVE Ind'
  OBVIOUS
<1> USE BoundsAssumption, CallsAssumption, RecordAssumption DEF TypeOK, Ind
<1>1. ASSUME NEW c \in Calls, Start(c) PROVE Ind'
  <2> USE <1>1 DEF Start, approvalVars, worldVars, historyVars, Goto, Stored
  <2>1. InMode'
    BY DEF InMode
  <2>2. Owned'
    BY DEF InMode, Owned, Phases, Truthful, Live, Running
  <2>3. Phases'
    BY DEF Phases, Owned, Live, Running
  <2>4. Truthful'
    BY DEF Truthful, Phases, Owned, Live, Running
  <2>5. NotSentFreesKey'
    BY DEF NotSentFreesKey, Phases, Owned, Live, Running
  <2> QED
    BY <2>1, <2>2, <2>3, <2>4, <2>5
<1>2. ASSUME NEW c \in Calls, Clear(c) PROVE Ind'
  <2> USE <1>2 DEF Clear, Expired, Stored, Goto, ClaimStep, approvalVars
  <2>1. InMode'
    BY DEF InMode
  <2>2. Owned'
    <3>1. CASE Expired
      BY <1>2, <3>1, ExpiredIsDead DEF Clear, Goto, ClaimStep, approvalVars, Owned, Live, Running
    <3>2. CASE ~Expired
      BY <1>2, <3>2 DEF Clear, Goto, ClaimStep, approvalVars, Owned, Live, Running, Stored
    <3> QED
      BY <3>1, <3>2
  <2>3. Phases'
    BY DEF Phases, Owned, Live, Running
  <2>4. Truthful'
    BY DEF Truthful, Phases, Owned, Live, Running
  <2>5. NotSentFreesKey'
    BY DEF NotSentFreesKey, Phases, Owned, Live, Running
  <2> QED
    BY <2>1, <2>2, <2>3, <2>4, <2>5
<1>3. ASSUME NEW c \in Calls, ClearFails(c) PROVE Ind'
  <2> USE <1>3 DEF ClearFails, Fault, Goto, ClaimStep, approvalVars, Stored
  <2>1. InMode'
    BY DEF InMode
  <2>2. Owned'
    BY DEF InMode, Owned, Phases, Truthful, Live, Running
  <2>3. Phases'
    BY DEF Phases, Owned, Live, Running
  <2>4. Truthful'
    BY DEF Truthful, Phases, Owned, Live, Running
  <2>5. NotSentFreesKey'
    BY DEF NotSentFreesKey, Phases, Owned, Live, Running
  <2> QED
    BY <2>1, <2>2, <2>3, <2>4, <2>5
<1>4. ASSUME NEW c \in Calls, Look(c) PROVE Ind'
  <2> USE <1>4 DEF Look, Stored, Expired, Conflicts, Goto, Answer, ClaimStep, approvalVars
  <2>1. InMode'
    BY DEF InMode
  <2>2. Owned'
    BY DEF InMode, Owned, Phases, Truthful, Live, Running
  <2>3. Phases'
    BY DEF Phases, Owned, Live, Running, Truthful
  <2>4. Truthful'
    BY DEF Truthful, Phases, Owned, Live, Running
  <2>5. NotSentFreesKey'
    BY DEF NotSentFreesKey, Phases, Owned, Live, Running, Truthful, Record, Statuses
  <2> QED
    BY <2>1, <2>2, <2>3, <2>4, <2>5
<1>5. ASSUME NEW c \in Calls, Check(c) PROVE Ind'
  <2> USE <1>5 DEF Check, Dead, Goto, Answer, ClaimStep, approvalVars, Stored
  <2>1. InMode'
    BY DEF InMode
  <2>2. Owned'
    BY DEF InMode, Owned, Phases, Truthful, Live, Running
  <2>3. Phases'
    BY DEF Phases, Owned, Live, Running
  <2>4. Truthful'
    BY DEF Truthful, Phases, Owned, Live, Running
  <2>5. NotSentFreesKey'
    BY DEF NotSentFreesKey, Phases, Owned, Live, Running
  <2> QED
    BY <2>1, <2>2, <2>3, <2>4, <2>5
<1>6. ASSUME NEW c \in Calls, Reclaim(c) PROVE Ind'
  <2>1. CASE Reclaimable(c)
    <3> USE <1>6, <2>1 DEF Reclaim
    <3>1. /\ MaxTicks = 0
          /\ \A d \in Calls : ~Live(d)
      BY ReclaimedIsDead
    <3>2. /\ Stored /\ Stored' /\ record.request = request[c]
          /\ record'.owner = c /\ record'.status = "processing" /\ record'.approval = NoCall
          /\ record'.request = record.request /\ record'.age = record.age
      <4>1. Stored /\ record \in Record /\ record.request = request[c]
        BY DEF Reclaimable, Stored
      <4>2. record' = [record EXCEPT !.status = "processing", !.approval = NoCall, !.owner = c]
        OBVIOUS
      <4>3. record' \in Record
        BY <4>1, <4>2 DEF Record, Statuses
      <4>4. Stored'
        BY <4>3, RecordAssumption DEF Stored
      <4>5. /\ record'.owner = c /\ record'.status = "processing" /\ record'.approval = NoCall
            /\ record'.request = record.request /\ record'.age = record.age
        BY <4>1, <4>2 DEF Record
      <4> QED
        BY <4>1, <4>4, <4>5
    <3>3. /\ pc' = [pc EXCEPT ![c] = "run"] /\ since' = [since EXCEPT ![c] = 0]
          /\ UNCHANGED <<answer, saw, request, outcome, approval, dispatched, ticks, sent>>
      BY DEF Goto, ClaimStep, approvalVars
    <3>4. InMode'
      BY <3>1, <3>2, <3>3 DEF InMode
    <3>5. Owned'
      <4>1. ASSUME NEW d \in Calls, d # c PROVE ~Live(d)'
        BY <3>1, <3>3, <4>1 DEF Live, Running, InMode
      <4>2. record'.age = since'[c]
        BY <3>1, <3>2, <3>3 DEF InMode
      <4> QED
        BY <3>2, <4>1, <4>2 DEF Owned
    <3>6. Phases'
      BY <3>1, <3>2, <3>3 DEF Phases, Live, Running
    <3>7. Truthful'
      BY <3>2, <3>3 DEF Truthful
    <3>8. NotSentFreesKey'
      BY <3>2, <3>3 DEF NotSentFreesKey, Phases
    <3> QED
      BY <3>4, <3>5, <3>6, <3>7, <3>8
  <2>2. CASE ~Reclaimable(c)
    <3> USE <1>6, <2>2 DEF Reclaim, Goto, Answer, ClaimStep, approvalVars
    <3>1. InMode'
      BY DEF InMode, Stored
    <3>2. Owned'
      BY DEF Owned, Live, Running, Stored
    <3>3. Phases'
      BY DEF Phases, Running
    <3>4. Truthful'
      BY DEF Truthful, Stored
    <3>5. NotSentFreesKey'
      BY DEF NotSentFreesKey, Phases, Stored
    <3> QED
      BY <3>1, <3>2, <3>3, <3>4, <3>5
  <2> QED
    BY <2>1, <2>2
<1>7. ASSUME NEW c \in Calls, Insert(c) PROVE Ind'
  <2> USE <1>7 DEF Insert, Insertable, NewRecord, Stored, Goto, ClaimStep, approvalVars
  <2>1. InMode'
    BY DEF InMode
  <2>2. Owned'
    <3>1. CASE Insertable
      <4>1. ASSUME NEW d \in Calls PROVE ~Live(d)
        BY <3>1 DEF Owned, Insertable
      <4>2. ASSUME NEW d \in Calls, Live(d)' PROVE d = c
        BY <1>7, <4>1, <4>2 DEF Insert, Goto, ClaimStep, approvalVars, Live, Running
      <4>3. record' = NewRecord(c) /\ since'[c] = 0
        BY <1>7, <3>1 DEF Insert
      <4>4. NewRecord(c) \in Record
        BY DEF NewRecord, Record, Statuses
      <4>5. record'.owner = c /\ record'.age = 0 /\ Stored'
        BY <4>3, <4>4, RecordAssumption DEF NewRecord, Stored
      <4> QED
        BY <4>2, <4>3, <4>5 DEF Owned
    <3>2. CASE ~Insertable
      BY <1>7, <3>2 DEF Insert, Goto, ClaimStep, approvalVars, Owned, Live, Running, Stored
    <3> QED
      BY <3>1, <3>2
  <2>3. Phases'
    BY DEF Phases, Owned, Live, Running
  <2>4. Truthful'
    BY DEF Truthful, Phases, Owned, Live, Running
  <2>5. NotSentFreesKey'
    BY DEF NotSentFreesKey, Phases, Owned, Live, Running
  <2> QED
    BY <2>1, <2>2, <2>3, <2>4, <2>5
<1>8. ASSUME NEW c \in Calls, LoseInsertAnswer(c) PROVE Ind'
  <2> USE <1>8 DEF LoseInsertAnswer, Insertable, NewRecord, Fault, Stored, Goto, ClaimStep,
         approvalVars
  <2>1. InMode'
    BY DEF InMode
  <2>2. Owned'
    BY DEF InMode, Owned, Phases, Truthful, Live, Running
  <2>3. Phases'
    BY DEF Phases, Owned, Live, Running
  <2>4. Truthful'
    BY DEF Truthful, Phases, Owned, Live, Running
  <2>5. NotSentFreesKey'
    BY DEF NotSentFreesKey, Phases, Owned, Live, Running
  <2> QED
    BY <2>1, <2>2, <2>3, <2>4, <2>5
<1>9. ASSUME NEW c \in Calls, Reread(c) PROVE Ind'
  <2> USE <1>9 DEF Reread, Stored, Conflicts, Goto, Answer, ClaimStep, approvalVars
  <2>1. InMode'
    BY DEF InMode
  <2>2. Owned'
    BY DEF InMode, Owned, Phases, Truthful, Live, Running
  <2>3. Phases'
    BY DEF Phases, Owned, Live, Running
  <2>4. Truthful'
    BY DEF Truthful, Phases, Owned, Live, Running
  <2>5. NotSentFreesKey'
    BY DEF NotSentFreesKey, Phases, Owned, Live, Running, Truthful, Record, Statuses
  <2> QED
    BY <2>1, <2>2, <2>3, <2>4, <2>5
<1>10. ASSUME NEW c \in Calls, Unavailable(c) PROVE Ind'
  <2> USE <1>10 DEF Unavailable, Fault, Goto, Answer, ClaimStep, approvalVars, Stored
  <2>1. InMode'
    BY DEF InMode
  <2>2. Owned'
    BY DEF InMode, Owned, Phases, Truthful, Live, Running
  <2>3. Phases'
    BY DEF Phases, Owned, Live, Running
  <2>4. Truthful'
    BY DEF Truthful, Phases, Owned, Live, Running
  <2>5. NotSentFreesKey'
    BY DEF NotSentFreesKey, Phases, Owned, Live, Running
  <2> QED
    BY <2>1, <2>2, <2>3, <2>4, <2>5
<1>11. ASSUME NEW c \in Calls, Run(c) PROVE Ind'
  <2> USE <1>11 DEF Run, worldVars, Goto, Stored
  <2>1. InMode'
    BY DEF InMode
  <2>2. Owned'
    BY DEF InMode, Owned, Phases, Truthful, Live, Running
  <2>3. Phases'
    BY DEF Phases, Owned, Live, Running
  <2>4. Truthful'
    BY DEF Truthful, Phases, Owned, Live, Running
  <2>5. NotSentFreesKey'
    BY DEF NotSentFreesKey, Phases, Owned, Live, Running
  <2> QED
    BY <2>1, <2>2, <2>3, <2>4, <2>5
<1>12. ASSUME NEW c \in Calls, Settle(c) PROVE Ind'
  <2>1. InMode'
    BY <1>12 DEF Settle, Conflicts, Releases, SettledAs, Stored, Goto, Answer, approvalVars,
           worldVars, historyVars, InMode
  <2>2. Owned'
    <3>1. ASSUME NEW d \in Calls, d # c, Live(d)' PROVE FALSE
      BY <1>12, <3>1, OneLiveCall DEF Settle, Goto, Answer, approvalVars, worldVars, historyVars, Live, Running
    <3>2. ASSUME Live(c)' PROVE outcome[c] \notin Releases
      BY <1>12, <3>2 DEF Settle, Releases, Phases, Goto, Answer, approvalVars, worldVars,
             historyVars, Live, Running
    <3>3. Stored /\ record.owner = c /\ record.age = since[c]
      BY <1>12 DEF Settle, Owned, Live, Running
    <3>4. outcome[c] \notin Releases => record' # NoRecord /\ record'.owner = c /\ record'.age = since[c]
      <4> SUFFICES ASSUME outcome[c] \notin Releases PROVE record' # NoRecord /\ record'.owner = c /\ record'.age = since[c]
        OBVIOUS
      <4>1. ~Conflicts(c)
        BY <3>3 DEF Conflicts, Truthful
      <4>2. record \in Record
        BY <3>3 DEF Stored
      <4>3. record' = [record EXCEPT !.status = SettledAs(outcome[c]), !.approval = IF outcome[c] = "held" THEN c ELSE @]
        BY <1>12, <3>3, <4>1 DEF Settle
      <4>4. record' \in Record
        BY <4>2, <4>3 DEF Record, Statuses, SettledAs
      <4>5. record'.owner = record.owner /\ record'.age = record.age
        BY <4>2, <4>3 DEF Record
      <4> QED
        BY <3>3, <4>4, <4>5, RecordAssumption
    <3>5. since' = since
      BY <1>12 DEF Settle, historyVars
    <3> QED
      BY <3>1, <3>2, <3>4, <3>5 DEF Owned, Stored
  <2>3. Phases'
    BY <1>12 DEF Settle, Conflicts, Releases, SettledAs, Stored, Goto, Answer, approvalVars,
           worldVars, historyVars, Phases, Owned, Live, Running
  <2>4. Truthful'
    BY <1>12 DEF Settle, Conflicts, Releases, SettledAs, Stored, Goto, Answer, approvalVars,
           worldVars, historyVars, Truthful, Phases, Owned, Live, Running
  <2>5. NotSentFreesKey'
    BY <1>12 DEF Settle, Conflicts, Releases, SettledAs, Stored, Goto, Answer, approvalVars,
           worldVars, historyVars, NotSentFreesKey, Phases, Owned, Live, Running, Truthful
  <2> QED
    BY <2>1, <2>2, <2>3, <2>4, <2>5
<1>21. ASSUME NEW c \in Calls, SettleFails(c) PROVE Ind'
  <2> USE <1>21 DEF SettleFails, Fault, Goto, Answer, approvalVars, Stored
  <2>1. InMode'
    BY DEF InMode
  <2>2. Owned'
    BY DEF InMode, Owned, Phases, Truthful, Live, Running
  <2>3. Phases'
    BY DEF Phases, Owned, Live, Running
  <2>4. Truthful'
    BY DEF Truthful, Phases, Owned, Live, Running
  <2>5. NotSentFreesKey'
    BY DEF NotSentFreesKey, Phases, Owned, Live, Running
  <2> QED
    BY <2>1, <2>2, <2>3, <2>4, <2>5
<1>13. ASSUME NEW c \in Calls, Crash(c) PROVE Ind'
  <2> USE <1>13 DEF Crash, Fault, Goto, Answer, approvalVars, historyVars, Stored
  <2>1. InMode'
    BY DEF InMode
  <2>2. Owned'
    BY DEF InMode, Owned, Phases, Truthful, Live, Running
  <2>3. Phases'
    BY DEF Phases, Owned, Live, Running
  <2>4. Truthful'
    BY DEF Truthful, Phases, Owned, Live, Running
  <2>5. NotSentFreesKey'
    BY DEF NotSentFreesKey, Phases, Owned, Live, Running
  <2> QED
    BY <2>1, <2>2, <2>3, <2>4, <2>5
<1>14. ASSUME NEW c \in Calls, DecideApproval(c) PROVE Ind'
  <2> USE <1>14 DEF DecideApproval, EnvStep, callVars, worldVars, Stored
  <2>1. InMode'
    BY DEF InMode
  <2>2. Owned'
    BY DEF InMode, Owned, Phases, Truthful, Live, Running
  <2>3. Phases'
    BY DEF Phases, Owned, Live, Running
  <2>4. Truthful'
    BY DEF Truthful, Phases, Owned, Live, Running
  <2>5. NotSentFreesKey'
    BY DEF NotSentFreesKey, Phases, Owned, Live, Running
  <2> QED
    BY <2>1, <2>2, <2>3, <2>4, <2>5
<1>15. ASSUME NEW c \in Calls, ReleaseApproval(c) PROVE Ind'
  <2> USE <1>15 DEF ReleaseApproval, EnvStep, callVars, worldVars, Stored
  <2>1. InMode'
    BY DEF InMode
  <2>2. Owned'
    BY DEF InMode, Owned, Phases, Truthful, Live, Running
  <2>3. Phases'
    BY DEF Phases, Owned, Live, Running
  <2>4. Truthful'
    BY DEF Truthful, Phases, Owned, Live, Running
  <2>5. NotSentFreesKey'
    BY DEF NotSentFreesKey, Phases, Owned, Live, Running
  <2> QED
    BY <2>1, <2>2, <2>3, <2>4, <2>5
<1>16. ASSUME NEW c \in Calls, Dispatch(c) PROVE Ind'
  <2> USE <1>16 DEF Dispatch, EnvStep, callVars, worldVars, Stored
  <2>1. InMode'
    BY DEF InMode
  <2>2. Owned'
    BY DEF InMode, Owned, Phases, Truthful, Live, Running
  <2>3. Phases'
    BY DEF Phases, Owned, Live, Running
  <2>4. Truthful'
    BY DEF Truthful, Phases, Owned, Live, Running
  <2>5. NotSentFreesKey'
    BY DEF NotSentFreesKey, Phases, Owned, Live, Running
  <2> QED
    BY <2>1, <2>2, <2>3, <2>4, <2>5
<1>17. ASSUME NEW c \in Calls, RecordDispatch(c) PROVE Ind'
  <2> USE <1>17 DEF RecordDispatch, CompleteApproved, Stored, EnvStep, callVars, worldVars
  <2>1. InMode'
    BY DEF InMode
  <2>2. Owned'
    <3>1. Stored => Stored' /\ record'.owner = record.owner /\ record'.age = record.age
      <4> SUFFICES ASSUME Stored PROVE Stored' /\ record'.owner = record.owner /\ record'.age = record.age
        OBVIOUS
      <4>1. record \in Record
        BY DEF Stored
      <4>2. PICK s \in Statuses : record' \in {record, [record EXCEPT !.status = s]}
        BY <1>17, <4>1 DEF RecordDispatch, CompleteApproved, Statuses
      <4>3. record' \in Record
        BY <4>1, <4>2 DEF Record
      <4>4. record'.owner = record.owner /\ record'.age = record.age
        BY <4>1, <4>2 DEF Record
      <4> QED
        BY <4>3, <4>4, RecordAssumption DEF Stored
    <3>2. ASSUME NEW d \in Calls, Live(d)' PROVE Live(d) /\ since'[d] = since[d]
      BY <1>17, <3>2 DEF RecordDispatch, EnvStep, callVars, worldVars, Live
    <3> QED
      BY <3>1, <3>2 DEF Owned
  <2>3. Phases'
    BY DEF Phases, Owned, Live, Running
  <2>4. Truthful'
    BY DEF Truthful, Phases, Owned, Live, Running
  <2>5. NotSentFreesKey'
    BY DEF NotSentFreesKey, Phases, Owned, Live, Running
  <2> QED
    BY <2>1, <2>2, <2>3, <2>4, <2>5
<1>18. ASSUME NEW c \in Calls, DispatchFails(c) PROVE Ind'
  <2> USE <1>18 DEF DispatchFails, CompleteApproved, Stored, EnvStep, callVars, worldVars
  <2>1. InMode'
    BY DEF InMode
  <2>2. Owned'
    <3>1. Stored => Stored' /\ record'.owner = record.owner /\ record'.age = record.age
      <4> SUFFICES ASSUME Stored PROVE Stored' /\ record'.owner = record.owner /\ record'.age = record.age
        OBVIOUS
      <4>1. record \in Record
        BY DEF Stored
      <4>2. PICK s \in Statuses : record' \in {record, [record EXCEPT !.status = s]}
        BY <1>18, <4>1 DEF DispatchFails, CompleteApproved, Statuses
      <4>3. record' \in Record
        BY <4>1, <4>2 DEF Record
      <4>4. record'.owner = record.owner /\ record'.age = record.age
        BY <4>1, <4>2 DEF Record
      <4> QED
        BY <4>3, <4>4, RecordAssumption DEF Stored
    <3>2. ASSUME NEW d \in Calls, Live(d)' PROVE Live(d) /\ since'[d] = since[d]
      BY <1>18, <3>2 DEF DispatchFails, EnvStep, callVars, worldVars, Live
    <3> QED
      BY <3>1, <3>2 DEF Owned
  <2>3. Phases'
    BY DEF Phases, Owned, Live, Running
  <2>4. Truthful'
    BY DEF Truthful, Phases, Owned, Live, Running
  <2>5. NotSentFreesKey'
    BY DEF NotSentFreesKey, Phases, Owned, Live, Running
  <2> QED
    BY <2>1, <2>2, <2>3, <2>4, <2>5
<1>19. CASE Tick
  <2>1. InMode'
    BY <1>19, OneLifeOrDirect DEF OneLifeOrDirect, Tick, Expired, callVars, approvalVars,
           AllOutcomes, Record, InMode
  <2>2. Owned'
    BY <1>19, OneLifeOrDirect DEF OneLifeOrDirect, Tick, Expired, callVars, approvalVars,
           AllOutcomes, Record, InMode, Owned, Phases, Truthful, Live, Running, Stored
  <2>3. Phases'
    BY <1>19, OneLifeOrDirect DEF OneLifeOrDirect, Tick, Expired, callVars, approvalVars,
           AllOutcomes, Record, Phases, Owned, Live, Running, Stored
  <2>4. Truthful'
    BY <1>19, OneLifeOrDirect DEF OneLifeOrDirect, Tick, Expired, callVars, approvalVars,
           AllOutcomes, Record, Truthful, Phases, Owned, Live, Running, Stored
  <2>5. NotSentFreesKey'
    BY <1>19, OneLifeOrDirect DEF OneLifeOrDirect, Tick, Expired, callVars, approvalVars,
           AllOutcomes, Record, NotSentFreesKey, Phases, Owned, Live, Running, Stored
  <2> QED
    BY <2>1, <2>2, <2>3, <2>4, <2>5
<1>20. CASE UNCHANGED vars
  BY <1>20 DEF vars, callVars, approvalVars, worldVars, historyVars, InMode, Owned, Phases,
         Truthful, NotSentFreesKey, Live, Stored
<1> QED
  BY <1>1, <1>2, <1>3, <1>4, <1>5, <1>6, <1>7, <1>8, <1>9, <1>10, <1>11, <1>12, <1>13, <1>14, <1>15,
         <1>16, <1>17, <1>18, <1>19, <1>20, <1>21 DEF Next, Claim

LEMMA Holds == ASSUME OneLifeOrDirect PROVE Spec => [](TypeOK /\ Ind)
<1>1. Init => TypeOK /\ Ind
  BY TypeInit, IndInit
<1>2. TypeOK /\ Ind /\ [Next]_vars => (TypeOK /\ Ind)'
  BY TypeStep, IndStep
<1> QED
  BY <1>1, <1>2, PTL DEF Spec

-----------------------------------------------------------------------------
(* What it gives *)

\* Of the calls under one key, one runs at a time.
THEOREM OneCallRuns == ASSUME OneLifeOrDirect PROVE Spec => []OneRunner
<1>1. TypeOK /\ Ind => OneRunner
  BY OneLiveCall DEF Ind, OneRunner, Live
<1> QED
  BY <1>1, Holds, PTL

\* One approval is undecided or approved at a time.
THEOREM OneApprovalLives == ASSUME OneLifeOrDirect PROVE Spec => []OneLiveApproval
<1>1. TypeOK /\ Ind => OneLiveApproval
  BY OneLiveCall DEF Ind, OneLiveApproval, Live
<1> QED
  BY <1>1, Holds, PTL

\* Both at once.
THEOREM OneCallOneApproval == ASSUME OneLifeOrDirect PROVE Spec => []OneAtATime
<1>1. OneRunner /\ OneLiveApproval => OneAtATime
  BY DEF OneAtATime
<1> QED
  BY <1>1, OneCallRuns, OneApprovalLives, PTL

\* One of the calls of the last 24 hours reaches the provider.
THEOREM KeyRunsOnce == ASSUME OneLifeOrDirect PROVE Spec => []RunsOnce
<1>1. TypeOK /\ Ind => RunsOnce
  BY OneLiveCall DEF TypeOK, Ind, RunsOnce, Live
<1> QED
  BY <1>1, Holds, PTL

\* Success and failure in the record are the truth about its owner.
THEOREM RecordIsTrue == ASSUME OneLifeOrDirect PROVE Spec => []LedgerIsTruth
<1>1. TypeOK /\ Ind => LedgerIsTruth
  BY DEF Ind, Truthful, LedgerIsTruth
<1> QED
  BY <1>1, Holds, PTL

\* A proof that nothing was sent frees the key; if the write that frees it fails,
\* the record stays in progress, and is never settled as processed.
THEOREM UnsentFreesKey == ASSUME OneLifeOrDirect PROVE Spec => []NotSentFreesKey
<1>1. TypeOK /\ Ind => NotSentFreesKey
  BY DEF Ind
<1> QED
  BY <1>1, Holds, PTL

LEMMA ReplayStep == TypeOK /\ Ind /\ ReplayIsOwn /\ [Next]_vars => ReplayIsOwn'
<1> SUFFICES ASSUME TypeOK, Ind, ReplayIsOwn, [Next]_vars PROVE ReplayIsOwn'
  OBVIOUS
<1>1. sent \subseteq sent' /\ request' = request
  BY DEF Next, Claim, vars, callVars, approvalVars, worldVars, historyVars, Start, Clear, ClearFails, Look,
         Check, Reclaim, Insert, LoseInsertAnswer, Reread, Unavailable, Run, Settle, SettleFails, Crash, DecideApproval,
         ReleaseApproval, Dispatch, RecordDispatch, DispatchFails, Tick, ClaimStep, EnvStep
<1>2. ASSUME NEW c \in Calls, Look(c) \/ Reread(c) PROVE ReplayIsOwn'
  <2>1. ASSUME NEW d \in Calls, d # c PROVE answer'[d] = answer[d]
    BY <1>2, <2>1 DEF Look, Reread, Answer, TypeOK
  <2>2. ASSUME answer'[c] = "succeeded", answer[c] # "succeeded"
        PROVE Stored /\ request[c] = record.request /\ record.status = "succeeded"
    BY <1>2, <2>2 DEF Look, Reread, Answer, Conflicts, TypeOK
  <2>3. answer'[c] = "succeeded" => \E d \in sent : request[d] = request[c]
    BY <2>2 DEF ReplayIsOwn, Ind, Truthful
  <2> QED
    BY <1>1, <2>1, <2>3 DEF ReplayIsOwn
<1>3. ASSUME NEW c \in Calls,
             Check(c) \/ Reclaim(c) \/ Unavailable(c) \/ Settle(c) \/ SettleFails(c) \/ Crash(c)
      PROVE ReplayIsOwn'
  <2>1. \A d \in Calls : answer'[d] = "succeeded" => answer[d] = "succeeded"
    BY <1>3 DEF Check, Reclaim, Unavailable, Settle, SettleFails, Crash, Goto, Answer, TypeOK
  <2> QED
    BY <1>1, <2>1 DEF ReplayIsOwn
<1>4. CASE UNCHANGED answer
  BY <1>1, <1>4 DEF ReplayIsOwn
<1> QED
  BY <1>2, <1>3, <1>4
  DEF Next, Claim, vars, callVars, Start, Clear, ClearFails, Insert, LoseInsertAnswer, Run, DecideApproval,
      ReleaseApproval, Dispatch, RecordDispatch, DispatchFails, Tick, EnvStep

\* A replay of success is the truth about that very request.
THEOREM ReplaysAreOwn == ASSUME OneLifeOrDirect PROVE Spec => []ReplayIsOwn
<1>1. Init => ReplayIsOwn
  BY DEF Init, ReplayIsOwn
<1> QED
  BY <1>1, Holds, ReplayStep, PTL DEF Spec
=============================================================================
