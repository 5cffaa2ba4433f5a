--------------------------- MODULE AccountProofs ----------------------------
(***************************************************************************)
(* What a person's plan, allowance, connections and sends are worth, for   *)
(* any number of deliveries, calls, requests and mishaps: the Stripe       *)
(* webhook, the reservations of actions, the rotation of OAuth tokens and  *)
(* the brakes on the sends of an inbox.                                    *)
(***************************************************************************)
EXTENDS StripeEvents, ActionReservations, TokenRotation, OutboundBrakes, TLAPS, FiniteSetTheorems

-----------------------------------------------------------------------------
(* StripeEvents.  Whoever handles an event has it on record and is alone   *)
(* with it, and an acknowledged event is on record and was dealt with.     *)
(* Deliveries that take turns write a plan no older than anything kept:    *)
(* while the newest event is not projected yet, one that is still owed     *)
(* will do it (Owed).                                                      *)

AtWork == {"record", "guard", "ask", "bill", "project", "answer", "forget"}

Places == AtWork \cup Ended

\* The delivery has recorded its event and not let go of it; and the events that
\* are on record for good.
Holding(d) == place[d] \in AtWork \ {"record"}
Kept == {e \in ledger : \A d \in Deliveries : Holding(d) => event[d] # e}

EventTypes ==
    /\ happened \in 0 .. Len(SecondOf)
    /\ ledger \subseteq 1 .. happened /\ acked \subseteq 1 .. happened
    /\ place \in [Deliveries -> Places]
    /\ event \in [Deliveries -> 0 .. happened] /\ writes \in [Deliveries -> 0 .. happened]
    /\ \A d \in Deliveries : place[d] # "unsent" => event[d] # 0
    /\ billing \in 0 .. happened

\* Who holds an event has it on record, alone, and unacknowledged unless struck.
HolderHasRecord ==
    \A d \in Deliveries : Holding(d) =>
        /\ event[d] \in ledger /\ event[d] \notin acked \ struck
        /\ \A c \in Deliveries : Holding(c) /\ event[c] = event[d] => c = d

\* A record is held or was dealt with, an acknowledged event is on record and
\* was dealt with.
Finished(d) == place[d] \in {"done", "stale"}
DealtWith(e) == \E d \in Deliveries : event[d] = e /\ Finished(d)
RecordIsHonest ==
    /\ \A e \in ledger \ struck : DealtWith(e) \/ e \notin Kept
    /\ \A e \in acked \ struck : e \in ledger /\ DealtWith(e)

\* What a delivery is about to write, or has written, is no older than anything kept.
Foremost(d) ==
    /\ place[d] \in {"bill", "project", "answer"} =>
         /\ At(event[d]) <= At(writes[d])
         /\ \A n \in Kept : At(n) <= At(writes[d])
    /\ place[d] = "ask" => event[d] \in Checkouts
    /\ place[d] \in {"project", "answer"} => billing = writes[d]
    /\ place[d] = "answer" => projected = billing
    /\ place[d] \in {"bill", "project"} => event[d] \in Checkouts \/ Newer(event[d]) = {}
WritesNewest == \A d \in Deliveries : Foremost(d)

\* An event that is still to be handled, and will not be found stale.
Owed(e) ==
    /\ e \in 1 .. happened /\ e \notin Kept
    /\ e \in Checkouts \/ \A n \in Kept : At(n) <= At(e)

\* Deliveries in turn, none lost.
OneAtWork == \A c, d \in Deliveries : place[c] \in AtWork /\ place[d] \in AtWork => c = d
InTurnInv ==
    calm /\ struck = {} =>
        /\ OneAtWork
        /\ WritesNewest
        /\ \A n \in Kept : At(n) <= At(billing)
        /\ projected = billing \/ \E e \in Events : Owed(e)

StripeInv == EventTypes /\ HolderHasRecord /\ RecordIsHonest /\ InTurnInv

-----------------------------------------------------------------------------

LEMMA AtOrder ==
  ASSUME NEW m \in 0 .. Len(SecondOf), NEW n \in 0 .. Len(SecondOf)
  PROVE  /\ At(m) \in Nat
         /\ m <= n => At(m) <= At(n)
         /\ m # 0 => At(m) = SecondOf[m]
<1>1. ASSUME NEW k \in Events PROVE SecondOf[k] \in Nat \ {0}
  <2>1. k \in 1 .. Len(SecondOf) BY <1>1 DEF Events
  <2>2. QED BY <2>1, StripeAssumption
<1>2. Len(SecondOf) \in Nat BY StripeAssumption
<1>3. ASSUME n # 0, m # 0, m <= n PROVE SecondOf[m] <= SecondOf[n]
  <2>1. n \in Events /\ m \in 1 .. n BY <1>2, <1>3 DEF Events
  <2>2. QED BY <2>1, StripeAssumption
<1>4. QED BY <1>1, <1>2, <1>3 DEF At, Events

LEMMA StripeInitInv == StripeInit => StripeInv
<1>1. Len(SecondOf) \in Nat BY StripeAssumption
<1> SUFFICES ASSUME StripeInit PROVE StripeInv OBVIOUS
<1> USE DEF StripeInit
<1>2. EventTypes BY <1>1 DEF EventTypes, Places, Ended
<1>3. HolderHasRecord /\ RecordIsHonest BY DEF HolderHasRecord, RecordIsHonest, Holding, AtWork
<1>4. InTurnInv BY DEF InTurnInv, OneAtWork, WritesNewest, Foremost, Kept, AtWork
<1>5. QED BY <1>2, <1>3, <1>4 DEF StripeInv

\* A delivery moves, the others stay where they are.
LEMMA Moved ==
  ASSUME place \in [Deliveries -> Places], NEW d \in Deliveries
  PROVE  \A p \in Places : Reach(d, p) =>
           /\ place' \in [Deliveries -> Places]
           /\ place'[d] = p /\ \A c \in Deliveries \ {d} : place'[c] = place[c]
BY DEF Reach

\* What a delivery on its way may change.
LEMMA OnItsWay ==
  ASSUME EventTypes, NEW d \in Deliveries, DeliveryStep(d), place[d] # "unsent"
  PROVE  /\ event[d] \in 1 .. happened /\ UNCHANGED <<happened, event>>
         /\ \E p \in Places \ {"unsent"} : Reach(d, p)
         /\ ledger' \in {ledger, ledger \cup {event[d]}, ledger \ {event[d]}}
         /\ acked' \in {acked, acked \cup {event[d]}}
         /\ struck' \in {struck, struck \cup {event[d]}}
         /\ \E n \in {writes[d], event[d], happened} : writes' = [writes EXCEPT ![d] = n]
         /\ billing' \in {billing, writes[d]}
         /\ calm' => calm
<1>1. event[d] \in 1 .. happened BY DEF EventTypes
<1> USE DEF Ack, Strike, plans, handling
<1>2. UNCHANGED <<happened, event>>
  BY DEF DeliveryStep, Deliver, Record, RecordFails, Guard, Ask, Bill, Project, AnswerOk, Forget, DeliveryDies
<1>3. \E p \in Places \ {"unsent"} : Reach(d, p)
  BY DEF DeliveryStep, Deliver, Record, RecordFails, Guard, Ask, Bill, Project, AnswerOk, Forget, DeliveryDies,
     Places, AtWork, Ended
<1>4. ledger' \in {ledger, ledger \cup {event[d]}, ledger \ {event[d]}}
  BY DEF DeliveryStep, Deliver, Record, RecordFails, Guard, Ask, Bill, Project, AnswerOk, Forget, DeliveryDies
<1>5. acked' \in {acked, acked \cup {event[d]}} /\ struck' \in {struck, struck \cup {event[d]}}
  BY DEF DeliveryStep, Deliver, Record, RecordFails, Guard, Ask, Bill, Project, AnswerOk, Forget, DeliveryDies
<1>6. \E n \in {writes[d], event[d], happened} : writes' = [writes EXCEPT ![d] = n]
  <2>1. writes = [writes EXCEPT ![d] = writes[d]] BY DEF EventTypes
  <2>2. QED
    BY <2>1 DEF DeliveryStep, Deliver, Record, RecordFails, Guard, Ask, Bill, Project, AnswerOk, Forget, DeliveryDies
<1>7. billing' \in {billing, writes[d]}
  BY DEF DeliveryStep, Deliver, Record, RecordFails, Guard, Ask, Bill, Project, AnswerOk, Forget, DeliveryDies
<1>8. calm' => calm
  BY DEF DeliveryStep, Deliver, Record, RecordFails, Guard, Ask, Bill, Project, AnswerOk, Forget, DeliveryDies,
     Misread, WellRead
<1>9. QED BY <1>1, <1>2, <1>3, <1>4, <1>5, <1>6, <1>7, <1>8

LEMMA StripeTypesStep == EventTypes /\ [StripeNext]_stripeVars => EventTypes'
<1> SUFFICES ASSUME EventTypes, [StripeNext]_stripeVars PROVE EventTypes' OBVIOUS
<1>1. Len(SecondOf) \in Nat BY StripeAssumption
<1>2. CASE Happen BY <1>1, <1>2 DEF Happen, EventTypes, handling, plans
<1>3. CASE UNCHANGED stripeVars BY <1>3 DEF EventTypes, stripeVars, handling, plans
<1>4. ASSUME NEW d \in Deliveries, DeliveryStep(d), place[d] = "unsent" PROVE EventTypes'
  <2>1. Deliver(d)
    BY <1>4 DEF DeliveryStep, Record, RecordFails, Guard, Ask, Bill, Project, AnswerOk, Forget,
       DeliveryDies, Busy, Ended
  <2>2. QED BY <2>1, Moved DEF Deliver, EventTypes, Places, AtWork, Ended, plans
<1>5. ASSUME NEW d \in Deliveries, DeliveryStep(d), place[d] # "unsent" PROVE EventTypes'
  <2> USE <1>5, OnItsWay
  <2>1. ledger' \subseteq 1 .. happened' /\ acked' \subseteq 1 .. happened' BY DEF EventTypes
  <2>2. place' \in [Deliveries -> Places] /\ \A c \in Deliveries : place'[c] # "unsent" => event'[c] # 0
    BY Moved DEF EventTypes
  <2>3. writes' \in [Deliveries -> 0 .. happened'] /\ billing' \in 0 .. happened' BY DEF EventTypes
  <2>4. QED BY <2>1, <2>2, <2>3 DEF EventTypes
<1>6. QED BY <1>2, <1>3, <1>4, <1>5 DEF StripeNext

\* Where a delivery moves to, in the words of the invariant.
LEMMA Moves ==
  ASSUME EventTypes, NEW d \in Deliveries, NEW p \in Places, Reach(d, p)
  PROVE  /\ \A c \in Deliveries \ {d} : (Holding(c)' <=> Holding(c)) /\ (Finished(c)' <=> Finished(c))
         /\ Holding(d)' <=> p \in {"guard", "ask", "bill", "project", "answer", "forget"}
         /\ Finished(d)' <=> p \in {"done", "stale"}
BY Moved DEF EventTypes, Holding, Finished, AtWork

\* The steps of a delivery, told by what becomes of its event.
Begins(d) == ~Holding(d) /\ ~Finished(d) /\ ~Holding(d)' /\ ~Finished(d)' /\ UNCHANGED <<ledger, acked, struck>>
Takes(d) ==
  /\ ~Holding(d) /\ ~Finished(d) /\ Holding(d)' /\ ~Finished(d)'
  /\ event[d] \notin ledger /\ ledger' = ledger \cup {event[d]} /\ UNCHANGED <<acked, struck>>
Echoes(d) ==
  /\ ~Holding(d) /\ ~Finished(d) /\ ~Holding(d)' /\ ~Finished(d)'
  /\ event[d] \in ledger /\ UNCHANGED ledger /\ acked' = acked \cup {event[d]}
  /\ \/ event[d] \in struck'
     \/ \A c \in Deliveries : Holding(c) => event[c] # event[d]
  /\ struck \subseteq struck'
Works(d) == Holding(d) /\ Holding(d)' /\ ~Finished(d) /\ ~Finished(d)' /\ UNCHANGED <<ledger, acked, struck>>
Finishes(d) ==
  /\ Holding(d) /\ ~Finished(d) /\ ~Holding(d)' /\ Finished(d)'
  /\ acked' = acked \cup {event[d]} /\ UNCHANGED <<ledger, struck>>
LetsGo(d) ==
  /\ Holding(d) /\ ~Finished(d) /\ ~Holding(d)' /\ ~Finished(d)'
  /\ ledger' = ledger \ {event[d]} /\ UNCHANGED <<acked, struck>>
Breaks(d) ==
  /\ ~Finished(d) /\ ~Holding(d)' /\ ~Finished(d)'
  /\ struck' = struck \cup {event[d]} /\ ledger' \in {ledger, ledger \cup {event[d]}} /\ UNCHANGED acked
Fates(d) ==
  Begins(d) \/ Takes(d) \/ Echoes(d) \/ Works(d) \/ Finishes(d) \/ LetsGo(d) \/ Breaks(d)

LEMMA EachFate ==
  ASSUME EventTypes, NEW d \in Deliveries, DeliveryStep(d)
  PROVE  Fates(d)
<1> USE Moves DEF Ack, plans, handling, Strike
<1>0. /\ Holding(d) <=> place[d] \in {"guard", "ask", "bill", "project", "answer", "forget"}
      /\ Finished(d) <=> place[d] \in {"done", "stale"}
      /\ \A c \in Deliveries : Holding(c) => c \in Busy /\ place[c] # "record"
  BY DEF Holding, Finished, AtWork, Busy, Ended
<1>a. {"record", "guard", "ask", "bill", "project", "answer", "forget", "unsent", "done", "stale",
       "duplicate", "failed", "died"} \subseteq Places
  BY DEF Places, AtWork, Ended
<1>1. CASE Deliver(d)
  <2>1. Begins(d) BY <1>0, <1>a, <1>1 DEF Deliver, Begins
  <2>2. QED BY <2>1 DEF Fates
<1>2. CASE Record(d) /\ event[d] \in ledger
  <2>1. Echoes(d) BY <1>0, <1>a, <1>2 DEF Record, Echoes, Busy
  <2>2. QED BY <2>1 DEF Fates
<1>3. CASE Record(d) /\ event[d] \notin ledger
  <2>1. Takes(d) BY <1>0, <1>a, <1>3 DEF Record, Takes
  <2>2. QED BY <2>1 DEF Fates
<1>4. CASE RecordFails(d)
  <2>1. Begins(d) \/ Breaks(d) BY <1>0, <1>a, <1>4 DEF RecordFails, Begins, Breaks
  <2>2. QED BY <2>1 DEF Fates
<1>5. CASE Guard(d)
  <2>1. Finishes(d) \/ Works(d) BY <1>0, <1>a, <1>5 DEF Guard, Finishes, Works
  <2>2. QED BY <2>1 DEF Fates
<1>6. CASE Ask(d) \/ Bill(d) \/ Project(d)
  <2>1. Works(d) BY <1>0, <1>a, <1>6 DEF Ask, Bill, Project, Works
  <2>2. QED BY <2>1 DEF Fates
<1>7. CASE AnswerOk(d)
  <2>1. Finishes(d) BY <1>0, <1>a, <1>7 DEF AnswerOk, Finishes
  <2>2. QED BY <2>1 DEF Fates
<1>8. CASE Forget(d)
  <2>1. LetsGo(d) \/ Breaks(d) BY <1>0, <1>a, <1>8 DEF Forget, LetsGo, Breaks
  <2>2. QED BY <2>1 DEF Fates
<1>9. CASE DeliveryDies(d)
  <2>1. ~Finished(d) BY <1>0, <1>9 DEF DeliveryDies, Busy, Ended
  <2>2. CASE place[d] = "record"
    <3>1. Begins(d) BY <1>0, <1>a, <1>9, <2>1, <2>2 DEF DeliveryDies, Begins
    <3>2. QED BY <3>1 DEF Fates
  <2>3. CASE place[d] # "record"
    <3>1. Breaks(d) BY <1>0, <1>a, <1>9, <2>1, <2>3 DEF DeliveryDies, Breaks
    <3>2. QED BY <3>1 DEF Fates
  <2>4. QED BY <2>2, <2>3
<1>10. QED BY <1>1, <1>2, <1>3, <1>4, <1>5, <1>6, <1>7, <1>8, <1>9 DEF DeliveryStep

\* What a step of one delivery leaves of the others.
LEMMA OthersRest ==
  ASSUME EventTypes, NEW d \in Deliveries, DeliveryStep(d)
  PROVE  /\ \A c \in Deliveries \ {d} :
              event'[c] = event[c] /\ (Holding(c)' <=> Holding(c)) /\ (Finished(c)' <=> Finished(c))
         /\ Holding(d) \/ Holding(d)' \/ Finished(d) \/ Finished(d)' => event' = event
<1>1. CASE place[d] # "unsent" BY <1>1, OnItsWay, Moves
<1>2. CASE place[d] = "unsent"
  <2>1. Deliver(d)
    BY <1>2 DEF DeliveryStep, Record, RecordFails, Guard, Ask, Bill, Project, AnswerOk, Forget,
       DeliveryDies, Busy, Ended
  <2>2. "record" \in Places BY DEF Places, AtWork
  <2>3. QED BY <1>2, <2>1, <2>2, Moves DEF Deliver, EventTypes, Holding, Finished, AtWork
<1>3. QED BY <1>1, <1>2

LEMMA HandsStep ==
  EventTypes /\ HolderHasRecord /\ RecordIsHonest /\ [StripeNext]_stripeVars
      => HolderHasRecord' /\ RecordIsHonest'
<1> SUFFICES ASSUME EventTypes, HolderHasRecord, RecordIsHonest, [StripeNext]_stripeVars
             PROVE  HolderHasRecord' /\ RecordIsHonest'
  OBVIOUS
<1>1. CASE Happen \/ UNCHANGED stripeVars
  BY <1>1 DEF Happen, stripeVars, handling, plans, HolderHasRecord, RecordIsHonest, DealtWith, Kept,
     Holding, Finished
<1>2. ASSUME NEW d \in Deliveries, DeliveryStep(d) PROVE HolderHasRecord' /\ RecordIsHonest'
  <2> USE OthersRest, <1>2 DEF HolderHasRecord, RecordIsHonest
  <2>0. Fates(d) BY EachFate
  <2>1. CASE Begins(d) BY <2>1 DEF Begins, DealtWith, Kept
  <2>2. CASE Takes(d) BY <2>2 DEF Takes, DealtWith, Kept
  <2>3. CASE Echoes(d) BY <2>3 DEF Echoes, DealtWith, Kept
  <2>4. CASE Works(d) BY <2>4 DEF Works, DealtWith, Kept
  <2>5. CASE Finishes(d) BY <2>5 DEF Finishes, DealtWith, Kept
  <2>6. CASE LetsGo(d) BY <2>6 DEF LetsGo, DealtWith, Kept
  <2>7. CASE Breaks(d) BY <2>7 DEF Breaks, DealtWith, Kept
  <2>8. QED BY <2>0, <2>1, <2>2, <2>3, <2>4, <2>5, <2>6, <2>7 DEF Fates
<1>3. QED BY <1>1, <1>2 DEF StripeNext

-----------------------------------------------------------------------------

\* Handled in turn, an event is kept when it is finished and at no other time.
LEMMA KeptStep ==
  ASSUME StripeInv, NEW d \in Deliveries, DeliveryStep(d), OneAtWork, Begins(d) => ~Holding(d)', struck' = {},
         \A c \in Deliveries \ {d} : ~Holding(c)
  PROVE  Kept' = IF Finishes(d) THEN Kept \cup {event[d]} ELSE Kept
<1> USE OthersRest DEF Kept, StripeInv
<1>0. Fates(d) BY EachFate
<1>1. CASE Begins(d) BY <1>1 DEF Begins, Finishes
<1>2. CASE Takes(d) BY <1>2 DEF Takes, Finishes
<1>3. CASE Echoes(d) BY <1>3 DEF Echoes, Finishes
<1>4. CASE Works(d) BY <1>4 DEF Works, Finishes
<1>5. CASE Finishes(d) BY <1>5 DEF Finishes, HolderHasRecord
<1>6. CASE LetsGo(d) BY <1>6 DEF LetsGo, Finishes, HolderHasRecord
<1>7. CASE Breaks(d) BY <1>7 DEF Breaks
<1>8. QED BY <1>0, <1>1, <1>2, <1>3, <1>4, <1>5, <1>6, <1>7 DEF Fates

LEMMA TurnStep == StripeInv /\ [StripeNext]_stripeVars => InTurnInv'
<1> SUFFICES ASSUME StripeInv, [StripeNext]_stripeVars, calm', struck' = {}
             PROVE  /\ OneAtWork' /\ WritesNewest'
                    /\ \A n \in Kept' : At(n) <= At(billing')
                    /\ projected' = billing' \/ \E e \in Events : Owed(e)'
  BY DEF InTurnInv
<1> DEFINE Newest == \A n \in Kept : At(n) <= At(billing)
           Debt == projected = billing \/ \E e \in Events : Owed(e)
<1> SUFFICES OneAtWork' /\ WritesNewest' /\ Newest' /\ Debt' OBVIOUS
<1>0. EventTypes /\ Len(SecondOf) \in Nat BY StripeAssumption DEF StripeInv
<1>1. CASE Happen \/ UNCHANGED stripeVars
  <2>0. calm BY <1>1, Zenon DEF Happen, stripeVars, handling, plans
  <2>1. /\ UNCHANGED <<ledger, acked, event, place, writes, billing, projected, struck>>
        /\ happened' \in {happened, happened + 1} /\ happened \in Nat
    <3>1. CASE Happen BY <1>0, <3>1 DEF Happen, handling, plans, EventTypes
    <3>2. CASE UNCHANGED stripeVars BY <1>0, <3>2 DEF stripeVars, handling, plans, EventTypes
    <3>3. QED BY <1>1, <3>1, <3>2
  <2>2. OneAtWork /\ WritesNewest /\ Newest /\ Debt BY <2>0, <2>1 DEF StripeInv, InTurnInv
  <2>3. Kept' = Kept BY <2>1 DEF Kept, Holding
  <2>4. QED BY <1>0, <2>1, <2>2, <2>3 DEF OneAtWork, WritesNewest, Foremost, Owed, Newer, EventTypes
<1>2. ASSUME NEW d \in Deliveries, DeliveryStep(d)
      PROVE  OneAtWork' /\ WritesNewest' /\ Newest' /\ Debt'
  <2> USE <1>0, <1>2
  <2>1. Fates(d) BY EachFate
  <2>2. struck = {} BY <2>1 DEF Fates, Begins, Takes, Echoes, Works, Finishes, LetsGo, Breaks
  <2>3. calm /\ \A c \in Deliveries \ {d} : place[c] \notin AtWork
    <3>1. CASE place[d] = "unsent"
      <4>1. Deliver(d)
        BY <3>1 DEF DeliveryStep, Record, RecordFails, Guard, Ask, Bill, Project, AnswerOk, Forget,
           DeliveryDies, Busy, Ended
      <4>2. QED BY <4>1 DEF Deliver, Busy, Ended, AtWork
    <3>2. CASE place[d] # "unsent"
      <4>1. calm BY <3>2, OnItsWay
      <4>2. OneAtWork BY <2>2, <4>1 DEF StripeInv, InTurnInv
      <4>3. place[d] \in AtWork
        BY <3>2 DEF DeliveryStep, Deliver, Record, RecordFails, Guard, Ask, Bill, Project, AnswerOk, Forget,
           DeliveryDies, Busy, EventTypes, Places, AtWork
      <4>4. QED BY <4>1, <4>2, <4>3 DEF OneAtWork
    <3>3. QED BY <3>1, <3>2
  <2>4. OneAtWork /\ WritesNewest /\ Newest /\ Debt BY <2>2, <2>3 DEF StripeInv, InTurnInv
  <2>5. \A c \in Deliveries \ {d} : place'[c] = place[c]
    <3>1. CASE place[d] # "unsent" BY <3>1, OnItsWay, Moved DEF EventTypes
    <3>2. CASE place[d] = "unsent"
      <4>1. Deliver(d)
        BY <3>2 DEF DeliveryStep, Record, RecordFails, Guard, Ask, Bill, Project, AnswerOk, Forget,
           DeliveryDies, Busy, Ended
      <4>2. QED BY <4>1 DEF Deliver, Reach, EventTypes
    <3>3. QED BY <3>1, <3>2
  <2>6. OneAtWork' BY <2>3, <2>5 DEF OneAtWork
  <2>7. Kept' = IF Finishes(d) THEN Kept \cup {event[d]} ELSE Kept
    BY <2>2, <2>3, <2>4, KeptStep DEF Holding, Begins
  <2>8. \A c \in Deliveries \ {d} : Foremost(c)' BY <2>3, <2>5 DEF Foremost, AtWork
  <2>9. SUFFICES Foremost(d)' /\ Newest' /\ Debt' BY <2>6, <2>8 DEF WritesNewest
  <2>10. Foremost(d) BY <2>4 DEF WritesNewest
  <2>11. CASE Deliver(d) \/ Record(d) \/ RecordFails(d) \/ Forget(d) \/ DeliveryDies(d)
    <3>1. /\ UNCHANGED <<happened, billing, projected>>
          /\ \E p \in {"record", "guard", "duplicate", "failed", "died"} : Reach(d, p)
      BY <2>11 DEF Deliver, Record, RecordFails, Forget, DeliveryDies, plans, Ack
    <3>2. place'[d] \in {"record", "guard", "duplicate", "failed", "died"}
      BY <3>1, Moved DEF EventTypes, Places, AtWork, Ended
    <3>3. Kept' = Kept BY <2>7, <3>2 DEF Finishes, Finished
    <3>4. QED BY <2>4, <3>1, <3>2, <3>3 DEF Foremost, Owed
  <2>12. CASE Guard(d)
    <3> USE <2>12
    <3>1. /\ UNCHANGED <<happened, billing, projected, event, ledger>> /\ event[d] \in 1 .. happened
          /\ Holding(d) /\ event[d] \notin Kept
      BY DEF Guard, plans, EventTypes, Holding, AtWork, Kept
    <3>2. Kept = ledger \ {event[d]} BY <2>3 DEF Kept, Holding, Guard, AtWork
    <3>3. CASE Reach(d, "ask")
      <4>1. place'[d] = "ask" BY <3>3, Moved DEF EventTypes, Places, AtWork
      <4>2. Kept' = Kept BY <2>7, <4>1 DEF Finishes, Finished
      <4>3. event[d] \in Checkouts BY <4>1, Moved DEF Guard, Ack, EventTypes, Places, AtWork, Ended
      <4>4. QED BY <2>4, <3>1, <4>1, <4>2, <4>3 DEF Foremost, Owed
    <3>4. CASE Reach(d, "stale")
      <4>1. place'[d] = "stale" BY <3>4, Moved DEF EventTypes, Places, Ended
      <4>2. Kept' \subseteq Kept \cup {event[d]} BY <2>7
      <4>3. event[d] \notin Checkouts /\ Newer(event[d]) # {}
        BY <4>1, Moved DEF Guard, EventTypes, Places, AtWork, Ended
      <4>4. PICK n \in ledger : SecondOf[n] > SecondOf[event[d]] BY <4>3 DEF Newer
      <4>5. At(n) > At(event[d]) /\ n \in Kept BY <3>1, <3>2, <4>4, AtOrder DEF EventTypes
      <4>6. \A k \in 0 .. happened : At(k) \in Nat BY AtOrder DEF EventTypes
      <4>7. At(n) <= At(billing) /\ Newest' BY <2>4, <3>1, <4>2, <4>5, <4>6 DEF EventTypes
      <4>8. ASSUME NEW e \in Events, Owed(e) PROVE Owed(e)'
        <5>1. e # event[d] /\ (e \in Checkouts \/ At(event[d]) <= At(e))
          BY <3>1, <4>3, <4>5, <4>6, <4>8 DEF Owed, EventTypes
        <5>2. QED BY <3>1, <4>2, <4>8, <5>1 DEF Owed
      <4>9. QED BY <2>4, <3>1, <4>1, <4>7, <4>8 DEF Foremost
    <3>5. CASE Reach(d, "bill")
      <4>1. place'[d] = "bill" BY <3>5, Moved DEF EventTypes, Places, AtWork
      <4>2. Kept' = Kept BY <2>7, <4>1 DEF Finishes, Finished
      <4>3. Newer(event[d]) = {} /\ writes'[d] = event[d]
        BY <4>1, Moved DEF Guard, Ack, EventTypes, Places, AtWork, Ended, Misread
      <4>4. \A n \in Kept : At(n) <= At(event[d])
        <5>1. \A n \in 1 .. happened : At(n) = SecondOf[n] /\ At(n) \in Nat BY AtOrder DEF EventTypes
        <5>2. \A n \in ledger : ~(SecondOf[n] > SecondOf[event[d]]) BY <4>3 DEF Newer
        <5>3. QED BY <3>1, <3>2, <5>1, <5>2 DEF EventTypes
      <4>5. At(event[d]) \in Nat BY <3>1, AtOrder DEF EventTypes
      <4>6. QED BY <2>4, <3>1, <4>1, <4>2, <4>3, <4>4, <4>5 DEF Foremost, Owed, Newer
    <3>6. QED BY <3>3, <3>4, <3>5 DEF Guard, Ack
  <2>13. CASE Ask(d)
    <3> USE <2>13
    <3>1. /\ UNCHANGED <<happened, billing, projected, event, ledger>> /\ event[d] \in 1 .. happened
          /\ writes'[d] = happened /\ place[d] = "ask"
      BY DEF Ask, plans, EventTypes, Misread
    <3>2. place'[d] = "bill" BY Moved DEF Ask, EventTypes, Places, AtWork
    <3>3. Kept' = Kept /\ Kept \subseteq ledger BY <2>7, <3>2 DEF Finishes, Finished, Kept
    <3>4. At(event[d]) <= At(happened) /\ \A n \in Kept : At(n) <= At(happened)
      BY <3>1, <3>3, AtOrder DEF EventTypes
    <3>5. QED BY <2>4, <2>10, <3>1, <3>2, <3>3, <3>4 DEF Foremost, Owed
  <2>14. CASE Bill(d)
    <3> USE <2>14
    <3>1. /\ UNCHANGED <<happened, projected, event, ledger, writes>> /\ event[d] \in 1 .. happened
          /\ Holding(d) /\ event[d] \notin Kept
      BY DEF Bill, EventTypes, Holding, AtWork, Kept
    <3>2. Kept = ledger \ {event[d]} BY <2>3 DEF Kept, Holding, Bill, AtWork
    <3>3. place'[d] \in {"project", "forget"} BY Moved DEF Bill, EventTypes, Places, AtWork
    <3>4. Kept' = Kept BY <2>7, <3>3 DEF Finishes, Finished
    <3>5. CASE Reach(d, "forget")
      <4>1. place'[d] = "forget" BY <3>5, Moved DEF EventTypes, Places, AtWork
      <4>2. billing' = billing BY <4>1, Moved DEF Bill, EventTypes, Places, AtWork
      <4>3. QED BY <2>4, <3>1, <3>4, <4>1, <4>2 DEF Foremost, Owed
    <3>6. CASE Reach(d, "project")
      <4>1. place'[d] = "project" BY <3>6, Moved DEF EventTypes, Places, AtWork
      <4>2. billing' = writes[d] /\ place[d] = "bill" BY <4>1, Moved DEF Bill, EventTypes, Places, AtWork
      <4>3. Newest' /\ Foremost(d)' BY <2>10, <3>1, <3>4, <4>1, <4>2 DEF Foremost, Newer
      <4>4. event[d] \in Checkouts \/ Newer(event[d]) = {} BY <2>10, <4>2 DEF Foremost
      <4>5. event[d] \in Checkouts \/ \A n \in Kept : At(n) <= At(event[d])
        <5>1. \A n \in 1 .. happened : At(n) = SecondOf[n] /\ At(n) \in Nat BY AtOrder DEF EventTypes
        <5>2. QED BY <3>1, <3>2, <4>4, <5>1 DEF EventTypes, Newer
      <4>6. event[d] \in Events /\ \A e \in Events : e = event[d] => Owed(e)'
        BY <3>1, <3>4, <4>5 DEF Owed, EventTypes, Events
      <4>7. QED BY <4>3, <4>6
    <3>7. QED BY <3>5, <3>6 DEF Bill
  <2>15. CASE Project(d)
    <3> USE <2>15
    <3>1. UNCHANGED <<happened, billing, event, ledger, writes>> /\ place[d] = "project" BY DEF Project
    <3>2. place'[d] \in {"answer", "forget"} BY Moved DEF Project, EventTypes, Places, AtWork
    <3>3. Kept' = Kept BY <2>7, <3>2 DEF Finishes, Finished
    <3>4. (place'[d] = "answer" /\ projected' = writes[d]) \/ (place'[d] = "forget" /\ projected' = projected)
      <4>1. (Reach(d, "answer") /\ projected' = writes[d]) \/ (Reach(d, "forget") /\ projected' = projected)
        BY DEF Project
      <4>2. QED BY <4>1, Moved DEF EventTypes, Places, AtWork
    <3>5. QED BY <2>4, <2>10, <3>1, <3>3, <3>4 DEF Foremost, Owed
  <2>16. CASE AnswerOk(d)
    <3> USE <2>16
    <3>1. UNCHANGED <<happened, billing, projected, event, ledger, writes>> /\ place[d] = "answer"
      BY DEF AnswerOk, plans
    <3>2. place'[d] = "done" BY Moved DEF AnswerOk, Ack, EventTypes, Places, Ended
    <3>3. QED BY <2>4, <2>7, <2>10, <3>1, <3>2 DEF Foremost
  <2>17. QED BY <2>11, <2>12, <2>13, <2>14, <2>15, <2>16 DEF DeliveryStep
<1>3. QED BY <1>1, <1>2 DEF StripeNext

LEMMA StripeInvHolds == StripeSpec => []StripeInv
<1>1. StripeInv /\ [StripeNext]_stripeVars => StripeInv'
  BY StripeTypesStep, HandsStep, TurnStep DEF StripeInv
<1>2. QED BY StripeInitInv, <1>1, PTL DEF StripeSpec

\* stripe/webhook/route.ts, the stale-event guard: events that come late, twice or again leave
\* the plan of the newest one on the user and on the workspaces, when every event was
\* acknowledged, none was struck off and the deliveries took turns.
THEOREM NewestPlanWins == StripeSpec => []NewestWins
<1>1. StripeInv => NewestWins
  <2> SUFFICES ASSUME StripeInv, Settled, calm PROVE At(billing) = At(happened) /\ projected = billing
    BY DEF NewestWins
  <2>1. EventTypes /\ struck = {} /\ Len(SecondOf) \in Nat BY StripeAssumption DEF StripeInv, Settled
  <2>2. \A d \in Deliveries : ~Holding(d) BY DEF Settled, Busy, Holding, AtWork, Ended
  <2>3. 1 .. happened \subseteq Kept BY <2>1, <2>2 DEF Settled, Kept, StripeInv, RecordIsHonest
  <2>4. (\A n \in Kept : At(n) <= At(billing)) /\ (projected = billing \/ \E e \in Events : Owed(e))
    BY <2>1 DEF StripeInv, InTurnInv
  <2>5. projected = billing BY <2>3, <2>4 DEF Owed
  <2>6. CASE happened = 0 BY <2>1, <2>5, <2>6 DEF EventTypes, At
  <2>7. CASE happened # 0
    <3>1. At(happened) <= At(billing) BY <2>1, <2>3, <2>4, <2>7 DEF EventTypes
    <3>2. At(billing) <= At(happened) /\ At(billing) \in Nat /\ At(happened) \in Nat
      BY <2>1, AtOrder DEF EventTypes
    <3>3. QED BY <2>5, <3>1, <3>2
  <2>8. QED BY <2>6, <2>7
<1>2. QED BY StripeInvHolds, <1>1, PTL

\* stripe/webhook/route.ts: however often and closely Stripe sends its events and whatever
\* breaks off, an event is in one pair of hands at a time, one that is acknowledged was
\* handled, found stale or is being handled, unless an incident struck it off, and the plan
\* of the newest one wins as in NewestPlanWins.
THEOREM EventsHandled == StripeSpec => []EventsAreHandled
<1>1. StripeInv => HandledByOne /\ AckedIsHandled
  <2> SUFFICES ASSUME StripeInv PROVE HandledByOne /\ AckedIsHandled OBVIOUS
  <2>1. \A d \in Busy : d \in Deliveries /\ (Holding(d) \/ place[d] = "record")
    BY DEF StripeInv, EventTypes, Busy, Holding, Places
  <2>2. HandledByOne BY <2>1 DEF HandledByOne, StripeInv, HolderHasRecord
  <2>3. AckedIsHandled BY DEF AckedIsHandled, StripeInv, RecordIsHonest, DealtWith, Finished
  <2>4. QED BY <2>2, <2>3
<1>2. HandledByOne /\ AckedIsHandled /\ NewestWins => EventsAreHandled BY DEF EventsAreHandled
<1>3. QED BY StripeInvHolds, NewestPlanWins, <1>1, <1>2, PTL

-----------------------------------------------------------------------------
(* ActionReservations.  A call answers for every row of its own: the slot  *)
(* it carries names the only one, and where it has none there is none.     *)
(* What is booked was done, once, and leaves no row, so that a booking     *)
(* takes the place of a reservation and the sum under the cap stays.       *)

Early == {"new", "loading"}
Refusing == {"recording", "mailing", "pausing", "notifying"}
CallStages == Early \cup Refusing \cup
  {"gated", "swapping", "ready", "returning", "warning", "running", "settling", "done", "gone"}
Outcomes == {"open", "turned_away", "refused", "paused", "success", "error", "duplicate"}

CallTypes ==
  /\ pc \in [Calls -> CallStages] /\ outcome \in [Calls -> Outcomes]
  /\ terms \in [Calls -> 0 .. 2] /\ DOMAIN slot = Calls
  /\ \A c \in Calls :
       /\ pc[c] \in Refusing \cup {"swapping", "ready", "warning"} => terms[c] \in {1, 2}
       /\ pc[c] = "new" => slot[c] = NoId
       /\ pc[c] = "gated" /\ slot[c] # NoId => terms[c] \in {1, 2}

TableTypes ==
  /\ AllowanceTypeOK
  /\ IsFiniteSet(rows) /\ IsFiniteSet(usage) /\ IsFiniteSet(faults)
  /\ \A u \in usage : u.period <= PeriodOf(now)

MineOf(c) == {r \in rows : r.id \in IdsOf(c)}
PaidBy(c) == {u \in usage : u.id \in IdsOf(c)}
Clean(c) == Stray(c) \cap faults = {}

\* A reservation is made once, and before it is made there is none.
RowsAreUnique ==
  /\ \A r, s \in rows : r.id = s.id => r = s
  /\ \A c \in Calls : \A r \in rows :
       /\ pc[c] = "new" => r.id # GateId(c)
       /\ pc[c] \in Early \cup {"gated", "swapping", "ready"} => r.id # OwnId(c)

\* A call that knows of its reservations, and gave back what it meant to give back,
\* answers for every row of its own.
AnswersFor(c) ==
  /\ pc[c] \in Early \cup {"gated"} => slot[c] \notin {OwnId(c), BareId(c)}
  /\ Clean(c) =>
       /\ \A r \in MineOf(c) : r.id = slot[c]
       /\ pc[c] \in Early \cup Refusing \cup {"ready"} => MineOf(c) = {}
       /\ pc[c] = "done" /\ <<c, "settle">> \notin faults => MineOf(c) = {}
SlotIsMine == \A c \in Calls : AnswersFor(c)

\* What is booked was done, once, and leaves no row.
PaidOnce ==
  \A c \in Calls :
    /\ PaidBy(c) # {} => pc[c] = "done" /\ outcome[c] = "success"
    /\ \A u, v \in PaidBy(c) : u = v
    /\ Clean(c) /\ PaidBy(c) # {} => MineOf(c) = {}

\* Who is paused was told or is about to be.
PausedIsTold ==
  /\ PausedOwnerTold
  /\ \A c \in Calls : outcome[c] = "paused" => c \in Runs /\ pc[c] \in {"notifying", "done", "gone"}
  /\ \A c \in Calls : pc[c] = "pausing" => c \in Runs
  /\ \A c \in Calls : pc[c] \in {"settling", "running", "returning"} => outcome[c] # "paused"

AllowanceInv == CallTypes /\ TableTypes /\ RowsAreUnique /\ SlotIsMine /\ PaidOnce /\ CapHolds /\ PausedIsTold

-----------------------------------------------------------------------------

RowRecords == [id : Ids, expires : 0 .. (Horizon + Life + 1), under : {1, 2}, at : {1, 2}]

LEMMA PeriodIs == ASSUME NEW t \in Nat PROVE PeriodOf(t) \in {1, 2}
BY DEF PeriodOf

LEMMA IdsDiffer ==
  ASSUME NEW c \in Calls, NEW d \in Calls
  PROVE  /\ c # d => IdsOf(c) \cap IdsOf(d) = {}
         /\ GateId(c) # OwnId(c) /\ GateId(c) # BareId(c) /\ OwnId(c) # BareId(c)
         /\ NoId \notin IdsOf(c) /\ RefusedId(d) \notin IdsOf(c) /\ ErrorId(d) \notin IdsOf(c)
         /\ RefusedId(c) # NoId /\ ErrorId(c) # NoId /\ GateId(c) # RefusedId(c) /\ GateId(c) # ErrorId(c)
BY DEF GateId, OwnId, BareId, RefusedId, ErrorId, NoId, IdsOf

LEMMA RowIsRecord ==
  ASSUME now \in 0 .. Horizon, NEW id \in Ids, NEW p \in {1, 2}
  PROVE  Row(id, p) \in RowRecords
<1>1. now + Life \in 0 .. (Horizon + Life + 1) BY AllowanceAssumption
<1>2. Earlier(now + Life, PeriodEnd(p)) \in 0 .. (Horizon + Life + 1)
  BY <1>1, AllowanceAssumption DEF Earlier, PeriodEnd
<1>3. QED BY <1>2, PeriodIs, AllowanceAssumption DEF Row, RowRecords

LEMMA CallTypesStep ==
  ASSUME CallTypes, now \in Nat, NEW c \in Calls, CallStep(c)
  PROVE  CallTypes'
<1> DEFINE Where == pc' \in [Calls -> CallStages]
           How == outcome' \in [Calls -> Outcomes]
           Slots == DOMAIN slot' = Calls
           Terms == /\ terms' \in [Calls -> 0 .. 2]
                    /\ \A d \in Calls :
                         /\ pc'[d] \in Refusing \cup {"swapping", "ready", "warning"} => terms'[d] \in {1, 2}
                         /\ pc'[d] = "new" => slot'[d] = NoId
                         /\ pc'[d] = "gated" /\ slot'[d] # NoId => terms'[d] \in {1, 2}
<1> SUFFICES Where /\ How /\ Slots /\ Terms BY DEF CallTypes
<1>50. PeriodOf(now) \in {1, 2} BY PeriodIs
<1> USE <1>50 DEF CallTypes, Stage, Goto, EndAs, Keep, CallStages, Early, Refusing, Outcomes, tables, Release
<1>1. CASE Gate(c)
  <2>1. /\ pc' = [pc EXCEPT ![c] = "gated"] /\ outcome' = outcome /\ slot[c] = NoId
        /\ \/ terms' = [terms EXCEPT ![c] = PeriodOf(now)]
           \/ terms' = terms /\ slot' = slot
        /\ slot' = slot \/ \E id : slot' = [slot EXCEPT ![c] = id]
    BY <1>1 DEF Gate
  <2>2. Where /\ How /\ Slots BY <2>1
  <2>3. \A d \in Calls \ {c} : pc'[d] = pc[d] /\ slot'[d] = slot[d] /\ terms'[d] = terms[d] BY <2>1
  <2>4. pc'[c] = "gated" /\ (slot'[c] = NoId \/ terms'[c] \in {1, 2}) BY <2>1
  <2>5. terms' \in [Calls -> 0 .. 2] BY <2>1
  <2>6. QED BY <2>2, <2>3, <2>4, <2>5
<1>2. CASE TurnAway(c) BY <1>2 DEF TurnAway
<1>3. CASE ClaimGate(c) BY <1>3 DEF ClaimGate
<1>4. CASE Mismatch(c)
  <2>1. /\ pc[c] = "gated" /\ outcome' = outcome /\ terms' = terms
        /\ \/ slot[c] = GateId(c) /\ pc' = [pc EXCEPT ![c] = "swapping"] /\ slot' = slot
           \/ /\ pc' = [pc EXCEPT ![c] = IF terms[c] = 0 THEN "loading" ELSE "ready"]
              /\ slot' = [slot EXCEPT ![c] = NoId]
    BY <1>4 DEF Mismatch
  <2>2. GateId(c) # NoId BY IdsDiffer DEF IdsOf
  <2>3. Where /\ How /\ Slots BY <2>1
  <2>4. \A d \in Calls \ {c} : pc'[d] = pc[d] /\ slot'[d] = slot[d] BY <2>1
  <2>5. /\ pc'[c] \in {"swapping", "loading", "ready"}
        /\ pc'[c] \in {"swapping", "ready"} => terms[c] \in {1, 2}
    BY <2>1, <2>2
  <2>6. QED BY <2>1, <2>3, <2>4, <2>5
<1>5. CASE SwapOut(c) BY <1>5 DEF SwapOut
<1>6. CASE GiveBack(c) BY <1>6 DEF GiveBack
<1>7. CASE PreCheck(c) BY <1>7 DEF PreCheck
<1>8. CASE LoadAllowance(c) BY <1>8 DEF LoadAllowance
<1>9. CASE Reserve(c) BY <1>9 DEF Reserve
<1>10. CASE Warn(c) BY <1>10 DEF Warn
<1>11. CASE RecordRefusal(c) BY <1>11 DEF RecordRefusal
<1>12. CASE MailLimit(c) BY <1>12 DEF MailLimit
<1>13. CASE Pause(c) BY <1>13 DEF Pause
<1>14. CASE NotifyPaused(c) BY <1>14 DEF NotifyPaused
<1>15. CASE Run(c) BY <1>15 DEF Run
<1>16. CASE SettleUsage(c) BY <1>16 DEF SettleUsage
<1>17. CASE Crash(c) BY <1>17 DEF Crash
<1>18. QED BY <1>1, <1>2, <1>3, <1>4, <1>5, <1>6, <1>7, <1>8, <1>9, <1>10, <1>11, <1>12, <1>13, <1>14, <1>15, <1>16, <1>17 DEF CallStep

\* What a step does to the reservations and to the booked actions.
Quiet(c) == UNCHANGED <<rows, usage>>
Makes(c, id, p) ==
  /\ rows' = Reserved(id, p) /\ UNCHANGED usage
  /\ \A r \in rows : r.id # id
Gives(c) == rows' = rows \ RowsOf(slot[c]) /\ UNCHANGED usage
Books(c) == rows' = rows \ RowsOf(slot[c]) /\ usage' = usage \cup Booked(slot[c])
BooksBare(c) ==
  /\ UNCHANGED rows /\ slot[c] = NoId
  /\ usage' = usage \cup {[id |-> BareId(c), period |-> PeriodOf(now), late |-> FALSE]}

LEMMA GateEffect ==
  ASSUME RowsAreUnique, NEW c \in Calls, Gate(c)
  PROVE  Quiet(c) \/ Makes(c, GateId(c), PeriodOf(now))
BY DEF Gate, RowsAreUnique, Quiet, Makes, Stage

LEMMA ReserveEffect ==
  ASSUME RowsAreUnique, NEW c \in Calls, Reserve(c)
  PROVE  Quiet(c) \/ Makes(c, OwnId(c), terms[c])
BY DEF Reserve, RowsAreUnique, Quiet, Makes, Stage

LEMMA SettleEffect ==
  ASSUME NEW c \in Calls, SettleUsage(c)
  PROVE  \/ Quiet(c)
         \/ Gives(c) /\ outcome[c] # "success"
         \/ (Books(c) \/ BooksBare(c)) /\ outcome[c] = "success"
BY DEF SettleUsage, Quiet, Gives, Books, BooksBare

LEMMA StepEffect ==
  ASSUME CallTypes, RowsAreUnique, NEW c \in Calls, CallStep(c)
  PROVE  \/ Quiet(c) \/ Gives(c)
         \/ Makes(c, GateId(c), PeriodOf(now)) \/ (Makes(c, OwnId(c), terms[c]) /\ Reserve(c))
         \/ Books(c) \/ BooksBare(c)
<1>1. CASE Gate(c) BY <1>1, GateEffect
<1>2. CASE Reserve(c) BY <1>2, ReserveEffect
<1>3. CASE SettleUsage(c) BY <1>3, SettleEffect
<1>4. CASE SwapOut(c) \/ GiveBack(c) BY <1>4 DEF SwapOut, GiveBack, Release, Quiet, Gives
<1>5. CASE ~Gate(c) /\ ~Reserve(c) /\ ~SettleUsage(c) /\ ~SwapOut(c) /\ ~GiveBack(c)
  BY <1>5 DEF CallStep, TurnAway, ClaimGate, Mismatch, PreCheck, LoadAllowance, Warn, RecordRefusal, MailLimit,
     Pause, NotifyPaused, Run, Crash, tables, Quiet
<1>6. QED BY <1>1, <1>2, <1>3, <1>4, <1>5

\* The other calls, and what is remembered of faults.
LEMMA OthersWait ==
  ASSUME CallTypes, NEW c \in Calls, CallStep(c)
  PROVE  /\ \A d \in Calls \ {c} :
              pc'[d] = pc[d] /\ outcome'[d] = outcome[d] /\ terms'[d] = terms[d] /\ slot'[d] = slot[d]
         /\ UNCHANGED now
         /\ faults' = faults
            \/ \E what \in {"gate", "lost gate", "lost own", "reserve", "release", "allowance", "mail", "record",
                            "settle", "crash"} : Fault(c, what)
<1> USE DEF CallTypes, Goto, EndAs, Keep, tables, Release, Queue
<1>1. CASE Gate(c) BY <1>1 DEF Gate
<1>2. CASE TurnAway(c) BY <1>2 DEF TurnAway
<1>3. CASE ClaimGate(c) BY <1>3 DEF ClaimGate
<1>4. CASE Mismatch(c) BY <1>4 DEF Mismatch
<1>5. CASE SwapOut(c) BY <1>5 DEF SwapOut
<1>6. CASE GiveBack(c) BY <1>6 DEF GiveBack
<1>7. CASE PreCheck(c) BY <1>7 DEF PreCheck
<1>8. CASE LoadAllowance(c) BY <1>8 DEF LoadAllowance
<1>9. CASE Reserve(c) BY <1>9 DEF Reserve
<1>10. CASE Warn(c) BY <1>10 DEF Warn
<1>11. CASE RecordRefusal(c) BY <1>11 DEF RecordRefusal
<1>12. CASE MailLimit(c) BY <1>12 DEF MailLimit
<1>13. CASE Pause(c) BY <1>13 DEF Pause
<1>14. CASE NotifyPaused(c) BY <1>14 DEF NotifyPaused
<1>15. CASE Run(c) BY <1>15 DEF Run
<1>16. CASE SettleUsage(c) BY <1>16 DEF SettleUsage
<1>17. CASE Crash(c) BY <1>17 DEF Crash
<1>18. QED BY <1>1, <1>2, <1>3, <1>4, <1>5, <1>6, <1>7, <1>8, <1>9, <1>10, <1>11, <1>12, <1>13, <1>14, <1>15, <1>16, <1>17 DEF CallStep

\* A reservation and the action it is booked as.
BookOf(r) == [id |-> r.id, period |-> PeriodOf(now), late |-> r.under # r.at]

LEMMA OneRow ==
  ASSUME RowsAreUnique, NEW id
  PROVE  \/ RowsOf(id) = {} /\ Booked(id) = {}
         \/ \E r \in rows : r.id = id /\ RowsOf(id) = {r} /\ Booked(id) = {BookOf(r)}
<1>1. CASE RowsOf(id) = {} BY <1>1 DEF Booked
<1>2. CASE RowsOf(id) # {}
  <2>1. PICK r \in rows : r.id = id BY <1>2 DEF RowsOf
  <2>2. RowsOf(id) = {r} BY <2>1 DEF RowsOf, RowsAreUnique
  <2>3. Booked(id) = {BookOf(r)} BY <2>2 DEF Booked, BookOf
  <2>4. QED BY <2>1, <2>2, <2>3
<1>3. QED BY <1>1, <1>2

LEMMA BookIsRecord ==
  ASSUME TableTypes, NEW r \in rows
  PROVE  BookOf(r) \in [id : Ids, period : {1, 2}, late : BOOLEAN]
<1>1. PeriodOf(now) \in {1, 2} BY PeriodIs, AllowanceAssumption DEF TableTypes, AllowanceTypeOK
<1>2. QED BY <1>1 DEF BookOf, TableTypes, AllowanceTypeOK

\* The tables keep their types.
LEMMA RowsTypesStep ==
  ASSUME CallTypes, TableTypes, RowsAreUnique, NEW c \in Calls, CallStep(c)
  PROVE  rows' \subseteq RowRecords /\ IsFiniteSet(rows')
<1>1. rows \subseteq RowRecords /\ IsFiniteSet(rows) BY DEF TableTypes, AllowanceTypeOK, RowRecords
<1>2. CASE rows' \subseteq rows BY <1>1, <1>2, FS_Subset
<1>3. ASSUME NEW id \in Ids, NEW p \in {1, 2}, rows' = Reserved(id, p)
      PROVE  rows' \subseteq RowRecords /\ IsFiniteSet(rows')
  <2>1. Swept \subseteq rows /\ Row(id, p) \in RowRecords
    BY RowIsRecord DEF Swept, TableTypes, AllowanceTypeOK
  <2>2. rows' \subseteq Swept \cup {Row(id, p)} BY <1>3 DEF Reserved
  <2>3. IsFiniteSet(Swept \cup {Row(id, p)}) BY <1>1, <2>1, FS_Subset, FS_AddElement
  <2>4. IsFiniteSet(rows') BY <2>2, <2>3, FS_Subset
  <2>5. QED BY <1>1, <2>1, <2>2, <2>4
<1>4. PeriodOf(now) \in {1, 2} BY PeriodIs, AllowanceAssumption DEF TableTypes, AllowanceTypeOK
<1>5. GateId(c) \in Ids /\ OwnId(c) \in Ids BY DEF Ids, IdsOf
<1>6. CASE Makes(c, GateId(c), PeriodOf(now)) BY <1>3, <1>4, <1>5, <1>6 DEF Makes
<1>7. CASE Makes(c, OwnId(c), terms[c]) /\ Reserve(c)
  <2>1. terms[c] \in {1, 2} BY <1>7 DEF CallTypes, Reserve, Stage
  <2>2. QED BY <1>3, <1>5, <1>7, <2>1 DEF Makes
<1>8. QED BY <1>2, <1>6, <1>7, StepEffect DEF Quiet, Gives, Books, BooksBare

LEMMA UsageTypesStep ==
  ASSUME CallTypes, TableTypes, RowsAreUnique, NEW c \in Calls, CallStep(c)
  PROVE  /\ usage' \subseteq [id : Ids, period : {1, 2}, late : BOOLEAN] /\ IsFiniteSet(usage')
         /\ \A u \in usage' : u.period <= PeriodOf(now)
<1>1. /\ usage \subseteq [id : Ids, period : {1, 2}, late : BOOLEAN] /\ IsFiniteSet(usage)
      /\ \A u \in usage : u.period <= PeriodOf(now)
  BY DEF TableTypes, AllowanceTypeOK
<1>2. PeriodOf(now) \in {1, 2} BY PeriodIs, AllowanceAssumption DEF TableTypes, AllowanceTypeOK
<1>3. CASE usage' = usage BY <1>1, <1>3
<1>4. CASE \E u \in [id : Ids, period : {1, 2}, late : BOOLEAN] :
             u.period = PeriodOf(now) /\ usage' = usage \cup {u}
  BY <1>1, <1>2, <1>4, FS_AddElement
<1>5. CASE BooksBare(c)
  <2>1. BareId(c) \in Ids BY DEF Ids, IdsOf
  <2>2. [id |-> BareId(c), period |-> PeriodOf(now), late |-> FALSE] \in [id : Ids, period : {1, 2}, late : BOOLEAN]
    BY <1>2, <2>1
  <2>3. QED BY <1>4, <1>5, <2>2 DEF BooksBare
<1>6. CASE Books(c)
  <2>1. CASE Booked(slot[c]) = {} BY <1>3, <1>6, <2>1 DEF Books
  <2>2. CASE Booked(slot[c]) # {}
    <3>1. PICK r \in rows : Booked(slot[c]) = {BookOf(r)} BY <2>2, OneRow
    <3>2. BookOf(r) \in [id : Ids, period : {1, 2}, late : BOOLEAN] BY BookIsRecord
    <3>3. BookOf(r).period = PeriodOf(now) BY DEF BookOf
    <3>4. usage' = usage \cup {BookOf(r)} BY <1>6, <3>1 DEF Books
    <3>5. QED BY <1>4, <3>2, <3>3, <3>4
  <2>3. QED BY <2>1, <2>2
<1>7. QED BY <1>3, <1>5, <1>6, StepEffect DEF Quiet, Gives, Makes

LEMMA SlotsStep ==
  ASSUME CallTypes, AllowanceTypeOK, NEW c \in Calls, CallStep(c)
  PROVE  \A d \in Calls : slot'[d] \in IdsOf(d) \cup {NoId, RefusedId(d), ErrorId(d)}
<1> SUFFICES slot'[c] \in IdsOf(c) \cup {NoId, RefusedId(c), ErrorId(c)} BY OthersWait DEF AllowanceTypeOK
<1> USE DEF CallTypes, AllowanceTypeOK, Keep, IdsOf, tables, Release, SwapOut, GiveBack
<1>1. CASE Gate(c) BY <1>1 DEF Gate
<1>2. CASE TurnAway(c) BY <1>2 DEF TurnAway
<1>3. CASE ClaimGate(c) BY <1>3 DEF ClaimGate
<1>4. CASE Mismatch(c) BY <1>4 DEF Mismatch
<1>5. CASE SwapOut(c) BY <1>5 DEF SwapOut
<1>6. CASE GiveBack(c) BY <1>6 DEF GiveBack
<1>7. CASE PreCheck(c) BY <1>7 DEF PreCheck
<1>8. CASE LoadAllowance(c) BY <1>8 DEF LoadAllowance
<1>9. CASE Reserve(c) BY <1>9 DEF Reserve
<1>10. CASE Warn(c) BY <1>10 DEF Warn
<1>11. CASE RecordRefusal(c) BY <1>11 DEF RecordRefusal
<1>12. CASE MailLimit(c) BY <1>12 DEF MailLimit
<1>13. CASE Pause(c) BY <1>13 DEF Pause
<1>14. CASE NotifyPaused(c) BY <1>14 DEF NotifyPaused
<1>15. CASE Run(c) BY <1>15 DEF Run
<1>16. CASE SettleUsage(c) BY <1>16 DEF SettleUsage
<1>17. CASE Crash(c) BY <1>17 DEF Crash
<1>18. QED BY <1>1, <1>2, <1>3, <1>4, <1>5, <1>6, <1>7, <1>8, <1>9, <1>10, <1>11, <1>12, <1>13, <1>14, <1>15, <1>16, <1>17 DEF CallStep

LEMMA NoticesStep ==
  ASSUME CallTypes, TableTypes, NEW c \in Calls, CallStep(c)
  PROVE  events' \subseteq {1, 2} /\ funnel' \subseteq events' /\ mails' \subseteq (Templates \X {1, 2})
<1>50. /\ events \subseteq {1, 2} /\ funnel \subseteq events /\ mails \subseteq (Templates \X {1, 2})
       /\ pc[c] \in Refusing \cup {"warning"} => terms[c] \in {1, 2}
  BY DEF TableTypes, AllowanceTypeOK, CallTypes
<1> USE <1>50 DEF Stage, Refusing, Queue, tables, Release, SwapOut, GiveBack, Templates
<1>1. CASE Gate(c) BY <1>1 DEF Gate
<1>2. CASE TurnAway(c) BY <1>2 DEF TurnAway
<1>3. CASE ClaimGate(c) BY <1>3 DEF ClaimGate
<1>4. CASE Mismatch(c) BY <1>4 DEF Mismatch
<1>5. CASE SwapOut(c) BY <1>5 DEF SwapOut
<1>6. CASE GiveBack(c) BY <1>6 DEF GiveBack
<1>7. CASE PreCheck(c) BY <1>7 DEF PreCheck
<1>8. CASE LoadAllowance(c) BY <1>8 DEF LoadAllowance
<1>9. CASE Reserve(c) BY <1>9 DEF Reserve
<1>10. CASE Warn(c) BY <1>10 DEF Warn
<1>11. CASE RecordRefusal(c) BY <1>11 DEF RecordRefusal
<1>12. CASE MailLimit(c) BY <1>12 DEF MailLimit
<1>13. CASE Pause(c) BY <1>13 DEF Pause
<1>14. CASE NotifyPaused(c) BY <1>14 DEF NotifyPaused
<1>15. CASE Run(c) BY <1>15 DEF Run
<1>16. CASE SettleUsage(c) BY <1>16 DEF SettleUsage
<1>17. CASE Crash(c) BY <1>17 DEF Crash
<1>18. QED BY <1>1, <1>2, <1>3, <1>4, <1>5, <1>6, <1>7, <1>8, <1>9, <1>10, <1>11, <1>12, <1>13, <1>14, <1>15, <1>16, <1>17 DEF CallStep

LEMMA FaultsStep ==
  ASSUME CallTypes, TableTypes, NEW c \in Calls, CallStep(c)
  PROVE  IsFiniteSet(faults') /\ Cardinality(faults') <= MaxFaults
<1>1. IsFiniteSet(faults) /\ Cardinality(faults) <= MaxFaults BY DEF TableTypes, AllowanceTypeOK
<1>2. ASSUME NEW what, Fault(c, what) PROVE IsFiniteSet(faults') /\ Cardinality(faults') <= MaxFaults
  <2>1. Cardinality(faults) \in Nat BY <1>1, FS_CardinalityType
  <2>2. Cardinality(faults) < MaxFaults /\ faults' = faults \cup {<<c, what>>} BY <1>2 DEF Fault, FaultLeft
  <2>3. ASSUME NEW x PROVE /\ IsFiniteSet(faults \cup {x})
                           /\ Cardinality(faults \cup {x}) <= Cardinality(faults) + 1
    <3>1. IsFiniteSet(faults \cup {x}) BY <1>1, FS_AddElement
    <3>2. Cardinality(faults \cup {x}) = IF x \in faults THEN Cardinality(faults) ELSE Cardinality(faults) + 1
      BY <1>1, FS_AddElement
    <3>3. QED BY <2>1, <3>1, <3>2
  <2>4. IsFiniteSet(faults') /\ Cardinality(faults') <= Cardinality(faults) + 1 BY <2>2, <2>3
  <2>5. Cardinality(faults') \in Nat BY <2>4, FS_CardinalityType
  <2>6. QED BY <2>1, <2>2, <2>4, <2>5, AllowanceAssumption
<1>3. QED BY <1>1, <1>2, OthersWait

LEMMA AllowanceTypesStep ==
  CallTypes /\ TableTypes /\ RowsAreUnique /\ [AllowanceNext]_allowanceVars => CallTypes' /\ TableTypes'
<1> SUFFICES ASSUME CallTypes, TableTypes, RowsAreUnique, [AllowanceNext]_allowanceVars
             PROVE  CallTypes' /\ TableTypes'
  OBVIOUS
<1>1. CASE UNCHANGED allowanceVars
  BY <1>1 DEF allowanceVars, CallTypes, TableTypes, AllowanceTypeOK
<1>2. CASE Tick
  <2>1. UNCHANGED <<tables, pc, terms, slot, outcome, faults>> /\ now' \in 0 .. Horizon /\ now' > now /\ now \in Nat
    BY <1>2, AllowanceAssumption DEF Tick, TableTypes, AllowanceTypeOK
  <2>2. PeriodOf(now) <= PeriodOf(now') BY <2>1, AllowanceAssumption DEF PeriodOf
  <2>3. \A u \in usage : u.period \in {1, 2} /\ u.period <= PeriodOf(now) BY DEF TableTypes, AllowanceTypeOK
  <2>4. PeriodOf(now) \in {1, 2} /\ PeriodOf(now') \in {1, 2} BY DEF PeriodOf
  <2>5. \A u \in usage : u.period <= PeriodOf(now') BY <2>2, <2>3, <2>4
  <2>6. CallTypes' BY <2>1 DEF CallTypes, tables
  <2>7. AllowanceTypeOK' BY <2>1 DEF TableTypes, AllowanceTypeOK, tables
  <2>8. QED BY <2>1, <2>5, <2>6, <2>7 DEF TableTypes, tables, PeriodOf
<1>3. ASSUME NEW c \in Calls, CallStep(c) PROVE CallTypes' /\ TableTypes'
  <2>1. now \in Nat /\ AllowanceTypeOK BY AllowanceAssumption DEF TableTypes, AllowanceTypeOK
  <2>2. CallTypes' BY <1>3, <2>1, CallTypesStep
  <2>3. UNCHANGED now BY <1>3, OthersWait
  <2>4. AllowanceTypeOK'
    BY <1>3, <2>1, <2>2, <2>3, RowsTypesStep, UsageTypesStep, SlotsStep, NoticesStep, FaultsStep
       DEF AllowanceTypeOK, RowRecords, CallTypes
  <2>5. \A u \in usage' : u.period <= PeriodOf(now') BY <1>3, <2>3, UsageTypesStep
  <2>6. QED BY <1>3, <2>2, <2>4, <2>5, RowsTypesStep, UsageTypesStep, FaultsStep DEF TableTypes, PeriodOf
<1>4. QED BY <1>1, <1>2, <1>3 DEF AllowanceNext
-----------------------------------------------------------------------------

\* Nobody begins anew, and nobody comes back before the own reservation.
Unreserved == Early \cup {"gated", "swapping", "ready"}
LEMMA StagesGoOn ==
  ASSUME CallTypes, NEW c \in Calls, CallStep(c)
  PROVE  /\ pc'[c] # "new"
         /\ pc'[c] \in Unreserved => pc[c] \in Unreserved /\ ~Reserve(c)
<1>50. Reserve(c) => pc[c] = "ready" BY DEF Reserve, Stage
<1> USE <1>50 DEF CallTypes, Stage, Goto, Release, Unreserved, Early
<1>1. CASE Gate(c) BY <1>1 DEF Gate
<1>2. CASE TurnAway(c) BY <1>2 DEF TurnAway
<1>3. CASE ClaimGate(c) BY <1>3 DEF ClaimGate
<1>4. CASE Mismatch(c) BY <1>4 DEF Mismatch
<1>5. CASE SwapOut(c) BY <1>5 DEF SwapOut
<1>6. CASE GiveBack(c) BY <1>6 DEF GiveBack
<1>7. CASE PreCheck(c) BY <1>7 DEF PreCheck
<1>8. CASE LoadAllowance(c) BY <1>8 DEF LoadAllowance
<1>9. CASE Reserve(c) BY <1>9 DEF Reserve, Gate
<1>10. CASE Warn(c) BY <1>10 DEF Warn
<1>11. CASE RecordRefusal(c) BY <1>11 DEF RecordRefusal
<1>12. CASE MailLimit(c) BY <1>12 DEF MailLimit
<1>13. CASE Pause(c) BY <1>13 DEF Pause
<1>14. CASE NotifyPaused(c) BY <1>14 DEF NotifyPaused
<1>15. CASE Run(c) BY <1>15 DEF Run
<1>16. CASE SettleUsage(c) BY <1>16 DEF SettleUsage
<1>17. CASE Crash(c) BY <1>17 DEF Crash
<1>18. QED BY <1>1, <1>2, <1>3, <1>4, <1>5, <1>6, <1>7, <1>8, <1>9, <1>10, <1>11, <1>12, <1>13, <1>14, <1>15, <1>16, <1>17 DEF CallStep

\* The rows a step leaves, and those it makes.
LEMMA RowsAfter ==
  ASSUME CallTypes, RowsAreUnique, NEW c \in Calls, CallStep(c)
  PROVE  \A r \in rows' : \/ r \in rows
                          \/ r.id = GateId(c) /\ pc[c] = "new" /\ \A q \in rows : q.id # r.id
                          \/ r.id = OwnId(c) /\ Reserve(c) /\ \A q \in rows : q.id # r.id
<1>1. CASE rows' \subseteq rows BY <1>1
<1>2. \A id, p : rows' = Reserved(id, p) => \A r \in rows' : r \in rows \/ r.id = id
  BY DEF Reserved, Swept, Row
<1>3. CASE Gate(c) BY <1>1, <1>2, <1>3, GateEffect DEF Gate, Stage, Makes, Quiet
<1>4. CASE Reserve(c) BY <1>1, <1>2, <1>4, ReserveEffect DEF Makes, Quiet
<1>5. CASE ~Gate(c) /\ ~Reserve(c)
  BY <1>1, <1>5 DEF CallStep, TurnAway, ClaimGate, Mismatch, PreCheck, LoadAllowance, Warn, RecordRefusal, MailLimit,
     Pause, NotifyPaused, Run, Crash, tables, SwapOut, GiveBack, Release, SettleUsage
<1>6. QED BY <1>3, <1>4, <1>5

\* A sweep and a reservation make one row.
LEMMA OneIsMade ==
  ASSUME CallTypes, RowsAreUnique, NEW c \in Calls, CallStep(c), NEW r \in rows' \ rows, NEW s \in rows' \ rows
  PROVE  r = s
<1>1. \A id, p : rows' = Reserved(id, p) => r = Row(id, p) /\ s = Row(id, p)
  BY DEF Reserved, Swept
<1>2. QED BY <1>1, StepEffect DEF Quiet, Gives, Books, BooksBare, Makes

LEMMA UniqueStep ==
  CallTypes /\ RowsAreUnique /\ [AllowanceNext]_allowanceVars => RowsAreUnique'
<1> SUFFICES ASSUME CallTypes, RowsAreUnique, [AllowanceNext]_allowanceVars PROVE RowsAreUnique'
  OBVIOUS
<1>1. CASE Tick \/ UNCHANGED allowanceVars BY <1>1 DEF Tick, allowanceVars, tables, RowsAreUnique
<1>2. ASSUME NEW c \in Calls, CallStep(c) PROVE RowsAreUnique'
  <2> USE <1>2
  <2>1. ASSUME NEW r \in rows', NEW s \in rows', r.id = s.id PROVE r = s
    <3>1. CASE r \in rows /\ s \in rows BY <2>1, <3>1 DEF RowsAreUnique
    <3>2. CASE r \notin rows /\ s \notin rows BY <3>2, OneIsMade
    <3>3. QED BY <2>1, <3>1, <3>2, RowsAfter
  <2>2. ASSUME NEW d \in Calls, NEW r \in rows'
        PROVE  /\ pc'[d] = "new" => r.id # GateId(d)
               /\ pc'[d] \in Unreserved => r.id # OwnId(d)
    <3>1. pc'[d] = "new" => pc[d] = "new" /\ c # d BY OthersWait, StagesGoOn
    <3>2. pc'[d] \in Unreserved => pc[d] \in Unreserved /\ (c # d \/ ~Reserve(c)) BY OthersWait, StagesGoOn
    <3>3. CASE r \in rows BY <3>1, <3>2, <3>3 DEF RowsAreUnique, Unreserved
    <3>4. CASE r \notin rows
      <4>1. r.id = GateId(c) \/ (r.id = OwnId(c) /\ Reserve(c)) BY <3>4, RowsAfter
      <4>2. GateId(c) \in IdsOf(c) /\ OwnId(c) \in IdsOf(c) /\ GateId(d) \in IdsOf(d) /\ OwnId(d) \in IdsOf(d)
        BY DEF IdsOf
      <4>3. QED BY <3>1, <3>2, <4>1, <4>2, IdsDiffer
    <3>5. QED BY <3>3, <3>4
  <2>3. QED BY <2>1, <2>2 DEF RowsAreUnique, Unreserved
<1>3. QED BY <1>1, <1>2 DEF AllowanceNext

\* Only its own rows are made by a call, and only its own actions booked.
LEMMA OthersKeepTheirs ==
  ASSUME CallTypes, TableTypes, RowsAreUnique, NEW c \in Calls, CallStep(c), NEW d \in Calls \ {c}
  PROVE  /\ MineOf(d)' \subseteq MineOf(d) /\ PaidBy(d)' = PaidBy(d)
         /\ \A what : <<d, what>> \in faults' <=> <<d, what>> \in faults
         /\ Clean(d)' <=> Clean(d)
<1>1. MineOf(d)' \subseteq MineOf(d)
  <2>1. GateId(c) \in IdsOf(c) /\ OwnId(c) \in IdsOf(c) BY DEF IdsOf
  <2>2. QED BY <2>1, RowsAfter, IdsDiffer DEF MineOf
<1>2. PaidBy(d)' = PaidBy(d)
  <2>1. CASE usage' = usage BY <2>1 DEF PaidBy
  <2>2. CASE BooksBare(c)
    <3>1. BareId(c) \in IdsOf(c) BY DEF IdsOf
    <3>2. QED BY <2>2, <3>1, IdsDiffer DEF BooksBare, PaidBy
  <2>3. CASE Books(c)
    <3>1. CASE Booked(slot[c]) = {} BY <2>1, <2>3, <3>1 DEF Books
    <3>2. CASE Booked(slot[c]) # {}
      <4>1. PICK r \in rows : r.id = slot[c] /\ Booked(slot[c]) = {BookOf(r)} BY <3>2, OneRow
      <4>2. slot[c] \notin IdsOf(d) BY IdsDiffer DEF TableTypes, AllowanceTypeOK
      <4>3. QED BY <2>3, <4>1, <4>2 DEF Books, BookOf, PaidBy
    <3>3. QED BY <3>1, <3>2
  <2>4. QED BY <2>1, <2>2, <2>3, StepEffect DEF Quiet, Gives, Makes
<1>3. \A what : <<d, what>> \in faults' <=> <<d, what>> \in faults
  <2>1. ASSUME NEW w, Fault(c, w), NEW what PROVE <<d, what>> \in faults' <=> <<d, what>> \in faults
    BY <2>1 DEF Fault
  <2>2. QED BY <2>1, OthersWait
<1>4. Clean(d)' <=> Clean(d) BY <1>3 DEF Clean, Stray
<1>5. QED BY <1>1, <1>2, <1>3, <1>4

LEMMA FaultsStay ==
  ASSUME CallTypes, NEW c \in Calls, CallStep(c)
  PROVE  faults \subseteq faults' /\ (Clean(c)' => Clean(c))
<1>1. faults \subseteq faults' BY OthersWait DEF Fault
<1>2. QED BY <1>1 DEF Clean, Stray

\* Gated without the gate's reservation, a call has none.
LEMMA NoneWithoutGate ==
  ASSUME SlotIsMine, NEW c \in Calls, pc[c] = "gated", slot[c] # GateId(c), Clean(c)
  PROVE  MineOf(c) = {}
BY DEF SlotIsMine, AnswersFor, MineOf, IdsOf

LEMMA AnswersStep ==
  ASSUME CallTypes, TableTypes, RowsAreUnique, SlotIsMine, NEW c \in Calls, CallStep(c)
  PROVE  AnswersFor(c)'
<1>0. faults \subseteq faults' /\ AnswersFor(c) /\ (Clean(c)' => Clean(c)) BY FaultsStay DEF SlotIsMine
<1>a. GateId(c) # OwnId(c) /\ GateId(c) # BareId(c) /\ OwnId(c) # BareId(c) /\ NoId \notin IdsOf(c)
      /\ RefusedId(c) \notin IdsOf(c) /\ ErrorId(c) \notin IdsOf(c)
      /\ IdsOf(c) = {GateId(c), OwnId(c), BareId(c)}
  BY IdsDiffer DEF IdsOf
<1>b. slot[c] \in IdsOf(c) \cup {NoId, RefusedId(c), ErrorId(c)} BY DEF TableTypes, AllowanceTypeOK
<1> USE <1>0, <1>a, <1>b DEF AnswersFor, CallTypes, Stage, Goto, Keep, Early, Refusing
<1>1. CASE Gate(c)
  <2>1. pc'[c] = "gated" /\ pc[c] = "new" BY <1>1 DEF Gate
  <2>2. slot'[c] \notin {OwnId(c), BareId(c)} BY <1>1 DEF Gate, NoId, OwnId, BareId
  <2>3. ASSUME Clean(c)', NEW r \in MineOf(c)' PROVE r.id = slot'[c]
    <3>1. MineOf(c) = {} BY <2>1, <2>3
    <3>2. r \in rows' /\ r \notin rows BY <2>3, <3>1 DEF MineOf
    <3>3. rows' = Reserved(GateId(c), PeriodOf(now)) /\ Keep(c, IF HasRoom(PeriodOf(now)) THEN GateId(c) ELSE RefusedId(c))
      <4>1. ~Fault(c, "lost gate") BY <2>3 DEF Fault, Clean, Stray
      <4>2. QED BY <1>1, <3>2, <4>1 DEF Gate
    <3>4. HasRoom(PeriodOf(now)) /\ r.id = GateId(c) BY <3>2, <3>3 DEF Reserved, Swept, Row
    <3>5. QED BY <3>3, <3>4
  <2>4. QED BY <2>1, <2>2, <2>3
<1>2. CASE TurnAway(c) BY <1>2 DEF TurnAway, tables, MineOf
<1>3. CASE ClaimGate(c)
  <2>1. slot[c] # GateId(c) /\ Clean(c) => MineOf(c) = {}
    BY <1>3, NoneWithoutGate DEF ClaimGate
  <2>2. UNCHANGED rows /\ MineOf(c)' = MineOf(c) BY <1>3 DEF ClaimGate, tables, MineOf
  <2>3. slot'[c] = (IF slot[c] = GateId(c) THEN GateId(c) ELSE NoId) BY <1>3 DEF ClaimGate
  <2>4. pc'[c] \in {"warning", "running"} \/ (pc'[c] = "recording" /\ slot[c] # GateId(c)) BY <1>3, IdsDiffer DEF ClaimGate
  <2>5. QED BY <2>1, <2>2, <2>3, <2>4
<1>4. CASE Mismatch(c)
  <2>1. slot[c] # GateId(c) /\ Clean(c) => MineOf(c) = {}
    BY <1>4, NoneWithoutGate DEF Mismatch
  <2>2. UNCHANGED rows /\ MineOf(c)' = MineOf(c) BY <1>4 DEF Mismatch, tables, MineOf
  <2>3. \/ slot[c] = GateId(c) /\ pc'[c] = "swapping" /\ slot'[c] = slot[c]
        \/ slot[c] # GateId(c) /\ pc'[c] \in {"ready", "loading"} /\ slot'[c] = NoId
    BY <1>4 DEF Mismatch
  <2>4. QED BY <2>1, <2>2, <2>3
<1>5. CASE SwapOut(c) \/ GiveBack(c)
  <2>1. /\ pc'[c] \in {"ready", "done"}
        /\ rows' = rows \ RowsOf(slot[c]) \/ ~Clean(c)'
    BY <1>5 DEF SwapOut, GiveBack, Release, Fault, Clean, Stray
  <2>2. Clean(c)' => MineOf(c)' = {} BY <2>1 DEF MineOf, RowsOf
  <2>3. QED BY <2>1, <2>2
<1>6. CASE PreCheck(c) BY <1>6 DEF PreCheck, tables, MineOf
<1>7. CASE LoadAllowance(c) BY <1>7 DEF LoadAllowance, tables, MineOf
<1>8. CASE Reserve(c)
  <2>1. pc'[c] \in {"warning", "recording", "running"} /\ pc[c] = "ready" BY <1>8 DEF Reserve
  <2>2. ASSUME Clean(c)', NEW r \in MineOf(c)'
        PROVE  r.id = slot'[c] /\ pc'[c] = "warning"
    <3>1. MineOf(c) = {} BY <2>1, <2>2
    <3>2. r \in rows' /\ r \notin rows BY <2>2, <3>1 DEF MineOf
    <3>3. rows' = Reserved(OwnId(c), terms[c]) BY <1>8, <3>2 DEF Reserve
    <3>4. HasRoom(terms[c]) /\ r.id = OwnId(c) BY <3>2, <3>3 DEF Reserved, Swept, Row
    <3>5. Goto(c, "warning") /\ Keep(c, OwnId(c))
      <4>1. ~Fault(c, "lost own") BY <2>2 DEF Fault, Clean, Stray
      <4>2. QED BY <1>8, <3>2, <3>4, <4>1 DEF Reserve
    <3>6. QED BY <3>4, <3>5
  <2>3. QED BY <2>1, <2>2
<1>9. CASE Warn(c) BY <1>9 DEF Warn, MineOf
<1>10. CASE RecordRefusal(c) BY <1>10 DEF RecordRefusal, MineOf
<1>11. CASE MailLimit(c) BY <1>11 DEF MailLimit, MineOf
<1>12. CASE Pause(c) BY <1>12 DEF Pause, tables, MineOf
<1>13. CASE NotifyPaused(c) BY <1>13 DEF NotifyPaused, MineOf
<1>14. CASE Run(c) BY <1>14 DEF Run, tables, MineOf
<1>15. CASE SettleUsage(c)
  <2>1. pc'[c] = "done" /\ UNCHANGED slot BY <1>15 DEF SettleUsage
  <2>2. \/ rows' = rows \ RowsOf(slot[c])
        \/ UNCHANGED rows /\ slot[c] = NoId
        \/ UNCHANGED rows /\ <<c, "settle">> \in faults'
    BY <1>15 DEF SettleUsage, Fault
  <2>3. CASE rows' = rows \ RowsOf(slot[c])
    <3>1. Clean(c)' => MineOf(c)' = {} BY <2>3 DEF MineOf, RowsOf
    <3>2. QED BY <2>1, <3>1
  <2>4. CASE UNCHANGED rows /\ slot[c] = NoId
    <3>1. Clean(c)' => MineOf(c)' = {} BY <2>4 DEF MineOf
    <3>2. QED BY <2>1, <3>1
  <2>5. CASE UNCHANGED rows /\ <<c, "settle">> \in faults'
    <3>1. MineOf(c)' = MineOf(c) BY <2>5 DEF MineOf
    <3>2. QED BY <2>1, <2>5, <3>1
  <2>6. QED BY <2>2, <2>3, <2>4, <2>5
<1>16. CASE Crash(c) BY <1>16 DEF Crash, tables, MineOf
<1>17. QED
  BY <1>1, <1>2, <1>3, <1>4, <1>5, <1>6, <1>7, <1>8, <1>9, <1>10, <1>11, <1>12, <1>13, <1>14, <1>15, <1>16
     DEF CallStep

LEMMA SlotStep ==
  CallTypes /\ TableTypes /\ RowsAreUnique /\ SlotIsMine /\ [AllowanceNext]_allowanceVars => SlotIsMine'
<1> SUFFICES ASSUME CallTypes, TableTypes, RowsAreUnique, SlotIsMine, [AllowanceNext]_allowanceVars
             PROVE  SlotIsMine'
  OBVIOUS
<1>1. CASE Tick \/ UNCHANGED allowanceVars
  BY <1>1 DEF Tick, allowanceVars, tables, SlotIsMine, AnswersFor, MineOf, Clean
<1>2. ASSUME NEW c \in Calls, CallStep(c) PROVE SlotIsMine'
  <2>1. ASSUME NEW d \in Calls \ {c} PROVE AnswersFor(d)'
    <3>1. pc'[d] = pc[d] /\ slot'[d] = slot[d] BY <1>2, OthersWait
    <3>2. /\ MineOf(d)' \subseteq MineOf(d) /\ Clean(d)' = Clean(d)
          /\ \A what : <<d, what>> \in faults' <=> <<d, what>> \in faults
      BY <1>2, OthersKeepTheirs DEF Clean
    <3>3. AnswersFor(d) BY DEF SlotIsMine
    <3>4. QED BY <3>1, <3>2, <3>3 DEF AnswersFor
  <2>2. AnswersFor(c)' BY <1>2, AnswersStep
  <2>3. QED BY <2>1, <2>2 DEF SlotIsMine
<1>3. QED BY <1>1, <1>2 DEF AllowanceNext

-----------------------------------------------------------------------------
\* Only a settlement books, and who is done takes no further step.
LEMMA OnlySettleBooks ==
  ASSUME NEW c \in Calls, CallStep(c)
  PROVE  /\ SettleUsage(c) \/ UNCHANGED usage
         /\ pc[c] # "done"
<1> USE DEF Stage, tables, Release
<1>1. CASE SettleUsage(c) BY <1>1 DEF SettleUsage
<1>2. CASE Crash(c) BY <1>2 DEF Crash
<1>3. CASE Gate(c) \/ TurnAway(c) \/ ClaimGate(c) \/ Mismatch(c) \/ SwapOut(c) \/ GiveBack(c)
  BY <1>3 DEF Gate, TurnAway, ClaimGate, Mismatch, SwapOut, GiveBack
<1>4. CASE PreCheck(c) \/ LoadAllowance(c) \/ Reserve(c) \/ Warn(c) \/ Run(c)
  BY <1>4 DEF PreCheck, LoadAllowance, Reserve, Warn, Run
<1>5. CASE RecordRefusal(c) \/ MailLimit(c) \/ Pause(c) \/ NotifyPaused(c)
  BY <1>5 DEF RecordRefusal, MailLimit, Pause, NotifyPaused
<1>6. QED BY <1>1, <1>2, <1>3, <1>4, <1>5 DEF CallStep

PaidFor(c) ==
  /\ PaidBy(c) # {} => pc[c] = "done" /\ outcome[c] = "success"
  /\ \A u, v \in PaidBy(c) : u = v
  /\ Clean(c) /\ PaidBy(c) # {} => MineOf(c) = {}

LEMMA SettlePays ==
  ASSUME CallTypes, TableTypes, RowsAreUnique, SlotIsMine, PaidOnce, NEW c \in Calls, SettleUsage(c)
  PROVE  PaidFor(c)'
<1>1. /\ pc[c] = "settling" /\ pc'[c] = "done" /\ outcome' = outcome /\ PaidBy(c) = {} /\ (Clean(c)' => Clean(c))
  BY FaultsStay DEF SettleUsage, Stage, Goto, CallTypes, PaidOnce, CallStep
<1>2. CASE Quiet(c) \/ Gives(c)
  <2>1. PaidBy(c)' = {} BY <1>1, <1>2 DEF Quiet, Gives, PaidBy
  <2>2. QED BY <2>1 DEF PaidFor
<1>3. \A r \in MineOf(c) : Clean(c) => r.id = slot[c]
  BY DEF SlotIsMine, AnswersFor
<1>4. CASE BooksBare(c) /\ outcome[c] = "success"
  <2>1. \A u, v \in PaidBy(c)' : u = v BY <1>1, <1>4 DEF BooksBare, PaidBy
  <2>2. Clean(c)' => MineOf(c)' = {}
    BY <1>1, <1>3, <1>4, IdsDiffer DEF BooksBare, MineOf
  <2>3. QED BY <1>1, <1>4, <2>1, <2>2 DEF PaidFor
<1>5. CASE Books(c) /\ outcome[c] = "success"
  <2>1. PaidBy(c)' \subseteq Booked(slot[c]) BY <1>1, <1>5 DEF Books, PaidBy
  <2>2. \A u, v \in Booked(slot[c]) : u = v BY OneRow
  <2>3. Clean(c)' => MineOf(c)' = {}
    BY <1>1, <1>3, <1>5 DEF Books, MineOf, RowsOf
  <2>4. QED BY <1>1, <1>5, <2>1, <2>2, <2>3 DEF PaidFor
<1>6. QED BY <1>2, <1>4, <1>5, SettleEffect

LEMMA PaidStep ==
  CallTypes /\ TableTypes /\ RowsAreUnique /\ SlotIsMine /\ PaidOnce /\ [AllowanceNext]_allowanceVars => PaidOnce'
<1> SUFFICES ASSUME CallTypes, TableTypes, RowsAreUnique, SlotIsMine, PaidOnce, [AllowanceNext]_allowanceVars
             PROVE  PaidOnce'
  OBVIOUS
<1>1. CASE Tick \/ UNCHANGED allowanceVars
  BY <1>1 DEF Tick, allowanceVars, tables, PaidOnce, PaidBy, MineOf, Clean
<1>2. ASSUME NEW c \in Calls, CallStep(c) PROVE PaidOnce'
  <2>1. ASSUME NEW d \in Calls \ {c} PROVE PaidFor(d)'
    <3>1. pc'[d] = pc[d] /\ outcome'[d] = outcome[d] BY <1>2, OthersWait
    <3>2. /\ MineOf(d)' \subseteq MineOf(d) /\ PaidBy(d)' = PaidBy(d)
          /\ Clean(d)' <=> Clean(d)
      BY <1>2, OthersKeepTheirs
    <3>3. QED BY <3>1, <3>2 DEF PaidOnce, PaidFor
  <2>2. PaidFor(c)'
    <3>1. CASE SettleUsage(c) BY <3>1, SettlePays
    <3>2. CASE UNCHANGED usage
      <4>1. PaidBy(c)' = {} BY <1>2, <3>2, OnlySettleBooks DEF PaidOnce, PaidBy
      <4>2. QED BY <4>1 DEF PaidFor
    <3>3. QED BY <1>2, <3>1, <3>2, OnlySettleBooks
  <2>3. QED BY <2>1, <2>2 DEF PaidOnce, PaidFor
<1>3. QED BY <1>1, <1>2 DEF AllowanceNext

-----------------------------------------------------------------------------
\* What the cap is asked about: the booked actions of the current period that it
\* knows of, and the reservations made against their own period.
Charged == BookedIn(PeriodOf(now)) \ Uncapped(PeriodOf(now))
Due == rows \ LateRows

LEMMA CapIs == CapHolds <=> Cardinality(Charged) + Cardinality(Due) <= Cap
BY DEF CapHolds, Charged, Due

\* Sizes: of a smaller set, and of a set with one element more or less.
LEMMA Smaller ==
  ASSUME NEW S, IsFiniteSet(S), NEW T, T \subseteq S
  PROVE  IsFiniteSet(T) /\ Cardinality(T) \in Nat /\ Cardinality(S) \in Nat /\ Cardinality(T) <= Cardinality(S)
BY FS_Subset, FS_CardinalityType

LEMMA OneMore ==
  ASSUME NEW S, IsFiniteSet(S), NEW x, NEW T, T \subseteq S \cup {x}
  PROVE  Cardinality(T) <= Cardinality(S) + 1
<1>1. IsFiniteSet(S \cup {x}) BY FS_AddElement
<1>2. Cardinality(S) \in Nat BY FS_CardinalityType
<1>3. Cardinality(S \cup {x}) = IF x \in S THEN Cardinality(S) ELSE Cardinality(S) + 1 BY FS_AddElement
<1>4. Cardinality(T) \in Nat /\ Cardinality(T) <= Cardinality(S \cup {x}) BY <1>1, Smaller
<1>5. QED BY <1>2, <1>3, <1>4

LEMMA OneLess ==
  ASSUME NEW S, IsFiniteSet(S), NEW x \in S, NEW T, T \subseteq S \ {x}
  PROVE  Cardinality(T) <= Cardinality(S) - 1
<1>1. IsFiniteSet(S \ {x}) BY FS_RemoveElement
<1>2. Cardinality(S) \in Nat BY FS_CardinalityType
<1>3. Cardinality(S \ {x}) = IF x \in S THEN Cardinality(S) - 1 ELSE Cardinality(S) BY FS_RemoveElement
<1>4. Cardinality(T) \in Nat /\ Cardinality(T) <= Cardinality(S \ {x}) BY <1>1, Smaller
<1>5. QED BY <1>2, <1>3, <1>4

LEMMA AtMostOne ==
  ASSUME NEW S, \A x, y \in S : x = y
  PROVE  /\ S = {} => Cardinality(S) = 0
         /\ S # {} => Cardinality(S) = 1
<1>1. S = {} \/ \E x : S = {x} OBVIOUS
<1>2. QED BY <1>1, FS_EmptySet, FS_Singleton

LEMMA CountsAreFinite ==
  ASSUME TableTypes
  PROVE  /\ IsFiniteSet(Charged) /\ IsFiniteSet(Due) /\ IsFiniteSet(Swept)
         /\ \A p : IsFiniteSet(BookedIn(p))
         /\ Cardinality(Charged) \in Nat /\ Cardinality(Due) \in Nat /\ Cardinality(Swept) \in Nat
         /\ \A p : Cardinality(BookedIn(p)) \in Nat
<1>1. IsFiniteSet(usage) /\ IsFiniteSet(rows) BY DEF TableTypes
<1>2. Charged \subseteq usage /\ Due \subseteq rows /\ Swept \subseteq rows /\ \A p : BookedIn(p) \subseteq usage
  BY DEF Charged, Due, Swept, BookedIn
<1>3. QED BY <1>1, <1>2, Smaller

\* The turn of the period: nothing of the new one is booked yet.
LEMMA TickCap ==
  ASSUME TableTypes, CapHolds, Tick
  PROVE  CapHolds'
<1>1. /\ now \in Nat /\ now' \in Nat /\ UNCHANGED <<rows, usage>> /\ now' > now
  BY AllowanceAssumption DEF Tick, tables, TableTypes, AllowanceTypeOK
<1>2. PeriodOf(now) \in {1, 2} /\ PeriodOf(now') \in {1, 2} /\ PeriodOf(now) <= PeriodOf(now')
  BY <1>1, AllowanceAssumption DEF PeriodOf
<1>3. Due' = Due BY <1>1 DEF Due, LateRows
<1>4. CASE PeriodOf(now') = PeriodOf(now)
  <2>1. Charged' = Charged BY <1>1, <1>4 DEF Charged, BookedIn, Uncapped, PeriodOf
  <2>2. QED BY <1>3, <2>1, CapIs DEF CapHolds, Charged, Due
<1>5. CASE PeriodOf(now') # PeriodOf(now)
  <2>1. \A u \in usage : u.period # PeriodOf(now') BY <1>2, <1>5 DEF TableTypes, AllowanceTypeOK
  <2>2. Charged' = {} BY <1>1, <2>1 DEF Charged, BookedIn, PeriodOf
  <2>3. Cardinality(Charged') = 0 BY <2>2, FS_EmptySet
  <2>4. Cardinality(Charged) + Cardinality(Due) <= Cap BY CapIs
  <2>5. Cardinality(Charged') + Cardinality(Due') <= Cap
    BY <1>3, <2>3, <2>4, CountsAreFinite, AllowanceAssumption
  <2>6. QED BY <2>5 DEF CapHolds, Charged, Due
<1>6. QED BY <1>4, <1>5

LEMMA MakesCap ==
  ASSUME TableTypes, CapHolds, NEW id \in Ids, NEW p \in {1, 2},
         rows' = Reserved(id, p), UNCHANGED <<usage, now>>
  PROVE  CapHolds'
<1>1. Charged' = Charged BY DEF Charged, BookedIn, Uncapped, PeriodOf
<1>2. \A r \in Swept : r \in rows BY DEF Swept
<1>3. Cardinality(Charged) + Cardinality(Due) <= Cap BY CapIs
<1>4. CASE Due' \subseteq Due
  <2>1. Cardinality(Due') \in Nat /\ Cardinality(Due') <= Cardinality(Due) BY <1>4, CountsAreFinite, Smaller
  <2>2. Cardinality(Charged') + Cardinality(Due') <= Cap
    BY <1>1, <1>3, <2>1, CountsAreFinite, AllowanceAssumption
  <2>3. QED BY <2>2 DEF CapHolds, Charged, Due
<1>5. CASE HasRoom(p) /\ p = PeriodOf(now)
  <2>1. Cardinality(BookedIn(p)) + Cardinality(Swept) < Cap BY <1>5 DEF HasRoom, Occupied
  <2>2. Due' \subseteq Swept \cup {Row(id, p)} BY DEF Due, Reserved
  <2>3. Cardinality(Due') <= Cardinality(Swept) + 1 BY <2>2, CountsAreFinite, OneMore
  <2>4. IsFiniteSet(Due')
    <3>1. IsFiniteSet(Swept \cup {Row(id, p)}) BY CountsAreFinite, FS_AddElement
    <3>2. QED BY <2>2, <3>1, Smaller
  <2>5. Cardinality(Due') \in Nat BY <2>4, FS_CardinalityType
  <2>6. Charged \subseteq BookedIn(p) BY <1>5 DEF Charged
  <2>7. Cardinality(Charged) <= Cardinality(BookedIn(p)) BY <2>6, CountsAreFinite, Smaller
  <2>8. Cardinality(Charged') + Cardinality(Due') <= Cap
    BY <1>1, <2>1, <2>3, <2>5, <2>7, CountsAreFinite, AllowanceAssumption
  <2>9. QED BY <2>8 DEF CapHolds, Charged, Due
<1>6. CASE ~HasRoom(p) \/ p # PeriodOf(now)
  <2>1. \A r \in rows' : r \in rows \/ r.under # r.at BY <1>2, <1>6 DEF Reserved, Row
  <2>2. QED BY <1>4, <2>1 DEF Due, LateRows
<1>7. QED BY <1>5, <1>6

\* A settlement moves a row: what is due becomes what is charged.
LEMMA BooksCap ==
  ASSUME TableTypes, RowsAreUnique, CapHolds, NEW c \in Calls, Books(c), UNCHANGED now
  PROVE  CapHolds'
<1>1. Cardinality(Charged) + Cardinality(Due) <= Cap BY CapIs
<1>2. CASE RowsOf(slot[c]) = {} /\ Booked(slot[c]) = {}
  BY <1>1, <1>2 DEF Books, CapHolds, Charged, Due, BookedIn, Uncapped, LateRows, PeriodOf
<1>3. CASE \E r \in rows : r.id = slot[c] /\ RowsOf(slot[c]) = {r} /\ Booked(slot[c]) = {BookOf(r)}
  <2>1. PICK r \in rows : r.id = slot[c] /\ RowsOf(slot[c]) = {r} /\ Booked(slot[c]) = {BookOf(r)} BY <1>3
  <2>2. rows' = rows \ {r} /\ usage' = usage \cup {BookOf(r)} BY <2>1 DEF Books
  <2>3. CASE r \in Due
    <3>1. Due' \subseteq Due \ {r} BY <2>2 DEF Due, LateRows
    <3>2. Charged' \subseteq Charged \cup {BookOf(r)} BY <2>2 DEF Charged, BookedIn, Uncapped, PeriodOf
    <3>3. Cardinality(Due') <= Cardinality(Due) - 1 BY <2>3, <3>1, CountsAreFinite, OneLess
    <3>4. Cardinality(Charged') <= Cardinality(Charged) + 1 BY <3>2, CountsAreFinite, OneMore
    <3>5. IsFiniteSet(Due') BY <3>1, CountsAreFinite, Smaller
    <3>6. IsFiniteSet(Charged')
      <4>1. IsFiniteSet(Charged \cup {BookOf(r)}) BY CountsAreFinite, FS_AddElement
      <4>2. QED BY <3>2, <4>1, Smaller
    <3>7. Cardinality(Due') \in Nat /\ Cardinality(Charged') \in Nat BY <3>5, <3>6, FS_CardinalityType
    <3>8. Cardinality(Charged') + Cardinality(Due') <= Cap
      BY <1>1, <3>3, <3>4, <3>7, CountsAreFinite, AllowanceAssumption
    <3>9. QED BY <3>8 DEF CapHolds, Charged, Due
  <2>4. CASE r \notin Due
    <3>1. r.under # r.at BY <2>4 DEF Due, LateRows
    <3>2. BookOf(r).late BY <3>1 DEF BookOf
    <3>3. Charged' = Charged BY <2>2, <3>2 DEF Charged, BookedIn, Uncapped, PeriodOf
    <3>4. Due' = Due BY <2>2, <2>4 DEF Due, LateRows
    <3>5. QED BY <1>1, <3>3, <3>4 DEF CapHolds, Charged, Due
  <2>5. QED BY <2>3, <2>4
<1>4. QED BY <1>2, <1>3, OneRow

LEMMA CapStep ==
  CallTypes /\ TableTypes /\ RowsAreUnique /\ CapHolds /\ [AllowanceNext]_allowanceVars => CapHolds'
<1> SUFFICES ASSUME CallTypes, TableTypes, RowsAreUnique, CapHolds, [AllowanceNext]_allowanceVars
             PROVE  CapHolds'
  OBVIOUS
<1>1. CASE UNCHANGED allowanceVars
  BY <1>1 DEF allowanceVars, tables, CapHolds, BookedIn, Uncapped, LateRows, PeriodOf
<1>2. CASE Tick BY <1>2, TickCap
<1>3. ASSUME NEW c \in Calls, CallStep(c) PROVE CapHolds'
  <2>1. UNCHANGED now BY <1>3, OthersWait
  <2>2. CASE Quiet(c) \/ Gives(c) \/ BooksBare(c)
    <3>1. Charged' = Charged
      BY <2>1, <2>2 DEF Quiet, Gives, BooksBare, Charged, BookedIn, Uncapped, PeriodOf
    <3>2. Due' \subseteq Due BY <2>2 DEF Quiet, Gives, BooksBare, Due, LateRows
    <3>3. Cardinality(Due') \in Nat /\ Cardinality(Due') <= Cardinality(Due) BY <3>2, CountsAreFinite, Smaller
    <3>4. Cardinality(Charged) + Cardinality(Due) <= Cap BY CapIs
    <3>5. Cardinality(Charged') + Cardinality(Due') <= Cap
      BY <3>1, <3>3, <3>4, CountsAreFinite, AllowanceAssumption
    <3>6. QED BY <3>5 DEF CapHolds, Charged, Due
  <2>3. CASE Books(c) BY <2>1, <2>3, BooksCap
  <2>4. GateId(c) \in Ids /\ OwnId(c) \in Ids BY DEF Ids, IdsOf
  <2>5. CASE Makes(c, GateId(c), PeriodOf(now))
    <3>1. PeriodOf(now) \in {1, 2} BY PeriodIs, AllowanceAssumption DEF TableTypes, AllowanceTypeOK
    <3>2. QED BY <2>1, <2>4, <2>5, <3>1, MakesCap DEF Makes
  <2>6. CASE Makes(c, OwnId(c), terms[c]) /\ Reserve(c)
    <3>1. terms[c] \in {1, 2} BY <2>6 DEF CallTypes, Reserve, Stage
    <3>2. QED BY <2>1, <2>4, <2>6, <3>1, MakesCap DEF Makes
  <2>7. QED BY <1>3, <2>2, <2>3, <2>5, <2>6, StepEffect
<1>4. QED BY <1>1, <1>2, <1>3 DEF AllowanceNext

-----------------------------------------------------------------------------
TellsOwner(c) ==
  /\ outcome[c] = "paused" /\ pc[c] # "notifying" =>
       \/ <<c, "mail">> \in faults \/ <<c, "crash">> \in faults
       \/ \E t \in {"usage_limit_reached", "automation_paused_limit"} : <<t, terms[c]>> \in mails
  /\ outcome[c] = "paused" => c \in Runs /\ pc[c] \in {"notifying", "done", "gone"}
  /\ pc[c] = "pausing" => c \in Runs
  /\ pc[c] \in {"settling", "running", "returning"} => outcome[c] # "paused"

LEMMA TellsIs == PausedIsTold <=> \A c \in Calls : TellsOwner(c)
<1>1. \A c : {<<c, "mail">>, <<c, "crash">>} \cap faults # {} <=> <<c, "mail">> \in faults \/ <<c, "crash">> \in faults
  OBVIOUS
<1>2. QED BY <1>1 DEF PausedIsTold, PausedOwnerTold, TellsOwner, Calls

LEMMA MailsStay ==
  ASSUME NEW c \in Calls, CallStep(c)
  PROVE  mails \subseteq mails'
<1> USE DEF tables, Release, Queue
<1>1. CASE Gate(c) \/ TurnAway(c) \/ ClaimGate(c) \/ Mismatch(c) \/ SwapOut(c) \/ GiveBack(c)
  BY <1>1 DEF Gate, TurnAway, ClaimGate, Mismatch, SwapOut, GiveBack
<1>2. CASE PreCheck(c) \/ LoadAllowance(c) \/ Reserve(c) \/ Warn(c) \/ Run(c)
  BY <1>2 DEF PreCheck, LoadAllowance, Reserve, Warn, Run
<1>3. CASE RecordRefusal(c) \/ MailLimit(c) \/ Pause(c) \/ NotifyPaused(c) \/ SettleUsage(c) \/ Crash(c)
  BY <1>3 DEF RecordRefusal, MailLimit, Pause, NotifyPaused, SettleUsage, Crash
<1>4. QED BY <1>1, <1>2, <1>3 DEF CallStep

LEMMA TellStep ==
  ASSUME CallTypes, PausedIsTold, NEW c \in Calls, CallStep(c)
  PROVE  TellsOwner(c)'
<1>0. TellsOwner(c) BY TellsIs
<1>a. c \in Tools \/ c \in Runs BY DEF Calls
<1>b. c \in Tools => c \notin Runs BY AllowanceAssumption
<1> USE <1>0, <1>a, <1>b DEF TellsOwner, CallTypes, Stage, Goto, EndAs, Release
<1>1. CASE Gate(c) BY <1>1 DEF Gate
<1>2. CASE TurnAway(c) BY <1>2 DEF TurnAway
<1>3. CASE ClaimGate(c) BY <1>3 DEF ClaimGate
<1>4. CASE Mismatch(c) BY <1>4 DEF Mismatch
<1>5. CASE SwapOut(c) BY <1>5 DEF SwapOut
<1>6. CASE GiveBack(c) BY <1>6 DEF GiveBack
<1>7. CASE PreCheck(c) BY <1>7 DEF PreCheck
<1>8. CASE LoadAllowance(c) BY <1>8 DEF LoadAllowance
<1>9. CASE Reserve(c) BY <1>9 DEF Reserve
<1>10. CASE Warn(c) BY <1>10 DEF Warn
<1>11. CASE RecordRefusal(c) BY <1>11 DEF RecordRefusal
<1>12. CASE MailLimit(c) BY <1>12 DEF MailLimit
<1>13. CASE Pause(c) BY <1>13 DEF Pause
<1>14. CASE NotifyPaused(c)
  <2>1. pc'[c] = "done" /\ pc[c] = "notifying" /\ terms' = terms /\ outcome' = outcome BY <1>14 DEF NotifyPaused
  <2>2. \/ <<"usage_limit_reached", terms[c]>> \in mails'
        \/ <<"automation_paused_limit", terms[c]>> \in mails'
        \/ <<c, "mail">> \in faults'
    BY <1>14 DEF NotifyPaused, Queue, Fault
  <2>3. QED BY <2>1, <2>2
<1>15. CASE Run(c) BY <1>15 DEF Run
<1>16. CASE SettleUsage(c) BY <1>16 DEF SettleUsage
<1>17. CASE Crash(c) BY <1>17 DEF Crash, Fault
<1>18. QED BY <1>1, <1>2, <1>3, <1>4, <1>5, <1>6, <1>7, <1>8, <1>9, <1>10, <1>11, <1>12, <1>13, <1>14, <1>15, <1>16, <1>17 DEF CallStep

LEMMA ToldStep ==
  CallTypes /\ TableTypes /\ RowsAreUnique /\ PausedIsTold /\ [AllowanceNext]_allowanceVars => PausedIsTold'
<1> SUFFICES ASSUME CallTypes, TableTypes, RowsAreUnique, PausedIsTold, [AllowanceNext]_allowanceVars
             PROVE  PausedIsTold'
  OBVIOUS
<1>1. CASE Tick \/ UNCHANGED allowanceVars
  BY <1>1 DEF Tick, allowanceVars, tables, PausedIsTold, PausedOwnerTold
<1>2. ASSUME NEW c \in Calls, CallStep(c) PROVE PausedIsTold'
  <2>1. ASSUME NEW d \in Calls \ {c} PROVE TellsOwner(d)'
    <3>1. pc'[d] = pc[d] /\ outcome'[d] = outcome[d] /\ terms'[d] = terms[d] BY <1>2, OthersWait
    <3>2. \A what : <<d, what>> \in faults' <=> <<d, what>> \in faults BY <1>2, OthersKeepTheirs
    <3>3. mails \subseteq mails' /\ TellsOwner(d) BY <1>2, MailsStay, TellsIs
    <3>4. QED BY <3>1, <3>2, <3>3 DEF TellsOwner
  <2>2. TellsOwner(c)' BY <1>2, TellStep
  <2>3. \A d \in Calls : TellsOwner(d)' BY <2>1, <2>2
  <2>4. (\A d \in Calls : TellsOwner(d)') => PausedIsTold'
    <3>1. \A d : ({<<d, "mail">>, <<d, "crash">>} \cap faults # {})' <=> <<d, "mail">> \in faults' \/ <<d, "crash">> \in faults'
      OBVIOUS
    <3>2. QED BY <3>1 DEF TellsOwner, PausedIsTold, PausedOwnerTold, Calls
  <2>5. QED BY <2>3, <2>4
<1>3. QED BY <1>1, <1>2 DEF AllowanceNext

-----------------------------------------------------------------------------
LEMMA AllowanceInvInit == AllowanceInit => AllowanceInv
<1> SUFFICES ASSUME AllowanceInit PROVE AllowanceInv
  OBVIOUS
<1>1. CallTypes BY DEF AllowanceInit, CallTypes, CallStages, Early, Refusing, Outcomes
<1>2. Cardinality({}) = 0 /\ IsFiniteSet({}) BY FS_EmptySet
<1>3. AllowanceTypeOK BY <1>2, AllowanceAssumption DEF AllowanceInit, AllowanceTypeOK
<1>4. TableTypes BY <1>2, <1>3 DEF AllowanceInit, TableTypes
<1>5. RowsAreUnique BY DEF AllowanceInit, RowsAreUnique
<1>6. SlotIsMine BY IdsDiffer DEF AllowanceInit, SlotIsMine, AnswersFor, MineOf, IdsOf
<1>7. PaidOnce BY DEF AllowanceInit, PaidOnce, PaidBy
<1>8. CapHolds
  <2>1. Charged = {} /\ Due = {} BY DEF AllowanceInit, Charged, Due, BookedIn
  <2>2. QED BY <1>2, <2>1, CapIs, AllowanceAssumption
<1>9. PausedIsTold BY DEF AllowanceInit, PausedIsTold, PausedOwnerTold, Calls
<1>10. QED BY <1>1, <1>4, <1>5, <1>6, <1>7, <1>8, <1>9 DEF AllowanceInv

LEMMA AllowanceInvHolds == AllowanceSpec => []AllowanceInv
<1>1. AllowanceInit => AllowanceInv BY AllowanceInvInit
<1>2. AllowanceInv /\ [AllowanceNext]_allowanceVars => AllowanceInv'
  BY AllowanceTypesStep, UniqueStep, SlotStep, PaidStep, CapStep, ToldStep DEF AllowanceInv
<1>3. QED BY <1>1, <1>2, PTL DEF AllowanceSpec

LEMMA InvCountsOnce == AllowanceInv => CountedOnce
<1> SUFFICES ASSUME AllowanceInv, NEW c \in Calls, Clean(c)
             PROVE  Cardinality(MineOf(c)) + Cardinality(PaidBy(c)) <= 1
  BY DEF CountedOnce, MineOf, PaidBy, Clean
<1>1. \A r, s \in MineOf(c) : r = s
  <2>1. \A r \in MineOf(c) : r \in rows /\ r.id = slot[c] BY DEF AllowanceInv, SlotIsMine, AnswersFor, MineOf
  <2>2. QED BY <2>1 DEF AllowanceInv, RowsAreUnique
<1>2. \A u, v \in PaidBy(c) : u = v BY DEF AllowanceInv, PaidOnce
<1>3. PaidBy(c) # {} => MineOf(c) = {} BY DEF AllowanceInv, PaidOnce
<1>4. /\ MineOf(c) = {} => Cardinality(MineOf(c)) = 0
      /\ MineOf(c) # {} => Cardinality(MineOf(c)) = 1
  BY <1>1, AtMostOne
<1>5. /\ PaidBy(c) = {} => Cardinality(PaidBy(c)) = 0
      /\ PaidBy(c) # {} => Cardinality(PaidBy(c)) = 1
  BY <1>2, AtMostOne
<1>6. QED BY <1>3, <1>4, <1>5

LEMMA InvOwesNothing == AllowanceInv => NothingOwed
<1> SUFFICES ASSUME AllowanceInv, NEW c \in Calls,
                    pc[c] = "done", outcome[c] # "success", \A f \in faults : f[1] # c
             PROVE  PaidBy(c) = {} /\ MineOf(c) = {}
  BY DEF NothingOwed, MineOf, PaidBy
<1>1. Clean(c) /\ <<c, "settle">> \notin faults
  <2>1. /\ <<c, "release">>[1] = c /\ <<c, "lost gate">>[1] = c /\ <<c, "lost own">>[1] = c
        /\ <<c, "settle">>[1] = c
    OBVIOUS
  <2>2. QED BY <2>1 DEF Clean, Stray
<1>2. PaidBy(c) = {} BY DEF AllowanceInv, PaidOnce
<1>3. MineOf(c) = {} BY <1>1 DEF AllowanceInv, SlotIsMine, AnswersFor
<1>4. QED BY <1>2, <1>3

\* The actions' reserve, finalize and release (SQL) and allowance-gate.ts around them: for any
\* cap, any number of calls and any turn of the period, reservations and booked actions
\* never pass the cap, a call is not counted twice unless a release of it failed or a
\* reservation of it was stored and its answer lost, what was not done is not paid, and the
\* owner of a paused automation is told unless the run that paused it failed to.
THEOREM AllowanceIsKept == AllowanceSpec => []AllowanceHolds
<1>1. AllowanceInv => AllowanceHolds
  BY InvCountsOnce, InvOwesNothing
  DEF AllowanceInv, AllowanceHolds, CallsPayOnce, TableTypes, PausedIsTold
<1>2. QED BY <1>1, AllowanceInvHolds, PTL

\* An automation that was paused on the plan limit has a notice of that period queued for
\* its owner, whoever wrote the funnel row and died before the mail (the refusal's path:
\* record, mail, pause, notify), unless this run died between the pause and the notice or
\* could not queue it.
THEOREM PausedOwnerIsTold == AllowanceSpec => []PausedOwnerTold
<1>1. AllowanceInv => PausedOwnerTold BY DEF AllowanceInv, PausedIsTold
<1>2. QED BY <1>1, AllowanceInvHolds, PTL

-----------------------------------------------------------------------------
(* TokenRotation.  A code has one taker.  A token that is linked to a key  *)
(* waits for that key to be rotated, so that whoever revokes the key in    *)
(* the meantime is noticed; who comes after the removal gets nowhere near  *)
(* a mint; while nobody ends the connection a new token lives until its    *)
(* answer is out.                                                          *)

RedeemSteps == {"code_member", "consume", "mint_key", "first_token"}
RefreshSteps ==
  {"find_token", "member", "end_row", "end_key", "end_chain", "insert", "rotate", "legacy_key", "link", "roll_back",
   "revoke_old"}
EndSteps == {"new", "refused", "answer", "answered", "lost", "died"}

RequestTypes ==
  /\ step \in [Requests -> RedeemSteps \cup RefreshSteps \cup EndSteps]
  /\ DOMAIN presented = Requests /\ DOMAIN grantKey = Requests /\ DOMAIN access = Requests
  /\ \A r \in Requests :
       /\ step[r] \in RedeemSteps => r \in Redeems
       /\ step[r] \in RefreshSteps => r \in Refreshes /\ presented[r] \in ChainTokens
       /\ step[r] \in {"end_key", "end_chain", "rotate"} => grantKey[r] \in Requests
  /\ unlucky \subseteq Requests /\ IsFiniteSet(unlucky)
  /\ revoker \in [at : {"idle", "chain", "done"}, key : Requests \cup {Nothing}]

\* The code has one taker, and a key is not there before it is minted.
OneTaker ==
  /\ \A r \in Requests : step[r] \in {"mint_key", "legacy_key"} => keyRow[r] = "none"
  /\ \A r, s \in Redeems :
       (step[r] = "mint_key" \/ keyRow[r] # "none") /\ (step[s] = "mint_key" \/ keyRow[s] # "none") => r = s
  /\ \A r \in Redeems :
       /\ step[r] = "mint_key" \/ keyRow[r] # "none" => authCode = "gone"
       /\ step[r] \in {"new", "code_member", "consume"} => keyRow[r] = "none"
  /\ \A r \in Refreshes :
       step[r] \notin {"link", "revoke_old", "answer", "answered", "lost", "died"} => keyRow[r] = "none"

\* A token that an insert linked to a key waits for that key to be rotated.
Linked ==
  /\ linkedTo[Legacy] = Nothing
  /\ \A r \in Requests : step[r] = "rotate" => linkedTo[r] = grantKey[r]

\* The key of a revocation is gone; what its chain still holds is on its way out.
RevokedKey ==
  /\ revoker.at # "idle" => revoker.key \in Requests /\ keyRow[revoker.key] = "deleted"
  /\ RevokedStaysDead

\* Who comes after the removal gets nowhere near a mint.
LateGetsNothing ==
  /\ late \subseteq Requests
  /\ \A r \in late :
       /\ ~member
       /\ step[r] \in {"code_member", "find_token", "member", "end_row", "end_key", "end_chain", "refused", "died"}

\* While nobody ends the connection, a new token is live until its answer is
\* sent, and only tokens of answered requests are presented.
NewTokensLive ==
  /\ client \in Requests => step[client] = "answered"
  /\ \A r \in Requests : presented[r] \in Requests => step[presented[r]] = "answered"
  /\ ~member => removal = "done"
  /\ \A r \in Requests : step[r] \in {"end_row", "end_key", "end_chain"} => ~member
  /\ Undisturbed =>
       \A r \in Requests :
         step[r] \in {"rotate", "legacy_key", "link", "revoke_old", "answer"}
           => chain[r] = "live" \/ r \in unlucky \cap Redeems

TokenInv ==
  RequestTypes /\ TokenTypeOK /\ OneTaker /\ Linked /\ RevokedKey /\ LateGetsNothing /\ NewTokensLive /\ ClientKeepsAToken

-----------------------------------------------------------------------------
LEMMA OthersStay ==
  ASSUME RequestTypes, NEW r \in Requests, RequestStep(r)
  PROVE  /\ \A s \in Requests \ {r} :
              step'[s] = step[s] /\ presented'[s] = presented[s] /\ grantKey'[s] = grantKey[s]
         /\ UNCHANGED <<member, revoker, removal>>
         /\ unlucky' = unlucky \/ Mishap(r)
<1> USE DEF RequestTypes, Proceed, tokenDb, enders
<1>1. CASE FindCode(r) BY <1>1 DEF FindCode
<1>2. CASE CheckCodeMember(r) BY <1>2 DEF CheckCodeMember
<1>3. CASE ConsumeCode(r) BY <1>3 DEF ConsumeCode
<1>4. CASE MintKey(r) BY <1>4 DEF MintKey
<1>5. CASE FirstToken(r) BY <1>5 DEF FirstToken
<1>6. CASE SendRefresh(r) BY <1>6 DEF SendRefresh
<1>7. CASE FindToken(r) BY <1>7 DEF FindToken
<1>8. CASE CheckGrantMember(r) BY <1>8 DEF CheckGrantMember
<1>9. CASE EndRow(r) BY <1>9 DEF EndRow
<1>10. CASE EndKey(r) BY <1>10 DEF EndKey
<1>11. CASE EndChain(r) BY <1>11 DEF EndChain
<1>12. CASE InsertToken(r) BY <1>12 DEF InsertToken
<1>13. CASE Rotate(r) BY <1>13 DEF Rotate
<1>14. CASE LegacyKey(r) BY <1>14 DEF LegacyKey
<1>15. CASE Link(r) BY <1>15 DEF Link
<1>16. CASE RollBack(r) BY <1>16 DEF RollBack
<1>17. CASE RevokeOld(r) BY <1>17 DEF RevokeOld
<1>18. CASE Answer(r) BY <1>18 DEF Answer
<1>19. CASE Die(r) BY <1>19 DEF Die
<1>20. QED BY <1>1, <1>2, <1>3, <1>4, <1>5, <1>6, <1>7, <1>8, <1>9, <1>10, <1>11, <1>12, <1>13, <1>14, <1>15, <1>16, <1>17, <1>18, <1>19 DEF RequestStep

LEMMA RequestTypesStep ==
  ASSUME RequestTypes, TokenTypeOK, NEW r \in Requests, RequestStep(r)
  PROVE  /\ step' \in [Requests -> RedeemSteps \cup RefreshSteps \cup EndSteps]
         /\ DOMAIN presented' = Requests /\ DOMAIN grantKey' = Requests /\ DOMAIN access' = Requests
         /\ step'[r] \in RedeemSteps => r \in Redeems
         /\ step'[r] \in RefreshSteps => r \in Refreshes /\ presented'[r] \in ChainTokens
         /\ step'[r] \in {"end_key", "end_chain", "rotate"} => grantKey'[r] \in Requests
         /\ presented'[r] \in ChainTokens \cup {Nothing} /\ grantKey'[r] \in Requests \cup {Nothing}
         /\ client' \in ChainTokens \cup {Nothing}
<1>50. /\ client \in ChainTokens \cup {Nothing} /\ presented[r] \in ChainTokens \cup {Nothing}
       /\ grantKey[r] \in Requests \cup {Nothing} /\ r \in ChainTokens
       /\ linkedTo \in [ChainTokens -> Requests \cup {Nothing}]
  BY DEF TokenTypeOK, ChainTokens
<1> USE <1>50 DEF RequestTypes, StandsAt, Proceed, tokenDb, RedeemSteps, RefreshSteps, EndSteps, Over
<1>1. CASE FindCode(r) BY <1>1 DEF FindCode
<1>2. CASE CheckCodeMember(r) BY <1>2 DEF CheckCodeMember
<1>3. CASE ConsumeCode(r) BY <1>3 DEF ConsumeCode
<1>4. CASE MintKey(r) BY <1>4 DEF MintKey
<1>5. CASE FirstToken(r) BY <1>5 DEF FirstToken
<1>6. CASE SendRefresh(r) BY <1>6 DEF SendRefresh
<1>7. CASE FindToken(r) BY <1>7 DEF FindToken
<1>8. CASE CheckGrantMember(r) BY <1>8 DEF CheckGrantMember
<1>9. CASE EndRow(r) BY <1>9 DEF EndRow
<1>10. CASE EndKey(r) BY <1>10 DEF EndKey
<1>11. CASE EndChain(r) BY <1>11 DEF EndChain
<1>12. CASE InsertToken(r) BY <1>12 DEF InsertToken
<1>13. CASE Rotate(r) BY <1>13 DEF Rotate
<1>14. CASE LegacyKey(r) BY <1>14 DEF LegacyKey
<1>15. CASE Link(r) BY <1>15 DEF Link
<1>16. CASE RollBack(r) BY <1>16 DEF RollBack
<1>17. CASE RevokeOld(r) BY <1>17 DEF RevokeOld
<1>18. CASE Answer(r) BY <1>18 DEF Answer
<1>19. CASE Die(r) BY <1>19 DEF Die
<1>20. QED BY <1>1, <1>2, <1>3, <1>4, <1>5, <1>6, <1>7, <1>8, <1>9, <1>10, <1>11, <1>12, <1>13, <1>14, <1>15, <1>16, <1>17, <1>18, <1>19 DEF RequestStep

LEMMA ChainTypesStep ==
  ASSUME RequestTypes, TokenTypeOK, NEW r \in Requests, RequestStep(r)
  PROVE  /\ authCode' \in {"pending", "gone"}
         /\ chain' \in [ChainTokens -> {"none", "live", "revoked"}]
         /\ linkedTo' \in [ChainTokens -> Requests \cup {Nothing}]
<1>50. /\ authCode \in {"pending", "gone"} /\ chain \in [ChainTokens -> {"none", "live", "revoked"}]
       /\ linkedTo \in [ChainTokens -> Requests \cup {Nothing}]
       /\ r \in ChainTokens /\ grantKey[r] \in Requests \cup {Nothing}
  BY DEF TokenTypeOK, ChainTokens
<1> USE <1>50 DEF SetChain, RevokeAll, tokenDb
<1>1. CASE FindCode(r) BY <1>1 DEF FindCode
<1>2. CASE CheckCodeMember(r) BY <1>2 DEF CheckCodeMember
<1>3. CASE ConsumeCode(r) BY <1>3 DEF ConsumeCode
<1>4. CASE MintKey(r) BY <1>4 DEF MintKey
<1>5. CASE FirstToken(r) BY <1>5 DEF FirstToken
<1>6. CASE SendRefresh(r) BY <1>6 DEF SendRefresh
<1>7. CASE FindToken(r) BY <1>7 DEF FindToken
<1>8. CASE CheckGrantMember(r) BY <1>8 DEF CheckGrantMember
<1>9. CASE EndRow(r) BY <1>9 DEF EndRow
<1>10. CASE EndKey(r) BY <1>10 DEF EndKey
<1>11. CASE EndChain(r) BY <1>11 DEF EndChain
<1>12. CASE InsertToken(r) BY <1>12 DEF InsertToken
<1>13. CASE Rotate(r) BY <1>13 DEF Rotate
<1>14. CASE LegacyKey(r) BY <1>14 DEF LegacyKey
<1>15. CASE Link(r) BY <1>15 DEF Link
<1>16. CASE RollBack(r) BY <1>16 DEF RollBack
<1>17. CASE RevokeOld(r) BY <1>17 DEF RevokeOld
<1>18. CASE Answer(r) BY <1>18 DEF Answer
<1>19. CASE Die(r) BY <1>19 DEF Die
<1>20. QED BY <1>1, <1>2, <1>3, <1>4, <1>5, <1>6, <1>7, <1>8, <1>9, <1>10, <1>11, <1>12, <1>13, <1>14, <1>15, <1>16, <1>17, <1>18, <1>19 DEF RequestStep

LEMMA KeyTypesStep ==
  ASSUME RequestTypes, TokenTypeOK, NEW r \in Requests, RequestStep(r)
  PROVE  /\ keyRow' \in [Requests -> {"none", "live", "deleted"}]
         /\ \A k \in Requests : access'[k] = Nothing <=> keyRow'[k] = "none"
<1>50. /\ keyRow \in [Requests -> {"none", "live", "deleted"}] /\ DOMAIN access = Requests
       /\ \A k \in Requests : access[k] = Nothing <=> keyRow[k] = "none"
       /\ r # Nothing
       /\ step[r] = "rotate" => grantKey[r] \in Requests
  BY TokenAssumption DEF TokenTypeOK, RequestTypes, ChainTokens
<1> USE <1>50 DEF DeleteKeys, tokenDb, StandsAt
<1>1. CASE FindCode(r) BY <1>1 DEF FindCode
<1>2. CASE CheckCodeMember(r) BY <1>2 DEF CheckCodeMember
<1>3. CASE ConsumeCode(r) BY <1>3 DEF ConsumeCode
<1>4. CASE MintKey(r) BY <1>4 DEF MintKey
<1>5. CASE FirstToken(r) BY <1>5 DEF FirstToken
<1>6. CASE SendRefresh(r) BY <1>6 DEF SendRefresh
<1>7. CASE FindToken(r) BY <1>7 DEF FindToken
<1>8. CASE CheckGrantMember(r) BY <1>8 DEF CheckGrantMember
<1>9. CASE EndRow(r) BY <1>9 DEF EndRow
<1>10. CASE EndKey(r) BY <1>10 DEF EndKey
<1>11. CASE EndChain(r) BY <1>11 DEF EndChain
<1>12. CASE InsertToken(r) BY <1>12 DEF InsertToken
<1>13. CASE Rotate(r) BY <1>13 DEF Rotate
<1>14. CASE LegacyKey(r) BY <1>14 DEF LegacyKey
<1>15. CASE Link(r) BY <1>15 DEF Link
<1>16. CASE RollBack(r) BY <1>16 DEF RollBack
<1>17. CASE RevokeOld(r) BY <1>17 DEF RevokeOld
<1>18. CASE Answer(r) BY <1>18 DEF Answer
<1>19. CASE Die(r) BY <1>19 DEF Die
<1>20. QED BY <1>1, <1>2, <1>3, <1>4, <1>5, <1>6, <1>7, <1>8, <1>9, <1>10, <1>11, <1>12, <1>13, <1>14, <1>15, <1>16, <1>17, <1>18, <1>19 DEF RequestStep

LEMMA UnluckyStep ==
  ASSUME RequestTypes, TokenTypeOK, NEW r \in Requests, RequestStep(r)
  PROVE  IsFiniteSet(unlucky') /\ Cardinality(unlucky') <= MaxTokenFaults
<1>1. IsFiniteSet(unlucky) /\ Cardinality(unlucky) <= MaxTokenFaults BY DEF RequestTypes, TokenTypeOK
<1>2. Cardinality(unlucky) \in Nat BY <1>1, FS_CardinalityType
<1>3. CASE Mishap(r)
  <2>1. Cardinality(unlucky) < MaxTokenFaults /\ unlucky' = unlucky \cup {r} BY <1>3 DEF Mishap
  <2>2. IsFiniteSet(unlucky \cup {r}) BY <1>1, FS_AddElement
  <2>3. Cardinality(unlucky \cup {r}) = IF r \in unlucky THEN Cardinality(unlucky) ELSE Cardinality(unlucky) + 1
    BY <1>1, FS_AddElement
  <2>4. Cardinality(unlucky \cup {r}) <= MaxTokenFaults BY <1>2, <2>1, <2>3, TokenAssumption
  <2>5. QED BY <2>1, <2>2, <2>4
<1>4. QED BY <1>1, <1>3, OthersStay

Endings == RevokeKey \/ RevokeChain \/ RemoveKeys \/ RemoveCodes \/ RemoveChains \/ RemoveMembership

LEMMA TokenTypesStep ==
  RequestTypes /\ TokenTypeOK /\ [TokenNext]_tokenVars => RequestTypes' /\ TokenTypeOK'
<1> SUFFICES ASSUME RequestTypes, TokenTypeOK, [TokenNext]_tokenVars PROVE RequestTypes' /\ TokenTypeOK'
  OBVIOUS
<1>1. CASE UNCHANGED tokenVars BY <1>1 DEF tokenVars, tokenDb, requestVars, enders, RequestTypes, TokenTypeOK
<1>2. CASE Endings
  <2>1. UNCHANGED <<linkedTo, access, step, presented, grantKey, client, unlucky>>
    BY <1>2 DEF Endings, RevokeKey, RevokeChain, RemoveKeys, RemoveCodes, RemoveChains, RemoveMembership, requestVars
  <2>2. RequestTypes'
    <3>1. revoker' \in [at : {"idle", "chain", "done"}, key : Requests \cup {Nothing}]
      <4>1. revoker \in [at : {"idle", "chain", "done"}, key : Requests \cup {Nothing}] BY DEF RequestTypes
      <4>2. CASE RevokeKey BY <4>2 DEF RevokeKey
      <4>3. CASE RevokeChain BY <4>1, <4>3 DEF RevokeChain
      <4>4. CASE RemoveKeys \/ RemoveCodes \/ RemoveChains \/ RemoveMembership
        BY <4>1, <4>4 DEF RemoveKeys, RemoveCodes, RemoveChains, RemoveMembership
      <4>5. QED BY <1>2, <4>2, <4>3, <4>4 DEF Endings
    <3>2. QED BY <2>1, <3>1 DEF RequestTypes
  <2>3. authCode' \in {"pending", "gone"} /\ chain' \in [ChainTokens -> {"none", "live", "revoked"}]
    BY <1>2 DEF Endings, RevokeKey, RevokeChain, RemoveKeys, RemoveCodes, RemoveChains, RemoveMembership,
       RevokeAll, TokenTypeOK
  <2>4. member' \in BOOLEAN
    <3>1. member' = member \/ member' = FALSE
      BY <1>2 DEF Endings, RevokeKey, RevokeChain, RemoveKeys, RemoveCodes, RemoveChains, RemoveMembership
    <3>2. QED BY <3>1, Zenon DEF TokenTypeOK
  <2>5. /\ keyRow' \in [Requests -> {"none", "live", "deleted"}]
        /\ \A k \in Requests : keyRow'[k] = "none" <=> keyRow[k] = "none"
    BY <1>2 DEF Endings, RevokeKey, RevokeChain, RemoveKeys, RemoveCodes, RemoveChains, RemoveMembership,
       DeleteKeys, TokenTypeOK
  <2>6. QED BY <2>1, <2>2, <2>3, <2>4, <2>5 DEF TokenTypeOK
<1>3. ASSUME NEW r \in Requests, RequestStep(r) PROVE RequestTypes' /\ TokenTypeOK'
  <2>1. RequestTypes'
    <3>1. unlucky' \subseteq Requests /\ revoker' = revoker BY <1>3, OthersStay DEF RequestTypes, Mishap
    <3>2. QED BY <1>3, <3>1, RequestTypesStep, OthersStay, UnluckyStep DEF RequestTypes
  <2>2. member' \in BOOLEAN BY <1>3, OthersStay, Zenon DEF TokenTypeOK
  <2>3. \A s \in Requests : presented'[s] \in ChainTokens \cup {Nothing} /\ grantKey'[s] \in Requests \cup {Nothing}
    BY <1>3, RequestTypesStep, OthersStay DEF TokenTypeOK
  <2>4. QED BY <1>3, <2>1, <2>2, <2>3, RequestTypesStep, ChainTypesStep, KeyTypesStep, UnluckyStep DEF TokenTypeOK
<1>4. QED BY <1>1, <1>2, <1>3 DEF TokenNext, Endings

-----------------------------------------------------------------------------
\* A key is minted, or at most deleted.
LEMMA KeyMoves ==
  ASSUME RequestTypes, TokenTypeOK, NEW r \in Requests, RequestStep(r)
  PROVE  \A k \in Requests :
           \/ keyRow'[k] = keyRow[k]
           \/ keyRow[k] = "live" /\ keyRow'[k] = "deleted"
           \/ k = r /\ (MintKey(r) \/ LegacyKey(r)) /\ keyRow'[k] = "live"
<1>50. keyRow \in [Requests -> {"none", "live", "deleted"}] BY DEF TokenTypeOK
<1> USE <1>50 DEF DeleteKeys, tokenDb
<1>1. CASE FindCode(r) BY <1>1 DEF FindCode
<1>2. CASE CheckCodeMember(r) BY <1>2 DEF CheckCodeMember
<1>3. CASE ConsumeCode(r) BY <1>3 DEF ConsumeCode
<1>4. CASE MintKey(r) BY <1>4 DEF MintKey
<1>5. CASE FirstToken(r) BY <1>5 DEF FirstToken
<1>6. CASE SendRefresh(r) BY <1>6 DEF SendRefresh
<1>7. CASE FindToken(r) BY <1>7 DEF FindToken
<1>8. CASE CheckGrantMember(r) BY <1>8 DEF CheckGrantMember
<1>9. CASE EndRow(r) BY <1>9 DEF EndRow
<1>10. CASE EndKey(r) BY <1>10 DEF EndKey
<1>11. CASE EndChain(r) BY <1>11 DEF EndChain
<1>12. CASE InsertToken(r) BY <1>12 DEF InsertToken
<1>13. CASE Rotate(r) BY <1>13 DEF Rotate
<1>14. CASE LegacyKey(r) BY <1>14 DEF LegacyKey
<1>15. CASE Link(r) BY <1>15 DEF Link
<1>16. CASE RollBack(r) BY <1>16 DEF RollBack
<1>17. CASE RevokeOld(r) BY <1>17 DEF RevokeOld
<1>18. CASE Answer(r) BY <1>18 DEF Answer
<1>19. CASE Die(r) BY <1>19 DEF Die
<1>20. QED BY <1>1, <1>2, <1>3, <1>4, <1>5, <1>6, <1>7, <1>8, <1>9, <1>10, <1>11, <1>12, <1>13, <1>14, <1>15, <1>16, <1>17, <1>18, <1>19 DEF RequestStep

LEMMA EndingKeys ==
  ASSUME TokenTypeOK, Endings
  PROVE  \A k \in Requests : keyRow'[k] = keyRow[k] \/ (keyRow[k] = "live" /\ keyRow'[k] = "deleted")
BY DEF Endings, RevokeKey, RevokeChain, RemoveKeys, RemoveCodes, RemoveChains, RemoveMembership, DeleteKeys, TokenTypeOK

LEMMA EndingsWait ==
  ASSUME Endings
  PROVE  UNCHANGED <<step, presented, grantKey, linkedTo, access, client, unlucky, late>>
BY DEF Endings, RevokeKey, RevokeChain, RemoveKeys, RemoveCodes, RemoveChains, RemoveMembership, requestVars

TakesCode(r) == step[r] = "mint_key" \/ keyRow[r] # "none"
Minted == {"link", "revoke_old", "answer", "answered", "lost", "died"}

LEMMA TakerStep ==
  ASSUME RequestTypes, TokenTypeOK, OneTaker, NEW r \in Requests, RequestStep(r)
  PROVE  /\ step'[r] \in {"mint_key", "legacy_key"} => keyRow'[r] = "none"
         /\ r \in Redeems /\ step'[r] \in {"new", "code_member", "consume"} => keyRow'[r] = "none"
         /\ r \in Refreshes /\ step'[r] \notin Minted => keyRow'[r] = "none"
         /\ r \in Redeems /\ TakesCode(r)' => (TakesCode(r) \/ authCode = "pending") /\ authCode' = "gone"
         /\ authCode = "gone" => authCode' = "gone"
<1>50. /\ r \in Redeems \/ r \in Refreshes
       /\ ~(r \in Redeems /\ r \in Refreshes)
  BY TokenAssumption DEF Requests
<1>51. /\ keyRow'[r] = "none" => keyRow[r] = "none"
       /\ keyRow[r] = "none" => keyRow'[r] = "none" \/ MintKey(r) \/ LegacyKey(r)
  BY KeyMoves DEF TokenTypeOK
<1>52. authCode \in {"pending", "gone"} BY DEF TokenTypeOK
<1>53. /\ step[r] \in {"mint_key", "legacy_key"} => keyRow[r] = "none"
       /\ r \in Redeems /\ TakesCode(r) => authCode = "gone"
       /\ r \in Redeems /\ step[r] \in {"new", "code_member", "consume"} => keyRow[r] = "none"
       /\ r \in Refreshes /\ step[r] \notin Minted => keyRow[r] = "none"
  BY DEF OneTaker, TakesCode, Minted
<1>54. /\ DOMAIN step = Requests
       /\ step[r] \in RedeemSteps => r \in Redeems
       /\ step[r] \in RefreshSteps => r \in Refreshes
  BY DEF RequestTypes
<1> USE <1>50, <1>51, <1>52, <1>53, <1>54 DEF TakesCode, Minted, StandsAt, Proceed, tokenDb, RedeemSteps, RefreshSteps, Over
<1>1. CASE FindCode(r) BY <1>1 DEF FindCode
<1>2. CASE CheckCodeMember(r) BY <1>2 DEF CheckCodeMember
<1>3. CASE ConsumeCode(r) BY <1>3 DEF ConsumeCode
<1>4. CASE MintKey(r) BY <1>4 DEF MintKey
<1>5. CASE FirstToken(r) BY <1>5 DEF FirstToken
<1>6. CASE SendRefresh(r) BY <1>6 DEF SendRefresh
<1>7. CASE FindToken(r) BY <1>7 DEF FindToken
<1>8. CASE CheckGrantMember(r) BY <1>8 DEF CheckGrantMember
<1>9. CASE EndRow(r) BY <1>9 DEF EndRow
<1>10. CASE EndKey(r) BY <1>10 DEF EndKey, MintKey, LegacyKey
<1>11. CASE EndChain(r) BY <1>11 DEF EndChain
<1>12. CASE InsertToken(r) BY <1>12 DEF InsertToken
<1>13. CASE Rotate(r) BY <1>13 DEF Rotate
<1>14. CASE LegacyKey(r) BY <1>14 DEF LegacyKey
<1>15. CASE Link(r) BY <1>15 DEF Link
<1>16. CASE RollBack(r) BY <1>16 DEF RollBack
<1>17. CASE RevokeOld(r) BY <1>17 DEF RevokeOld
<1>18. CASE Answer(r) BY <1>18 DEF Answer
<1>19. CASE Die(r) BY <1>19 DEF Die
<1>20. QED BY <1>1, <1>2, <1>3, <1>4, <1>5, <1>6, <1>7, <1>8, <1>9, <1>10, <1>11, <1>12, <1>13, <1>14, <1>15, <1>16, <1>17, <1>18, <1>19 DEF RequestStep

LEMMA OneTakerStep ==
  RequestTypes /\ TokenTypeOK /\ OneTaker /\ [TokenNext]_tokenVars => OneTaker'
<1> SUFFICES ASSUME RequestTypes, TokenTypeOK, OneTaker, [TokenNext]_tokenVars PROVE OneTaker'
  OBVIOUS
<1>1. CASE UNCHANGED tokenVars BY <1>1 DEF tokenVars, tokenDb, requestVars, OneTaker
<1>2. CASE Endings
  <2>1. \A k \in Requests : keyRow'[k] = "none" <=> keyRow[k] = "none" BY <1>2, EndingKeys
  <2>2. step' = step BY <1>2, EndingsWait
  <2>3. authCode = "gone" => authCode' = "gone" BY <1>2 DEF Endings, RevokeKey, RevokeChain, RemoveKeys, RemoveCodes, RemoveChains, RemoveMembership
  <2>4. QED BY <2>1, <2>2, <2>3 DEF OneTaker, Requests
<1>3. ASSUME NEW r \in Requests, RequestStep(r) PROVE OneTaker'
  <2>1. \A s \in Requests \ {r} : step'[s] = step[s] /\ (keyRow'[s] = "none" <=> keyRow[s] = "none")
    BY <1>3, OthersStay, KeyMoves
  <2>2. \A s \in Requests \ {r} : TakesCode(s)' <=> TakesCode(s) BY <2>1 DEF TakesCode
  <2>3. \A s, q \in Redeems : TakesCode(s) /\ TakesCode(q) => s = q BY DEF OneTaker, TakesCode
  <2>4. \A s \in Redeems : TakesCode(s) => authCode = "gone" BY DEF OneTaker, TakesCode
  <2>5. \A s, q \in Redeems : TakesCode(s)' /\ TakesCode(q)' => s = q
    <3>1. \A s \in Redeems : s # r /\ TakesCode(s)' /\ TakesCode(r)' => r \notin Redeems
      <4>1. \A s \in Redeems : s # r /\ TakesCode(s)' => TakesCode(s) /\ authCode = "gone" BY <2>2, <2>4 DEF Requests
      <4>2. r \in Redeems /\ TakesCode(r)' => TakesCode(r) \/ authCode = "pending" BY <1>3, TakerStep
      <4>3. QED BY <2>3, <4>1, <4>2
    <3>2. QED BY <2>2, <2>3, <3>1 DEF Requests
  <2>6. \A s \in Redeems : TakesCode(s)' => authCode' = "gone" BY <1>3, <2>2, <2>4, TakerStep DEF Requests
  <2>7. \A s \in Requests :
          /\ step'[s] \in {"mint_key", "legacy_key"} => keyRow'[s] = "none"
          /\ s \in Redeems /\ step'[s] \in {"new", "code_member", "consume"} => keyRow'[s] = "none"
          /\ s \in Refreshes /\ step'[s] \notin Minted => keyRow'[s] = "none"
    BY <1>3, <2>1, TakerStep DEF OneTaker, Minted
  <2>8. QED BY <2>5, <2>6, <2>7 DEF OneTaker, TakesCode, Minted, Requests
<1>4. QED BY <1>1, <1>2, <1>3 DEF TokenNext, Endings

-----------------------------------------------------------------------------
\* What becomes of a token of the chain, and of its key.
LEMMA ChainMoves ==
  ASSUME RequestTypes, TokenTypeOK, NEW r \in Requests, RequestStep(r)
  PROVE  \A t \in ChainTokens :
           \/ chain'[t] = chain[t]
           \/ t = r /\ (FirstToken(r) \/ InsertToken(r)) /\ chain'[t] = "live"
           \/ /\ chain'[t] = "revoked"
              /\ \/ EndRow(r) \/ EndChain(r)
                 \/ RollBack(r) /\ t = r
                 \/ RevokeOld(r) /\ t = presented[r]
<1>50. chain \in [ChainTokens -> {"none", "live", "revoked"}] BY DEF TokenTypeOK
<1> USE <1>50 DEF SetChain, RevokeAll, tokenDb
<1>1. CASE FindCode(r) BY <1>1 DEF FindCode
<1>2. CASE CheckCodeMember(r) BY <1>2 DEF CheckCodeMember
<1>3. CASE ConsumeCode(r) BY <1>3 DEF ConsumeCode
<1>4. CASE MintKey(r) BY <1>4 DEF MintKey
<1>5. CASE FirstToken(r) BY <1>5 DEF FirstToken
<1>6. CASE SendRefresh(r) BY <1>6 DEF SendRefresh
<1>7. CASE FindToken(r) BY <1>7 DEF FindToken
<1>8. CASE CheckGrantMember(r) BY <1>8 DEF CheckGrantMember
<1>9. CASE EndRow(r) BY <1>9 DEF EndRow
<1>10. CASE EndKey(r) BY <1>10 DEF EndKey
<1>11. CASE EndChain(r) BY <1>11 DEF EndChain
<1>12. CASE InsertToken(r) BY <1>12 DEF InsertToken
<1>13. CASE Rotate(r) BY <1>13 DEF Rotate
<1>14. CASE LegacyKey(r) BY <1>14 DEF LegacyKey
<1>15. CASE Link(r) BY <1>15 DEF Link
<1>16. CASE RollBack(r) BY <1>16 DEF RollBack
<1>17. CASE RevokeOld(r) BY <1>17 DEF RevokeOld
<1>18. CASE Answer(r) BY <1>18 DEF Answer
<1>19. CASE Die(r) BY <1>19 DEF Die
<1>20. QED BY <1>1, <1>2, <1>3, <1>4, <1>5, <1>6, <1>7, <1>8, <1>9, <1>10, <1>11, <1>12, <1>13, <1>14, <1>15, <1>16, <1>17, <1>18, <1>19 DEF RequestStep

LEMMA LinkMoves ==
  ASSUME RequestTypes, TokenTypeOK, NEW r \in Requests, RequestStep(r)
  PROVE  \A t \in ChainTokens :
           \/ linkedTo'[t] = linkedTo[t]
           \/ t = r /\ (FirstToken(r) \/ Link(r)) /\ linkedTo'[t] = r
           \/ t = r /\ InsertToken(r) /\ linkedTo'[t] = grantKey[r]
<1>50. linkedTo \in [ChainTokens -> Requests \cup {Nothing}] BY DEF TokenTypeOK
<1> USE <1>50 DEF tokenDb
<1>1. CASE FindCode(r) BY <1>1 DEF FindCode
<1>2. CASE CheckCodeMember(r) BY <1>2 DEF CheckCodeMember
<1>3. CASE ConsumeCode(r) BY <1>3 DEF ConsumeCode
<1>4. CASE MintKey(r) BY <1>4 DEF MintKey
<1>5. CASE FirstToken(r) BY <1>5 DEF FirstToken
<1>6. CASE SendRefresh(r) BY <1>6 DEF SendRefresh
<1>7. CASE FindToken(r) BY <1>7 DEF FindToken
<1>8. CASE CheckGrantMember(r) BY <1>8 DEF CheckGrantMember
<1>9. CASE EndRow(r) BY <1>9 DEF EndRow
<1>10. CASE EndKey(r) BY <1>10 DEF EndKey
<1>11. CASE EndChain(r) BY <1>11 DEF EndChain
<1>12. CASE InsertToken(r) BY <1>12 DEF InsertToken
<1>13. CASE Rotate(r) BY <1>13 DEF Rotate
<1>14. CASE LegacyKey(r) BY <1>14 DEF LegacyKey
<1>15. CASE Link(r) BY <1>15 DEF Link
<1>16. CASE RollBack(r) BY <1>16 DEF RollBack
<1>17. CASE RevokeOld(r) BY <1>17 DEF RevokeOld
<1>18. CASE Answer(r) BY <1>18 DEF Answer
<1>19. CASE Die(r) BY <1>19 DEF Die
<1>20. QED BY <1>1, <1>2, <1>3, <1>4, <1>5, <1>6, <1>7, <1>8, <1>9, <1>10, <1>11, <1>12, <1>13, <1>14, <1>15, <1>16, <1>17, <1>18, <1>19 DEF RequestStep

LEMMA LegacyIsNot == Legacy \notin Requests /\ Nothing \notin Requests /\ Legacy # Nothing
BY TokenAssumption DEF ChainTokens

LEMMA LinkedStep ==
  RequestTypes /\ TokenTypeOK /\ Linked /\ [TokenNext]_tokenVars => Linked'
<1> SUFFICES ASSUME RequestTypes, TokenTypeOK, Linked, [TokenNext]_tokenVars PROVE Linked'
  OBVIOUS
<1>1. CASE UNCHANGED tokenVars BY <1>1 DEF tokenVars, tokenDb, requestVars, Linked
<1>2. CASE Endings BY <1>2, EndingsWait DEF Linked
<1>3. ASSUME NEW r \in Requests, RequestStep(r) PROVE Linked'
  <2>1. \A t \in ChainTokens : t # r => linkedTo'[t] = linkedTo[t] BY <1>3, LinkMoves
  <2>2. linkedTo'[Legacy] = Nothing BY <2>1, LegacyIsNot DEF Linked, ChainTokens
  <2>3. step'[r] = "rotate" => linkedTo'[r] = grantKey'[r]
    <3>1. step'[r] = "rotate" => InsertToken(r) /\ linkedTo' = [linkedTo EXCEPT ![r] = grantKey[r]] /\ grantKey' = grantKey
      <4> USE <1>3 DEF RequestTypes, StandsAt, Proceed, Over
      <4>1. CASE FindCode(r) BY <4>1 DEF FindCode
      <4>2. CASE CheckCodeMember(r) BY <4>2 DEF CheckCodeMember
      <4>3. CASE ConsumeCode(r) BY <4>3 DEF ConsumeCode
      <4>4. CASE MintKey(r) BY <4>4 DEF MintKey
      <4>5. CASE FirstToken(r) BY <4>5 DEF FirstToken
      <4>6. CASE SendRefresh(r) BY <4>6 DEF SendRefresh
      <4>7. CASE FindToken(r) BY <4>7 DEF FindToken
      <4>8. CASE CheckGrantMember(r) BY <4>8 DEF CheckGrantMember
      <4>9. CASE EndRow(r) BY <4>9 DEF EndRow
      <4>10. CASE EndKey(r) BY <4>10 DEF EndKey
      <4>11. CASE EndChain(r) BY <4>11 DEF EndChain
      <4>12. CASE InsertToken(r) BY <4>12 DEF InsertToken
      <4>13. CASE Rotate(r) BY <4>13 DEF Rotate
      <4>14. CASE LegacyKey(r) BY <4>14 DEF LegacyKey
      <4>15. CASE Link(r) BY <4>15 DEF Link
      <4>16. CASE RollBack(r) BY <4>16 DEF RollBack
      <4>17. CASE RevokeOld(r) BY <4>17 DEF RevokeOld
      <4>18. CASE Answer(r) BY <4>18 DEF Answer
      <4>19. CASE Die(r) BY <4>19 DEF Die
      <4>20. QED BY <4>1, <4>2, <4>3, <4>4, <4>5, <4>6, <4>7, <4>8, <4>9, <4>10, <4>11, <4>12, <4>13, <4>14, <4>15, <4>16, <4>17, <4>18, <4>19 DEF RequestStep
    <3>2. linkedTo \in [ChainTokens -> Requests \cup {Nothing}] /\ r \in ChainTokens BY DEF TokenTypeOK, ChainTokens
    <3>3. QED BY <3>1, <3>2
  <2>4. \A q \in Requests \ {r} : step'[q] = "rotate" => linkedTo'[q] = grantKey'[q]
    BY <1>3, <2>1, OthersStay DEF Linked, ChainTokens
  <2>5. QED BY <2>2, <2>3, <2>4 DEF Linked
<1>4. QED BY <1>1, <1>2, <1>3 DEF TokenNext, Endings

-----------------------------------------------------------------------------
\* A live token that its request left on its way out, or the first of its key.
OnItsWayOut(t) ==
  \/ t = revoker.key
  \/ step[t] \in {"rotate", "roll_back"}
  \/ t \in unlucky /\ step[t] \in {"refused", "died"}

LEMMA DeletedStays ==
  ASSUME RequestTypes, TokenTypeOK, OneTaker, NEW r \in Requests, RequestStep(r),
         NEW k \in Requests, keyRow[k] = "deleted"
  PROVE  keyRow'[k] = "deleted"
BY KeyMoves DEF OneTaker, MintKey, LegacyKey, StandsAt

LEMMA OwnTokenStep ==
  ASSUME RequestTypes, TokenTypeOK, OneTaker, Linked, RevokedKey, NEW r \in Requests, RequestStep(r),
         revoker.at = "done", linkedTo'[r] = revoker.key, chain'[r] = "live"
  PROVE  OnItsWayOut(r)'
<1>50. /\ revoker' = revoker /\ unlucky \subseteq unlucky' BY OthersStay DEF Mishap
<1>51. /\ revoker.key \in Requests /\ keyRow[revoker.key] = "deleted"
       /\ linkedTo[r] = revoker.key /\ chain[r] = "live" => OnItsWayOut(r)
  BY DEF RevokedKey, RevokedStaysDead, ChainOf, OnItsWayOut, ChainTokens
<1>52. /\ DOMAIN step = Requests /\ r \in ChainTokens /\ revoker.key # Nothing
       /\ step[r] = "rotate" => linkedTo[r] = grantKey[r]
  BY LegacyIsNot, <1>51 DEF RequestTypes, ChainTokens, Linked
<1>53. /\ linkedTo'[r] = linkedTo[r] \/ linkedTo'[r] = r \/ (InsertToken(r) /\ linkedTo'[r] = grantKey[r])
       /\ chain'[r] = chain[r] \/ FirstToken(r) \/ InsertToken(r)
  BY <1>52, LinkMoves, ChainMoves
<1>54. CASE linkedTo'[r] = r BY <1>50, <1>54 DEF OnItsWayOut
<1>55. CASE InsertToken(r)
  <2>1. CASE chain'[r] = chain[r] /\ linkedTo'[r] = linkedTo[r] /\ step[r] = "insert"
    BY <1>50, <1>51, <2>1 DEF OnItsWayOut
  <2>2. CASE grantKey[r] = revoker.key /\ step' = [step EXCEPT ![r] = "rotate"]
    BY <1>52, <2>2 DEF OnItsWayOut
  <2>3. \/ chain' = chain /\ linkedTo' = linkedTo
        \/ linkedTo'[r] = grantKey[r] /\ step' = [step EXCEPT ![r] = IF grantKey[r] = Nothing THEN "legacy_key" ELSE "rotate"]
    <3>1. linkedTo \in [ChainTokens -> Requests \cup {Nothing}] BY DEF TokenTypeOK
    <3>2. QED BY <1>52, <1>55, <3>1 DEF InsertToken, Proceed
  <2>4. QED BY <1>52, <1>55, <2>1, <2>2, <2>3 DEF InsertToken, StandsAt
<1>56. CASE linkedTo'[r] = linkedTo[r] /\ FirstToken(r)
  <2>1. linkedTo[r] = revoker.key /\ step[r] = "first_token" BY <1>56 DEF FirstToken, StandsAt
  <2>2. chain' = chain \/ linkedTo'[r] = r
    <3>1. linkedTo \in [ChainTokens -> Requests \cup {Nothing}] BY DEF TokenTypeOK
    <3>2. QED BY <1>52, <1>56, <3>1 DEF FirstToken
  <2>3. QED BY <1>50, <1>51, <1>54, <2>1, <2>2 DEF OnItsWayOut
<1>57. CASE linkedTo'[r] = linkedTo[r] /\ chain'[r] = chain[r]
  <2>1. OnItsWayOut(r) BY <1>51, <1>57
  <2>2. CASE r = revoker.key BY <1>50, <2>2 DEF OnItsWayOut
  <2>3. CASE step[r] \in {"refused", "died"}
    <3>1. FALSE
      <4> USE <2>3 DEF StandsAt, Over
      <4>1. CASE FindCode(r) BY <4>1 DEF FindCode
      <4>2. CASE CheckCodeMember(r) BY <4>2 DEF CheckCodeMember
      <4>3. CASE ConsumeCode(r) BY <4>3 DEF ConsumeCode
      <4>4. CASE MintKey(r) BY <4>4 DEF MintKey
      <4>5. CASE FirstToken(r) BY <4>5 DEF FirstToken
      <4>6. CASE SendRefresh(r) BY <4>6 DEF SendRefresh
      <4>7. CASE FindToken(r) BY <4>7 DEF FindToken
      <4>8. CASE CheckGrantMember(r) BY <4>8 DEF CheckGrantMember
      <4>9. CASE EndRow(r) BY <4>9 DEF EndRow
      <4>10. CASE EndKey(r) BY <4>10 DEF EndKey
      <4>11. CASE EndChain(r) BY <4>11 DEF EndChain
      <4>12. CASE InsertToken(r) BY <4>12 DEF InsertToken
      <4>13. CASE Rotate(r) BY <4>13 DEF Rotate
      <4>14. CASE LegacyKey(r) BY <4>14 DEF LegacyKey
      <4>15. CASE Link(r) BY <4>15 DEF Link
      <4>16. CASE RollBack(r) BY <4>16 DEF RollBack
      <4>17. CASE RevokeOld(r) BY <4>17 DEF RevokeOld
      <4>18. CASE Answer(r) BY <4>18 DEF Answer
      <4>19. CASE Die(r) BY <4>19 DEF Die
      <4>20. QED BY <4>1, <4>2, <4>3, <4>4, <4>5, <4>6, <4>7, <4>8, <4>9, <4>10, <4>11, <4>12, <4>13, <4>14, <4>15, <4>16, <4>17, <4>18, <4>19 DEF RequestStep
    <3>2. QED BY <3>1
  <2>4. CASE step[r] = "rotate"
    <3>1. linkedTo[r] = grantKey[r] /\ keyRow[grantKey[r]] # "live" BY <1>51, <1>52, <1>57, <2>4
    <3>2. step'[r] = "roll_back" \/ (step'[r] = "died" /\ r \in unlucky')
      <4> USE <1>52, <2>4, <3>1 DEF StandsAt, Proceed, Mishap
      <4>1. CASE FindCode(r) BY <4>1 DEF FindCode
      <4>2. CASE CheckCodeMember(r) BY <4>2 DEF CheckCodeMember
      <4>3. CASE ConsumeCode(r) BY <4>3 DEF ConsumeCode
      <4>4. CASE MintKey(r) BY <4>4 DEF MintKey
      <4>5. CASE FirstToken(r) BY <4>5 DEF FirstToken
      <4>6. CASE SendRefresh(r) BY <4>6 DEF SendRefresh
      <4>7. CASE FindToken(r) BY <4>7 DEF FindToken
      <4>8. CASE CheckGrantMember(r) BY <4>8 DEF CheckGrantMember
      <4>9. CASE EndRow(r) BY <4>9 DEF EndRow
      <4>10. CASE EndKey(r) BY <4>10 DEF EndKey
      <4>11. CASE EndChain(r) BY <4>11 DEF EndChain
      <4>12. CASE InsertToken(r) BY <4>12 DEF InsertToken
      <4>13. CASE Rotate(r) BY <4>13 DEF Rotate
      <4>14. CASE LegacyKey(r) BY <4>14 DEF LegacyKey
      <4>15. CASE Link(r) BY <4>15 DEF Link
      <4>16. CASE RollBack(r) BY <4>16 DEF RollBack
      <4>17. CASE RevokeOld(r) BY <4>17 DEF RevokeOld
      <4>18. CASE Answer(r) BY <4>18 DEF Answer
      <4>19. CASE Die(r) BY <4>19 DEF Die
      <4>20. QED BY <4>1, <4>2, <4>3, <4>4, <4>5, <4>6, <4>7, <4>8, <4>9, <4>10, <4>11, <4>12, <4>13, <4>14, <4>15, <4>16, <4>17, <4>18, <4>19 DEF RequestStep
    <3>3. QED BY <3>2 DEF OnItsWayOut
  <2>5. CASE step[r] = "roll_back"
    <3>1. chain'[r] = "revoked" \/ (step'[r] \in {"refused", "died"} /\ r \in unlucky')
      <4>50. chain \in [ChainTokens -> {"none", "live", "revoked"}] BY DEF TokenTypeOK
      <4> USE <1>52, <2>5, <4>50 DEF StandsAt, Proceed, Mishap, SetChain
      <4>1. CASE FindCode(r) BY <4>1 DEF FindCode
      <4>2. CASE CheckCodeMember(r) BY <4>2 DEF CheckCodeMember
      <4>3. CASE ConsumeCode(r) BY <4>3 DEF ConsumeCode
      <4>4. CASE MintKey(r) BY <4>4 DEF MintKey
      <4>5. CASE FirstToken(r) BY <4>5 DEF FirstToken
      <4>6. CASE SendRefresh(r) BY <4>6 DEF SendRefresh
      <4>7. CASE FindToken(r) BY <4>7 DEF FindToken
      <4>8. CASE CheckGrantMember(r) BY <4>8 DEF CheckGrantMember
      <4>9. CASE EndRow(r) BY <4>9 DEF EndRow
      <4>10. CASE EndKey(r) BY <4>10 DEF EndKey
      <4>11. CASE EndChain(r) BY <4>11 DEF EndChain
      <4>12. CASE InsertToken(r) BY <4>12 DEF InsertToken
      <4>13. CASE Rotate(r) BY <4>13 DEF Rotate
      <4>14. CASE LegacyKey(r) BY <4>14 DEF LegacyKey
      <4>15. CASE Link(r) BY <4>15 DEF Link
      <4>16. CASE RollBack(r) BY <4>16 DEF RollBack
      <4>17. CASE RevokeOld(r) BY <4>17 DEF RevokeOld
      <4>18. CASE Answer(r) BY <4>18 DEF Answer
      <4>19. CASE Die(r) BY <4>19 DEF Die
      <4>20. QED BY <4>1, <4>2, <4>3, <4>4, <4>5, <4>6, <4>7, <4>8, <4>9, <4>10, <4>11, <4>12, <4>13, <4>14, <4>15, <4>16, <4>17, <4>18, <4>19 DEF RequestStep
    <3>2. QED BY <3>1 DEF OnItsWayOut
  <2>6. QED BY <2>1, <2>2, <2>3, <2>4, <2>5 DEF OnItsWayOut
<1>58. QED BY <1>53, <1>54, <1>55, <1>56, <1>57

LEMMA RevokedStep ==
  RequestTypes /\ TokenTypeOK /\ OneTaker /\ Linked /\ RevokedKey /\ [TokenNext]_tokenVars => RevokedKey'
<1> SUFFICES ASSUME RequestTypes, TokenTypeOK, OneTaker, Linked, RevokedKey, [TokenNext]_tokenVars
             PROVE  RevokedKey'
  OBVIOUS
<1>1. CASE UNCHANGED tokenVars
  BY <1>1 DEF tokenVars, tokenDb, requestVars, enders, RevokedKey, RevokedStaysDead, ChainOf
<1>2. CASE Endings
  <2>1. \A k \in Requests : keyRow[k] = "deleted" => keyRow'[k] = "deleted" BY <1>2, EndingKeys
  <2>2. UNCHANGED <<step, linkedTo, unlucky>> BY <1>2, EndingsWait
  <2>3. CASE RevokeKey
    <3>1. PICK k \in Requests : keyRow[k] = "live" /\ DeleteKeys({k}) /\ revoker' = [at |-> "chain", key |-> k]
      BY <2>3 DEF RevokeKey
    <3>2. keyRow'[k] = "deleted" BY <3>1 DEF DeleteKeys
    <3>3. revoker'.at = "chain" /\ revoker'.key = k BY <3>1
    <3>4. QED BY <3>2, <3>3 DEF RevokedKey, RevokedStaysDead
  <2>4. CASE RevokeChain
    <3>1. revoker'.at = "done" /\ revoker'.key = revoker.key /\ revoker.at = "chain"
      BY <2>4 DEF RevokeChain, RequestTypes
    <3>2. \A t \in ChainTokens : linkedTo'[t] = revoker.key => chain'[t] # "live"
      BY <2>2, <2>4 DEF RevokeChain, RevokeAll, ChainOf
    <3>3. QED BY <2>1, <3>1, <3>2 DEF RevokedKey, RevokedStaysDead, ChainOf
  <2>5. CASE RemoveKeys \/ RemoveCodes \/ RemoveChains \/ RemoveMembership
    <3>1. /\ revoker' = revoker
          /\ \A t \in ChainTokens : chain'[t] = "live" => chain[t] = "live"
      BY <2>5 DEF RemoveKeys, RemoveCodes, RemoveChains, RemoveMembership, RevokeAll, TokenTypeOK
    <3>2. QED BY <2>1, <2>2, <3>1 DEF RevokedKey, RevokedStaysDead, ChainOf
  <2>6. QED BY <1>2, <2>3, <2>4, <2>5 DEF Endings
<1>3. ASSUME NEW r \in Requests, RequestStep(r) PROVE RevokedKey'
  <2>1. revoker' = revoker /\ unlucky \subseteq unlucky' BY <1>3, OthersStay DEF Mishap
  <2>2. revoker.at # "idle" => keyRow'[revoker.key] = "deleted" BY <1>3, DeletedStays DEF RevokedKey
  <2>3. ASSUME revoker.at = "done", NEW t \in ChainTokens, linkedTo'[t] = revoker.key, chain'[t] = "live"
        PROVE  OnItsWayOut(t)'
    <3>1. CASE t = r BY <1>3, <2>3, <3>1, OwnTokenStep
    <3>2. CASE t # r
      <4>1. linkedTo[t] = revoker.key /\ chain[t] = "live" BY <1>3, <2>3, <3>2, LinkMoves, ChainMoves
      <4>2. t \in Requests BY <2>3, <4>1, LegacyIsNot DEF RevokedKey, Linked, ChainTokens
      <4>3. OnItsWayOut(t) BY <2>3, <4>1 DEF RevokedKey, RevokedStaysDead, ChainOf, OnItsWayOut
      <4>4. step'[t] = step[t] BY <1>3, <3>2, <4>2, OthersStay
      <4>5. QED BY <2>1, <4>3, <4>4 DEF OnItsWayOut
    <3>3. QED BY <3>1, <3>2
  <2>4. QED BY <2>1, <2>2, <2>3 DEF RevokedKey, RevokedStaysDead, ChainOf, OnItsWayOut
<1>4. QED BY <1>1, <1>2, <1>3 DEF TokenNext, Endings

-----------------------------------------------------------------------------
Cut == {"code_member", "find_token", "member", "end_row", "end_key", "end_chain", "refused", "died"}

LEMMA SenderIsNoted ==
  ASSUME RequestTypes, LateGetsNothing, NEW r \in Requests, RequestStep(r)
  PROVE  late' = late \/ (late' = late \cup {r} /\ ~member /\ (FindCode(r) \/ SendRefresh(r)))
<1> USE DEF NoteSender
<1>1. CASE FindCode(r) BY <1>1 DEF FindCode
<1>2. CASE CheckCodeMember(r) BY <1>2 DEF CheckCodeMember
<1>3. CASE ConsumeCode(r) BY <1>3 DEF ConsumeCode
<1>4. CASE MintKey(r) BY <1>4 DEF MintKey
<1>5. CASE FirstToken(r) BY <1>5 DEF FirstToken
<1>6. CASE SendRefresh(r) BY <1>6 DEF SendRefresh
<1>7. CASE FindToken(r) BY <1>7 DEF FindToken
<1>8. CASE CheckGrantMember(r) BY <1>8 DEF CheckGrantMember
<1>9. CASE EndRow(r) BY <1>9 DEF EndRow
<1>10. CASE EndKey(r) BY <1>10 DEF EndKey
<1>11. CASE EndChain(r) BY <1>11 DEF EndChain
<1>12. CASE InsertToken(r) BY <1>12 DEF InsertToken
<1>13. CASE Rotate(r) BY <1>13 DEF Rotate
<1>14. CASE LegacyKey(r) BY <1>14 DEF LegacyKey
<1>15. CASE Link(r) BY <1>15 DEF Link
<1>16. CASE RollBack(r) BY <1>16 DEF RollBack
<1>17. CASE RevokeOld(r) BY <1>17 DEF RevokeOld
<1>18. CASE Answer(r) BY <1>18 DEF Answer
<1>19. CASE Die(r) BY <1>19 DEF Die
<1>20. QED BY <1>1, <1>2, <1>3, <1>4, <1>5, <1>6, <1>7, <1>8, <1>9, <1>10, <1>11, <1>12, <1>13, <1>14, <1>15, <1>16, <1>17, <1>18, <1>19 DEF RequestStep

LEMMA LateSelf ==
  ASSUME RequestTypes, LateGetsNothing, NEW r \in Requests, RequestStep(r), r \in late'
  PROVE  ~member /\ step'[r] \in Cut
<1>50. /\ DOMAIN step = Requests
       /\ r \in late => ~member /\ step[r] \in Cut
       /\ r \in late \/ (~member /\ (FindCode(r) \/ SendRefresh(r)))
  BY SenderIsNoted DEF RequestTypes, LateGetsNothing, Cut
<1>51. CASE FindCode(r) \/ SendRefresh(r) BY <1>50, <1>51 DEF FindCode, SendRefresh, StandsAt, Proceed, Cut
<1>52. CASE ~FindCode(r) /\ ~SendRefresh(r)
  <2>1. ~member /\ step[r] \in Cut BY <1>50, <1>52
  <2> USE <1>50, <1>52, <2>1 DEF StandsAt, Proceed, Cut, Over
  <2>2. CASE FindCode(r) BY <2>2 DEF FindCode
  <2>3. CASE CheckCodeMember(r) BY <2>3 DEF CheckCodeMember
  <2>4. CASE ConsumeCode(r) BY <2>4 DEF ConsumeCode
  <2>5. CASE MintKey(r) BY <2>5 DEF MintKey
  <2>6. CASE FirstToken(r) BY <2>6 DEF FirstToken
  <2>7. CASE SendRefresh(r) BY <2>7 DEF SendRefresh
  <2>8. CASE FindToken(r) BY <2>8 DEF FindToken
  <2>9. CASE CheckGrantMember(r) BY <2>9 DEF CheckGrantMember
  <2>10. CASE EndRow(r) BY <2>10 DEF EndRow
  <2>11. CASE EndKey(r) BY <2>11 DEF EndKey
  <2>12. CASE EndChain(r) BY <2>12 DEF EndChain
  <2>13. CASE InsertToken(r) BY <2>13 DEF InsertToken
  <2>14. CASE Rotate(r) BY <2>14 DEF Rotate
  <2>15. CASE LegacyKey(r) BY <2>15 DEF LegacyKey
  <2>16. CASE Link(r) BY <2>16 DEF Link
  <2>17. CASE RollBack(r) BY <2>17 DEF RollBack
  <2>18. CASE RevokeOld(r) BY <2>18 DEF RevokeOld
  <2>19. CASE Answer(r) BY <2>19 DEF Answer
  <2>20. CASE Die(r) BY <2>20 DEF Die
  <2>30. QED BY <2>2, <2>3, <2>4, <2>5, <2>6, <2>7, <2>8, <2>9, <2>10, <2>11, <2>12, <2>13, <2>14, <2>15, <2>16, <2>17, <2>18, <2>19, <2>20 DEF RequestStep
<1>53. QED BY <1>51, <1>52

LEMMA LateStep ==
  RequestTypes /\ LateGetsNothing /\ [TokenNext]_tokenVars => LateGetsNothing'
<1> SUFFICES ASSUME RequestTypes, LateGetsNothing, [TokenNext]_tokenVars PROVE LateGetsNothing'
  OBVIOUS
<1>1. CASE UNCHANGED tokenVars BY <1>1 DEF tokenVars, tokenDb, requestVars, LateGetsNothing
<1>2. CASE Endings
  <2>1. step' = step /\ late' = late BY <1>2, EndingsWait
  <2>2. ~member => ~member'
    BY <1>2 DEF Endings, RevokeKey, RevokeChain, RemoveKeys, RemoveCodes, RemoveChains, RemoveMembership
  <2>3. QED BY <2>1, <2>2 DEF LateGetsNothing
<1>3. ASSUME NEW r \in Requests, RequestStep(r) PROVE LateGetsNothing'
  <2>1. late' \subseteq late \cup {r} BY <1>3, SenderIsNoted
  <2>2. member' = member /\ \A s \in Requests \ {r} : step'[s] = step[s] BY <1>3, OthersStay
  <2>3. r \in late' => ~member /\ step'[r] \in Cut BY <1>3, LateSelf
  <2>4. ASSUME NEW s \in late' PROVE s \in Requests /\ ~member' /\ step'[s] \in Cut
    <3>1. CASE s = r BY <2>2, <2>3, <2>4, <3>1
    <3>2. CASE s # r BY <2>1, <2>2, <2>4, <3>2 DEF LateGetsNothing, Cut
    <3>3. QED BY <3>1, <3>2
  <2>5. QED BY <2>4 DEF LateGetsNothing, Cut
<1>4. QED BY <1>1, <1>2, <1>3 DEF TokenNext, Endings

-----------------------------------------------------------------------------
Fresh == {"rotate", "legacy_key", "link", "revoke_old", "answer"}

LEMMA AnsweredStays ==
  ASSUME RequestTypes, NEW r \in Requests, RequestStep(r)
  PROVE  step[r] # "answered"
<1> USE DEF StandsAt, Over
<1>1. CASE FindCode(r) BY <1>1 DEF FindCode
<1>2. CASE CheckCodeMember(r) BY <1>2 DEF CheckCodeMember
<1>3. CASE ConsumeCode(r) BY <1>3 DEF ConsumeCode
<1>4. CASE MintKey(r) BY <1>4 DEF MintKey
<1>5. CASE FirstToken(r) BY <1>5 DEF FirstToken
<1>6. CASE SendRefresh(r) BY <1>6 DEF SendRefresh
<1>7. CASE FindToken(r) BY <1>7 DEF FindToken
<1>8. CASE CheckGrantMember(r) BY <1>8 DEF CheckGrantMember
<1>9. CASE EndRow(r) BY <1>9 DEF EndRow
<1>10. CASE EndKey(r) BY <1>10 DEF EndKey
<1>11. CASE EndChain(r) BY <1>11 DEF EndChain
<1>12. CASE InsertToken(r) BY <1>12 DEF InsertToken
<1>13. CASE Rotate(r) BY <1>13 DEF Rotate
<1>14. CASE LegacyKey(r) BY <1>14 DEF LegacyKey
<1>15. CASE Link(r) BY <1>15 DEF Link
<1>16. CASE RollBack(r) BY <1>16 DEF RollBack
<1>17. CASE RevokeOld(r) BY <1>17 DEF RevokeOld
<1>18. CASE Answer(r) BY <1>18 DEF Answer
<1>19. CASE Die(r) BY <1>19 DEF Die
<1>20. QED BY <1>1, <1>2, <1>3, <1>4, <1>5, <1>6, <1>7, <1>8, <1>9, <1>10, <1>11, <1>12, <1>13, <1>14, <1>15, <1>16, <1>17, <1>18, <1>19 DEF RequestStep

LEMMA PresentedStep ==
  ASSUME RequestTypes, NewTokensLive, NEW r \in Requests, RequestStep(r)
  PROVE  /\ presented'[r] = presented[r] \/ presented'[r] = client
         /\ client' = client \/ (client' = r /\ Answer(r) /\ step'[r] = "answered")
         /\ step'[r] \in {"end_row", "end_key", "end_chain"} => ~member
<1>50. /\ DOMAIN step = Requests /\ DOMAIN presented = Requests
       /\ step[r] \in {"end_row", "end_key", "end_chain"} => ~member
  BY DEF RequestTypes, NewTokensLive
<1> USE <1>50 DEF StandsAt, Proceed, Over
<1>1. CASE FindCode(r) BY <1>1 DEF FindCode
<1>2. CASE CheckCodeMember(r) BY <1>2 DEF CheckCodeMember
<1>3. CASE ConsumeCode(r) BY <1>3 DEF ConsumeCode
<1>4. CASE MintKey(r) BY <1>4 DEF MintKey
<1>5. CASE FirstToken(r) BY <1>5 DEF FirstToken
<1>6. CASE SendRefresh(r) BY <1>6 DEF SendRefresh
<1>7. CASE FindToken(r) BY <1>7 DEF FindToken
<1>8. CASE CheckGrantMember(r) BY <1>8 DEF CheckGrantMember
<1>9. CASE EndRow(r) BY <1>9 DEF EndRow
<1>10. CASE EndKey(r) BY <1>10 DEF EndKey
<1>11. CASE EndChain(r) BY <1>11 DEF EndChain
<1>12. CASE InsertToken(r) BY <1>12 DEF InsertToken
<1>13. CASE Rotate(r) BY <1>13 DEF Rotate
<1>14. CASE LegacyKey(r) BY <1>14 DEF LegacyKey
<1>15. CASE Link(r) BY <1>15 DEF Link
<1>16. CASE RollBack(r) BY <1>16 DEF RollBack
<1>17. CASE RevokeOld(r) BY <1>17 DEF RevokeOld
<1>18. CASE Answer(r) BY <1>18 DEF Answer
<1>19. CASE Die(r) BY <1>19 DEF Die
<1>20. QED BY <1>1, <1>2, <1>3, <1>4, <1>5, <1>6, <1>7, <1>8, <1>9, <1>10, <1>11, <1>12, <1>13, <1>14, <1>15, <1>16, <1>17, <1>18, <1>19 DEF RequestStep

\* The request's own token: live once inserted, until the answer.
LEMMA FreshStep ==
  ASSUME RequestTypes, TokenTypeOK, NEW r \in Requests, RequestStep(r),
         presented[r] # r, step[r] \in Fresh => chain[r] = "live" \/ r \in unlucky \cap Redeems,
         step[r] \notin {"end_row", "end_key", "end_chain"}
  PROVE  step'[r] \in Fresh => chain'[r] = "live" \/ r \in unlucky' \cap Redeems
<1>50. /\ DOMAIN step = Requests /\ r \in ChainTokens
       /\ chain \in [ChainTokens -> {"none", "live", "revoked"}]
       /\ step[r] \in RedeemSteps => r \in Redeems
       /\ step[r] \in RefreshSteps => presented[r] \in ChainTokens
       /\ unlucky \subseteq unlucky'
  BY OthersStay DEF RequestTypes, TokenTypeOK, ChainTokens, Mishap
<1> USE <1>50 DEF StandsAt, Proceed, Fresh, SetChain, Mishap, Over, RedeemSteps, RefreshSteps, tokenDb
<1>1. CASE FindCode(r) BY <1>1 DEF FindCode
<1>2. CASE CheckCodeMember(r) BY <1>2 DEF CheckCodeMember
<1>3. CASE ConsumeCode(r) BY <1>3 DEF ConsumeCode
<1>4. CASE MintKey(r) BY <1>4 DEF MintKey
<1>5. CASE FirstToken(r) BY <1>5 DEF FirstToken
<1>6. CASE SendRefresh(r) BY <1>6 DEF SendRefresh
<1>7. CASE FindToken(r) BY <1>7 DEF FindToken
<1>8. CASE CheckGrantMember(r) BY <1>8 DEF CheckGrantMember
<1>9. CASE EndRow(r) BY <1>9 DEF EndRow
<1>10. CASE EndKey(r) BY <1>10 DEF EndKey
<1>11. CASE EndChain(r) BY <1>11 DEF EndChain
<1>12. CASE InsertToken(r) BY <1>12 DEF InsertToken
<1>13. CASE Rotate(r) BY <1>13 DEF Rotate
<1>14. CASE LegacyKey(r) BY <1>14 DEF LegacyKey
<1>15. CASE Link(r) BY <1>15 DEF Link
<1>16. CASE RollBack(r) BY <1>16 DEF RollBack
<1>17. CASE RevokeOld(r) BY <1>17 DEF RevokeOld
<1>18. CASE Answer(r) BY <1>18 DEF Answer
<1>19. CASE Die(r) BY <1>19 DEF Die
<1>20. QED BY <1>1, <1>2, <1>3, <1>4, <1>5, <1>6, <1>7, <1>8, <1>9, <1>10, <1>11, <1>12, <1>13, <1>14, <1>15, <1>16, <1>17, <1>18, <1>19 DEF RequestStep

LEMMA EndingsDisturb ==
  ASSUME RequestTypes, Endings
  PROVE  ~Undisturbed'
<1>1. CASE RevokeKey BY <1>1 DEF RevokeKey, Undisturbed
<1>2. CASE RevokeChain BY <1>2 DEF RevokeChain, Undisturbed, RequestTypes
<1>3. CASE RemoveKeys \/ RemoveCodes \/ RemoveChains \/ RemoveMembership
  BY <1>3 DEF RemoveKeys, RemoveCodes, RemoveChains, RemoveMembership, Undisturbed
<1>4. QED BY <1>1, <1>2, <1>3 DEF Endings

LEMMA NewTokensStep ==
  RequestTypes /\ TokenTypeOK /\ NewTokensLive /\ [TokenNext]_tokenVars => NewTokensLive'
<1> SUFFICES ASSUME RequestTypes, TokenTypeOK, NewTokensLive, [TokenNext]_tokenVars PROVE NewTokensLive'
  OBVIOUS
<1>1. CASE UNCHANGED tokenVars
  BY <1>1 DEF tokenVars, tokenDb, requestVars, enders, NewTokensLive, Undisturbed
<1>2. CASE Endings
  <2>1. UNCHANGED <<step, presented, client, unlucky>> BY <1>2, EndingsWait
  <2>2. (~member => ~member') /\ (~member' => removal' = "done")
    BY <1>2 DEF Endings, RevokeKey, RevokeChain, RemoveKeys, RemoveCodes, RemoveChains, RemoveMembership, NewTokensLive
  <2>3. ~Undisturbed' BY <1>2, EndingsDisturb
  <2>4. QED BY <2>1, <2>2, <2>3 DEF NewTokensLive
<1>3. ASSUME NEW r \in Requests, RequestStep(r) PROVE NewTokensLive'
  <2>1. /\ \A s \in Requests \ {r} : step'[s] = step[s] /\ presented'[s] = presented[s]
        /\ UNCHANGED <<member, revoker, removal>> /\ unlucky \subseteq unlucky'
    BY <1>3, OthersStay DEF Mishap
  <2>2. \A s \in Requests : step[s] = "answered" => step'[s] = "answered" BY <1>3, <2>1, AnsweredStays
  <2>3. client' \in Requests => step'[client'] = "answered"
    BY <1>3, <2>2, PresentedStep DEF NewTokensLive
  <2>4. \A s \in Requests : presented'[s] \in Requests => step'[presented'[s]] = "answered"
    BY <1>3, <2>1, <2>2, PresentedStep DEF NewTokensLive
  <2>5. (~member' => removal' = "done") BY <2>1 DEF NewTokensLive
  <2>6. \A s \in Requests : step'[s] \in {"end_row", "end_key", "end_chain"} => ~member'
    BY <1>3, <2>1, PresentedStep DEF NewTokensLive
  <2>7. ASSUME Undisturbed', NEW s \in Requests, step'[s] \in Fresh
        PROVE  chain'[s] = "live" \/ s \in unlucky' \cap Redeems
    <3>1. Undisturbed BY <2>1, <2>7 DEF Undisturbed
    <3>2. step[s] \in Fresh => chain[s] = "live" \/ s \in unlucky \cap Redeems BY <3>1 DEF NewTokensLive, Fresh
    <3>3. \A q \in Requests : step[q] \notin {"end_row", "end_key", "end_chain"}
      BY <3>1 DEF NewTokensLive, Undisturbed
    <3>4. CASE s = r
      <4>1. presented[r] # r BY <1>3, AnsweredStays DEF NewTokensLive
      <4>2. QED BY <1>3, <2>7, <3>2, <3>3, <3>4, <4>1, FreshStep
    <3>5. CASE s # r
      <4>1. step'[s] = step[s] BY <2>1, <3>5
      <4>2. presented[r] # s BY <2>7, <4>1 DEF NewTokensLive, Fresh
      <4>3. ~EndRow(r) /\ ~EndChain(r) BY <3>3 DEF EndRow, EndChain, StandsAt
      <4>4. chain'[s] = chain[s] BY <1>3, <3>5, <4>2, <4>3, ChainMoves DEF ChainTokens
      <4>5. QED BY <2>1, <2>7, <3>2, <4>1, <4>4
    <3>6. QED BY <3>4, <3>5
  <2>8. QED BY <2>3, <2>4, <2>5, <2>6, <2>7 DEF NewTokensLive, Fresh
<1>4. QED BY <1>1, <1>2, <1>3 DEF TokenNext, Endings

-----------------------------------------------------------------------------
AnswerLost == \E q \in unlucky : StandsAt(q, "lost") \/ q \in Redeems
OnTheWay == \E q \in Refreshes : presented[q] = client /\ chain[q] = "live" /\ StandsAt(q, "answer")

LEMMA LostStays ==
  ASSUME RequestTypes, NEW r \in Requests, RequestStep(r), AnswerLost
  PROVE  AnswerLost'
<1>1. PICK q \in unlucky : step[q] = "lost" \/ q \in Redeems BY DEF AnswerLost, StandsAt
<1>2. q \in Requests /\ q \in unlucky' BY OthersStay DEF RequestTypes, Mishap
<1>3. CASE q \in Redeems BY <1>2, <1>3 DEF AnswerLost
<1>4. CASE step[q] = "lost"
  <2>1. step[r] # "lost"
    <3> USE DEF StandsAt, Over
    <3>1. CASE FindCode(r) BY <3>1 DEF FindCode
    <3>2. CASE CheckCodeMember(r) BY <3>2 DEF CheckCodeMember
    <3>3. CASE ConsumeCode(r) BY <3>3 DEF ConsumeCode
    <3>4. CASE MintKey(r) BY <3>4 DEF MintKey
    <3>5. CASE FirstToken(r) BY <3>5 DEF FirstToken
    <3>6. CASE SendRefresh(r) BY <3>6 DEF SendRefresh
    <3>7. CASE FindToken(r) BY <3>7 DEF FindToken
    <3>8. CASE CheckGrantMember(r) BY <3>8 DEF CheckGrantMember
    <3>9. CASE EndRow(r) BY <3>9 DEF EndRow
    <3>10. CASE EndKey(r) BY <3>10 DEF EndKey
    <3>11. CASE EndChain(r) BY <3>11 DEF EndChain
    <3>12. CASE InsertToken(r) BY <3>12 DEF InsertToken
    <3>13. CASE Rotate(r) BY <3>13 DEF Rotate
    <3>14. CASE LegacyKey(r) BY <3>14 DEF LegacyKey
    <3>15. CASE Link(r) BY <3>15 DEF Link
    <3>16. CASE RollBack(r) BY <3>16 DEF RollBack
    <3>17. CASE RevokeOld(r) BY <3>17 DEF RevokeOld
    <3>18. CASE Answer(r) BY <3>18 DEF Answer
    <3>19. CASE Die(r) BY <3>19 DEF Die
    <3>20. QED BY <3>1, <3>2, <3>3, <3>4, <3>5, <3>6, <3>7, <3>8, <3>9, <3>10, <3>11, <3>12, <3>13, <3>14, <3>15, <3>16, <3>17, <3>18, <3>19 DEF RequestStep
  <2>2. step'[q] = "lost" BY <1>2, <1>4, <2>1, OthersStay
  <2>3. QED BY <1>2, <2>2 DEF AnswerLost, StandsAt
<1>5. QED BY <1>1, <1>3, <1>4

\* An answer that does not arrive is lost.
LEMMA AnswerEnds ==
  ASSUME RequestTypes, NEW r \in Requests, RequestStep(r), step[r] = "answer"
  PROVE  client' = r \/ AnswerLost'
<1>1. Answer(r) \/ Die(r)
  <2> USE DEF StandsAt
  <2>1. CASE FindCode(r) BY <2>1 DEF FindCode
  <2>2. CASE CheckCodeMember(r) BY <2>2 DEF CheckCodeMember
  <2>3. CASE ConsumeCode(r) BY <2>3 DEF ConsumeCode
  <2>4. CASE MintKey(r) BY <2>4 DEF MintKey
  <2>5. CASE FirstToken(r) BY <2>5 DEF FirstToken
  <2>6. CASE SendRefresh(r) BY <2>6 DEF SendRefresh
  <2>7. CASE FindToken(r) BY <2>7 DEF FindToken
  <2>8. CASE CheckGrantMember(r) BY <2>8 DEF CheckGrantMember
  <2>9. CASE EndRow(r) BY <2>9 DEF EndRow
  <2>10. CASE EndKey(r) BY <2>10 DEF EndKey
  <2>11. CASE EndChain(r) BY <2>11 DEF EndChain
  <2>12. CASE InsertToken(r) BY <2>12 DEF InsertToken
  <2>13. CASE Rotate(r) BY <2>13 DEF Rotate
  <2>14. CASE LegacyKey(r) BY <2>14 DEF LegacyKey
  <2>15. CASE Link(r) BY <2>15 DEF Link
  <2>16. CASE RollBack(r) BY <2>16 DEF RollBack
  <2>17. CASE RevokeOld(r) BY <2>17 DEF RevokeOld
  <2>18. QED BY <2>1, <2>2, <2>3, <2>4, <2>5, <2>6, <2>7, <2>8, <2>9, <2>10, <2>11, <2>12, <2>13, <2>14, <2>15, <2>16, <2>17 DEF RequestStep
<1>2. CASE Answer(r) BY <1>2 DEF Answer, Proceed, Mishap, AnswerLost, StandsAt, RequestTypes
<1>3. CASE Die(r) BY <1>3 DEF Die, Proceed, Mishap, AnswerLost, StandsAt, RequestTypes
<1>4. QED BY <1>1, <1>2, <1>3

LEMMA ClientRequestStep ==
  ASSUME RequestTypes, TokenTypeOK, NewTokensLive, ClientKeepsAToken,
         NEW r \in Requests, RequestStep(r), Undisturbed, client' # Nothing
  PROVE  chain'[client'] = "live" \/ OnTheWay' \/ AnswerLost'
<1>1. \A q \in Requests : step[q] \in Fresh => chain[q] = "live" \/ q \in unlucky \cap Redeems
  BY DEF NewTokensLive, Fresh
<1>2. ~EndRow(r) /\ ~EndChain(r) BY DEF NewTokensLive, Undisturbed, EndRow, EndChain, StandsAt
<1>3. unlucky \subseteq unlucky' BY OthersStay DEF Mishap
<1>4. CASE client' = r /\ Answer(r)
  <2>1. step[r] = "answer" /\ chain' = chain BY <1>4 DEF Answer, StandsAt, tokenDb
  <2>2. chain[r] = "live" \/ r \in unlucky \cap Redeems BY <1>1, <2>1 DEF Fresh
  <2>3. QED BY <1>3, <1>4, <2>1, <2>2 DEF AnswerLost
<1>5. CASE client' = client /\ chain[client] = "live"
  <2>1. client \in ChainTokens BY <1>5 DEF TokenTypeOK
  <2>2. CASE chain'[client] = "live" BY <1>5, <2>2
  <2>3. CASE chain'[client] # "live"
    <3>1. (RollBack(r) /\ client = r) \/ (RevokeOld(r) /\ client = presented[r])
      BY <1>2, <1>5, <2>1, <2>3, ChainMoves
    <3>2. ~(RollBack(r) /\ client = r) BY DEF RollBack, StandsAt, NewTokensLive
    <3>3. /\ RevokeOld(r) /\ client = presented[r] /\ step[r] = "revoke_old" /\ r \in Refreshes
          /\ step'[r] = "answer" /\ presented' = presented
      BY <3>1, <3>2 DEF RevokeOld, StandsAt, Proceed, RequestTypes, RefreshSteps
    <3>4. presented[r] # r BY AnsweredStays DEF NewTokensLive
    <3>5. ~RollBack(r) /\ chain'[r] = chain[r]
      BY <1>2, <3>3, <3>4, ChainMoves DEF ChainTokens, FirstToken, InsertToken, RollBack, StandsAt
    <3>6. CASE chain[r] = "live" BY <1>5, <3>3, <3>5, <3>6 DEF OnTheWay, StandsAt
    <3>7. CASE r \in unlucky \cap Redeems BY <1>3, <3>7 DEF AnswerLost
    <3>8. QED BY <1>1, <3>3, <3>6, <3>7 DEF Fresh
  <2>4. QED BY <2>2, <2>3
<1>6. CASE client' = client /\ OnTheWay
  <2>1. PICK q \in Refreshes : presented[q] = client /\ chain[q] = "live" /\ step[q] = "answer"
    BY <1>6 DEF OnTheWay, StandsAt
  <2>2. q \in Requests BY DEF Requests
  <2>3. CASE q = r
    <3>1. client' = r \/ AnswerLost' BY <2>1, <2>3, AnswerEnds
    <3>2. client # r BY <2>1, <2>3 DEF NewTokensLive
    <3>3. QED BY <1>6, <3>1, <3>2
  <2>4. CASE q # r
    <3>1. step'[q] = step[q] /\ presented'[q] = presented[q] BY <2>2, <2>4, OthersStay
    <3>2. presented[r] # q BY <2>1, <2>2 DEF NewTokensLive
    <3>3. chain'[q] = "live" BY <1>2, <2>1, <2>2, <2>4, <3>2, ChainMoves DEF ChainTokens
    <3>4. QED BY <1>6, <2>1, <3>1, <3>3 DEF OnTheWay, StandsAt
  <2>5. QED BY <2>3, <2>4
<1>7. CASE AnswerLost BY <1>7, LostStays
<1>8. client' = client => chain[client] = "live" \/ OnTheWay \/ AnswerLost
  BY DEF ClientKeepsAToken, OnTheWay, AnswerLost
<1>9. QED BY <1>4, <1>5, <1>6, <1>7, <1>8, PresentedStep

LEMMA ClientStep ==
  RequestTypes /\ TokenTypeOK /\ NewTokensLive /\ ClientKeepsAToken /\ [TokenNext]_tokenVars => ClientKeepsAToken'
<1> SUFFICES ASSUME RequestTypes, TokenTypeOK, NewTokensLive, ClientKeepsAToken, [TokenNext]_tokenVars,
                    Undisturbed', client' # Nothing
             PROVE  chain'[client'] = "live" \/ OnTheWay' \/ AnswerLost'
  BY DEF ClientKeepsAToken, OnTheWay, AnswerLost
<1>1. CASE UNCHANGED tokenVars
  BY <1>1 DEF tokenVars, tokenDb, requestVars, enders, ClientKeepsAToken, Undisturbed, OnTheWay, AnswerLost, StandsAt
<1>2. CASE Endings BY <1>2, EndingsDisturb
<1>3. ASSUME NEW r \in Requests, RequestStep(r) PROVE chain'[client'] = "live" \/ OnTheWay' \/ AnswerLost'
  <2>1. Undisturbed BY <1>3, OthersStay DEF Undisturbed
  <2>2. QED BY <1>3, <2>1, ClientRequestStep
<1>4. QED BY <1>1, <1>2, <1>3 DEF TokenNext, Endings

-----------------------------------------------------------------------------
LEMMA TokenInvInit == TokenInit => TokenInv
<1> SUFFICES ASSUME TokenInit PROVE TokenInv
  OBVIOUS
<1>1. IsFiniteSet({}) /\ Cardinality({}) = 0 BY FS_EmptySet
<1>2. PICK legacy \in BOOLEAN :
        /\ authCode = IF legacy THEN "gone" ELSE "pending"
        /\ chain = [t \in ChainTokens |-> IF legacy /\ t = Legacy THEN "live" ELSE "none"]
        /\ client = IF legacy THEN Legacy ELSE Nothing
  BY DEF TokenInit
<1>3. RequestTypes BY <1>1 DEF TokenInit, RequestTypes, EndSteps, RedeemSteps, RefreshSteps
<1>4. TokenTypeOK
  <2>1. authCode \in {"pending", "gone"} /\ chain \in [ChainTokens -> {"none", "live", "revoked"}] BY <1>2
  <2>2. client \in ChainTokens \cup {Nothing} BY <1>2 DEF ChainTokens
  <2>3. member \in BOOLEAN BY Zenon DEF TokenInit
  <2>4. QED BY <1>1, <2>1, <2>2, <2>3, TokenAssumption DEF TokenInit, TokenTypeOK
<1>5. OneTaker BY DEF TokenInit, OneTaker, Requests
<1>6. Linked BY LegacyIsNot DEF TokenInit, Linked, ChainTokens
<1>7. RevokedKey BY DEF TokenInit, RevokedKey, RevokedStaysDead
<1>8. LateGetsNothing BY DEF TokenInit, LateGetsNothing
<1>9. NewTokensLive
  <2>1. client \notin Requests BY <1>2, LegacyIsNot
  <2>2. QED BY <2>1, LegacyIsNot DEF TokenInit, NewTokensLive
<1>10. ClientKeepsAToken
  <2>1. CASE legacy BY <1>2, <2>1 DEF ClientKeepsAToken, ChainTokens
  <2>2. CASE ~legacy BY <1>2, <2>2 DEF ClientKeepsAToken
  <2>3. QED BY <2>1, <2>2
<1>11. QED BY <1>3, <1>4, <1>5, <1>6, <1>7, <1>8, <1>9, <1>10 DEF TokenInv

LEMMA TokenInvHolds == TokenSpec => []TokenInv
<1>1. TokenInit => TokenInv BY TokenInvInit
<1>2. TokenInv /\ [TokenNext]_tokenVars => TokenInv'
  BY TokenTypesStep, OneTakerStep, LinkedStep, RevokedStep, LateStep, NewTokensStep, ClientStep DEF TokenInv
<1>3. QED BY <1>1, <1>2, PTL DEF TokenSpec

LEMMA InvMintsOnce == TokenInv => CodeMintsOnce
<1> SUFFICES ASSUME TokenInv PROVE CodeMintsOnce
  OBVIOUS
<1> DEFINE Minters == {r \in Redeems : keyRow[r] # "none"}
<1>1. \A x, y \in Minters : x = y BY DEF TokenInv, OneTaker
<1>2. Minters = {} \/ \E x : Minters = {x} BY <1>1
<1>3. Cardinality(Minters) = 0 \/ Cardinality(Minters) = 1
  <2> HIDE DEF Minters
  <2>1. QED BY <1>2, FS_EmptySet, FS_Singleton
<1>4. Cardinality(Minters) <= 1 BY <1>3
<1>5. QED BY <1>4 DEF CodeMintsOnce

\* The token endpoint, the revocation and the removal of a member: for any number of requests
\* that cross, fail or die, a code opens one connection, a revoked connection stays dead but
\* for what is being rolled back, and nobody is answered who came after the removal.
THEOREM AccessIsKept == TokenSpec => []AccessIsBounded
<1>1. TokenInv => ExMemberIsCutOff BY DEF TokenInv, LateGetsNothing, ExMemberIsCutOff
<1>2. TokenInv => AccessIsBounded BY <1>1, InvMintsOnce DEF TokenInv, RevokedKey, AccessIsBounded
<1>3. QED BY <1>2, TokenInvHolds, PTL

\* The refresh writes the new token before it revokes the old one: a client whose connection
\* nobody set out to end holds a live token or has the next one on its way, but for an answer
\* lost after the revocation and a first token that was never written.
THEOREM ClientIsKept == TokenSpec => []ClientKeepsAToken
<1>1. TokenInv => ClientKeepsAToken BY DEF TokenInv
<1>2. QED BY <1>1, TokenInvHolds, PTL

\* The rotation of refresh tokens keeps both promises: access ends where it was ended, and
\* a client that nobody cut off is not left without a token.
THEOREM TokensAreKept == TokenSpec => []TokensHold
<1>1. AccessIsBounded /\ ClientKeepsAToken => TokensHold BY DEF TokensHold
<1>2. QED BY <1>1, AccessIsKept, ClientIsKept, PTL

-----------------------------------------------------------------------------
(* OutboundBrakes.  The gate reads its time before it waits for the lock,   *)
(* so that events are stored out of the order of their times.  What an      *)
(* open transaction may ask for is still there (TimesInOrder, StillStored)  *)
(* and its look has no upper end, so that a window that gets an event late  *)
(* was looked at as a whole.  ChargedByStage and PauseIsKept tell what was  *)
(* charged and which pause is in force between the calls.                   *)

BrakesTypes ==
  /\ clock \in Nat
  /\ stage \in [Sends -> {"new", "asking", "held", "allowed", "noting", "sent", "failed"}]
  /\ begun \in [Sends -> Nat]
  /\ approved \in [Sends -> BOOLEAN]
  /\ brakeCounted \in [Sends -> BOOLEAN]
  /\ open \in [Sends -> BOOLEAN]
  /\ IsFiniteSet(tally) /\ \A e \in tally : e.at \in Nat
  /\ IsFiniteSet(reached) /\ \A e \in reached : e.at \in Nat
  /\ IsFiniteSet(refusals) /\ \A e \in refusals : e.at \in Nat
  /\ keptFrom \in Int
  /\ pauseUntil \in Nat
  /\ pausedTill \in Nat

MarkTypes ==
  /\ marked \in [Sends -> BOOLEAN] /\ misread \in [Sends -> BOOLEAN]
  /\ batch \in [Dispatchers -> [RowSends -> {"none", "plain", "counted"}]]

\* A transaction is never more than a tick behind the clock, and the purge deletes
\* nothing that one of them can still ask for.
TimesInOrder ==
  /\ \A s \in Sends : stage[s] \in {"asking", "noting"} => begun[s] <= clock /\ clock <= begun[s] + 1
  /\ keptFrom = -1 \/ keptFrom <= clock - 2 * DAY

\* What a row's charges are that were made without a batch older than its mark.
FreshOf(s) == {e \in ChargesOf(s) : ~e.misread}

\* Somebody has it that a row was counted: its attempt, the row itself or a batch.
KnownCounted(s) == brakeCounted[s] \/ marked[s] \/ \E w \in Dispatchers : batch[w][s] = "counted"

\* What has been charged at every stage of a send.  A row of whose charges nobody knows
\* has been put back by somebody who had not read its mark.
RowCharged(s) ==
  /\ stage[s] \in {"allowed", "noting"} => brakeCounted[s]
  /\ stage[s] = "new" /\ ~marked[s] /\ ~misread[s] => FreshOf(s) = {}
  /\ stage[s] = "asking" /\ ~brakeCounted[s] /\ ~misread[s] => FreshOf(s) = {}
  /\ Cardinality(FreshOf(s)) <= MessagesOf[s]
  /\ KnownCounted(s) /\ ~open[s] => Cardinality(ChargesOf(s)) >= MessagesOf[s]
ChargedAtStage(s) ==
  /\ s \in RowSends => RowCharged(s) /\ stage[s] # "held"
  /\ s \in ToolSends /\ ~approved[s] /\ stage[s] \in {"new", "asking"} => ChargesOf(s) = {}
  /\ stage[s] \in {"allowed", "noting", "sent"} /\ ~open[s]
       => Cardinality(ChargesOf(s)) >= MessagesOf[s]
  /\ s \in ToolSends /\ ~approved[s] => Cardinality(ChargesOf(s)) <= MessagesOf[s]
ChargedByStage == \A s \in Sends : ChargedAtStage(s)

\* The longest pause given is that of the table, or it ended before the purge could
\* have deleted it.
PauseIsKept ==
  /\ pauseUntil <= pausedTill
  /\ pausedTill = pauseUntil \/ pausedTill < clock - DAY

BrakesInv ==
  /\ BrakesTypes /\ MarkTypes
  /\ TimesInOrder
  /\ DailyCeiling
  /\ FanoutCeiling
  /\ ChargedByStage
  /\ RefusalsPause
  /\ PauseIsKept

\* The size of a union is at most the sum.
LEMMA UnionSize ==
  ASSUME NEW S, IsFiniteSet(S), NEW T, IsFiniteSet(T), NEW U, U \subseteq S \cup T
  PROVE  /\ IsFiniteSet(U) /\ Cardinality(U) \in Nat
         /\ Cardinality(S) \in Nat /\ Cardinality(T) \in Nat
         /\ Cardinality(U) <= Cardinality(S) + Cardinality(T)
<1>1. IsFiniteSet(S \cup T) /\ Cardinality(S \cup T) = Cardinality(S) + Cardinality(T) - Cardinality(S \cap T)
  BY FS_Union
<1>2. Cardinality(S \cap T) \in Nat /\ Cardinality(S) \in Nat BY Smaller
<1>3. Cardinality(T) \in Nat BY FS_CardinalityType
<1>4. IsFiniteSet(U) /\ Cardinality(U) \in Nat /\ Cardinality(U) <= Cardinality(S \cup T) BY <1>1, Smaller
<1>5. QED BY <1>1, <1>2, <1>3, <1>4

\* The messages of one send are as many as it counts.
LEMMA MessagesSize ==
  ASSUME BrakesTypes, NEW s \in Sends
  PROVE  /\ IsFiniteSet(Messages(s)) /\ Cardinality(Messages(s)) = MessagesOf[s]
         /\ \A m \in Messages(s) : m.send = s /\ m.at = begun[s] /\ m.misread = misread[s]
<1> DEFINE k == Cardinality(tally)
           f == [i \in 1 .. MessagesOf[s] |-> [nr |-> k + i, send |-> s, at |-> begun[s], misread |-> misread[s]]]
<1>1. k \in Nat /\ MessagesOf[s] \in Nat \ {0} BY FS_CardinalityType, SendsAssumption DEF BrakesTypes
<1>2. \A i, j \in 1 .. MessagesOf[s] : f[i] = f[j] => i = j
  <2> SUFFICES ASSUME NEW i \in 1 .. MessagesOf[s], NEW j \in 1 .. MessagesOf[s], f[i] = f[j] PROVE i = j
    OBVIOUS
  <2>1. f[i].nr = k + i /\ f[j].nr = k + j OBVIOUS
  <2>2. QED BY <1>1, <2>1
<1>3. f \in [1 .. MessagesOf[s] -> Messages(s)] BY DEF Messages
<1>4. \A m \in Messages(s) : \E i \in 1 .. MessagesOf[s] : f[i] = m BY DEF Messages
<1>5. f \in Bijection(1 .. MessagesOf[s], Messages(s))
  <2> HIDE DEF f
  <2>1. QED BY <1>2, <1>3, <1>4 DEF Bijection, Injection, Surjection, IsInjective
<1>6. IsFiniteSet(1 .. MessagesOf[s]) /\ Cardinality(1 .. MessagesOf[s]) = MessagesOf[s]
  <2> DEFINE n == MessagesOf[s]
  <2>1. 1 \in Int /\ n \in Int /\ ~(1 > n) /\ n - 1 + 1 = n BY <1>1
  <2> HIDE DEF n
  <2>2. IsFiniteSet(1 .. n) /\ Cardinality(1 .. n) = n BY <2>1, FS_Interval
  <2>3. QED BY <2>2 DEF n
<1>7. ExistsBijection(1 .. MessagesOf[s], Messages(s)) BY <1>5 DEF ExistsBijection
<1>8. IsFiniteSet(Messages(s)) /\ Cardinality(Messages(s)) = MessagesOf[s]
  BY <1>6, <1>7, FS_Bijection
<1>9. QED BY <1>8 DEF Messages

\* What a transaction may ask for is still there.
LEMMA StillStored ==
  ASSUME BrakesTypes, TimesInOrder, NEW s \in Sends, stage[s] \in {"asking", "noting"},
         NEW at \in Nat, at > begun[s] - DAY
  PROVE  at >= keptFrom
BY LimitsAssumption DEF BrakesTypes, TimesInOrder

(* Who writes what.                                                        *)

\* The gate counts a send.
CountsSend(s) ==
  /\ stage[s] = "asking" /\ Allows(s) /\ Counts(s)
  /\ tally' = tally \cup Messages(s)
  /\ reached' = reached \cup PeopleReached(s)
  /\ UNCHANGED <<begun, approved>>

\* Only the gate adds messages and people, in one step for a send that it allows.
LEMMA CountedByGate ==
  ASSUME [BrakesNext]_brakesVars
  PROVE  (UNCHANGED <<tally, reached>>) \/ \E s \in Sends : CountsSend(s)
<1> SUFFICES ASSUME ~UNCHANGED <<tally, reached>> PROVE \E s \in Sends : CountsSend(s)
  OBVIOUS
<1>1. PICK s \in Sends : SendStep(s)
  BY DEF BrakesNext, brakesVars, eventVars, SetFreeze, Purge, BrakesTick, FetchDue, LeaveRow
<1>2. stage[s] = "asking" /\ GateWrites(s) /\ AskStep
  BY <1>1 DEF SendStep, BeginAsk, LetThrough, TurnBack, HoldBack, FailOpen, CallerDies, ApproveHeld, Attempt,
     ProviderRefuses, NoteRefusal, NoteFails, RefusalWrites, eventVars
<1>3. CountsSend(s) BY <1>2 DEF GateWrites, AskStep, CountsSend
<1>4. QED BY <1>3

\* A message is counted at the time its transaction began.  The windows that end before
\* are not concerned; what the others hold was looked at, for the look has no upper end.
LEMMA DailyStep ==
  ASSUME BrakesTypes, TimesInOrder, DailyCeiling, [BrakesNext]_brakesVars
  PROVE  DailyCeiling'
<1>1. CASE UNCHANGED <<tally, reached>> BY <1>1 DEF DailyCeiling, Between
<1>2. ASSUME NEW s \in Sends, CountsSend(s) PROVE DailyCeiling'
  <2> DEFINE seen == {e \in Stored(tally) : Recent(e.at, begun[s], DAY)}
  <2>1. IsFiniteSet(Messages(s)) /\ Cardinality(Messages(s)) = MessagesOf[s]
        /\ \A m \in Messages(s) : m.send = s /\ m.at = begun[s]
    BY MessagesSize
  <2>2. tally' = tally \cup Messages(s) BY <1>2 DEF CountsSend
  <2>3. IsFiniteSet(seen) BY Smaller DEF BrakesTypes, Stored
  <2>4. Cardinality(seen) + MessagesOf[s] <= DAILY_SEND_LIMIT
    <3>1. Cardinality(seen) \in Nat /\ MessagesOf[s] \in Nat
      BY <2>3, FS_CardinalityType, SendsAssumption
    <3>2. ~(Cardinality(seen) + MessagesOf[s] > DAILY_SEND_LIMIT)
      BY <1>2 DEF CountsSend, Allows, Refuses, OverLimit, CountedSince
    <3>3. QED BY <3>1, <3>2, LimitsAssumption
  <2>5. ASSUME NEW e \in tally' PROVE Cardinality(Between(tally', e.at, DAY)) <= DAILY_SEND_LIMIT
    <3>1. e.at \in Nat /\ begun[s] \in Nat BY <2>1, <2>2 DEF BrakesTypes
    <3>2. CASE e.at < begun[s]
      <4>1. e \in tally BY <2>1, <2>2, <3>1, <3>2
      <4>2. Between(tally', e.at, DAY) = Between(tally, e.at, DAY)
        BY <2>1, <2>2, <3>1, <3>2 DEF Between
      <4>3. QED BY <4>1, <4>2 DEF DailyCeiling
    <3>3. CASE e.at >= begun[s]
      <4>1. Between(tally', e.at, DAY) \subseteq seen \cup Messages(s)
        <5> SUFFICES ASSUME NEW d \in tally, d.at > e.at - DAY PROVE d \in seen
          BY <2>2 DEF Between
        <5>1. d.at \in Nat BY DEF BrakesTypes
        <5>2. d.at > begun[s] - DAY BY <3>1, <3>3, <5>1, LimitsAssumption
        <5>3. d.at >= keptFrom BY <1>2, <5>1, <5>2, StillStored DEF CountsSend
        <5>4. QED BY <5>2, <5>3 DEF Stored, Recent
      <4>2. Cardinality(Between(tally', e.at, DAY)) \in Nat
            /\ Cardinality(seen) \in Nat /\ Cardinality(Messages(s)) \in Nat
            /\ Cardinality(Between(tally', e.at, DAY)) <= Cardinality(seen) + Cardinality(Messages(s))
        <5> HIDE DEF seen
        <5>1. QED BY <2>1, <2>3, <4>1, UnionSize
      <4>3. QED BY <2>1, <2>4, <4>2, LimitsAssumption
    <3>4. QED BY <3>1, <3>2, <3>3
  <2>6. QED BY <2>5 DEF DailyCeiling
<1>3. QED BY <1>1, <1>2, CountedByGate

\* What is asked of a content without a person's decision.
UnaskedPeople(c, at) == {d.to : d \in Between(Unasked(c), at, HOUR)}

\* The people a content has reached within the hour before a time are finitely many.
LEMMA PeopleFinite ==
  ASSUME BrakesTypes, NEW c, NEW time
  PROVE  IsFiniteSet(ReachedBy(c, time))
<1> DEFINE seen == {d \in Stored(reached) : d.content = c /\ Recent(d.at, time, HOUR)}
           f == [e \in seen |-> e.to]
<1>1. IsFiniteSet(seen) BY Smaller DEF BrakesTypes, Stored
<1>2. f \in Surjection(seen, ReachedBy(c, time))
  <2>1. f \in [seen -> ReachedBy(c, time)] BY DEF ReachedBy
  <2>2. \A r \in ReachedBy(c, time) : \E e \in seen : f[e] = r BY DEF ReachedBy
  <2> HIDE DEF f, seen
  <2>3. QED BY <2>1, <2>2 DEF Surjection
<1>3. QED
  <2> HIDE DEF f, seen
  <2>1. QED BY <1>1, <1>2, FS_Surjection

\* The same for the people one content reaches, when nobody decided it.
LEMMA FanoutStep ==
  ASSUME BrakesTypes, TimesInOrder, FanoutCeiling, [BrakesNext]_brakesVars
  PROVE  FanoutCeiling'
<1>1. CASE UNCHANGED <<tally, reached>> BY <1>1 DEF FanoutCeiling, Between, Unasked
<1>2. ASSUME NEW s \in Sends, CountsSend(s) PROVE FanoutCeiling'
  <2> DEFINE c == ContentOf[s]
             known == ReachedBy(c, begun[s])
  <2>1. reached' = reached \cup PeopleReached(s) BY <1>2 DEF CountsSend
  <2>2. \A m \in PeopleReached(s) :
          /\ m.content = c /\ m.at = begun[s] /\ m.human = approved[s] /\ m.to \in RecipientsOf[s]
          /\ FansOut(s)
    BY DEF PeopleReached
  <2>3. begun[s] \in Nat /\ approved[s] \in BOOLEAN BY DEF BrakesTypes
  <2>4. ASSUME NEW e \in reached', ~e.human
        PROVE  Cardinality(UnaskedPeople(e.content, e.at)') <= FANOUT_LIMIT
    <3>1. e.at \in Nat BY <2>1, <2>2, <2>3 DEF BrakesTypes
    <3>2. CASE e.content # c \/ e.at < begun[s] \/ PeopleReached(s) = {} \/ approved[s]
      <4>1. e \in reached BY <2>1, <2>2, <2>3, <2>4, <3>1, <3>2
      <4>2. Between(Unasked(e.content)', e.at, HOUR) = Between(Unasked(e.content), e.at, HOUR)
        BY <2>1, <2>2, <2>3, <3>1, <3>2 DEF Between, Unasked
      <4>3. QED BY <2>4, <4>1, <4>2 DEF FanoutCeiling, UnaskedPeople
    <3>3. CASE e.content = c /\ e.at >= begun[s] /\ PeopleReached(s) # {} /\ ~approved[s]
      <4>1. FansOut(s) BY <2>2, <3>3
      <4>2. IsFiniteSet(known \cup RecipientsOf[s])
        BY PeopleFinite, SendsAssumption, FS_Union
      <4>3. Cardinality(known \cup RecipientsOf[s]) <= FANOUT_LIMIT
        <5>1. ~(Cardinality(known \cup RecipientsOf[s]) > FANOUT_LIMIT)
          BY <1>2, <3>3, <4>1 DEF CountsSend, Allows, Holds, TooManyReached
        <5>2. Cardinality(known \cup RecipientsOf[s]) \in Nat BY <4>2, FS_CardinalityType
        <5>3. QED BY <5>1, <5>2, LimitsAssumption
      <4>4. UnaskedPeople(e.content, e.at)' \subseteq known \cup RecipientsOf[s]
        <5> SUFFICES ASSUME NEW d \in reached', d.content = c, d.at > e.at - HOUR
                     PROVE  d.to \in known \cup RecipientsOf[s]
          BY <3>3 DEF UnaskedPeople, Between, Unasked
        <5>1. CASE d \in PeopleReached(s) BY <2>2, <5>1
        <5>2. CASE d \in reached
          <6>1. d.at \in Nat BY <5>2 DEF BrakesTypes
          <6>2. d.at > begun[s] - HOUR /\ d.at > begun[s] - DAY
            BY <2>3, <3>1, <3>3, <6>1, LimitsAssumption
          <6>3. d.at >= keptFrom BY <1>2, <6>1, <6>2, StillStored DEF CountsSend
          <6>4. QED BY <5>2, <6>2, <6>3 DEF ReachedBy, Stored, Recent
        <5>3. QED BY <2>1, <5>1, <5>2
      <4>5. QED BY <4>2, <4>3, <4>4, Smaller, LimitsAssumption
    <3>4. QED BY <2>3, <3>1, <3>2, <3>3
  <2>5. QED BY <2>4 DEF FanoutCeiling, UnaskedPeople
<1>3. QED BY <1>1, <1>2, CountedByGate

(* Types and times.                                                        *)

\* A table that gets a finite number of events, each of a time, stays one of such.
LEMMA TypesStep ==
  ASSUME BrakesTypes, [BrakesNext]_brakesVars
  PROVE  BrakesTypes'
<1>1. CASE UNCHANGED brakesVars BY <1>1 DEF BrakesTypes, brakesVars, eventVars, brakeVars, markVars
<1>2. ASSUME NEW s \in Sends, GateWrites(s)
      PROVE  /\ IsFiniteSet(tally') /\ \A e \in tally' : e.at \in Nat
             /\ IsFiniteSet(reached') /\ \A e \in reached' : e.at \in Nat
             /\ UNCHANGED <<refusals, keptFrom, pauseUntil, pausedTill>>
  <2>1. IsFiniteSet(Messages(s)) /\ \A m \in Messages(s) : m.at = begun[s] BY MessagesSize
  <2>2. IsFiniteSet(PeopleReached(s)) /\ \A m \in PeopleReached(s) : m.at = begun[s]
    <3> DEFINE f == [r \in RecipientsOf[s] |->
                       [content |-> ContentOf[s], to |-> r, at |-> begun[s], human |-> approved[s]]]
    <3>1. CASE FansOut(s)
      <4>1. f \in [RecipientsOf[s] -> PeopleReached(s)]
            /\ \A m \in PeopleReached(s) : \E r \in RecipientsOf[s] : f[r] = m
        BY <3>1 DEF PeopleReached
      <4>2. IsFiniteSet(RecipientsOf[s]) BY SendsAssumption
      <4>3. IsFiniteSet(PeopleReached(s))
        <5> HIDE DEF f
        <5>1. f \in Surjection(RecipientsOf[s], PeopleReached(s)) BY <4>1 DEF Surjection
        <5>2. QED BY <4>2, <5>1, FS_Surjection
      <4>4. QED BY <4>3 DEF PeopleReached
    <3>2. CASE ~FansOut(s) BY <3>2, FS_EmptySet DEF PeopleReached
    <3>3. QED BY <3>1, <3>2
  <2>3. begun[s] \in Nat BY DEF BrakesTypes
  <2>4. IsFiniteSet(tally \cup Messages(s)) /\ IsFiniteSet(reached \cup PeopleReached(s))
    BY <2>1, <2>2, FS_Union DEF BrakesTypes
  <2>5. QED BY <1>2, <2>1, <2>2, <2>3, <2>4 DEF GateWrites, TripHold, BrakesTypes
<1>3. ASSUME NEW s \in Sends, RefusalWrites(s)
      PROVE  /\ IsFiniteSet(refusals') /\ \A e \in refusals' : e.at \in Nat
             /\ pauseUntil' \in Nat /\ pausedTill' \in Nat
             /\ UNCHANGED <<tally, reached, keptFrom>>
  <2>1. IsFiniteSet(refusals') BY <1>3, FS_AddElement DEF RefusalWrites, BrakesTypes
  <2>2. QED BY <1>3, <2>1, LimitsAssumption DEF RefusalWrites, BrakesTypes
<1>4. ASSUME NEW s \in Sends, AfterRefusal(s)
      PROVE  stage' \in [Sends -> {"new", "asking", "held", "allowed", "noting", "sent", "failed"}]
             /\ begun' \in [Sends -> Nat] /\ UNCHANGED <<clock, approved, brakeCounted, open>>
  BY <1>4 DEF AfterRefusal, GoesTo, ProviderStep, BrakesTypes
<1>5. ASSUME NEW s \in Sends, SendStep(s) PROVE BrakesTypes'
  <2>1. CASE BeginAsk(s)
    <3>1. brakeCounted' \in [Sends -> BOOLEAN]
      BY <2>1 DEF BeginAsk, ClaimRow, BrakesTypes
    <3>2. QED BY <2>1, <3>1 DEF BeginAsk, GoesTo, BrakesTypes, eventVars, brakeVars
  <2>2. CASE LetThrough(s) BY <1>2, <2>2 DEF LetThrough, GoesTo, AskStep, BrakesTypes
  <2>3. CASE TurnBack(s) BY <1>2, <2>3 DEF TurnBack, GoesTo, AskStep, BrakesTypes
  <2>4. CASE HoldBack(s) BY <1>2, <2>4 DEF HoldBack, GoesTo, AskStep, BrakesTypes
  <2>5. CASE FailOpen(s)
    BY <1>2, <2>5 DEF FailOpen, GoesTo, AskStep, BrakesTypes, eventVars, brakeVars
  <2>6. CASE ApproveHeld(s) BY <2>6 DEF ApproveHeld, GoesTo, BrakesTypes, eventVars, brakeVars
  <2>7. CASE Attempt(s) BY <2>7 DEF Attempt, GoesTo, ProviderStep, BrakesTypes, eventVars, brakeVars
  <2>8. CASE ProviderRefuses(s)
    BY <2>8 DEF ProviderRefuses, GoesTo, ProviderStep, BrakesTypes, eventVars, brakeVars
  <2>9. CASE NoteRefusal(s) BY <1>3, <1>4, <2>9 DEF NoteRefusal, BrakesTypes
  <2>10. CASE NoteFails(s) BY <1>4, <2>10 DEF NoteFails, BrakesTypes, eventVars, brakeVars
  <2>11. CASE CallerDies(s)
    BY <1>2, <2>11 DEF CallerDies, GoesTo, AskStep, BrakesTypes, eventVars, brakeVars
  <2>12. QED BY <1>5, <2>1, <2>2, <2>3, <2>4, <2>5, <2>6, <2>7, <2>8, <2>9, <2>10, <2>11 DEF SendStep
<1>6. CASE SetFreeze BY <1>6 DEF SetFreeze, BrakesTypes, eventVars, brakeVars, markVars
<1>7. CASE Purge BY <1>7, LimitsAssumption DEF Purge, PurgeBefore, BrakesTypes, markVars
<1>8. CASE BrakesTick BY <1>8 DEF BrakesTick, BrakesTypes, eventVars, brakeVars, markVars
<1>9. CASE \E w \in Dispatchers : FetchDue(w) \/ \E s \in RowSends : LeaveRow(w, s)
  BY <1>9 DEF FetchDue, LeaveRow, BrakesTypes, eventVars, brakeVars
<1>10. QED BY <1>1, <1>5, <1>6, <1>7, <1>8, <1>9 DEF BrakesNext

\* The marks and the batches keep theirs.
LEMMA MarkTypesStep ==
  ASSUME BrakesTypes, MarkTypes, [BrakesNext]_brakesVars
  PROVE  MarkTypes'
<1>1. CASE UNCHANGED markVars BY <1>1 DEF MarkTypes, markVars
<1>2. \A where : \A s \in Sends : GoesTo(s, where) => marked' \in [Sends -> BOOLEAN]
  BY DEF GoesTo, MarkTypes, BrakesTypes
<1>3. ASSUME NEW s \in Sends, GateWrites(s) PROVE misread' \in [Sends -> BOOLEAN]
  BY <1>3 DEF GateWrites, MarkTypes
<1>4. ASSUME NEW s \in Sends, SendStep(s) PROVE MarkTypes'
  <2>1. marked' \in [Sends -> BOOLEAN]
    BY <1>2, <1>4 DEF SendStep, BeginAsk, LetThrough, TurnBack, HoldBack, FailOpen, CallerDies, ApproveHeld,
       Attempt, ProviderRefuses, NoteRefusal, NoteFails, AfterRefusal, MarkTypes
  <2>2. CASE BeginAsk(s)
    <3>1. CASE UNCHANGED <<batch, misread>> BY <2>1, <3>1 DEF MarkTypes
    <3>2. CASE s \in RowSends /\ \E w \in Dispatchers : ClaimRow(w, s)
      BY <2>1, <3>2 DEF ClaimRow, MarkTypes
    <3>3. QED BY <2>2, <3>1, <3>2 DEF BeginAsk
  <2>3. CASE ~BeginAsk(s)
    <3>1. batch' = batch
      BY <1>4, <2>3 DEF SendStep, LetThrough, TurnBack, HoldBack, FailOpen, CallerDies, ApproveHeld, Attempt,
         ProviderRefuses, NoteRefusal, NoteFails, AskStep, ProviderStep, AfterRefusal
    <3>2. GateWrites(s) \/ misread' = misread
      BY <1>4, <2>3 DEF SendStep, LetThrough, TurnBack, HoldBack, FailOpen, CallerDies, ApproveHeld, Attempt,
         ProviderRefuses, NoteRefusal, NoteFails, AskStep, ProviderStep, AfterRefusal
    <3>3. QED BY <1>3, <2>1, <3>1, <3>2 DEF MarkTypes
  <2>4. QED BY <2>2, <2>3
<1>5. ASSUME NEW w \in Dispatchers, FetchDue(w) \/ \E s \in RowSends : LeaveRow(w, s) PROVE MarkTypes'
  BY <1>5 DEF FetchDue, LeaveRow, MarkTypes
<1>6. QED BY <1>1, <1>4, <1>5 DEF BrakesNext, brakesVars, SetFreeze, Purge, BrakesTick

\* A transaction begins at the clock's time, and the clock waits for it before it moves on.
LEMMA TimesStep ==
  ASSUME BrakesTypes, TimesInOrder, [BrakesNext]_brakesVars
  PROVE  TimesInOrder'
<1> USE DEF BrakesTypes
<1>1. CASE UNCHANGED brakesVars BY <1>1 DEF TimesInOrder, brakesVars, eventVars
<1>2. ASSUME NEW s \in Sends, SendStep(s) PROVE TimesInOrder'
  <2>1. clock' = clock /\ keptFrom' = keptFrom
    BY <1>2 DEF SendStep, BeginAsk, LetThrough, TurnBack, HoldBack, FailOpen, CallerDies, ApproveHeld, Attempt,
       ProviderRefuses, NoteRefusal, NoteFails, AskStep, ProviderStep, AfterRefusal, GateWrites,
       RefusalWrites, eventVars
  <2>2. \A r \in Sends \ {s} : stage'[r] = stage[r] /\ begun'[r] = begun[r]
    BY <1>2 DEF SendStep, BeginAsk, LetThrough, TurnBack, HoldBack, FailOpen, CallerDies, ApproveHeld, Attempt,
       ProviderRefuses, NoteRefusal, NoteFails, AskStep, AfterRefusal, GoesTo
  <2>3. \/ stage'[s] \notin {"asking", "noting"}
        \/ begun'[s] = clock
        \/ stage[s] \in {"asking", "noting"} /\ begun'[s] = begun[s]
    BY <1>2 DEF SendStep, BeginAsk, LetThrough, TurnBack, HoldBack, FailOpen, CallerDies, ApproveHeld, Attempt,
       ProviderRefuses, NoteRefusal, NoteFails, AskStep, AfterRefusal, GoesTo
  <2>4. QED BY <2>1, <2>2, <2>3 DEF TimesInOrder
<1>3. CASE SetFreeze BY <1>3 DEF SetFreeze, TimesInOrder, eventVars
<1>4. CASE Purge BY <1>4 DEF Purge, PurgeBefore, TimesInOrder
<1>5. CASE BrakesTick BY <1>5, LimitsAssumption DEF BrakesTick, TimesInOrder, eventVars
<1>6. CASE \E w \in Dispatchers : FetchDue(w) \/ \E s \in RowSends : LeaveRow(w, s)
  BY <1>6 DEF FetchDue, LeaveRow, TimesInOrder, eventVars
<1>7. QED BY <1>1, <1>2, <1>3, <1>4, <1>5, <1>6 DEF BrakesNext

(* Charges.                                                                *)

\* A step of one send changes the charges of no other, and its own only when the gate
\* counts it.
LEMMA ChargesStep ==
  ASSUME BrakesTypes, MarkTypes, ChargedByStage, NEW s \in Sends, stage[s] = "asking", GateWrites(s), AskStep
  PROVE  /\ \A r \in Sends \ {s} : ChargesOf(r)' = ChargesOf(r) /\ misread'[r] = misread[r]
         /\ ~Counts(s) \/ ~Allows(s) => ChargesOf(s)' = ChargesOf(s) /\ misread' = misread
         /\ Counts(s) /\ Allows(s) => Cardinality(ChargesOf(s)') >= MessagesOf[s]
         /\ s \in RowSends => Cardinality(FreshOf(s)') <= MessagesOf[s]
         /\ s \in ToolSends /\ ~approved[s] => Cardinality(ChargesOf(s)') <= MessagesOf[s]
<1>1. IsFiniteSet(Messages(s)) /\ Cardinality(Messages(s)) = MessagesOf[s]
      /\ \A m \in Messages(s) : m.send = s /\ m.misread = misread[s]
  BY MessagesSize
<1>2. IsFiniteSet(ChargesOf(s)) BY Smaller DEF ChargesOf, BrakesTypes
<1>0. ChargedAtStage(s) /\ MessagesOf[s] \in Nat /\ misread[s] \in BOOLEAN
  BY SendsAssumption DEF ChargedByStage, MarkTypes
<1>3. CASE ~Counts(s) \/ ~Allows(s)
  <2>1. tally' = tally /\ misread' = misread BY <1>3 DEF GateWrites
  <2>2. \A r : ChargesOf(r)' = ChargesOf(r) BY <2>1 DEF ChargesOf
  <2>3. FreshOf(s)' = FreshOf(s) BY <2>2 DEF FreshOf
  <2>4. QED BY <1>0, <1>3, <2>1, <2>2, <2>3 DEF ChargedAtStage, RowCharged
<1>4. CASE Counts(s) /\ Allows(s)
  <2>1. tally' = tally \cup Messages(s) /\ misread' = [misread EXCEPT ![s] = FALSE] BY <1>4 DEF GateWrites
  <2>2. \A r \in Sends \ {s} : ChargesOf(r)' = ChargesOf(r) /\ misread'[r] = misread[r]
    BY <1>1, <2>1 DEF ChargesOf, MarkTypes
  <2>3. ChargesOf(s)' = ChargesOf(s) \cup Messages(s) BY <1>1, <2>1 DEF ChargesOf
  <2>4. IsFiniteSet(ChargesOf(s)') BY <1>1, <1>2, <2>3, FS_Union
  <2>5. Cardinality(ChargesOf(s)') >= MessagesOf[s]
    <3>1. Cardinality(Messages(s)) <= Cardinality(ChargesOf(s)') /\ Cardinality(Messages(s)) \in Nat
          /\ Cardinality(ChargesOf(s)') \in Nat
      BY <2>3, <2>4, Smaller
    <3>2. QED BY <1>1, <3>1
  <2>6. ASSUME s \in RowSends PROVE Cardinality(FreshOf(s)') <= MessagesOf[s]
    <3>1. ~brakeCounted[s] BY <1>4, <2>6, SendsAssumption DEF Counts
    <3>2. CASE misread[s]
      <4>1. FreshOf(s)' = FreshOf(s) BY <1>1, <2>3, <3>2 DEF FreshOf
      <4>2. QED BY <1>0, <2>6, <4>1 DEF ChargedAtStage, RowCharged
    <3>3. CASE ~misread[s]
      <4>1. FreshOf(s) = {} BY <1>0, <2>6, <3>1, <3>3 DEF ChargedAtStage, RowCharged
      <4>2. FreshOf(s)' \subseteq FreshOf(s) \cup Messages(s) BY <2>3 DEF FreshOf
      <4>3. FreshOf(s)' \subseteq Messages(s) BY <4>1, <4>2
      <4>4. Cardinality(FreshOf(s)') <= Cardinality(Messages(s)) BY <1>1, <4>3, Smaller
      <4>5. QED BY <1>1, <4>4
    <3>4. QED BY <3>2, <3>3
  <2>7. ASSUME s \in ToolSends /\ ~approved[s] PROVE Cardinality(ChargesOf(s)') <= MessagesOf[s]
    <3>1. ChargesOf(s) = {} BY <1>0, <2>7 DEF ChargedAtStage
    <3>2. ChargesOf(s)' = Messages(s) BY <2>3, <3>1
    <3>3. QED BY <1>0, <1>1, <3>2
  <2>8. QED BY <1>4, <2>2, <2>5, <2>6, <2>7
<1>5. QED BY <1>3, <1>4

\* A batch learns of a charge from the row, and an attempt from a batch.
LEMMA KnownStep ==
  ASSUME BrakesTypes, MarkTypes, [BrakesNext]_brakesVars, NEW r \in RowSends, KnownCounted(r)'
  PROVE  \/ KnownCounted(r)
         \/ LetThrough(r) \/ FailOpen(r)
<1>0. r \in Sends BY DEF Sends
<1>1. CASE UNCHANGED markVars BY <1>1 DEF markVars, KnownCounted
<1>2. ASSUME NEW w \in Dispatchers, FetchDue(w) \/ \E s \in RowSends : LeaveRow(w, s) PROVE KnownCounted(r)
  <2>1. UNCHANGED <<marked, brakeCounted>> BY <1>2 DEF FetchDue, LeaveRow
  <2>2. \A v \in Dispatchers : batch'[v][r] = "counted" => batch[v][r] = "counted" \/ marked[r]
    BY <1>2 DEF FetchDue, LeaveRow, MarkTypes
  <2>3. QED BY <2>1, <2>2 DEF KnownCounted
<1>3. ASSUME NEW s \in Sends, SendStep(s), ~LetThrough(r), ~FailOpen(r) PROVE KnownCounted(r)
  <2>1. \A where : GoesTo(s, where) => marked'[r] = marked[r] \/ marked'[r] = brakeCounted[r]
    BY <1>0 DEF GoesTo, MarkTypes
  <2>2. marked'[r] = marked[r] \/ marked'[r] = brakeCounted[r]
    BY <1>3, <2>1 DEF SendStep, BeginAsk, LetThrough, TurnBack, HoldBack, FailOpen, CallerDies, ApproveHeld,
       Attempt, ProviderRefuses, NoteRefusal, NoteFails, AfterRefusal
  <2>3. CASE BeginAsk(s)
    <3>1. CASE UNCHANGED <<batch, brakeCounted>> BY <2>2, <3>1 DEF KnownCounted
    <3>2. ASSUME s \in RowSends, NEW w \in Dispatchers, ClaimRow(w, s) PROVE KnownCounted(r)
      <4>1. \A v \in Dispatchers : batch'[v][r] = "counted" => batch[v][r] = "counted"
        BY <3>2 DEF ClaimRow, MarkTypes
      <4>2. brakeCounted'[r] = brakeCounted[r] \/ (s = r /\ brakeCounted'[r] = (batch[w][r] = "counted"))
        BY <1>0, <3>2 DEF ClaimRow, BrakesTypes
      <4>3. QED BY <2>2, <3>2, <4>1, <4>2 DEF KnownCounted
    <3>3. QED BY <2>3, <3>1, <3>2 DEF BeginAsk
  <2>4. CASE ~BeginAsk(s)
    <3>1. batch' = batch /\ brakeCounted'[r] = brakeCounted[r]
      BY <1>0, <1>3, <2>4 DEF SendStep, LetThrough, TurnBack, HoldBack, FailOpen, CallerDies, ApproveHeld, Attempt,
         ProviderRefuses, NoteRefusal, NoteFails, AskStep, ProviderStep, AfterRefusal, BrakesTypes
    <3>2. QED BY <2>2, <3>1 DEF KnownCounted
  <2>5. QED BY <2>3, <2>4
<1>4. QED BY <1>1, <1>2, <1>3 DEF BrakesNext, brakesVars, SetFreeze, Purge, BrakesTick

\* What stays of a send's charges when neither they nor what is known of them grow.
LEMMA StaysCharged ==
  ASSUME NEW s \in Sends, ChargedAtStage(s), ChargesOf(s)' = ChargesOf(s),
         stage'[s] = stage[s], approved'[s] = approved[s], open'[s] = open[s], misread'[s] = misread[s],
         s \in RowSends => (KnownCounted(s)' => KnownCounted(s)),
         s \in RowSends => marked'[s] = marked[s] /\ brakeCounted'[s] = brakeCounted[s]
  PROVE  ChargedAtStage(s)'
<1>1. FreshOf(s)' = FreshOf(s) BY DEF FreshOf
<1>2. QED BY <1>1 DEF ChargedAtStage, RowCharged

\* A send that goes on without being charged.
LEMMA GoesOnCharged ==
  ASSUME BrakesTypes, MarkTypes, [BrakesNext]_brakesVars, NEW s \in Sends, ChargedAtStage(s),
         ChargesOf(s)' = ChargesOf(s), approved'[s] = approved[s], open'[s] = open[s],
         misread'[s] = misread[s], brakeCounted'[s] = brakeCounted[s], ~LetThrough(s), ~FailOpen(s),
         NEW where \in {"new", "noting", "sent", "failed"}, GoesTo(s, where),
         where \in {"noting", "sent"} => stage[s] \in {"allowed", "noting"},
         stage[s] \in {"asking", "allowed", "noting"}, where = "new" /\ ~approved[s] => s \in RowSends \/ stage[s] = "asking"
  PROVE  ChargedAtStage(s)'
<1>1. FreshOf(s)' = FreshOf(s) BY DEF FreshOf
<1>2. stage'[s] = where /\ (where = "new" => marked'[s] = brakeCounted[s]) BY DEF GoesTo, BrakesTypes, MarkTypes
<1>3. s \in RowSends => (KnownCounted(s)' => KnownCounted(s)) BY KnownStep
<1>4. s \in RowSends => RowCharged(s)' BY <1>1, <1>2, <1>3 DEF RowCharged, ChargedAtStage
<1>5. QED BY <1>2, <1>4, SendsAssumption DEF ChargedAtStage

\* What was charged at a stage stays right when the send moves on.
LEMMA ChargedStep ==
  ASSUME BrakesTypes, MarkTypes, ChargedByStage, [BrakesNext]_brakesVars
  PROVE  ChargedByStage'
<1>0. \A r \in Sends : ChargedAtStage(r) BY DEF ChargedByStage
<1>a. UNCHANGED tally => \A r \in Sends : ChargesOf(r)' = ChargesOf(r) BY DEF ChargesOf
<1>b. RowSends \subseteq Sends BY DEF Sends
<1>1. CASE UNCHANGED <<tally, stage, approved, open, markVars>>
  BY <1>0, <1>1, <1>a, StaysCharged DEF ChargedByStage, markVars, KnownCounted
<1>2. ASSUME NEW w \in Dispatchers, FetchDue(w) \/ \E s \in RowSends : LeaveRow(w, s) PROVE ChargedByStage'
  <2>1. UNCHANGED <<tally, stage, approved, open, misread, marked, brakeCounted>>
    BY <1>2 DEF FetchDue, LeaveRow, eventVars
  <2>2. \A r \in RowSends : ~LetThrough(r) /\ ~FailOpen(r)
    BY <1>b, <1>2 DEF FetchDue, LeaveRow, LetThrough, FailOpen, GoesTo, BrakesTypes
  <2>3. \A r \in RowSends : KnownCounted(r)' => KnownCounted(r) BY <2>2, KnownStep
  <2>4. QED BY <1>0, <1>a, <2>1, <2>3, StaysCharged DEF ChargedByStage
<1>3. ASSUME NEW s \in Sends, SendStep(s) PROVE ChargedByStage'
  <2>1. ASSUME NEW r \in Sends \ {s}
        PROVE  /\ stage'[r] = stage[r] /\ approved'[r] = approved[r] /\ open'[r] = open[r]
               /\ brakeCounted'[r] = brakeCounted[r] /\ marked'[r] = marked[r]
    BY <1>3 DEF SendStep, BeginAsk, ClaimRow, LetThrough, TurnBack, HoldBack, FailOpen, CallerDies, ApproveHeld,
       Attempt, ProviderRefuses, NoteRefusal, NoteFails, AskStep, ProviderStep, AfterRefusal, GoesTo, BrakesTypes,
       MarkTypes
  <2>2. ASSUME NEW r \in Sends \ {s} PROVE ChargesOf(r)' = ChargesOf(r) /\ misread'[r] = misread[r]
    <3>1. CASE stage[s] = "asking" /\ GateWrites(s) /\ AskStep BY <3>1, ChargesStep
    <3>2. CASE UNCHANGED <<tally, misread>> BY <1>a, <3>2
    <3>3. CASE BeginAsk(s) BY <1>a, <3>3 DEF BeginAsk, ClaimRow, eventVars, MarkTypes
    <3>4. QED BY <1>3, <3>1, <3>2, <3>3
      DEF SendStep, LetThrough, TurnBack, HoldBack, FailOpen, CallerDies, ApproveHeld, Attempt,
          ProviderRefuses, NoteRefusal, NoteFails, ProviderStep, AfterRefusal, eventVars, RefusalWrites
  <2>3. ASSUME NEW r \in Sends \ {s} PROVE ChargedAtStage(r)'
    <3>1. ~LetThrough(r) /\ ~FailOpen(r)
      BY <2>1 DEF LetThrough, FailOpen, GoesTo, BrakesTypes
    <3>2. r \in RowSends => (KnownCounted(r)' => KnownCounted(r)) BY <3>1, KnownStep
    <3>3. QED BY <1>0, <2>1, <2>2, <3>2, StaysCharged
  <2>4. SUFFICES ChargedAtStage(s)' BY <2>3 DEF ChargedByStage
  <2>5. CASE BeginAsk(s)
    <3>1. /\ stage[s] = "new" /\ stage'[s] = "asking" /\ UNCHANGED <<approved, open, tally, marked>>
          /\ ~LetThrough(s) /\ ~FailOpen(s)
      BY <2>5 DEF BeginAsk, GoesTo, BrakesTypes, eventVars, LetThrough, FailOpen
    <3>2. FreshOf(s)' = FreshOf(s) /\ ChargesOf(s)' = ChargesOf(s) BY <1>a, <3>1 DEF FreshOf
    <3>3. s \in RowSends => (KnownCounted(s)' => KnownCounted(s)) BY <3>1, KnownStep
    <3>4. ASSUME s \in RowSends, ~brakeCounted'[s], ~misread'[s] PROVE ~marked[s] /\ ~misread[s]
      <4>1. PICK w \in Dispatchers : ClaimRow(w, s) BY <2>5, <3>4, SendsAssumption DEF BeginAsk
      <4>2. batch[w][s] = "plain" BY <3>4, <4>1 DEF ClaimRow, MarkTypes, BrakesTypes
      <4>3. QED BY <3>4, <4>1, <4>2 DEF ClaimRow, MarkTypes
    <3>5. s \in RowSends => RowCharged(s)'
      BY <1>0, <3>1, <3>2, <3>3, <3>4 DEF ChargedAtStage, RowCharged
    <3>6. QED BY <1>0, <3>1, <3>2, <3>5 DEF ChargedAtStage
  <2>6. CASE LetThrough(s) \/ FailOpen(s)
    <3>1. stage'[s] = "allowed" /\ (brakeCounted'[s] <=> s \in RowSends) /\ approved' = approved
          /\ stage[s] = "asking" /\ (open[s] => open'[s])
      BY <2>6 DEF LetThrough, FailOpen, GoesTo, AskStep, BrakesTypes
    <3>2. ASSUME GateWrites(s) PROVE ChargedAtStage(s)'
      <4>1. AskStep BY <2>6 DEF LetThrough, FailOpen
      <4>2. ~open'[s] => Allows(s) /\ ~open[s] BY <2>6, <3>1 DEF LetThrough, FailOpen, BrakesTypes
      <4>3. ~Counts(s) => s \in RowSends /\ brakeCounted[s] BY DEF Counts, Sends
      <4>4. ~open'[s] => Cardinality(ChargesOf(s)') >= MessagesOf[s]
        BY <1>0, <3>1, <3>2, <4>1, <4>2, <4>3, ChargesStep DEF ChargedAtStage, RowCharged, KnownCounted
      <4>5. s \in RowSends => RowCharged(s)' BY <3>1, <3>2, <4>1, <4>4, ChargesStep DEF RowCharged
      <4>6. QED BY <3>1, <3>2, <4>1, <4>4, <4>5, ChargesStep DEF ChargedAtStage
    <3>3. ASSUME UNCHANGED <<tally, misread>>, FailOpen(s) PROVE ChargedAtStage(s)'
      <4>1. open'[s] BY <3>3 DEF FailOpen, BrakesTypes
      <4>2. FreshOf(s)' = FreshOf(s) /\ ChargesOf(s)' = ChargesOf(s) BY <1>a, <3>3 DEF FreshOf
      <4>3. s \in RowSends => RowCharged(s)' BY <1>0, <3>1, <4>1, <4>2 DEF ChargedAtStage, RowCharged
      <4>4. QED BY <1>0, <3>1, <4>1, <4>2, <4>3 DEF ChargedAtStage
    <3>4. QED BY <2>6, <3>2, <3>3 DEF LetThrough, FailOpen, eventVars
  <2>7. CASE TurnBack(s)
    <3>1. UNCHANGED <<tally, misread>> BY <2>7 DEF TurnBack, GateWrites, Allows
    <3>2. stage[s] = "asking" /\ GoesTo(s, "new") /\ UNCHANGED <<approved, open, brakeCounted>>
      BY <2>7 DEF TurnBack, AskStep
    <3>3. ~LetThrough(s) /\ ~FailOpen(s) BY <2>7 DEF TurnBack, GoesTo, LetThrough, FailOpen, BrakesTypes
    <3>4. QED BY <1>0, <1>a, <3>1, <3>2, <3>3, GoesOnCharged
  <2>8. CASE HoldBack(s)
    <3>1. UNCHANGED <<tally, misread>> BY <2>8 DEF HoldBack, GateWrites, Allows
    <3>2. stage[s] = "asking" /\ UNCHANGED <<approved, open, brakeCounted>>
      BY <2>8 DEF HoldBack, AskStep
    <3>3. ~LetThrough(s) /\ ~FailOpen(s) BY <2>8 DEF HoldBack, GoesTo, LetThrough, FailOpen, BrakesTypes
    <3>4. CASE GoesTo(s, "new") BY <1>0, <1>a, <3>1, <3>2, <3>3, <3>4, GoesOnCharged
    <3>5. CASE s \in ToolSends /\ GoesTo(s, "held")
      BY <1>0, <1>a, <3>1, <3>2, <3>5, SendsAssumption DEF GoesTo, BrakesTypes, ChargedAtStage
    <3>6. QED BY <2>8, <3>4, <3>5 DEF HoldBack
  <2>9. CASE ApproveHeld(s)
    <3>1. stage[s] = "held" /\ stage'[s] = "new" /\ approved'[s] /\ UNCHANGED <<tally, open>>
      BY <2>9 DEF ApproveHeld, GoesTo, BrakesTypes, eventVars
    <3>2. s \in ToolSends /\ s \notin RowSends BY <1>0, <3>1, SendsAssumption DEF ChargedAtStage, Sends
    <3>3. QED BY <1>0, <1>a, <3>1, <3>2 DEF ChargedAtStage
  <2>10. CASE Attempt(s)
    <3>1. stage[s] = "allowed" /\ UNCHANGED <<tally, approved, open, brakeCounted, misread>>
      BY <2>10 DEF Attempt, ProviderStep, eventVars
    <3>2. ~LetThrough(s) /\ ~FailOpen(s) BY <3>1 DEF LetThrough, FailOpen
    <3>3. GoesTo(s, "sent") \/ GoesTo(s, "failed") \/ (Deferred(s) /\ GoesTo(s, "new")) BY <2>10 DEF Attempt
    <3>4. Deferred(s) => s \in RowSends \/ approved[s] BY DEF Deferred
    <3>5. QED BY <1>0, <1>a, <3>1, <3>2, <3>3, <3>4, GoesOnCharged
  <2>11. CASE ProviderRefuses(s)
    <3>1. /\ stage[s] = "allowed" /\ UNCHANGED <<tally, approved, open, brakeCounted, misread>>
          /\ GoesTo(s, "noting")
      BY <2>11 DEF ProviderRefuses, ProviderStep, eventVars
    <3>2. ~LetThrough(s) /\ ~FailOpen(s) BY <3>1 DEF LetThrough, FailOpen
    <3>3. QED BY <1>0, <1>a, <3>1, <3>2, GoesOnCharged
  <2>12. CASE NoteRefusal(s) \/ NoteFails(s)
    <3>1. UNCHANGED tally /\ AfterRefusal(s)
      BY <2>12 DEF NoteRefusal, NoteFails, RefusalWrites, eventVars
    <3>2. stage[s] = "noting" /\ UNCHANGED <<approved, open, brakeCounted, misread, batch>>
      BY <3>1 DEF AfterRefusal, ProviderStep
    <3>3. ~LetThrough(s) /\ ~FailOpen(s) BY <3>2 DEF LetThrough, FailOpen
    <3>4. CASE UNCHANGED <<stage, marked>>
      BY <1>0, <1>a, <3>1, <3>2, <3>4, StaysCharged DEF KnownCounted
    <3>5. CASE GoesTo(s, "sent") \/ GoesTo(s, "failed") \/ (Deferred(s) /\ GoesTo(s, "new"))
      <4>1. Deferred(s) => s \in RowSends \/ approved[s] BY DEF Deferred
      <4>2. QED BY <1>0, <1>a, <3>1, <3>2, <3>3, <3>5, <4>1, GoesOnCharged
    <3>6. QED BY <3>1, <3>4, <3>5 DEF AfterRefusal
  <2>13. CASE CallerDies(s)
    <3>1. stage'[s] = "failed" /\ stage[s] = "asking" /\ UNCHANGED <<approved, brakeCounted, open>> /\ AskStep
      BY <2>13 DEF CallerDies, GoesTo, AskStep, BrakesTypes
    <3>2. ~LetThrough(s) /\ ~FailOpen(s) BY <3>1 DEF LetThrough, FailOpen, GoesTo, BrakesTypes
    <3>3. s \in RowSends => (KnownCounted(s)' => KnownCounted(s)) BY <3>2, KnownStep
    <3>4. CASE GateWrites(s)
      <4>1. s \in RowSends => RowCharged(s)'
        BY <1>0, <3>1, <3>3, <3>4, ChargesStep DEF RowCharged, ChargedAtStage
      <4>2. QED BY <3>1, <3>4, <4>1, ChargesStep DEF ChargedAtStage
    <3>5. CASE UNCHANGED <<tally, misread>>
      <4>1. FreshOf(s)' = FreshOf(s) /\ ChargesOf(s)' = ChargesOf(s) BY <1>a, <3>5 DEF FreshOf
      <4>2. QED BY <1>0, <3>1, <3>3, <4>1 DEF ChargedAtStage, RowCharged
    <3>6. QED BY <2>13, <3>4, <3>5 DEF CallerDies, eventVars
  <2>14. QED BY <1>3, <2>5, <2>6, <2>7, <2>8, <2>9, <2>10, <2>11, <2>12, <2>13 DEF SendStep
<1>4. QED BY <1>1, <1>2, <1>3 DEF BrakesNext, brakesVars, eventVars, markVars, SetFreeze, Purge, BrakesTick

(* The pause.                                                              *)

\* Only a refusal that is noted stores one and moves the longest pause.
LEMMA RefusedByNote ==
  ASSUME [BrakesNext]_brakesVars
  PROVE  (UNCHANGED <<refusals, pausedTill>>)
         \/ \E s \in Sends : stage[s] = "noting" /\ RefusalWrites(s) /\ clock' = clock
<1> SUFFICES ASSUME ~UNCHANGED <<refusals, pausedTill>>
             PROVE  \E s \in Sends : stage[s] = "noting" /\ RefusalWrites(s) /\ clock' = clock
  OBVIOUS
<1>1. PICK s \in Sends : SendStep(s)
  BY DEF BrakesNext, brakesVars, eventVars, brakeVars, SetFreeze, Purge, BrakesTick, FetchDue, LeaveRow
<1>2. NoteRefusal(s)
  BY <1>1 DEF SendStep, BeginAsk, LetThrough, TurnBack, HoldBack, FailOpen, CallerDies, ApproveHeld, Attempt,
     ProviderRefuses, NoteFails, GateWrites, eventVars, brakeVars
<1>3. QED BY <1>2 DEF NoteRefusal, AfterRefusal, ProviderStep

\* A window that gets its last refusal out of turn: the one that is stored now looks at
\* everything from its own hour on, so at all of the window.
LEMMA RefusalsStep ==
  ASSUME BrakesTypes, TimesInOrder, RefusalsPause, PauseIsKept, [BrakesNext]_brakesVars
  PROVE  RefusalsPause'
<1>1. CASE UNCHANGED <<refusals, pausedTill>> BY <1>1 DEF RefusalsPause, Between
<1>2. ASSUME NEW s \in Sends, stage[s] = "noting", RefusalWrites(s) PROVE RefusalsPause'
  <2> DEFINE f == [nr |-> Cardinality(refusals), at |-> begun[s]]
             seen == RecentRefusals(begun[s])
  <2>1. refusals' = refusals \cup {f} /\ f.at = begun[s] BY <1>2 DEF RefusalWrites
  <2>2. IsFiniteSet(refusals') BY <2>1, FS_AddElement DEF BrakesTypes
  <2>3. pausedTill' >= pausedTill /\ pausedTill' \in Nat /\ pausedTill \in Nat /\ begun[s] \in Nat
    BY <1>2, LimitsAssumption DEF RefusalWrites, BrakesTypes
  <2>4. ASSUME NEW e \in refusals', Cardinality(Between(refusals', e.at, HOUR)) >= REFUSAL_THRESHOLD
        PROVE  pausedTill' > e.at - HOUR
    <3>1. e.at \in Nat BY <2>1, <2>3 DEF BrakesTypes
    <3>2. CASE ~(f.at <= e.at /\ f.at > e.at - HOUR)
      <4>1. e \in refusals BY <2>1, <2>3, <3>1, <3>2, LimitsAssumption
      <4>2. Between(refusals', e.at, HOUR) = Between(refusals, e.at, HOUR)
        BY <2>1, <3>2 DEF Between
      <4>3. pausedTill > e.at - HOUR BY <2>4, <4>1, <4>2 DEF RefusalsPause
      <4>4. QED BY <2>3, <3>1, <4>3, LimitsAssumption
    <3>3. CASE f.at <= e.at /\ f.at > e.at - HOUR
      <4>1. CASE IsPaused(s)
        BY <2>1, <2>3, <3>1, <3>3, <4>1, LimitsAssumption DEF IsPaused, PauseIsKept, BrakesTypes
      <4>2. CASE ~IsPaused(s)
        <5>1. Between(refusals', e.at, HOUR) \subseteq seen
          <6> SUFFICES ASSUME NEW d \in refusals', d.at > e.at - HOUR PROVE d \in seen
            BY DEF Between
          <6>1. d.at \in Nat BY <2>1, <2>3 DEF BrakesTypes
          <6>2. d.at > begun[s] - HOUR /\ d.at > begun[s] - DAY
            BY <2>1, <2>3, <3>1, <3>3, <6>1, LimitsAssumption
          <6>3. d.at >= keptFrom BY <1>2, <6>1, <6>2, StillStored
          <6>4. QED BY <6>2, <6>3 DEF RecentRefusals, Stored, Recent
        <5>2. Cardinality(Between(refusals', e.at, HOUR)) <= Cardinality(seen)
              /\ Cardinality(seen) \in Nat /\ Cardinality(Between(refusals', e.at, HOUR)) \in Nat
          <6>1. IsFiniteSet(seen) BY <2>2, Smaller DEF RecentRefusals, Stored
          <6> HIDE DEF seen
          <6>2. QED BY <5>1, <6>1, Smaller
        <5>3. PausesNow(s) BY <2>4, <4>2, <5>2, LimitsAssumption DEF PausesNow
        <5>4. pausedTill' >= begun[s] + HOUR BY <1>2, <2>3, <5>3, LimitsAssumption DEF RefusalWrites
        <5>5. QED BY <2>1, <2>3, <3>1, <3>3, <5>4, LimitsAssumption
      <4>3. QED BY <4>1, <4>2
    <3>4. QED BY <3>2, <3>3
  <2>5. QED BY <2>4 DEF RefusalsPause
<1>3. QED BY <1>1, <1>2, RefusedByNote

\* Only a new pause moves the end of a pause, and only when the last one is over.
LEMMA PauseStep ==
  ASSUME BrakesTypes, TimesInOrder, PauseIsKept, [BrakesNext]_brakesVars
  PROVE  PauseIsKept'
<1>1. CASE UNCHANGED <<pauseUntil, pausedTill, clock>> BY <1>1 DEF PauseIsKept
<1>2. ASSUME NEW s \in Sends, stage[s] = "noting", RefusalWrites(s), clock' = clock PROVE PauseIsKept'
  BY <1>2, LimitsAssumption DEF RefusalWrites, PausesNow, IsPaused, PauseIsKept, TimesInOrder, BrakesTypes
<1>3. CASE Purge
  BY <1>3, LimitsAssumption DEF Purge, BothEnded, PauseIsKept, BrakesTypes
<1>4. CASE BrakesTick
  BY <1>4, LimitsAssumption DEF BrakesTick, brakeVars, PauseIsKept, BrakesTypes
<1>5. ASSUME NEW s \in Sends, SendStep(s) PROVE PauseIsKept'
  <2>1. clock' = clock /\ (GateWrites(s) \/ UNCHANGED brakeVars \/ NoteRefusal(s))
    BY <1>5 DEF SendStep, BeginAsk, LetThrough, TurnBack, HoldBack, FailOpen, CallerDies, ApproveHeld, Attempt,
       ProviderRefuses, NoteRefusal, NoteFails, AskStep, ProviderStep, AfterRefusal
  <2>2. CASE GateWrites(s)
    <3>1. UNCHANGED <<pauseUntil, pausedTill>> BY <2>2 DEF GateWrites, TripHold
    <3>2. QED BY <1>1, <2>1, <3>1
  <2>3. CASE UNCHANGED brakeVars BY <1>1, <2>1, <2>3 DEF brakeVars
  <2>4. CASE NoteRefusal(s) BY <1>2, <2>1, <2>4 DEF NoteRefusal, AfterRefusal
  <2>5. QED BY <2>1, <2>2, <2>3, <2>4
<1>6. QED
  BY <1>1, <1>3, <1>4, <1>5 DEF BrakesNext, brakesVars, brakeVars, SetFreeze, FetchDue, LeaveRow

(* The theorems.                                                           *)

LEMMA BrakesInitInv == BrakesInit => BrakesInv
<1> SUFFICES ASSUME BrakesInit PROVE BrakesInv OBVIOUS
<1> USE DEF BrakesInit
<1>1. IsFiniteSet({}) /\ Cardinality({}) = 0 BY FS_EmptySet
<1>2. BrakesTypes /\ MarkTypes BY <1>1 DEF BrakesTypes, MarkTypes
<1>3. \A s \in Sends : ChargesOf(s) = {} BY DEF ChargesOf
<1>4. ChargedByStage
  <2>1. \A s \in Sends : MessagesOf[s] \in Nat BY SendsAssumption
  <2>2. \A s \in Sends : /\ stage[s] = "new" /\ ~brakeCounted[s] /\ Cardinality(ChargesOf(s)) = 0
                        /\ FreshOf(s) = {} /\ Cardinality(FreshOf(s)) = 0
    BY <1>1, <1>3 DEF FreshOf
  <2>3. \A s \in RowSends : ~KnownCounted(s) BY DEF KnownCounted, Sends
  <2>4. QED BY <1>3, <2>1, <2>2, <2>3 DEF ChargedByStage, ChargedAtStage, RowCharged
<1>5. DailyCeiling /\ FanoutCeiling /\ RefusalsPause BY DEF DailyCeiling, FanoutCeiling, RefusalsPause
<1>6. TimesInOrder /\ PauseIsKept BY DEF TimesInOrder, PauseIsKept
<1>7. QED BY <1>2, <1>4, <1>5, <1>6 DEF BrakesInv

LEMMA BrakesInvHolds == BrakesSpec => []BrakesInv
<1>1. BrakesInv /\ [BrakesNext]_brakesVars => BrakesInv'
  BY TypesStep, MarkTypesStep, TimesStep, DailyStep, FanoutStep, ChargedStep, RefusalsStep, PauseStep DEF BrakesInv
<1>2. QED BY BrakesInitInv, <1>1, PTL DEF BrakesSpec

\* outbound_send_gate: for any limits and any number of sends, in whatever order their
\* transactions get the lock and whatever the purge deletes, no rolling day counts more
\* messages than the limit, no content reaches more people within an hour than its own
\* without a person, and what leaves was charged, a row once unless it was attempted from a
\* batch that is older than its mark.
THEOREM CeilingsAreKept == BrakesSpec => []BrakesHold
<1>1. BrakesInv => BrakesHold
  <2>1. BrakesInv => SendsAreCharged
    BY DEF BrakesInv, ChargedByStage, ChargedAtStage, RowCharged, FreshOf, SendsAreCharged
  <2>2. QED BY <2>1 DEF BrakesInv, BrakesHold
<1>2. QED BY BrakesInvHolds, <1>1, PTL

\* outbound_send_refusal: as many refusals within an hour as it takes have paused the
\* inbox, and nothing is let through before the latest pause ends: the hold, the purge and
\* later refusals do not cut it short.
THEOREM PausesAreKept == BrakesSpec => PausesHold
<1>1. BrakesInv => RefusalsPause BY DEF BrakesInv
<1>2. BrakesInv /\ [BrakesNext]_brakesVars => [PauseStands]_brakesVars
  <2> SUFFICES ASSUME BrakesInv, NEW s \in Sends, LetThrough(s) PROVE begun[s] >= pausedTill
    BY DEF PauseStands
  <2>1. ~(pauseUntil > begun[s]) BY DEF LetThrough, Allows, Refuses, IsPaused
  <2>2. begun[s] <= clock /\ clock <= begun[s] + 1 BY DEF LetThrough, BrakesInv, TimesInOrder
  <2>3. QED BY <2>1, <2>2, LimitsAssumption DEF BrakesInv, BrakesTypes, PauseIsKept
<1>3. QED BY BrakesInvHolds, <1>1, <1>2, PTL DEF BrakesSpec, PausesHold

=============================================================================
