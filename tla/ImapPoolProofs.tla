--------------------------- MODULE ImapPoolProofs ---------------------------
(***************************************************************************)
(* The pool's rules for any number of checkouts, connections and           *)
(* operations: one user per connection, books that are right, and first    *)
(* come, first served.                                                     *)
(*                                                                         *)
(* LeaseInv.  The pooled connection is behind the handle of the checkout   *)
(* whose generation the entry carries, or behind none; a handle whose      *)
(* lease was reclaimed keeps a connection that is no longer pooled, and a  *)
(* new one is like none that anybody holds.                                *)
(*                                                                         *)
(* EntryInv.  entry.live moves with the checkouts that dial or hold a      *)
(* connection beside the pool (Opening) and with the pooled one; a place   *)
(* that falls free wakes whoever is next, and is reserved for one that is  *)
(* awake (QueueInv, SleepersReserve); nobody takes the slot of the one     *)
(* that dials, so that a late dial frees no place without waking anybody   *)
(* (DialerHolds).                                                          *)
(***************************************************************************)
EXTENDS ImapPool, TLAPS, FiniteSetTheorems, WellFoundedInduction

WithConn == {"held", "validate"}

PoolTypes ==
  /\ DOMAIN pc = Checkouts /\ DOMAIN conn = Checkouts
  /\ waiters \subseteq Checkouts
  /\ \A c \in waiters : pc[c] = "wait"
  /\ state \in {"empty", "dialing", "idle", "leased"}
  /\ holder = NoOne \/ holder \in Checkouts

\* What is pooled, and who holds it.
SlotIsRight ==
  /\ client = NoConn <=> state \in {"empty", "dialing"}
  /\ state \in {"empty", "idle"} => holder = NoOne
  /\ \A c \in Checkouts : conn[c] # NoConn /\ conn[c] = client => holder = c

OneUser == \A c, d \in Checkouts : conn[c] # NoConn /\ conn[c] = conn[d] => c = d

\* Who dials has the slot, and who has a connection is past that.
DialerHasSlot ==
  \A c \in Checkouts :
    /\ pc[c] = "dial" /\ holder = c => state = "dialing"
    /\ pc[c] \in WithConn <=> conn[c] # NoConn

LeaseInv == PoolTypes /\ SlotIsRight /\ OneUser /\ DialerHasSlot

-----------------------------------------------------------------------------

LEMMA LeaseInit == Init => LeaseInv
BY PoolAssumption
DEF Init, LeaseInv, PoolTypes, SlotIsRight, OneUser, DialerHasSlot, WithConn

LEMMA InvLeases == LeaseInv => ExclusiveLease
BY CheckoutsAssumption DEF LeaseInv, PoolTypes, SlotIsRight, OneUser, ExclusiveLease

LEMMA LeastIn ==
  ASSUME NEW S, S \subseteq Nat, S # {}
  PROVE  \E n \in S : \A m \in S : n <= m
<1>1. \E n \in S : \A m \in S : ~(m < n)
  <2>1. \A m, n \in S : <<m, n>> \in OpToRel(<, Nat) <=> m < n
    BY DEF OpToRel
  <2>2. \E n \in S : \A m \in S : ~(<<m, n>> \in OpToRel(<, Nat))
    BY WFMin, NatLessThanWellFounded
  <2> QED
    BY <2>1, <2>2, Zenon
<1> QED
  BY <1>1

\* Whoever is next is one of those who wait.
LEMMA NextWaits == ASSUME NEW S, S \subseteq Checkouts, S # {} PROVE NextInQueue(S) \in S
<1>1. ASSUME NEW T, T \subseteq Checkouts, T # {} PROVE First(T) \in T
  <2>1. {SeqOf[c] : c \in T} \subseteq Nat /\ {SeqOf[c] : c \in T} # {}
    BY <1>1, CheckoutsAssumption
  <2>2. PICK m \in {SeqOf[c] : c \in T} : \A k \in {SeqOf[c] : c \in T} : m <= k
    BY <2>1, LeastIn
  <2>3. {c \in T : SeqOf[c] = m} \subseteq Nat /\ {c \in T : SeqOf[c] = m} # {}
    BY <1>1, <2>2, CheckoutsAssumption
  <2>4. PICK a \in {c \in T : SeqOf[c] = m} : \A b \in {c \in T : SeqOf[c] = m} : a <= b
    BY <2>3, LeastIn
  <2>5. \A b \in T \ {a} : Before(a, b)
    BY <1>1, <2>1, <2>2, <2>3, <2>4, CheckoutsAssumption DEF Before
  <2> QED
    BY <2>4, <2>5 DEF First
<1>2. Interactive(S) \subseteq S
  BY DEF Interactive
<1> QED
  BY <1>1, <1>2 DEF NextInQueue

-----------------------------------------------------------------------------
(* The queue: nobody is woken but those who sleep. *)

Queue(p) ==
  /\ DOMAIN pc' = Checkouts /\ waiters' \subseteq Checkouts
  /\ \A c \in waiters' : pc'[c] = "wait"
  /\ \A c \in Checkouts : pc'[c] = p[c] \/ (p[c] = "wait" /\ pc'[c] = "loop")

LEMMA Waking ==
  ASSUME LeaseInv, NEW p, DOMAIN p = Checkouts, \A c \in waiters : p[c] = "wait", Wake(p)
  PROVE  Queue(p)
<1>1. CASE waiters = {}
  BY <1>1 DEF Wake, Queue
<1>2. CASE waiters # {}
  <2> DEFINE next == NextInQueue(waiters)
  <2>1. next \in waiters /\ waiters \subseteq Checkouts
    BY <1>2, NextWaits DEF LeaseInv, PoolTypes
  <2>2. waiters' = waiters \ {next} /\ pc' = [p EXCEPT ![next] = "loop"]
    BY <1>2 DEF Wake
  <2> QED
    BY <2>1, <2>2 DEF Queue
<1> QED
  BY <1>1, <1>2

\* pc with c's own move made, c being awake.
LEMMA Moved ==
  ASSUME LeaseInv, NEW c \in Checkouts, pc[c] # "wait", NEW l
  PROVE  /\ DOMAIN To(c, l) = Checkouts /\ \A d \in waiters : To(c, l)[d] = "wait"
         /\ To(c, l)[c] = l /\ \A d \in Checkouts : d # c => To(c, l)[d] = pc[d]
BY DEF LeaseInv, PoolTypes, To

LEMMA Going ==
  ASSUME LeaseInv, NEW c \in Checkouts, pc[c] # "wait", NEW l, Goto(c, l), waiters' \subseteq waiters
  PROVE  Queue(To(c, l))
BY Moved DEF Goto, Queue, LeaseInv, PoolTypes

LEMMA Passing ==
  ASSUME LeaseInv, NEW c \in Checkouts, pc[c] # "wait", NEW l, PassOn(c, l)
  PROVE  Queue(To(c, l))
<1> DEFINE waiting == IF l = "wait" THEN waiters \cup {c} ELSE waiters
           next == NextInQueue(waiters)
<1>0. /\ waiters \subseteq Checkouts /\ c \notin waiters
      /\ \A d \in waiting : d \in Checkouts /\ To(c, l)[d] = "wait"
  BY Moved DEF LeaseInv, PoolTypes
<1>1. CASE ~MyTurn(c) /\ handoff = NoOne /\ Free
  <2>1. next \in waiters
    BY <1>0, <1>1, NextWaits DEF MyTurn
  <2>2. waiters' = waiting \ {next} /\ pc' = [To(c, l) EXCEPT ![next] = "loop"]
    BY <1>1 DEF PassOn
  <2> QED
    BY <1>0, <2>1, <2>2, Moved DEF Queue
<1>2. CASE ~(~MyTurn(c) /\ handoff = NoOne /\ Free)
  <2>1. waiters' = waiting /\ pc' = To(c, l)
    BY <1>2 DEF PassOn, Goto
  <2> QED
    BY <1>0, <2>1, Moved DEF Queue
<1> QED
  BY <1>1, <1>2

-----------------------------------------------------------------------------
(* What a step does to the slot and to the handles. *)

SameSlot == UNCHANGED <<state, client, holder>>
NoSlot == state' = "empty" /\ client' = NoConn /\ holder' = NoOne

\* The slot rests or is emptied, and handles are only given back.
LEMMA Returning ==
  ASSUME LeaseInv, NEW p, Queue(p), DOMAIN conn' = Checkouts, SameSlot \/ NoSlot,
         \A c \in Checkouts : conn'[c] = conn[c] \/ conn'[c] = NoConn,
         \A c \in Checkouts : p[c] \in WithConn <=> conn'[c] # NoConn,
         \A c \in Checkouts : p[c] = "dial" => pc[c] = "dial"
  PROVE  LeaseInv'
<1>1. PoolTypes'
  BY DEF LeaseInv, PoolTypes, Queue, SameSlot, NoSlot
<1>2. SlotIsRight'
  BY DEF LeaseInv, SlotIsRight, SameSlot, NoSlot
<1>3. OneUser'
  BY DEF LeaseInv, OneUser
<1>4. DialerHasSlot'
  BY CheckoutsAssumption DEF LeaseInv, DialerHasSlot, Queue, WithConn, SameSlot, NoSlot
<1> QED
  BY <1>1, <1>2, <1>3, <1>4 DEF LeaseInv

\* c moves on, and nobody's handle changes.
LEMMA Moving ==
  ASSUME LeaseInv, NEW c \in Checkouts, NEW l, l # "dial", pc[c] # "wait", Queue(To(c, l)),
         SameSlot \/ NoSlot, UNCHANGED conn, l \in WithConn <=> conn[c] # NoConn
  PROVE  LeaseInv'
<1>1. /\ \A d \in Checkouts : To(c, l)[d] \in WithConn <=> conn'[d] # NoConn
      /\ \A d \in Checkouts : To(c, l)[d] = "dial" => pc[d] = "dial"
  BY Moved DEF LeaseInv, DialerHasSlot
<1> QED
  BY <1>1, Returning DEF LeaseInv, PoolTypes

\* c gives its handle back.
LEMMA GivingBack ==
  ASSUME LeaseInv, NEW c \in Checkouts, NEW l, l # "dial", l \notin WithConn, pc[c] # "wait",
         Queue(To(c, l)), SameSlot \/ NoSlot, conn' = [conn EXCEPT ![c] = NoConn]
  PROVE  LeaseInv'
<1>1. /\ DOMAIN conn' = Checkouts
      /\ \A d \in Checkouts : conn'[d] = conn[d] \/ conn'[d] = NoConn
      /\ \A d \in Checkouts : To(c, l)[d] \in WithConn <=> conn'[d] # NoConn
      /\ \A d \in Checkouts : To(c, l)[d] = "dial" => pc[d] = "dial"
  BY Moved DEF LeaseInv, PoolTypes, DialerHasSlot
<1> QED
  BY <1>1, Returning

\* Nobody moves but those who are woken.
LEMMA Resting ==
  ASSUME LeaseInv, Queue(pc), SameSlot \/ NoSlot, UNCHANGED conn
  PROVE  LeaseInv'
<1>1. \A d \in Checkouts : pc[d] \in WithConn <=> conn'[d] # NoConn
  BY DEF LeaseInv, DialerHasSlot
<1> QED
  BY <1>1, Returning DEF LeaseInv, PoolTypes

\* c gets the pooled connection, new or idle.
LEMMA Getting ==
  ASSUME LeaseInv, NEW c \in Checkouts, NEW k, NEW l \in WithConn, pc[c] # "wait", Queue(To(c, l)),
         state' = "leased", client' = k, holder' = c, conn' = [conn EXCEPT ![c] = k],
         k # NoConn, \A d \in Checkouts : conn[d] # k
  PROVE  LeaseInv'
<1>1. /\ DOMAIN conn' = Checkouts /\ conn'[c] = k
      /\ \A d \in Checkouts : d # c => conn'[d] = conn[d]
      /\ \A d \in Checkouts : d # c => (pc'[d] = pc[d] \/ (pc[d] = "wait" /\ pc'[d] = "loop"))
      /\ pc'[c] = l
  BY Moved DEF LeaseInv, PoolTypes, Queue, WithConn
<1>2. PoolTypes'
  BY <1>1 DEF PoolTypes, Queue
<1>3. SlotIsRight'
  BY <1>1 DEF SlotIsRight
<1>4. OneUser'
  BY <1>1 DEF LeaseInv, OneUser
<1>5. DialerHasSlot'
  BY <1>1 DEF LeaseInv, DialerHasSlot, WithConn
<1> QED
  BY <1>2, <1>3, <1>4, <1>5 DEF LeaseInv

\* A sound connection k, which nobody holds, is there for whoever is next.
LEMMA Parking ==
  ASSUME LeaseInv, NEW c \in Checkouts, NEW k, NEW l, l # "dial", l \notin WithConn, pc[c] # "wait",
         Queue(To(c, l)), state' = "idle", client' = k, holder' = NoOne, k # NoConn,
         DOMAIN conn' = Checkouts, conn'[c] = NoConn,
         \A d \in Checkouts : d # c => conn'[d] = conn[d] /\ conn[d] # k
  PROVE  LeaseInv'
<1>1. /\ \A d \in Checkouts : d # c => (pc'[d] = pc[d] \/ (pc[d] = "wait" /\ pc'[d] = "loop"))
      /\ pc'[c] \in {l, "loop"}
  BY Moved DEF LeaseInv, PoolTypes, Queue
<1>2. PoolTypes' /\ SlotIsRight'
  BY <1>1 DEF PoolTypes, SlotIsRight, Queue
<1>3. OneUser'
  BY <1>1 DEF LeaseInv, OneUser
<1>4. DialerHasSlot'
  BY <1>1, CheckoutsAssumption DEF LeaseInv, DialerHasSlot, WithConn
<1> QED
  BY <1>2, <1>3, <1>4 DEF LeaseInv

LEMMA Staying == ASSUME LeaseInv, UNCHANGED <<pc, waiters>> PROVE Queue(pc)
BY DEF Queue, LeaseInv, PoolTypes

LEMMA Holds == LeaseInv => \A c \in Checkouts : pc[c] \in WithConn <=> conn[c] # NoConn
BY DEF LeaseInv, DialerHasSlot

LEMMA Awake ==
  ASSUME LeaseInv, NEW c \in Checkouts, NEW l, pc[c] # "wait", Wake(To(c, l)) PROVE Queue(To(c, l))
BY Moved, Waking

LEMMA WakeOnly == ASSUME LeaseInv, Wake(pc) PROVE Queue(pc)
BY Waking DEF LeaseInv, PoolTypes

-----------------------------------------------------------------------------
(* The actions. *)

LEMMA ArriveInv == ASSUME LeaseInv, NEW c \in Checkouts, Arrive(c) PROVE LeaseInv'
<1>1. PICK l \in {"done", "loop"} : Goto(c, l)
  BY DEF Arrive
<1>2. pc[c] = "new" /\ SameSlot /\ UNCHANGED <<conn, waiters>>
  BY DEF Arrive, entryVars, queueVars, SameSlot
<1>3. Queue(To(c, l))
  BY <1>1, <1>2, Going
<1> QED
  BY <1>2, <1>3, Moving, Holds DEF WithConn

LEMMA ResumeInv == ASSUME LeaseInv, NEW c \in Checkouts, Resume(c) PROVE LeaseInv'
<1>0. pc[c] = "loop" /\ pc[c] # "wait" /\ conn[c] = NoConn
  BY Holds DEF Resume, Runs, WithConn
<1>1. CASE Refuse(c)
  <2>1. /\ pc' = [d \in Checkouts |-> IF d = c THEN "done" ELSE IF d \in waiters THEN "loop" ELSE pc[d]]
        /\ waiters' = {} /\ SameSlot /\ UNCHANGED conn
    BY <1>1 DEF Refuse, entryVars, SameSlot
  <2>2. Queue(To(c, "done"))
    BY <1>0, <2>1, Moved DEF Queue, LeaseInv, PoolTypes
  <2> QED
    BY <1>0, <2>1, <2>2, Moving DEF WithConn
<1>2. CASE TakeIdle(c)
  <2>1. PICK l \in {"held", "validate"} : Goto(c, l)
    BY <1>2 DEF TakeIdle
  <2>2. /\ state' = "leased" /\ client' = client /\ holder' = c
        /\ conn' = [conn EXCEPT ![c] = client] /\ waiters' = waiters /\ state = "idle"
    BY <1>2 DEF TakeIdle, Slot
  <2>3. client # NoConn /\ \A d \in Checkouts : conn[d] # client
    BY <2>2, CheckoutsAssumption DEF LeaseInv, SlotIsRight
  <2>4. Queue(To(c, l))
    BY <1>0, <2>1, <2>2, Going
  <2> QED
    BY <1>0, <2>2, <2>3, <2>4, Getting DEF WithConn
<1>3. CASE TakeDead(c) \/ Reclaim(c)
  <2>1. NoSlot /\ Wake(pc) /\ UNCHANGED conn
    BY <1>3 DEF TakeDead, Reclaim, Drop, EmptySlot, Slot, NoSlot
  <2> QED
    BY <2>1, WakeOnly, Resting
<1>4. CASE Dial(c)
  <2>1. /\ Goto(c, "dial") /\ UNCHANGED <<waiters, conn>> /\ state = "empty"
        /\ state' = "dialing" /\ client' = NoConn /\ holder' = c
    BY <1>4 DEF Dial, Slot
  <2>2. Queue(To(c, "dial"))
    BY <1>0, <2>1, Going
  <2>3. \A d \in Checkouts : d # c => pc'[d] = pc[d]
    BY <1>0, <2>1, Moved DEF Goto
  <2>4. pc'[c] = "dial"
    BY <1>0, <2>1, Moved DEF Goto
  <2>5. PoolTypes' /\ SlotIsRight'
    BY <2>1, <2>2 DEF LeaseInv, PoolTypes, SlotIsRight, Queue
  <2>6. OneUser' /\ DialerHasSlot'
    BY <1>0, <2>1, <2>3, <2>4 DEF LeaseInv, OneUser, DialerHasSlot, WithConn
  <2> QED
    BY <2>5, <2>6 DEF LeaseInv
<1>5. CASE Overflow(c)
  <2>1. PassOn(c, "overdial") /\ SameSlot /\ UNCHANGED conn
    BY <1>5 DEF Overflow, SameSlot
  <2> QED
    BY <1>0, <2>1, Passing, Moving DEF WithConn
<1>6. CASE Busy(c)
  <2>1. PassOn(c, "done") /\ SameSlot /\ UNCHANGED conn
    BY <1>6 DEF Busy, SameSlot, entryVars
  <2> QED
    BY <1>0, <2>1, Passing, Moving DEF WithConn
<1>7. CASE Wait(c)
  <2>1. PassOn(c, "wait") /\ SameSlot /\ UNCHANGED conn
    BY <1>7 DEF Wait, SameSlot, entryVars
  <2> QED
    BY <1>0, <2>1, Passing, Moving DEF WithConn
<1> QED
  BY <1>1, <1>2, <1>3, <1>4, <1>5, <1>6, <1>7 DEF Resume

LEMMA AnsweredInv == ASSUME LeaseInv, NEW c \in Checkouts, Answered(c) PROVE LeaseInv'
<1>0. pc[c] # "wait"
  BY DEF Answered
<1>1. CASE Validated(c)
  <2>1. SameSlot /\ UNCHANGED waiters
    BY <1>1 DEF Validated, SameSlot, entryVars, queueVars
  <2>2. CASE Goto(c, "held") /\ UNCHANGED conn
    BY <1>0, <1>1, <2>1, <2>2, Going, Moving, Holds DEF Validated, WithConn
  <2>3. CASE Goto(c, "loop") /\ conn' = [conn EXCEPT ![c] = NoConn]
    BY <1>0, <2>1, <2>3, Going, GivingBack DEF WithConn
  <2> QED
    BY <1>1, <2>2, <2>3 DEF Validated
<1>2. CASE ValidationFails(c)
  <2>1. conn' = [conn EXCEPT ![c] = NoConn]
    BY <1>2 DEF ValidationFails
  <2>2. CASE NoSlot /\ Wake(To(c, "loop"))
    BY <1>0, <2>1, <2>2, Awake, GivingBack DEF WithConn
  <2>3. CASE SameSlot /\ Goto(c, "loop") /\ UNCHANGED waiters
    BY <1>0, <2>1, <2>3, Going, GivingBack DEF WithConn
  <2> QED
    BY <1>2, <2>2, <2>3
    DEF ValidationFails, Drop, EmptySlot, Slot, NoSlot, SameSlot, entryVars, queueVars
<1>3. CASE DialFails(c)
  <2>1. (NoSlot \/ SameSlot) /\ Wake(To(c, "done")) /\ UNCHANGED conn /\ pc[c] = "dial"
    BY <1>3 DEF DialFails, EmptySlot, Slot, NoSlot, SameSlot
  <2> QED
    BY <1>0, <2>1, Awake, Moving, Holds DEF WithConn
<1>4. CASE DialedLate(c)
  <2>1. SameSlot /\ Goto(c, "loose") /\ UNCHANGED <<conn, waiters>> /\ pc[c] = "dial"
    BY <1>4 DEF DialedLate, SameSlot, queueVars
  <2> QED
    BY <1>0, <2>1, Going, Moving, Holds DEF WithConn
<1>5. CASE Dialed(c)
  <2>1. PICK k : /\ Unused(k) /\ Slot("leased", k, FlowOf[c], c)
                 /\ conn' = [conn EXCEPT ![c] = k]
    BY <1>5 DEF Dialed
  <2>2. pc[c] = "dial" /\ holder = c /\ Goto(c, "held") /\ UNCHANGED waiters
    BY <1>5 DEF Dialed, queueVars
  <2>3. k # NoConn /\ \A d \in Checkouts : conn[d] # k
    BY <2>1, <2>2 DEF Unused, LeaseInv, SlotIsRight, DialerHasSlot
  <2>4. Queue(To(c, "held"))
    BY <1>0, <2>2, Going
  <2> QED
    BY <1>0, <2>1, <2>3, <2>4, Getting DEF Slot, WithConn
<1>6. CASE HandOver(c)
  <2>1. pc[c] = "dial" /\ holder = c /\ Wake(To(c, "loop")) /\ UNCHANGED conn
    BY <1>6 DEF HandOver
  <2>2. Queue(To(c, "loop")) /\ conn[c] = NoConn
    BY <1>0, <2>1, Awake, Holds DEF WithConn
  <2>3. CASE Drop
    BY <1>0, <2>1, <2>2, <2>3, Moving DEF WithConn, Drop, EmptySlot, Slot, NoSlot
  <2>4. CASE \E k : Unused(k) /\ Slot("idle", k, NoFlow, NoOne)
    <3>1. PICK k : Unused(k) /\ Slot("idle", k, NoFlow, NoOne)
      BY <2>4
    <3>2. k # NoConn /\ \A d \in Checkouts : conn[d] # k
      BY <2>1, <3>1 DEF Unused, LeaseInv, SlotIsRight, DialerHasSlot
    <3>3. DOMAIN conn' = Checkouts /\ conn'[c] = NoConn /\ conn' = conn
      BY <2>1, <2>2 DEF LeaseInv, PoolTypes
    <3> QED
      BY <1>0, <2>2, <3>1, <3>2, <3>3, Parking DEF Slot, WithConn
  <2> QED
    BY <1>6, <2>3, <2>4 DEF HandOver
<1>7. CASE OverflowFails(c)
  <2>1. SameSlot /\ Wake(To(c, "done")) /\ UNCHANGED conn /\ pc[c] = "overdial"
    BY <1>7 DEF OverflowFails, SameSlot
  <2> QED
    BY <1>0, <2>1, Awake, Moving, Holds DEF WithConn
<1>8. CASE OverflowDialed(c)
  <2>1. SameSlot /\ Goto(c, "over") /\ UNCHANGED <<conn, waiters>> /\ pc[c] = "overdial"
    BY <1>8 DEF OverflowDialed, SameSlot, entryVars, queueVars
  <2> QED
    BY <1>0, <2>1, Going, Moving, Holds DEF WithConn
<1> QED
  BY <1>1, <1>2, <1>3, <1>4, <1>5, <1>6, <1>7, <1>8 DEF Answered

LEMMA GiveBackInv == ASSUME LeaseInv, NEW c \in Checkouts, GiveBack(c) PROVE LeaseInv'
<1>0. pc[c] # "wait"
  BY DEF GiveBack, ReleaseStale, ReleaseDropped, Release, ReleaseOverflow
<1>1. CASE ReleaseStale(c)
  BY <1>0, <1>1, Going, GivingBack DEF WithConn, ReleaseStale, entryVars, queueVars, SameSlot
<1>2. CASE ReleaseDropped(c)
  BY <1>0, <1>2, Awake, GivingBack DEF WithConn, ReleaseDropped, Drop, EmptySlot, Slot, NoSlot
<1>3. CASE Release(c)
  <2>1. Wake(To(c, "done")) /\ conn' = [conn EXCEPT ![c] = NoConn] /\ Owns(c)
    BY <1>3 DEF Release
  <2>2. CASE Drop
    BY <1>0, <2>1, <2>2, Awake, GivingBack DEF WithConn, Drop, EmptySlot, Slot, NoSlot
  <2>3. CASE Slot("idle", client, NoFlow, NoOne)
    <3>1. client # NoConn
      BY <2>1, <1>3, Holds DEF Owns, Release, WithConn
    <3>2. \A d \in Checkouts : d # c => conn[d] # client
      BY <2>1, <3>1 DEF Owns, LeaseInv, SlotIsRight
    <3>3. /\ DOMAIN conn' = Checkouts /\ conn'[c] = NoConn
          /\ \A d \in Checkouts : d # c => conn'[d] = conn[d]
      BY <2>1 DEF LeaseInv, PoolTypes
    <3> QED
      BY <1>0, <2>1, <2>3, <3>1, <3>2, <3>3, Awake, Parking DEF Slot, WithConn
  <2> QED
    BY <1>3, <2>2, <2>3 DEF Release
<1>4. CASE ReleaseOverflow(c)
  <2>1. SameSlot /\ Wake(To(c, "done")) /\ UNCHANGED conn /\ pc[c] \in {"over", "loose"}
    BY <1>4 DEF ReleaseOverflow, SameSlot
  <2> QED
    BY <1>0, <2>1, Awake, Moving, Holds DEF WithConn
<1> QED
  BY <1>1, <1>2, <1>3, <1>4 DEF GiveBack

LEMMA LeaseStep == LeaseInv /\ [Next]_vars => LeaseInv'
<1> SUFFICES ASSUME LeaseInv, [Next]_vars PROVE LeaseInv'
  OBVIOUS
<1>1. ASSUME NEW c \in Checkouts, Timer(c) PROVE LeaseInv'
  <2>1. /\ pc[c] = "wait" /\ waiters' = waiters \ {c} /\ pc' = [pc EXCEPT ![c] = "loop"]
        /\ SameSlot /\ UNCHANGED conn
    BY <1>1 DEF Timer, Goto, To, SameSlot, entryVars
  <2>2. Queue(pc)
    BY <2>1 DEF Queue, LeaseInv, PoolTypes
  <2> QED
    BY <2>1, <2>2, Resting
<1>2. CASE Evict \/ CloseAll
  <2>1. (NoSlot \/ SameSlot) /\ Wake(pc) /\ UNCHANGED conn
    BY <1>2 DEF Evict, CloseAll, EmptySlot, Slot, NoSlot, SameSlot, entryVars
  <2> QED
    BY <2>1, WakeOnly, Resting
<1>3. CASE UNCHANGED <<state, client, holder, conn, pc, waiters>>
  BY <1>3, Staying, Resting DEF SameSlot
<1>4. ASSUME LeaseAges \/ RefusalExpires \/ (\E c \in Checkouts : RunsLate(c)) \/ UNCHANGED vars
      PROVE  UNCHANGED <<state, client, holder, conn, pc, waiters>>
  BY <1>4 DEF LeaseAges, RefusalExpires, RunsLate, vars, entryVars, queueVars, callVars
<1> QED
  BY <1>1, <1>2, <1>3, <1>4, ArriveInv, ResumeInv, AnsweredInv, GiveBackInv DEF Next

-----------------------------------------------------------------------------

\* imap-pool.ts, rule 2: however checkouts, overflows, reclaimed leases, hand-overs and
\* late dials interleave, no two operations hold one connection and nobody holds an
\* idle one.
THEOREM OneUserPerConnection == Spec => []ExclusiveLease
<1>1. Spec => []LeaseInv
  BY LeaseInit, LeaseStep, PTL DEF Spec
<1> QED
  BY <1>1, InvLeases, PTL

-----------------------------------------------------------------------------
(* The books of the entry: its count, its queue and its place in the map. *)

Places == {"new", "done"} \cup Working \cup Holding

\* A reservation is for one that is awake.
QueueInv ==
  /\ pc \in [Checkouts -> Places] /\ waiters \subseteq Checkouts
  /\ handoff # NoOne => handoff \in Checkouts /\ pc[handoff] = "loop"

SleepersReserve == thread = NoOne /\ Free /\ waiters # {} => handoff # NoOne

\* Nobody takes the slot away from the one that dials.
DialerHolds == \A c \in Checkouts : pc[c] = "dial" => holder = c

\* The connections of the inbox that are not the pooled one.
Opens == {"dial", "overdial", "over"}
Opening == {c \in Checkouts : pc[c] \in Opens}
Counted == IsFiniteSet(Opening) /\ LiveIsCounted /\ live \in 0 .. MaxPerKey

OtherTypes ==
  /\ client \in Conns \cup {NoConn} /\ flow \in {FlowOf[c] : c \in Checkouts} \cup {NoFlow}
  /\ thread \in Checkouts \cup {NoOne} /\ conn \in [Checkouts -> Conns \cup {NoConn}]
  /\ late \subseteq Checkouts

Flags == old \in BOOLEAN /\ mapped \in BOOLEAN /\ refused \in BOOLEAN /\ closed \in BOOLEAN

EntryInv ==
  QueueInv /\ SleepersReserve /\ DialerHolds /\ Counted /\ OtherTypes /\ Flags /\ EntryStaysMapped

LEMMA EntryInit == Init => EntryInv
<1> SUFFICES ASSUME Init PROVE EntryInv
  OBVIOUS
<1>1. Opening = {} BY DEF Init, Opening, Opens
<1>2. Counted
  BY <1>1, FS_EmptySet, PoolAssumption DEF Init, Counted, LiveIsCounted, Opening, Opens
<1>3. QueueInv /\ SleepersReserve /\ DialerHolds
  BY DEF Init, QueueInv, SleepersReserve, DialerHolds, Places
<1>4. OtherTypes /\ Flags
  BY DEF Init, OtherTypes, Flags
<1>5. EntryStaysMapped
  BY DEF Init, EntryStaysMapped, Working
<1> QED
  BY <1>2, <1>3, <1>4, <1>5 DEF EntryInv

LEMMA InvSound == LeaseInv /\ EntryInv => EntryIsSound
<1> SUFFICES ASSUME LeaseInv, EntryInv PROVE EntryIsSound
  OBVIOUS
<1>1. TypeOK
  BY DEF EntryInv, LeaseInv, PoolTypes, TypeOK, QueueInv, Places, OtherTypes, Flags, Counted
<1>2. NobodySleepsBesideFree
  BY DEF EntryInv, QueueInv, SleepersReserve, NobodySleepsBesideFree
<1> QED
  BY <1>1, <1>2 DEF EntryInv, Counted, EntryIsSound

-----------------------------------------------------------------------------
(* The queue. *)

LEMMA WakingReserves ==
  ASSUME LeaseInv, NEW p \in [Checkouts -> Places], \A c \in waiters : p[c] = "wait", Wake(p)
  PROVE  QueueInv' /\ SleepersReserve'
<1>1. CASE waiters = {}
  BY <1>1 DEF Wake, QueueInv, SleepersReserve
<1>2. CASE waiters # {}
  <2> DEFINE next == NextInQueue(waiters)
  <2>1. next \in waiters /\ waiters \subseteq Checkouts /\ next # NoOne
    BY <1>2, NextWaits, CheckoutsAssumption DEF LeaseInv, PoolTypes
  <2>2. waiters' = waiters \ {next} /\ pc' = [p EXCEPT ![next] = "loop"] /\ handoff' = next
    BY <1>2 DEF Wake
  <2>3. "loop" \in Places BY DEF Places, Working
  <2> HIDE DEF next
  <2> QED
    BY <2>1, <2>2, <2>3 DEF QueueInv, SleepersReserve
<1> QED
  BY <1>1, <1>2

LEMMA AwakeReserves ==
  ASSUME LeaseInv, QueueInv, NEW c \in Checkouts, NEW l \in Places, pc[c] # "wait", Wake(To(c, l))
  PROVE  QueueInv' /\ SleepersReserve'
<1>1. To(c, l) \in [Checkouts -> Places] BY DEF QueueInv, To
<1> QED
  BY <1>1, Moved, WakingReserves

LEMMA WakeReserves == ASSUME LeaseInv, QueueInv, Wake(pc) PROVE QueueInv' /\ SleepersReserve'
BY WakingReserves DEF LeaseInv, PoolTypes, QueueInv

\* c moves on; a reservation it had is used or given up.
LEMMA GoingQueue ==
  ASSUME QueueInv, NEW c \in Checkouts, NEW l \in Places, Goto(c, l), waiters' \subseteq waiters,
         handoff' \in {handoff, NoOne}, handoff' = c => l = "loop"
  PROVE  QueueInv'
BY DEF QueueInv, Goto, To

LEMMA PassingReserves ==
  ASSUME LeaseInv, QueueInv, NEW c \in Checkouts, NEW l \in Places, PassOn(c, l), Blocked(c)
  PROVE  QueueInv' /\ (Free /\ waiters' # {} => handoff' # NoOne)
<1> DEFINE waiting == IF l = "wait" THEN waiters \cup {c} ELSE waiters
           next == NextInQueue(waiters)
<1>0. waiting \subseteq Checkouts /\ To(c, l) \in [Checkouts -> Places] /\ "loop" \in Places
  BY DEF QueueInv, To, Places, Working
<1>1. CASE ~MyTurn(c) /\ handoff = NoOne /\ Free
  <2>1. next \in waiters /\ next \in Checkouts /\ next # NoOne
    BY <1>1, NextWaits, CheckoutsAssumption DEF MyTurn, QueueInv
  <2>2. waiters' = waiting \ {next} /\ pc' = [To(c, l) EXCEPT ![next] = "loop"] /\ handoff' = next
    BY <1>1 DEF PassOn
  <2> HIDE DEF waiting, next
  <2> QED
    BY <1>0, <2>1, <2>2 DEF QueueInv
<1>2. CASE ~(~MyTurn(c) /\ handoff = NoOne /\ Free)
  <2>1. waiters' = waiting /\ pc' = To(c, l) /\ handoff' = IF handoff = c THEN NoOne ELSE handoff
    BY <1>2 DEF PassOn, Goto
  <2>2. ~(MyTurn(c) /\ Free) BY DEF Blocked
  <2>3. handoff = c => MyTurn(c) BY CheckoutsAssumption DEF MyTurn
  <2>4. Free => handoff # NoOne /\ handoff # c
    BY <1>2, <2>2, <2>3
  <2>5. handoff # NoOne /\ handoff # c => To(c, l)[handoff] = "loop" BY DEF QueueInv, To
  <2> HIDE DEF waiting
  <2> QED
    BY <1>0, <2>1, <2>4, <2>5 DEF QueueInv
<1> QED
  BY <1>1, <1>2

-----------------------------------------------------------------------------
(* The count. *)

Pooled(k) == IF k = NoConn THEN 0 ELSE 1
Extra(l) == IF l \in Opens THEN 1 ELSE 0

LEMMA CountIs == LiveIsCounted <=> live = Pooled(client) + Cardinality(Opening)
BY DEF LiveIsCounted, Pooled, Opening, Opens

\* What c's move adds to the count and takes from it.
LEMMA CountMoves ==
  ASSUME LeaseInv, Counted, NEW c \in Checkouts, NEW l, pc[c] # "wait", Queue(To(c, l)),
         live' = live + Extra(l) - Extra(pc[c]) + Pooled(client') - Pooled(client), live' <= MaxPerKey
  PROVE  Counted'
<1>1. /\ \A d \in Checkouts : d # c => (pc'[d] \in Opens <=> pc[d] \in Opens)
      /\ pc'[c] \in Opens <=> l \in Opens
  BY Moved DEF Queue, Opens
<1>2. Opening' = IF l \in Opens THEN Opening \cup {c} ELSE Opening \ {c}
  BY <1>1 DEF Opening
<1>3. IsFiniteSet(Opening) BY DEF Counted
<1>4. Cardinality(Opening) \in Nat BY <1>3, FS_CardinalityType
<1>5. c \in Opening <=> pc[c] \in Opens BY DEF Opening
<1>6. IsFiniteSet(Opening') /\ Cardinality(Opening') = Cardinality(Opening) + Extra(l) - Extra(pc[c])
  <2>1. CASE l \in Opens /\ pc[c] \notin Opens
    BY <1>2, <1>3, <1>4, <1>5, <2>1, FS_AddElement DEF Extra
  <2>2. CASE l \notin Opens /\ pc[c] \in Opens
    BY <1>2, <1>3, <1>4, <1>5, <2>2, FS_RemoveElement DEF Extra
  <2>3. CASE l \in Opens <=> pc[c] \in Opens
    <3>1. Opening' = Opening BY <1>2, <1>5, <2>3
    <3> QED
      BY <1>3, <1>4, <2>3, <3>1 DEF Extra
  <2> QED
    BY <2>1, <2>2, <2>3
<1>7. live = Pooled(client) + Cardinality(Opening) BY CountIs DEF Counted
<1>8. live' = Pooled(client') + Cardinality(Opening')
  BY <1>4, <1>6, <1>7 DEF Pooled, Extra
<1>9. live' \in 0 .. MaxPerKey
  <2>1. Cardinality(Opening') \in Nat BY <1>6, FS_CardinalityType
  <2> QED
    BY <1>8, <2>1 DEF Pooled
<1>10. LiveIsCounted' BY <1>8 DEF LiveIsCounted, Pooled, Opening, Opens
<1> QED
  BY <1>6, <1>9, <1>10 DEF Counted

\* Nobody moves but those who are woken.
LEMMA CountRests ==
  ASSUME LeaseInv, Counted, Queue(pc), live' = live + Pooled(client') - Pooled(client), live' <= MaxPerKey
  PROVE  Counted'
<1>1. Opening' = Opening BY DEF Queue, Opening, Opens
<1>2. IsFiniteSet(Opening) BY DEF Counted
<1>3. Cardinality(Opening) \in Nat BY <1>2, FS_CardinalityType
<1>4. live = Pooled(client) + Cardinality(Opening) BY CountIs DEF Counted
<1>5. live' = Pooled(client') + Cardinality(Opening') BY <1>1, <1>3, <1>4 DEF Pooled
<1>6. live' \in 0 .. MaxPerKey BY <1>1, <1>3, <1>5 DEF Pooled
<1>7. LiveIsCounted' BY <1>5 DEF LiveIsCounted, Pooled, Opening, Opens
<1> QED
  BY <1>1, <1>2, <1>6, <1>7 DEF Counted

\* A pooled connection and a checkout that opens one are counted.
LEMMA SomethingLives ==
  ASSUME Counted, client # NoConn \/ (\E c \in Checkouts : pc[c] \in Opens)
  PROVE  live > 0 /\ live - 1 <= MaxPerKey
<1>1. IsFiniteSet(Opening) /\ live = Pooled(client) + Cardinality(Opening) /\ live \in 0 .. MaxPerKey
  BY CountIs DEF Counted
<1>2. Cardinality(Opening) \in Nat /\ (Opening # {} => Cardinality(Opening) # 0)
  BY <1>1, FS_CardinalityType, FS_EmptySet
<1>3. (\E c \in Checkouts : pc[c] \in Opens) => Opening # {} BY DEF Opening
<1> QED
  BY <1>1, <1>2, <1>3, PoolAssumption DEF Pooled

-----------------------------------------------------------------------------
(* The slot of the one that dials, and the map. *)

LEMMA DialersHold ==
  ASSUME LeaseInv, DialerHolds, NEW c \in Checkouts, NEW l, pc[c] # "wait", Queue(To(c, l)),
         l = "dial" => holder' = c,
         holder' = holder \/ holder = c \/ state # "dialing"
  PROVE  DialerHolds'
<1>1. /\ \A d \in Checkouts : d # c => (pc'[d] = "dial" => pc[d] = "dial")
      /\ pc'[c] = "dial" => l = "dial"
  BY Moved DEF Queue
<1>2. \A d \in Checkouts : pc[d] = "dial" => holder = d /\ state = "dialing"
  BY DEF DialerHolds, LeaseInv, DialerHasSlot
<1> QED
  BY <1>1, <1>2 DEF DialerHolds

LEMMA DialersRest ==
  ASSUME LeaseInv, DialerHolds, Queue(pc), holder' = holder \/ state # "dialing"
  PROVE  DialerHolds'
BY DEF DialerHolds, LeaseInv, DialerHasSlot, Queue

Used == live > 0 \/ \E c \in Checkouts : pc[c] \in Working

LEMMA MapKept ==
  ASSUME EntryStaysMapped, closed' = closed, Used' => Used, live' \in Nat,
         mapped' = mapped \/ ForgetIfUnused
  PROVE  EntryStaysMapped'
<1>1. CASE mapped' = mapped
  BY <1>1, Zenon DEF EntryStaysMapped, Used
<1>2. CASE ForgetIfUnused
  <2> DEFINE rests == live' = 0 /\ state' = "empty" /\ \A c \in Checkouts : pc'[c] \notin Working
  <2>1. mapped' <=> mapped /\ ~rests BY <1>2, Zenon DEF ForgetIfUnused
  <2>2. rests => ~Used' BY DEF Used
  <2> HIDE DEF rests
  <2> QED
    BY <2>1, <2>2, Zenon DEF EntryStaysMapped, Used
<1> QED
  BY <1>1, <1>2

-----------------------------------------------------------------------------
(* Types. *)

LEMMA ForgettingIsFlag == ASSUME ForgetIfUnused PROVE mapped' \in BOOLEAN
BY Zenon DEF ForgetIfUnused

LEMMA NamesInType ==
  ASSUME NEW c \in Checkouts
  PROVE  c \in Checkouts \cup {NoOne} /\ FlowOf[c] \in {FlowOf[d] : d \in Checkouts} \cup {NoFlow}
OBVIOUS

LEMMA ResumeTypes == ASSUME OtherTypes, Flags, NEW c \in Checkouts, Resume(c) PROVE OtherTypes' /\ Flags'
<1>0. NoOne \in Checkouts \cup {NoOne} /\ NoFlow \in {FlowOf[d] : d \in Checkouts} \cup {NoFlow}
  OBVIOUS
<1>1. CASE Refuse(c)
  <2>1. mapped' \in BOOLEAN BY <1>1, ForgettingIsFlag DEF Refuse
  <2> QED
    BY <1>1, <2>1 DEF Refuse, entryVars, Deadlines, Yield, OtherTypes, Flags
<1>2. CASE TakeIdle(c)
  BY <1>2, NamesInType DEF TakeIdle, Slot, poolVars, Deadlines, Yield, OtherTypes, Flags
<1>3. CASE TakeDead(c) \/ Reclaim(c)
  BY <1>3, NamesInType
  DEF TakeDead, Reclaim, Drop, EmptySlot, Slot, poolVars, GoOn, OtherTypes, Flags
<1>4. CASE Dial(c)
  BY <1>4, NamesInType DEF Dial, Slot, poolVars, Yield, OtherTypes, Flags
<1>5. CASE Overflow(c)
  BY <1>5 DEF Overflow, poolVars, Deadlines, Yield, OtherTypes, Flags
<1>6. CASE Busy(c)
  <2>1. mapped' \in BOOLEAN BY <1>6, ForgettingIsFlag DEF Busy
  <2> QED
    BY <1>6, <2>1 DEF Busy, entryVars, Deadlines, Yield, OtherTypes, Flags
<1>7. CASE Wait(c)
  BY <1>7 DEF Wait, entryVars, poolVars, Yield, OtherTypes, Flags
<1> QED
  BY <1>1, <1>2, <1>3, <1>4, <1>5, <1>6, <1>7 DEF Resume

LEMMA AnsweredTypes == ASSUME OtherTypes, Flags, NEW c \in Checkouts, Answered(c) PROVE OtherTypes' /\ Flags'
<1>1. CASE Validated(c)
  BY <1>1 DEF Validated, entryVars, poolVars, Deadlines, Yield, GoOn, OtherTypes, Flags
<1>2. CASE ValidationFails(c)
  BY <1>2 DEF ValidationFails, Drop, EmptySlot, Slot, entryVars, poolVars, GoOn, OtherTypes, Flags
<1>3. CASE DialFails(c)
  <2>1. mapped' \in BOOLEAN BY <1>3, ForgettingIsFlag DEF DialFails
  <2> QED
    BY <1>3, <2>1 DEF DialFails, EmptySlot, Slot, Deadlines, Yield, OtherTypes, Flags
<1>4. CASE DialedLate(c)
  <2>1. mapped' \in BOOLEAN BY <1>4, ForgettingIsFlag DEF DialedLate
  <2> QED
    BY <1>4, <2>1 DEF DialedLate, Deadlines, Yield, OtherTypes, Flags
<1>5. CASE Dialed(c)
  <2>1. PICK k \in Conns : Slot("leased", k, FlowOf[c], c) /\ conn' = [conn EXCEPT ![c] = k]
    BY <1>5 DEF Dialed
  <2>2. UNCHANGED poolVars /\ Deadlines /\ Yield
    BY <1>5 DEF Dialed
  <2> QED
    BY <2>1, <2>2, NamesInType DEF Slot, poolVars, Deadlines, Yield, OtherTypes, Flags
<1>6. CASE HandOver(c)
  <2>1. PICK k \in Conns \cup {NoConn} : client' = k /\ flow' = NoFlow /\ old' = FALSE
    BY <1>6 DEF HandOver, Slot, Drop, EmptySlot
  <2> QED
    BY <1>6, <2>1 DEF HandOver, poolVars, GoOn, OtherTypes, Flags
<1>7. CASE OverflowFails(c)
  <2>1. mapped' \in BOOLEAN BY <1>7, ForgettingIsFlag DEF OverflowFails
  <2> QED
    BY <1>7, <2>1 DEF OverflowFails, OtherTypes, Flags
<1>8. CASE OverflowDialed(c)
  BY <1>8 DEF OverflowDialed, entryVars, poolVars, OtherTypes, Flags
<1> QED
  BY <1>1, <1>2, <1>3, <1>4, <1>5, <1>6, <1>7, <1>8 DEF Answered

LEMMA GiveBackTypes == ASSUME OtherTypes, Flags, NEW c \in Checkouts, GiveBack(c) PROVE OtherTypes' /\ Flags'
<1>1. CASE ReleaseStale(c)
  BY <1>1 DEF ReleaseStale, entryVars, poolVars, OtherTypes, Flags
<1>2. CASE ReleaseDropped(c)
  <2>1. mapped' \in BOOLEAN BY <1>2, ForgettingIsFlag DEF ReleaseDropped
  <2> QED
    BY <1>2, <2>1 DEF ReleaseDropped, Drop, EmptySlot, Slot, OtherTypes, Flags
<1>3. CASE Release(c)
  BY <1>3 DEF Release, Drop, EmptySlot, Slot, poolVars, OtherTypes, Flags
<1>4. CASE ReleaseOverflow(c)
  BY <1>4 DEF ReleaseOverflow, poolVars, OtherTypes, Flags
<1> QED
  BY <1>1, <1>2, <1>3, <1>4 DEF GiveBack

LEMMA TypesStep == ASSUME OtherTypes, Flags, [Next]_vars PROVE OtherTypes' /\ Flags'
<1>1. ASSUME NEW c \in Checkouts, Arrive(c) PROVE OtherTypes' /\ Flags'
  BY <1>1 DEF Arrive, entryVars, GoOn, Yield, OtherTypes, Flags
<1>2. ASSUME NEW c \in Checkouts, Timer(c) PROVE OtherTypes' /\ Flags'
  BY <1>2 DEF Timer, entryVars, poolVars, OtherTypes, Flags
<1>3. ASSUME NEW c \in Checkouts, RunsLate(c) PROVE OtherTypes' /\ Flags'
  BY <1>3 DEF RunsLate, entryVars, poolVars, OtherTypes, Flags
<1>4. CASE Evict
  <2>1. mapped' \in BOOLEAN BY <1>4, ForgettingIsFlag DEF Evict
  <2> QED
    BY <1>4, <2>1 DEF Evict, EmptySlot, Slot, OtherTypes, Flags
<1>5. CASE CloseAll
  <2>1. mapped' \in BOOLEAN BY <1>5, Zenon DEF CloseAll
  <2> QED
    BY <1>5, <2>1 DEF CloseAll, EmptySlot, Slot, entryVars, OtherTypes, Flags
<1>6. CASE LeaseAges \/ RefusalExpires \/ UNCHANGED vars
  BY <1>6 DEF LeaseAges, RefusalExpires, vars, entryVars, poolVars, callVars, OtherTypes, Flags
<1> QED
  BY <1>1, <1>2, <1>3, <1>4, <1>5, <1>6, ResumeTypes, AnsweredTypes, GiveBackTypes DEF Next

-----------------------------------------------------------------------------
(* The actions, once more. *)

MapMoves ==
  closed' \/ mapped' \/ (closed' = closed /\ (Used' => Used) /\ (mapped' = mapped \/ ForgetIfUnused))

LEMMA MapFollows ==
  ASSUME EntryStaysMapped, MapMoves, Counted'
  PROVE  EntryStaysMapped'
<1>1. live' \in Nat BY DEF Counted
<1>2. CASE closed' \/ mapped' BY <1>2 DEF EntryStaysMapped
<1> QED
  BY <1>1, <1>2, MapKept DEF MapMoves

\* c moves to l.
LEMMA Stepping ==
  ASSUME LeaseInv, EntryInv, [Next]_vars, NEW c \in Checkouts, NEW l, pc[c] # "wait", Queue(To(c, l)),
         QueueInv', SleepersReserve', MapMoves, live' <= MaxPerKey,
         live' = live + Extra(l) - Extra(pc[c]) + Pooled(client') - Pooled(client),
         l = "dial" => holder' = c,
         holder' = holder \/ holder = c \/ state # "dialing"
  PROVE  EntryInv'
<1>1. Counted' BY CountMoves DEF EntryInv
<1>2. DialerHolds' BY DialersHold DEF EntryInv
<1>3. EntryStaysMapped' BY <1>1, MapFollows DEF EntryInv
<1>4. OtherTypes' /\ Flags' BY TypesStep DEF EntryInv
<1> QED
  BY <1>1, <1>2, <1>3, <1>4 DEF EntryInv

\* Nobody moves but those who are woken.
LEMMA StandingBy ==
  ASSUME LeaseInv, EntryInv, [Next]_vars, Queue(pc), QueueInv', SleepersReserve', MapMoves,
         live' <= MaxPerKey, live' = live + Pooled(client') - Pooled(client),
         holder' = holder \/ state # "dialing"
  PROVE  EntryInv'
<1>1. Counted' BY CountRests DEF EntryInv
<1>2. DialerHolds' BY DialersRest DEF EntryInv
<1>3. EntryStaysMapped' BY <1>1, MapFollows DEF EntryInv
<1>4. OtherTypes' /\ Flags' BY TypesStep DEF EntryInv
<1> QED
  BY <1>1, <1>2, <1>3, <1>4 DEF EntryInv

\* Whoever is at work or has a pooled or an extra connection uses the entry.
LEMMA Using ==
  ASSUME EntryInv
  PROVE  /\ \A c \in Checkouts : pc[c] \in Working \cup Opens => Used
         /\ client # NoConn => Used
BY SomethingLives DEF EntryInv, Used, Working, Opens

\* The slot is emptied: there was a connection in it.
LEMMA Dropping ==
  ASSUME EntryInv, client # NoConn, Drop
  PROVE  /\ NoSlot /\ live' <= MaxPerKey
         /\ live' = live + Pooled(client') - Pooled(client)
<1>1. live \in Nat /\ live - 1 <= MaxPerKey BY SomethingLives DEF EntryInv, Counted
<1> QED
  BY <1>1 DEF Drop, EmptySlot, Slot, NoSlot, Pooled

LEMMA Bounded == EntryInv => live \in Nat /\ live <= MaxPerKey /\ MaxPerKey \in Nat
BY PoolAssumption DEF EntryInv, Counted

LEMMA ArriveEntry == ASSUME LeaseInv, EntryInv, NEW c \in Checkouts, Arrive(c), Next PROVE EntryInv'
<1>1. PICK l \in {"done", "loop"} : Goto(c, l) 
  BY DEF Arrive
<1>2. /\ pc[c] = "new" /\ thread = NoOne
      /\ UNCHANGED <<state, client, holder, live, waiters, handoff, closed>>
  BY DEF Arrive, entryVars, queueVars
<1>3. Queue(To(c, l)) BY <1>1, <1>2, Going
<1>4. handoff # c /\ l \in Places BY <1>2, CheckoutsAssumption DEF EntryInv, QueueInv, Places, Working
<1>5. QueueInv' BY <1>1, <1>2, <1>4, GoingQueue DEF EntryInv
<1>6. SleepersReserve' BY <1>2 DEF EntryInv, SleepersReserve, Free
<1>7. MapMoves
  <2>1. CASE mapped' = TRUE BY <2>1 DEF MapMoves
  <2>2. CASE Goto(c, "done") /\ mapped' = mapped
    <3>1. Used' => Used BY <1>2, <2>2 DEF Used, Goto, To, Working, EntryInv, QueueInv
    <3> QED
      BY <1>2, <2>2, <3>1 DEF MapMoves
  <2> QED
    BY <2>1, <2>2, Zenon DEF Arrive
<1>8. Extra(l) = 0 /\ Extra(pc[c]) = 0 /\ live \in Nat /\ live <= MaxPerKey
  BY <1>2, Bounded DEF Extra, Opens
<1> QED
  BY <1>2, <1>3, <1>5, <1>6, <1>7, <1>8, Stepping DEF Pooled

LEMMA ResumeEntry == ASSUME LeaseInv, EntryInv, NEW c \in Checkouts, Resume(c), Next PROVE EntryInv'
<1>0. /\ pc[c] = "loop" /\ pc[c] # "wait" /\ conn[c] = NoConn /\ Extra(pc[c]) = 0 /\ Used
      /\ Extra("done") = 0 /\ Extra("loop") = 0 /\ Extra("held") = 0 /\ Extra("validate") = 0
      /\ Extra("wait") = 0 /\ Extra("dial") = 1 /\ Extra("overdial") = 1
  BY Holds, Using DEF Resume, Runs, WithConn, Extra, Opens, Working
<1>00. {"done", "loop", "held", "validate", "wait", "dial", "overdial"} \subseteq Places
  BY DEF Places, Working, Holding
<1>1. CASE Refuse(c)
  <2>1. /\ pc' = [d \in Checkouts |-> IF d = c THEN "done" ELSE IF d \in waiters THEN "loop" ELSE pc[d]]
        /\ waiters' = {} /\ UNCHANGED <<state, client, holder, live, closed>> /\ ForgetIfUnused
        /\ handoff' = IF handoff = c THEN NoOne ELSE handoff
    BY <1>1 DEF Refuse, entryVars
  <2>2. Queue(To(c, "done"))
    BY <1>0, <2>1, Moved DEF Queue, LeaseInv, PoolTypes
  <2>3. QueueInv' /\ SleepersReserve' BY <1>00, <2>1 DEF EntryInv, QueueInv, SleepersReserve
  <2>4. MapMoves BY <1>0, <2>1 DEF MapMoves
  <2> QED
    BY <1>0, <2>1, <2>2, <2>3, <2>4, Stepping, Bounded DEF Pooled
<1>2. CASE TakeIdle(c)
  <2>1. PICK l \in {"held", "validate"} : Goto(c, l)
    BY <1>2 DEF TakeIdle
  <2>2. /\ state' = "leased" /\ client' = client /\ state = "idle" /\ handoff' = NoOne
        /\ UNCHANGED <<live, waiters, mapped, closed>> /\ MyTurn(c)
    BY <1>2 DEF TakeIdle, Slot, poolVars
  <2>3. Queue(To(c, l)) BY <1>0, <2>1, <2>2, Going
  <2>4. QueueInv' BY <1>00, <2>1, <2>2, GoingQueue, CheckoutsAssumption DEF EntryInv
  <2>5. SleepersReserve' BY <2>2 DEF SleepersReserve, Free
  <2>6. MapMoves BY <1>0, <2>2 DEF MapMoves
  <2> QED
    BY <1>0, <2>1, <2>2, <2>3, <2>4, <2>5, <2>6, Stepping, Bounded DEF Pooled
<1>3. CASE TakeDead(c) \/ Reclaim(c)
  <2>1. Drop /\ Wake(pc) /\ UNCHANGED <<mapped, closed>> /\ state \in {"idle", "leased"}
    BY <1>3 DEF TakeDead, Reclaim, Leaked, poolVars
  <2>2. client # NoConn BY <2>1 DEF LeaseInv, SlotIsRight
  <2>3. Queue(pc) /\ QueueInv' /\ SleepersReserve' BY <2>1, WakeOnly, WakeReserves DEF EntryInv
  <2>4. MapMoves BY <1>0, <2>1 DEF MapMoves
  <2> QED
    BY <2>1, <2>2, <2>3, <2>4, Dropping, StandingBy
<1>4. CASE Dial(c)
  <2>1. /\ Goto(c, "dial") /\ UNCHANGED <<waiters, mapped, closed>> /\ state = "empty" /\ live < MaxPerKey
        /\ state' = "dialing" /\ client' = NoConn /\ holder' = c /\ live' = live + 1 /\ handoff' = NoOne
    BY <1>4 DEF Dial, Slot, poolVars
  <2>2. Queue(To(c, "dial")) /\ client = NoConn BY <1>0, <2>1, Going DEF LeaseInv, SlotIsRight
  <2>3. QueueInv' BY <1>00, <2>1, GoingQueue, CheckoutsAssumption DEF EntryInv
  <2>4. SleepersReserve' BY <2>1 DEF SleepersReserve, Free
  <2>5. MapMoves BY <1>0, <2>1 DEF MapMoves
  <2> QED
    BY <1>0, <2>1, <2>2, <2>3, <2>4, <2>5, Stepping, Bounded DEF Pooled
<1>5. CASE Overflow(c)
  <2>1. /\ PassOn(c, "overdial") /\ Blocked(c) /\ live < MaxPerKey /\ live' = live + 1
        /\ UNCHANGED <<state, client, holder, mapped, closed>>
    BY <1>5 DEF Overflow, poolVars
  <2>2. Queue(To(c, "overdial")) BY <1>0, <2>1, Passing
  <2>3. QueueInv' /\ (Free /\ waiters' # {} => handoff' # NoOne)
    BY <1>00, <2>1, PassingReserves DEF EntryInv
  <2>4. Free' => Free BY <2>1, Bounded DEF Free
  <2>5. SleepersReserve' BY <2>3, <2>4 DEF SleepersReserve
  <2>6. MapMoves BY <1>0, <2>1 DEF MapMoves
  <2> QED
    BY <1>0, <2>1, <2>2, <2>3, <2>5, <2>6, Stepping, Bounded DEF Pooled
<1>6. CASE Busy(c) \/ Wait(c)
  <2>1. PICK l \in {"done", "wait"} : PassOn(c, l)
    BY <1>6 DEF Busy, Wait
  <2>2. /\ Blocked(c) /\ UNCHANGED <<state, client, holder, live, closed>>
        /\ mapped' = mapped \/ ForgetIfUnused
    BY <1>6 DEF Busy, Wait, poolVars, entryVars
  <2>3. Queue(To(c, l)) BY <1>0, <2>1, Passing
  <2>4. QueueInv' /\ (Free /\ waiters' # {} => handoff' # NoOne)
    BY <1>00, <2>1, <2>2, PassingReserves DEF EntryInv
  <2>5. SleepersReserve' BY <2>2, <2>4 DEF SleepersReserve, Free
  <2>6. MapMoves BY <1>0, <2>2 DEF MapMoves
  <2> QED
    BY <1>0, <2>1, <2>2, <2>3, <2>4, <2>5, <2>6, Stepping, Bounded DEF Pooled
<1> QED
  BY <1>1, <1>2, <1>3, <1>4, <1>5, <1>6 DEF Resume

LEMMA AnsweredEntry == ASSUME LeaseInv, EntryInv, NEW c \in Checkouts, Answered(c), Next PROVE EntryInv'
<1>0. /\ pc[c] \in {"validate", "dial", "overdial"} /\ pc[c] # "wait" /\ pc[c] # "loop" /\ Used
      /\ Extra("done") = 0 /\ Extra("loop") = 0 /\ Extra("held") = 0 /\ Extra("validate") = 0
      /\ Extra("loose") = 0 /\ Extra("over") = 1 /\ Extra("dial") = 1 /\ Extra("overdial") = 1
      /\ thread = NoOne /\ live \in Nat /\ live <= MaxPerKey
  BY Using, Bounded DEF Answered, Extra, Opens, Working
<1>00. /\ {"done", "loop", "held", "loose", "over"} \subseteq Places
       /\ handoff # c /\ c # NoOne
  BY <1>0, CheckoutsAssumption DEF Places, Working, Holding, EntryInv, QueueInv
<1>000. pc[c] = "dial" => live - 1 <= MaxPerKey /\ holder = c /\ state = "dialing" /\ client = NoConn
  BY <1>0, Bounded DEF LeaseInv, SlotIsRight, DialerHasSlot, EntryInv, DialerHolds
<1>1. CASE Validated(c)
  <2>1. PICK l \in {"held", "loop"} : Goto(c, l) /\ (l = "loop" => thread' = c)
    BY <1>1 DEF Validated, GoOn
  <2>2. pc[c] = "validate" /\ UNCHANGED <<state, client, holder, live, waiters, handoff, mapped, closed>>
    BY <1>1 DEF Validated, entryVars, queueVars, poolVars
  <2>3. Queue(To(c, l)) BY <1>0, <2>1, <2>2, Going
  <2>4. QueueInv' BY <1>00, <2>1, <2>2, GoingQueue DEF EntryInv
  <2>5. SleepersReserve' BY <1>0, <2>2 DEF SleepersReserve, Free, EntryInv
  <2>6. MapMoves BY <1>0, <2>2 DEF MapMoves
  <2> QED
    BY <1>0, <2>1, <2>2, <2>3, <2>4, <2>5, <2>6, Stepping DEF Pooled
<1>2. CASE ValidationFails(c)
  <2>1. pc[c] = "validate" /\ thread' = c /\ UNCHANGED <<mapped, closed>>
    BY <1>2 DEF ValidationFails, GoOn, poolVars
  <2>2. MapMoves BY <1>0, <2>1 DEF MapMoves
  <2>3. CASE Owns(c) /\ Drop /\ Wake(To(c, "loop"))
    <3>1. client # NoConn /\ holder = c BY <2>1, <2>3, Holds DEF Owns, WithConn
    <3>2. Queue(To(c, "loop")) /\ QueueInv' /\ SleepersReserve'
      BY <1>0, <1>00, <2>3, Awake, AwakeReserves DEF EntryInv
    <3> QED
      BY <1>0, <2>1, <2>2, <2>3, <3>1, <3>2, Dropping, Stepping
  <2>4. CASE Goto(c, "loop") /\ UNCHANGED <<entryVars, queueVars>>
    <3>1. UNCHANGED <<client, holder, live, waiters, handoff>> BY <2>4 DEF entryVars, queueVars
    <3>2. Queue(To(c, "loop")) BY <1>0, <2>4, <3>1, Going
    <3>3. QueueInv' BY <1>00, <2>4, <3>1, GoingQueue DEF EntryInv
    <3>4. SleepersReserve' BY <1>00, <2>1 DEF SleepersReserve
    <3> QED
      BY <1>0, <2>1, <2>2, <3>1, <3>2, <3>3, <3>4, Stepping DEF Pooled
  <2> QED
    BY <1>2, <2>3, <2>4 DEF ValidationFails
<1>3. CASE DialFails(c)
  <2>1. /\ pc[c] = "dial" /\ live' = live - 1 /\ Wake(To(c, "done")) /\ closed' = closed /\ ForgetIfUnused
        /\ holder = c => client' = NoConn
    BY <1>3 DEF DialFails, EmptySlot, Slot
  <2>2. Queue(To(c, "done")) /\ QueueInv' /\ SleepersReserve'
    BY <1>0, <1>00, <2>1, Awake, AwakeReserves DEF EntryInv
  <2>3. MapMoves BY <1>0, <2>1 DEF MapMoves
  <2> QED
    BY <1>0, <1>000, <2>1, <2>2, <2>3, Stepping DEF Pooled
<1>4. CASE DialedLate(c)
  <2>1. /\ pc[c] = "dial" /\ live' = live - 1 /\ Goto(c, "loose") /\ ForgetIfUnused
        /\ UNCHANGED <<state, client, holder, waiters, handoff, closed>>
    BY <1>4 DEF DialedLate, queueVars
  <2>2. Queue(To(c, "loose")) BY <1>0, <2>1, Going
  <2>3. QueueInv' BY <1>00, <2>1, GoingQueue DEF EntryInv
  <2>4. SleepersReserve' BY <1>000, <2>1 DEF SleepersReserve, Free
  <2>5. MapMoves BY <1>0, <2>1 DEF MapMoves
  <2> QED
    BY <1>0, <1>000, <2>1, <2>2, <2>3, <2>4, <2>5, Stepping DEF Pooled
<1>5. CASE Dialed(c)
  <2>1. PICK k \in Conns : Unused(k) /\ Slot("leased", k, FlowOf[c], c)
    BY <1>5 DEF Dialed
  <2>2. /\ pc[c] = "dial" /\ Goto(c, "held") /\ UNCHANGED <<live, waiters, handoff, mapped, closed>>
    BY <1>5 DEF Dialed, queueVars, poolVars
  <2>3. state' = "leased" /\ client' = k /\ k # NoConn BY <2>1, PoolAssumption DEF Slot
  <2>4. Queue(To(c, "held")) BY <1>0, <2>2, Going
  <2>5. QueueInv' BY <1>00, <2>2, GoingQueue DEF EntryInv
  <2>6. SleepersReserve' BY <2>3 DEF SleepersReserve, Free
  <2>7. MapMoves BY <1>0, <2>2 DEF MapMoves
  <2> QED
    BY <1>0, <1>000, <2>2, <2>3, <2>4, <2>5, <2>6, <2>7, Stepping DEF Pooled
<1>6. CASE HandOver(c)
  <2>1. pc[c] = "dial" /\ Wake(To(c, "loop")) /\ UNCHANGED <<mapped, closed>>
    BY <1>6 DEF HandOver, poolVars
  <2>2. Queue(To(c, "loop")) /\ QueueInv' /\ SleepersReserve'
    BY <1>0, <1>00, <2>1, Awake, AwakeReserves DEF EntryInv
  <2>3. MapMoves BY <1>0, <2>1 DEF MapMoves
  <2>4. \/ client' # NoConn /\ live' = live
        \/ client' = NoConn /\ live' = live - 1
    BY <1>6, PoolAssumption DEF HandOver, Slot, Drop, EmptySlot
  <2> QED
    BY <1>0, <1>000, <2>1, <2>2, <2>3, <2>4, Stepping DEF Pooled
<1>7. CASE OverflowFails(c)
  <2>1. /\ pc[c] = "overdial" /\ live' = live - 1 /\ Wake(To(c, "done")) /\ ForgetIfUnused
        /\ UNCHANGED <<client, holder, closed>>
    BY <1>7 DEF OverflowFails
  <2>2. Queue(To(c, "done")) /\ QueueInv' /\ SleepersReserve'
    BY <1>0, <1>00, <2>1, Awake, AwakeReserves DEF EntryInv
  <2>3. MapMoves BY <1>0, <2>1 DEF MapMoves
  <2>4. live - 1 <= MaxPerKey BY <1>0, PoolAssumption
  <2> QED
    BY <1>0, <2>1, <2>2, <2>3, <2>4, Stepping DEF Pooled
<1>8. CASE OverflowDialed(c)
  <2>1. /\ pc[c] = "overdial" /\ Goto(c, "over")
        /\ UNCHANGED <<state, client, holder, live, waiters, handoff, mapped, closed, thread>>
    BY <1>8 DEF OverflowDialed, entryVars, queueVars, poolVars
  <2>2. Queue(To(c, "over")) BY <1>0, <2>1, Going
  <2>3. QueueInv' BY <1>00, <2>1, GoingQueue DEF EntryInv
  <2>4. SleepersReserve' BY <2>1 DEF SleepersReserve, Free, EntryInv
  <2>5. MapMoves BY <1>0, <2>1 DEF MapMoves
  <2> QED
    BY <1>0, <2>1, <2>2, <2>3, <2>4, <2>5, Stepping DEF Pooled
<1> QED
  BY <1>1, <1>2, <1>3, <1>4, <1>5, <1>6, <1>7, <1>8 DEF Answered

LEMMA GiveBackEntry == ASSUME LeaseInv, EntryInv, NEW c \in Checkouts, GiveBack(c), Next PROVE EntryInv'
<1>0. /\ pc[c] \in Holding /\ pc[c] # "wait" /\ pc[c] # "loop" /\ thread = NoOne
      /\ Extra("done") = 0 /\ Extra("held") = 0 /\ Extra("loose") = 0 /\ Extra("over") = 1
      /\ live \in Nat /\ live <= MaxPerKey /\ MaxPerKey \in Nat
  BY Bounded DEF GiveBack, ReleaseStale, ReleaseDropped, Release, ReleaseOverflow, Extra, Opens, Holding
<1>00. "done" \in Places /\ handoff # c /\ c # NoOne
  BY <1>0, CheckoutsAssumption DEF Places, EntryInv, QueueInv
<1>1. CASE ReleaseStale(c)
  <2>1. /\ pc[c] = "held" /\ Goto(c, "done")
        /\ UNCHANGED <<state, client, holder, live, waiters, handoff, mapped, closed, thread>>
    BY <1>1 DEF ReleaseStale, entryVars, queueVars, poolVars
  <2>2. Queue(To(c, "done")) BY <1>0, <2>1, Going
  <2>3. QueueInv' BY <1>00, <2>1, GoingQueue DEF EntryInv
  <2>4. SleepersReserve' BY <2>1 DEF SleepersReserve, Free, EntryInv
  <2>5. Used' => Used BY <1>0, <2>1 DEF Used, Goto, To, Working, EntryInv, QueueInv
  <2>6. MapMoves BY <2>1, <2>5 DEF MapMoves
  <2> QED
    BY <1>0, <2>1, <2>2, <2>3, <2>4, <2>6, Stepping DEF Pooled
<1>2. CASE ReleaseDropped(c) \/ Release(c)
  <2>1. /\ pc[c] = "held" /\ Owns(c) /\ Wake(To(c, "done")) /\ closed' = closed
        /\ mapped' = mapped \/ ForgetIfUnused
    BY <1>2 DEF ReleaseDropped, Release, poolVars
  <2>2. client # NoConn /\ holder = c BY <2>1, Holds DEF Owns, WithConn
  <2>3. Queue(To(c, "done")) /\ QueueInv' /\ SleepersReserve'
    BY <1>0, <1>00, <2>1, Awake, AwakeReserves DEF EntryInv
  <2>4. MapMoves BY <2>1, <2>2, Using DEF MapMoves
  <2>5. CASE Drop
    BY <1>0, <2>1, <2>2, <2>3, <2>4, <2>5, Dropping, Stepping
  <2>6. CASE client' = client /\ live' = live
    BY <1>0, <2>1, <2>2, <2>3, <2>4, <2>6, Stepping DEF Pooled
  <2> QED
    BY <1>2, <2>5, <2>6 DEF ReleaseDropped, Release, Slot
<1>3. CASE ReleaseOverflow(c)
  <2>1. /\ pc[c] \in {"over", "loose"} /\ Wake(To(c, "done")) /\ UNCHANGED <<client, holder, mapped, closed>>
        /\ live' = IF pc[c] = "over" THEN live - 1 ELSE live
    BY <1>3 DEF ReleaseOverflow, poolVars
  <2>2. Queue(To(c, "done")) /\ QueueInv' /\ SleepersReserve'
    BY <1>0, <1>00, <2>1, Awake, AwakeReserves DEF EntryInv
  <2>3. Used' => Used
    <3>1. live' > 0 => live > 0 BY <1>0, <2>1
    <3>2. \A d \in Checkouts : pc'[d] \in Working => pc[d] \in Working
      BY <1>0, <2>2, Moved DEF Queue, Working
    <3> QED
      BY <3>1, <3>2 DEF Used
  <2>4. MapMoves BY <2>1, <2>3 DEF MapMoves
  <2> QED
    BY <1>0, <2>1, <2>2, <2>4, Stepping DEF Pooled
<1> QED
  BY <1>1, <1>2, <1>3 DEF GiveBack

LEMMA WorldEntry ==
  ASSUME LeaseInv, EntryInv, Next, Evict \/ CloseAll \/ (\E c \in Checkouts : Timer(c))
  PROVE  EntryInv'
<1>0. live \in Nat /\ live <= MaxPerKey BY Bounded
<1>1. CASE Evict \/ CloseAll
  <2>1. Wake(pc) BY <1>1 DEF Evict, CloseAll
  <2>2. Queue(pc) /\ QueueInv' /\ SleepersReserve' BY <2>1, WakeOnly, WakeReserves DEF EntryInv
  <2>3. state = "idle" => client # NoConn BY DEF LeaseInv, SlotIsRight
  <2>4. MapMoves
    <3>1. CASE Evict BY <2>3, <3>1, Using DEF Evict, MapMoves
    <3>2. CASE CloseAll BY <3>2 DEF CloseAll, MapMoves
    <3> QED
      BY <1>1, <3>1, <3>2
  <2>5. CASE state = "idle" /\ Drop
    BY <2>2, <2>3, <2>4, <2>5, Dropping, StandingBy
  <2>6. CASE UNCHANGED <<client, holder, live>>
    BY <1>0, <2>2, <2>4, <2>6, StandingBy DEF Pooled
  <2> QED
    BY <1>1, <2>5, <2>6 DEF Evict, CloseAll, Drop, entryVars
<1>2. ASSUME NEW c \in Checkouts, Timer(c) PROVE EntryInv'
  <2>1. /\ pc[c] = "wait" /\ pc' = [pc EXCEPT ![c] = "loop"] /\ waiters' = waiters \ {c}
        /\ handoff' = IF handoff = c THEN NoOne ELSE handoff
        /\ UNCHANGED <<state, client, holder, live, mapped, closed, thread>>
    BY <1>2 DEF Timer, Goto, To, entryVars, poolVars
  <2>2. Queue(pc) BY <2>1 DEF Queue, LeaseInv, PoolTypes
  <2>3. handoff # c /\ "loop" \in Places BY <2>1, CheckoutsAssumption DEF EntryInv, QueueInv, Places, Working
  <2>4. QueueInv' BY <2>1, <2>3 DEF EntryInv, QueueInv
  <2>5. SleepersReserve' BY <2>1, <2>3 DEF EntryInv, SleepersReserve, Free
  <2>6. Used BY <2>1, Using DEF Working
  <2>7. MapMoves BY <2>1, <2>6 DEF MapMoves
  <2> QED
    BY <1>0, <2>1, <2>2, <2>4, <2>5, <2>7, StandingBy DEF Pooled
<1> QED
  BY <1>1, <1>2

LEMMA EntryStep == LeaseInv /\ EntryInv /\ [Next]_vars => EntryInv'
<1> SUFFICES ASSUME LeaseInv, EntryInv, [Next]_vars PROVE EntryInv'
  OBVIOUS
<1>1. ASSUME LeaseAges \/ RefusalExpires \/ (\E c \in Checkouts : RunsLate(c)) \/ UNCHANGED vars
      PROVE  EntryInv'
  <2>1. UNCHANGED <<state, client, holder, live, pc, waiters, handoff, mapped, closed, thread>>
    BY <1>1
    DEF LeaseAges, RefusalExpires, RunsLate, vars, entryVars, queueVars, poolVars, callVars
  <2>2. Queue(pc) BY <2>1, Staying
  <2>3. QueueInv' /\ SleepersReserve' BY <2>1 DEF EntryInv, QueueInv, SleepersReserve, Free
  <2>4. Used' => Used BY <2>1 DEF Used
  <2>5. MapMoves BY <2>1, <2>4 DEF MapMoves
  <2>6. live \in Nat /\ live <= MaxPerKey BY Bounded
  <2> QED
    BY <2>1, <2>2, <2>3, <2>5, <2>6, StandingBy DEF Pooled
<1> QED
  BY <1>1, ArriveEntry, ResumeEntry, AnsweredEntry, GiveBackEntry, WorldEntry DEF Next

\* imap-pool.ts, rules 3 and 6 and the queue: however checkouts wait, run out of time,
\* dial, lose their lease or shut down, an inbox has no more connections than
\* entry.live says and no more than maxPerKey, nobody sleeps beside a connection or a
\* place that is free and reserved for nobody, and an entry in use is the one the map has.
THEOREM EntryKeepsItsBooks == Spec => []EntryIsSound
<1>1. Spec => [](LeaseInv /\ EntryInv)
  BY LeaseInit, LeaseStep, EntryInit, EntryStep, PTL DEF Spec
<1> QED
  BY <1>1, InvSound, PTL

-----------------------------------------------------------------------------
(* The order in which connections are given out. *)

\* Only two actions hand a connection to a checkout that has none.
LEMMA HandsOut ==
  ASSUME LeaseInv, [Next]_vars, NEW c \in Checkouts,
         pc[c] \in {"loop", "dial"}, pc'[c] \in WithConn
  PROVE  TakeIdle(c) \/ Dialed(c)
<1>0. ASSUME NEW d \in Checkouts, NEW l, pc[d] # "wait", Queue(To(d, l)), d = c => l \notin WithConn
      PROVE  FALSE
  <2>1. CASE d = c
    BY <1>0, <2>1, Moved DEF Queue, WithConn
  <2>2. CASE d # c
    BY <1>0, <2>2, Moved DEF Queue, WithConn
  <2> QED
    BY <2>1, <2>2
<1>00. ~Queue(pc) BY DEF Queue, WithConn
<1>1. ASSUME NEW d \in Checkouts, Arrive(d) PROVE FALSE
  <2>1. PICK l \in {"done", "loop"} : Goto(d, l)
    BY <1>1 DEF Arrive
  <2>2. pc[d] # "wait" /\ waiters' \subseteq waiters
    BY <1>1 DEF Arrive, queueVars
  <2> QED
    BY <1>0, <2>1, <2>2, Going DEF WithConn
<1>2. ASSUME NEW d \in Checkouts, Resume(d), ~TakeIdle(c) PROVE FALSE
  <2>0. pc[d] # "wait" BY <1>2 DEF Resume, Runs
  <2>1. CASE Refuse(d)
    BY <2>1 DEF Refuse, WithConn
  <2>2. CASE TakeIdle(d)
    <3>1. PICK l \in {"held", "validate"} : Goto(d, l)
      BY <2>2 DEF TakeIdle
    <3>2. waiters' = waiters /\ d # c BY <1>2, <2>2 DEF TakeIdle
    <3> QED
      BY <1>0, <2>0, <3>1, <3>2, Going
  <2>3. CASE TakeDead(d) \/ Reclaim(d)
    BY <1>00, <2>3, WakeOnly DEF TakeDead, Reclaim
  <2>4. CASE Dial(d)
    BY <1>0, <2>0, <2>4, Going DEF Dial, WithConn
  <2>5. CASE Overflow(d) \/ Busy(d) \/ Wait(d)
    <3>1. PICK l \in {"overdial", "done", "wait"} : PassOn(d, l)
      BY <2>5 DEF Overflow, Busy, Wait
    <3> QED
      BY <1>0, <2>0, <3>1, Passing DEF WithConn
  <2> QED
    BY <1>2, <2>1, <2>2, <2>3, <2>4, <2>5 DEF Resume
<1>3. ASSUME NEW d \in Checkouts, Answered(d), ~Dialed(c) PROVE FALSE
  <2>0. pc[d] # "wait" BY <1>3 DEF Answered
  <2>1. CASE Validated(d)
    <3>1. PICK l : Goto(d, l) BY <2>1 DEF Validated
    <3>2. d # c /\ waiters' = waiters BY <2>1 DEF Validated, queueVars
    <3> QED
      BY <1>0, <2>0, <3>1, <3>2, Going
  <2>2. CASE ValidationFails(d)
    <3>1. d # c BY <2>2 DEF ValidationFails
    <3>2. CASE Wake(To(d, "loop")) BY <1>0, <2>0, <3>1, <3>2, Awake
    <3>3. CASE Goto(d, "loop") /\ waiters' = waiters BY <1>0, <2>0, <3>1, <3>3, Going
    <3> QED
      BY <2>2, <3>2, <3>3 DEF ValidationFails, queueVars
  <2>3. CASE DialFails(d) \/ HandOver(d) \/ OverflowFails(d)
    <3>1. PICK l \in {"done", "loop"} : Wake(To(d, l))
      BY <2>3 DEF DialFails, HandOver, OverflowFails
    <3> QED
      BY <1>0, <2>0, <3>1, Awake DEF WithConn
  <2>4. CASE DialedLate(d) \/ OverflowDialed(d)
    <3>1. PICK l \in {"loose", "over"} : Goto(d, l) /\ waiters' = waiters
      BY <2>4 DEF DialedLate, OverflowDialed, queueVars
    <3> QED
      BY <1>0, <2>0, <3>1, Going DEF WithConn
  <2>5. CASE Dialed(d)
    <3>1. d # c BY <1>3, <2>5
    <3>2. Goto(d, "held") /\ waiters' = waiters BY <2>5 DEF Dialed, queueVars
    <3> QED
      BY <1>0, <2>0, <3>1, <3>2, Going
  <2> QED
    BY <1>3, <2>1, <2>2, <2>3, <2>4, <2>5 DEF Answered
<1>4. ASSUME NEW d \in Checkouts, GiveBack(d) PROVE FALSE
  <2>1. pc[d] # "wait" /\ (Wake(To(d, "done")) \/ (Goto(d, "done") /\ waiters' = waiters))
    BY <1>4 DEF GiveBack, ReleaseStale, ReleaseDropped, Release, ReleaseOverflow, queueVars
  <2> QED
    BY <1>0, <2>1, Awake, Going DEF WithConn
<1>5. ASSUME NEW d \in Checkouts, Timer(d) PROVE FALSE
  BY <1>5 DEF Timer, Goto, To, LeaseInv, PoolTypes, WithConn
<1>6. ASSUME Evict \/ CloseAll PROVE FALSE
  BY <1>00, <1>6, WakeOnly DEF Evict, CloseAll
<1>7. ASSUME LeaseAges \/ RefusalExpires \/ (\E d \in Checkouts : RunsLate(d)) \/ UNCHANGED vars
      PROVE  FALSE
  BY <1>7 DEF LeaseAges, RefusalExpires, RunsLate, vars, callVars, WithConn
<1> QED
  BY <1>1, <1>2, <1>3, <1>4, <1>5, <1>6, <1>7 DEF Next

\* imap-pool.ts, rule 8: the pooled connection goes to the checkout it was reserved for
\* or to the next of the queue, the one that dialled it included, in every step of every
\* pool.
THEOREM FirstComeFirstServed == Spec => ServedInOrder
<1> DEFINE InOrder ==
      \A c \in Checkouts :
        pc[c] \in {"loop", "dial"} /\ pc'[c] \in {"held", "validate"} =>
          handoff = c \/ waiters = {} \/ NextInQueue(waiters \cup {c}) = c
<1>1. LeaseInv /\ [Next]_vars => InOrder
  <2> SUFFICES ASSUME LeaseInv, [Next]_vars, NEW c \in Checkouts,
                      pc[c] \in {"loop", "dial"}, pc'[c] \in {"held", "validate"}
               PROVE  handoff = c \/ waiters = {} \/ NextInQueue(waiters \cup {c}) = c
    OBVIOUS
  <2>1. TakeIdle(c) \/ Dialed(c) BY HandsOut DEF WithConn
  <2> QED
    BY <2>1 DEF TakeIdle, MyTurn, Dialed, Outranked
<1>2. LeaseInv /\ [Next]_vars => [InOrder]_vars
  BY <1>1
<1> QED
  BY <1>2, LeaseInit, LeaseStep, PTL DEF Spec, ServedInOrder
=============================================================================
