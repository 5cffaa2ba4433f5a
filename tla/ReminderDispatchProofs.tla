----------------------- MODULE ReminderDispatchProofs -----------------------
(***************************************************************************)
(* One session per inbox, mail that is hidden is known and what has ended  *)
(* is over, for any number of sweepers, reminders, calls and mishaps.      *)
(*                                                                         *)
(* SessionInv.  A sweeper between its claim and its last write holds every *)
(* row it goes through, and one that acts goes through at least one.  So a *)
(* sweeper that looks after its claim and sees no other lease is alone,    *)
(* and one that acts is seen by every other that looks.                    *)
(*                                                                         *)
(* HiddenInv.  A call that is about to move a message, delete its row or   *)
(* report it cancelled, and a sweeper that is about to close the row,      *)
(* knows whether the message is in the folder for as long as it holds the  *)
(* row (CallerKnows, SweeperKnows); whoever does not hold a row leaves it  *)
(* alone (LeavesAlone).                                                    *)
(*                                                                         *)
(* LeasedIsActive.  A lease is taken of an active row, and none but its    *)
(* holder ends a leased row, so whoever writes an outcome under a lease    *)
(* writes over none.                                                       *)
(***************************************************************************)
EXTENDS ReminderDispatch, TLAPS

Acting == {"act", "write"}
AtWork == {"look again", "act", "write"}
Claimed == AtWork \cup {"give back"}

\* What a sweeper has claimed is its own; of a row that is none there is no lease.
LeasesHold ==
    /\ DOMAIN sweep = Sweepers /\ DOMAIN holder = Reminders /\ DOMAIN status = Reminders
    /\ rows \in [Sweepers -> SUBSET Reminders]
    /\ \A w \in Sweepers : sweep[w] \in Claimed => \A r \in rows[w] : holder[r] = w
    /\ \A w \in Sweepers : sweep[w] \in AtWork => rows[w] # {}
    /\ \A r \in Reminders : holder[r] \in Sweepers => status[r] # "none"

SessionInv == LeasesHold /\ OneSession

-----------------------------------------------------------------------------

LEMMA SessionInit == ReminderInit => SessionInv
BY ReminderAssumption
DEF ReminderInit, SessionInv, LeasesHold, OneSession, Claimed, AtWork, Nobody

\* A step that neither takes a sweeper's lease away nor makes one.
LEMMA NoLeaseMoves ==
    ASSUME SessionInv, UNCHANGED sweepers,
           DOMAIN holder' = Reminders, DOMAIN status' = Reminders,
           \A r \in Reminders : holder[r] \in Sweepers => holder'[r] = holder[r],
           \A r \in Reminders : holder'[r] \in Sweepers => holder'[r] = holder[r] /\ status'[r] # "none"
    PROVE  SessionInv'
BY DEF SessionInv, LeasesHold, OneSession, sweepers, Claimed, AtWork

LEMMA Taking ==
    ASSUME NEW R, NEW x, Take(R, x)
    PROVE  /\ DOMAIN holder' = Reminders
           /\ \A r \in Reminders : holder'[r] = IF r \in R THEN x ELSE holder[r]
BY DEF Take

LEMMA Names == /\ Nobody \notin Sweepers /\ "dead" \notin Sweepers /\ "stale" \notin Sweepers
               /\ Nobody \notin Callers /\ "dead" \notin Callers /\ "stale" \notin Callers
               /\ \A c \in Callers : c \notin Sweepers
BY ReminderAssumption DEF Nobody

\* The calls.
LEMMA CallersInv ==
    ASSUME SessionInv, NEW c \in Callers,
           InsertLeased(c) \/ LoadForChange(c) \/ CallerStep(c) \/ CallerDies(c)
    PROVE  SessionInv'
<1> USE Names DEF CallersOnly
<1>0. DOMAIN holder = Reminders /\ DOMAIN status = Reminders
      /\ \A r \in Reminders : holder[r] \in Sweepers => status[r] # "none"
  BY DEF SessionInv, LeasesHold
<1>1. CASE InsertLeased(c)
  <2>1. PICK s \in Snoozes :
          /\ status[s] = "none" /\ status' = [status EXCEPT ![s] = "pending"]
          /\ Take({s}, c) \/ Take({s}, "dead")
    BY <1>1 DEF InsertLeased
  <2>2. s \in Reminders /\ holder[s] \notin Sweepers
    BY <1>0, <2>1 DEF Reminders
  <2> QED
    BY <1>0, <1>1, <2>1, <2>2, Taking, NoLeaseMoves DEF InsertLeased
<1>2. CASE UNCHANGED <<holder, status, sweepers>>
  BY <1>0, <1>2, NoLeaseMoves
<1>3. CASE SaveMoved(c)
  <2> DEFINE s == about[c]
  <2>1. \/ UNCHANGED holder
        \/ holder[s] = c /\ Take({s}, Nobody)
        \/ holder[s] = c /\ holder' = [holder EXCEPT ![s] = "dead"]
        \/ holder[s] = c /\ holder' = [holder EXCEPT ![s] = c]
    BY <1>3 DEF SaveMoved, Mine
  <2>2. UNCHANGED <<status, sweepers>>
    BY <1>3 DEF SaveMoved
  <2> QED
    BY <1>0, <2>1, <2>2, Taking, NoLeaseMoves
<1>4. CASE UndoMove(c)
  <2>1. UNCHANGED holder \/ Take({about[c]} \cap {r \in Reminders : holder[r] = c}, "dead")
    BY <1>4 DEF UndoMove, reminderRows
  <2>2. UNCHANGED <<status, sweepers>>
    BY <1>4 DEF UndoMove, reminderRows
  <2> QED
    BY <1>0, <2>1, <2>2, Taking, NoLeaseMoves
<1>5. CASE DeleteRow(c)
  <2> DEFINE s == about[c]
  <2>1. \/ UNCHANGED <<holder, status>>
        \/ holder[s] = c /\ Take({s}, Nobody) /\ status' = [status EXCEPT ![s] = "none"]
        \/ holder[s] = c /\ Take({s}, "dead") /\ UNCHANGED status
    BY <1>5 DEF DeleteRow, Mine
  <2>2. UNCHANGED sweepers
    BY <1>5 DEF DeleteRow
  <2> QED
    BY <1>0, <2>1, <2>2, Taking, NoLeaseMoves
<1>6. CASE FinishReminder(c)
  <2>1. UNCHANGED status \/ \E st \in {"done", "cancelled"} : status' = [status EXCEPT ![about[c]] = st]
    BY <1>6 DEF FinishReminder
  <2> QED
    BY <1>0, <1>6, <2>1, NoLeaseMoves DEF FinishReminder
<1>7. CASE LeaseForCancel(c)
  <2>1. UNCHANGED holder \/ (holder[about[c]] = Nobody /\ (Take({about[c]}, c) \/ Take({about[c]}, "dead")))
    BY <1>7 DEF LeaseForCancel
  <2>2. UNCHANGED <<status, sweepers>>
    BY <1>7 DEF LeaseForCancel
  <2>3. /\ DOMAIN holder' = Reminders
        /\ \A r \in Reminders :
             holder'[r] = holder[r] \/ (holder[r] \notin Sweepers /\ holder'[r] \notin Sweepers)
    <3>1. CASE UNCHANGED holder
      BY <1>0, <3>1
    <3>2. CASE holder[about[c]] = Nobody /\ \E x \in {c, "dead"} : Take({about[c]}, x)
      BY <3>2, Taking
    <3> QED
      BY <2>1, <3>1, <3>2
  <2> QED
    BY <1>0, <2>2, <2>3, NoLeaseMoves
<1>8. CASE CancelReleases(c)
  <2> DEFINE s == about[c]
  <2>1. \/ UNCHANGED holder
        \/ holder[s] = c /\ (Take({s}, Nobody) \/ Take({s}, "dead"))
    BY <1>8 DEF CancelReleases, Mine
  <2>2. UNCHANGED status \/ status' = [status EXCEPT ![s] = "cancelled"]
    BY <1>8 DEF CancelReleases
  <2>3. UNCHANGED sweepers
    BY <1>8 DEF CancelReleases
  <2> QED
    BY <1>0, <2>1, <2>2, <2>3, Taking, NoLeaseMoves
<1>9. CASE CallerDies(c)
  BY <1>0, <1>9, NoLeaseMoves DEF CallerDies
<1> QED
  BY <1>1, <1>2, <1>3, <1>4, <1>5, <1>6, <1>7, <1>8, <1>9
  DEF CallerStep, LoadForChange, Move, CancelBringsBack, reminderRows

\* Time and the owner.
LEMMA WorldInv ==
    ASSUME SessionInv, NEW r \in Reminders, ComesDue(r) \/ HolderAges(r) \/ (r \in Snoozes /\ OwnerMoves(r))
    PROVE  SessionInv'
<1>0. DOMAIN holder = Reminders /\ DOMAIN status = Reminders
      /\ \A q \in Reminders : holder[q] \in Sweepers => status[q] # "none"
  BY DEF SessionInv, LeasesHold
<1>1. CASE UNCHANGED <<holder, status, sweepers>>
  BY <1>0, <1>1, NoLeaseMoves
<1>2. CASE HolderAges(r)
  BY <1>0, <1>2, Names, Taking, NoLeaseMoves DEF HolderAges
<1> QED
  BY <1>1, <1>2 DEF ComesDue, OwnerMoves, reminderRows

-----------------------------------------------------------------------------
(* The sweepers. *)

\* A step of w that keeps its leases, gives some back or loses them: of the leases
\* of the others none moves, and w goes through rows that are its own.
LEMMA SweeperMoves ==
    ASSUME SessionInv, NEW w \in Sweepers, NEW step, NEW R \in SUBSET Reminders,
           sweep' = [sweep EXCEPT ![w] = step], rows' = [rows EXCEPT ![w] = R],
           DOMAIN holder' = Reminders, DOMAIN status' = Reminders,
           \A r \in Reminders : holder[r] \in Sweepers \ {w} => holder'[r] = holder[r],
           \A r \in Reminders : holder'[r] \in Sweepers => holder'[r] \in {holder[r], w} /\ status'[r] # "none",
           step \in Claimed => \A r \in R : holder'[r] = w,
           step \in AtWork => R # {},
           step \in Acting => \/ sweep[w] \in Acting
                              \/ \A v \in Sweepers : sweep[v] \in Acting => v = w
    PROVE  SessionInv'
<1>1. /\ sweep'[w] = step /\ rows'[w] = R
      /\ \A v \in Sweepers : v # w => sweep'[v] = sweep[v] /\ rows'[v] = rows[v]
  BY DEF SessionInv, LeasesHold
<1>2. DOMAIN sweep' = Sweepers /\ rows' \in [Sweepers -> SUBSET Reminders]
  BY DEF SessionInv, LeasesHold
<1>3. \A v \in Sweepers : sweep'[v] \in Claimed => \A r \in rows'[v] : holder'[r] = v
  BY <1>1 DEF SessionInv, LeasesHold
<1>4. \A v \in Sweepers : sweep'[v] \in AtWork => rows'[v] # {}
  BY <1>1 DEF SessionInv, LeasesHold
<1>5. OneSession'
  BY <1>1 DEF SessionInv, OneSession, Acting
<1> QED
  BY <1>2, <1>3, <1>4, <1>5 DEF SessionInv, LeasesHold

\* A step of w by which no lease and no row moves.
LEMMA SweeperGoes ==
    ASSUME SessionInv, NEW w \in Sweepers, NEW step, GoTo(w, step),
           UNCHANGED <<rows, holder, status>>,
           step \in Claimed => sweep[w] \in Claimed,
           step \in AtWork => sweep[w] \in AtWork,
           step \in Acting => \/ sweep[w] \in Acting
                              \/ \A v \in Sweepers : sweep[v] \in Acting => v = w
    PROVE  SessionInv'
<1>1. rows' = [rows EXCEPT ![w] = rows[w]] /\ rows[w] \in SUBSET Reminders
  BY DEF SessionInv, LeasesHold
<1>2. /\ DOMAIN holder' = Reminders /\ DOMAIN status' = Reminders
      /\ \A r \in Reminders : holder[r] \in Sweepers \ {w} => holder'[r] = holder[r]
      /\ \A r \in Reminders : holder'[r] \in Sweepers => holder'[r] \in {holder[r], w} /\ status'[r] # "none"
  BY DEF SessionInv, LeasesHold
<1>3. /\ step \in Claimed => \A r \in rows[w] : holder'[r] = w
      /\ step \in AtWork => rows[w] # {}
  BY DEF SessionInv, LeasesHold
<1> QED
  BY <1>1, <1>2, <1>3, SweeperMoves DEF GoTo

\* A step by which w is through with its rows.
LEMMA SweeperStops ==
    ASSUME SessionInv, NEW w \in Sweepers, GoTo(w, "idle"), rows' = [rows EXCEPT ![w] = {}],
           UNCHANGED status, DOMAIN holder' = Reminders,
           \A r \in Reminders : holder'[r] = holder[r]
                               \/ (holder[r] \notin Sweepers \ {w} /\ holder'[r] \notin Sweepers)
    PROVE  SessionInv'
<1>1. /\ DOMAIN status' = Reminders
      /\ \A r \in Reminders : holder[r] \in Sweepers \ {w} => holder'[r] = holder[r]
      /\ \A r \in Reminders : holder'[r] \in Sweepers => holder'[r] \in {holder[r], w} /\ status'[r] # "none"
  BY DEF SessionInv, LeasesHold
<1>2. {} \in SUBSET Reminders /\ "idle" \notin Claimed \cup AtWork \cup Acting
  BY DEF Claimed, AtWork, Acting
<1> QED
  BY <1>1, <1>2, SweeperMoves DEF GoTo

LEMMA ReleaseInv ==
    ASSUME SessionInv, NEW w \in Sweepers, sweep[w] \in Acting,
           NEW r, NEW st, NEW ch, ReleaseWith(w, r, st, ch)
    PROVE  SessionInv'
<1> DEFINE R == rows[w] \ {r}
           step == IF R = {} THEN "idle" ELSE "act"
<1>1. rows' = [rows EXCEPT ![w] = R] /\ R \in SUBSET Reminders
  BY DEF ReleaseWith, SessionInv, LeasesHold
<1>2. sweep' = [sweep EXCEPT ![w] = step]
  BY <1>1 DEF ReleaseWith, GoTo, SessionInv, LeasesHold
<1>3. \/ holder[r] = w /\ Take({r}, Nobody) /\ status' = [status EXCEPT ![r] = st]
      \/ UNCHANGED <<holder, status>>
      \/ holder[r] = w /\ Take({r}, "dead") /\ UNCHANGED status
  BY DEF ReleaseWith
<1>4. /\ DOMAIN holder' = Reminders /\ DOMAIN status' = Reminders
      /\ \A q \in Reminders : q # r => holder'[q] = holder[q] /\ status'[q] = status[q]
      /\ \/ holder'[r] = holder[r] /\ status'[r] = status[r]
         \/ holder[r] = w /\ (r \in Reminders => holder'[r] \notin Sweepers)
  BY <1>3, Taking, Names DEF SessionInv, LeasesHold
<1>5. \A q \in rows[w] : holder[q] = w
  BY DEF SessionInv, LeasesHold, Claimed, AtWork, Acting
<1>6. /\ \A q \in Reminders : holder[q] \in Sweepers \ {w} => holder'[q] = holder[q]
      /\ \A q \in Reminders : holder'[q] \in Sweepers => holder'[q] \in {holder[q], w} /\ status'[q] # "none"
      /\ \A q \in R : holder'[q] = w
  BY <1>1, <1>4, <1>5 DEF SessionInv, LeasesHold
<1>7. step \in AtWork => R # {}
  BY DEF AtWork
<1> QED
  BY <1>1, <1>2, <1>4, <1>6, <1>7, SweeperMoves

LEMMA ClaimInv == ASSUME SessionInv, NEW w \in Sweepers, ClaimInbox(w) PROVE SessionInv'
<1> DEFINE won == {r \in rows[w] : IsOpen(r) /\ holder[r] = Nobody}
           step == IF won = {} THEN "idle" ELSE "look again"
<1>0. /\ DOMAIN holder = Reminders /\ status' = status /\ DOMAIN status' = Reminders
      /\ rows[w] \subseteq Reminders /\ won \in SUBSET Reminders
      /\ \A r \in Reminders : holder[r] \in Sweepers => status[r] # "none"
  BY DEF ClaimInbox, SessionInv, LeasesHold
<1>1. CASE rows' = [rows EXCEPT ![w] = won] /\ Take(won, w) /\ GoTo(w, step)
  <2>1. /\ DOMAIN holder' = Reminders
        /\ \A r \in Reminders : holder'[r] = IF r \in won THEN w ELSE holder[r]
    BY <1>1, Taking
  <2>2. \A r \in won : status[r] # "none"
    BY DEF IsOpen, OpenStatuses
  <2>3. /\ \A r \in Reminders : holder[r] \in Sweepers \ {w} => holder'[r] = holder[r]
        /\ \A r \in Reminders : holder'[r] \in Sweepers => holder'[r] \in {holder[r], w} /\ status'[r] # "none"
        /\ \A r \in won : holder'[r] = w
    BY <1>0, <2>1, <2>2, Names
  <2>4. (step \in AtWork => won # {}) /\ step \notin Acting
    BY DEF AtWork, Acting
  <2> QED
    BY <1>0, <1>1, <2>1, <2>3, <2>4, SweeperMoves DEF GoTo
<1>2. CASE rows' = [rows EXCEPT ![w] = {}] /\ GoTo(w, "idle") /\ (Take(won, "dead") \/ UNCHANGED holder)
  <2>1. /\ DOMAIN holder' = Reminders
        /\ \A r \in Reminders : holder'[r] = holder[r] \/ (holder[r] = Nobody /\ holder'[r] = "dead")
    BY <1>0, <1>2, Taking
  <2> QED
    BY <1>0, <1>2, <2>1, Names, SweeperStops
<1> QED
  BY <1>1, <1>2 DEF ClaimInbox

LEMMA GiveBackInv == ASSUME SessionInv, NEW w \in Sweepers, GiveBack(w) PROVE SessionInv'
<1>1. PICK r \in rows[w] :
        /\ rows' = [rows EXCEPT ![w] = @ \ {r}]
        /\ Take({r} \cap {q \in Reminders : holder[q] = w}, Nobody) \/ Take({r}, "dead")
  BY DEF GiveBack, OrFails
<1> DEFINE R == rows[w] \ {r}
           step == IF R = {} THEN "idle" ELSE "give back"
<1>2. /\ rows' = [rows EXCEPT ![w] = R] /\ R \in SUBSET Reminders /\ r \in Reminders
      /\ \A q \in rows[w] : holder[q] = w
      /\ \A q \in Reminders : holder[q] \in Sweepers => status[q] # "none"
      /\ status' = status /\ DOMAIN status' = Reminders
  BY <1>1 DEF GiveBack, SessionInv, LeasesHold, Claimed
<1>3. sweep' = [sweep EXCEPT ![w] = step]
  BY <1>2 DEF GiveBack, GoTo, SessionInv, LeasesHold
<1>4. /\ DOMAIN holder' = Reminders
      /\ \A q \in Reminders : q # r => holder'[q] = holder[q]
      /\ holder'[r] \notin Sweepers
  BY <1>1, <1>2, Taking, Names
<1>5. /\ \A q \in Reminders : holder[q] \in Sweepers \ {w} => holder'[q] = holder[q]
      /\ \A q \in Reminders : holder'[q] \in Sweepers => holder'[q] \in {holder[q], w} /\ status'[q] # "none"
      /\ \A q \in R : holder'[q] = w
  BY <1>1, <1>2, <1>4
<1> QED
  BY <1>2, <1>3, <1>4, <1>5, SweeperMoves DEF AtWork, Acting

\* The look after the claim: a sweeper that acts holds a row, and is seen.
LEMMA CollisionInv == ASSUME SessionInv, NEW w \in Sweepers, CheckCollision(w) PROVE SessionInv'
<1>1. ASSUME ~HeldByOther(w), NEW v \in Sweepers, sweep[v] \in Acting PROVE v = w
  <2>1. PICK r \in rows[v] : holder[r] = v
    BY <1>1 DEF SessionInv, LeasesHold, Claimed, AtWork, Acting
  <2>2. r \in Reminders
    BY <2>1 DEF SessionInv, LeasesHold
  <2> QED
    BY <1>1, <2>1, <2>2, Names DEF HeldByOther
<1>2. GoTo(w, "give back") \/ (~HeldByOther(w) /\ GoTo(w, "act"))
  BY DEF CheckCollision, OrFails
<1> QED
  BY <1>1, <1>2, SweeperGoes DEF CheckCollision, reminderRows, Claimed, AtWork, Acting

LEMMA SweepersInv ==
    ASSUME SessionInv, NEW w \in Sweepers, Wake(w) \/ SweeperStep(w) \/ SweeperDies(w)
    PROVE  SessionInv'
<1>0. /\ DOMAIN holder = Reminders /\ DOMAIN status = Reminders
      /\ rows = [rows EXCEPT ![w] = rows[w]] /\ rows[w] \in SUBSET Reminders
      /\ \A r \in Reminders : holder[r] \in Sweepers => status[r] # "none"
  BY DEF SessionInv, LeasesHold
<1>1. CASE Wake(w)
  BY <1>1, SweeperGoes DEF Wake, reminderRows, Claimed, AtWork, Acting
<1>2. CASE LookFirst(w)
  <2>1. \E step \in {"candidates", "idle"} : GoTo(w, step)
    BY <1>2 DEF LookFirst, OrFails
  <2> QED
    BY <1>2, <2>1, SweeperGoes DEF LookFirst, reminderRows, Claimed, AtWork, Acting
<1>3. CASE ReleaseStale(w)
  <2>1. UNCHANGED holder \/ Take({r \in Reminders : holder[r] = "stale"}, Nobody)
    BY <1>3 DEF ReleaseStale, OrFails
  <2>2. /\ DOMAIN holder' = Reminders
        /\ \A r \in Reminders : holder[r] \in Sweepers \ {w} => holder'[r] = holder[r]
        /\ \A r \in Reminders : holder'[r] \in Sweepers => holder'[r] \in {holder[r], w} /\ status[r] # "none"
    BY <1>0, <2>1, Taking, Names
  <2> QED
    BY <1>0, <1>3, <2>2, SweeperMoves DEF ReleaseStale, GoTo, Claimed, AtWork, Acting
<1>4. CASE Candidates(w)
  <2>1. PICK R \in SUBSET Reminders : rows' = [rows EXCEPT ![w] = R]
    BY <1>4 DEF Candidates, Reminders
  <2>2. PICK step \in {"idle", "claim"} : sweep' = [sweep EXCEPT ![w] = step]
    BY <1>4 DEF Candidates, GoTo
  <2>3. UNCHANGED <<holder, status>>
    BY <1>4 DEF Candidates, reminderRows
  <2> QED
    BY <1>0, <2>1, <2>2, <2>3, SweeperMoves DEF Claimed, AtWork, Acting
<1>5. CASE TimeIsUp(w)
  BY <1>5, SweeperGoes DEF TimeIsUp, reminderRows, Claimed, AtWork, Acting
<1>6. CASE ActOnSnooze(w)
  BY <1>6, SweeperGoes DEF ActOnSnooze, reminderRows, Claimed, AtWork, Acting
<1>7. CASE WriteOutcome(w)
  BY <1>7, ReleaseInv DEF WriteOutcome, Acting
<1>8. CASE CheckFollowUp(w)
  BY <1>8, ReleaseInv DEF CheckFollowUp, Acting
<1>9. CASE SweeperDies(w)
  <2>1. /\ DOMAIN holder' = Reminders /\ status' = status
        /\ GoTo(w, "idle") /\ rows' = [rows EXCEPT ![w] = {}]
        /\ \A r \in Reminders : holder'[r] = IF holder[r] = w THEN "dead" ELSE holder[r]
    BY <1>9 DEF SweeperDies
  <2> QED
    BY <2>1, Names, SweeperStops
<1> QED
  BY <1>1, <1>2, <1>3, <1>4, <1>5, <1>6, <1>7, <1>8, <1>9,
     ClaimInv, GiveBackInv, CollisionInv DEF SweeperStep

LEMMA SessionStep == SessionInv /\ [ReminderNext]_reminderVars => SessionInv'
<1> SUFFICES ASSUME SessionInv, [ReminderNext]_reminderVars PROVE SessionInv'
  OBVIOUS
<1>1. CASE UNCHANGED reminderVars
  BY <1>1, NoLeaseMoves DEF reminderVars, reminderRows, SessionInv, LeasesHold
<1>2. CASE \E r \in Reminders : ComesDue(r) \/ HolderAges(r)
  BY <1>2, WorldInv
<1>3. CASE \E s \in Snoozes : OwnerMoves(s)
  BY <1>3, WorldInv DEF Reminders
<1> QED
  BY <1>1, <1>2, <1>3, CallersInv, SweepersInv DEF ReminderNext

-----------------------------------------------------------------------------

\* Two sweepers whose claims on one inbox cross never both act on its rows
\* (reminders-engine.ts:640): for every number of sweepers and reminders, deaths,
\* lost answers, and tool calls in between.
THEOREM OneSweeperActs == ReminderSpec => []OneSession
<1>1. ReminderSpec => []SessionInv
  BY SessionInit, SessionStep, PTL DEF ReminderSpec
<1>2. SessionInv => OneSession
  BY DEF SessionInv
<1> QED
  BY <1>1, <1>2, PTL

-----------------------------------------------------------------------------
(* Nothing is hidden unknown. *)

\* What a call knows of the row it is about.
OfASnooze == {"move", "save", "undo", "delete", "lease", "bring back", "cancelled", "not cancelled"}
CallerKnows(c) ==
    /\ call[c] \in OfASnooze => about[c] \in Snoozes
    /\ call[c] = "finish" => about[c] \in Reminders
    /\ call[c] = "move" => holder[about[c]] = c /\ status[about[c]] = "pending" /\ about[c] \notin folder
    /\ call[c] = "delete" /\ holder[about[c]] = c => about[c] \notin folder \ misled
    /\ call[c] = "cancelled" /\ holder[about[c]] = c => about[c] \notin folder

\* What a sweeper knows of the rows it goes through, and of the one it has acted on.
Verdicts == OpenStatuses \cup {"failed", "done", "replied", "returned"}
SweeperKnows(w) ==
    /\ sweep[w] \in Claimed => \A r \in rows[w] : IsOpen(r)
    /\ sweep[w] = "write" =>
         /\ verdict[w].row \in rows[w] \cap Snoozes /\ verdict[w].status \in Verdicts
         /\ verdict[w].status = "returned" => verdict[w].row \notin folder

HiddenTypes ==
    /\ DOMAIN call = Callers /\ DOMAIN about = Callers /\ DOMAIN verdict = Sweepers
    /\ folder \subseteq Snoozes
    /\ \A r \in Reminders : status[r] = "none" => holder[r] = Nobody

HiddenInv ==
    /\ HiddenTypes
    /\ \A c \in Callers : CallerKnows(c)
    /\ \A w \in Sweepers : SweeperKnows(w)
    /\ KnownWhileHidden

Actors == Sweepers \cup Callers

\* Who holds a row is left alone by a step of another, and nobody else is given it.
LeavesAlone(x) ==
    /\ \A y \in Actors \ {x} : \A r \in Reminders :
         /\ holder[r] = y => holder'[r] = y /\ status'[r] = status[r] /\ (r \in folder' => r \in folder)
         /\ holder'[r] = y => holder[r] = y
    /\ misled \subseteq misled' /\ told \subseteq told' /\ folder' \subseteq Snoozes
    /\ \A r \in Reminders : status'[r] = "none" => holder'[r] = Nobody

LEMMA HiddenInit == ReminderInit => HiddenInv
<1> SUFFICES ASSUME ReminderInit PROVE HiddenInv
  OBVIOUS
<1>1. HiddenTypes BY DEF ReminderInit, HiddenTypes
<1>2. \A c \in Callers : CallerKnows(c) BY DEF ReminderInit, CallerKnows, OfASnooze
<1>3. \A w \in Sweepers : SweeperKnows(w) BY DEF ReminderInit, SweeperKnows, Claimed, AtWork
<1>4. KnownWhileHidden BY DEF ReminderInit, KnownWhileHidden
<1> QED
  BY <1>1, <1>2, <1>3, <1>4 DEF HiddenInv

\* A step of x on one row.
LEMMA OneRowStep ==
    ASSUME HiddenTypes, KnownWhileHidden, NEW x \in Actors, NEW s \in Reminders,
           \A r \in Reminders \ {s} : holder'[r] = holder[r] /\ status'[r] = status[r],
           folder' \subseteq folder \cup {s}, folder' \subseteq Snoozes,
           misled \subseteq misled', told \subseteq told',
           holder[s] \in Actors \ {x} =>
             holder'[s] = holder[s] /\ status'[s] = status[s] /\ (s \in folder' => s \in folder),
           holder'[s] \in Actors \ {x} => holder'[s] = holder[s],
           status'[s] = "none" => holder'[s] = Nobody,
           s \in folder' \ misled' => Watched(s)'
    PROVE  LeavesAlone(x) /\ KnownWhileHidden'
<1>1. LeavesAlone(x) BY DEF LeavesAlone, HiddenTypes
<1>2. ASSUME NEW r \in folder' \ misled' PROVE Watched(r)'
  <2>1. CASE r = s BY <1>2, <2>1
  <2>2. CASE r # s
    <3>1. r \in folder \ misled /\ r \in Reminders BY <1>2, <2>2 DEF Reminders
    <3>2. Watched(r) BY <3>1 DEF KnownWhileHidden
    <3> QED
      BY <2>2, <3>1, <3>2 DEF Watched
  <2> QED
    BY <2>1, <2>2
<1> QED
  BY <1>1, <1>2 DEF KnownWhileHidden

\* A step of x that moves leases only.
LEMMA LeaseStep ==
    ASSUME HiddenTypes, KnownWhileHidden, NEW x, UNCHANGED <<status, mailboxes>>,
           \A y \in Actors \ {x} : \A r \in Reminders : holder[r] = y <=> holder'[r] = y,
           \A r \in Reminders : holder[r] = Nobody => holder'[r] = Nobody \/ status[r] # "none"
    PROVE  LeavesAlone(x) /\ KnownWhileHidden'
<1>1. LeavesAlone(x) BY DEF LeavesAlone, HiddenTypes, mailboxes
<1>2. KnownWhileHidden' BY DEF KnownWhileHidden, Watched, mailboxes
<1> QED
  BY <1>1, <1>2

\* Of the others nobody knows less.
LEMMA OthersKnow ==
    ASSUME SessionInv, HiddenInv, NEW x, LeavesAlone(x)
    PROVE  /\ \A c \in Callers \ {x} : call'[c] = call[c] /\ about'[c] = about[c] => CallerKnows(c)'
           /\ \A w \in Sweepers \ {x} :
                sweep'[w] = sweep[w] /\ rows'[w] = rows[w] /\ verdict'[w] = verdict[w] => SweeperKnows(w)'
<1>1. ASSUME NEW c \in Callers \ {x}, call'[c] = call[c], about'[c] = about[c] PROVE CallerKnows(c)'
  <2>1. CallerKnows(c) BY DEF HiddenInv
  <2>2. about[c] \in Snoozes => about[c] \in Reminders BY DEF Reminders
  <2>3. \A r \in Reminders : /\ holder[r] = c => holder'[r] = c /\ status'[r] = status[r] /\ (r \in folder' => r \in folder)
                             /\ holder'[r] = c => holder[r] = c
    BY DEF LeavesAlone, Actors
  <2>4. misled \subseteq misled' BY DEF LeavesAlone
  <2> QED
    BY <1>1, <2>1, <2>2, <2>3, <2>4 DEF CallerKnows, OfASnooze
<1>2. ASSUME NEW w \in Sweepers \ {x}, sweep'[w] = sweep[w], rows'[w] = rows[w], verdict'[w] = verdict[w]
      PROVE  SweeperKnows(w)'
  <2>1. SweeperKnows(w) BY DEF HiddenInv
  <2>2. sweep[w] \in Claimed => \A r \in rows[w] : r \in Reminders /\ holder[r] = w
    BY DEF SessionInv, LeasesHold
  <2>3. \A r \in Reminders : holder[r] = w => status'[r] = status[r] /\ (r \in folder' => r \in folder)
    BY DEF LeavesAlone, Actors
  <2>4. sweep[w] = "write" => sweep[w] \in Claimed BY DEF Claimed, AtWork
  <2> QED
    BY <1>2, <2>1, <2>2, <2>3, <2>4 DEF SweeperKnows, IsOpen
<1> QED
  BY <1>1, <1>2

\* Bringing back takes out of the folder at most, and the two good answers are true.
LEMMA BringBackEffect ==
    ASSUME NEW s, NEW known, NEW report, BringBack(s, known, report)
    PROVE  /\ folder' \subseteq folder /\ folder \subseteq folder' \cup {s} /\ UNCHANGED <<told, misled>>
           /\ report \in {"back", "gone"} => s \notin folder'
<1>1. PICK where \in {"inbox", "same"} :
        /\ <<where, report>> \in Returns(s, known) \/ <<where, report>> \in ReturnsBadly(s, known)
        /\ folder' = IF where = "inbox" THEN folder \ {s} ELSE folder
        /\ UNCHANGED <<told, misled>>
  BY DEF BringBack, OrFails
<1>2. ASSUME report \in {"back", "gone"}, where = "same" PROVE s \notin folder
  <2>1. <<where, report>> \in Returns(s, known)
    <3>1. <<where, report>> \notin ReturnsBadly(s, known) BY <1>2 DEF ReturnsBadly
    <3> QED
      BY <1>1, <3>1
  <2>2. CASE s \in folder /\ (known \/ s \notin unlocatable) BY <1>2, <2>1, <2>2 DEF Returns
  <2>3. CASE ~(s \in folder /\ (known \/ s \notin unlocatable)) /\ s \notin folder BY <2>3
  <2>4. CASE s \in folder /\ ~known /\ s \in unlocatable
    <3>1. Returns(s, known) = {<<"same", "error">>} BY <2>4 DEF Returns
    <3> QED
      BY <1>2, <2>1, <3>1
  <2> QED
    BY <2>2, <2>3, <2>4
<1> QED
  BY <1>1, <1>2

-----------------------------------------------------------------------------
(* The calls. *)

CallerMoves(c) == InsertLeased(c) \/ LoadForChange(c) \/ CallerStep(c) \/ CallerDies(c)

LEMMA CallerFrame ==
    ASSUME HiddenTypes, NEW c \in Callers, CallerMoves(c)
    PROVE  /\ DOMAIN call' = Callers /\ DOMAIN about' = Callers /\ UNCHANGED sweepers
           /\ \A d \in Callers \ {c} : call'[d] = call[d] /\ about'[d] = about[d]
           /\ CallerStep(c) => about'[c] = about[c] \/ call'[c] = "over"
<1> USE DEF HiddenTypes, Reply, SameCall, CallersOnly
<1>1. CASE InsertLeased(c)
  BY <1>1 DEF InsertLeased, CallerStep, Move, SaveMoved, UndoMove, DeleteRow, FinishReminder, LeaseForCancel,
     CancelBringsBack, CancelReleases
<1>2. CASE LoadForChange(c)
  BY <1>2 DEF LoadForChange, CallerStep, Move, SaveMoved, UndoMove, DeleteRow, FinishReminder, LeaseForCancel,
     CancelBringsBack, CancelReleases
<1>3. CASE Move(c) BY <1>3 DEF Move
<1>4. CASE SaveMoved(c) BY <1>4 DEF SaveMoved
<1>5. CASE UndoMove(c) BY <1>5 DEF UndoMove
<1>6. CASE DeleteRow(c) BY <1>6 DEF DeleteRow
<1>7. CASE FinishReminder(c) BY <1>7 DEF FinishReminder
<1>8. CASE LeaseForCancel(c) BY <1>8 DEF LeaseForCancel
<1>9. CASE CancelBringsBack(c) BY <1>9 DEF CancelBringsBack
<1>10. CASE CancelReleases(c) BY <1>10 DEF CancelReleases
<1>11. CASE CallerDies(c) BY <1>11 DEF CallerDies
<1> QED
  BY <1>1, <1>2, <1>3, <1>4, <1>5, <1>6, <1>7, <1>8, <1>9, <1>10, <1>11 DEF CallerMoves, CallerStep

\* The row first: it was none, and its message is not in the folder.
LEMMA InsertHidden ==
    ASSUME SessionInv, HiddenInv, NEW c \in Callers, InsertLeased(c)
    PROVE  LeavesAlone(c) /\ KnownWhileHidden' /\ CallerKnows(c)'
<1>1. PICK s \in Snoozes :
        /\ status[s] = "none" /\ s \notin folder /\ status' = [status EXCEPT ![s] = "pending"]
        /\ \/ Take({s}, c) /\ Reply(c, "move") /\ about' = [about EXCEPT ![c] = s]
           \/ Take({s}, "dead") /\ Reply(c, "over") /\ UNCHANGED about
  BY DEF InsertLeased
<1>2. s \in Reminders /\ holder[s] = Nobody /\ DOMAIN status = Reminders /\ DOMAIN call = Callers /\ DOMAIN about = Callers
  BY <1>1 DEF Reminders, HiddenInv, HiddenTypes, SessionInv, LeasesHold
<1>3. UNCHANGED mailboxes BY DEF InsertLeased
<1>4. /\ status'[s] = "pending" /\ holder'[s] \in {c, "dead"}
      /\ \A r \in Reminders \ {s} : holder'[r] = holder[r] /\ status'[r] = status[r]
  BY <1>1, <1>2, Taking
<1>5. c \in Actors /\ "dead" \notin Actors /\ Nobody \notin Actors BY Names DEF Actors
<1>6. LeavesAlone(c) /\ KnownWhileHidden'
  BY <1>1, <1>2, <1>3, <1>4, <1>5, OneRowStep DEF HiddenInv, HiddenTypes, mailboxes
<1>7. CallerKnows(c)'
  <2>1. CASE Take({s}, c) /\ Reply(c, "move") /\ about' = [about EXCEPT ![c] = s]
    <3>1. call'[c] = "move" /\ about'[c] = s /\ holder'[s] = c BY <1>2, <2>1, Taking DEF Reply
    <3> QED
      BY <1>1, <1>3, <1>4, <3>1 DEF CallerKnows, OfASnooze, mailboxes
  <2>2. CASE Reply(c, "over")
    BY <1>2, <2>2 DEF CallerKnows, OfASnooze, Reply
  <2> QED
    BY <1>1, <2>1, <2>2
<1> QED
  BY <1>6, <1>7

LEMMA LoadHidden ==
    ASSUME SessionInv, HiddenInv, NEW c \in Callers, LoadForChange(c)
    PROVE  LeavesAlone(c) /\ KnownWhileHidden' /\ CallerKnows(c)'
<1>1. PICK r \in Reminders :
        /\ about' = [about EXCEPT ![c] = r]
        /\ Reply(c, "finish") \/ (r \in Snoozes /\ Reply(c, "lease"))
  BY DEF LoadForChange
<1>2. UNCHANGED <<status, holder, mailboxes>> BY DEF LoadForChange, reminderRows
<1>3. LeavesAlone(c) /\ KnownWhileHidden' BY <1>2, LeaseStep DEF HiddenInv
<1>4. CallerKnows(c)' BY <1>1 DEF CallerKnows, OfASnooze, Reply, HiddenInv, HiddenTypes
<1> QED
  BY <1>3, <1>4

LEMMA MoveHidden ==
    ASSUME SessionInv, HiddenInv, NEW c \in Callers, Move(c)
    PROVE  LeavesAlone(c) /\ KnownWhileHidden' /\ (call'[c] \in {"save", "delete"} /\ about'[c] = about[c]) /\ CallerKnows(c)'
<1>0. PICK s : s = about[c] OBVIOUS
<1> USE <1>0
<1>1. /\ call[c] = "move" /\ s \in Snoozes /\ s \in Reminders
      /\ holder[s] = c /\ status[s] = "pending" /\ s \notin folder
  BY DEF Move, HiddenInv, CallerKnows, OfASnooze, Reminders
<1>2. /\ \/ folder' = folder \cup {s} /\ UNCHANGED misled /\ Reply(c, "save")
         \/ UNCHANGED <<folder, misled>> /\ Reply(c, "delete")
         \/ folder' = folder \cup {s} /\ misled' = misled \cup {s} /\ Reply(c, "delete")
      /\ UNCHANGED <<holder, status, told>> /\ SameCall(c)
  BY DEF Move, reminderRows
<1>3. call'[c] \in {"save", "delete"} /\ about' = about
  BY <1>2 DEF Reply, SameCall, HiddenInv, HiddenTypes
<1>4. Watched(s)' BY <1>1, <1>2 DEF Watched, ActiveStatuses, OpenStatuses
<1>5. folder' \subseteq folder \cup {s} /\ folder' \subseteq Snoozes /\ misled \subseteq misled'
  BY <1>1, <1>2 DEF HiddenInv, HiddenTypes
<1>6. c \in Actors BY DEF Actors
<1>7. LeavesAlone(c) /\ KnownWhileHidden'
  <2> QED
    BY <1>1, <1>2, <1>4, <1>5, <1>6, OneRowStep DEF HiddenInv
<1>8. call'[c] = "delete" => s \notin folder' \ misled' BY <1>1, <1>2 DEF Reply, HiddenInv, HiddenTypes
<1>9. CallerKnows(c)' BY <1>1, <1>3, <1>8 DEF CallerKnows, OfASnooze
<1> QED
  BY <1>3, <1>7, <1>9

LEMMA SaveHidden ==
    ASSUME SessionInv, HiddenInv, NEW c \in Callers, SaveMoved(c)
    PROVE  LeavesAlone(c) /\ KnownWhileHidden' /\ CallerKnows(c)'
<1>0. PICK s : s = about[c] OBVIOUS
<1> USE <1>0
<1>1. s \in Snoozes /\ s \in Reminders BY DEF SaveMoved, HiddenInv, CallerKnows, OfASnooze, Reminders
<1>2. /\ \/ UNCHANGED holder
         \/ Mine(c) /\ Take({s}, Nobody)
         \/ Mine(c) /\ \E x \in {"dead", c} : holder' = [holder EXCEPT ![s] = x]
      /\ UNCHANGED <<status, mailboxes>>
      /\ Reply(c, "undo") \/ Reply(c, "over")
      /\ SameCall(c)
  BY DEF SaveMoved
<1>3. /\ \A r \in Reminders \ {s} : holder'[r] = holder[r]
      /\ holder'[s] = holder[s] \/ (holder[s] = c /\ status[s] # "none" /\ holder'[s] \in {Nobody, "dead", c})
  BY <1>1, <1>2, Taking DEF Mine, SessionInv, LeasesHold
<1>4. Nobody \notin Actors /\ "dead" \notin Actors BY Names DEF Actors
<1>5. LeavesAlone(c) /\ KnownWhileHidden'
  <2>1. \A y \in Actors \ {c} : \A r \in Reminders : holder[r] = y <=> holder'[r] = y BY <1>1, <1>3, <1>4
  <2>2. \A r \in Reminders : holder[r] = Nobody => holder'[r] = Nobody \/ status[r] # "none" BY <1>3
  <2> QED
    BY <1>2, <2>1, <2>2, LeaseStep DEF HiddenInv
<1>6. CallerKnows(c)'
  BY <1>1, <1>2 DEF CallerKnows, OfASnooze, Reply, SameCall, HiddenInv, HiddenTypes
<1> QED
  BY <1>5, <1>6

LEMMA UndoHidden ==
    ASSUME SessionInv, HiddenInv, NEW c \in Callers, UndoMove(c)
    PROVE  LeavesAlone(c) /\ KnownWhileHidden' /\ CallerKnows(c)'
<1>0. PICK s : s = about[c] OBVIOUS
<1> USE <1>0
<1>1. s \in Snoozes /\ s \in Reminders /\ c \in Actors
  BY DEF UndoMove, HiddenInv, CallerKnows, OfASnooze, Reminders, Actors
<1>2. /\ SameCall(c) /\ UNCHANGED status
      /\ \/ BringBack(s, TRUE, "back") /\ Reply(c, "delete") /\ UNCHANGED holder
         \/ /\ told' = told \cup {s} /\ UNCHANGED <<folder, misled>> /\ Reply(c, "over")
            /\ Take({s} \cap {r \in Reminders : holder[r] = c}, "dead")
  BY DEF UndoMove, reminderRows
<1>3. CASE BringBack(s, TRUE, "back") /\ Reply(c, "delete") /\ UNCHANGED holder
  <2>1. folder' \subseteq folder /\ UNCHANGED <<told, misled>> /\ s \notin folder' BY <1>3, BringBackEffect
  <2>2. LeavesAlone(c) /\ KnownWhileHidden'
    <3> QED
      BY <1>1, <1>2, <1>3, <2>1, OneRowStep DEF HiddenInv, HiddenTypes
  <2>3. call'[c] = "delete" /\ about' = about BY <1>2, <1>3 DEF Reply, SameCall, HiddenInv, HiddenTypes
  <2>4. CallerKnows(c)' BY <1>1, <2>1, <2>3 DEF CallerKnows, OfASnooze
  <2> QED
    BY <2>2, <2>4
<1>4. CASE /\ told' = told \cup {s} /\ UNCHANGED <<folder, misled>> /\ Reply(c, "over")
           /\ Take({s} \cap {r \in Reminders : holder[r] = c}, "dead")
  <2>1. \A r \in Reminders : holder'[r] = IF r = s /\ holder[r] = c THEN "dead" ELSE holder[r] BY <1>4, Taking
  <2>2. Nobody \notin Actors /\ "dead" \notin Actors /\ c # Nobody BY Names DEF Actors
  <2>3. \A r \in Reminders : status'[r] = "none" => holder[r] = Nobody /\ holder'[r] = Nobody
    BY <1>2, <2>1, <2>2 DEF HiddenInv, HiddenTypes
  <2>4. LeavesAlone(c) /\ KnownWhileHidden'
    <3>1. Watched(s)' BY <1>4 DEF Watched
    <3>2. /\ \A r \in Reminders \ {s} : holder'[r] = holder[r] /\ status'[r] = status[r]
          /\ holder[s] \in Actors \ {c} => holder'[s] = holder[s]
          /\ holder'[s] \in Actors \ {c} => holder'[s] = holder[s]
      BY <1>1, <1>2, <2>1, <2>2
    <3>3. folder' \subseteq folder \cup {s} /\ folder' \subseteq Snoozes /\ misled \subseteq misled' /\ told \subseteq told'
      BY <1>4 DEF HiddenInv, HiddenTypes
    <3> QED
      BY <1>1, <1>2, <1>4, <2>3, <3>1, <3>2, <3>3, OneRowStep DEF HiddenInv
  <2>5. CallerKnows(c)' BY <1>4 DEF CallerKnows, OfASnooze, Reply, HiddenInv, HiddenTypes
  <2> QED
    BY <2>4, <2>5
<1> QED
  BY <1>2, <1>3, <1>4

LEMMA DeleteHidden ==
    ASSUME SessionInv, HiddenInv, NEW c \in Callers, DeleteRow(c)
    PROVE  LeavesAlone(c) /\ KnownWhileHidden' /\ CallerKnows(c)'
<1>0. PICK s : s = about[c] OBVIOUS
<1> USE <1>0
<1>1. s \in Snoozes /\ s \in Reminders /\ c \in Actors /\ call[c] = "delete"
  BY DEF DeleteRow, HiddenInv, CallerKnows, OfASnooze, Reminders, Actors
<1>2. /\ UNCHANGED mailboxes /\ Reply(c, "over")
      /\ \/ holder[s] = c /\ status' = [status EXCEPT ![s] = "none"] /\ Take({s}, Nobody)
         \/ UNCHANGED <<status, holder>>
         \/ holder[s] = c /\ status[s] # "none" /\ Take({s}, "dead") /\ UNCHANGED status
  BY DEF DeleteRow, Mine
<1>3. Nobody \notin Actors /\ "dead" \notin Actors BY Names DEF Actors
<1>4. CallerKnows(c)' BY <1>2 DEF CallerKnows, OfASnooze, Reply, HiddenInv, HiddenTypes
<1>5. CASE UNCHANGED <<status, holder>> BY <1>2, <1>4, <1>5, LeaseStep DEF HiddenInv
<1>6. CASE holder[s] = c /\ status[s] # "none" /\ Take({s}, "dead") /\ UNCHANGED status
  <2>1. \A r \in Reminders : holder'[r] = IF r = s THEN "dead" ELSE holder[r] BY <1>6, Taking
  <2>2. \A y \in Actors \ {c} : \A r \in Reminders : holder[r] = y <=> holder'[r] = y BY <1>1, <1>3, <1>6, <2>1
  <2>3. \A r \in Reminders : holder[r] = Nobody => holder'[r] = Nobody \/ status[r] # "none" BY <1>6, <2>1
  <2> QED
    BY <1>2, <1>4, <1>6, <2>2, <2>3, LeaseStep DEF HiddenInv
<1>7. CASE holder[s] = c /\ status' = [status EXCEPT ![s] = "none"] /\ Take({s}, Nobody)
  <2>1. s \notin folder \ misled BY <1>1, <1>7 DEF HiddenInv, CallerKnows
  <2>2. /\ \A r \in Reminders \ {s} : holder'[r] = holder[r] /\ status'[r] = status[r]
        /\ holder'[s] = Nobody
    BY <1>1, <1>7, Taking DEF SessionInv, LeasesHold
  <2>3. LeavesAlone(c) /\ KnownWhileHidden'
    BY <1>1, <1>2, <1>3, <1>7, <2>1, <2>2, OneRowStep DEF HiddenInv, HiddenTypes, mailboxes
  <2> QED
    BY <1>4, <2>3
<1> QED
  BY <1>2, <1>5, <1>6, <1>7

LEMMA FinishHidden ==
    ASSUME SessionInv, HiddenInv, NEW c \in Callers, FinishReminder(c)
    PROVE  LeavesAlone(c) /\ KnownWhileHidden' /\ CallerKnows(c)'
<1>0. PICK r : r = about[c] OBVIOUS
<1> USE <1>0
<1>1. r \in Reminders /\ c \in Actors
  BY DEF FinishReminder, HiddenInv, CallerKnows, Actors
<1>2. /\ UNCHANGED <<holder, mailboxes>> /\ Reply(c, "over")
      /\ \/ UNCHANGED status
         \/ /\ holder[r] = Nobody
            /\ \E st \in {"done"} \cup (IF r \in FollowUps THEN {"cancelled"} ELSE {}) : status' = [status EXCEPT ![r] = st]
  BY DEF FinishReminder
<1>3. CallerKnows(c)' BY <1>2 DEF CallerKnows, OfASnooze, Reply, HiddenInv, HiddenTypes
<1>4. CASE UNCHANGED status BY <1>2, <1>3, <1>4, LeaseStep DEF HiddenInv
<1>5. ASSUME holder[r] = Nobody, NEW st \in {"done"} \cup (IF r \in FollowUps THEN {"cancelled"} ELSE {}),
             status' = [status EXCEPT ![r] = st]
      PROVE  LeavesAlone(c) /\ KnownWhileHidden'
  <2>1. /\ \A q \in Reminders \ {r} : holder'[q] = holder[q] /\ status'[q] = status[q]
        /\ status'[r] = st /\ holder'[r] = Nobody /\ st # "none"
    BY <1>1, <1>2, <1>5 DEF SessionInv, LeasesHold
  <2>2. Nobody \notin Actors BY Names DEF Actors
  <2>3. r \in folder => st = "done" BY ReminderAssumption DEF HiddenInv, HiddenTypes
  <2>4. r \in folder' => Watched(r)' BY <1>2, <2>1, <2>3 DEF Watched, mailboxes
  <2> QED
    BY <1>1, <1>2, <1>5, <2>1, <2>2, <2>4, OneRowStep DEF HiddenInv, HiddenTypes, mailboxes
<1> QED
  BY <1>2, <1>3, <1>4, <1>5

LEMMA LeaseHidden ==
    ASSUME SessionInv, HiddenInv, NEW c \in Callers, LeaseForCancel(c)
    PROVE  LeavesAlone(c) /\ KnownWhileHidden' /\ CallerKnows(c)'
<1>0. PICK s : s = about[c] OBVIOUS
<1> USE <1>0
<1>1. s \in Snoozes /\ s \in Reminders
  BY DEF LeaseForCancel, HiddenInv, CallerKnows, OfASnooze, Reminders
<1>2. /\ UNCHANGED <<status, mailboxes>> /\ SameCall(c)
      /\ Reply(c, "bring back") \/ Reply(c, "over")
      /\ \/ UNCHANGED holder
         \/ holder[s] = Nobody /\ status[s] # "none" /\ \E x \in {c, "dead"} : Take({s}, x)
  BY DEF LeaseForCancel, ActiveStatuses, OpenStatuses
<1>3. Nobody \notin Actors /\ "dead" \notin Actors BY Names DEF Actors
<1>4. /\ \A r \in Reminders \ {s} : holder'[r] = holder[r]
      /\ holder'[s] = holder[s] \/ (holder[s] = Nobody /\ status[s] # "none" /\ holder'[s] \in {c, "dead"})
  BY <1>1, <1>2, Taking
<1>5. \A y \in Actors \ {c} : \A r \in Reminders : holder[r] = y <=> holder'[r] = y BY <1>1, <1>3, <1>4
<1>6. \A r \in Reminders : holder[r] = Nobody => holder'[r] = Nobody \/ status[r] # "none" BY <1>4
<1>7. LeavesAlone(c) /\ KnownWhileHidden' BY <1>2, <1>5, <1>6, LeaseStep DEF HiddenInv
<1>8. CallerKnows(c)' BY <1>1, <1>2 DEF CallerKnows, OfASnooze, Reply, SameCall, HiddenInv, HiddenTypes
<1> QED
  BY <1>7, <1>8

LEMMA CancelHidden ==
    ASSUME SessionInv, HiddenInv, NEW c \in Callers, CancelBringsBack(c)
    PROVE  LeavesAlone(c) /\ KnownWhileHidden' /\ CallerKnows(c)'
<1>0. PICK s : s = about[c] OBVIOUS
<1> USE <1>0
<1>1. s \in Snoozes /\ s \in Reminders /\ c \in Actors
  BY DEF CancelBringsBack, HiddenInv, CallerKnows, OfASnooze, Reminders, Actors
<1>2. /\ UNCHANGED <<status, holder>> /\ SameCall(c)
      /\ \/ \E report \in {"back", "gone"} : BringBack(s, ~oldRef[c], report) /\ Reply(c, "cancelled")
         \/ BringBack(s, ~oldRef[c], "error") /\ Reply(c, "not cancelled")
  BY DEF CancelBringsBack, reminderRows
<1>3. /\ folder' \subseteq folder /\ UNCHANGED <<told, misled>>
      /\ (Reply(c, "cancelled") /\ s \notin folder') \/ Reply(c, "not cancelled")
  BY <1>2, BringBackEffect
<1>4. s \in folder' \ misled' => Watched(s)' BY <1>2, <1>3 DEF HiddenInv, KnownWhileHidden, Watched
<1>5. LeavesAlone(c) /\ KnownWhileHidden'
  BY <1>1, <1>2, <1>3, <1>4, OneRowStep DEF HiddenInv, HiddenTypes
<1>6. about' = about /\ (call'[c] = "not cancelled" \/ (call'[c] = "cancelled" /\ s \notin folder'))
  BY <1>2, <1>3 DEF Reply, SameCall, HiddenInv, HiddenTypes
<1>7. CallerKnows(c)' BY <1>1, <1>6 DEF CallerKnows, OfASnooze
<1> QED
  BY <1>5, <1>7

LEMMA ReleasesHidden ==
    ASSUME SessionInv, HiddenInv, NEW c \in Callers, CancelReleases(c)
    PROVE  LeavesAlone(c) /\ KnownWhileHidden' /\ CallerKnows(c)'
<1>0. PICK s : s = about[c] OBVIOUS
<1> USE <1>0
<1>1. s \in Snoozes /\ s \in Reminders /\ c \in Actors
  BY DEF CancelReleases, HiddenInv, CallerKnows, OfASnooze, Reminders, Actors
<1>2. /\ UNCHANGED mailboxes /\ Reply(c, "over")
      /\ \/ holder[s] = c /\ Take({s}, Nobody) /\ call[c] = "cancelled" /\ status' = [status EXCEPT ![s] = "cancelled"]
         \/ holder[s] = c /\ Take({s}, Nobody) /\ UNCHANGED status
         \/ UNCHANGED <<holder, status>>
         \/ holder[s] = c /\ status[s] # "none" /\ Take({s}, "dead") /\ UNCHANGED status
  BY DEF CancelReleases, Mine
<1>3. Nobody \notin Actors /\ "dead" \notin Actors /\ c # Nobody BY Names DEF Actors
<1>4. CallerKnows(c)' BY <1>2 DEF CallerKnows, OfASnooze, Reply, HiddenInv, HiddenTypes
<1>5. CASE UNCHANGED <<status, holder>> BY <1>2, <1>4, <1>5, LeaseStep DEF HiddenInv
<1>6. CASE holder[s] = c /\ UNCHANGED status /\ (Take({s}, Nobody) \/ (status[s] # "none" /\ Take({s}, "dead")))
  <2>1. /\ \A r \in Reminders \ {s} : holder'[r] = holder[r]
        /\ holder'[s] = Nobody \/ (holder'[s] = "dead" /\ status[s] # "none")
    BY <1>1, <1>6, Taking
  <2>2. \A y \in Actors \ {c} : \A r \in Reminders : holder[r] = y <=> holder'[r] = y BY <1>1, <1>3, <1>6, <2>1
  <2>3. \A r \in Reminders : holder[r] = Nobody => holder'[r] = Nobody \/ status[r] # "none" BY <2>1
  <2> QED
    BY <1>2, <1>4, <1>6, <2>2, <2>3, LeaseStep DEF HiddenInv
<1>7. CASE holder[s] = c /\ Take({s}, Nobody) /\ call[c] = "cancelled" /\ status' = [status EXCEPT ![s] = "cancelled"]
  <2>1. s \notin folder BY <1>1, <1>7 DEF HiddenInv, CallerKnows
  <2>2. /\ \A r \in Reminders \ {s} : holder'[r] = holder[r] /\ status'[r] = status[r]
        /\ holder'[s] = Nobody
    BY <1>1, <1>7, Taking DEF SessionInv, LeasesHold
  <2>3. LeavesAlone(c) /\ KnownWhileHidden'
    BY <1>1, <1>2, <1>3, <1>7, <2>1, <2>2, OneRowStep DEF HiddenInv, HiddenTypes, mailboxes
  <2> QED
    BY <1>4, <2>3
<1> QED
  BY <1>2, <1>5, <1>6, <1>7

LEMMA DeathHidden ==
    ASSUME SessionInv, HiddenInv, NEW c \in Callers, CallerDies(c)
    PROVE  LeavesAlone(c) /\ KnownWhileHidden' /\ CallerKnows(c)'
<1>1. /\ UNCHANGED <<status, mailboxes>> /\ Reply(c, "over")
      /\ \A r \in Reminders : holder'[r] = IF holder[r] = c THEN "dead" ELSE holder[r]
  BY DEF CallerDies
<1>2. Nobody \notin Actors /\ "dead" \notin Actors /\ c # Nobody BY Names DEF Actors
<1>3. \A y \in Actors \ {c} : \A r \in Reminders : holder[r] = y <=> holder'[r] = y BY <1>1, <1>2
<1>4. \A r \in Reminders : holder[r] = Nobody => holder'[r] = Nobody BY <1>1, <1>2
<1>5. LeavesAlone(c) /\ KnownWhileHidden' BY <1>1, <1>3, <1>4, LeaseStep DEF HiddenInv
<1>6. CallerKnows(c)' BY <1>1 DEF CallerKnows, OfASnooze, Reply, HiddenInv, HiddenTypes
<1> QED
  BY <1>5, <1>6

\* What a step by x comes to, given what x itself knows after it.
LEMMA CallersHidden ==
    ASSUME SessionInv, HiddenInv, NEW c \in Callers, CallerMoves(c)
    PROVE  HiddenInv'
<1>1. LeavesAlone(c) /\ KnownWhileHidden' /\ CallerKnows(c)'
  BY InsertHidden, LoadHidden, MoveHidden, SaveHidden, UndoHidden, DeleteHidden, FinishHidden, LeaseHidden,
     CancelHidden, ReleasesHidden, DeathHidden DEF CallerMoves, CallerStep
<1>2. /\ DOMAIN call' = Callers /\ DOMAIN about' = Callers /\ UNCHANGED sweepers
      /\ \A d \in Callers \ {c} : call'[d] = call[d] /\ about'[d] = about[d]
  BY CallerFrame DEF HiddenInv
<1>3. c \notin Sweepers BY Names
<1>4. HiddenTypes' BY <1>1, <1>2 DEF LeavesAlone, HiddenInv, HiddenTypes, sweepers
<1>5. (\A d \in Callers : CallerKnows(d)') /\ (\A w \in Sweepers : SweeperKnows(w)')
  BY <1>1, <1>2, <1>3, OthersKnow DEF sweepers
<1> QED
  BY <1>1, <1>4, <1>5 DEF HiddenInv

-----------------------------------------------------------------------------
(* The sweepers. *)

SweeperMovesOn(w) == Wake(w) \/ SweeperStep(w) \/ SweeperDies(w)

LEMMA SweeperFrame ==
    ASSUME SessionInv, HiddenInv, NEW w \in Sweepers, SweeperMovesOn(w)
    PROVE  /\ DOMAIN verdict' = Sweepers /\ UNCHANGED calls
           /\ \A v \in Sweepers \ {w} : sweep'[v] = sweep[v] /\ rows'[v] = rows[v] /\ verdict'[v] = verdict[v]
<1>0. DOMAIN verdict = Sweepers /\ DOMAIN sweep = Sweepers /\ DOMAIN rows = Sweepers
  BY DEF SessionInv, LeasesHold, HiddenInv, HiddenTypes
<1> USE <1>0 DEF GoTo, SweepersOnly
<1>1. CASE Wake(w) BY <1>1 DEF Wake
<1>2. CASE ReleaseStale(w) BY <1>2 DEF ReleaseStale
<1>3. CASE LookFirst(w) BY <1>3 DEF LookFirst, OrFails
<1>4. CASE Candidates(w) BY <1>4 DEF Candidates
<1>5. CASE ClaimInbox(w) BY <1>5 DEF ClaimInbox
<1>6. CASE CheckCollision(w) BY <1>6 DEF CheckCollision, OrFails
<1>7. CASE GiveBack(w) BY <1>7 DEF GiveBack
<1>8. CASE TimeIsUp(w) BY <1>8 DEF TimeIsUp
<1>9. CASE CheckFollowUp(w) BY <1>9 DEF CheckFollowUp, ReleaseWith
<1>10. CASE ActOnSnooze(w) BY <1>10 DEF ActOnSnooze, Decide
<1>11. CASE WriteOutcome(w) BY <1>11 DEF WriteOutcome, ReleaseWith
<1>12. CASE SweeperDies(w) BY <1>12 DEF SweeperDies
<1> QED
  BY <1>1, <1>2, <1>3, <1>4, <1>5, <1>6, <1>7, <1>8, <1>9, <1>10, <1>11, <1>12 DEF SweeperMovesOn, SweeperStep

\* A step by which w goes on with the rows it has, or with none.
LEMMA GoesOn ==
    ASSUME SessionInv, HiddenInv, NEW w \in Sweepers, NEW to, GoTo(w, to), to # "write",
           to \in Claimed => rows'[w] \subseteq rows[w] /\ sweep[w] \in Claimed,
           \A r \in rows'[w] : IsOpen(r) => IsOpen(r)'
    PROVE  SweeperKnows(w)'
<1>1. sweep'[w] = to BY DEF GoTo, SessionInv, LeasesHold
<1>2. sweep[w] \in Claimed => \A r \in rows[w] : IsOpen(r) BY DEF HiddenInv, SweeperKnows
<1> QED
  BY <1>1, <1>2 DEF SweeperKnows

\* The steps that neither take nor write.
LEMMA QuietHidden ==
    ASSUME SessionInv, HiddenInv, NEW w \in Sweepers,
           Wake(w) \/ LookFirst(w) \/ Candidates(w) \/ CheckCollision(w) \/ TimeIsUp(w)
    PROVE  LeavesAlone(w) /\ KnownWhileHidden' /\ SweeperKnows(w)'
<1>1. UNCHANGED <<status, holder, mailboxes>>
  BY DEF Wake, LookFirst, Candidates, CheckCollision, TimeIsUp, SweepersOnly, reminderRows
<1>2. LeavesAlone(w) /\ KnownWhileHidden' BY <1>1, LeaseStep DEF HiddenInv
<1>3. \/ \E to \in {"stale", "candidates", "idle", "claim"} : GoTo(w, to)
      \/ \E to \in {"give back", "act"} : GoTo(w, to) /\ UNCHANGED rows /\ sweep[w] \in {"look again", "act"}
  <2>1. CASE Wake(w) BY <2>1 DEF Wake
  <2>2. CASE LookFirst(w) BY <2>2 DEF LookFirst, OrFails
  <2>3. CASE Candidates(w) BY <2>3 DEF Candidates
  <2>4. CASE CheckCollision(w) BY <2>4 DEF CheckCollision, OrFails
  <2>5. CASE TimeIsUp(w) BY <2>5 DEF TimeIsUp
  <2> QED
    BY <2>1, <2>2, <2>3, <2>4, <2>5
<1>4. SweeperKnows(w)'
  <2>1. \A r : IsOpen(r)' <=> IsOpen(r) BY <1>1 DEF IsOpen
  <2> QED
    BY <1>3, <2>1, GoesOn DEF Claimed, AtWork
<1> QED
  BY <1>2, <1>4

LEMMA StaleHidden ==
    ASSUME SessionInv, HiddenInv, NEW w \in Sweepers, ReleaseStale(w)
    PROVE  LeavesAlone(w) /\ KnownWhileHidden' /\ SweeperKnows(w)'
<1>1. /\ UNCHANGED <<status, mailboxes>> /\ GoTo(w, "look")
      /\ Take({r \in Reminders : holder[r] = "stale"}, Nobody) \/ UNCHANGED holder
  BY DEF ReleaseStale, SweepersOnly, OrFails
<1>2. "stale" \notin Actors /\ Nobody \notin Actors BY Names DEF Actors
<1>3. \A r \in Reminders : holder'[r] = holder[r] \/ (holder[r] = "stale" /\ holder'[r] = Nobody) BY <1>1, Taking
<1>4. \A y \in Actors \ {w} : \A r \in Reminders : holder[r] = y <=> holder'[r] = y BY <1>2, <1>3
<1>5. \A r \in Reminders : holder[r] = Nobody => holder'[r] = Nobody BY <1>3
<1>6. LeavesAlone(w) /\ KnownWhileHidden' BY <1>1, <1>4, <1>5, LeaseStep DEF HiddenInv
<1>7. \A r : IsOpen(r)' <=> IsOpen(r) BY <1>1 DEF IsOpen
<1>8. SweeperKnows(w)' BY <1>1, <1>7, GoesOn DEF Claimed, AtWork
<1> QED
  BY <1>6, <1>8

LEMMA ClaimHidden ==
    ASSUME SessionInv, HiddenInv, NEW w \in Sweepers, ClaimInbox(w)
    PROVE  LeavesAlone(w) /\ KnownWhileHidden' /\ SweeperKnows(w)'
<1>0. PICK won : won = {r \in rows[w] : IsOpen(r) /\ holder[r] = Nobody} OBVIOUS
<1>1. /\ UNCHANGED <<status, mailboxes>>
      /\ UNCHANGED holder \/ \E x \in {w, "dead"} : Take(won, x)
      /\ GoTo(w, "idle") \/ (GoTo(w, "look again") /\ rows' = [rows EXCEPT ![w] = won])
  BY <1>0 DEF ClaimInbox, SweepersOnly
<1>2. Nobody \notin Actors /\ "dead" \notin Actors BY Names DEF Actors
<1>3. \A r \in Reminders :
        holder'[r] = holder[r] \/ (holder[r] = Nobody /\ status[r] # "none" /\ holder'[r] \in {w, "dead"})
  <2>1. \A r \in won : holder[r] = Nobody /\ status[r] # "none" BY <1>0 DEF IsOpen, OpenStatuses
  <2>2. ASSUME NEW x \in {w, "dead"}, Take(won, x)
        PROVE  \A r \in Reminders : holder'[r] = holder[r] \/ (r \in won /\ holder'[r] = x)
    BY <2>2, Taking
  <2> QED
    BY <1>1, <2>1, <2>2
<1>4. \A y \in Actors \ {w} : \A r \in Reminders : holder[r] = y <=> holder'[r] = y BY <1>2, <1>3
<1>5. \A r \in Reminders : holder[r] = Nobody => holder'[r] = Nobody \/ status[r] # "none" BY <1>3
<1>6. LeavesAlone(w) /\ KnownWhileHidden' BY <1>1, <1>4, <1>5, LeaseStep DEF HiddenInv
<1>7. \A r : IsOpen(r)' <=> IsOpen(r) BY <1>1 DEF IsOpen
<1>8. CASE GoTo(w, "idle") BY <1>6, <1>7, <1>8, GoesOn DEF Claimed, AtWork
<1>9. CASE GoTo(w, "look again") /\ rows' = [rows EXCEPT ![w] = won]
  <2>1. sweep'[w] = "look again" /\ rows'[w] = won BY <1>9 DEF GoTo, SessionInv, LeasesHold
  <2> QED
    BY <1>0, <1>6, <1>7, <2>1 DEF SweeperKnows
<1> QED
  BY <1>1, <1>6, <1>8, <1>9

LEMMA GiveBackHidden ==
    ASSUME SessionInv, HiddenInv, NEW w \in Sweepers, GiveBack(w)
    PROVE  LeavesAlone(w) /\ KnownWhileHidden' /\ SweeperKnows(w)'
<1>1. PICK r \in rows[w] :
        /\ rows' = [rows EXCEPT ![w] = @ \ {r}]
        /\ Take({r} \cap {q \in Reminders : holder[q] = w}, Nobody) \/ Take({r}, "dead")
  BY DEF GiveBack, OrFails
<1>2. /\ UNCHANGED <<status, mailboxes>> /\ sweep[w] = "give back"
      /\ GoTo(w, "idle") \/ GoTo(w, "give back")
  BY DEF GiveBack, SweepersOnly
<1>3. r \in Reminders /\ holder[r] = w /\ rows'[w] \subseteq rows[w] /\ IsOpen(r)
  BY <1>1, <1>2 DEF SessionInv, LeasesHold, Claimed, HiddenInv, SweeperKnows
<1>4. Nobody \notin Actors /\ "dead" \notin Actors BY Names DEF Actors
<1>5. /\ \A q \in Reminders \ {r} : holder'[q] = holder[q]
      /\ holder'[r] \in {Nobody, "dead"}
  BY <1>1, <1>3, Taking
<1>6. \A y \in Actors \ {w} : \A q \in Reminders : holder[q] = y <=> holder'[q] = y BY <1>3, <1>4, <1>5
<1>7. \A q \in Reminders : holder[q] = Nobody => holder'[q] = Nobody \/ status[q] # "none"
  BY <1>3, <1>5 DEF IsOpen, OpenStatuses
<1>8. LeavesAlone(w) /\ KnownWhileHidden' BY <1>2, <1>6, <1>7, LeaseStep DEF HiddenInv
<1>9. \A q : IsOpen(q)' <=> IsOpen(q) BY <1>2 DEF IsOpen
<1>10. SweeperKnows(w)' BY <1>2, <1>3, <1>9, GoesOn DEF Claimed, AtWork
<1> QED
  BY <1>8, <1>10

LEMMA ActHidden ==
    ASSUME SessionInv, HiddenInv, NEW w \in Sweepers, ActOnSnooze(w)
    PROVE  LeavesAlone(w) /\ KnownWhileHidden' /\ SweeperKnows(w)'
<1>1. /\ UNCHANGED <<status, holder, rows>> /\ sweep[w] = "act" /\ GoTo(w, "write")
  BY DEF ActOnSnooze, reminderRows
<1>2. PICK s, st, ch :
        /\ s \in rows[w] \cap Snoozes
        /\ Decide(w, s, st, ch)
        /\ \/ BringBack(s, knows[s], "back") /\ st = "returned"
           \/ BringBack(s, knows[s], "gone") /\ st = "done"
           \/ BringBack(s, knows[s], "error") /\ st = status[s]
           \/ st \in {"replied", "failed"} /\ UNCHANGED mailboxes
  BY DEF ActOnSnooze
<1>3. s \in Reminders /\ w \in Actors /\ status[s] \in OpenStatuses /\ holder[s] = w
  BY <1>1, <1>2 DEF Reminders, Actors, HiddenInv, SweeperKnows, SessionInv, LeasesHold, Claimed, AtWork, IsOpen
<1>4. /\ folder' \subseteq folder /\ UNCHANGED <<told, misled>> /\ (st = "returned" => s \notin folder')
      /\ st \in Verdicts
  <2>1. CASE st \in {"replied", "failed"} /\ UNCHANGED mailboxes BY <2>1 DEF mailboxes, Verdicts
  <2>2. CASE BringBack(s, knows[s], "back") /\ st = "returned" BY <2>2, BringBackEffect DEF Verdicts
  <2>3. CASE BringBack(s, knows[s], "gone") /\ st = "done" BY <2>3, BringBackEffect DEF Verdicts
  <2>4. CASE BringBack(s, knows[s], "error") /\ st = status[s]
    BY <1>3, <2>4, BringBackEffect DEF Verdicts, OpenStatuses
  <2> QED
    BY <1>2, <2>1, <2>2, <2>3, <2>4
<1>5. s \in folder' \ misled' => Watched(s)' BY <1>1, <1>4 DEF HiddenInv, KnownWhileHidden, Watched
<1>6. LeavesAlone(w) /\ KnownWhileHidden'
  BY <1>1, <1>3, <1>4, <1>5, OneRowStep DEF HiddenInv, HiddenTypes
<1>7. verdict'[w] = [row |-> s, status |-> st, check |-> ch] /\ sweep'[w] = "write"
  BY <1>1, <1>2 DEF Decide, GoTo, HiddenInv, HiddenTypes, SessionInv, LeasesHold
<1>8. verdict'[w].row = s /\ verdict'[w].status = st BY <1>7
<1>9. \A r \in rows'[w] : IsOpen(r)'
  BY <1>1 DEF HiddenInv, SweeperKnows, Claimed, AtWork, IsOpen
<1>10. SweeperKnows(w)' BY <1>1, <1>2, <1>4, <1>7, <1>8, <1>9 DEF SweeperKnows
<1> QED
  BY <1>6, <1>10

LEMMA ReleaseHidden ==
    ASSUME SessionInv, HiddenInv, NEW w \in Sweepers, sweep[w] \in Acting,
           NEW r \in rows[w], NEW st, NEW ch, ReleaseWith(w, r, st, ch), st # "none",
           r \in Snoozes => st \in Verdicts /\ (st = "returned" => r \notin folder)
    PROVE  LeavesAlone(w) /\ KnownWhileHidden' /\ SweeperKnows(w)'
<1>1. r \in Reminders /\ w \in Actors /\ holder[r] = w /\ status[r] \in OpenStatuses /\ DOMAIN status = Reminders
  BY DEF Actors, HiddenInv, SweeperKnows, SessionInv, LeasesHold, Claimed, AtWork, Acting, IsOpen
<1>2. /\ UNCHANGED mailboxes /\ rows' = [rows EXCEPT ![w] = @ \ {r}]
      /\ GoTo(w, "idle") \/ GoTo(w, "act")
      /\ \/ Take({r}, Nobody) /\ status' = [status EXCEPT ![r] = st]
         \/ Take({r}, "dead") /\ UNCHANGED status
  BY <1>1 DEF ReleaseWith, SweepersOnly
<1>3. Nobody \notin Actors /\ "dead" \notin Actors /\ status[r] # "none" BY <1>1, Names DEF Actors, OpenStatuses
<1>4. /\ \A q \in Reminders \ {r} : holder'[q] = holder[q] /\ status'[q] = status[q]
      /\ holder'[r] \in {Nobody, "dead"} /\ status'[r] \in {status[r], st}
  BY <1>1, <1>2, Taking
<1>5. r \in folder' => Watched(r)'
  <2>1. r \in folder => r \in Snoozes /\ st \in {"pending", "due", "failed", "done", "replied"}
    BY DEF HiddenInv, HiddenTypes, Verdicts, OpenStatuses
  <2> QED
    BY <1>1, <1>2, <1>4, <2>1 DEF Watched, mailboxes, ActiveStatuses, OpenStatuses
<1>6. LeavesAlone(w) /\ KnownWhileHidden'
  BY <1>1, <1>2, <1>3, <1>4, <1>5, OneRowStep DEF HiddenInv, HiddenTypes, mailboxes
<1>7. rows'[w] \subseteq rows[w] \ {r} /\ rows[w] \subseteq Reminders BY <1>2 DEF SessionInv, LeasesHold
<1>8. \A q \in rows'[w] : IsOpen(q) => IsOpen(q)' BY <1>4, <1>7 DEF IsOpen
<1>9. sweep[w] \in Claimed BY DEF Claimed, AtWork, Acting
<1>10. SweeperKnows(w)' BY <1>2, <1>7, <1>8, <1>9, GoesOn DEF Claimed, AtWork
<1> QED
  BY <1>6, <1>10

LEMMA SweepersHidden ==
    ASSUME SessionInv, HiddenInv, NEW w \in Sweepers, SweeperMovesOn(w)
    PROVE  HiddenInv'
<1>1. LeavesAlone(w) /\ KnownWhileHidden' /\ SweeperKnows(w)'
  <2>1. CASE WriteOutcome(w)
    <3>1. /\ sweep[w] = "write" /\ verdict[w].row \in rows[w] /\ verdict[w].status \in Verdicts
          /\ verdict[w].status = "returned" => verdict[w].row \notin folder
      BY <2>1 DEF WriteOutcome, HiddenInv, SweeperKnows
    <3>2. verdict[w].status # "none" BY <3>1 DEF Verdicts, OpenStatuses
    <3> QED
      BY <2>1, <3>1, <3>2, ReleaseHidden DEF WriteOutcome, Acting
  <2>2. CASE CheckFollowUp(w)
    <3>1. PICK r \in rows[w] \cap FollowUps : \E o \in FollowUpOutcomes(r) : ReleaseWith(w, r, o[1], o[2])
      BY <2>2 DEF CheckFollowUp
    <3>2. PICK o \in FollowUpOutcomes(r) : ReleaseWith(w, r, o[1], o[2]) BY <3>1
    <3>3. r \notin Snoozes BY ReminderAssumption
    <3>4. sweep[w] = "act" /\ status[r] \in OpenStatuses
      BY <2>2 DEF CheckFollowUp, HiddenInv, SweeperKnows, Claimed, AtWork, IsOpen
    <3>5. o[1] # "none" BY <3>2, <3>4 DEF FollowUpOutcomes, OpenStatuses
    <3> QED
      BY <3>2, <3>3, <3>4, <3>5, ReleaseHidden DEF Acting
  <2>3. CASE SweeperDies(w)
    <3>1. /\ UNCHANGED <<status, mailboxes>> /\ GoTo(w, "idle")
          /\ \A r \in Reminders : holder'[r] = IF holder[r] = w THEN "dead" ELSE holder[r]
      BY <2>3 DEF SweeperDies, SweepersOnly
    <3>2. Nobody \notin Actors /\ "dead" \notin Actors /\ w # Nobody BY Names DEF Actors
    <3>3. \A y \in Actors \ {w} : \A r \in Reminders : holder[r] = y <=> holder'[r] = y BY <3>1, <3>2
    <3>4. \A r \in Reminders : holder[r] = Nobody => holder'[r] = Nobody BY <3>1, <3>2
    <3>5. LeavesAlone(w) /\ KnownWhileHidden' BY <3>1, <3>3, <3>4, LeaseStep DEF HiddenInv
    <3>6. \A r : IsOpen(r)' <=> IsOpen(r) BY <3>1 DEF IsOpen
    <3>7. SweeperKnows(w)' BY <3>1, <3>6, GoesOn DEF Claimed, AtWork
    <3> QED
      BY <3>5, <3>7
  <2> QED
    BY <2>1, <2>2, <2>3, QuietHidden, StaleHidden, ClaimHidden, GiveBackHidden, ActHidden
    DEF SweeperMovesOn, SweeperStep
<1>2. /\ DOMAIN verdict' = Sweepers /\ UNCHANGED calls
      /\ \A v \in Sweepers \ {w} : sweep'[v] = sweep[v] /\ rows'[v] = rows[v] /\ verdict'[v] = verdict[v]
  BY SweeperFrame
<1>3. w \notin Callers BY Names
<1>4. HiddenTypes' BY <1>1, <1>2 DEF LeavesAlone, HiddenInv, HiddenTypes, calls
<1>5. (\A c \in Callers : CallerKnows(c)') /\ (\A v \in Sweepers : SweeperKnows(v)')
  BY <1>1, <1>2, <1>3, OthersKnow DEF calls
<1> QED
  BY <1>1, <1>4, <1>5 DEF HiddenInv

\* Time and the owner.
LEMMA WorldHidden ==
    ASSUME SessionInv, HiddenInv, NEW r \in Reminders, ComesDue(r) \/ HolderAges(r) \/ (r \in Snoozes /\ OwnerMoves(r))
    PROVE  HiddenInv'
<1>1. /\ UNCHANGED <<status, sweepers, calls, told, misled>> /\ folder' \subseteq folder
      /\ UNCHANGED holder \/ (holder[r] = "dead" /\ Take({r}, "stale"))
  BY DEF ComesDue, HolderAges, OwnerMoves, mailboxes, reminderRows
<1>2. Nobody \notin Actors /\ "dead" \notin Actors /\ "stale" \notin Actors BY Names DEF Actors
<1>3. \A q \in Reminders : holder'[q] = holder[q] \/ (holder[q] = "dead" /\ holder'[q] = "stale") BY <1>1, Taking
<1>4. PICK x : x \notin Actors BY <1>2
<1>5. \A q \in Reminders : status[q] = "none" => holder'[q] = Nobody BY <1>3 DEF HiddenInv, HiddenTypes, Nobody
<1>6. LeavesAlone(x)
  BY <1>1, <1>2, <1>3, <1>5 DEF LeavesAlone, HiddenInv, HiddenTypes
<1>7. HiddenTypes' BY <1>1, <1>6 DEF LeavesAlone, HiddenInv, HiddenTypes, sweepers, calls
<1>8. (\A c \in Callers : CallerKnows(c)') /\ (\A w \in Sweepers : SweeperKnows(w)')
  BY <1>1, <1>4, <1>6, OthersKnow DEF sweepers, calls, Actors
<1>9. KnownWhileHidden' BY <1>1 DEF HiddenInv, KnownWhileHidden, Watched
<1> QED
  BY <1>7, <1>8, <1>9 DEF HiddenInv

LEMMA HiddenStep == SessionInv /\ HiddenInv /\ [ReminderNext]_reminderVars => HiddenInv'
<1> SUFFICES ASSUME SessionInv, HiddenInv, [ReminderNext]_reminderVars PROVE HiddenInv'
  OBVIOUS
<1>1. CASE UNCHANGED reminderVars
  BY <1>1 DEF reminderVars, reminderRows, mailboxes, sweepers, calls, HiddenInv, HiddenTypes, CallerKnows,
     SweeperKnows, KnownWhileHidden, Watched, IsOpen
<1>2. CASE \E r \in Reminders : ComesDue(r) \/ HolderAges(r)
  BY <1>2, WorldHidden
<1>3. CASE \E s \in Snoozes : OwnerMoves(s)
  BY <1>3, WorldHidden DEF Reminders
<1> QED
  BY <1>1, <1>2, <1>3, CallersHidden, SweepersHidden DEF ReminderNext, CallerMoves, SweeperMovesOn

\* Mail that waits in the snooze folder has a row that brings it back or that its
\* owner closed, or its owner was told where it is (createSnooze's row before the
\* move, the undo of a move nothing could name, and the lease under which a row is
\* deleted, cancelled or brought back): for every number of calls and sweepers that
\* die, lose answers and cross.
THEOREM HiddenIsKnown == ReminderSpec => []KnownWhileHidden
<1>1. ReminderSpec => [](SessionInv /\ HiddenInv)
  BY SessionInit, SessionStep, HiddenInit, HiddenStep, PTL DEF ReminderSpec
<1>2. HiddenInv => KnownWhileHidden
  BY DEF HiddenInv
<1> QED
  BY <1>1, <1>2, PTL

-----------------------------------------------------------------------------
(* What has ended is over. *)

\* A lease is on a row that is still to end.
LeasedIsActive == \A r \in Reminders : holder[r] # Nobody => status[r] \in ActiveStatuses

\* A step leaves a row's status, and leases it if it is active; or ends or opens one
\* that has not ended.
KeepsRow(r) ==
    \/ /\ status'[r] = status[r]
       /\ holder'[r] = Nobody \/ holder[r] # Nobody \/ status[r] \in ActiveStatuses
    \/ /\ status[r] \notin Ended
       /\ holder'[r] = Nobody \/ status'[r] \in ActiveStatuses

KeepsRows == \A r \in Reminders : KeepsRow(r)

LEMMA ActiveIsNotEnded == \A st \in ActiveStatuses : st \notin Ended /\ st # "none"
BY DEF ActiveStatuses, OpenStatuses, Ended

\* A step on the row s.
LEMMA OneRowKept ==
    ASSUME SessionInv, NEW s, KeepsRow(s),
           \A r \in Reminders \ {s} : holder'[r] = holder[r] /\ status'[r] = status[r]
    PROVE  KeepsRows
BY DEF KeepsRows, KeepsRow

LEMMA CallersKeep ==
    ASSUME SessionInv, LeasedIsActive, NEW c \in Callers,
           InsertLeased(c) \/ LoadForChange(c) \/ CallerStep(c) \/ CallerDies(c)
    PROVE  KeepsRows
<1>0. c # Nobody BY Names
<1>1. CASE InsertLeased(c)
  <2>1. PICK s \in Snoozes :
             /\ status[s] = "none" /\ status' = [status EXCEPT ![s] = "pending"]
             /\ \E x \in {c, "dead"} : Take({s}, x)
    BY <1>1 DEF InsertLeased
  <2>2. /\ \A r \in Reminders \ {s} : holder'[r] = holder[r] /\ status'[r] = status[r]
        /\ status'[s] = "pending"
    BY <2>1, Taking DEF SessionInv, LeasesHold, Reminders
  <2>3. KeepsRow(s) BY <2>1, <2>2 DEF KeepsRow, Ended, ActiveStatuses, OpenStatuses
  <2> QED
    BY <2>2, <2>3, OneRowKept
<1>2. CASE UNCHANGED <<status, holder>>
  BY <1>2 DEF KeepsRows, KeepsRow
<1>3. CASE SaveMoved(c) \/ UndoMove(c) \/ LeaseForCancel(c) \/ CallerDies(c)
  <2>1. UNCHANGED status
    BY <1>3 DEF SaveMoved, UndoMove, LeaseForCancel, CallerDies, reminderRows
  <2>2. ASSUME NEW r \in Reminders
        PROVE  holder'[r] = holder[r] \/ holder'[r] = Nobody \/ holder[r] # Nobody \/ status[r] \in ActiveStatuses
    <3>1. CASE SaveMoved(c)
      BY <1>0, <2>2, <3>1, Taking DEF SaveMoved, Mine, SessionInv, LeasesHold
    <3>2. CASE UndoMove(c)
      <4>1. PICK s : \/ UNCHANGED holder
                     \/ Take({s} \cap {q \in Reminders : holder[q] = c}, "dead")
        BY <3>2 DEF UndoMove, reminderRows
      <4> QED
        BY <1>0, <2>2, <4>1, Taking
    <3>3. CASE LeaseForCancel(c)
      BY <2>2, <3>3, Taking DEF LeaseForCancel
    <3>4. CASE CallerDies(c)
      <4>1. holder'[r] = IF holder[r] = c THEN "dead" ELSE holder[r] BY <2>2, <3>4 DEF CallerDies
      <4> QED
        BY <1>0, <4>1
    <3> QED
      BY <1>3, <3>1, <3>2, <3>3, <3>4
  <2> QED
    BY <2>1, <2>2 DEF KeepsRows, KeepsRow
<1>4. CASE DeleteRow(c) \/ CancelReleases(c)
  <2>0. PICK s : s = about[c] OBVIOUS
  <2>1. \/ UNCHANGED <<status, holder>>
        \/ /\ holder[s] = c
           /\ \E x \in {Nobody, "dead"} : Take({s}, x)
           /\ UNCHANGED status \/ (Take({s}, Nobody) /\ \E st : status' = [status EXCEPT ![s] = st])
    BY <1>4, <2>0 DEF DeleteRow, CancelReleases, Mine
  <2>2. CASE UNCHANGED <<status, holder>>
    BY <1>2, <2>2
  <2>3. CASE /\ holder[s] = c
             /\ \E x \in {Nobody, "dead"} : Take({s}, x)
             /\ UNCHANGED status \/ (Take({s}, Nobody) /\ \E st : status' = [status EXCEPT ![s] = st])
    <3>1. /\ \A r \in Reminders \ {s} : holder'[r] = holder[r] /\ status'[r] = status[r]
          /\ s \in Reminders => status'[s] = status[s] \/ holder'[s] = Nobody
      BY <2>3, Taking DEF SessionInv, LeasesHold
    <3>2. s \in Reminders => status[s] \notin Ended
      BY <1>0, <2>3, ActiveIsNotEnded DEF LeasedIsActive
    <3>3. s \in Reminders => KeepsRow(s) BY <1>0, <2>3, <3>1, <3>2 DEF KeepsRow
    <3> QED
      BY <3>1, <3>3, OneRowKept DEF KeepsRows, KeepsRow
  <2> QED
    BY <2>1, <2>2, <2>3
<1>5. CASE FinishReminder(c)
  <2>0. PICK r : r = about[c] OBVIOUS
  <2>1. UNCHANGED holder /\ (UNCHANGED status \/ (status[r] \in ActiveStatuses /\ holder[r] = Nobody
          /\ \E st : status' = [status EXCEPT ![r] = st]))
    BY <1>5, <2>0 DEF FinishReminder
  <2>2. CASE UNCHANGED status BY <1>2, <2>1, <2>2
  <2>3. CASE status[r] \in ActiveStatuses /\ holder[r] = Nobody /\ \E st : status' = [status EXCEPT ![r] = st]
    <3>1. KeepsRow(r) BY <2>1, <2>3, ActiveIsNotEnded DEF KeepsRow
    <3>2. \A q \in Reminders \ {r} : holder'[q] = holder[q] /\ status'[q] = status[q]
      BY <2>1, <2>3 DEF SessionInv, LeasesHold
    <3> QED
      BY <3>1, <3>2, OneRowKept
  <2> QED
    BY <2>1, <2>2, <2>3
<1>6. ASSUME LoadForChange(c) \/ Move(c) \/ CancelBringsBack(c) PROVE UNCHANGED <<status, holder>>
  BY <1>6 DEF LoadForChange, Move, CancelBringsBack, reminderRows
<1> QED
  BY <1>1, <1>2, <1>3, <1>4, <1>5, <1>6 DEF CallerStep

LEMMA SweepersKeep ==
    ASSUME SessionInv, HiddenInv, LeasedIsActive, NEW w \in Sweepers, SweeperMovesOn(w)
    PROVE  KeepsRows
<1>0. w # Nobody /\ "dead" # Nobody BY Names DEF Nobody
<1>1. CASE UNCHANGED <<status, holder>>
  BY <1>1 DEF KeepsRows, KeepsRow
<1>2. CASE ReleaseStale(w) \/ ClaimInbox(w) \/ GiveBack(w) \/ SweeperDies(w)
  <2>1. UNCHANGED status
    BY <1>2 DEF ReleaseStale, ClaimInbox, GiveBack, SweeperDies
  <2>2. ASSUME NEW r \in Reminders
        PROVE  holder'[r] = holder[r] \/ holder'[r] = Nobody \/ holder[r] # Nobody \/ status[r] \in ActiveStatuses
    <3>1. CASE ReleaseStale(w) BY <2>2, <3>1, Taking DEF ReleaseStale, OrFails
    <3>2. CASE ClaimInbox(w)
      <4>1. PICK won : won = {q \in rows[w] : IsOpen(q) /\ holder[q] = Nobody} OBVIOUS
      <4>2. UNCHANGED holder \/ \E x \in {w, "dead"} : Take(won, x)
        BY <3>2, <4>1 DEF ClaimInbox
      <4>3. r \in won => status[r] \in ActiveStatuses
        BY <4>1 DEF IsOpen, ActiveStatuses
      <4> QED
        BY <2>2, <4>2, <4>3, Taking
    <3>3. CASE GiveBack(w)
      <4>1. PICK q \in rows[w] : \/ Take({q} \cap {p \in Reminders : holder[p] = w}, Nobody)
                                 \/ Take({q}, "dead")
        BY <3>3 DEF GiveBack, OrFails
      <4>2. holder[q] = w BY <3>3 DEF GiveBack, SessionInv, LeasesHold, Claimed
      <4> QED
        BY <1>0, <2>2, <4>1, <4>2, Taking
    <3>4. CASE SweeperDies(w)
      <4>1. holder'[r] = IF holder[r] = w THEN "dead" ELSE holder[r] BY <2>2, <3>4 DEF SweeperDies
      <4> QED
        BY <1>0, <4>1
    <3> QED
      BY <1>2, <3>1, <3>2, <3>3, <3>4
  <2> QED
    BY <2>1, <2>2 DEF KeepsRows, KeepsRow
<1>3. ASSUME NEW r, NEW st, NEW ch, ReleaseWith(w, r, st, ch) PROVE KeepsRows
  <2>1. \/ UNCHANGED <<status, holder>>
        \/ holder[r] = w /\ Take({r}, Nobody) /\ status' = [status EXCEPT ![r] = st]
        \/ holder[r] = w /\ Take({r}, "dead") /\ UNCHANGED status
    BY <1>3 DEF ReleaseWith
  <2>2. CASE UNCHANGED <<status, holder>> BY <1>1, <2>2
  <2>3. CASE holder[r] = w /\ (\E x : Take({r}, x)) /\ (Take({r}, Nobody) \/ UNCHANGED status)
             /\ (UNCHANGED status \/ status' = [status EXCEPT ![r] = st])
    <3>1. /\ \A q \in Reminders \ {r} : holder'[q] = holder[q] /\ status'[q] = status[q]
          /\ r \in Reminders => status'[r] = status[r] \/ holder'[r] = Nobody
      BY <2>3, Taking DEF SessionInv, LeasesHold
    <3>2. r \in Reminders => status[r] \notin Ended
      BY <1>0, <2>3, ActiveIsNotEnded DEF LeasedIsActive
    <3>3. r \in Reminders => KeepsRow(r) BY <1>0, <2>3, <3>1, <3>2 DEF KeepsRow
    <3> QED
      BY <3>1, <3>3, OneRowKept DEF KeepsRows, KeepsRow
  <2> QED
    BY <2>1, <2>2, <2>3
<1>4. CASE WriteOutcome(w) BY <1>3, <1>4 DEF WriteOutcome
<1>5. CASE CheckFollowUp(w) BY <1>3, <1>5 DEF CheckFollowUp
<1>6. ASSUME \/ Wake(w) \/ LookFirst(w) \/ Candidates(w) \/ CheckCollision(w)
             \/ TimeIsUp(w) \/ ActOnSnooze(w)
      PROVE  UNCHANGED <<status, holder>>
  BY <1>6 DEF Wake, LookFirst, Candidates, CheckCollision, TimeIsUp, ActOnSnooze, reminderRows
<1> QED
  BY <1>1, <1>2, <1>4, <1>5, <1>6 DEF SweeperMovesOn, SweeperStep

LEMMA RowsKept ==
    SessionInv /\ HiddenInv /\ LeasedIsActive /\ [ReminderNext]_reminderVars => KeepsRows
<1> SUFFICES ASSUME SessionInv, HiddenInv, LeasedIsActive, [ReminderNext]_reminderVars PROVE KeepsRows
  OBVIOUS
<1>1. CASE UNCHANGED reminderVars
  BY <1>1 DEF reminderVars, reminderRows, KeepsRows, KeepsRow
<1>2. ASSUME NEW r \in Reminders, ComesDue(r) \/ HolderAges(r) PROVE KeepsRows
  <2>1. "dead" # Nobody BY DEF Nobody
  <2>2. UNCHANGED status BY <1>2 DEF ComesDue, HolderAges
  <2>3. \A q \in Reminders : holder'[q] = holder[q] \/ holder[q] # Nobody
    BY <1>2, <2>1, Taking DEF ComesDue, HolderAges
  <2> QED
    BY <2>2, <2>3 DEF KeepsRows, KeepsRow
<1>3. CASE \E s \in Snoozes : OwnerMoves(s)
  BY <1>3 DEF OwnerMoves, reminderRows, KeepsRows, KeepsRow
<1> QED
  BY <1>1, <1>2, <1>3, CallersKeep, SweepersKeep DEF ReminderNext, SweeperMovesOn

LEMMA ActiveStep ==
    SessionInv /\ HiddenInv /\ LeasedIsActive /\ [ReminderNext]_reminderVars => LeasedIsActive'
BY RowsKept DEF KeepsRows, KeepsRow, LeasedIsActive

\* reminders-engine.ts: whoever still works on a reminder that its owner finished, that
\* was answered or that brought its message back, nobody writes another status over the
\* one it ended with.
THEOREM EndedIsOver == ReminderSpec => EndedStays
<1> DEFINE Over == \A r \in Reminders : status[r] \in Ended => status'[r] = status[r]
<1>1. SessionInv /\ HiddenInv /\ LeasedIsActive /\ [ReminderNext]_reminderVars => [Over]_status
  BY RowsKept DEF KeepsRows, KeepsRow
<1>2. ReminderInit => LeasedIsActive
  BY DEF ReminderInit, LeasedIsActive
<1> QED
  BY <1>1, <1>2, SessionInit, SessionStep, HiddenInit, HiddenStep, ActiveStep, PTL
  DEF ReminderSpec, EndedStays
=============================================================================
