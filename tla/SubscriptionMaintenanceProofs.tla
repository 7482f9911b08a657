-------------------- MODULE SubscriptionMaintenanceProofs --------------------
(***************************************************************************)
(* Theorems about SubscriptionMaintenance, for any users, calendar, fine   *)
(* ceiling and number of payments and failures.                            *)
(***************************************************************************)
EXTENDS SubscriptionMaintenance, TLAPS

(***************************************************************************)
(* The calendar and the fine.                                              *)
(***************************************************************************)

(* wib_date is a day number.                                               *)
LEMMA WibDateType == \A t \in Int : WibDate(t) \in Int
  BY RulesAssumption DEF RulesAssumption, WibDate

(* wib_date never runs backwards.                                          *)
LEMMA WibDateMonotone ==
  ASSUME NEW s \in Int, NEW t \in Int, s <= t
  PROVE  WibDate(s) <= WibDate(t)
  BY RulesAssumption, SMTT(30) DEF RulesAssumption, WibDate

(* fine_amount_for_overdue_days grows with the days, from 0.               *)
LEMMA FineMonotone ==
  ASSUME NEW m \in Int, NEW n \in Int, m <= n
  PROVE  FineFor(m) \in Int /\ 0 <= FineFor(m) /\ FineFor(m) <= FineFor(n)
  BY RulesAssumption, SMTT(30) DEF RulesAssumption, FineFor, Max0

(* resolve_subscription_maintenance_action: the kind of step it picks says *)
(* on which side of the period end the clock of the run is, and an overdue *)
(* day is the distance between the two dates.                              *)
LEMMA ActionFacts ==
  ASSUME NEW end \in Int, NEW t \in Int, NEW s \in SanctionRows
  PROVE  LET a == MaintenanceAction(end, t, s)
             n == WibDate(t) - WibDate(end)
         IN /\ a.day \in Int
            /\ a.kind \in {"none", "pre_expiry", "expiry_day", "overdue", "withdrawal"}
            /\ a.kind = "none" <=> a = Nothing
            /\ a.kind \in {"pre_expiry", "expiry_day"} => n <= 0
            /\ a.kind = "overdue" => a.day = n /\ n >= 1 /\ n <= MaxFineDays
            /\ a.kind = "withdrawal" => a.day = n /\ n >= 1 /\ n > MaxFineDays
  <1> DEFINE d == DaysUntilExpiry(end, t)
             o == OverdueDays(end, t)
             n == WibDate(t) - WibDate(end)
  <1>1. /\ WibDate(t) \in Int /\ WibDate(end) \in Int
        /\ d = 0 - n /\ n \in Int
        /\ n <= 0 => o = 0
        /\ n > 0 => o = n
        /\ MaxFineDays \in Nat /\ PreExpiryDays \in Nat
    BY WibDateType, RulesAssumption
    DEF RulesAssumption, DaysUntilExpiry, OverdueDays, Max0
  <1> HIDE DEF d, o, n
  <1>2. MaintenanceAction(end, t, s) =
          IF d \in 1..PreExpiryDays /\ ~PreExpirySent(end, d, s) THEN PreExpiry(d)
          ELSE IF d = 0 /\ ~ExpiryDaySent(end, s) THEN ExpiryDay
          ELSE IF o \in 1..MaxFineDays /\ LastOverdueDay(end, s) # o THEN Overdue(o)
          ELSE IF o > MaxFineDays /\ ~s.withdrawal THEN MarkWithdrawal(o)
          ELSE Nothing
    BY DEF MaintenanceAction, d, o
  <1>3. CASE d >= 1
    BY <1>1, <1>2, <1>3 DEF n, PreExpiry, Nothing
  <1>4. CASE d = 0
    BY <1>1, <1>2, <1>4 DEF n, ExpiryDay, Nothing
  <1>5. CASE d < 0
    BY <1>1, <1>2, <1>5 DEF n, Overdue, MarkWithdrawal, Nothing
  <1>6. QED
    BY <1>1, <1>3, <1>4, <1>5

-----------------------------------------------------------------------------
(***************************************************************************)
(* Types and the shape of the job's control state.                         *)
(***************************************************************************)

(* Where the job is says what it holds: no records outside a run, a record *)
(* in hand exactly between taking it and marking it, with an action that   *)
(* the present step belongs to; its clock reading is not in the future.    *)
JobShape ==
  /\ pc \in {"idle", "fetch"} => pending = {}
  /\ pc \in {"send", "status", "upsert"} <=> current # NoRecord
  /\ current # NoRecord => Action(current).kind # "none"
  /\ pc = "status" => Action(current).kind \in {"overdue", "withdrawal"}
  /\ runNow <= now

TypeInv == TypeOK /\ JobShape

LEMMA NoRecordFacts ==
  /\ NoRecord \notin Records
  /\ NoRecord.user \notin Users
  /\ NoSanction \in SanctionRows
  /\ \A s \in SanctionRows : ResolvedSanction(s) \in SanctionRows
  <1>1. NULL \notin Users
    <2>1. NULL \notin Int
      BY RulesAssumption, Zenon DEF RulesAssumption
    <2>2. \A u \in Users : u \in Int
      BY MaintenanceAssumption DEF MaintenanceAssumption
    <2>3. QED
      BY <2>1, <2>2, Zenon
  <1>2. NoRecord.user = NULL
    BY DEF NoRecord
  <1>3. \A r \in Records : r.user \in Users
    BY DEF Records
  <1>4. NoSanction \in SanctionRows
    BY DEF NoSanction, SanctionRows, Mark
  <1>5. [NoSanction EXCEPT !.resolved = TRUE] \in SanctionRows
    BY <1>4 DEF SanctionRows
  <1>6. \A s \in SanctionRows : ResolvedSanction(s) \in SanctionRows
    BY <1>5 DEF ResolvedSanction
  <1>7. QED
    BY <1>1, <1>2, <1>3, <1>4, <1>6

LEMMA MarkedType ==
  ASSUME NEW s \in SanctionRows, NEW r \in Records, runNow \in Int
  PROVE  Marked(s, r) \in SanctionRows
  <1>1. r.sanction \in SanctionRows /\ r.periodEnd \in Int
    BY DEF Records
  <1>2. Action(r).day \in Int
    BY <1>1, ActionFacts DEF Action
  <1>3. FineFor(Action(r).day) \in Int
    BY <1>2, FineMonotone
  <1>4. QED
    BY <1>1, <1>2, <1>3
    DEF Marked, UpsertedSanction, MergedMark, SanctionRows, Mark

LEMMA InitTypeInv == Init => TypeInv
  <1> SUFFICES ASSUME Init PROVE TypeInv
    OBVIOUS
  <1>1. now \in Nat /\ LegacyEnd \in Int /\ 0 <= now
    BY RulesAssumption DEF RulesAssumption, Init, LegacyEnd
  <1>2. TypeOK
    BY <1>1, NoRecordFacts
    DEF Init, TypeOK, Subscriptions, NoSubscription, SanctionRows, NoSanction, Mark
  <1>3. JobShape
    BY <1>1 DEF Init, JobShape
  <1>4. QED
    BY <1>2, <1>3 DEF TypeInv

LEMMA NextTypeInv == TypeInv /\ [Next]_vars => TypeInv'
  <1> SUFFICES ASSUME TypeInv, [Next]_vars PROVE TypeInv'
    OBVIOUS
  <1> USE DEF TypeInv, TypeOK, JobShape
  <1>1. CASE Tick
    BY <1>1 DEF Tick, rows, job, history, Action
  <1>2. ASSUME NEW u \in Users, PayWebhook(u) PROVE TypeInv'
    <2>1. Extended(sub[u].periodEnd) \in Int
      BY MaintenanceAssumption
      DEF MaintenanceAssumption, Extended, Subscriptions, Mark
    <2>2. sub' \in [Users -> Subscriptions]
      BY <1>2, <2>1 DEF PayWebhook, Subscriptions, Mark
    <2>3. sanction' \in [Users -> SanctionRows]
      BY <1>2, NoRecordFacts DEF PayWebhook
    <2>4. raced' \subseteq Users /\ payments' \in [Users -> Nat]
      BY <1>2 DEF PayWebhook
    <2>5. QED
      BY <1>2, <2>2, <2>3, <2>4 DEF PayWebhook, job, Action
  <1>3. CASE StartRun
    BY <1>3 DEF StartRun, rows, history, Action
  <1>4. CASE FetchRecords
    <2>1. pending' \in SUBSET Records
      BY <1>4 DEF FetchRecords, Fetched, Records, Subscriptions, Mark
    <2>2. QED
      BY <1>4, <2>1 DEF FetchRecords, rows, history, Action
  <1>5. CASE NextRecord
    <2>1. PICK r \in pending : /\ pending' = pending \ {r}
                               /\ pc' = FirstStep(Action(r).kind)
                               /\ current' = IF Action(r) = Nothing THEN NoRecord ELSE r
      BY <1>5 DEF NextRecord
    <2>2. UNCHANGED <<now, sub, sanction, runNow, payments, failures, sent, repeated, unmarked, raced>>
      BY <1>5 DEF NextRecord, rows, history
    <2>3. r \in Records /\ r # NoRecord
      BY NoRecordFacts
    <2>4. /\ Action(r).kind \in {"none", "pre_expiry", "expiry_day", "overdue", "withdrawal"}
          /\ Action(r).kind = "none" <=> Action(r) = Nothing
      BY <2>3, ActionFacts DEF Action, Records
    <2>5. Action(r)' = Action(r)
      BY <2>2 DEF Action
    <2>6. pc' \in {"send", "status", "next"}
      BY <2>1 DEF FirstStep
    <2>7. JobShape'
      BY <1>5, <2>1, <2>2, <2>3, <2>4, <2>5, <2>6 DEF NextRecord, FirstStep, Reminders, Action
    <2>8. QED
      BY <2>1, <2>2, <2>3, <2>6, <2>7
  <1>6. CASE FinishRun
    BY <1>6 DEF FinishRun, rows, history, Action
  <1>7. CASE SendReminder
    BY <1>7 DEF SendReminder, Deliver, rows, Action
  <1>8. CASE SendRefused
    BY <1>8 DEF SendRefused, Abort, rows, history
  <1>9. CASE SetPastDue
    BY <1>9 DEF SetPastDue, Subscriptions, history, Action
  <1>10. CASE UpsertSanction
    <2>1. current \in Records /\ current.user \in Users
      BY <1>10 DEF UpsertSanction, Records
    <2>2. Marked(sanction[current.user], current) \in SanctionRows
      BY <2>1, MarkedType
    <2>3. sanction' \in [Users -> SanctionRows]
      BY <1>10, <2>1, <2>2 DEF UpsertSanction
    <2>4. QED
      BY <1>10, <2>3 DEF UpsertSanction, history, Action
  <1>11. CASE SendAnswerLost
    BY <1>11 DEF SendAnswerLost, Deliver, Abort, rows
  <1>12. CASE RunDies
    BY <1>12 DEF RunDies, Abort, rows
  <1>13. CASE UNCHANGED vars
    BY <1>13 DEF vars, rows, job, history, Action
  <1>14. QED
    BY <1>1, <1>2, <1>3, <1>4, <1>5, <1>6, <1>7, <1>8, <1>9, <1>10, <1>11, <1>12, <1>13
    DEF Next, JobStep

(* The rows and the job's variables keep their types under every           *)
(* interleaving of payments, ticks, runs and aborted runs.                 *)
THEOREM SpecTypeOK == Spec => []TypeOK
  <1>1. Spec => []TypeInv
    BY InitTypeInv, NextTypeInv, PTL DEF Spec
  <1>2. TypeInv => TypeOK
    BY DEF TypeInv
  <1>3. QED
    BY <1>1, <1>2, PTL

-----------------------------------------------------------------------------
(***************************************************************************)
(* The inductive invariant behind the fines.  The upsert overwrites the    *)
(* fine but keeps the overdue day of the same period where it has none to  *)
(* write; what makes this safe is that an overdue day on record is never   *)
(* later than the date the present run works with, so that a run before or *)
(* on the expiry date cannot meet one of that period.                      *)
(***************************************************************************)

RunTime == IF pc = "idle" THEN now ELSE runNow

RowDated(s, t) ==
  s.overdueDay # NULL =>
    /\ s.overdueDay >= 1
    /\ s.forPeriod # NULL
    /\ s.overdueDay + WibDate(s.forPeriod) <= WibDate(t)

RowConsistent(s) ==
  IF s.overdueDay = NULL
  THEN s.fine = 0 /\ ~s.withdrawal
  ELSE /\ s.fine = FineFor(s.overdueDay)
       /\ s.withdrawal <=> s.overdueDay > MaxFineDays

(* Of a user whose payment met no run, the records of a snapshot agree     *)
(* with the subscription row, and what the rows hold against the user is   *)
(* about the period in force.                                              *)
NotRaced(u) ==
  /\ sub[u].status = "none" <=> sub[u].periodEnd = NULL
  /\ sub[u].status = "past_due" => WibDate(sub[u].periodEnd) < WibDate(now)
  /\ sanction[u].overdueDay # NULL => sanction[u].forPeriod = sub[u].periodEnd
  /\ \A r \in pending : r.user = u => r.periodEnd = sub[u].periodEnd
  /\ current.user = u => current.periodEnd = sub[u].periodEnd

RowsInv == \A u \in Users : RowConsistent(sanction[u]) /\ RowDated(sanction[u], RunTime)

RacedInv == \A u \in Users \ raced : NotRaced(u)

IInv == TypeInv /\ RowsInv /\ RacedInv

LEMMA EmptyRowFacts ==
  ASSUME NEW t \in Int, NEW s \in SanctionRows, s.overdueDay = NULL, s.fine = 0, ~s.withdrawal
  PROVE  RowConsistent(s) /\ RowDated(s, t)
  BY DEF RowConsistent, RowDated

LEMMA ResolvedRowFacts ==
  ASSUME NEW t \in Int, NEW s \in SanctionRows, RowConsistent(s), RowDated(s, t)
  PROVE  /\ RowConsistent(ResolvedSanction(s)) /\ RowDated(ResolvedSanction(s), t)
         /\ ResolvedSanction(s).overdueDay = NULL
  <1>1. ResolvedSanction(s).overdueDay = NULL
    BY DEF ResolvedSanction, NoSanction
  <1>2. ResolvedSanction(s).fine = 0 /\ ResolvedSanction(s).withdrawal = FALSE
    BY DEF ResolvedSanction, NoSanction
  <1>3. QED
    BY <1>1, <1>2 DEF RowConsistent, RowDated

(* The heart of the argument: what one mark does to a row that is          *)
(* consistent and dated no later than the run.                             *)
LEMMA MarkedFacts ==
  ASSUME NEW s \in SanctionRows, NEW r \in Records, runNow \in Int,
         Action(r).kind # "none", RowConsistent(s), RowDated(s, runNow)
  PROVE  /\ RowConsistent(Marked(s, r))
         /\ RowDated(Marked(s, r), runNow)
         /\ Marked(s, r).forPeriod = r.periodEnd
         /\ s.forPeriod = r.periodEnd =>
              /\ Marked(s, r).fine >= s.fine
              /\ s.withdrawal => Marked(s, r).withdrawal
  <1> DEFINE a == Action(r)
             n == WibDate(runNow) - WibDate(r.periodEnd)
             m == Marked(s, r)
  <1>1. r.periodEnd \in Int /\ r.sanction \in SanctionRows /\ r.periodEnd # NULL
    BY RulesAssumption DEF RulesAssumption, Records
  <1>2. /\ a.day \in Int
        /\ a.kind \in {"pre_expiry", "expiry_day", "overdue", "withdrawal"}
        /\ a.kind \in {"pre_expiry", "expiry_day"} => n <= 0
        /\ a.kind = "overdue" => a.day = n /\ n >= 1 /\ n <= MaxFineDays
        /\ a.kind = "withdrawal" => a.day = n /\ n >= 1 /\ n > MaxFineDays
    BY <1>1, ActionFacts DEF Action
  <1>3. WibDate(runNow) \in Int /\ WibDate(r.periodEnd) \in Int /\ n \in Int
    BY <1>1, WibDateType
  <1>4. s.overdueDay # NULL => s.overdueDay \in Int /\ s.forPeriod \in Int
    BY DEF SanctionRows, Mark, RowDated
  <1>5. NULL \notin Int /\ MaxFineDays \in Nat
    BY RulesAssumption DEF RulesAssumption
  <1> HIDE DEF a, n
  <1>6. CASE a.kind \in {"overdue", "withdrawal"}
    <2>1. /\ m.forPeriod = r.periodEnd
          /\ m.overdueDay = a.day
          /\ m.fine = FineFor(a.day)
          /\ m.withdrawal = (a.kind = "withdrawal")
      BY <1>2, <1>5, <1>6 DEF Marked, UpsertedSanction, MergedMark, a
    <2>2. a.day = n /\ n >= 1 /\ a.day # NULL
          /\ (n > MaxFineDays <=> a.kind = "withdrawal")
      BY <1>2, <1>3, <1>5, <1>6
    <2> HIDE DEF m
    <2>3. RowConsistent(m)
      BY <2>1, <2>2 DEF RowConsistent
    <2>4. RowDated(m, runNow)
      BY <1>1, <1>3, <2>1, <2>2 DEF RowDated, n
    <2>5. ASSUME s.forPeriod = r.periodEnd
          PROVE  m.fine >= s.fine /\ (s.withdrawal => m.withdrawal)
      <3>1. CASE s.overdueDay = NULL
        BY <1>3, <2>1, <2>2, <3>1, FineMonotone DEF RowConsistent
      <3>2. CASE s.overdueDay # NULL
        <4>1. s.overdueDay <= n
          BY <1>3, <1>4, <2>5, <3>2 DEF RowDated, n
        <4>2. FineFor(s.overdueDay) <= FineFor(n) /\ FineFor(n) \in Int /\ FineFor(s.overdueDay) \in Int
          BY <1>3, <1>4, <3>2, <4>1, FineMonotone
        <4>3. m.fine >= s.fine
          BY <2>1, <2>2, <3>2, <4>2 DEF RowConsistent
        <4>4. ASSUME s.withdrawal PROVE m.withdrawal
          <5>1. s.overdueDay > MaxFineDays
            BY <3>2, <4>4 DEF RowConsistent
          <5>2. n > MaxFineDays
            BY <1>3, <1>4, <1>5, <3>2, <4>1, <5>1
          <5>3. QED
            BY <2>1, <2>2, <5>2
        <4>5. QED
          BY <4>3, <4>4
      <3>3. QED
        BY <3>1, <3>2
    <2>6. QED
      BY <2>1, <2>3, <2>4, <2>5 DEF m
  <1>7. CASE a.kind \in {"pre_expiry", "expiry_day"}
    <2>1. n <= 0
      BY <1>2, <1>7
    <2>2. s.forPeriod = r.periodEnd => s.overdueDay = NULL
      BY <1>3, <1>4, <2>1 DEF RowDated, n
    <2>3. /\ m.forPeriod = r.periodEnd
          /\ m.overdueDay = NULL
          /\ m.fine = 0
          /\ m.withdrawal = FALSE
      BY <1>7, <2>2 DEF Marked, UpsertedSanction, MergedMark, a
    <2> HIDE DEF m
    <2>4. RowConsistent(m) /\ RowDated(m, runNow)
      BY <2>3 DEF RowConsistent, RowDated
    <2>5. s.forPeriod = r.periodEnd => m.fine >= s.fine /\ (s.withdrawal => m.withdrawal)
      BY <2>2, <2>3 DEF RowConsistent
    <2>6. QED
      BY <2>3, <2>4, <2>5 DEF m
  <1>8. QED
    BY <1>2, <1>6, <1>7

LEMMA RowDatedLater ==
  ASSUME NEW s \in SanctionRows, NEW t \in Int, NEW t2 \in Int, t <= t2, RowDated(s, t)
  PROVE  RowDated(s, t2)
  <1>1. WibDate(t) <= WibDate(t2) /\ WibDate(t) \in Int /\ WibDate(t2) \in Int
    BY WibDateMonotone, WibDateType
  <1>2. CASE s.overdueDay = NULL
    BY <1>2 DEF RowDated
  <1>3. CASE s.overdueDay # NULL
    <2>1. s.overdueDay \in Int /\ s.forPeriod \in Int
      BY <1>3 DEF RowDated, SanctionRows, Mark
    <2>2. WibDate(s.forPeriod) \in Int
      BY <2>1, WibDateType
    <2>3. QED
      BY <1>1, <1>3, <2>1, <2>2 DEF RowDated
  <1>4. QED
    BY <1>2, <1>3

LEMMA RunTimeFacts == TypeInv => RunTime \in Int /\ now \in Int /\ RunTime <= now
  BY DEF TypeInv, TypeOK, JobShape, RunTime

(* A step that changes no sanction row keeps RowsInv: the run's clock only *)
(* moves forward.                                                          *)
LEMMA RowsInvKept ==
  ASSUME TypeInv, TypeInv', RowsInv, UNCHANGED sanction, RunTime <= RunTime'
  PROVE  RowsInv'
  <1> SUFFICES ASSUME NEW u \in Users
               PROVE  RowConsistent(sanction[u]) /\ RowDated(sanction[u], RunTime')
    BY DEF RowsInv
  <1>1. sanction[u] \in SanctionRows
    BY DEF TypeInv, TypeOK
  <1>2. RunTime \in Int /\ RunTime' \in Int
    BY RunTimeFacts DEF TypeInv, TypeOK, JobShape, RunTime
  <1>3. QED
    BY <1>1, <1>2, RowDatedLater DEF RowsInv

LEMMA InitIInv == Init => IInv
  <1> SUFFICES ASSUME Init PROVE IInv
    OBVIOUS
  <1>1. TypeInv
    BY InitTypeInv
  <1>2. LegacyEnd \in Int /\ LegacyEnd # NULL
    BY RulesAssumption DEF RulesAssumption, Init, LegacyEnd
  <1>3. \A u \in Users : sanction[u].overdueDay = NULL /\ sanction[u].fine = 0 /\ sanction[u].withdrawal = FALSE
    BY DEF Init, NoSanction
  <1>4. RowsInv
    BY <1>3 DEF RowsInv, RowConsistent, RowDated
  <1>5. ASSUME NEW u \in Users PROVE NotRaced(u)
    <2>1. sub[u].status = "none" <=> sub[u].periodEnd = NULL
      BY <1>2 DEF Init, NoSubscription
    <2>2. sub[u].status # "past_due"
      BY DEF Init, NoSubscription
    <2>3. pending = {} /\ current.user # u
      BY NoRecordFacts DEF Init
    <2>4. QED
      BY <1>3, <2>1, <2>2, <2>3 DEF NotRaced
  <1>6. QED
    BY <1>1, <1>4, <1>5 DEF IInv, RacedInv

LEMMA NextIInv == IInv /\ [Next]_vars => IInv'
  <1> SUFFICES ASSUME IInv, [Next]_vars PROVE IInv'
    OBVIOUS
  <1>1. TypeInv /\ TypeInv' /\ RowsInv /\ RacedInv
    BY NextTypeInv DEF IInv
  <1>2. TypeOK /\ JobShape
    BY <1>1 DEF TypeInv
  <1>3. CASE Tick
    <2>1. now \in Int /\ now' \in Int /\ now' >= now /\ RunTime <= RunTime'
      BY <1>2, <1>3 DEF Tick, TypeOK, RunTime, job
    <2>2. RowsInv'
      BY <1>1, <1>3, <2>1, RowsInvKept DEF Tick, rows
    <2>3. ASSUME NEW u \in Users \ raced PROVE NotRaced(u)'
      <3>1. sub[u].periodEnd # NULL => sub[u].periodEnd \in Int
        BY <1>2 DEF TypeOK, Subscriptions, Mark
      <3>2. ASSUME sub[u].status = "past_due" PROVE WibDate(sub[u].periodEnd) < WibDate(now')
        <4>1. sub[u].periodEnd \in Int
          BY <1>1, <3>1, <3>2 DEF RacedInv, NotRaced
        <4>2. WibDate(now) <= WibDate(now') /\ WibDate(now) \in Int /\ WibDate(now') \in Int
              /\ WibDate(sub[u].periodEnd) \in Int
          BY <2>1, <4>1, WibDateMonotone, WibDateType
        <4>3. QED
          BY <1>1, <3>2, <4>2 DEF RacedInv, NotRaced
      <3>3. QED
        BY <1>1, <1>3, <3>2 DEF RacedInv, NotRaced, Tick, rows, job
    <2>4. QED
      BY <1>1, <1>3, <2>2, <2>3 DEF IInv, RacedInv, Tick, history
  <1>4. ASSUME NEW v \in Users, PayWebhook(v) PROVE IInv'
    <2>1. RunTime' = RunTime /\ RunTime \in Int
      BY <1>1, <1>4, RunTimeFacts DEF PayWebhook, RunTime, job
    <2>2. \A u \in Users : sanction'[u] = IF u = v THEN ResolvedSanction(sanction[v]) ELSE sanction[u]
      BY <1>2, <1>4 DEF PayWebhook, TypeOK
    <2>3. /\ RowConsistent(ResolvedSanction(sanction[v]))
          /\ RowDated(ResolvedSanction(sanction[v]), RunTime)
          /\ ResolvedSanction(sanction[v]).overdueDay = NULL
      BY <1>1, <1>2, <2>1, ResolvedRowFacts DEF RowsInv, TypeOK
    <2>4. RowsInv'
      BY <1>1, <2>1, <2>2, <2>3 DEF RowsInv
    <2>5. ASSUME NEW u \in Users \ raced' PROVE NotRaced(u)'
      <3>1. CASE u = v
        <4>1. ~InHand(v)
          BY <1>4, <2>5, <3>1 DEF PayWebhook
        <4>2. sub'[v].status = "active" /\ sub'[v].periodEnd = Extended(sub[v].periodEnd)
          BY <1>2, <1>4 DEF PayWebhook, TypeOK
        <4>3. Extended(sub[v].periodEnd) \in Int /\ Extended(sub[v].periodEnd) # NULL
          BY <1>2, MaintenanceAssumption, RulesAssumption
          DEF MaintenanceAssumption, RulesAssumption, Extended, TypeOK, Subscriptions, Mark
        <4>4. sanction'[v].overdueDay = NULL
          BY <2>2, <2>3
        <4>5. QED
          BY <1>4, <3>1, <4>1, <4>2, <4>3, <4>4 DEF NotRaced, InHand, PayWebhook, job
      <3>2. CASE u # v
        <4>1. u \notin raced
          BY <1>4, <2>5, <3>2 DEF PayWebhook
        <4>2. sub'[u] = sub[u] /\ sanction'[u] = sanction[u]
          BY <1>2, <1>4, <3>2 DEF PayWebhook, TypeOK
        <4>3. QED
          BY <1>1, <1>4, <4>1, <4>2 DEF RacedInv, NotRaced, PayWebhook, job
      <3>3. QED
        BY <3>1, <3>2
    <2>6. QED
      BY <1>1, <2>4, <2>5 DEF IInv, RacedInv
  <1>5. CASE StartRun
    <2>1. RunTime' = RunTime /\ RunTime \in Int
      BY <1>2, <1>5 DEF StartRun, RunTime, TypeOK
    <2>2. RowsInv'
      BY <1>1, <1>5, <2>1, RowsInvKept DEF StartRun, rows
    <2>3. QED
      BY <1>1, <1>5, <2>2 DEF IInv, RacedInv, NotRaced, StartRun, rows, history
  <1>6. CASE FetchRecords
    <2>1. RunTime' = RunTime /\ RunTime \in Int
      BY <1>2, <1>6 DEF FetchRecords, RunTime, TypeOK
    <2>2. RowsInv'
      BY <1>1, <1>6, <2>1, RowsInvKept DEF FetchRecords, rows
    <2>3. \A r \in pending' : r.periodEnd = sub[r.user].periodEnd
      BY <1>6 DEF FetchRecords, Fetched
    <2>4. QED
      BY <1>1, <1>6, <2>2, <2>3 DEF IInv, RacedInv, NotRaced, FetchRecords, rows, history
  <1>7. CASE NextRecord
    <2>1. RunTime' = RunTime /\ RunTime \in Int
      BY <1>1, <1>2, <1>7 DEF NextRecord, RunTime, TypeOK, TypeInv, FirstStep
    <2>2. RowsInv'
      BY <1>1, <1>7, <2>1, RowsInvKept DEF NextRecord, rows
    <2>3. PICK r \in pending : pending' = pending \ {r} /\ current' \in {r, NoRecord}
      BY <1>7 DEF NextRecord
    <2>4. QED
      BY <1>1, <1>7, <2>2, <2>3, NoRecordFacts
      DEF IInv, RacedInv, NotRaced, NextRecord, rows, history
  <1>8. CASE FinishRun
    <2>1. RunTime <= RunTime' /\ RunTime \in Int
      BY <1>2, <1>8 DEF FinishRun, RunTime, TypeOK, JobShape
    <2>2. RowsInv'
      BY <1>1, <1>8, <2>1, RowsInvKept DEF FinishRun, rows
    <2>3. QED
      BY <1>1, <1>8, <2>2 DEF IInv, RacedInv, NotRaced, FinishRun, rows, history
  <1>9. CASE SendReminder
    <2>1. RunTime' = RunTime /\ RunTime \in Int
      BY <1>2, <1>9 DEF SendReminder, RunTime, TypeOK
    <2>2. RowsInv'
      BY <1>1, <1>9, <2>1, RowsInvKept DEF SendReminder, rows
    <2>3. QED
      BY <1>1, <1>9, <2>2 DEF IInv, RacedInv, NotRaced, SendReminder, rows
  <1>10. CASE SetPastDue
    <2>1. RunTime' = RunTime /\ RunTime \in Int
      BY <1>2, <1>10 DEF SetPastDue, RunTime, TypeOK
    <2>2. RowsInv'
      BY <1>1, <1>10, <2>1, RowsInvKept DEF SetPastDue
    <2>3. current \in Records /\ Action(current).kind \in {"overdue", "withdrawal"}
      BY <1>2, <1>10 DEF SetPastDue, JobShape, TypeOK
    <2>4. current.periodEnd \in Int /\ current.sanction \in SanctionRows /\ current.user \in Users
          /\ runNow \in Int /\ now \in Int /\ runNow <= now
      BY <1>2, <2>3 DEF Records, TypeOK, JobShape
    <2>5. WibDate(runNow) - WibDate(current.periodEnd) >= 1
      BY <2>3, <2>4, ActionFacts DEF Action
    <2>6. WibDate(current.periodEnd) < WibDate(now)
      BY <2>4, <2>5, WibDateMonotone, WibDateType
    <2>7. ASSUME NEW u \in Users \ raced PROVE NotRaced(u)'
      <3>1. CASE u = current.user
        <4>1. sub'[u].status = "past_due" /\ sub'[u].periodEnd = sub[u].periodEnd
          BY <1>2, <1>10, <3>1 DEF SetPastDue, TypeOK, Subscriptions
        <4>2. sub[u].periodEnd = current.periodEnd /\ sub[u].periodEnd # NULL
          BY <1>1, <2>4, <3>1, RulesAssumption DEF RacedInv, NotRaced, RulesAssumption
        <4>3. QED
          BY <1>1, <1>10, <2>6, <3>1, <4>1, <4>2 DEF RacedInv, NotRaced, SetPastDue
      <3>2. CASE u # current.user
        <4>1. sub'[u] = sub[u]
          BY <1>2, <1>10, <3>2 DEF SetPastDue, TypeOK
        <4>2. QED
          BY <1>1, <1>10, <4>1 DEF RacedInv, NotRaced, SetPastDue
      <3>3. QED
        BY <3>1, <3>2
    <2>8. QED
      BY <1>1, <1>10, <2>2, <2>7 DEF IInv, RacedInv, SetPastDue, history
  <1>11. CASE UpsertSanction
    <2>1. RunTime' = RunTime /\ RunTime = runNow /\ runNow \in Int
      BY <1>2, <1>11 DEF UpsertSanction, RunTime, TypeOK
    <2>2. current \in Records /\ Action(current).kind # "none"
      BY <1>2, <1>11 DEF UpsertSanction, JobShape, TypeOK
    <2>3. current.user \in Users /\ sanction[current.user] \in SanctionRows
      BY <1>2, <2>2 DEF Records, TypeOK
    <2>4. \A u \in Users : sanction'[u] = IF u = current.user
                                          THEN Marked(sanction[u], current) ELSE sanction[u]
      BY <1>2, <1>11, <2>3 DEF UpsertSanction, TypeOK
    <2>5. LET m == Marked(sanction[current.user], current)
          IN RowConsistent(m) /\ RowDated(m, runNow) /\ m.forPeriod = current.periodEnd
      BY <1>1, <2>1, <2>2, <2>3, MarkedFacts DEF RowsInv
    <2>6. RowsInv'
      BY <1>1, <2>1, <2>4, <2>5 DEF RowsInv
    <2>7. ASSUME NEW u \in Users \ raced PROVE NotRaced(u)'
      <3>1. current'.user # u
        BY <1>11, NoRecordFacts DEF UpsertSanction
      <3>2. sanction'[u].overdueDay # NULL => sanction'[u].forPeriod = sub[u].periodEnd
        BY <1>1, <2>4, <2>5 DEF RacedInv, NotRaced
      <3>3. QED
        BY <1>1, <1>11, <3>1, <3>2 DEF RacedInv, NotRaced, UpsertSanction
    <2>8. QED
      BY <1>1, <1>11, <2>6, <2>7 DEF IInv, RacedInv, UpsertSanction, history
  <1>12. CASE SendRefused \/ SendAnswerLost \/ RunDies
    <2>1. Abort /\ raced' = raced /\ pc # "idle"
      BY <1>12 DEF SendRefused, SendAnswerLost, RunDies, Deliver, history
    <2>2. RunTime <= RunTime' /\ RunTime \in Int
      BY <1>2, <2>1 DEF Abort, RunTime, TypeOK, JobShape
    <2>3. RowsInv'
      BY <1>1, <2>1, <2>2, RowsInvKept DEF Abort, rows
    <2>4. QED
      BY <1>1, <2>1, <2>3, NoRecordFacts DEF IInv, RacedInv, NotRaced, Abort, rows
  <1>13. CASE UNCHANGED vars
    <2>1. RunTime' = RunTime /\ RunTime \in Int
      BY <1>2, <1>13 DEF vars, job, RunTime, TypeOK
    <2>2. RowsInv'
      BY <1>1, <1>13, <2>1, RowsInvKept DEF vars, rows
    <2>3. QED
      BY <1>1, <1>13, <2>2 DEF IInv, RacedInv, NotRaced, vars, rows, job, history
  <1>14. QED
    BY <1>3, <1>4, <1>5, <1>6, <1>7, <1>8, <1>9, <1>10, <1>11, <1>12, <1>13
    DEF Next, JobStep

LEMMA SpecIInv == Spec => []IInv
  BY InitIInv, NextIInv, PTL DEF Spec

-----------------------------------------------------------------------------
(***************************************************************************)
(* The properties.                                                         *)
(***************************************************************************)

(* upsert_sanction_state and resolve_subscription_sanction keep day, fine  *)
(* and withdrawal flag of a row in agreement.                              *)
THEOREM SpecSanctionConsistent == Spec => []SanctionConsistent
  <1>1. IInv => SanctionConsistent
    BY DEF IInv, RowsInv, RowConsistent, SanctionConsistent
  <1>2. QED
    BY SpecIInv, <1>1, PTL

(* A row about the period in force never claims more than the bot's quote  *)
(* for that period, nor the withdrawal of the device too early.            *)
THEOREM SpecFineWithinQuote == Spec => []FineWithinQuote
  <1>1. ASSUME IInv, NEW u \in Users,
               sub[u].periodEnd # NULL, sanction[u].forPeriod = sub[u].periodEnd
        PROVE  /\ sanction[u].fine <= FineFor(OverdueDays(sub[u].periodEnd, now))
               /\ sanction[u].withdrawal => OverdueDays(sub[u].periodEnd, now) > MaxFineDays
    <2> DEFINE s == sanction[u]
               o == OverdueDays(sub[u].periodEnd, now)
    <2>1. /\ TypeInv /\ RowConsistent(s) /\ RowDated(s, RunTime)
          /\ s \in SanctionRows /\ sub[u].periodEnd \in Int
      BY <1>1 DEF IInv, RowsInv, TypeInv, TypeOK, Subscriptions, Mark
    <2>2. /\ WibDate(RunTime) <= WibDate(now)
          /\ WibDate(RunTime) \in Int /\ WibDate(now) \in Int /\ WibDate(sub[u].periodEnd) \in Int
      BY <2>1, RunTimeFacts, WibDateMonotone, WibDateType
    <2>3. o \in Int /\ o >= 0 /\ o >= WibDate(now) - WibDate(sub[u].periodEnd)
      BY <2>2 DEF OverdueDays, Max0
    <2> HIDE DEF o, s
    <2>4. CASE s.overdueDay = NULL
      <3>1. s.fine = 0 /\ ~s.withdrawal
        BY <2>1, <2>4 DEF RowConsistent
      <3>2. 0 <= FineFor(o)
        BY <2>3, FineMonotone
      <3>3. QED
        BY <3>1, <3>2 DEF s, o
    <2>5. CASE s.overdueDay # NULL
      <3>1. s.overdueDay \in Int
        BY <2>1, <2>5 DEF SanctionRows, Mark
      <3>2. s.overdueDay + WibDate(sub[u].periodEnd) <= WibDate(RunTime)
        BY <1>1, <2>1, <2>5 DEF RowDated, s
      <3>3. s.overdueDay <= o
        BY <2>2, <2>3, <3>1, <3>2
      <3>4. FineFor(s.overdueDay) <= FineFor(o)
        BY <2>3, <3>1, <3>3, FineMonotone
      <3>5. s.fine <= FineFor(o)
        BY <2>1, <2>5, <3>4 DEF RowConsistent
      <3>6. ASSUME s.withdrawal PROVE o > MaxFineDays
        <4>1. s.overdueDay > MaxFineDays
          BY <2>1, <2>5, <3>6 DEF RowConsistent
        <4>2. QED
          BY <2>3, <3>1, <3>3, <4>1, RulesAssumption DEF RulesAssumption
      <3>7. QED
        BY <3>5, <3>6 DEF s, o
    <2>6. QED
      BY <2>4, <2>5
  <1>2. IInv => FineWithinQuote
    BY <1>1 DEF FineWithinQuote
  <1>3. QED
    BY SpecIInv, <1>2, PTL

(* Only a record read before the payment can leave a user inside a paid    *)
(* period past_due, fined or marked for withdrawal.                        *)
THEOREM SpecOnlyStaleRecordsPunish == Spec => []OnlyStaleRecordsPunish
  <1>1. ASSUME IInv, NEW u \in Users \ raced, sub[u].periodEnd # NULL,
               DaysUntilExpiry(sub[u].periodEnd, now) >= 0
        PROVE  sub[u].status = "active" /\ sanction[u].fine = 0 /\ ~sanction[u].withdrawal
    <2>1. /\ TypeInv /\ NotRaced(u)
          /\ RowConsistent(sanction[u]) /\ RowDated(sanction[u], RunTime)
          /\ sub[u] \in Subscriptions /\ sanction[u] \in SanctionRows
      BY <1>1 DEF IInv, RowsInv, RacedInv, TypeInv, TypeOK
    <2>2. sub[u].periodEnd \in Int /\ sub[u].status \in {"none", "active", "past_due"}
      BY <1>1, <2>1 DEF Subscriptions, Mark
    <2>3. /\ WibDate(RunTime) <= WibDate(now)
          /\ WibDate(RunTime) \in Int /\ WibDate(now) \in Int /\ WibDate(sub[u].periodEnd) \in Int
      BY <2>1, <2>2, RunTimeFacts, WibDateMonotone, WibDateType
    <2>4. WibDate(now) <= WibDate(sub[u].periodEnd)
      BY <1>1, <2>3 DEF DaysUntilExpiry
    <2>5. sub[u].status = "active"
      BY <1>1, <2>1, <2>2, <2>3, <2>4 DEF NotRaced
    <2>6. sanction[u].overdueDay = NULL
      <3> SUFFICES ASSUME sanction[u].overdueDay # NULL PROVE FALSE
        OBVIOUS
      <3>1. sanction[u].overdueDay \in Int /\ sanction[u].forPeriod = sub[u].periodEnd
        BY <2>1 DEF NotRaced, SanctionRows, Mark
      <3>2. QED
        BY <2>1, <2>3, <2>4, <3>1 DEF RowDated
    <2>7. QED
      BY <2>1, <2>5, <2>6 DEF RowConsistent
  <1>2. IInv => OnlyStaleRecordsPunish
    BY <1>1 DEF OnlyStaleRecordsPunish
  <1>3. QED
    BY SpecIInv, <1>2, PTL

(* Without a payment, and for the same period, no step lowers a fine or    *)
(* takes back a withdrawal flag.                                           *)
THEOREM SpecNoLeniency == Spec => NoLeniencyWithoutPayment
  <1> DEFINE Kept(u) == \/ sanction'[u].forPeriod # sanction[u].forPeriod
                        \/ payments'[u] # payments[u]
                        \/ /\ sanction'[u].fine >= sanction[u].fine
                           /\ sanction[u].withdrawal => sanction'[u].withdrawal
  <1>1. ASSUME IInv, [Next]_vars PROVE \A u \in Users : Kept(u)
    <2>1. TypeOK /\ JobShape /\ RowsInv
      BY <1>1 DEF IInv, TypeInv
    <2>2. ASSUME UNCHANGED sanction PROVE \A u \in Users : Kept(u)
      <3>1. \A u \in Users : sanction[u].fine \in Int
        BY <2>1 DEF TypeOK, SanctionRows
      <3>2. QED
        BY <2>2, <3>1
    <2>3. ASSUME NEW v \in Users, PayWebhook(v) PROVE \A u \in Users : Kept(u)
      <3>1. payments'[v] # payments[v]
        BY <2>1, <2>3 DEF PayWebhook, TypeOK
      <3>2. \A u \in Users : u # v => sanction'[u] = sanction[u] /\ sanction[u].fine \in Int
        BY <2>1, <2>3 DEF PayWebhook, TypeOK, SanctionRows
      <3>3. QED
        BY <3>1, <3>2
    <2>4. CASE UpsertSanction
      <3>1. current \in Records /\ Action(current).kind # "none" /\ runNow \in Int /\ RunTime = runNow
        BY <2>1, <2>4 DEF UpsertSanction, JobShape, TypeOK, RunTime
      <3>2. current.user \in Users /\ sanction[current.user] \in SanctionRows
        BY <2>1, <3>1 DEF Records, TypeOK
      <3>3. \A u \in Users : sanction'[u] = IF u = current.user
                                            THEN Marked(sanction[u], current) ELSE sanction[u]
        BY <2>1, <2>4, <3>2 DEF UpsertSanction, TypeOK
      <3>4. LET s == sanction[current.user]
                m == Marked(s, current)
            IN /\ m.forPeriod = current.periodEnd
               /\ s.forPeriod = current.periodEnd =>
                    m.fine >= s.fine /\ (s.withdrawal => m.withdrawal)
        BY <2>1, <3>1, <3>2, MarkedFacts DEF RowsInv
      <3>5. \A u \in Users : sanction[u].fine \in Int
        BY <2>1 DEF TypeOK, SanctionRows
      <3>6. QED
        BY <3>3, <3>4, <3>5
    <2>5. QED
      BY <1>1, <2>2, <2>3, <2>4
      DEF Next, JobStep, Tick, StartRun, FetchRecords, NextRecord, FinishRun, SendReminder,
          SendRefused, SetPastDue, SendAnswerLost, RunDies, Abort, vars, rows
  <1>2. IInv /\ [Next]_vars => [\A u \in Users : Kept(u)]_vars
    BY <1>1
  <1>3. QED
    BY SpecIInv, <1>2, PTL DEF Spec, NoLeniencyWithoutPayment

(* The HTTP listing and the job never disagree on whether the reminder of  *)
(* today is still due, whatever the row holds.                             *)
THEOREM SpecApiAgreesWithJob == Spec => []ApiAgreesWithJob
  <1>1. ASSUME NEW end \in Int, NEW t \in Int, NEW s \in SanctionRows
        PROVE  (MaintenanceAction(end, t, s).kind \in Reminders)
                 <=> (ReminderSent(end, t, s) = FALSE)
    <2> DEFINE d == DaysUntilExpiry(end, t)
               o == OverdueDays(end, t)
    <2>1. /\ d \in Int /\ o \in Int
          /\ d >= 0 => o = 0
          /\ d < 0 => o = 0 - d
          /\ MaxFineDays \in Nat /\ PreExpiryDays \in Nat
          /\ NULL \notin Int /\ NULL \notin BOOLEAN
      BY WibDateType, RulesAssumption DEF RulesAssumption, DaysUntilExpiry, OverdueDays, Max0
    <2> HIDE DEF d, o
    <2>2. MaintenanceAction(end, t, s) =
            IF d \in 1..PreExpiryDays /\ ~PreExpirySent(end, d, s) THEN PreExpiry(d)
            ELSE IF d = 0 /\ ~ExpiryDaySent(end, s) THEN ExpiryDay
            ELSE IF o \in 1..MaxFineDays /\ LastOverdueDay(end, s) # o THEN Overdue(o)
            ELSE IF o > MaxFineDays /\ ~s.withdrawal THEN MarkWithdrawal(o)
            ELSE Nothing
      BY DEF MaintenanceAction, d, o
    <2>3. ReminderSent(end, t, s) =
            IF d > PreExpiryDays THEN NULL
            ELSE IF d > 0 THEN PreExpirySent(end, d, s)
            ELSE IF d = 0 THEN ExpiryDaySent(end, s)
            ELSE IF o <= MaxFineDays THEN OverdueSent(end, o, s)
            ELSE NULL
      BY <2>1 DEF ReminderSent, LifecycleStage, d, o
    <2>4. NULL # FALSE
      BY <2>1, Zenon
    <2> DEFINE act == MaintenanceAction(end, t, s)
    <2>5. CASE d > PreExpiryDays
      <3>1. act = Nothing /\ ReminderSent(end, t, s) = NULL
        BY <2>1, <2>2, <2>3, <2>5
      <3>2. act.kind \notin Reminders
        BY <3>1 DEF Nothing, Reminders
      <3>3. QED
        BY <2>4, <3>1, <3>2, Zenon
    <2>6. CASE d \in 1..PreExpiryDays
      <3>1. act = IF PreExpirySent(end, d, s) THEN Nothing ELSE PreExpiry(d)
        BY <2>1, <2>2, <2>6
      <3>2. ReminderSent(end, t, s) = PreExpirySent(end, d, s)
        BY <2>1, <2>3, <2>6
      <3>3. PreExpirySent(end, d, s) \in BOOLEAN
        BY DEF PreExpirySent
      <3>4. QED
        BY <3>1, <3>2, <3>3 DEF PreExpiry, Nothing, Reminders
    <2>7. CASE d = 0
      <3>1. act = IF ExpiryDaySent(end, s) THEN Nothing ELSE ExpiryDay
        BY <2>1, <2>2, <2>7
      <3>2. ReminderSent(end, t, s) = ExpiryDaySent(end, s)
        BY <2>1, <2>3, <2>7
      <3>3. ExpiryDaySent(end, s) \in BOOLEAN
        BY DEF ExpiryDaySent
      <3>4. QED
        BY <3>1, <3>2, <3>3 DEF ExpiryDay, Nothing, Reminders
    <2>8. CASE d < 0 /\ o <= MaxFineDays
      <3>1. act = IF LastOverdueDay(end, s) # o THEN Overdue(o) ELSE Nothing
        BY <2>1, <2>2, <2>8
      <3>2. ReminderSent(end, t, s) = OverdueSent(end, o, s)
        BY <2>1, <2>3, <2>8
      <3>3. OverdueSent(end, o, s) \in BOOLEAN
        BY DEF OverdueSent
      <3>4. LastOverdueDay(end, s) # o <=> ~OverdueSent(end, o, s)
        BY <2>1 DEF LastOverdueDay, OverdueSent
      <3>5. QED
        BY <3>1, <3>2, <3>3, <3>4 DEF Overdue, Nothing, Reminders
    <2>9. CASE o > MaxFineDays
      <3>1. act \in {Nothing, MarkWithdrawal(o)} /\ ReminderSent(end, t, s) = NULL
        BY <2>1, <2>2, <2>3, <2>9
      <3>2. act.kind \notin Reminders
        BY <3>1 DEF MarkWithdrawal, Nothing, Reminders
      <3>3. QED
        BY <2>4, <3>1, <3>2, Zenon
    <2>10. d > PreExpiryDays \/ d \in 1..PreExpiryDays \/ d = 0
           \/ (d < 0 /\ o <= MaxFineDays) \/ o > MaxFineDays
      BY <2>1
    <2>11. QED
      BY <2>5, <2>6, <2>7, <2>8, <2>9, <2>10, Zenon
  <1>2. ASSUME TypeOK, NEW u \in Users, sub[u].periodEnd # NULL
        PROVE  now \in Int /\ sub[u].periodEnd \in Int /\ sanction[u] \in SanctionRows
    BY <1>2 DEF TypeOK, Subscriptions, Mark
  <1>3. TypeOK => ApiAgreesWithJob
    BY <1>1, <1>2, Zenon DEF ApiAgreesWithJob
  <1>4. QED
    BY SpecTypeOK, <1>3, PTL

-----------------------------------------------------------------------------
(***************************************************************************)
(* Reminders.  A reminder belongs to one date, a date has one reminder of  *)
(* a period, and the mark silences it: so it comes again only on its own   *)
(* date, and only if the mark was not made.                                *)
(***************************************************************************)

(* What can be reminded of, and the date it is due on.                     *)
Acts == [kind : Reminders, day : Int]

DueDate(end, a) ==
  IF a.kind = "overdue" THEN WibDate(end) + a.day ELSE WibDate(end) - a.day

LEMMA ReminderFacts ==
  ASSUME NEW end \in Int, NEW t \in Int, NEW s \in SanctionRows, NEW s2 \in SanctionRows
  PROVE  LET a == MaintenanceAction(end, t, s)
             b == MaintenanceAction(end, t, s2)
         IN /\ a.kind \in Reminders => a \in Acts /\ DueDate(end, a) = WibDate(t)
            /\ a.kind \in Reminders /\ b.kind # "none" => b = a
  <1> DEFINE d == DaysUntilExpiry(end, t)
             o == OverdueDays(end, t)
  <1>1. /\ WibDate(t) \in Int /\ WibDate(end) \in Int
        /\ d = WibDate(end) - WibDate(t) /\ d \in Int /\ o \in Int
        /\ d >= 0 => o = 0
        /\ d < 0 => o = WibDate(t) - WibDate(end)
        /\ MaxFineDays \in Nat /\ PreExpiryDays \in Nat
    BY WibDateType, RulesAssumption DEF RulesAssumption, DaysUntilExpiry, OverdueDays, Max0
  <1> HIDE DEF d, o
  <1>2. \A r \in SanctionRows : MaintenanceAction(end, t, r) =
          IF d \in 1..PreExpiryDays /\ ~PreExpirySent(end, d, r) THEN PreExpiry(d)
          ELSE IF d = 0 /\ ~ExpiryDaySent(end, r) THEN ExpiryDay
          ELSE IF o \in 1..MaxFineDays /\ LastOverdueDay(end, r) # o THEN Overdue(o)
          ELSE IF o > MaxFineDays /\ ~r.withdrawal THEN MarkWithdrawal(o)
          ELSE Nothing
    BY DEF MaintenanceAction, d, o
  <1>3. CASE d >= 1
    <2>1. \A r \in SanctionRows : MaintenanceAction(end, t, r) \in {PreExpiry(d), Nothing}
      BY <1>1, <1>2, <1>3
    <2>2. /\ PreExpiry(d) \in Acts /\ DueDate(end, PreExpiry(d)) = WibDate(t)
          /\ Nothing.kind = "none" /\ Nothing.kind \notin Reminders
      BY <1>1 DEF PreExpiry, Acts, Reminders, DueDate, Nothing
    <2>3. QED
      BY <2>1, <2>2
  <1>4. CASE d = 0
    <2>1. \A r \in SanctionRows : MaintenanceAction(end, t, r) \in {ExpiryDay, Nothing}
      BY <1>1, <1>2, <1>4
    <2>2. /\ ExpiryDay \in Acts /\ DueDate(end, ExpiryDay) = WibDate(t)
          /\ Nothing.kind = "none" /\ Nothing.kind \notin Reminders
      BY <1>1, <1>4 DEF ExpiryDay, Acts, Reminders, DueDate, Nothing
    <2>3. QED
      BY <2>1, <2>2
  <1>5. CASE d < 0 /\ o <= MaxFineDays
    <2>1. \A r \in SanctionRows : MaintenanceAction(end, t, r) \in {Overdue(o), Nothing}
      BY <1>1, <1>2, <1>5
    <2>2. /\ Overdue(o) \in Acts /\ DueDate(end, Overdue(o)) = WibDate(t)
          /\ Nothing.kind = "none" /\ Nothing.kind \notin Reminders
      BY <1>1, <1>5 DEF Overdue, Acts, Reminders, DueDate, Nothing
    <2>3. QED
      BY <2>1, <2>2
  <1>6. CASE d < 0 /\ o > MaxFineDays
    <2>1. \A r \in SanctionRows : MaintenanceAction(end, t, r) \in {MarkWithdrawal(o), Nothing}
      BY <1>1, <1>2, <1>6
    <2>2. MarkWithdrawal(o).kind \notin Reminders /\ Nothing.kind \notin Reminders
      BY DEF MarkWithdrawal, Nothing, Reminders
    <2>3. QED
      BY <2>1, <2>2
  <1>7. QED
    BY <1>1, <1>3, <1>4, <1>5, <1>6

(* The job looks at dates only.                                            *)
LEMMA SameDate ==
  ASSUME NEW end \in Int, NEW t \in Int, NEW t2 \in Int, WibDate(t) = WibDate(t2), NEW s
  PROVE  MaintenanceAction(end, t, s) = MaintenanceAction(end, t2, s)
  BY DEF MaintenanceAction, DaysUntilExpiry, OverdueDays

(* A reminder whose date has come and that is silent stays so.             *)
LEMMA StaysSilent ==
  ASSUME NEW end \in Int, NEW a \in Acts, NEW s \in SanctionRows,
         NEW t \in Int, NEW t2 \in Int, t <= t2, DueDate(end, a) <= WibDate(t),
         MaintenanceAction(end, t, s) # a
  PROVE  MaintenanceAction(end, t2, s) # a /\ DueDate(end, a) <= WibDate(t2)
  <1>1. /\ WibDate(t) \in Int /\ WibDate(t2) \in Int /\ WibDate(t) <= WibDate(t2)
        /\ WibDate(end) \in Int /\ DueDate(end, a) \in Int /\ a.kind \in Reminders
    BY WibDateType, WibDateMonotone DEF Acts, DueDate
  <1>2. ASSUME MaintenanceAction(end, t2, s) = a PROVE FALSE
    <2>1. DueDate(end, a) = WibDate(t2)
      BY <1>1, <1>2, ReminderFacts
    <2>2. WibDate(t) = WibDate(t2)
      BY <1>1, <2>1
    <2>3. QED
      BY <1>2, <2>2, SameDate
  <1>3. QED
    BY <1>1, <1>2

(* mark_pre_expiry_reminder, mark_overdue_reminder.                        *)
LEMMA MarkSilences ==
  ASSUME NEW s \in SanctionRows, NEW r \in Records, runNow \in Int,
         Action(r).kind \in Reminders
  PROVE  MaintenanceAction(r.periodEnd, runNow, Marked(s, r)) # Action(r)
  <1> DEFINE end == r.periodEnd
             d == DaysUntilExpiry(end, runNow)
             o == OverdueDays(end, runNow)
             a == Action(r)
             m == Marked(s, r)
  <1>1. /\ end \in Int /\ r.sanction \in SanctionRows
        /\ NULL \notin Int /\ MaxFineDays \in Nat /\ PreExpiryDays \in Nat
        /\ WibDate(runNow) \in Int /\ WibDate(end) \in Int
    BY WibDateType, RulesAssumption DEF RulesAssumption, Records
  <1>2. d \in Int /\ o \in Int /\ (d >= 0 => o = 0)
    BY <1>1 DEF DaysUntilExpiry, OverdueDays, Max0
  <1>3. a = MaintenanceAction(end, runNow, r.sanction)
    BY DEF Action
  <1> HIDE DEF d, o, a
  <1>4. \A row : MaintenanceAction(end, runNow, row) =
          IF d \in 1..PreExpiryDays /\ ~PreExpirySent(end, d, row) THEN PreExpiry(d)
          ELSE IF d = 0 /\ ~ExpiryDaySent(end, row) THEN ExpiryDay
          ELSE IF o \in 1..MaxFineDays /\ LastOverdueDay(end, row) # o THEN Overdue(o)
          ELSE IF o > MaxFineDays /\ ~row.withdrawal THEN MarkWithdrawal(o)
          ELSE Nothing
    BY DEF MaintenanceAction, d, o
  <1>5. \/ a = PreExpiry(d) /\ d \in 1..PreExpiryDays
        \/ a = ExpiryDay /\ d = 0
        \/ a = Overdue(o) /\ o \in 1..MaxFineDays
    <2>1. /\ MarkWithdrawal(o).kind \notin Reminders /\ Nothing.kind \notin Reminders
      BY DEF MarkWithdrawal, Nothing, Reminders
    <2>2. a.kind \in Reminders
      BY DEF a
    <2>3. QED
      BY <1>3, <1>4, <2>1, <2>2
  <1>6. CASE a = PreExpiry(d) /\ d \in 1..PreExpiryDays
    <2>1. m.forPeriod = end /\ m.preDay = d
      BY <1>1, <1>6 DEF Marked, UpsertedSanction, MergedMark, PreExpiry, a
    <2> HIDE DEF m
    <2>2. PreExpirySent(end, d, m)
      BY <2>1 DEF PreExpirySent
    <2>3. MaintenanceAction(end, runNow, m) = Nothing
      BY <1>1, <1>2, <1>4, <1>6, <2>2
    <2>4. QED
      BY <1>6, <2>3 DEF PreExpiry, Nothing, a, m
  <1>7. CASE a = ExpiryDay /\ d = 0
    <2>1. m.forPeriod = end /\ m.preDay = 0
      BY <1>1, <1>7 DEF Marked, UpsertedSanction, MergedMark, ExpiryDay, a
    <2> HIDE DEF m
    <2>2. ExpiryDaySent(end, m)
      BY <2>1 DEF ExpiryDaySent
    <2>3. MaintenanceAction(end, runNow, m) # ExpiryDay
      BY <1>1, <1>2, <1>4, <1>7, <2>2 DEF ExpiryDay, Nothing
    <2>4. QED
      BY <1>7, <2>3 DEF a, m
  <1>8. CASE a = Overdue(o) /\ o \in 1..MaxFineDays
    <2>1. m.forPeriod = end /\ m.overdueDay = o /\ ~m.resolved
      BY <1>1, <1>8 DEF Marked, UpsertedSanction, MergedMark, Overdue, a
    <2> HIDE DEF m
    <2>2. LastOverdueDay(end, m) = o
      BY <2>1 DEF LastOverdueDay
    <2>3. d \notin 1..PreExpiryDays /\ d # 0 /\ ~(o > MaxFineDays)
      <3>1. o \in Int /\ o > 0 /\ o <= MaxFineDays
        BY <1>1, <1>8
      <3>2. d < 0
        BY <1>2, <3>1
      <3>3. QED
        BY <1>1, <1>2, <3>1, <3>2
    <2>4. MaintenanceAction(end, runNow, m) = Nothing
      BY <1>4, <2>2, <2>3
    <2>5. QED
      BY <1>8, <2>4 DEF Overdue, Nothing, a, m
  <1>9. QED
    BY <1>5, <1>6, <1>7, <1>8

(* Between its delivery and its mark.                                      *)
AtMark(u, end, a) ==
  /\ pc \in {"status", "upsert"}
  /\ current.user = u /\ current.periodEnd = end /\ Action(current) = a

(* A reminder that was delivered and not forgotten is not taken up again:  *)
(* not from the record in hand, not from the rest of the snapshot, and not *)
(* from the rows, should they be read again.  Records are about no later   *)
(* period than the subscription row, and reminders about no later one than *)
(* the records.                                                            *)
Settled(u, end, a) ==
  /\ sub[u].periodEnd # NULL /\ end <= sub[u].periodEnd
  /\ DueDate(end, a) <= WibDate(RunTime)
  /\ \A r \in pending : r.user = u => end <= r.periodEnd /\ (end = r.periodEnd => Action(r) # a)
  /\ current.user = u => end <= current.periodEnd
  /\ \/ AtMark(u, end, a)
     \/ /\ current.user = u /\ current.periodEnd = end => Action(current) # a
        /\ sub[u].periodEnd = end => MaintenanceAction(end, RunTime, sanction[u]) # a

SentInv ==
  \A u \in Users, end \in Int, a \in Acts : <<u, end, a>> \in sent \ unmarked => Settled(u, end, a)

(* A snapshot has one record of a user.                                    *)
SnapInv ==
  /\ \A r \in pending : /\ sub[r.user].periodEnd # NULL /\ r.periodEnd <= sub[r.user].periodEnd
                        /\ r.user # current.user
                        /\ \A s \in pending : s.user = r.user => s = r
  /\ current # NoRecord =>
       sub[current.user].periodEnd # NULL /\ current.periodEnd <= sub[current.user].periodEnd
  /\ pc = "send" => Action(current).kind \in Reminders

RepeatInv == TypeInv /\ SnapInv /\ SentInv /\ RepeatsOnlyIfUnmarked

LEMMA RepeatInit == Init => RepeatInv
  <1> SUFFICES ASSUME Init PROVE RepeatInv
    OBVIOUS
  <1>1. TypeInv
    BY InitTypeInv
  <1>2. SnapInv /\ RepeatsOnlyIfUnmarked
    BY DEF Init, SnapInv, RepeatsOnlyIfUnmarked
  <1>3. ASSUME NEW u \in Users, NEW end \in Int, NEW a \in Acts, <<u, end, a>> \in sent
        PROVE  Settled(u, end, a)
    <2>1. u \in Legacy /\ end = LegacyEnd /\ a = PreExpiry(PreExpiryDays)
      BY <1>3 DEF Init
    <2>2. /\ now \in Int /\ TicksPerDay \in Nat \ {0} /\ PreExpiryDays \in Nat \ {0}
          /\ WibOffset \in Nat /\ NULL \notin Int /\ LegacyEnd = now + PreExpiryDays * TicksPerDay
      BY RulesAssumption DEF RulesAssumption, Init, LegacyEnd
    <2>3. WibDate(LegacyEnd) = WibDate(now) + PreExpiryDays
      <3> DEFINE x == now + WibOffset
                 q == x \div TicksPerDay
      <3>1. x \in Int /\ q \in Int /\ q * TicksPerDay <= x /\ x < (q + 1) * TicksPerDay
        BY <2>2
      <3>2. LegacyEnd + WibOffset = x + PreExpiryDays * TicksPerDay
        BY <2>2
      <3> HIDE DEF x, q
      <3>3. (q + PreExpiryDays) * TicksPerDay <= x + PreExpiryDays * TicksPerDay
        BY <2>2, <3>1
      <3>4. x + PreExpiryDays * TicksPerDay < (q + PreExpiryDays + 1) * TicksPerDay
        BY <2>2, <3>1
      <3>5. (x + PreExpiryDays * TicksPerDay) \div TicksPerDay = q + PreExpiryDays
        BY <2>2, <3>1, <3>3, <3>4
      <3>6. QED
        BY <3>2, <3>5 DEF WibDate, x, q
    <2>4. WibDate(now) \in Int
      BY <2>2, WibDateType
    <2>5. DueDate(end, a) = WibDate(now) /\ RunTime = now
      BY <2>1, <2>2, <2>3, <2>4 DEF DueDate, PreExpiry, RunTime, Init
    <2>6. sub[u].periodEnd = end /\ sanction[u].forPeriod = end /\ sanction[u].preDay = NULL
      BY <2>1 DEF Init, NoSanction
    <2>7. DaysUntilExpiry(end, now) = PreExpiryDays /\ PreExpirySent(end, PreExpiryDays, sanction[u])
      BY <2>1, <2>2, <2>3, <2>4, <2>6 DEF DaysUntilExpiry, PreExpirySent
    <2>8. MaintenanceAction(end, now, sanction[u]).kind # "pre_expiry"
      BY <2>7 DEF MaintenanceAction, PreExpiry, ExpiryDay, Overdue, MarkWithdrawal, Nothing
    <2>9. pending = {} /\ current.user # u
      BY NoRecordFacts DEF Init
    <2>10. QED
      BY <2>1, <2>2, <2>4, <2>5, <2>6, <2>8, <2>9 DEF Settled, PreExpiry
  <1>4. SentInv
    BY <1>3 DEF SentInv
  <1>5. QED
    BY <1>1, <1>2, <1>4 DEF RepeatInv

LEMMA RepeatTypes ==
  TypeInv => /\ now \in Int /\ runNow \in Int /\ RunTime \in Int
             /\ pending \subseteq Records
             /\ sub \in [Users -> Subscriptions] /\ sanction \in [Users -> SanctionRows]
             /\ \A u \in Users : sub[u].periodEnd # NULL => sub[u].periodEnd \in Int
             /\ current # NoRecord => current \in Records /\ current.user \in Users
                                      /\ current.periodEnd \in Int /\ current.sanction \in SanctionRows
             /\ \A r \in pending : r.user \in Users /\ r.periodEnd \in Int /\ r.sanction \in SanctionRows
  <1> SUFFICES ASSUME TypeInv
               PROVE  /\ now \in Int /\ runNow \in Int /\ RunTime \in Int
                      /\ pending \subseteq Records
                      /\ sub \in [Users -> Subscriptions] /\ sanction \in [Users -> SanctionRows]
                      /\ \A u \in Users : sub[u].periodEnd # NULL => sub[u].periodEnd \in Int
                      /\ current # NoRecord => current \in Records /\ current.user \in Users
                              /\ current.periodEnd \in Int /\ current.sanction \in SanctionRows
                      /\ \A r \in pending : r.user \in Users /\ r.periodEnd \in Int
                                            /\ r.sanction \in SanctionRows
    OBVIOUS
  <1>1. TypeOK
    BY DEF TypeInv
  <1>2. \A u \in Users : sub[u].periodEnd # NULL => sub[u].periodEnd \in Int
    BY <1>1 DEF TypeOK, Subscriptions, Mark
  <1>3. \A r \in Records : r.user \in Users /\ r.periodEnd \in Int /\ r.sanction \in SanctionRows
    BY DEF Records
  <1>4. QED
    BY <1>1, <1>2, <1>3 DEF TypeOK, RunTime

(* The run ends, well or not, or another one starts.                       *)
LEMMA SettledRest ==
  ASSUME TypeInv, TypeInv', NEW u \in Users, NEW end \in Int, NEW a \in Acts,
         Settled(u, end, a), ~AtMark(u, end, a),
         UNCHANGED rows, RunTime <= RunTime', pending' = {}, current' = NoRecord
  PROVE  Settled(u, end, a)'
  <1>1. RunTime \in Int /\ RunTime' \in Int /\ sanction[u] \in SanctionRows
    <2>1. RunTime \in Int /\ sanction[u] \in SanctionRows
      BY RepeatTypes
    <2>2. RunTime' \in Int
      BY DEF TypeInv, TypeOK, RunTime
    <2>3. QED
      BY <2>1, <2>2
  <1>2. DueDate(end, a) <= WibDate(RunTime')
        /\ (sub[u].periodEnd = end => MaintenanceAction(end, RunTime', sanction[u]) # a)
    <2>1. WibDate(RunTime) <= WibDate(RunTime') /\ WibDate(RunTime) \in Int
          /\ WibDate(RunTime') \in Int /\ DueDate(end, a) \in Int
      BY <1>1, WibDateMonotone, WibDateType DEF DueDate, Acts
    <2>2. DueDate(end, a) <= WibDate(RunTime')
      BY <2>1 DEF Settled
    <2>3. QED
      BY <1>1, <2>2, StaysSilent DEF Settled
  <1>3. current'.user # u
    BY NoRecordFacts
  <1>4. QED
    BY <1>2, <1>3 DEF Settled, rows

(* The run goes on, and so may the clock.                                  *)
LEMMA SettledGoesOn ==
  ASSUME TypeInv, TypeInv', NEW u \in Users, NEW end \in Int, NEW a \in Acts,
         Settled(u, end, a), AtMark(u, end, a) => AtMark(u, end, a)',
         sub'[u].periodEnd = sub[u].periodEnd,
         UNCHANGED <<sanction, pending, current, runNow>>, RunTime <= RunTime'
  PROVE  Settled(u, end, a)'
  <1>1. RunTime \in Int /\ RunTime' \in Int /\ sanction[u] \in SanctionRows
    <2>1. RunTime \in Int /\ sanction[u] \in SanctionRows
      BY RepeatTypes
    <2>2. RunTime' \in Int
      BY DEF TypeInv, TypeOK, RunTime
    <2>3. QED
      BY <2>1, <2>2
  <1>2. DueDate(end, a) <= WibDate(RunTime')
    <2>1. WibDate(RunTime) <= WibDate(RunTime') /\ WibDate(RunTime) \in Int
          /\ WibDate(RunTime') \in Int /\ DueDate(end, a) \in Int
      BY <1>1, WibDateMonotone, WibDateType DEF DueDate, Acts
    <2>2. QED
      BY <2>1 DEF Settled
  <1>3. MaintenanceAction(end, RunTime, sanction[u]) # a =>
          MaintenanceAction(end, RunTime', sanction[u]) # a
    BY <1>1, StaysSilent DEF Settled
  <1>4. \A r : Action(r)' = Action(r)
    BY DEF Action
  <1>5. QED
    BY <1>2, <1>3, <1>4 DEF Settled

(* apply_midtrans_webhook: the paid period ends later than the one before. *)
LEMMA RepeatPay ==
  ASSUME RepeatInv, TypeInv', NEW v \in Users, PayWebhook(v)
  PROVE  SnapInv' /\ SentInv'
  <1>1. TypeInv /\ SnapInv /\ SentInv
    BY DEF RepeatInv
  <1>2. /\ UNCHANGED <<now, pc, runNow, pending, current, sent, unmarked>>
        /\ sub' = [sub EXCEPT ![v] = [status |-> "active", periodEnd |-> Extended(@.periodEnd)]]
        /\ sanction' = [sanction EXCEPT ![v] = ResolvedSanction(@)]
    BY DEF PayWebhook, job
  <1>3. /\ now \in Int /\ PeriodTicks \in Nat \ {0} /\ NULL \notin Int
        /\ sub[v].periodEnd # NULL => sub[v].periodEnd \in Int
        /\ sub \in [Users -> Subscriptions] /\ sanction \in [Users -> SanctionRows]
    BY <1>1, RepeatTypes, MaintenanceAssumption, RulesAssumption
    DEF MaintenanceAssumption, RulesAssumption
  <1>4. sub'[v].periodEnd = Extended(sub[v].periodEnd)
    BY <1>2, <1>3
  <1>5. sub'[v].periodEnd \in Int /\ sub'[v].periodEnd # NULL
        /\ (sub[v].periodEnd # NULL => sub[v].periodEnd < sub'[v].periodEnd)
    BY <1>3, <1>4 DEF Extended
  <1>6. \A u \in Users : u # v => sub'[u] = sub[u] /\ sanction'[u] = sanction[u]
    BY <1>2, <1>3
  <1>7. RunTime' = RunTime /\ \A r : Action(r)' = Action(r)
    BY <1>2 DEF RunTime, Action
  <1>8. \A u \in Users, end \in Int :
          sub[u].periodEnd # NULL /\ end <= sub[u].periodEnd =>
            sub'[u].periodEnd # NULL /\ end <= sub'[u].periodEnd /\ (u = v => end # sub'[u].periodEnd)
    <2> SUFFICES ASSUME NEW u \in Users, NEW end \in Int,
                        sub[u].periodEnd # NULL, end <= sub[u].periodEnd
                 PROVE  sub'[u].periodEnd # NULL /\ end <= sub'[u].periodEnd
                        /\ (u = v => end # sub'[u].periodEnd)
      OBVIOUS
    <2>1. CASE u = v
      BY <1>3, <1>5, <2>1
    <2>2. CASE u # v
      BY <1>6, <2>2
    <2>3. QED
      BY <2>1, <2>2
  <1>9. SnapInv'
    <2>1. \A r \in pending : r.user \in Users /\ r.periodEnd \in Int
      BY <1>1, RepeatTypes
    <2>2. current # NoRecord => current.user \in Users /\ current.periodEnd \in Int
      BY <1>1, RepeatTypes
    <2>3. QED
      BY <1>1, <1>2, <1>7, <1>8, <2>1, <2>2 DEF SnapInv
  <1>10. ASSUME NEW u \in Users, NEW end \in Int, NEW a \in Acts, Settled(u, end, a)
         PROVE  Settled(u, end, a)'
    <2>1. sub'[u].periodEnd # NULL /\ end <= sub'[u].periodEnd /\ (u = v => end # sub'[u].periodEnd)
      BY <1>8, <1>10 DEF Settled
    <2>2. AtMark(u, end, a)' <=> AtMark(u, end, a)
      BY <1>2, <1>7 DEF AtMark
    <2>3. sub'[u].periodEnd = end => sub'[u] = sub[u] /\ sanction'[u] = sanction[u]
      BY <1>6, <2>1
    <2>4. QED
      BY <1>2, <1>7, <1>10, <2>1, <2>2, <2>3 DEF Settled
  <1>11. QED
    BY <1>1, <1>2, <1>9, <1>10 DEF SentInv

(* fetch_maintenance_records                                               *)
LEMMA RepeatFetch ==
  ASSUME RepeatInv, TypeInv', FetchRecords
  PROVE  SnapInv' /\ SentInv'
  <1>1. TypeInv /\ SnapInv /\ SentInv /\ pc = "fetch" /\ pc' = "next"
        /\ UNCHANGED <<now, sub, sanction, runNow, current, sent, unmarked>>
    BY DEF RepeatInv, FetchRecords, rows, history
  <1>2. current = NoRecord /\ RunTime' = RunTime /\ RunTime = runNow
        /\ \A r : Action(r)' = Action(r)
    BY <1>1 DEF TypeInv, JobShape, RunTime, Action
  <1>3. \A r \in pending' : /\ r.user \in Users /\ sub[r.user].periodEnd # NULL
                            /\ r.periodEnd = sub[r.user].periodEnd
                            /\ r.sanction = sanction[r.user]
                            /\ r = [user |-> r.user, periodEnd |-> sub[r.user].periodEnd,
                                    sanction |-> sanction[r.user]]
    BY DEF FetchRecords, Fetched
  <1>4. \A r \in pending', s \in pending' : s.user = r.user => s = r
    BY <1>3, Zenon
  <1>5. \A u \in Users : sub[u].periodEnd # NULL => sub[u].periodEnd \in Int
    BY <1>1, RepeatTypes
  <1>6. SnapInv'
    BY <1>1, <1>2, <1>3, <1>4, <1>5, NoRecordFacts DEF SnapInv
  <1>7. ASSUME NEW u \in Users, NEW end \in Int, NEW a \in Acts, Settled(u, end, a)
        PROVE  Settled(u, end, a)'
    <2>1. ~AtMark(u, end, a) /\ current.user # u
      BY <1>1, <1>2, NoRecordFacts DEF AtMark
    <2>2. sub[u].periodEnd = end => MaintenanceAction(end, RunTime, sanction[u]) # a
      BY <1>7, <2>1 DEF Settled
    <2>3. \A r \in pending' :
            r.user = u => end <= r.periodEnd /\ (end = r.periodEnd => Action(r) # a)
      BY <1>2, <1>3, <1>7, <2>2 DEF Settled, Action
    <2>4. QED
      BY <1>1, <1>2, <1>7, <2>1, <2>2, <2>3 DEF Settled
  <1>8. QED
    BY <1>1, <1>6, <1>7 DEF SentInv

LEMMA RepeatNext ==
  ASSUME RepeatInv, TypeInv', NextRecord
  PROVE  SnapInv' /\ SentInv'
  <1>1. TypeInv /\ SnapInv /\ SentInv /\ pc = "next"
        /\ UNCHANGED <<now, sub, sanction, runNow, sent, unmarked>>
    BY DEF RepeatInv, NextRecord, rows, history
  <1>2. PICK r \in pending : /\ pending' = pending \ {r}
                             /\ pc' = FirstStep(Action(r).kind)
                             /\ current' = IF Action(r) = Nothing THEN NoRecord ELSE r
    BY DEF NextRecord
  <1>3. current = NoRecord
    BY <1>1 DEF TypeInv, JobShape
  <1>4. pc' # "idle" /\ RunTime' = RunTime /\ \A s : Action(s)' = Action(s)
    BY <1>1, <1>2 DEF FirstStep, RunTime, Action
  <1>5. r \in Records /\ r.user \in Users /\ r # NoRecord /\ NoRecord.user \notin Users
        /\ \A s \in pending : s.user \in Users
    BY <1>1, RepeatTypes, NoRecordFacts
  <1>6. current' \in {r, NoRecord}
    BY <1>2
  <1>7. SnapInv'
    <2>1. \A s \in pending' : s \in pending /\ s.user # r.user
      BY <1>1, <1>2 DEF SnapInv
    <2>2. pc' = "send" => Action(r).kind \in Reminders /\ current' = r
      BY <1>2 DEF FirstStep, Nothing, Reminders
    <2>3. \A s \in pending' : s.user # current'.user
      BY <1>5, <1>6, <2>1
    <2>4. QED
      BY <1>1, <1>4, <1>5, <1>6, <2>1, <2>2, <2>3 DEF SnapInv
  <1>8. ASSUME NEW u \in Users, NEW end \in Int, NEW a \in Acts, Settled(u, end, a)
        PROVE  Settled(u, end, a)'
    <2>1. ~AtMark(u, end, a)
      BY <1>1 DEF AtMark
    <2>2. current'.user = u => end <= current'.periodEnd /\ (end = current'.periodEnd => Action(current') # a)
      BY <1>5, <1>6, <1>8 DEF Settled
    <2>3. Action(current)' = Action(current')
      BY <1>1 DEF Action
    <2>4. QED
      BY <1>1, <1>2, <1>4, <1>8, <2>1, <2>2, <2>3 DEF Settled
  <1>9. QED
    BY <1>1, <1>7, <1>8 DEF SentInv

(* The reminder in hand was not delivered before, or its mark was lost.    *)
LEMMA RepeatSend ==
  ASSUME RepeatInv, TypeInv', SendReminder
  PROVE  SnapInv' /\ SentInv' /\ RepeatsOnlyIfUnmarked'
  <1> DEFINE a0 == Action(current)
             k0 == <<current.user, current.periodEnd, a0>>
  <1>1. /\ TypeInv /\ SnapInv /\ SentInv /\ RepeatsOnlyIfUnmarked /\ pc = "send"
        /\ pc' \in {"status", "upsert"}
        /\ UNCHANGED <<now, sub, sanction, runNow, pending, current, unmarked>>
    BY DEF RepeatInv, SendReminder, rows
  <1>2. sent' = sent \cup {k0} /\ (repeated' = repeated \/ (repeated' = repeated \cup {k0} /\ k0 \in sent))
    BY DEF SendReminder, Deliver, Key
  <1>3. current # NoRecord
    BY <1>1 DEF TypeInv, JobShape
  <1>4. /\ current \in Records /\ current.user \in Users /\ current.periodEnd \in Int
        /\ current.sanction \in SanctionRows /\ runNow \in Int
    BY <1>1, <1>3, RepeatTypes
  <1>5. RunTime' = RunTime /\ RunTime = runNow /\ \A r : Action(r)' = Action(r)
    BY <1>1 DEF RunTime, Action
  <1>6. a0 \in Acts /\ DueDate(current.periodEnd, a0) = WibDate(runNow)
    BY <1>1, <1>4, ReminderFacts DEF SnapInv, Action
  <1>7. SnapInv'
    BY <1>1, <1>5 DEF SnapInv
  <1>8. k0 \in sent => k0 \in unmarked
    <2> SUFFICES ASSUME k0 \in sent \ unmarked PROVE FALSE
      OBVIOUS
    <2>1. Settled(current.user, current.periodEnd, a0)
      BY <1>1, <1>4, <1>6 DEF SentInv
    <2>2. QED
      BY <1>1, <2>1 DEF Settled, AtMark
  <1>9. RepeatsOnlyIfUnmarked'
    BY <1>1, <1>2, <1>8 DEF RepeatsOnlyIfUnmarked
  <1>10. Settled(current.user, current.periodEnd, a0)'
    <2>1. AtMark(current.user, current.periodEnd, a0)'
      BY <1>1, <1>5 DEF AtMark
    <2>2. WibDate(runNow) \in Int
      BY <1>4, WibDateType
    <2>3. \A r \in pending : r.user # current.user
      BY <1>1 DEF SnapInv
    <2>4. sub[current.user].periodEnd # NULL /\ current.periodEnd <= sub[current.user].periodEnd
      BY <1>1, <1>3 DEF SnapInv
    <2>5. DueDate(current.periodEnd, a0)' = WibDate(runNow)
      BY <1>1, <1>5, <1>6 DEF DueDate
    <2>6. QED
      BY <1>1, <1>4, <1>5, <2>1, <2>2, <2>3, <2>4, <2>5 DEF Settled
  <1>11. ASSUME NEW u \in Users, NEW end \in Int, NEW a \in Acts, Settled(u, end, a)
         PROVE  Settled(u, end, a)'
    <2>1. ~AtMark(u, end, a)
      BY <1>1 DEF AtMark
    <2>2. RunTime <= RunTime'
      BY <1>4, <1>5
    <2>3. QED
      BY <1>1, <1>11, <2>1, <2>2, SettledGoesOn
  <1>12. ASSUME NEW u \in Users, NEW end \in Int, NEW a \in Acts,
                <<u, end, a>> \in sent' \ unmarked'
         PROVE  Settled(u, end, a)'
    <2>1. CASE <<u, end, a>> = k0
      <3>1. u = current.user /\ end = current.periodEnd /\ a = a0
        BY <2>1
      <3>2. a0' = a0 /\ UNCHANGED current
        BY <1>1, <1>5
      <3>3. QED
        BY <1>10, <3>1, <3>2
    <2>2. CASE <<u, end, a>> # k0
      BY <1>1, <1>2, <1>11, <1>12, <2>2 DEF SentInv
    <2>3. QED
      BY <2>1, <2>2
  <1>13. QED
    BY <1>7, <1>9, <1>12 DEF SentInv

LEMMA RepeatMark ==
  ASSUME RepeatInv, TypeInv', UpsertSanction
  PROVE  SnapInv' /\ SentInv'
  <1> DEFINE v == current.user
             m == Marked(sanction[v], current)
  <1>1. /\ TypeInv /\ SnapInv /\ SentInv /\ pc = "upsert" /\ pc' = "next" /\ current' = NoRecord
        /\ UNCHANGED <<now, sub, runNow, pending, sent, unmarked>>
        /\ sanction' = [sanction EXCEPT ![v] = Marked(@, current)]
    BY DEF RepeatInv, UpsertSanction, history
  <1>2. current # NoRecord /\ Action(current).kind # "none"
    BY <1>1 DEF TypeInv, JobShape
  <1>3. /\ current \in Records /\ v \in Users /\ current.periodEnd \in Int
        /\ current.sanction \in SanctionRows /\ runNow \in Int
        /\ sanction \in [Users -> SanctionRows]
        /\ \A u \in Users : sub[u].periodEnd # NULL => sub[u].periodEnd \in Int
    BY <1>1, <1>2, RepeatTypes
  <1>4. RunTime' = RunTime /\ RunTime = runNow /\ \A r : Action(r)' = Action(r)
    BY <1>1 DEF RunTime, Action
  <1>5. sanction'[v] = m /\ \A u \in Users : u # v => sanction'[u] = sanction[u]
    BY <1>1, <1>3
  <1>6. m \in SanctionRows
    BY <1>3, MarkedType
  <1>7. SnapInv'
    BY <1>1, <1>4, RepeatTypes, NoRecordFacts DEF SnapInv
  <1> HIDE DEF m
  <1>8. ASSUME NEW u \in Users, NEW end \in Int, NEW a \in Acts, Settled(u, end, a)
        PROVE  Settled(u, end, a)'
    <2>1. ASSUME sub[u].periodEnd = end
          PROVE  MaintenanceAction(end, runNow, sanction'[u]) # a
      <3>1. CASE u # v
        <4>1. MaintenanceAction(end, RunTime, sanction[u]) # a
          BY <1>8, <2>1, <3>1 DEF Settled, AtMark
        <4>2. QED
          BY <1>4, <1>5, <3>1, <4>1
      <3>2. CASE u = v
        <4>1. current.periodEnd = end
          <5>1. current.periodEnd <= sub[v].periodEnd
            BY <1>1, <1>2 DEF SnapInv
          <5>2. end <= current.periodEnd
            BY <1>8, <3>2 DEF Settled
          <5>3. QED
            BY <1>3, <2>1, <3>2, <5>1, <5>2
        <4>2. a.kind \in Reminders
          BY DEF Acts
        <4>3. CASE Action(current) = a
          BY <1>3, <1>5, <3>2, <4>1, <4>2, <4>3, MarkSilences DEF m
        <4>4. CASE Action(current) # a
          <5> SUFFICES ASSUME MaintenanceAction(end, runNow, m) = a PROVE FALSE
            BY <1>5, <3>2
          <5>1. Action(current) = MaintenanceAction(end, runNow, current.sanction)
            BY <4>1 DEF Action
          <5>2. Action(current) = a
            BY <1>2, <1>3, <1>6, <4>2, <5>1, ReminderFacts
          <5>3. QED
            BY <4>4, <5>2
        <4>5. QED
          BY <4>3, <4>4
      <3>3. QED
        BY <3>1, <3>2
    <2>2. current'.user # u
      BY <1>1, NoRecordFacts
    <2>3. QED
      BY <1>1, <1>4, <1>8, <2>1, <2>2 DEF Settled
  <1>9. QED
    BY <1>1, <1>7, <1>8 DEF SentInv

(* A run that is over, or has not begun, holds nothing.                    *)
LEMMA RepeatRest ==
  ASSUME RepeatInv, TypeInv', UNCHANGED rows, pending' = {}, current' = NoRecord,
         pc' # "send", RunTime <= RunTime',
         \A u \in Users, end \in Int, a \in Acts :
           <<u, end, a>> \in sent' \ unmarked' =>
             <<u, end, a>> \in sent \ unmarked /\ ~AtMark(u, end, a)
  PROVE  SnapInv' /\ SentInv'
  <1>1. SnapInv'
    BY DEF SnapInv
  <1>2. ASSUME NEW u \in Users, NEW end \in Int, NEW a \in Acts,
               <<u, end, a>> \in sent' \ unmarked'
        PROVE  Settled(u, end, a)'
    <2>1. Settled(u, end, a) /\ ~AtMark(u, end, a) /\ TypeInv
      BY <1>2 DEF RepeatInv, SentInv
    <2>2. QED
      BY <2>1, SettledRest
  <1>3. QED
    BY <1>1, <1>2 DEF SentInv

LEMMA RepeatGoesOn ==
  ASSUME RepeatInv, TypeInv', \A u \in Users : sub'[u].periodEnd = sub[u].periodEnd,
         UNCHANGED <<sanction, pending, current, runNow, sent, unmarked>>, RunTime <= RunTime',
         pc' = pc \/ (pc = "status" /\ pc' = "upsert")
  PROVE  SnapInv' /\ SentInv'
  <1>1. TypeInv /\ SnapInv /\ SentInv /\ \A r : Action(r)' = Action(r)
    BY DEF RepeatInv, Action
  <1>2. /\ \A r \in pending : r.user \in Users
        /\ current # NoRecord => current.user \in Users
    BY <1>1, RepeatTypes
  <1>3. SnapInv'
    BY <1>1, <1>2 DEF SnapInv
  <1>4. ASSUME NEW u \in Users, NEW end \in Int, NEW a \in Acts, Settled(u, end, a)
        PROVE  Settled(u, end, a)'
    <2>1. AtMark(u, end, a) => AtMark(u, end, a)'
      BY <1>1 DEF AtMark
    <2>2. QED
      BY <1>1, <1>4, <2>1, SettledGoesOn
  <1>5. QED
    BY <1>1, <1>3, <1>4 DEF SentInv

(* An answer that is lost, a run that dies, a message that is refused.     *)
LEMMA RepeatAbort ==
  ASSUME RepeatInv, TypeInv', SendRefused \/ SendAnswerLost \/ RunDies
  PROVE  SnapInv' /\ SentInv' /\ RepeatsOnlyIfUnmarked'
  <1>1. /\ TypeInv /\ SentInv /\ RepeatsOnlyIfUnmarked /\ Abort /\ pc # "idle"
    BY DEF RepeatInv, SendRefused, SendAnswerLost, RunDies
  <1>2. /\ UNCHANGED rows /\ pending' = {} /\ current' = NoRecord /\ pc' = "idle" /\ now' = now
    BY <1>1 DEF Abort
  <1>3. RunTime <= RunTime'
    BY <1>1, <1>2 DEF RunTime, TypeInv, JobShape, TypeOK
  <1>4. ASSUME NEW u \in Users, NEW end \in Int, NEW a \in Acts,
               <<u, end, a>> \in sent' \ unmarked'
        PROVE  <<u, end, a>> \in sent \ unmarked /\ ~AtMark(u, end, a)
    <2>1. CASE SendRefused
      BY <1>4, <2>1 DEF SendRefused, history, AtMark
    <2>2. CASE SendAnswerLost
      BY <1>4, <2>2 DEF SendAnswerLost, Deliver, AtMark
    <2>3. CASE RunDies
      <3>1. <<u, end, a>> \in sent \ unmarked
        BY <1>4, <2>3 DEF RunDies
      <3>2. AtMark(u, end, a) => Key(current) = <<u, end, a>> /\ pc \in {"status", "upsert"}
        BY DEF AtMark, Key
      <3>3. QED
        BY <1>4, <2>3, <3>1, <3>2 DEF RunDies
    <2>4. QED
      BY <2>1, <2>2, <2>3
  <1>5. SnapInv' /\ SentInv'
    BY <1>2, <1>3, <1>4, RepeatRest
  <1>6. RepeatsOnlyIfUnmarked'
    BY <1>1 DEF RepeatsOnlyIfUnmarked, SendRefused, SendAnswerLost, RunDies, Deliver, history
  <1>7. QED
    BY <1>5, <1>6

LEMMA RepeatStep == RepeatInv /\ [Next]_vars => RepeatInv'
  <1> SUFFICES ASSUME RepeatInv, [Next]_vars PROVE RepeatInv'
    OBVIOUS
  <1>1. TypeInv /\ TypeInv' /\ TypeOK /\ JobShape /\ RepeatsOnlyIfUnmarked
    BY NextTypeInv DEF RepeatInv, TypeInv
  <1>2. \A u \in Users : RunTime \in Int /\ sub[u] \in Subscriptions
    BY <1>1, RepeatTypes
  <1>3. ASSUME NEW v \in Users, PayWebhook(v) PROVE RepeatInv'
    <2>1. RepeatsOnlyIfUnmarked'
      BY <1>1, <1>3 DEF PayWebhook, RepeatsOnlyIfUnmarked
    <2>2. QED
      BY <1>1, <1>3, <2>1, RepeatPay DEF RepeatInv
  <1>4. CASE FetchRecords \/ NextRecord \/ UpsertSanction
    <2>1. RepeatsOnlyIfUnmarked'
      BY <1>1, <1>4 DEF FetchRecords, NextRecord, UpsertSanction, RepeatsOnlyIfUnmarked, history
    <2>2. QED
      BY <1>1, <1>4, <2>1, RepeatFetch, RepeatNext, RepeatMark DEF RepeatInv
  <1>5. CASE SendReminder
    BY <1>1, <1>5, RepeatSend DEF RepeatInv
  <1>6. CASE SendRefused \/ SendAnswerLost \/ RunDies
    BY <1>1, <1>6, RepeatAbort DEF RepeatInv
  <1>7. CASE StartRun \/ FinishRun
    <2>1. /\ UNCHANGED <<rows, now, sent, unmarked, repeated, current>> /\ pending' = {}
          /\ pc' \in {"fetch", "idle"} /\ pc \notin {"send", "status", "upsert"}
          /\ current = NoRecord
      BY <1>1, <1>7 DEF StartRun, FinishRun, history, JobShape
    <2>2. RunTime <= RunTime'
      BY <1>1, <1>7 DEF StartRun, FinishRun, RunTime, JobShape, TypeOK
    <2>3. \A u, end, a : ~AtMark(u, end, a)
      BY <2>1 DEF AtMark
    <2>4. SnapInv' /\ SentInv'
      BY <1>1, <2>1, <2>2, <2>3, RepeatRest
    <2>5. QED
      BY <1>1, <2>1, <2>4 DEF RepeatInv, RepeatsOnlyIfUnmarked
  <1>8. CASE Tick \/ SetPastDue \/ UNCHANGED vars
    <2>1. /\ UNCHANGED <<sanction, pending, current, runNow, sent, unmarked, repeated>>
          /\ pc' = pc \/ (pc = "status" /\ pc' = "upsert")
      BY <1>8 DEF Tick, SetPastDue, vars, rows, job, history
    <2>2. RunTime <= RunTime'
      BY <1>1, <1>2, <1>8 DEF Tick, SetPastDue, vars, job, RunTime, TypeOK
    <2>3. \A u \in Users : sub'[u].periodEnd = sub[u].periodEnd
      <3>1. CASE SetPastDue
        BY <1>1, <3>1 DEF SetPastDue, TypeOK, Subscriptions
      <3>2. CASE Tick \/ UNCHANGED vars
        BY <3>2 DEF Tick, vars, rows
      <3>3. QED
        BY <1>8, <3>1, <3>2
    <2>4. SnapInv' /\ SentInv'
      BY <1>1, <2>1, <2>2, <2>3, RepeatGoesOn
    <2>5. QED
      BY <1>1, <2>1, <2>4 DEF RepeatInv, RepeatsOnlyIfUnmarked
  <1>9. QED
    BY <1>3, <1>4, <1>5, <1>6, <1>7, <1>8 DEF Next, JobStep

(* A user gets the reminder of a date a second time only after a run that  *)
(* died, or lost Telegram's answer, between the first and its mark.        *)
THEOREM SpecRepeatsOnlyIfUnmarked == Spec => []RepeatsOnlyIfUnmarked
  <1>1. RepeatInv => RepeatsOnlyIfUnmarked
    BY DEF RepeatInv
  <1>2. QED
    BY <1>1, RepeatInit, RepeatStep, PTL DEF Spec
=============================================================================
