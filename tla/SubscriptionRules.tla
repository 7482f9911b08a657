-------------------------- MODULE SubscriptionRules --------------------------
(***************************************************************************)
(* The calendar rules of a subscription: src/subscription_maintenance.rs.  *)
(* Pure functions of a period end, a clock reading and the row kept in     *)
(* telegram_subscription_sanctions.  The daily job, the HTTP listing and   *)
(* the payment quote all decide from them.                                 *)
(***************************************************************************)
EXTENDS Integers

CONSTANTS
  NULL,            \* the SQL NULL / Option::None
  TicksPerDay,     \* instants told apart within one day
  WibOffset,       \* WIB_OFFSET_SECONDS, in ticks
  PreExpiryDays,   \* SUBSCRIPTION_PRE_EXPIRY_REMINDER_DAYS
  MaxFineDays,     \* SUBSCRIPTION_MAX_FINE_DAYS
  DailyFine        \* SUBSCRIPTION_DAILY_FINE_IDR

ASSUME RulesAssumption ==
  /\ NULL \notin Int /\ NULL \notin BOOLEAN
  /\ TicksPerDay \in Nat \ {0}
  /\ WibOffset \in Nat
  /\ PreExpiryDays \in Nat \ {0}
  /\ MaxFineDays \in Nat
  /\ DailyFine \in Nat \ {0}

Max0(n) == IF n < 0 THEN 0 ELSE n

-----------------------------------------------------------------------------
(* Days are counted between calendar dates in WIB (UTC+7), never between   *)
(* instants.                                                               *)

WibDate(t) == (t + WibOffset) \div TicksPerDay

DaysUntilExpiry(end, t) == WibDate(end) - WibDate(t)

OverdueDays(end, t) == Max0(WibDate(t) - WibDate(end))

FineFor(days) ==
  DailyFine * (IF days > MaxFineDays THEN MaxFineDays ELSE Max0(days))

-----------------------------------------------------------------------------
(* A row of telegram_subscription_sanctions; NoSanction stands for a       *)
(* missing row, which the LEFT JOINs of the readers turn into NULLs.       *)

Mark == Int \cup {NULL}

SanctionRows ==
  [forPeriod : Mark, preDay : Mark, overdueDay : Mark,
   fine : Int, withdrawal : BOOLEAN, resolved : BOOLEAN]

NoSanction == [forPeriod |-> NULL, preDay |-> NULL, overdueDay |-> NULL,
               fine |-> 0, withdrawal |-> FALSE, resolved |-> FALSE]

(* Mutant: resolving keeps what the row recorded.                          *)
ResolvedButKept(s) == IF s = NoSanction THEN s ELSE [s EXCEPT !.resolved = TRUE]

(* Mutant: resolving writes NULL into the fine, which is NOT NULL.         *)
ResolvedToNull(s) ==
  IF s = NoSanction THEN s ELSE [NoSanction EXCEPT !.fine = NULL, !.resolved = TRUE]

(* resolve_subscription_sanction updates the row only where one exists.    *)
ResolvedSanction(s) ==
  IF s = NoSanction THEN s ELSE [NoSanction EXCEPT !.resolved = TRUE]

(* Mutant: COALESCE without the comparison of the two periods.             *)
MergedOverPeriods(old, new, samePeriod) == IF new = NULL THEN old ELSE new

(* ON CONFLICT DO UPDATE: a mark of the same period survives a NULL, a     *)
(* mark of another period does not; the fine and the flag are overwritten. *)
MergedMark(old, new, samePeriod) ==
  IF samePeriod /\ new = NULL THEN old ELSE new

UpsertedSanction(s, end, preDay, overdueDay, fine, withdrawal) ==
  [forPeriod  |-> end,
   preDay     |-> MergedMark(s.preDay, preDay, s.forPeriod = end),
   overdueDay |-> MergedMark(s.overdueDay, overdueDay, s.forPeriod = end),
   fine       |-> fine,
   withdrawal |-> withdrawal,
   resolved   |-> FALSE]

-----------------------------------------------------------------------------
(* What the job does for one subscription.                                 *)

Nothing          == [kind |-> "none", day |-> 0]
PreExpiry(d)     == [kind |-> "pre_expiry", day |-> d]
ExpiryDay        == [kind |-> "expiry_day", day |-> 0]
Overdue(d)       == [kind |-> "overdue", day |-> d]
MarkWithdrawal(d) == [kind |-> "withdrawal", day |-> d]

(* Mutant: the row layout of before migration 0017 is not recognised.      *)
PreExpirySentNewLayout(end, d, s) == s.forPeriod = end /\ s.preDay = d

(* Rows written before migration 0017 carry the period but no day: they    *)
(* stand for the D-PreExpiryDays reminder.                                 *)
PreExpirySent(end, d, s) ==
  /\ s.forPeriod = end
  /\ \/ s.preDay = d
     \/ s.preDay = NULL /\ d = PreExpiryDays

ExpiryDaySent(end, s) == s.forPeriod = end /\ s.preDay = 0

(* The caller forgets the overdue mark of a resolved row and of another    *)
(* period, but passes the withdrawal flag of whatever row there is.        *)
LastOverdueDay(end, s) ==
  IF s.resolved \/ s.forPeriod # end THEN NULL ELSE s.overdueDay

(* Mutant: withdrawal is asked for on the last fined day.                  *)
WithdrawalADayEarly(end, t, s) ==
  LET d == DaysUntilExpiry(end, t)
      o == OverdueDays(end, t)
  IN IF d \in 1..PreExpiryDays /\ ~PreExpirySent(end, d, s) THEN PreExpiry(d)
     ELSE IF d = 0 /\ ~ExpiryDaySent(end, s) THEN ExpiryDay
     ELSE IF o \in 1..(MaxFineDays - 1) /\ LastOverdueDay(end, s) # o THEN Overdue(o)
     ELSE IF o > 0 /\ o >= MaxFineDays /\ ~s.withdrawal THEN MarkWithdrawal(o)
     ELSE Nothing

MaintenanceAction(end, t, s) ==
  LET d == DaysUntilExpiry(end, t)
      o == OverdueDays(end, t)
  IN IF d \in 1..PreExpiryDays /\ ~PreExpirySent(end, d, s) THEN PreExpiry(d)
     ELSE IF d = 0 /\ ~ExpiryDaySent(end, s) THEN ExpiryDay
     ELSE IF o \in 1..MaxFineDays /\ LastOverdueDay(end, s) # o THEN Overdue(o)
     ELSE IF o > MaxFineDays /\ ~s.withdrawal THEN MarkWithdrawal(o)
     ELSE Nothing

Reminders == {"pre_expiry", "expiry_day", "overdue"}

-----------------------------------------------------------------------------
(* What GET /api/subscriptions reports: the stage, and whether the         *)
(* reminder of today was sent (NULL where none is due).                    *)

(* Mutant: the reminder window is a day shorter here than in the job.      *)
LifecycleStageShortWindow(end, t) ==
  LET d == DaysUntilExpiry(end, t)
  IN IF d >= PreExpiryDays THEN "active"
     ELSE IF d > 0 THEN "pre_expiry"
     ELSE IF d = 0 THEN "expiry_day"
     ELSE IF OverdueDays(end, t) <= MaxFineDays THEN "overdue"
     ELSE "withdrawal_required"

LifecycleStage(end, t) ==
  LET d == DaysUntilExpiry(end, t)
  IN IF d > PreExpiryDays THEN "active"
     ELSE IF d > 0 THEN "pre_expiry"
     ELSE IF d = 0 THEN "expiry_day"
     ELSE IF OverdueDays(end, t) <= MaxFineDays THEN "overdue"
     ELSE "withdrawal_required"

OverdueSent(end, o, s) == ~s.resolved /\ s.forPeriod = end /\ s.overdueDay = o

ReminderSent(end, t, s) ==
  LET stage == LifecycleStage(end, t)
  IN IF stage = "pre_expiry" THEN PreExpirySent(end, DaysUntilExpiry(end, t), s)
     ELSE IF stage = "expiry_day" THEN ExpiryDaySent(end, s)
     ELSE IF stage = "overdue" THEN OverdueSent(end, OverdueDays(end, t), s)
     ELSE NULL
=============================================================================
