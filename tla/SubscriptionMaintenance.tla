----------------------- MODULE SubscriptionMaintenance -----------------------
(***************************************************************************)
(* The subscription_maintenance job (src/subscription_maintenance.rs)      *)
(* against the rows it shares with the payment webhook.  A run fixes its   *)
(* clock, reads every subscription once, and then works through that       *)
(* snapshot record by record: send a Telegram message, then write the      *)
(* marks, each statement on its own.  Any `?` ends the run.                *)
(*                                                                         *)
(* The webhook's transaction holds the subscription row FOR UPDATE up to   *)
(* its commit and touches the sanction row last, so towards the job's      *)
(* single-statement writes it is one step here; module MidtransPayments    *)
(* takes it apart.                                                         *)
(***************************************************************************)
EXTENDS SubscriptionRules

CONSTANTS
  Users,         \* one subscription row per user (migration 0015); Nat, the id order
  Legacy,        \* users whose row is older than migration 0017 (no reminder day)
  Blocked,       \* users whose chat refuses messages (sendMessage answers 403)
  PeriodTicks,   \* length of a paid period
  Horizon,       \* bound: the clock stops here
  MaxPayments,   \* bound: payments of one user
  MaxFailures    \* bound: aborted runs other than those on a refused message

ASSUME MaintenanceAssumption ==
  /\ Users \subseteq Nat
  /\ Legacy \subseteq Users
  /\ Blocked \subseteq Users
  /\ PeriodTicks \in Nat \ {0}
  /\ Horizon \in Nat
  /\ MaxPayments \in Nat
  /\ MaxFailures \in Nat

VARIABLES
  now,        \* Utc::now()
  sub,        \* telegram_subscriptions, by user
  sanction,   \* telegram_subscription_sanctions, by user
  pc,         \* where the job is
  runNow,     \* the clock reading the run in progress works with
  pending,    \* records of the snapshot not yet reached
  current,    \* the record being acted on
  payments,   \* payments applied per user
  failures,   \* runs aborted so far
  sent,       \* history: reminders delivered
  repeated,   \* history: reminders delivered more than once
  unmarked,   \* history: reminders delivered by a run that aborted before marking
  raced       \* users whose last payment landed while a run held their record

rows    == <<sub, sanction>>
job     == <<pc, runNow, pending, current>>
history == <<sent, repeated, unmarked, raced>>
vars    == <<now, rows, job, payments, failures, history>>

-----------------------------------------------------------------------------
(* A user without a row has periodEnd NULL.                                *)

Subscriptions == [status : {"none", "active", "past_due"}, periodEnd : Mark]
NoSubscription == [status |-> "none", periodEnd |-> NULL]

Records == [user : Users, periodEnd : Int, sanction : SanctionRows]
NoRecord == [user |-> NULL, periodEnd |-> 0, sanction |-> NoSanction]

Fetched == {[user |-> u, periodEnd |-> sub[u].periodEnd, sanction |-> sanction[u]] :
              u \in {v \in Users : sub[v].periodEnd # NULL}}

(* ORDER BY current_period_end_at, id                                      *)
Precedes(r, s) ==
  \/ r.periodEnd < s.periodEnd
  \/ r.periodEnd = s.periodEnd /\ r.user <= s.user

Action(r) == MaintenanceAction(r.periodEnd, runNow, r.sanction)

Key(r) == <<r.user, r.periodEnd, Action(r)>>

InHand(u) == current.user = u \/ \E r \in pending : r.user = u

HasAccess(u) == sub[u].status = "active" /\ sub[u].periodEnd > now

-----------------------------------------------------------------------------
(* Init: users never subscribed, or (Legacy) reminded today of a period    *)
(* that ends in PreExpiryDays, in the row layout of before migration 0017. *)
LegacyEnd == now + PreExpiryDays * TicksPerDay

Init ==
  /\ now \in 0..(TicksPerDay - 1)
  /\ sub = [u \in Users |-> IF u \in Legacy
                             THEN [status |-> "active", periodEnd |-> LegacyEnd]
                             ELSE NoSubscription]
  /\ sanction = [u \in Users |-> IF u \in Legacy
                                  THEN [NoSanction EXCEPT !.forPeriod = LegacyEnd]
                                  ELSE NoSanction]
  /\ pc = "idle" /\ runNow = 0 /\ pending = {} /\ current = NoRecord
  /\ payments = [u \in Users |-> 0]
  /\ failures = 0
  /\ sent = {<<u, LegacyEnd, PreExpiry(PreExpiryDays)>> : u \in Legacy}
  /\ repeated = {} /\ unmarked = {} /\ raced = {}

Tick ==
  /\ now < Horizon
  /\ now' = now + 1
  /\ UNCHANGED <<rows, job, payments, failures, history>>

(* apply_midtrans_webhook for a paid order: a live period is extended, a   *)
(* lapsed or missing one starts afresh, and the sanction is resolved.      *)
Extended(end) == (IF end # NULL /\ end > now THEN end ELSE now) + PeriodTicks

PayWebhook(u) ==
  /\ payments[u] < MaxPayments
  /\ payments' = [payments EXCEPT ![u] = @ + 1]
  /\ sub' = [sub EXCEPT ![u] = [status |-> "active",
                                periodEnd |-> Extended(@.periodEnd)]]
  /\ sanction' = [sanction EXCEPT ![u] = ResolvedSanction(@)]
  /\ raced' = IF InHand(u) THEN raced \cup {u} ELSE raced \ {u}
  /\ UNCHANGED <<now, job, failures, sent, repeated, unmarked>>

-----------------------------------------------------------------------------
(* One run of the job.                                                     *)

StartRun ==
  /\ pc = "idle"
  /\ pc' = "fetch"
  /\ runNow' = now
  /\ UNCHANGED <<now, rows, pending, current, payments, failures, history>>

FetchRecords ==
  /\ pc = "fetch"
  /\ pc' = "next"
  /\ pending' = Fetched
  /\ UNCHANGED <<now, rows, runNow, current, payments, failures, history>>

(* Mutant: withdrawal is marked without set_subscription_status.           *)
FirstStepNoPastDue(kind) ==
  IF kind \in Reminders THEN "send"
  ELSE IF kind = "withdrawal" THEN "upsert"
  ELSE "next"

(* Where a record's action sends the job next.                             *)
FirstStep(kind) ==
  IF kind \in Reminders THEN "send"
  ELSE IF kind = "withdrawal" THEN "status"
  ELSE "next"

NextRecord ==
  /\ pc = "next"
  /\ \E r \in pending :
       /\ \A s \in pending : Precedes(r, s)
       /\ pending' = pending \ {r}
       /\ pc' = FirstStep(Action(r).kind)
       /\ current' = IF Action(r) = Nothing THEN NoRecord ELSE r
  /\ UNCHANGED <<now, rows, runNow, payments, failures, history>>

FinishRun ==
  /\ pc = "next"
  /\ pending = {}
  /\ pc' = "idle"
  /\ runNow' = 0
  /\ UNCHANGED <<now, rows, pending, current, payments, failures, history>>

Deliver ==
  /\ sent' = sent \cup {Key(current)}
  /\ repeated' = IF Key(current) \in sent THEN repeated \cup {Key(current)} ELSE repeated

SendReminder ==
  /\ pc = "send"
  /\ current.user \notin Blocked
  /\ Deliver
  /\ pc' = IF Action(current).kind = "overdue" THEN "status" ELSE "upsert"
  /\ UNCHANGED <<now, rows, runNow, pending, current, payments, failures, unmarked, raced>>

SetPastDue ==
  /\ pc = "status"
  /\ pc' = "upsert"
  /\ sub' = [sub EXCEPT ![current.user].status = "past_due"]
  /\ UNCHANGED <<now, sanction, runNow, pending, current, payments, failures, history>>

(* Mutant: mark_withdrawal passes no fine on.                              *)
MarkedWithoutFine(s, r) ==
  LET end == r.periodEnd
      a   == Action(r)
      keptPreDay == IF r.sanction.forPeriod = end THEN r.sanction.preDay ELSE NULL
  IN IF a.kind = "overdue"
     THEN UpsertedSanction(s, end, keptPreDay, a.day, FineFor(a.day), FALSE)
     ELSE IF a.kind = "withdrawal"
     THEN UpsertedSanction(s, end, keptPreDay, a.day, 0, TRUE)
     ELSE UpsertedSanction(s, end, a.day, NULL, 0, FALSE)

(* The three mark functions end in upsert_sanction_state with these values.*)
Marked(s, r) ==
  LET end == r.periodEnd
      a   == Action(r)
      keptPreDay == IF r.sanction.forPeriod = end THEN r.sanction.preDay ELSE NULL
  IN IF a.kind \in {"overdue", "withdrawal"}
     THEN UpsertedSanction(s, end, keptPreDay, a.day, FineFor(a.day), a.kind = "withdrawal")
     ELSE UpsertedSanction(s, end, a.day, NULL, 0, FALSE)

UpsertSanction ==
  /\ pc = "upsert"
  /\ pc' = "next"
  /\ sanction' = [sanction EXCEPT ![current.user] = Marked(@, current)]
  /\ current' = NoRecord
  /\ UNCHANGED <<now, sub, runNow, pending, payments, failures, history>>

-----------------------------------------------------------------------------
(* How a run ends early: the oneshot process exits and the snapshot is     *)
(* gone.                                                                   *)

Abort ==
  /\ pc' = "idle"
  /\ runNow' = 0
  /\ pending' = {}
  /\ current' = NoRecord
  /\ UNCHANGED <<now, rows, payments>>

SendRefused ==
  /\ pc = "send"
  /\ current.user \in Blocked
  /\ Abort
  /\ UNCHANGED <<failures, history>>

(* Telegram took the message but its answer was lost.                      *)
SendAnswerLost ==
  /\ pc = "send"
  /\ current.user \notin Blocked
  /\ failures < MaxFailures
  /\ failures' = failures + 1
  /\ Deliver
  /\ unmarked' = unmarked \cup {Key(current)}
  /\ Abort
  /\ UNCHANGED raced

(* A failed statement, a failed send, or the process killed.               *)
RunDies ==
  /\ pc # "idle"
  /\ failures < MaxFailures
  /\ failures' = failures + 1
  /\ unmarked' = IF pc \in {"status", "upsert"} /\ Key(current) \in sent
                 THEN unmarked \cup {Key(current)} ELSE unmarked
  /\ Abort
  /\ UNCHANGED <<sent, repeated, raced>>

JobStep == \/ FetchRecords \/ NextRecord \/ FinishRun
           \/ SendReminder \/ SendRefused \/ SetPastDue \/ UpsertSanction

Next == \/ Tick
        \/ \E u \in Users : PayWebhook(u)
        \/ StartRun \/ JobStep
        \/ SendAnswerLost \/ RunDies

Spec == Init /\ [][Next]_vars

(* The timer starts a run every day and a running process keeps going; the *)
(* clock advances.  Nobody is obliged to pay, and failures are not fair.   *)
FairSpec == Spec /\ WF_vars(Tick) /\ WF_vars(StartRun) /\ WF_vars(JobStep)

-----------------------------------------------------------------------------
(* Types of the variables.                                                 *)
TypeOK ==
  /\ now \in Nat
  /\ sub \in [Users -> Subscriptions]
  /\ sanction \in [Users -> SanctionRows]
  /\ pc \in {"idle", "fetch", "next", "send", "status", "upsert"}
  /\ runNow \in Nat
  /\ pending \in SUBSET Records
  /\ current \in Records \cup {NoRecord}
  /\ payments \in [Users -> Nat]
  /\ failures \in Nat
  /\ repeated \subseteq sent
  /\ raced \subseteq Users

(* The columns of a sanction row agree although three functions and the    *)
(* webhook write them in part, from snapshots: the fine is the one of the  *)
(* overdue day on record, and only an overdue day beyond the last fined    *)
(* one carries the withdrawal flag (upsert_sanction_state keeps the old    *)
(* day where the new one is NULL, but always overwrites fine and flag).    *)
SanctionConsistent ==
  \A u \in Users :
    LET s == sanction[u]
    IN IF s.overdueDay = NULL
       THEN s.fine = 0 /\ ~s.withdrawal
       ELSE /\ s.fine = FineFor(s.overdueDay)
            /\ s.withdrawal <=> s.overdueDay > MaxFineDays

(* While the row speaks of the period in force, the fine on record is      *)
(* never more than what build_subscription_payment_quote charges now, and  *)
(* withdrawal is not asked for before the last fined day has passed.       *)
FineWithinQuote ==
  \A u \in Users :
    sub[u].periodEnd # NULL /\ sanction[u].forPeriod = sub[u].periodEnd =>
      /\ sanction[u].fine <= FineFor(OverdueDays(sub[u].periodEnd, now))
      /\ sanction[u].withdrawal => OverdueDays(sub[u].periodEnd, now) > MaxFineDays

(* A user inside a paid period is past_due or fined only when the payment  *)
(* landed while a run of the job held an older record of that user: the    *)
(* unconditional set_subscription_status and upsert are the only culprits. *)
OnlyStaleRecordsPunish ==
  \A u \in Users :
    /\ sub[u].periodEnd # NULL
    /\ DaysUntilExpiry(sub[u].periodEnd, now) >= 0
    /\ u \notin raced
    => sub[u].status = "active" /\ sanction[u].fine = 0 /\ ~sanction[u].withdrawal

(* A reminder (user, period, kind, day) is delivered again only when a run *)
(* died between its delivery and its mark.                                 *)
RepeatsOnlyIfUnmarked == repeated \subseteq unmarked

(* GET /api/subscriptions says "reminder not sent" exactly for the         *)
(* subscriptions to which a run that started now would send one.           *)
ApiAgreesWithJob ==
  \A u \in Users :
    sub[u].periodEnd # NULL =>
      LET end == sub[u].periodEnd
      IN (MaintenanceAction(end, now, sanction[u]).kind \in Reminders)
           <=> (ReminderSent(end, now, sanction[u]) = FALSE)

(* Nothing but a payment or a new period takes back a fine or a withdrawal *)
(* flag: no later run of the job lowers what an earlier one recorded.      *)
NoLeniencyWithoutPayment ==
  [][\A u \in Users :
       \/ sanction'[u].forPeriod # sanction[u].forPeriod
       \/ payments'[u] # payments[u]
       \/ /\ sanction'[u].fine >= sanction[u].fine
          /\ sanction[u].withdrawal => sanction'[u].withdrawal]_vars

Lapsed(u) == sub[u].periodEnd # NULL /\ OverdueDays(sub[u].periodEnd, now) > 0

(* "subscription status moves to past_due after expiry" (README): a lapsed *)
(* subscription is eventually past_due or renewed, whatever runs died on   *)
(* the way.  A user whose payment met a run in progress is left out: a     *)
(* stale withdrawal flag can make every later run pass that row over.      *)
LapsedBecomesPastDue ==
  \A u \in Users :
    Lapsed(u) ~> (sub[u].status = "past_due" \/ ~Lapsed(u) \/ u \in raced)

(* The converse half of that sentence: past_due means expired.             *)
PastDueOnlyAfterExpiry ==
  \A u \in Users : sub[u].status = "past_due" => sub[u].periodEnd <= now
=============================================================================
