--------------------------- MODULE MidtransPayments ---------------------------
(***************************************************************************)
(* The payment path: the bot's Subscribe button creates a pending order    *)
(* and a Midtrans Snap transaction (src/bot.rs, src/midtrans.rs), Midtrans *)
(* notifies POST /api/midtrans/webhook, possibly again and again and in    *)
(* any order (src/api.rs), and concurrent webhook handlers credit the      *)
(* order in a transaction with row locks (src/midtrans.rs).                *)
(*                                                                         *)
(* PostgreSQL runs the transactions at READ COMMITTED.  Every branch of a  *)
(* handler that commits right after its SELECT ... FOR UPDATE is one step; *)
(* the branch that credits holds its locks over several.                   *)
(***************************************************************************)
EXTENDS Integers, FiniteSets

CONSTANTS
  NULL,
  Users,         \* each bound to a device of its own (telegram_users.bound_imei UNIQUE)
  Registered,    \* users who already have a row in telegram_subscriptions
  Orders,        \* bound: order ids the bot may use
  Handlers,      \* bound: webhook requests in progress at a time
  PeriodTicks,   \* MIDTRANS_PERIOD_DAYS
  Horizon,       \* bound: the clock stops here
  MaxFailures    \* bound: webhook requests that fail

ASSUME PaymentsAssumption ==
  /\ NULL \notin Int /\ NULL \notin Users /\ NULL \notin Handlers
  /\ Registered \subseteq Users
  /\ PeriodTicks \in Nat \ {0}
  /\ Horizon \in Nat
  /\ MaxFailures \in Nat

VARIABLES
  now,        \* Utc::now()
  orders,     \* telegram_payment_events, by order id
  periodEnd,  \* telegram_subscriptions.current_period_end_at, NULL: no row
  bot,        \* the Subscribe callback being handled, if any
  charge,     \* Midtrans' own state of an order
  due,        \* notifications Midtrans has not seen answered with 200
  handler,    \* webhook requests in progress
  orderLock,  \* who holds the row of an order FOR UPDATE
  userLock,   \* who holds the subscription row (or the key of one being inserted)
  failures,   \* webhook requests that failed so far
  credits,    \* history: transactions that credited an order
  told        \* history: payment success messages delivered

locks   == <<orderLock, userLock>>
history == <<credits, told>>
vars    == <<now, orders, periodEnd, bot, charge, due, handler, locks, failures, history>>

-----------------------------------------------------------------------------
Statuses == {"pending", "paid", "expired", "failed", "refunded"}

NoOrder  == [user |-> NULL, status |-> "absent", shipment |-> FALSE, paidAt |-> NULL]
OrderRows ==
  {NoOrder} \cup [user : Users, status : Statuses, shipment : BOOLEAN,
                  paidAt : Int \cup {NULL}]

(* A notification, its transaction_status already mapped; full says that   *)
(* its gross_amount is not below the one stored with the order.            *)
Notes == [order : Orders, status : Statuses, full : BOOLEAN]
Note(o, s) == [order |-> o, status |-> s, full |-> TRUE]

BotIdle  == [step |-> "idle", user |-> NULL, shipment |-> FALSE, order |-> NULL]
Idle     == [step |-> "idle", note |-> NULL, received |-> 0, end |-> NULL]

Exists(u) == periodEnd[u] # NULL

PaidOrders(u) == {o \in Orders : orders[o].user = u /\ orders[o].status = "paid"}

At(h, step) == handler[h].step = step
Row(h)  == orders[handler[h].note.order]
User(h) == Row(h).user

Init ==
  /\ now = 0
  /\ orders = [o \in Orders |-> NoOrder]
  /\ periodEnd = [u \in Users |-> IF u \in Registered THEN 0 ELSE NULL]
  /\ bot = BotIdle
  /\ charge = [o \in Orders |-> "none"]
  /\ due = {}
  /\ handler = [h \in Handlers |-> Idle]
  /\ orderLock = [o \in Orders |-> NULL]
  /\ userLock = [u \in Users |-> NULL]
  /\ failures = 0
  /\ credits = [o \in Orders |-> 0]
  /\ told = [o \in Orders |-> 0]

Tick ==
  /\ now < Horizon
  /\ now' = now + 1
  /\ UNCHANGED <<orders, periodEnd, bot, charge, due, handler, locks, failures, history>>

-----------------------------------------------------------------------------
(* The bot: one update at a time.  What follows the Snap transaction (the  *)
(* link stored and sent) leaves this state alone; when it fails, or Snap   *)
(* does, Telegram's update is handled again and makes another order.       *)

(* build_subscription_payment_quote: is the shipment fee still to be paid? *)
Subscribe(u) ==
  /\ bot = BotIdle
  /\ bot' = [BotIdle EXCEPT !.step = "quoted", !.user = u,
                            !.shipment = (PaidOrders(u) = {})]
  /\ UNCHANGED <<now, orders, periodEnd, charge, due, handler, locks, failures, history>>

InsertPending(o) ==
  /\ bot.step = "quoted"
  /\ orders[o] = NoOrder
  /\ orders' = [orders EXCEPT ![o] = [user |-> bot.user, status |-> "pending",
                                      shipment |-> bot.shipment, paidAt |-> NULL]]
  /\ bot' = [bot EXCEPT !.step = "inserted", !.order = o]
  /\ UNCHANGED <<now, periodEnd, charge, due, handler, locks, failures, history>>

(* Mutant: storing the link also gives the order a status of its own.      *)
SnapAcceptedNewStatus ==
  /\ bot.step = "inserted"
  /\ charge' = [charge EXCEPT ![bot.order] = "open"]
  /\ orders' = [orders EXCEPT ![bot.order].status = "created"]
  /\ bot' = BotIdle
  /\ UNCHANGED <<now, periodEnd, due, handler, locks, failures, history>>

SnapAccepted ==
  /\ bot.step = "inserted"
  /\ charge' = [charge EXCEPT ![bot.order] = "open"]
  /\ bot' = BotIdle
  /\ UNCHANGED <<now, orders, periodEnd, due, handler, locks, failures, history>>

SnapFails ==
  /\ bot.step = "inserted"
  /\ bot' = BotIdle
  /\ UNCHANGED <<now, orders, periodEnd, charge, due, handler, locks, failures, history>>

-----------------------------------------------------------------------------
(* Midtrans.  An open order may be announced as pending, is settled,       *)
(* expires, is denied or cancelled; a settled one may be refunded.  Each   *)
(* change is notified until the webhook answers 200.                       *)

Charge(o, from, to, notes) ==
  /\ charge[o] = from
  /\ charge' = [charge EXCEPT ![o] = to]
  /\ due' = due \cup notes
  /\ UNCHANGED <<now, orders, periodEnd, bot, handler, locks, failures, history>>

AnnouncePending(o) ==
  /\ Note(o, "pending") \notin due
  /\ Charge(o, "open", "open", {Note(o, "pending")})

Settle(o)   == Charge(o, "open", "settled", {Note(o, "paid")})
Underpay(o) == Charge(o, "open", "underpaid", {[Note(o, "paid") EXCEPT !.full = FALSE]})
Expire(o)   == Charge(o, "open", "closed", {Note(o, "expired")})
Deny(o)     == Charge(o, "open", "closed", {Note(o, "failed")})
Refund(o)   == Charge(o, "settled", "refunded", {Note(o, "refunded")})

-----------------------------------------------------------------------------
(* A webhook request.                                                      *)

Receive(h, n) ==
  /\ At(h, "idle")
  /\ n \in due
  /\ handler' = [handler EXCEPT ![h] = [step |-> "payment", note |-> n,
                                        received |-> now, end |-> NULL]]
  /\ UNCHANGED <<now, orders, periodEnd, bot, charge, due, locks, failures, history>>

Answer(h) ==
  /\ handler' = [handler EXCEPT ![h] = Idle]
  /\ due' = due \ {handler[h].note}

(* Mutant: the order is read without FOR UPDATE.                           *)
OrderReadUnlocked(h) == At(h, "payment")

(* SELECT ... FOR UPDATE of the order waits for its lock.                  *)
OrderFree(h) == At(h, "payment") /\ orderLock[handler[h].note.order] = NULL

(* Mutant: a repeated settlement is reported as paid again.                *)
IgnoreClosedAsPaid(h) ==
  /\ OrderFree(h)
  /\ Row(h).status # "pending"
  /\ IF Row(h).status = "paid"
     THEN handler' = [handler EXCEPT ![h].step = "sticker"] /\ UNCHANGED due
     ELSE Answer(h)
  /\ UNCHANGED <<now, orders, periodEnd, bot, charge, locks, failures, history>>

(* Unknown, paid and closed orders are left as they are.                   *)
IgnoreClosed(h) ==
  /\ OrderFree(h)
  /\ Row(h).status # "pending"
  /\ Answer(h)
  /\ UNCHANGED <<now, orders, periodEnd, bot, charge, locks, failures, history>>

RecordStatus(h) ==
  LET n == handler[h].note
  IN /\ OrderFree(h)
     /\ Row(h).status = "pending"
     /\ n.status # "paid"
     /\ orders' = [orders EXCEPT ![n.order].status = n.status]
     /\ Answer(h)
     /\ UNCHANGED <<now, periodEnd, bot, charge, locks, failures, history>>

IgnoreUnderpaid(h) ==
  /\ OrderFree(h)
  /\ Row(h).status = "pending"
  /\ handler[h].note.status = "paid"
  /\ ~handler[h].note.full
  /\ Answer(h)
  /\ UNCHANGED <<now, orders, periodEnd, bot, charge, locks, failures, history>>

LockOrder(h) ==
  /\ OrderFree(h)
  /\ Row(h).status = "pending"
  /\ handler[h].note.status = "paid"
  /\ handler[h].note.full
  /\ orderLock' = [orderLock EXCEPT ![handler[h].note.order] = h]
  /\ handler' = [handler EXCEPT ![h].step = "subscription"]
  /\ UNCHANGED <<now, orders, periodEnd, bot, charge, due, userLock, failures, history>>

(* Mutant: every payment starts afresh.                                    *)
NewEndFresh(end, received) == received + PeriodTicks

(* A period in force when the request came in is extended; a lapsed or     *)
(* missing one starts when the request came in.                            *)
NewEnd(end, received) ==
  (IF end # NULL /\ end > received THEN end ELSE received) + PeriodTicks

(* Mutant: the subscription is read without FOR UPDATE.                    *)
ReadSubscriptionUnlocked(h) ==
  /\ At(h, "subscription")
  /\ handler' = [handler EXCEPT ![h].step = "upsert",
                                ![h].end = NewEnd(periodEnd[User(h)], handler[h].received)]
  /\ UNCHANGED <<now, orders, periodEnd, bot, charge, due, locks, failures, history>>

(* SELECT ... FOR UPDATE of the subscription: waits for and takes the lock *)
(* of an existing row; a missing row, even one being inserted, locks       *)
(* nothing.                                                                *)
ReadSubscription(h) ==
  /\ At(h, "subscription")
  /\ Exists(User(h)) => userLock[User(h)] = NULL
  /\ userLock' = IF Exists(User(h)) THEN [userLock EXCEPT ![User(h)] = h] ELSE userLock
  /\ handler' = [handler EXCEPT ![h].step = "upsert",
                                ![h].end = NewEnd(periodEnd[User(h)], handler[h].received)]
  /\ UNCHANGED <<now, orders, periodEnd, bot, charge, due, orderLock, failures, history>>

(* INSERT ... ON CONFLICT DO UPDATE waits for another writer of the row or *)
(* of the unique key, and then overwrites.                                 *)
UpsertSubscription(h) ==
  /\ At(h, "upsert")
  /\ userLock[User(h)] \in {NULL, h}
  /\ userLock' = [userLock EXCEPT ![User(h)] = h]
  /\ handler' = [handler EXCEPT ![h].step = "commit"]
  /\ UNCHANGED <<now, orders, periodEnd, bot, charge, due, orderLock, failures, history>>

Unlock(h) ==
  /\ orderLock' = [o \in Orders |-> IF orderLock[o] = h THEN NULL ELSE orderLock[o]]
  /\ userLock'  = [u \in Users  |-> IF userLock[u] = h THEN NULL ELSE userLock[u]]

(* The order is marked paid, the sanction row resolved, and all of it      *)
(* becomes visible.                                                        *)
Commit(h) ==
  LET o == handler[h].note.order
  IN /\ At(h, "commit")
     /\ orders' = [orders EXCEPT ![o].status = "paid", ![o].paidAt = handler[h].received]
     /\ periodEnd' = [periodEnd EXCEPT ![User(h)] = handler[h].end]
     /\ credits' = [credits EXCEPT ![o] = @ + 1]
     /\ handler' = [handler EXCEPT ![h].step = "sticker"]
     /\ Unlock(h)
     /\ UNCHANGED <<now, bot, charge, due, failures, told>>

SendSticker(h) ==
  /\ At(h, "sticker")
  /\ handler' = [handler EXCEPT ![h].step = "message"]
  /\ UNCHANGED <<now, orders, periodEnd, bot, charge, due, locks, failures, history>>

SendMessage(h) ==
  /\ At(h, "message")
  /\ told' = [told EXCEPT ![handler[h].note.order] = @ + 1]
  /\ Answer(h)
  /\ UNCHANGED <<now, orders, periodEnd, bot, charge, locks, failures, credits>>

(* Mutant: a failed request is answered with 200.                          *)
FailAnswered(h) ==
  /\ ~At(h, "idle")
  /\ failures < MaxFailures
  /\ failures' = failures + 1
  /\ Answer(h)
  /\ Unlock(h)
  /\ UNCHANGED <<now, orders, periodEnd, bot, charge, history>>

(* A statement fails, Telegram refuses, or the process dies: the open      *)
(* transaction is rolled back and Midtrans gets no 200.                    *)
Fail(h) ==
  /\ ~At(h, "idle")
  /\ failures < MaxFailures
  /\ failures' = failures + 1
  /\ handler' = [handler EXCEPT ![h] = Idle]
  /\ Unlock(h)
  /\ UNCHANGED <<now, orders, periodEnd, bot, charge, due, history>>

-----------------------------------------------------------------------------
BotStep == \/ \E u \in Users : Subscribe(u)
           \/ \E o \in Orders : InsertPending(o)
           \/ SnapAccepted \/ SnapFails

ProviderStep(o) == \/ AnnouncePending(o) \/ Settle(o) \/ Underpay(o)
                   \/ Expire(o) \/ Deny(o) \/ Refund(o)

HandlerStep(h) == \/ IgnoreClosed(h) \/ RecordStatus(h) \/ IgnoreUnderpaid(h)
                  \/ LockOrder(h) \/ ReadSubscription(h) \/ UpsertSubscription(h)
                  \/ Commit(h) \/ SendSticker(h) \/ SendMessage(h)

Next == \/ Tick
        \/ BotStep
        \/ \E o \in Orders : ProviderStep(o)
        \/ \E h \in Handlers, n \in due : Receive(h, n)
        \/ \E h \in Handlers : HandlerStep(h) \/ Fail(h)

Spec == Init /\ [][Next]_vars

(* Midtrans delivers a notification until it is answered, and a request in *)
(* progress goes on.  Nobody is obliged to subscribe or to pay, and        *)
(* failures are not fair.                                                  *)
FairSpec ==
  /\ Spec
  /\ \A n \in Notes : WF_vars(\E h \in Handlers : Receive(h, n))
  /\ \A h \in Handlers : WF_vars(HandlerStep(h))

-----------------------------------------------------------------------------
Steps == {"idle", "payment", "subscription", "upsert", "commit", "sticker", "message"}

(* Types of the variables.                                                 *)
TypeOK ==
  /\ now \in Nat
  /\ orders \in [Orders -> OrderRows]
  /\ periodEnd \in [Users -> Int \cup {NULL}]
  /\ bot \in [step : {"idle", "quoted", "inserted"}, user : Users \cup {NULL},
              shipment : BOOLEAN, order : Orders \cup {NULL}]
  /\ charge \in [Orders -> {"none", "open", "settled", "underpaid", "closed", "refunded"}]
  /\ due \in SUBSET Notes
  /\ handler \in [Handlers -> [step : Steps, note : Notes \cup {NULL},
                               received : Int, end : Int \cup {NULL}]]
  /\ orderLock \in [Orders -> Handlers \cup {NULL}]
  /\ userLock \in [Users -> Handlers \cup {NULL}]
  /\ failures \in Nat
  /\ credits \in [Orders -> Nat]
  /\ told \in [Orders -> Nat]

(* However often Midtrans repeats a settlement, and to however many        *)
(* handlers at once, an order is credited by exactly one transaction, the  *)
(* one that marks it paid.                                                 *)
CreditedOnce ==
  \A o \in Orders : credits[o] = IF orders[o].status = "paid" THEN 1 ELSE 0

(* A success message is sent at most once, and only for a paid order.      *)
ToldOnlyIfPaid ==
  \A o \in Orders : told[o] <= credits[o] /\ told[o] <= 1

(* A paid order keeps what it bought: no other payment, whatever the order *)
(* their transactions commit in, leaves its user with less than one period *)
(* from the moment the settlement was received.                            *)
PaidPeriodStands ==
  \A o \in Orders :
    orders[o].status = "paid" =>
      periodEnd[orders[o].user] >= orders[o].paidAt + PeriodTicks

(* The payment path implements the ledger it promises.                     *)
Ledger ==
  INSTANCE PaymentLedger
    WITH order <- [o \in Orders |-> [user |-> orders[o].user, status |-> orders[o].status]],
         end <- periodEnd

ImplementsLedger == Ledger!Spec

(* Money that arrives is worth something: a settled order becomes paid,    *)
(* whatever requests fail on the way, unless it is refunded.               *)
SettledIsCredited ==
  \A o \in Orders :
    charge[o] = "settled" ~> (orders[o].status = "paid" \/ charge[o] = "refunded")

-----------------------------------------------------------------------------
(* "second payment should extend subscription" (test in src/bot.rs): a     *)
(* payment ends its user's period at least one period later than before.   *)
SecondPaymentExtends ==
  [][\A u \in Users :
       Exists(u) /\ periodEnd'[u] # periodEnd[u] =>
         periodEnd'[u] >= periodEnd[u] + PeriodTicks]_vars
=============================================================================
