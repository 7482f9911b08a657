------------------------ MODULE MidtransPaymentsProofs ------------------------
(***************************************************************************)
(* Theorems about MidtransPayments, for any users, orders, number of       *)
(* concurrent webhook requests, and any repetition and order of            *)
(* notifications.                                                          *)
(***************************************************************************)
EXTENDS MidtransPayments, TLAPS

Rows == [user : Users, status : Statuses, shipment : BOOLEAN, paidAt : Int \cup {NULL}]

Working(h) == handler[h].step \in {"subscription", "upsert", "commit"}
Telling(h) == handler[h].step \in {"sticker", "message"}

(* A request in progress has a notification; one that works on an order    *)
(* holds its lock, and the order is pending; one about to write a period   *)
(* end has computed it.  The bot knows what it works for.                  *)
InHand ==
  /\ \A h \in Handlers :
       /\ handler[h].step # "idle" => handler[h].note \in Notes
       /\ Working(h) => orderLock[handler[h].note.order] = h /\ Row(h).status = "pending"
       /\ handler[h].step \in {"upsert", "commit"} => handler[h].end \in Int
  /\ bot.step # "idle" => bot.user \in Users
  /\ bot.step = "inserted" => bot.order \in Orders

HandlerRecords ==
  [step : Steps, note : Notes \cup {NULL}, received : Int, end : Int \cup {NULL}]

TypeInv == TypeOK /\ InHand

LEMMA RowFacts ==
  /\ NoOrder \notin Rows
  /\ OrderRows = {NoOrder} \cup Rows
  /\ \A r \in OrderRows : r.status # "absent" => r \in Rows
  /\ \A r \in OrderRows : r.status = "absent" => r = NoOrder
  BY DEF NoOrder, OrderRows, Rows, Statuses

LEMMA NewEndFacts ==
  ASSUME NEW e \in Int \cup {NULL}, NEW t \in Int
  PROVE  /\ NewEnd(e, t) \in Int
         /\ NewEnd(e, t) >= t + PeriodTicks
         /\ e \in Int => NewEnd(e, t) >= e + PeriodTicks
  <1>1. PeriodTicks \in Int /\ NULL \notin Int
    BY PaymentsAssumption DEF PaymentsAssumption
  <1>2. CASE e \in Int
    BY <1>1, <1>2 DEF NewEnd
  <1>3. CASE e = NULL
    BY <1>1, <1>3 DEF NewEnd
  <1>4. QED
    BY <1>2, <1>3

LEMMA InitTypeInv == Init => TypeInv
  <1> SUFFICES ASSUME Init PROVE TypeInv
    OBVIOUS
  <1>1. TypeOK
    BY DEF Init, TypeOK, OrderRows, BotIdle, Idle, Steps
  <1>2. InHand
    BY DEF Init, InHand, BotIdle, Idle, Working
  <1>3. QED
    BY <1>1, <1>2 DEF TypeInv

(* What a request that works on an order has in hand.                      *)
LEMMA WorkingFacts ==
  ASSUME TypeInv, NEW h \in Handlers, Working(h)
  PROVE  /\ handler[h].note \in Notes /\ handler[h].note.order \in Orders
         /\ Row(h) \in Rows /\ User(h) \in Users
         /\ handler[h].received \in Int
  <1>1. handler[h].note \in Notes /\ handler[h].received \in Int
    BY DEF TypeInv, TypeOK, InHand, Working
  <1>2. handler[h].note.order \in Orders
    BY <1>1 DEF Notes
  <1>3. Row(h) \in OrderRows /\ Row(h).status = "pending"
    BY <1>2 DEF TypeInv, TypeOK, InHand, Row
  <1>4. Row(h) \in Rows
    BY <1>3, RowFacts
  <1>5. QED
    BY <1>1, <1>2, <1>4 DEF User, Rows

(* The end of a request: its handler is idle again and holds no lock.      *)
LEMMA Released ==
  ASSUME TypeInv, NEW h \in Handlers, handler' = [handler EXCEPT ![h] = Idle],
         UNCHANGED orders,
         UNCHANGED orderLock \/ Unlock(h)
  PROVE  /\ handler' \in [Handlers -> HandlerRecords]
         /\ \A g \in Handlers :
              /\ handler'[g].step # "idle" => handler'[g].note \in Notes
              /\ Working(g)' => orderLock'[handler'[g].note.order] = g /\ (Row(g).status)' = "pending"
              /\ handler'[g].step \in {"upsert", "commit"} => handler'[g].end \in Int
  <1>1. Idle \in HandlerRecords
    BY DEF Idle, HandlerRecords, Steps
  <1>2. handler' \in [Handlers -> HandlerRecords]
    BY <1>1 DEF TypeInv, TypeOK, HandlerRecords
  <1>3. ASSUME NEW g \in Handlers, g # h PROVE
              /\ handler'[g] = handler[g]
              /\ Working(g) => orderLock'[handler[g].note.order] = g /\ (Row(g).status)' = "pending"
    <2>1. handler'[g] = handler[g]
      BY <1>3 DEF TypeInv, TypeOK
    <2>2. ASSUME Working(g) PROVE orderLock'[handler[g].note.order] = g
      <3>1. handler[g].note.order \in Orders /\ orderLock[handler[g].note.order] = g
        BY <2>2, WorkingFacts DEF TypeInv, InHand
      <3>2. QED
        BY <1>3, <3>1 DEF Unlock
    <2>3. QED
      BY <2>1, <2>2 DEF TypeInv, InHand, Row
  <1>4. handler'[h] = Idle /\ Idle.step = "idle"
    BY DEF TypeInv, TypeOK, Idle
  <1>5. QED
    BY <1>2, <1>3, <1>4 DEF TypeInv, InHand, Working

LEMMA NextTypeInv == TypeInv /\ [Next]_vars => TypeInv'
  <1> SUFFICES ASSUME TypeInv, [Next]_vars PROVE TypeInv'
    OBVIOUS
  <1> USE DEF locks, history
  <1>1. CASE Tick
    BY <1>1 DEF Tick, TypeInv, TypeOK, InHand, Working, Row
  <1>2. CASE BotStep
    <2>1. UNCHANGED <<handler, locks>>
      BY <1>2 DEF BotStep, Subscribe, InsertPending, SnapAccepted, SnapFails
    <2>2. ASSUME NEW h \in Handlers, Working(h) PROVE (Row(h).status)' = "pending"
      <3>1. handler[h].note.order \in Orders /\ orders[handler[h].note.order].status = "pending"
        BY <2>2, WorkingFacts DEF TypeInv, InHand, Row
      <3>2. UNCHANGED orders \/ \E o \in Orders : InsertPending(o)
        BY <1>2 DEF BotStep, Subscribe, SnapAccepted, SnapFails
      <3>3. ASSUME NEW o \in Orders, InsertPending(o)
            PROVE  orders'[handler[h].note.order].status = "pending"
        <4>1. orders[o].status = "absent"
          BY <3>3 DEF InsertPending, NoOrder
        <4>2. handler[h].note.order # o
          BY <3>1, <4>1
        <4>3. QED
          BY <3>1, <3>3, <4>2 DEF InsertPending, TypeInv, TypeOK
      <3>4. orders'[handler[h].note.order].status = "pending"
        BY <3>1, <3>2, <3>3
      <3>5. QED
        BY <2>1, <3>4 DEF Row
    <2>3. ASSUME NEW u \in Users, Subscribe(u) PROVE TypeInv'
      <3>1. bot' = [step |-> "quoted", user |-> u, shipment |-> (PaidOrders(u) = {}), order |-> NULL]
        BY <2>3 DEF Subscribe, BotIdle
      <3>2. (PaidOrders(u) = {}) \in BOOLEAN
        OBVIOUS
      <3> HIDE DEF PaidOrders
      <3>3. TypeOK'
        BY <2>1, <2>3, <3>1, <3>2 DEF Subscribe, TypeInv, TypeOK
      <3>4. InHand'
        BY <2>1, <2>2, <2>3, <3>1 DEF Subscribe, TypeInv, InHand, Working
      <3>5. QED
        BY <3>3, <3>4 DEF TypeInv
    <2>4. ASSUME NEW o \in Orders, InsertPending(o) PROVE TypeInv'
      <3>1. orders' \in [Orders -> OrderRows]
        BY <2>4 DEF InsertPending, OrderRows, Statuses, TypeInv, TypeOK, InHand
      <3>2. QED
        BY <2>1, <2>2, <2>4, <3>1 DEF InsertPending, TypeInv, TypeOK, InHand, Working
    <2>5. CASE SnapAccepted
      BY <2>1, <2>2, <2>5 DEF SnapAccepted, BotIdle, TypeInv, TypeOK, InHand, Working
    <2>6. CASE SnapFails
      BY <2>1, <2>2, <2>6 DEF SnapFails, BotIdle, TypeInv, TypeOK, InHand, Working
    <2>7. QED
      BY <1>2, <2>3, <2>4, <2>5, <2>6 DEF BotStep
  <1>3. ASSUME NEW o \in Orders, ProviderStep(o) PROVE TypeInv'
    <2>1. \A s \in Statuses : Note(o, s) \in Notes /\ [Note(o, s) EXCEPT !.full = FALSE] \in Notes
      BY DEF Note, Notes
    <2>2. ASSUME NEW from, NEW to \in {"open", "settled", "underpaid", "closed", "refunded"},
                 NEW n \in Notes, Charge(o, from, to, {n})
          PROVE  due' \in SUBSET Notes
                 /\ charge' \in [Orders -> {"none", "open", "settled", "underpaid", "closed", "refunded"}]
      BY <2>2 DEF Charge, TypeInv, TypeOK
    <2>3. \E from, to \in {"open", "settled", "underpaid", "closed", "refunded"}, n \in Notes :
            Charge(o, from, to, {n})
      <3>1. CASE AnnouncePending(o)
        BY <2>1, <3>1 DEF AnnouncePending, Statuses
      <3>2. CASE Settle(o)
        BY <2>1, <3>2 DEF Settle, Statuses
      <3>3. CASE Underpay(o)
        BY <2>1, <3>3 DEF Underpay, Statuses
      <3>4. CASE Expire(o) \/ Deny(o)
        BY <2>1, <3>4 DEF Expire, Deny, Statuses
      <3>5. CASE Refund(o)
        BY <2>1, <3>5 DEF Refund, Statuses
      <3>6. QED
        BY <1>3, <3>1, <3>2, <3>3, <3>4, <3>5 DEF ProviderStep
    <2>4. UNCHANGED <<now, orders, periodEnd, bot, handler, locks, failures, history>>
      BY <2>3 DEF Charge
    <2>5. due' \in SUBSET Notes
          /\ charge' \in [Orders -> {"none", "open", "settled", "underpaid", "closed", "refunded"}]
      BY <2>2, <2>3
    <2>6. TypeOK'
      BY <2>4, <2>5 DEF TypeInv, TypeOK
    <2>7. InHand'
      BY <2>4 DEF TypeInv, InHand, Working, Row
    <2>8. QED
      BY <2>6, <2>7 DEF TypeInv
  <1>4. ASSUME NEW h \in Handlers, NEW n \in due, Receive(h, n) PROVE TypeInv'
    <2>1. [step |-> "payment", note |-> n, received |-> now, end |-> NULL] \in HandlerRecords
      BY DEF TypeInv, TypeOK, HandlerRecords, Steps
    <2>2. handler' \in [Handlers -> HandlerRecords]
      BY <1>4, <2>1 DEF Receive, TypeInv, TypeOK, HandlerRecords
    <2>3. QED
      BY <1>4, <2>2 DEF Receive, TypeInv, TypeOK, InHand, Working, Row, HandlerRecords
  <1>5. ASSUME NEW h \in Handlers, HandlerStep(h) PROVE TypeInv'
    <2>1. Answer(h) => due' \in SUBSET Notes /\ handler' = [handler EXCEPT ![h] = Idle]
      BY DEF Answer, TypeInv, TypeOK
    <2>2. CASE IgnoreClosed(h) \/ IgnoreUnderpaid(h)
      <3>1. Answer(h) /\ UNCHANGED <<now, orders, periodEnd, bot, charge, locks, failures, history>>
        BY <2>2 DEF IgnoreClosed, IgnoreUnderpaid
      <3>2. QED
        BY <2>1, <3>1, Released DEF TypeInv, TypeOK, InHand, HandlerRecords
    <2>3. CASE RecordStatus(h)
      <3> DEFINE n == handler[h].note
      <3>1. n \in Notes /\ n.order \in Orders /\ n.status \in Statuses
        BY <2>3 DEF RecordStatus, OrderFree, At, TypeInv, InHand, Notes
      <3>2. Row(h) \in Rows
        BY <2>3, <3>1, RowFacts DEF RecordStatus, Row, TypeInv, TypeOK
      <3>3. [Row(h) EXCEPT !.status = n.status] \in OrderRows
        BY <3>1, <3>2, RowFacts DEF Rows
      <3>4. orders' = [orders EXCEPT ![n.order] = [Row(h) EXCEPT !.status = n.status]]
        BY <2>3 DEF RecordStatus, Row
      <3>5. orders' \in [Orders -> OrderRows]
        BY <3>1, <3>3, <3>4 DEF TypeInv, TypeOK
      <3>6. handler' = [handler EXCEPT ![h] = Idle] /\ orderLock[n.order] = NULL /\ UNCHANGED locks
        BY <2>1, <2>3 DEF RecordStatus, OrderFree
      <3>7. ASSUME NEW g \in Handlers, g # h PROVE
               /\ handler'[g] = handler[g]
               /\ Working(g) => orderLock'[handler[g].note.order] = g /\ (Row(g).status)' = "pending"
        <4>1. handler'[g] = handler[g]
          BY <3>6, <3>7 DEF TypeInv, TypeOK
        <4>2. ASSUME Working(g) PROVE orderLock'[handler[g].note.order] = g /\ (Row(g).status)' = "pending"
          <5>1. handler[g].note.order \in Orders /\ orderLock[handler[g].note.order] = g
            BY <4>2, WorkingFacts DEF TypeInv, InHand
          <5>2. g # NULL
            BY PaymentsAssumption DEF PaymentsAssumption
          <5>3. handler[g].note.order # n.order
            BY <3>6, <5>1, <5>2
          <5>4. orders'[handler[g].note.order] = orders[handler[g].note.order]
            BY <3>4, <5>1, <5>3 DEF TypeInv, TypeOK
          <5>5. QED
            BY <3>6, <4>1, <4>2, <5>1, <5>4 DEF TypeInv, InHand, Row
        <4>3. QED
          BY <4>1, <4>2
      <3>8. Idle \in HandlerRecords /\ Idle.step = "idle"
        BY DEF Idle, HandlerRecords, Steps
      <3>9. handler' \in [Handlers -> HandlerRecords] /\ handler'[h] = Idle
        BY <3>6, <3>8 DEF TypeInv, TypeOK, HandlerRecords
      <3>10. TypeOK'
        BY <2>1, <2>3, <3>5, <3>9 DEF RecordStatus, TypeInv, TypeOK, HandlerRecords
      <3>11. InHand'
        BY <2>3, <3>7, <3>8, <3>9 DEF RecordStatus, TypeInv, InHand, Working
      <3>12. QED
        BY <3>10, <3>11 DEF TypeInv
    <2>4. CASE LockOrder(h)
      <3> DEFINE o == handler[h].note.order
      <3>1. handler[h].note \in Notes /\ o \in Orders
        BY <2>4 DEF LockOrder, OrderFree, At, TypeInv, InHand, Notes
      <3>2. orderLock' \in [Orders -> Handlers \cup {NULL}] /\ orderLock'[o] = h
        BY <2>4, <3>1 DEF LockOrder, TypeInv, TypeOK
      <3>3. handler' \in [Handlers -> HandlerRecords] /\ UNCHANGED <<orders, bot>>
            /\ handler'[h].note = handler[h].note /\ handler'[h].step = "subscription"
            /\ \A g \in Handlers \ {h} : handler'[g] = handler[g]
        BY <2>4 DEF LockOrder, TypeInv, TypeOK, HandlerRecords, Steps
      <3>4. ASSUME NEW g \in Handlers, g # h, Working(g)
            PROVE  orderLock'[handler[g].note.order] = g
        <4>1. handler[g].note.order \in Orders /\ orderLock[handler[g].note.order] = g
          BY <3>4, WorkingFacts DEF TypeInv, InHand
        <4>2. g # NULL /\ orderLock[o] = NULL
          BY <2>4, PaymentsAssumption DEF PaymentsAssumption, LockOrder, OrderFree
        <4>3. QED
          BY <2>4, <4>1, <4>2 DEF LockOrder, TypeInv, TypeOK
      <3>5. orders[o].status = "pending"
        BY <2>4 DEF LockOrder, Row
      <3>6. InHand'
        BY <3>1, <3>2, <3>3, <3>4, <3>5 DEF TypeInv, InHand, Working, Row
      <3>7. TypeOK'
        BY <2>4, <3>2, <3>3 DEF LockOrder, TypeInv, TypeOK, HandlerRecords
      <3>8. QED
        BY <3>6, <3>7 DEF TypeInv
    <2>5. CASE ReadSubscription(h)
      <3> DEFINE e == NewEnd(periodEnd[User(h)], handler[h].received)
      <3>1. Working(h)
        BY <2>5 DEF ReadSubscription, At, Working
      <3>2. e \in Int
        BY <3>1, WorkingFacts, NewEndFacts DEF TypeInv, TypeOK
      <3> HIDE DEF e
      <3>3. handler' = [handler EXCEPT ![h].step = "upsert", ![h].end = e]
        BY <2>5 DEF ReadSubscription, e
      <3> DEFINE w == [handler[h] EXCEPT !.step = "upsert", !.end = e]
      <3>10. handler[h] \in HandlerRecords
        BY DEF TypeInv, TypeOK, HandlerRecords
      <3>11. w \in HandlerRecords /\ w.step = "upsert" /\ w.note = handler[h].note /\ w.end = e
        BY <3>2, <3>10 DEF HandlerRecords, Steps
      <3>12. handler' = [handler EXCEPT ![h] = w]
        BY <3>3 DEF TypeInv, TypeOK
      <3> HIDE DEF w
      <3>4. handler' \in [Handlers -> HandlerRecords]
        BY <3>11, <3>12 DEF TypeInv, TypeOK, HandlerRecords
      <3>5. userLock' \in [Users -> Handlers \cup {NULL}]
        BY <2>5 DEF ReadSubscription, TypeInv, TypeOK
      <3>6. TypeOK'
        BY <2>5, <3>4, <3>5 DEF ReadSubscription, TypeInv, TypeOK, HandlerRecords
      <3>7. /\ handler'[h].step = "upsert" /\ handler'[h].note = handler[h].note
            /\ handler'[h].end = e
            /\ \A g \in Handlers \ {h} : handler'[g] = handler[g]
        BY <3>11, <3>12 DEF TypeInv, TypeOK
      <3>8. InHand'
        <4>1. UNCHANGED <<orders, orderLock, bot>>
          BY <2>5 DEF ReadSubscription
        <4>2. handler[h].note \in Notes /\ orderLock[handler[h].note.order] = h
              /\ orders[handler[h].note.order].status = "pending"
          BY <3>1, WorkingFacts DEF TypeInv, InHand, Row
        <4>3. QED
          BY <3>2, <3>7, <4>1, <4>2 DEF TypeInv, InHand, Working, Row
      <3>9. QED
        BY <3>6, <3>8 DEF TypeInv
    <2>6. CASE UpsertSubscription(h)
      <3>1. handler[h].step = "upsert"
        BY <2>6 DEF UpsertSubscription, At
      <3>2. handler' \in [Handlers -> HandlerRecords]
        BY <2>6 DEF UpsertSubscription, TypeInv, TypeOK, HandlerRecords, Steps
      <3>3. TypeOK'
        BY <2>6, <3>2 DEF UpsertSubscription, TypeInv, TypeOK, HandlerRecords
      <3>4. /\ handler'[h].note = handler[h].note /\ handler'[h].end = handler[h].end
            /\ \A g \in Handlers \ {h} : handler'[g] = handler[g]
        BY <2>6 DEF UpsertSubscription, TypeInv, TypeOK
      <3>5. InHand'
        BY <2>6, <3>1, <3>4 DEF UpsertSubscription, TypeInv, InHand, Working, Row
      <3>6. QED
        BY <3>3, <3>5 DEF TypeInv
    <2>7. CASE Commit(h)
      <3> DEFINE o == handler[h].note.order
                 row == [Row(h) EXCEPT !.status = "paid", !.paidAt = handler[h].received]
      <3>1. Working(h) /\ handler[h].step = "commit"
        BY <2>7 DEF Commit, At, Working
      <3>2. o \in Orders /\ Row(h) \in Rows /\ User(h) \in Users /\ handler[h].received \in Int
            /\ handler[h].note \in Notes /\ orderLock[o] = h
        BY <3>1, WorkingFacts DEF TypeInv, InHand
      <3>3. row \in OrderRows
        BY <3>2, RowFacts DEF Rows, Statuses
      <3>4. orders' = [orders EXCEPT ![o] = row]
        BY <2>7, <3>2 DEF Commit, Row, TypeInv, TypeOK
      <3>5. orders' \in [Orders -> OrderRows]
        BY <3>2, <3>3, <3>4 DEF TypeInv, TypeOK
      <3>6. periodEnd' \in [Users -> Int \cup {NULL}] /\ credits' \in [Orders -> Nat]
        BY <2>7, <3>1, <3>2 DEF Commit, TypeInv, TypeOK, InHand
      <3>7. /\ orderLock' \in [Orders -> Handlers \cup {NULL}]
            /\ userLock' \in [Users -> Handlers \cup {NULL}]
        BY <2>7 DEF Commit, Unlock, TypeInv, TypeOK
      <3>8. /\ handler' \in [Handlers -> HandlerRecords]
            /\ handler'[h].step = "sticker" /\ handler'[h].note = handler[h].note
            /\ \A g \in Handlers \ {h} : handler'[g] = handler[g]
        BY <2>7 DEF Commit, TypeInv, TypeOK, HandlerRecords, Steps
      <3>9. TypeOK'
        BY <2>7, <3>5, <3>6, <3>7, <3>8 DEF Commit, TypeInv, TypeOK, HandlerRecords
      <3>10. ASSUME NEW g \in Handlers, g # h, Working(g)
             PROVE  orderLock'[handler[g].note.order] = g /\ (Row(g).status)' = "pending"
        <4>1. /\ handler[g].note.order \in Orders /\ orderLock[handler[g].note.order] = g
              /\ orders[handler[g].note.order].status = "pending"
          BY <3>10, WorkingFacts DEF TypeInv, InHand, Row
        <4>2. handler[g].note.order # o
          BY <3>2, <3>10, <4>1
        <4>3. orders'[handler[g].note.order].status = "pending"
          BY <3>4, <4>1, <4>2 DEF TypeInv, TypeOK
        <4>4. orderLock'[handler[g].note.order] = g
          BY <2>7, <3>10, <4>1 DEF Commit, Unlock
        <4>5. QED
          BY <3>8, <3>10, <4>3, <4>4 DEF Row
      <3>11. InHand'
        BY <2>7, <3>2, <3>8, <3>10 DEF Commit, TypeInv, InHand, Working
      <3>12. QED
        BY <3>9, <3>11 DEF TypeInv
    <2>8. CASE SendSticker(h)
      <3>1. handler' \in [Handlers -> HandlerRecords] /\ handler[h].step = "sticker"
        BY <2>8 DEF SendSticker, At, TypeInv, TypeOK, HandlerRecords, Steps
      <3>2. TypeOK'
        BY <2>8, <3>1 DEF SendSticker, TypeInv, TypeOK, HandlerRecords
      <3>3. InHand'
        BY <2>8, <3>1 DEF SendSticker, TypeInv, TypeOK, InHand, Working, Row
      <3>4. QED
        BY <3>2, <3>3 DEF TypeInv
    <2>9. CASE SendMessage(h)
      <3>1. handler[h].note.order \in Orders
        BY <2>9 DEF SendMessage, At, TypeInv, InHand, Notes
      <3>2. told' \in [Orders -> Nat]
        BY <2>9, <3>1 DEF SendMessage, TypeInv, TypeOK
      <3>3. Answer(h) /\ UNCHANGED <<now, orders, periodEnd, bot, charge, locks, failures, credits>>
        BY <2>9 DEF SendMessage
      <3>4. QED
        BY <2>1, <3>2, <3>3, Released DEF TypeInv, TypeOK, InHand, HandlerRecords
    <2>10. QED
      BY <1>5, <2>2, <2>3, <2>4, <2>5, <2>6, <2>7, <2>8, <2>9 DEF HandlerStep
  <1>6. ASSUME NEW h \in Handlers, Fail(h) PROVE TypeInv'
    <2>1. /\ orderLock' \in [Orders -> Handlers \cup {NULL}]
          /\ userLock' \in [Users -> Handlers \cup {NULL}]
      BY <1>6 DEF Fail, Unlock, TypeInv, TypeOK
    <2>2. /\ handler' = [handler EXCEPT ![h] = Idle] /\ Unlock(h) /\ failures' \in Nat
          /\ UNCHANGED <<now, orders, periodEnd, bot, charge, due, history>>
      BY <1>6 DEF Fail, TypeInv, TypeOK
    <2>3. QED
      BY <2>1, <2>2, Released DEF TypeInv, TypeOK, InHand, HandlerRecords
  <1>7. CASE UNCHANGED vars
    BY <1>7 DEF vars, TypeInv, TypeOK, InHand, Working, Row
  <1>8. QED
    BY <1>1, <1>2, <1>3, <1>4, <1>5, <1>6, <1>7 DEF Next

(* The variables keep their types.                                         *)
THEOREM SpecTypeOK == Spec => []TypeOK
  <1>1. Spec => []TypeInv
    BY InitTypeInv, NextTypeInv, PTL DEF Spec
  <1>2. TypeInv => TypeOK
    BY DEF TypeInv
  <1>3. QED
    BY <1>1, <1>2, PTL

-----------------------------------------------------------------------------
(***************************************************************************)
(* Which orders are paid, and who is about to say so.                      *)
(***************************************************************************)

Committing == \E h \in Handlers : Commit(h)

(* Only the crediting transaction makes an order paid, and nothing undoes  *)
(* it.                                                                     *)
LEMMA PaidOnlyByCommit ==
  ASSUME TypeInv, [Next]_vars, ~Committing
  PROVE  \A o \in Orders : (orders'[o].status = "paid") <=> (orders[o].status = "paid")
  <1>1. \/ UNCHANGED orders
        \/ \E o \in Orders : InsertPending(o)
        \/ \E h \in Handlers : RecordStatus(h)
    <2>1. CASE Tick \/ UNCHANGED vars
      BY <2>1 DEF Tick, vars
    <2>2. CASE BotStep
      BY <2>2 DEF BotStep, Subscribe, SnapAccepted, SnapFails
    <2>3. ASSUME NEW o \in Orders, ProviderStep(o) PROVE UNCHANGED orders
      BY <2>3 DEF ProviderStep, AnnouncePending, Settle, Underpay, Expire, Deny, Refund, Charge
    <2>4. ASSUME NEW h \in Handlers, NEW n \in due, Receive(h, n) PROVE UNCHANGED orders
      BY <2>4 DEF Receive
    <2>5. ASSUME NEW h \in Handlers, HandlerStep(h) PROVE UNCHANGED orders \/ RecordStatus(h)
      BY <2>5 DEF Committing, HandlerStep, IgnoreClosed, IgnoreUnderpaid, LockOrder,
                  ReadSubscription, UpsertSubscription, SendSticker, SendMessage
    <2>6. ASSUME NEW h \in Handlers, Fail(h) PROVE UNCHANGED orders
      BY <2>6 DEF Fail
    <2>7. QED
      BY <2>1, <2>2, <2>3, <2>4, <2>5, <2>6 DEF Next
  <1>2. ASSUME NEW o \in Orders, InsertPending(o), NEW p \in Orders
        PROVE  (orders'[p].status = "paid") <=> (orders[p].status = "paid")
    BY <1>2 DEF InsertPending, NoOrder, TypeInv, TypeOK
  <1>3. ASSUME NEW h \in Handlers, RecordStatus(h), NEW p \in Orders
        PROVE  (orders'[p].status = "paid") <=> (orders[p].status = "paid")
    <2>1. handler[h].note.order \in Orders /\ handler[h].note.status # "paid"
          /\ orders[handler[h].note.order].status = "pending"
          /\ orders' = [orders EXCEPT ![handler[h].note.order].status = handler[h].note.status]
      BY <1>3 DEF RecordStatus, OrderFree, At, Row, TypeInv, InHand, Notes
    <2>2. orders[p] \in OrderRows /\ orders[handler[h].note.order] \in Rows
      BY <2>1, RowFacts DEF TypeInv, TypeOK
    <2>3. CASE p = handler[h].note.order
      BY <2>1, <2>2, <2>3 DEF TypeInv, TypeOK, Rows
    <2>4. CASE p # handler[h].note.order
      BY <2>1, <2>4 DEF TypeInv, TypeOK
    <2>5. QED
      BY <2>3, <2>4
  <1>4. QED
    BY <1>1, <1>2, <1>3

LEMMA TellingOnlyByCommit ==
  ASSUME TypeInv, [Next]_vars, ~Committing, NEW g \in Handlers, Telling(g)'
  PROVE  Telling(g) /\ handler'[g].note = handler[g].note
  <1> USE DEF Telling, TypeInv, TypeOK
  <1>1. CASE UNCHANGED handler
    BY <1>1
  <1>2. ASSUME NEW h \in Handlers, handler' = [handler EXCEPT ![h] = Idle]
        PROVE  Telling(g) /\ handler'[g].note = handler[g].note
    BY <1>2 DEF Idle
  <1>3. ASSUME NEW h \in Handlers, NEW n \in due, Receive(h, n)
        PROVE  Telling(g) /\ handler'[g].note = handler[g].note
    BY <1>3 DEF Receive
  <1>4. ASSUME NEW h \in Handlers, HandlerStep(h)
        PROVE  Telling(g) /\ handler'[g].note = handler[g].note
    <2>1. CASE IgnoreClosed(h) \/ RecordStatus(h) \/ IgnoreUnderpaid(h) \/ SendMessage(h)
      BY <1>2, <2>1 DEF IgnoreClosed, RecordStatus, IgnoreUnderpaid, SendMessage, Answer
    <2>2. CASE LockOrder(h)
      BY <2>2 DEF LockOrder
    <2>3. CASE ReadSubscription(h)
      <3>1. g # h => handler'[g] = handler[g]
        BY <2>3 DEF ReadSubscription
      <3>2. handler'[h].step = "upsert"
        BY <2>3 DEF ReadSubscription
      <3>3. QED
        BY <3>1, <3>2
    <2>4. CASE UpsertSubscription(h)
      BY <2>4 DEF UpsertSubscription
    <2>5. CASE SendSticker(h)
      BY <2>5 DEF SendSticker, At
    <2>6. QED
      BY <1>4, <2>1, <2>2, <2>3, <2>4, <2>5 DEF HandlerStep, Committing
  <1>5. CASE Tick \/ UNCHANGED vars
    BY <1>1, <1>5 DEF Tick, vars
  <1>6. CASE BotStep
    BY <1>1, <1>6 DEF BotStep, Subscribe, InsertPending, SnapAccepted, SnapFails
  <1>7. ASSUME NEW o \in Orders, ProviderStep(o) PROVE UNCHANGED handler
    BY <1>7 DEF ProviderStep, AnnouncePending, Settle, Underpay, Expire, Deny, Refund, Charge
  <1>8. ASSUME NEW h \in Handlers, Fail(h) PROVE handler' = [handler EXCEPT ![h] = Idle]
    BY <1>8 DEF Fail
  <1>9. QED
    BY <1>1, <1>2, <1>3, <1>4, <1>5, <1>6, <1>7, <1>8 DEF Next

(* A handler that announces a payment announces a paid order, no other     *)
(* handler announces the same, and none announces it again.                *)
TellingInv ==
  /\ \A h \in Handlers : Telling(h) => Row(h).status = "paid" /\ told[handler[h].note.order] = 0
  /\ \A g, h \in Handlers :
       Telling(g) /\ Telling(h) /\ handler[g].note.order = handler[h].note.order => g = h
  /\ \A o \in Orders : told[o] = 0 \/ (told[o] = 1 /\ orders[o].status = "paid")

CreditInv == TypeInv /\ CreditedOnce /\ TellingInv

LEMMA InitCreditInv == Init => CreditInv
  <1> SUFFICES ASSUME Init PROVE CreditInv
    OBVIOUS
  <1>1. TypeInv
    BY InitTypeInv
  <1>2. CreditedOnce /\ TellingInv
    BY DEF Init, CreditedOnce, TellingInv, Telling, Idle, NoOrder
  <1>3. QED
    BY <1>1, <1>2 DEF CreditInv

LEMMA NextCreditInv == CreditInv /\ [Next]_vars => CreditInv'
  <1> SUFFICES ASSUME CreditInv, [Next]_vars PROVE CreditInv'
    OBVIOUS
  <1>1. TypeInv /\ TypeInv'
    BY NextTypeInv DEF CreditInv
  <1>2. \A h \in Handlers : Telling(h) => handler[h].note.order \in Orders
    BY <1>1 DEF TypeInv, InHand, Telling, Notes
  <1>3. CASE ~Committing
    <2>1. \A o \in Orders : (orders'[o].status = "paid") <=> (orders[o].status = "paid")
      BY <1>1, <1>3, PaidOnlyByCommit
    <2>2. \A g \in Handlers : Telling(g)' => Telling(g) /\ handler'[g].note = handler[g].note
      BY <1>1, <1>3, TellingOnlyByCommit
    <2>3. UNCHANGED credits /\ (UNCHANGED told \/ \E h \in Handlers : SendMessage(h))
      <3>1. CASE Tick \/ UNCHANGED vars
        BY <3>1 DEF Tick, vars, history
      <3>2. CASE BotStep
        BY <3>2 DEF BotStep, Subscribe, InsertPending, SnapAccepted, SnapFails, history
      <3>3. ASSUME NEW o \in Orders, ProviderStep(o) PROVE UNCHANGED history
        BY <3>3 DEF ProviderStep, AnnouncePending, Settle, Underpay, Expire, Deny, Refund, Charge
      <3>4. ASSUME NEW h \in Handlers, NEW n \in due, Receive(h, n) PROVE UNCHANGED history
        BY <3>4 DEF Receive
      <3>5. ASSUME NEW h \in Handlers, HandlerStep(h)
            PROVE  UNCHANGED credits /\ (UNCHANGED told \/ SendMessage(h))
        BY <1>3, <3>5
        DEF Committing, HandlerStep, IgnoreClosed, RecordStatus, IgnoreUnderpaid, LockOrder,
            ReadSubscription, UpsertSubscription, SendSticker, SendMessage, history
      <3>6. ASSUME NEW h \in Handlers, Fail(h) PROVE UNCHANGED history
        BY <3>6 DEF Fail
      <3>7. QED
        BY <3>1, <3>2, <3>3, <3>4, <3>5, <3>6 DEF Next, history
    <2>4. CreditedOnce'
      BY <2>1, <2>3 DEF CreditInv, CreditedOnce
    <2>5. \A h \in Handlers : Telling(h)' => (Row(h).status)' = "paid"
      BY <1>2, <2>1, <2>2 DEF CreditInv, TellingInv, Row
    <2>6. \A g, h \in Handlers :
            Telling(g)' /\ Telling(h)' /\ handler'[g].note.order = handler'[h].note.order => g = h
      BY <2>2 DEF CreditInv, TellingInv
    <2>7. CASE UNCHANGED told
      BY <1>2, <2>1, <2>2, <2>4, <2>5, <2>6, <2>7, <1>1 DEF CreditInv, TellingInv
    <2>8. ASSUME NEW h \in Handlers, SendMessage(h) PROVE CreditInv'
      <3> DEFINE p == handler[h].note.order
      <3>1. Telling(h) /\ p \in Orders /\ told[p] = 0 /\ orders[p].status = "paid"
        BY <1>2, <2>8 DEF SendMessage, At, Telling, CreditInv, TellingInv, Row
      <3>2. told' = [told EXCEPT ![p] = 1]
        BY <2>8, <3>1, <1>1 DEF SendMessage, TypeInv, TypeOK
      <3>3. ~Telling(h)'
        BY <2>8, <1>1 DEF SendMessage, Answer, Telling, Idle, TypeInv, TypeOK
      <3>4. ASSUME NEW g \in Handlers, Telling(g)' PROVE told'[handler'[g].note.order] = 0
        <4>1. g # h /\ Telling(g) /\ handler'[g].note = handler[g].note
          BY <2>2, <3>3, <3>4
        <4>2. handler[g].note.order # p /\ handler[g].note.order \in Orders
          BY <1>2, <3>1, <4>1 DEF CreditInv, TellingInv
        <4>3. QED
          BY <1>1, <3>2, <4>1, <4>2 DEF CreditInv, TellingInv, TypeInv, TypeOK
      <3>5. \A o \in Orders : told'[o] = 0 \/ (told'[o] = 1 /\ orders'[o].status = "paid")
        BY <1>1, <2>1, <3>1, <3>2 DEF CreditInv, TellingInv, TypeInv, TypeOK
      <3>6. QED
        BY <1>1, <2>4, <2>5, <2>6, <3>4, <3>5 DEF CreditInv, TellingInv
    <2>9. QED
      BY <2>3, <2>7, <2>8
  <1>4. ASSUME NEW h \in Handlers, Commit(h) PROVE CreditInv'
    <2> DEFINE p == handler[h].note.order
    <2>1. Working(h) /\ ~Telling(h)
      BY <1>4 DEF Commit, At, Working, Telling
    <2>2. p \in Orders /\ orders[p].status = "pending"
      BY <1>1, <2>1, WorkingFacts DEF TypeInv, InHand, Row
    <2>3. orders[p] \in Rows
      BY <1>1, <2>2, RowFacts DEF TypeInv, TypeOK
    <2>4. orders'[p].status = "paid" /\ \A o \in Orders \ {p} : orders'[o] = orders[o]
      BY <1>1, <1>4, <2>2, <2>3 DEF Commit, TypeInv, TypeOK, Rows
    <2>5. credits[p] = 0 /\ told[p] = 0 /\ UNCHANGED told
      BY <1>4, <2>2 DEF CreditInv, CreditedOnce, TellingInv, Commit
    <2>6. credits'[p] = 1 /\ \A o \in Orders \ {p} : credits'[o] = credits[o]
      BY <1>1, <1>4, <2>2, <2>5 DEF Commit, TypeInv, TypeOK
    <2>7. CreditedOnce'
      BY <2>4, <2>6 DEF CreditInv, CreditedOnce
    <2>8. handler'[h].note.order = p /\ \A g \in Handlers \ {h} : handler'[g] = handler[g]
      BY <1>1, <1>4 DEF Commit, TypeInv, TypeOK
    <2>9. \A g \in Handlers : Telling(g) => handler[g].note.order \in Orders \ {p}
      BY <1>2, <2>2 DEF CreditInv, TellingInv, Row
    <2>10. \A g \in Handlers : Telling(g)' =>
             \/ g = h
             \/ g # h /\ Telling(g) /\ handler'[g].note.order = handler[g].note.order
      BY <2>8 DEF Telling
    <2>11. TellingInv'
      BY <2>2, <2>4, <2>5, <2>8, <2>9, <2>10 DEF CreditInv, TellingInv, Row
    <2>12. QED
      BY <1>1, <2>7, <2>11 DEF CreditInv
  <1>5. QED
    BY <1>3, <1>4 DEF Committing

LEMMA SpecCreditInv == Spec => []CreditInv
  BY InitCreditInv, NextCreditInv, PTL DEF Spec

(* An order is credited by exactly one transaction, the one that marks it  *)
(* paid, whatever notifications are repeated to whatever handlers.         *)
THEOREM SpecCreditedOnce == Spec => []CreditedOnce
  <1>1. CreditInv => CreditedOnce
    BY DEF CreditInv
  <1>2. QED
    BY <1>1, SpecCreditInv, PTL

(* The success message of an order is sent at most once, and only after    *)
(* the order was credited.                                                 *)
THEOREM SpecToldOnlyIfPaid == Spec => []ToldOnlyIfPaid
  <1>1. CreditInv => ToldOnlyIfPaid
    BY DEF CreditInv, CreditedOnce, TellingInv, ToldOnlyIfPaid
  <1>2. QED
    BY <1>1, SpecCreditInv, PTL

-----------------------------------------------------------------------------
(***************************************************************************)
(* For users who already have a subscription row, the webhook's locks make *)
(* payments add up: what an order bought stays bought, and the payment     *)
(* path implements PaymentLedger.  A first payment is a different matter:  *)
(* there is no row to lock yet (SecondPaymentExtends fails there).         *)
(***************************************************************************)
Writing(h) == handler[h].step \in {"upsert", "commit"}

(* A handler about to write a period end holds the row it was computed     *)
(* from, so the computation is still true of it.                           *)
PeriodInv ==
  /\ \A u \in Users : periodEnd[u] \in Int
  /\ \A h \in Handlers :
       Writing(h) => /\ userLock[User(h)] = h
                     /\ handler[h].end = NewEnd(periodEnd[User(h)], handler[h].received)
  /\ \A o \in Orders : orders[o].status = "paid" => orders[o].paidAt \in Int
  /\ PaidPeriodStands

RegisteredInv == TypeInv /\ PeriodInv

(* An order never changes hands, and a paid one never changes at all.      *)
LEMMA OrdersStep ==
  ASSUME TypeInv, [Next]_vars, NEW o \in Orders
  PROVE  /\ orders[o].status # "absent" => orders'[o].user = orders[o].user
         /\ orders[o].status = "paid" => orders'[o] = orders[o]
  <1>1. ASSUME NEW p \in Orders, InsertPending(p)
        PROVE  /\ orders[o].status # "absent" => orders'[o].user = orders[o].user
               /\ orders[o].status = "paid" => orders'[o] = orders[o]
    BY <1>1 DEF InsertPending, NoOrder, TypeInv, TypeOK
  <1>2. ASSUME NEW h \in Handlers, RecordStatus(h) \/ Commit(h)
        PROVE  /\ orders[o].status # "absent" => orders'[o].user = orders[o].user
               /\ orders[o].status = "paid" => orders'[o] = orders[o]
    <2> DEFINE p == handler[h].note.order
    <2>1. p \in Orders /\ orders[p].status = "pending"
      <3>1. CASE RecordStatus(h)
        BY <3>1 DEF RecordStatus, OrderFree, At, Row, TypeInv, InHand, Notes
      <3>2. CASE Commit(h)
        BY <3>2, WorkingFacts DEF Commit, At, Working, Row, TypeInv, InHand
      <3>3. QED
        BY <1>2, <3>1, <3>2
    <2>2. o # p => orders'[o] = orders[o]
      BY <1>2, <2>1 DEF RecordStatus, Commit, TypeInv, TypeOK
    <2>3. orders[p] \in Rows
      BY <2>1, RowFacts DEF TypeInv, TypeOK
    <2>4. orders'[p].user = orders[p].user
      BY <1>2, <2>1, <2>3 DEF RecordStatus, Commit, TypeInv, TypeOK, Rows
    <2>5. QED
      BY <2>1, <2>2, <2>4
  <1>3. \/ UNCHANGED orders
        \/ \E p \in Orders : InsertPending(p)
        \/ \E h \in Handlers : RecordStatus(h) \/ Commit(h)
    <2>1. CASE Tick \/ UNCHANGED vars
      BY <2>1 DEF Tick, vars
    <2>2. CASE BotStep
      BY <2>2 DEF BotStep, Subscribe, SnapAccepted, SnapFails
    <2>3. ASSUME NEW p \in Orders, ProviderStep(p) PROVE UNCHANGED orders
      BY <2>3 DEF ProviderStep, AnnouncePending, Settle, Underpay, Expire, Deny, Refund, Charge
    <2>4. ASSUME NEW h \in Handlers, NEW n \in due, Receive(h, n) PROVE UNCHANGED orders
      BY <2>4 DEF Receive
    <2>5. ASSUME NEW h \in Handlers, HandlerStep(h)
          PROVE  UNCHANGED orders \/ RecordStatus(h) \/ Commit(h)
      BY <2>5 DEF HandlerStep, IgnoreClosed, IgnoreUnderpaid, LockOrder,
                  ReadSubscription, UpsertSubscription, SendSticker, SendMessage
    <2>6. ASSUME NEW h \in Handlers, Fail(h) PROVE UNCHANGED orders
      BY <2>6 DEF Fail
    <2>7. QED
      BY <2>1, <2>2, <2>3, <2>4, <2>5, <2>6 DEF Next
  <1>4. QED
    BY <1>1, <1>2, <1>3

(* A handler in the middle of its transaction keeps its user.              *)
LEMMA UserKept ==
  ASSUME TypeInv, [Next]_vars, NEW h \in Handlers, Working(h),
         handler'[h].note = handler[h].note
  PROVE  User(h)' = User(h)
  <1>1. handler[h].note.order \in Orders /\ orders[handler[h].note.order].status = "pending"
    BY WorkingFacts DEF TypeInv, InHand, Row
  <1>2. QED
    BY <1>1, OrdersStep DEF User, Row

(* The subscription locks change hands only through NULL.                  *)
LEMMA UserLockKept ==
  ASSUME RegisteredInv, [Next]_vars, NEW g \in Handlers, NEW u \in Users, userLock[u] = g,
         ~(\E h \in Handlers : h = g /\ (Commit(h) \/ Fail(h)))
  PROVE  userLock'[u] = g
  <1> USE DEF RegisteredInv, TypeInv, TypeOK, locks
  <1>0. g # NULL
    BY PaymentsAssumption DEF PaymentsAssumption
  <1>1. CASE Tick \/ UNCHANGED vars
    BY <1>1 DEF Tick, vars
  <1>2. CASE BotStep
    BY <1>2 DEF BotStep, Subscribe, InsertPending, SnapAccepted, SnapFails
  <1>3. ASSUME NEW p \in Orders, ProviderStep(p) PROVE UNCHANGED locks
    BY <1>3 DEF ProviderStep, AnnouncePending, Settle, Underpay, Expire, Deny, Refund, Charge
  <1>4. ASSUME NEW h \in Handlers, NEW n \in due, Receive(h, n) PROVE UNCHANGED locks
    BY <1>4 DEF Receive
  <1>5. ASSUME NEW h \in Handlers, HandlerStep(h) PROVE userLock'[u] = g
    <2>1. CASE ReadSubscription(h)
      <3>1. User(h) \in Users /\ Exists(User(h))
        BY <2>1, WorkingFacts, PaymentsAssumption
        DEF ReadSubscription, At, Working, Exists, PeriodInv, PaymentsAssumption
      <3>2. userLock[User(h)] = NULL /\ userLock' = [userLock EXCEPT ![User(h)] = h]
        BY <2>1, <3>1 DEF ReadSubscription
      <3>3. QED
        BY <1>0, <3>1, <3>2
    <2>2. CASE UpsertSubscription(h)
      BY <1>0, <2>2 DEF UpsertSubscription
    <2>3. CASE Commit(h)
      BY <2>3 DEF Commit, Unlock
    <2>4. CASE ~ReadSubscription(h) /\ ~UpsertSubscription(h) /\ ~Commit(h)
      BY <1>5, <2>4 DEF HandlerStep, IgnoreClosed, RecordStatus, IgnoreUnderpaid, LockOrder,
                        SendSticker, SendMessage
    <2>5. QED
      BY <2>1, <2>2, <2>3, <2>4
  <1>6. ASSUME NEW h \in Handlers, Fail(h) PROVE userLock'[u] = g
    BY <1>6 DEF Fail, Unlock
  <1>7. QED
    BY <1>1, <1>2, <1>3, <1>4, <1>5, <1>6 DEF Next

(* Who writes after a step wrote before it, or has just read.              *)
LEMMA WritingStep ==
  ASSUME TypeInv, [Next]_vars, NEW g \in Handlers, Writing(g)'
  PROVE  \/ ReadSubscription(g)
         \/ /\ Writing(g)
            /\ handler'[g].note = handler[g].note
            /\ handler'[g].received = handler[g].received
            /\ handler'[g].end = handler[g].end
            /\ ~Commit(g) /\ ~Fail(g)
  <1> USE DEF Writing, TypeInv, TypeOK
  <1> DEFINE Same == /\ Writing(g)
                     /\ handler'[g].note = handler[g].note
                     /\ handler'[g].received = handler[g].received
                     /\ handler'[g].end = handler[g].end
  <1>0. ~Commit(g) /\ ~Fail(g)
    BY DEF Commit, Fail, Idle
  <1>1. CASE UNCHANGED handler
    BY <1>0, <1>1
  <1>2. ASSUME NEW h \in Handlers, handler' = [handler EXCEPT ![h] = Idle] PROVE Same
    BY <1>2 DEF Idle
  <1>3. ASSUME NEW h \in Handlers, NEW n \in due, Receive(h, n) PROVE Same
    BY <1>3 DEF Receive
  <1>4. ASSUME NEW h \in Handlers, HandlerStep(h) PROVE ReadSubscription(g) \/ Same
    <2>1. CASE IgnoreClosed(h) \/ RecordStatus(h) \/ IgnoreUnderpaid(h) \/ SendMessage(h)
      BY <1>2, <2>1 DEF IgnoreClosed, RecordStatus, IgnoreUnderpaid, SendMessage, Answer
    <2>2. CASE LockOrder(h)
      BY <2>2 DEF LockOrder
    <2>3. CASE ReadSubscription(h)
      <3>1. g # h => handler'[g] = handler[g]
        BY <2>3 DEF ReadSubscription
      <3>2. QED
        BY <2>3, <3>1
    <2>4. CASE UpsertSubscription(h)
      BY <2>4 DEF UpsertSubscription, At
    <2>5. CASE Commit(h) \/ SendSticker(h)
      BY <2>5 DEF Commit, SendSticker
    <2>6. QED
      BY <1>4, <2>1, <2>2, <2>3, <2>4, <2>5 DEF HandlerStep
  <1>5. CASE Tick \/ UNCHANGED vars
    BY <1>1, <1>5 DEF Tick, vars
  <1>6. CASE BotStep
    BY <1>1, <1>6 DEF BotStep, Subscribe, InsertPending, SnapAccepted, SnapFails
  <1>7. ASSUME NEW o \in Orders, ProviderStep(o) PROVE UNCHANGED handler
    BY <1>7 DEF ProviderStep, AnnouncePending, Settle, Underpay, Expire, Deny, Refund, Charge
  <1>8. ASSUME NEW h \in Handlers, Fail(h) PROVE Same
    BY <1>2, <1>8 DEF Fail
  <1>9. QED
    BY <1>0, <1>1, <1>3, <1>4, <1>5, <1>6, <1>7, <1>8 DEF Next

LEMMA InitRegisteredInv ==
  ASSUME Registered = Users
  PROVE  Init => RegisteredInv
  <1> SUFFICES ASSUME Init PROVE RegisteredInv
    OBVIOUS
  <1>1. TypeInv
    BY InitTypeInv
  <1>2. PeriodInv
    BY DEF Init, PeriodInv, Writing, Idle, PaidPeriodStands, NoOrder
  <1>3. QED
    BY <1>1, <1>2 DEF RegisteredInv

(* What the crediting transaction does to the rows.                        *)
LEMMA CommitFacts ==
  ASSUME RegisteredInv, NEW h \in Handlers, Commit(h)
  PROVE  LET p == handler[h].note.order
             u == User(h)
         IN /\ p \in Orders /\ orders[p] \in Rows /\ orders[p].status = "pending"
            /\ u \in Users /\ u = orders[p].user /\ userLock[u] = h
            /\ orders' = [orders EXCEPT ![p] = [orders[p] EXCEPT !.status = "paid",
                                                              !.paidAt = handler[h].received]]
            /\ handler[h].received \in Int
            /\ periodEnd[u] \in Int /\ periodEnd'[u] \in Int
            /\ periodEnd' = [periodEnd EXCEPT ![u] = periodEnd'[u]]
            /\ periodEnd'[u] >= periodEnd[u] + PeriodTicks
            /\ periodEnd'[u] >= handler[h].received + PeriodTicks
  <1> DEFINE p == handler[h].note.order
             u == User(h)
  <1>1. Working(h) /\ Writing(h)
    BY DEF Commit, At, Working, Writing
  <1>2. p \in Orders /\ orders[p] \in Rows /\ u \in Users /\ handler[h].received \in Int
    BY <1>1, WorkingFacts DEF RegisteredInv, Row
  <1>3. orders[p].status = "pending" /\ u = orders[p].user
    BY <1>1 DEF RegisteredInv, TypeInv, InHand, Row, User
  <1>4. /\ userLock[u] = h /\ periodEnd[u] \in Int
        /\ handler[h].end = NewEnd(periodEnd[u], handler[h].received)
    BY <1>1, <1>2 DEF RegisteredInv, PeriodInv
  <1>5. periodEnd' = [periodEnd EXCEPT ![u] = handler[h].end]
    BY DEF Commit
  <1>6. periodEnd'[u] = handler[h].end
    BY <1>2, <1>5 DEF RegisteredInv, TypeInv, TypeOK
  <1>7. /\ handler[h].end \in Int
        /\ handler[h].end >= periodEnd[u] + PeriodTicks
        /\ handler[h].end >= handler[h].received + PeriodTicks
    BY <1>2, <1>4, NewEndFacts
  <1>8. orders' = [orders EXCEPT ![p] = [orders[p] EXCEPT !.status = "paid",
                                                          !.paidAt = handler[h].received]]
    BY <1>2 DEF Commit, RegisteredInv, TypeInv, TypeOK
  <1>9. QED
    BY <1>2, <1>3, <1>4, <1>5, <1>6, <1>7, <1>8

LEMMA PeriodOnlyByCommit ==
  ASSUME [Next]_vars, ~Committing
  PROVE  UNCHANGED periodEnd
  BY DEF Next, vars, Tick, BotStep, Subscribe, InsertPending, SnapAccepted, SnapFails,
         ProviderStep, AnnouncePending, Settle, Underpay, Expire, Deny, Refund, Charge, Receive,
         HandlerStep, IgnoreClosed, RecordStatus, IgnoreUnderpaid, LockOrder, ReadSubscription,
         UpsertSubscription, Committing, SendSticker, SendMessage, Fail

LEMMA NextRegisteredInv == RegisteredInv /\ [Next]_vars => RegisteredInv'
  <1> SUFFICES ASSUME RegisteredInv, [Next]_vars PROVE RegisteredInv'
    OBVIOUS
  <1>1. TypeInv /\ TypeInv'
    BY NextTypeInv DEF RegisteredInv
  <1>2. /\ \A u \in Users : periodEnd'[u] \in Int /\ periodEnd'[u] >= periodEnd[u]
        /\ \A g \in Handlers, u \in Users :
             userLock[u] = g /\ ~Commit(g) => periodEnd'[u] = periodEnd[u]
    <2>1. CASE ~Committing
      BY <2>1, PeriodOnlyByCommit DEF RegisteredInv, PeriodInv
    <2>2. ASSUME NEW h \in Handlers, Commit(h)
          PROVE  /\ \A u \in Users : periodEnd'[u] \in Int /\ periodEnd'[u] >= periodEnd[u]
                 /\ \A g \in Handlers, u \in Users :
                      userLock[u] = g /\ ~Commit(g) => periodEnd'[u] = periodEnd[u]
      <3>1. /\ User(h) \in Users /\ userLock[User(h)] = h
            /\ periodEnd'[User(h)] \in Int /\ periodEnd[User(h)] \in Int
            /\ periodEnd' = [periodEnd EXCEPT ![User(h)] = periodEnd'[User(h)]]
            /\ periodEnd'[User(h)] >= periodEnd[User(h)] + PeriodTicks
        BY <2>2, CommitFacts
      <3>2. \A u \in Users : u # User(h) => periodEnd'[u] = periodEnd[u]
        BY <1>1, <3>1 DEF TypeInv, TypeOK
      <3>3. \A u \in Users : periodEnd[u] \in Int
        BY DEF RegisteredInv, PeriodInv
      <3>4. PeriodTicks \in Nat
        BY PaymentsAssumption DEF PaymentsAssumption
      <3>5. QED
        BY <2>2, <3>1, <3>2, <3>3, <3>4
    <2>3. QED
      BY <2>1, <2>2 DEF Committing
  <1>3. ASSUME NEW g \in Handlers, Writing(g)'
        PROVE  (userLock[User(g)] = g /\ handler[g].end = NewEnd(periodEnd[User(g)], handler[g].received))'
    <2>1. CASE ReadSubscription(g)
      <3>1. Working(g)
        BY <2>1 DEF ReadSubscription, At, Working
      <3>2. User(g) \in Users
        BY <1>1, <3>1, WorkingFacts
      <3>3. Exists(User(g))
        BY <3>2, PaymentsAssumption DEF Exists, PaymentsAssumption, RegisteredInv, PeriodInv
      <3>4. userLock' = [userLock EXCEPT ![User(g)] = g] /\ UNCHANGED <<orders, periodEnd>>
        BY <2>1, <3>3 DEF ReadSubscription
      <3>5. handler' = [handler EXCEPT ![g].step = "upsert",
                                       ![g].end = NewEnd(periodEnd[User(g)], handler[g].received)]
        BY <2>1 DEF ReadSubscription
      <3>6. /\ handler'[g].note = handler[g].note /\ handler'[g].received = handler[g].received
            /\ handler'[g].end = NewEnd(periodEnd[User(g)], handler[g].received)
        BY <1>1, <3>5 DEF TypeInv, TypeOK
      <3>7. User(g)' = User(g)
        BY <3>4, <3>6 DEF User, Row
      <3>8. userLock'[User(g)] = g
        BY <1>1, <3>2, <3>4 DEF TypeInv, TypeOK
      <3>9. QED
        BY <3>4, <3>6, <3>7, <3>8 DEF NewEnd
    <2>2. CASE ~ReadSubscription(g)
      <3>1. /\ Writing(g) /\ ~Commit(g) /\ ~Fail(g)
            /\ handler'[g].note = handler[g].note
            /\ handler'[g].received = handler[g].received
            /\ handler'[g].end = handler[g].end
        BY <1>1, <1>3, <2>2, WritingStep
      <3>2. User(g) \in Users /\ User(g)' = User(g)
        BY <1>1, <3>1, UserKept, WorkingFacts DEF Writing, Working
      <3>3. userLock[User(g)] = g /\ handler[g].end = NewEnd(periodEnd[User(g)], handler[g].received)
        BY <3>1 DEF RegisteredInv, PeriodInv
      <3>4. userLock'[User(g)] = g
        BY <3>1, <3>2, <3>3, UserLockKept
      <3>5. periodEnd'[User(g)] = periodEnd[User(g)]
        BY <1>2, <3>1, <3>2, <3>3
      <3>6. QED
        BY <3>1, <3>2, <3>3, <3>4, <3>5 DEF NewEnd
    <2>3. QED
      BY <2>1, <2>2
  <1>4. ASSUME NEW o \in Orders, orders'[o].status = "paid"
        PROVE  /\ orders'[o].paidAt \in Int
               /\ periodEnd'[orders'[o].user] >= orders'[o].paidAt + PeriodTicks
    <2>1. CASE orders[o].status = "paid"
      <3>1. orders'[o] = orders[o]
        BY <1>1, <2>1, OrdersStep
      <3>2. orders[o].paidAt \in Int /\ periodEnd[orders[o].user] >= orders[o].paidAt + PeriodTicks
        BY <2>1 DEF RegisteredInv, PeriodInv, PaidPeriodStands
      <3>3. orders[o].user \in Users
        BY <1>1, <2>1, RowFacts DEF TypeInv, TypeOK, Rows
      <3>4. /\ periodEnd'[orders[o].user] >= periodEnd[orders[o].user]
            /\ periodEnd'[orders[o].user] \in Int /\ periodEnd[orders[o].user] \in Int
        BY <1>2, <3>3 DEF RegisteredInv, PeriodInv
      <3>5. PeriodTicks \in Nat
        BY PaymentsAssumption DEF PaymentsAssumption
      <3>6. QED
        BY <3>1, <3>2, <3>4, <3>5
    <2>2. CASE orders[o].status # "paid"
      <3>1. PICK h \in Handlers : Commit(h)
        BY <1>1, <1>4, <2>2, PaidOnlyByCommit DEF Committing
      <3> DEFINE p == handler[h].note.order
      <3>2. /\ p \in Orders /\ orders[p] \in Rows
            /\ orders' = [orders EXCEPT ![p] = [orders[p] EXCEPT !.status = "paid",
                                                              !.paidAt = handler[h].received]]
            /\ handler[h].received \in Int
            /\ User(h) = orders[p].user
            /\ periodEnd'[User(h)] >= handler[h].received + PeriodTicks
        BY <3>1, CommitFacts
      <3>3. o = p
        BY <1>1, <1>4, <2>2, <3>2 DEF TypeInv, TypeOK
      <3>4. orders'[o].paidAt = handler[h].received /\ orders'[o].user = User(h)
        BY <1>1, <3>2, <3>3 DEF TypeInv, TypeOK, Rows
      <3>5. QED
        BY <3>2, <3>4
    <2>3. QED
      BY <2>1, <2>2
  <1>5. PeriodInv'
    BY <1>2, <1>3, <1>4 DEF PeriodInv, PaidPeriodStands
  <1>6. QED
    BY <1>1, <1>5 DEF RegisteredInv

(* A paid order keeps what it bought, in whatever order the transactions   *)
(* of concurrent payments commit: no user is left with less than a period  *)
(* from the moment a settlement was received.                              *)
THEOREM SpecPaidPeriodStands ==
  ASSUME Registered = Users
  PROVE  Spec => []PaidPeriodStands
  <1>1. Init => RegisteredInv
    BY InitRegisteredInv
  <1>2. RegisteredInv => PaidPeriodStands
    BY DEF RegisteredInv, PeriodInv
  <1>3. QED
    BY <1>1, <1>2, NextRegisteredInv, PTL DEF Spec

-----------------------------------------------------------------------------
(***************************************************************************)
(* The refinement of PaymentLedger.                                        *)
(***************************************************************************)

Entry(r) == [user |-> r.user, status |-> r.status]

LEMMA InitLedger == Init => Ledger!Init
  <1> SUFFICES ASSUME Init PROVE Ledger!Init
    OBVIOUS
  <1>1. \A o \in Orders : Entry(orders[o]) = Ledger!Absent
    BY DEF Init, Entry, NoOrder, Ledger!Absent
  <1>2. periodEnd \in [Users -> Int \cup {NULL}]
    BY DEF Init
  <1>3. QED
    BY <1>1, <1>2 DEF Ledger!Init, Entry

LEMMA NextLedger ==
  RegisteredInv /\ [Next]_vars => [Ledger!Next]_<<[o \in Orders |-> Entry(orders[o])], periodEnd>>
  <1> SUFFICES ASSUME RegisteredInv, [Next]_vars
               PROVE  [Ledger!Next]_<<[o \in Orders |-> Entry(orders[o])], periodEnd>>
    OBVIOUS
  <1> DEFINE order == [o \in Orders |-> Entry(orders[o])]
  <1>1. CASE UNCHANGED <<orders, periodEnd>>
    BY <1>1
  <1>2. ASSUME NEW o \in Orders, InsertPending(o) PROVE Ledger!Next
    <2>1. UNCHANGED periodEnd /\ bot.user \in Users
      BY <1>2 DEF InsertPending, RegisteredInv, TypeInv, InHand
    <2>2. Entry(orders[o]) = Ledger!Absent
      BY <1>2 DEF InsertPending, NoOrder, Entry, Ledger!Absent
    <2>3. order' = [order EXCEPT ![o] = [user |-> bot.user, status |-> "pending"]]
      BY <1>2 DEF InsertPending, Entry, RegisteredInv, TypeInv, TypeOK
    <2>4. Ledger!Open(o)
      BY <2>1, <2>2, <2>3 DEF Ledger!Open, Entry
    <2>5. QED
      BY <2>4 DEF Ledger!Next
  <1>3. ASSUME NEW h \in Handlers, RecordStatus(h)
        PROVE  [Ledger!Next]_<<order, periodEnd>>
    <2> DEFINE n == handler[h].note
               o == n.order
    <2>1. o \in Orders /\ n.status \in Statuses \ {"paid"} /\ orders[o].status = "pending"
      BY <1>3 DEF RecordStatus, OrderFree, At, Row, RegisteredInv, TypeInv, InHand, Notes
    <2>2. orders[o] \in Rows
      BY <2>1, RowFacts DEF RegisteredInv, TypeInv, TypeOK
    <2>3. UNCHANGED periodEnd /\ orders' = [orders EXCEPT ![o].status = n.status]
      BY <1>3 DEF RecordStatus
    <2>4. order' = [order EXCEPT ![o].status = n.status]
      BY <2>1, <2>2, <2>3 DEF Entry, RegisteredInv, TypeInv, TypeOK, Rows
    <2>5. CASE n.status = "pending"
      <3>1. order' = order
        BY <2>1, <2>4, <2>5 DEF Entry
      <3>2. QED
        BY <2>3, <3>1
    <2>6. CASE n.status # "pending"
      <3>1. n.status \in {"expired", "failed", "refunded"}
        BY <2>1, <2>6 DEF Statuses
      <3>2. order[o].status = "pending"
        BY <2>1 DEF Entry
      <3>3. PICK p \in Orders : p = o
        BY <2>1
      <3>4. Ledger!Close(p)
        BY <2>3, <2>4, <3>1, <3>2, <3>3 DEF Ledger!Close, Entry
      <3>5. QED
        BY <3>4 DEF Ledger!Next
    <2>7. QED
      BY <2>5, <2>6
  <1>4. ASSUME NEW h \in Handlers, Commit(h) PROVE Ledger!Next
    <2> DEFINE o == handler[h].note.order
               u == User(h)
    <2>1. /\ o \in Orders /\ orders[o] \in Rows /\ orders[o].status = "pending"
          /\ u = orders[o].user
          /\ orders' = [orders EXCEPT ![o] = [orders[o] EXCEPT !.status = "paid",
                                                            !.paidAt = handler[h].received]]
          /\ periodEnd'[u] \in Int
          /\ periodEnd' = [periodEnd EXCEPT ![u] = periodEnd'[u]]
          /\ periodEnd'[u] >= periodEnd[u] + PeriodTicks
      BY <1>4, CommitFacts
    <2>2. order[o].user = u /\ order[o].status = "pending"
      BY <2>1 DEF Entry
    <2>3. order' = [order EXCEPT ![o].status = "paid"]
      BY <2>1 DEF Entry, RegisteredInv, TypeInv, TypeOK, Rows
    <2>4. periodEnd'[u] # NULL
      BY <2>1, PaymentsAssumption DEF PaymentsAssumption
    <2>5. PICK p \in Orders : p = o
      BY <2>1
    <2>6. Ledger!Credit(p)
      BY <2>1, <2>2, <2>3, <2>4, <2>5 DEF Ledger!Credit, Entry
    <2>7. QED
      BY <2>6 DEF Ledger!Next
  <1>5. \/ UNCHANGED <<orders, periodEnd>>
        \/ \E o \in Orders : InsertPending(o)
        \/ \E h \in Handlers : RecordStatus(h) \/ Commit(h)
    <2>1. CASE Tick \/ UNCHANGED vars
      BY <2>1 DEF Tick, vars
    <2>2. CASE BotStep
      BY <2>2 DEF BotStep, Subscribe, SnapAccepted, SnapFails
    <2>3. ASSUME NEW p \in Orders, ProviderStep(p) PROVE UNCHANGED <<orders, periodEnd>>
      BY <2>3 DEF ProviderStep, AnnouncePending, Settle, Underpay, Expire, Deny, Refund, Charge
    <2>4. ASSUME NEW h \in Handlers, NEW n \in due, Receive(h, n) PROVE UNCHANGED <<orders, periodEnd>>
      BY <2>4 DEF Receive
    <2>5. ASSUME NEW h \in Handlers, HandlerStep(h)
          PROVE  UNCHANGED <<orders, periodEnd>> \/ RecordStatus(h) \/ Commit(h)
      BY <2>5 DEF HandlerStep, IgnoreClosed, IgnoreUnderpaid, LockOrder,
                  ReadSubscription, UpsertSubscription, SendSticker, SendMessage
    <2>6. ASSUME NEW h \in Handlers, Fail(h) PROVE UNCHANGED <<orders, periodEnd>>
      BY <2>6 DEF Fail
    <2>7. QED
      BY <2>1, <2>2, <2>3, <2>4, <2>5, <2>6 DEF Next
  <1>6. QED
    BY <1>1, <1>2, <1>3, <1>4, <1>5

(* The payment path implements the ledger: orders open, close and are      *)
(* credited as it says, each at most once, and a credit always comes with  *)
(* a whole period on top of what the user had.                             *)
THEOREM SpecImplementsLedger ==
  ASSUME Registered = Users
  PROVE  Spec => ImplementsLedger
  <1>1. Init => RegisteredInv
    BY InitRegisteredInv
  <1>2. Spec => []RegisteredInv
    BY <1>1, NextRegisteredInv, PTL DEF Spec
  <1>3. RegisteredInv /\ [Next]_vars =>
          [Ledger!Next]_<<[o \in Orders |-> [user |-> orders[o].user, status |-> orders[o].status]], periodEnd>>
    BY NextLedger DEF Entry
  <1>4. QED
    BY <1>2, <1>3, InitLedger, PTL DEF Spec, ImplementsLedger, Ledger!Spec
=============================================================================
