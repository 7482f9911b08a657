--------------------------- MODULE BotUpdatesProofs ---------------------------
(***************************************************************************)
(* Theorems about BotUpdates, for any users, chats, inputs and bounds.     *)
(***************************************************************************)
EXTENDS BotUpdates, TLAPS

(***************************************************************************)
(* The queue: what lies between the stored offset and the last update is   *)
(* with Telegram, what lies below the offset was handled.                  *)
(***************************************************************************)

QueueInv ==
  /\ arrived \in Nat /\ last \in Nat /\ last <= arrived
  /\ DOMAIN server \subseteq 1..arrived
  /\ (last + 1)..arrived \subseteq DOMAIN server
  /\ 1..last \subseteq handled

(* A batch is all of that, from the update behind the offset; what has no  *)
(* more to be done was handled.                                            *)
BatchInv ==
  /\ bot = [phase |-> bot.phase, batch |-> bot.batch, todo |-> bot.todo]
  /\ bot.phase \in {"poll", "next", "act"}
  /\ bot.phase # "poll" => last < arrived /\ bot.batch = (last + 1)..arrived
  /\ bot.phase = "act" /\ bot.todo = <<>> => last + 1 \in handled

(* process_updates goes through a batch in the order of update_id.         *)
LEMMA InHandIsNext ==
  ASSUME QueueInv, BatchInv, bot.phase # "poll"
  PROVE  InHand = last + 1 /\ InHand \in DOMAIN server
  <1>1. /\ last + 1 \in bot.batch
        /\ \A other \in bot.batch : other \in Nat /\ last + 1 <= other
    BY DEF QueueInv, BatchInv
  <1>2. \E id \in bot.batch : \A other \in bot.batch : id <= other
    BY <1>1
  <1>3. InHand \in bot.batch /\ \A other \in bot.batch : InHand <= other
    BY <1>2 DEF InHand
  <1>4. QED
    BY <1>1, <1>3 DEF QueueInv, BatchInv

LEMMA QueueInit == Init => QueueInv /\ BatchInv
  BY DEF Init, Idle, QueueInv, BatchInv

(* Telegram gets another update: not while a batch is handled.             *)
LEMMA ArriveKeepsQueue ==
  ASSUME QueueInv, BatchInv, NEW u \in Inputs, Arrive(u)
  PROVE  QueueInv' /\ BatchInv'
  <1>1. DOMAIN server' = DOMAIN server \cup {arrived + 1}
    BY DEF Arrive
  <1>2. QED
    BY <1>1 DEF Arrive, QueueInv, BatchInv, history

LEMMA PollKeepsQueue ==
  ASSUME QueueInv, BatchInv, Poll
  PROVE  QueueInv' /\ BatchInv'
  <1> DEFINE held == {id \in DOMAIN server : id >= last + 1}
  <1>1. held # {} /\ DOMAIN server' = held
        /\ bot' = [phase |-> "next", batch |-> held, todo |-> <<>>]
        /\ UNCHANGED <<arrived, last, handled>>
    BY DEF Poll, history
  <1>2. held = (last + 1)..arrived
    BY DEF QueueInv
  <1>3. last < arrived
    BY <1>1, <1>2 DEF QueueInv
  <1>4. QED
    BY <1>1, <1>2, <1>3 DEF QueueInv, BatchInv

(* What is left of the update in hand changes, nothing else.               *)
LEMMA WorkKeepsQueue ==
  ASSUME QueueInv, BatchInv, bot.phase # "poll", NEW todo, Work(todo),
         UNCHANGED <<server, arrived, last>>
  PROVE  QueueInv' /\ BatchInv'
  <1>1. InHand = last + 1
    BY InHandIsNext
  <1>2. bot' = [phase |-> "act", batch |-> bot.batch, todo |-> todo]
    BY DEF Work, BatchInv
  <1>3. handled \subseteq handled' /\ (todo = <<>> => last + 1 \in handled')
    BY <1>1 DEF Work
  <1>4. QED
    BY <1>2, <1>3 DEF QueueInv, BatchInv

LEMMA ConsumeKeepsQueue ==
  ASSUME QueueInv, BatchInv, Consume
  PROVE  QueueInv' /\ BatchInv'
  <1> DEFINE rest == bot.batch \ {last + 1}
  <1>1. bot.phase = "act" /\ bot.todo = <<>>
    BY DEF Consume
  <1>2. InHand = last + 1
    BY <1>1, InHandIsNext
  <1>3. /\ last' = last + 1 /\ UNCHANGED <<server, arrived, handled>>
        /\ bot' = IF rest = {} THEN Idle ELSE [phase |-> "next", batch |-> rest, todo |-> <<>>]
    BY <1>2 DEF Consume, Stored, NextInBatch, telegram
  <1>4. last + 1 \in handled /\ last < arrived /\ rest = (last + 2)..arrived
    BY <1>1 DEF QueueInv, BatchInv
  <1>5. QueueInv'
    BY <1>3, <1>4 DEF QueueInv
  <1>6. BatchInv'
    <2>1. CASE rest = {}
      BY <1>3, <2>1 DEF BatchInv, Idle
    <2>2. CASE rest # {}
      <3>1. last + 1 < arrived
        BY <1>4, <2>2 DEF QueueInv
      <3>2. bot' = [phase |-> "next", batch |-> rest, todo |-> <<>>]
        BY <1>3, <2>2
      <3>3. rest = (last' + 1)..arrived' /\ last' < arrived'
        BY <1>3, <1>4, <3>1 DEF QueueInv
      <3>4. QED
        BY <3>2, <3>3 DEF BatchInv
    <2>3. QED
      BY <2>1, <2>2
  <1>7. QED
    BY <1>5, <1>6

(* An error gives the batch back: run polls again from the same offset.    *)
LEMMA ErrorKeepsQueue ==
  ASSUME QueueInv, BatchInv, bot' = AfterError, UNCHANGED <<telegram, last, handled>>
  PROVE  QueueInv' /\ BatchInv'
  BY DEF QueueInv, BatchInv, AfterError, Idle, telegram

LEMMA QueueUntouched ==
  ASSUME QueueInv, BatchInv, UNCHANGED <<server, arrived, last, bot, handled>>
  PROVE  QueueInv' /\ BatchInv'
  BY DEF QueueInv, BatchInv

LEMMA QueueStep ==
  ASSUME QueueInv, BatchInv, [Next]_vars
  PROVE  QueueInv' /\ BatchInv'
  <1>1. CASE Poll
    BY <1>1, PollKeepsQueue
  <1>2. CASE Take
    <2>1. bot.phase # "poll" /\ UNCHANGED <<server, arrived, last>>
          /\ \E todo : Work(todo)
      BY <1>2 DEF Take, telegram
    <2>2. QED
      BY <2>1, WorkKeepsQueue
  <1>3. CASE Step
    <2>1. bot.phase # "poll" /\ UNCHANGED <<server, arrived, last>>
          /\ Work(Tail(bot.todo))
      BY <1>3 DEF Step, Pending, telegram
    <2>2. QED
      BY <2>1, WorkKeepsQueue
  <1>4. CASE Consume
    BY <1>4, ConsumeKeepsQueue
  <1>5. CASE Refuse
    BY <1>5, ErrorKeepsQueue DEF Refuse, history
  <1>6. CASE \E u \in Inputs : Arrive(u)
    BY <1>6, ArriveKeepsQueue
  <1>7. CASE \/ \E imei \in Imeis : DeviceAppears(imei)
             \/ \E u \in Users : SubscriptionChanges(u)
             \/ \E c \in Chats : BlockBot(c) \/ RideEnds(c)
             \/ \E id \in DOMAIN server : PressExpires(id)
    <2>1. UNCHANGED <<server, arrived, last, bot, handled>>
      BY <1>7 DEF DeviceAppears, SubscriptionChanges, BlockBot, RideEnds, PressExpires, Change,
                  history
    <2>2. QED
      BY <2>1, QueueUntouched
  <1>8. CASE Fail
    BY <1>8, ErrorKeepsQueue DEF Fail, Fault, history
  <1>9. CASE AnswerLost
    BY <1>9, ErrorKeepsQueue DEF AnswerLost, Fault
  <1>10. CASE DeleteRefused
    <2>1. bot.phase # "poll" /\ UNCHANGED <<server, arrived, last>>
          /\ Work(Tail(bot.todo))
      BY <1>10 DEF DeleteRefused, Fault, Pending, telegram
    <2>2. QED
      BY <2>1, WorkKeepsQueue
  <1>11. CASE UNCHANGED vars
    BY <1>11, QueueUntouched DEF vars, telegram, history
  <1>12. QED
    BY <1>1, <1>2, <1>3, <1>4, <1>5, <1>6, <1>7, <1>8, <1>9, <1>10, <1>11
    DEF Next, BotStep, Surroundings

(* "The bot resumes safely using telegram_bot_state": no update is lost    *)
(* that was not handled, wherever process_updates stopped.                 *)
THEOREM SpecNothingSkipped == Spec => []NothingSkipped
  <1>1. QueueInv => NothingSkipped
    <2> SUFFICES ASSUME QueueInv, NEW id \in 1..arrived
                 PROVE  id \in DOMAIN server \cup handled
      BY DEF NothingSkipped
    <2>1. id \in 1..last \/ id \in (last + 1)..arrived
      BY DEF QueueInv
    <2>2. QED
      BY <2>1 DEF QueueInv
  <1>2. QED
    BY <1>1, QueueInit, QueueStep, PTL DEF Spec

-----------------------------------------------------------------------------
(***************************************************************************)
(* Bindings.  Of all effects only "bind" writes bound_imei, and of all     *)
(* handlers only the answer to "send your IMEI" has it: at its beginning,  *)
(* for a user who is not bound.  Nobody else writes telegram_users while   *)
(* the update is in hand.                                                  *)
(***************************************************************************)

Deeds == {"say", "show", "toast", "answer", "delete", "forget", "remember", "ask", "unask",
          "register", "bind", "unkey", "tidy", "settle", "order"}

Effects == [do : Deeds, key : Keys \cup {NULL}]

BindsNobody(todo) ==
  todo \in Seq(Effects) /\ \A i \in 1..Len(todo) : todo[i].do # "bind"

BindsFirst(todo) ==
  todo \in Seq(Effects) /\ \A i \in 2..Len(todo) : todo[i].do # "bind"

LEMMA OneEffect ==
  \A do \in Deeds :
    /\ Effect(do) \in Effects /\ Effect(do).do = do
    /\ \A key \in Keys : On(do, key) \in Effects /\ On(do, key).do = do
  BY DEF On, Effect, Effects

LEMMA OneStep ==
  ASSUME NEW e \in Effects, e.do # "bind"
  PROVE  BindsNobody(<<e>>)
  BY DEF BindsNobody

LEMMA NoStep == BindsNobody(<<>>)
  BY DEF BindsNobody

LEMMA ThenStep ==
  ASSUME NEW s, NEW t, BindsNobody(s), BindsNobody(t)
  PROVE  BindsNobody(s \o t)
  <1>1. s \in Seq(Effects) /\ t \in Seq(Effects)
    BY DEF BindsNobody
  <1>2. s \o t \in Seq(Effects) /\ Len(s \o t) = Len(s) + Len(t)
    BY <1>1
  <1>3. \A i \in 1..Len(s \o t) : (s \o t)[i] = IF i <= Len(s) THEN s[i] ELSE t[i - Len(s)]
    BY <1>1
  <1>4. \A i \in 1..Len(s \o t) : (s \o t)[i].do # "bind"
    <2> SUFFICES ASSUME NEW i \in 1..Len(s \o t) PROVE (s \o t)[i].do # "bind"
      OBVIOUS
    <2>1. CASE i <= Len(s)
      BY <1>1, <1>3, <2>1 DEF BindsNobody
    <2>2. CASE ~(i <= Len(s))
      <3>1. i - Len(s) \in 1..Len(t)
        BY <1>1, <1>2, <2>2
      <3>2. QED
        BY <1>3, <2>2, <3>1 DEF BindsNobody
    <2>3. QED
      BY <2>1, <2>2
  <1>5. QED
    BY <1>2, <1>4 DEF BindsNobody

LEMMA BindThen ==
  ASSUME NEW t, BindsNobody(t), NEW e \in Effects
  PROVE  BindsFirst(<<e>> \o t)
  <1>1. t \in Seq(Effects) /\ <<e>> \in Seq(Effects) /\ Len(<<e>>) = 1
    BY DEF BindsNobody
  <1>2. <<e>> \o t \in Seq(Effects) /\ Len(<<e>> \o t) = 1 + Len(t)
    BY <1>1
  <1>3. \A i \in 2..Len(<<e>> \o t) : (<<e>> \o t)[i] = t[i - 1] /\ i - 1 \in 1..Len(t)
    BY <1>1, <1>2
  <1>4. QED
    BY <1>2, <1>3 DEF BindsNobody, BindsFirst

LEMMA TwoSteps ==
  ASSUME NEW e \in Effects, NEW f \in Effects, e.do # "bind", f.do # "bind"
  PROVE  BindsNobody(<<e, f>>)
  BY DEF BindsNobody

LEMMA SayBinds == BindsNobody(Say)
  BY OneEffect, OneStep DEF Say, Deeds

(* The dialogs and reports.                                                *)
LEMMA DialogBinds ==
  ASSUME NEW u, u.chat \in Chats, NEW slot \in Slots
  PROVE  BindsNobody(Dialog(u, slot)) /\ BindsNobody(Report(u))
  <1>1. CASE u.kind \in Remembered
    <2>1. \A other \in Slots : <<u.chat, u.kind, other>> \in Keys
      BY <1>1, UpdateAssumption DEF Keys, UpdateAssumption
    <2>2. ASSUME NEW key \in Keys
          PROVE  BindsNobody(Withdraw(key))
      <3>1. On("delete", key) \in Effects /\ On("delete", key).do # "bind"
            /\ On("forget", key) \in Effects /\ On("forget", key).do # "bind"
        BY OneEffect DEF Deeds
      <3>2. BindsNobody(<<On("delete", key), On("forget", key)>>)
        BY <3>1, TwoSteps
      <3>3. QED
        BY <3>2, NoStep DEF Withdraw
    <2>3. ASSUME NEW other \in Slots
          PROVE  BindsNobody(Dialog(u, other))
      <3> DEFINE key == <<u.chat, u.kind, other>>
      <3>1. key \in Keys
        BY <2>1
      <3>2. On("show", key) \in Effects /\ On("show", key).do # "bind"
            /\ On("remember", key) \in Effects /\ On("remember", key).do # "bind"
        BY <3>1, OneEffect DEF Deeds
      <3>3. BindsNobody(<<On("show", key), On("remember", key)>>)
        BY <3>2, TwoSteps
      <3>4. BindsNobody(Withdraw(key) \o <<On("show", key), On("remember", key)>>)
        BY <2>2, <3>1, <3>3, ThenStep
      <3>5. QED
        BY <1>1, <3>4 DEF Dialog
    <2>4. "selector" \in Slots /\ "report" \in Slots
      BY DEF Slots
    <2>5. BindsNobody(Withdraw(<<u.chat, u.kind, "selector">>) \o Dialog(u, "report"))
      BY <2>1, <2>2, <2>3, <2>4, ThenStep
    <2>6. QED
      BY <1>1, <2>3, <2>5 DEF Report
  <1>2. CASE u.kind \notin Remembered
    BY <1>2, SayBinds DEF Dialog, Report
  <1>3. QED
    BY <1>1, <1>2

(* ensure_active_subscription_for_callback                                 *)
LEMMA DeniedBinds == \A u : BindsNobody(Denied(u))
  <1>1. BindsNobody(<<Effect("toast")>>) /\ BindsNobody(<<Effect("tidy")>>)
    BY OneEffect, OneStep DEF Deeds
  <1>2. \A u : BindsNobody(IF u.what = "session" THEN <<Effect("tidy")>> ELSE <<>>)
    BY <1>1, NoStep
  <1>3. \A u : BindsNobody(<<Effect("toast")>> \o
                           (IF u.what = "session" THEN <<Effect("tidy")>> ELSE <<>>))
    BY <1>1, <1>2, ThenStep
  <1>4. QED
    BY <1>3, SayBinds, ThenStep DEF Denied

LEMMA SingleSteps ==
  \A do \in Deeds : do # "bind" => BindsNobody(<<Effect(do)>>)
  BY OneEffect, OneStep

LEMMA CommandBinds == \A u : BindsNobody(HandleCommand(u))
  <1>1. BindsNobody(<<Effect("register")>> \o Say)
    BY SingleSteps, SayBinds, ThenStep DEF Deeds
  <1>2. QED
    BY <1>1, SayBinds DEF HandleCommand

LEMMA CustomInputBinds ==
  ASSUME NEW u \in Updates
  PROVE  BindsNobody(CustomInput(u))
  <1> DEFINE v == [u EXCEPT !.kind = asking[u.chat]]
  <1>1. v.chat \in Chats
    BY DEF Updates
  <1>2. BindsNobody(Report(v))
    BY <1>1, DialogBinds DEF Slots
  <1>3. BindsNobody(<<Effect("unask")>>)
    BY SingleSteps DEF Deeds
  <1>4. BindsNobody(<<Effect("unask")>> \o Say) /\ BindsNobody(<<Effect("unask")>> \o Report(v))
    BY <1>2, <1>3, SayBinds, ThenStep
  <1>5. QED
    BY <1>4, SayBinds DEF CustomInput

LEMMA AnalyticsBinds ==
  ASSUME NEW u \in Updates
  PROVE  BindsNobody(HandleAnalytics(u))
  <1>1. /\ BindsNobody(Dialog(u, "selector")) /\ BindsNobody(Report(u))
    BY DialogBinds DEF Updates, Slots
  <1>2. BindsNobody(<<Effect("answer")>>) /\ BindsNobody(<<Effect("ask")>>)
    BY SingleSteps DEF Deeds
  <1>3. BindsNobody(<<Effect("ask")>> \o Dialog(u, "selector"))
    BY <1>1, <1>2, ThenStep
  <1>4. /\ BindsNobody(<<Effect("answer")>> \o Say)
        /\ BindsNobody(<<Effect("answer")>> \o Dialog(u, "selector"))
        /\ BindsNobody(<<Effect("answer")>> \o (<<Effect("ask")>> \o Dialog(u, "selector")))
        /\ BindsNobody(<<Effect("answer")>> \o Report(u))
    BY <1>1, <1>2, <1>3, SayBinds, ThenStep
  <1>5. QED
    BY <1>4, DeniedBinds DEF HandleAnalytics

LEMMA ButtonBinds ==
  ASSUME NEW u
  PROVE  BindsNobody(HandleSession(u)) /\ BindsNobody(HandleAlert(u)) /\ BindsNobody(HandlePayment(u))
  <1>1. /\ BindsNobody(<<Effect("toast")>>) /\ BindsNobody(<<Effect("answer")>>)
        /\ BindsNobody(<<Effect("settle")>>)
    BY SingleSteps DEF Deeds
  <1>2. /\ BindsNobody(<<Effect("answer"), Effect("unkey")>>)
        /\ BindsNobody(<<Effect("order"), Effect("answer")>>)
    BY OneEffect, TwoSteps DEF Deeds
  <1>3. /\ BindsNobody(<<Effect("answer"), Effect("unkey")>> \o Say)
        /\ BindsNobody(<<Effect("order"), Effect("answer")>> \o Say)
        /\ BindsNobody(<<Effect("answer")>> \o Say)
    BY <1>1, <1>2, SayBinds, ThenStep
  <1>4. BindsNobody(<<Effect("answer"), Effect("unkey")>> \o Say \o <<Effect("settle")>>)
    BY <1>1, <1>3, ThenStep
  <1>5. QED
    BY <1>1, <1>3, <1>4, DeniedBinds DEF HandleSession, HandleAlert, HandlePayment

(* handle_message, handle_callback_query: who is bound is not bound anew.  *)
LEMMA HandlerBinds ==
  ASSUME NEW u \in Updates
  PROVE  \/ BindsNobody(Handler(u))
         \/ BindsFirst(Handler(u)) /\ ~IsBound(u.user)
  <1>1. BindsNobody(Say \o Say)
    BY SayBinds, ThenStep
  <1>2. BindsFirst(<<Effect("bind")>> \o Say \o Say)
    <2>1. <<Effect("bind")>> \o Say \o Say = <<Effect("bind")>> \o (Say \o Say)
      BY DEF Say
    <2>2. Effect("bind") \in Effects
      BY OneEffect DEF Deeds
    <2>3. BindsFirst(<<Effect("bind")>> \o (Say \o Say))
      BY <1>1, <2>2, BindThen
    <2>4. QED
      BY <2>1, <2>3
  <1>3. \/ BindsNobody(BindInput(u))
        \/ BindsFirst(BindInput(u)) /\ ~IsBound(u.user)
    <2>1. CASE ~MayBind(u.user)
      BY <2>1, NoStep DEF BindInput
    <2>2. CASE MayBind(u.user) /\ (~Known(u.text) \/ TakenByAnother(u.text, u.user))
      BY <2>2, SayBinds DEF BindInput
    <2>3. CASE MayBind(u.user) /\ Known(u.text) /\ ~TakenByAnother(u.text, u.user)
      <3>1. ~IsBound(u.user)
        BY <2>3 DEF MayBind
      <3>2. QED
        BY <1>2, <2>3, <3>1 DEF BindInput
    <2>4. QED
      BY <2>1, <2>2, <2>3
  <1>4. \/ BindsNobody(HandleText(u))
        \/ BindsFirst(HandleText(u)) /\ ~IsBound(u.user)
    BY <1>3, CustomInputBinds, NoStep DEF HandleText
  <1>5. CASE u.what \in {"start", "help"}
    BY <1>5, CommandBinds DEF Handler
  <1>6. CASE u.what = "text"
    BY <1>4, <1>6 DEF Handler
  <1>7. CASE u.what = "analytics"
    BY <1>7, AnalyticsBinds DEF Handler
  <1>8. CASE u.what \in {"session", "alert", "support", "subscribe"}
    BY <1>8, ButtonBinds DEF Handler
  <1>9. QED
    BY <1>5, <1>6, <1>7, <1>8 DEF Updates

LEMMA DropStep ==
  ASSUME NEW todo, todo # <<>>, BindsNobody(todo) \/ BindsFirst(todo)
  PROVE  /\ BindsNobody(Tail(todo))
         /\ BindsNobody(todo) => Head(todo).do # "bind"
  <1>1. todo \in Seq(Effects)
    BY DEF BindsNobody, BindsFirst
  <1>2. /\ Tail(todo) \in Seq(Effects)
        /\ Len(todo) \in Nat \ {0} /\ Len(Tail(todo)) = Len(todo) - 1
        /\ Head(todo) = todo[1]
        /\ \A i \in 1..Len(Tail(todo)) : Tail(todo)[i] = todo[i + 1]
    BY <1>1
  <1>3. \A i \in 2..Len(todo) : todo[i].do # "bind"
    BY <1>2 DEF BindsNobody, BindsFirst
  <1>4. \A i \in 1..Len(Tail(todo)) : Tail(todo)[i].do # "bind"
    <2> SUFFICES ASSUME NEW i \in 1..Len(Tail(todo)) PROVE Tail(todo)[i].do # "bind"
      OBVIOUS
    <2>1. i + 1 \in 2..Len(todo)
      BY <1>2
    <2>2. QED
      BY <1>2, <1>3, <2>1
  <1>5. BindsNobody(todo) => Head(todo).do # "bind"
    BY <1>2 DEF BindsNobody
  <1>6. QED
    BY <1>2, <1>4, <1>5 DEF BindsNobody

(* telegram_users has a row for every user.                                *)
RowsInv ==
  /\ users = [u \in Users |-> users[u]]
  /\ \A u \in Users :
       users[u] = [imei |-> users[u].imei, chat |-> users[u].chat, status |-> users[u].status]

(* What is left to do for the update in hand does not bind a bound user.   *)
TodoInv ==
  /\ \A id \in DOMAIN server : server[id] \in Updates
  /\ bot.phase = "act" =>
       \/ BindsNobody(bot.todo)
       \/ BindsFirst(bot.todo) /\ ~IsBound(server[InHand].user)

Inv == QueueInv /\ BatchInv /\ RowsInv /\ TodoInv

KeepsBindings == \A u \in Users : IsBound(u) => users'[u].imei = users[u].imei

LEMMA InvInit == Init => Inv
  <1> SUFFICES ASSUME Init PROVE Inv
    OBVIOUS
  <1>1. RowsInv
    BY DEF Init, RowsInv, Unregistered
  <1>2. TodoInv
    BY DEF Init, TodoInv, Idle
  <1>3. QED
    BY <1>1, <1>2, QueueInit DEF Inv

(* Two effects write telegram_users.                                       *)
LEMMA ApplyKeepsBindings ==
  ASSUME RowsInv, NEW u \in Updates, NEW e, Apply(e, u), e.do = "bind" => ~IsBound(u.user)
  PROVE  RowsInv' /\ KeepsBindings
  <1>1. u.user \in Users
    BY DEF Updates
  <1>2. CASE e.do = "register"
    <2>1. users' = [users EXCEPT ![u.user] = Registered(u)]
      BY <1>2 DEF Apply
    <2>2. /\ Registered(u).imei = users[u.user].imei
          /\ Registered(u) = [imei |-> Registered(u).imei, chat |-> Registered(u).chat,
                              status |-> Registered(u).status]
      BY DEF Registered
    <2>3. \A v \in Users : users'[v] = IF v = u.user THEN Registered(u) ELSE users[v]
      BY <2>1 DEF RowsInv
    <2>4. RowsInv'
      BY <2>1, <2>2, <2>3 DEF RowsInv
    <2>5. QED
      BY <2>2, <2>3, <2>4 DEF KeepsBindings
  <1>3. CASE e.do = "bind"
    <2>1. users' = [users EXCEPT ![u.user] = Bound(u)] /\ ~IsBound(u.user)
      BY <1>3 DEF Apply
    <2>2. \A v \in Users : users'[v] = IF v = u.user THEN Bound(u) ELSE users[v]
      BY <2>1 DEF RowsInv
    <2>3. RowsInv'
      BY <2>1, <2>2 DEF RowsInv, Bound
    <2>4. QED
      BY <2>1, <2>2, <2>3 DEF KeepsBindings
  <1>4. CASE e.do \notin {"register", "bind"}
    <2>1. users' = users
      BY <1>4 DEF Apply
    <2>2. QED
      BY <2>1 DEF RowsInv, KeepsBindings
  <1>5. QED
    BY <1>2, <1>3, <1>4

(* The update in hand is worked at with the server's queue as it is.       *)
LEMMA InHandIsUpdate ==
  ASSUME Inv, bot.phase # "poll"
  PROVE  server[InHand] \in Updates
  BY InHandIsNext DEF Inv, TodoInv

LEMMA TakeBinds ==
  ASSUME Inv, Take
  PROVE  RowsInv' /\ TodoInv' /\ KeepsBindings
  <1>1. bot.phase # "poll" /\ UNCHANGED <<server, users>>
    BY DEF Take, telegram, tables
  <1>2. /\ bot' = [phase |-> "act", batch |-> bot.batch, todo |-> Handler(server[InHand])]
    BY DEF Take, Work, Inv, BatchInv
  <1>3. InHand' = InHand
    BY <1>2 DEF InHand
  <1>4. \/ BindsNobody(Handler(server[InHand]))
        \/ BindsFirst(Handler(server[InHand])) /\ ~IsBound(server[InHand].user)
    BY <1>1, InHandIsUpdate, HandlerBinds
  <1>5. QED
    BY <1>1, <1>2, <1>3, <1>4 DEF Inv, RowsInv, TodoInv, KeepsBindings, IsBound, BindsNobody, BindsFirst

(* One effect further, whether or not it was done.                         *)
LEMMA TailBinds ==
  ASSUME Inv, Pending, Work(Tail(bot.todo)), server' = server
  PROVE  TodoInv'
  <1>1. bot' = [phase |-> "act", batch |-> bot.batch, todo |-> Tail(bot.todo)]
    BY DEF Pending, Work, Inv, BatchInv
  <1>2. BindsNobody(Tail(bot.todo))
    BY DropStep DEF Pending, Inv, TodoInv
  <1>3. QED
    BY <1>1, <1>2 DEF Inv, TodoInv, BindsNobody

LEMMA HeadBinds ==
  ASSUME Inv, Pending, Apply(Head(bot.todo), server[InHand])
  PROVE  RowsInv' /\ KeepsBindings
  <1>1. server[InHand] \in Updates
    BY InHandIsUpdate DEF Pending
  <1>2. Head(bot.todo).do = "bind" => ~IsBound(server[InHand].user)
    BY DropStep DEF Pending, Inv, TodoInv
  <1>3. QED
    BY <1>1, <1>2, ApplyKeepsBindings DEF Inv

(* Nothing in hand is left.                                                *)
LEMMA NotActing ==
  ASSUME Inv, \A id \in DOMAIN server' : server'[id] \in Updates, bot'.phase # "act"
  PROVE  TodoInv'
  BY DEF TodoInv

LEMMA UsersUntouched ==
  ASSUME Inv, UNCHANGED users
  PROVE  RowsInv' /\ KeepsBindings
  BY DEF Inv, RowsInv, KeepsBindings

LEMMA TodoUntouched ==
  ASSUME Inv, UNCHANGED <<server, users, bot>>
  PROVE  TodoInv'
  <1>1. InHand' = InHand
    BY DEF InHand
  <1>2. QED
    BY <1>1 DEF Inv, TodoInv, IsBound, BindsNobody, BindsFirst

LEMMA StepBinds ==
  ASSUME Inv, [Next]_vars
  PROVE  RowsInv' /\ TodoInv' /\ KeepsBindings
  <1>1. CASE Poll
    <2>1. UNCHANGED users /\ bot'.phase = "next"
          /\ \A id \in DOMAIN server' : id \in DOMAIN server /\ server'[id] = server[id]
      BY <1>1 DEF Poll, tables
    <2>2. \A id \in DOMAIN server' : server'[id] \in Updates
      BY <2>1 DEF Inv, TodoInv
    <2>3. QED
      BY <2>1, <2>2, UsersUntouched, NotActing
  <1>2. CASE Take
    BY <1>2, TakeBinds
  <1>3. CASE Step
    BY <1>3, HeadBinds, TailBinds DEF Step, telegram
  <1>4. CASE Consume
    <2>1. UNCHANGED <<server, users>> /\ bot'.phase # "act"
      BY <1>4 DEF Consume, NextInBatch, Idle, telegram, tables
    <2>2. QED
      BY <2>1, UsersUntouched, NotActing DEF Inv, TodoInv
  <1>5. CASE Refuse \/ Fail
    <2>1. UNCHANGED <<server, users>> /\ bot'.phase # "act"
      BY <1>5 DEF Refuse, Fail, Fault, AfterError, Idle, telegram, tables
    <2>2. QED
      BY <2>1, UsersUntouched, NotActing DEF Inv, TodoInv
  <1>6. CASE AnswerLost
    <2>1. server' = server /\ bot'.phase # "act"
      BY <1>6 DEF AnswerLost, Fault, AfterError, Idle, telegram
    <2>2. QED
      BY <1>6, <2>1, HeadBinds, NotActing DEF AnswerLost, Inv, TodoInv
  <1>7. CASE DeleteRefused
    <2>1. UNCHANGED <<server, users>>
      BY <1>7 DEF DeleteRefused, Fault, telegram, tables
    <2>2. QED
      BY <1>7, <2>1, TailBinds, UsersUntouched DEF DeleteRefused
  <1>8. ASSUME NEW u \in Inputs, Arrive(u)
        PROVE  RowsInv' /\ TodoInv' /\ KeepsBindings
    <2>1. UNCHANGED <<users, bot>> /\ bot.phase = "poll"
      BY <1>8 DEF Arrive, tables
    <2>2. \A id \in DOMAIN server' :
            \/ server'[id] = u
            \/ id \in DOMAIN server /\ server'[id] = server[id]
      BY <1>8 DEF Arrive
    <2>3. u \in Updates /\ \A id \in DOMAIN server : server[id] \in Updates
      BY UpdateAssumption DEF UpdateAssumption, Inv, TodoInv
    <2>4. \A id \in DOMAIN server' : server'[id] \in Updates
      <3> SUFFICES ASSUME NEW id \in DOMAIN server' PROVE server'[id] \in Updates
        OBVIOUS
      <3>1. QED
        BY <2>2, <2>3
    <2>5. QED
      BY <2>1, <2>4, UsersUntouched, NotActing
  <1>9. CASE \/ \E imei \in Imeis : DeviceAppears(imei)
             \/ \E u \in Users : SubscriptionChanges(u)
             \/ \E c \in Chats : BlockBot(c) \/ RideEnds(c)
             \/ \E id \in DOMAIN server : PressExpires(id)
    <2>1. UNCHANGED <<server, users, bot>>
      BY <1>9 DEF DeviceAppears, SubscriptionChanges, BlockBot, RideEnds, PressExpires, Change
    <2>2. QED
      BY <2>1, UsersUntouched, TodoUntouched
  <1>10. CASE UNCHANGED vars
    <2>1. UNCHANGED <<server, users, bot>>
      BY <1>10 DEF vars, telegram, tables
    <2>2. QED
      BY <2>1, UsersUntouched, TodoUntouched
  <1>11. QED
    BY <1>1, <1>2, <1>3, <1>4, <1>5, <1>6, <1>7, <1>8, <1>9, <1>10
    DEF Next, BotStep, Surroundings

(* "One Telegram user binds to one device": whoever is bound stays bound   *)
(* to it, whatever is sent, handled again or cut off in the middle.        *)
THEOREM SpecBindingIsForLife == Spec => BindingIsForLife
  <1>1. Inv /\ [Next]_vars => Inv'
    BY QueueStep, StepBinds DEF Inv
  <1>2. Inv /\ [Next]_vars => [KeepsBindings]_vars
    BY StepBinds
  <1>3. Spec => [][KeepsBindings]_vars
    BY <1>1, <1>2, InvInit, PTL DEF Spec
  <1>4. QED
    BY <1>3 DEF BindingIsForLife, KeepsBindings

-----------------------------------------------------------------------------
(***************************************************************************)
(* The effects of a handler, as a set and in their order.                  *)
(***************************************************************************)

EffectsOf(t) == {t[i] : i \in 1..Len(t)}

Dialogs == {"delete", "forget", "show", "remember"}

(* A message is forgotten behind its deletion, and remembered behind its   *)
(* sending, which ends the handler.                                        *)
Plan(t) ==
  /\ t \in Seq(Effects)
  /\ \A i \in 1..Len(t) : t[i].do \in Dialogs => t[i].key \in Keys
  /\ \A i \in 2..Len(t) : t[i].do = "forget" => t[i - 1] = On("delete", t[i].key)
  /\ \A i \in 2..Len(t) : t[i].do = "remember" => t[i - 1] = On("show", t[i].key)
  /\ \A i \in 1..Len(t) :
       t[i].do = "show" => i < Len(t) /\ t[i + 1] = On("remember", t[i].key)
  /\ \A i \in 1..Len(t) : t[i].do = "remember" => i = Len(t)

(* A message is sent where none is remembered, or will be by then.         *)
Cleared(t, shown) ==
  \A k \in Keys : On("show", k) \in EffectsOf(t) =>
    shown[k] # "shown" \/ On("forget", k) \in EffectsOf(t)

Replying(t) == \E e \in EffectsOf(t) : e.do \in Replies

LEMMA EffectFields ==
  /\ \A e \in Effects : e.do \in Deeds /\ e = On(e.do, e.key)
  /\ \A do, key : On(do, key).do = do /\ On(do, key).key = key
  /\ \A do : Effect(do) = On(do, NULL)
  BY DEF Effects, On, Effect

LEMMA EffectsJoin ==
  ASSUME NEW s \in Seq(Effects), NEW t \in Seq(Effects)
  PROVE  EffectsOf(s \o t) = EffectsOf(s) \cup EffectsOf(t)
  <1>1. Len(s \o t) = Len(s) + Len(t) /\ Len(s) \in Nat /\ Len(t) \in Nat
    OBVIOUS
  <1>2. \A i \in 1..Len(s \o t) : (s \o t)[i] = IF i <= Len(s) THEN s[i] ELSE t[i - Len(s)]
    OBVIOUS
  <1>3. ASSUME NEW e \in EffectsOf(s \o t) PROVE e \in EffectsOf(s) \cup EffectsOf(t)
    <2>1. PICK i \in 1..Len(s \o t) : e = (s \o t)[i]
      BY DEF EffectsOf
    <2>2. CASE i <= Len(s)
      <3>1. i \in 1..Len(s) /\ e = s[i]
        BY <1>1, <1>2, <2>1, <2>2
      <3>2. QED
        BY <3>1 DEF EffectsOf
    <2>3. CASE ~(i <= Len(s))
      <3>1. i - Len(s) \in 1..Len(t) /\ e = t[i - Len(s)]
        BY <1>1, <1>2, <2>1, <2>3
      <3>2. QED
        BY <3>1, Zenon DEF EffectsOf
    <2>4. QED
      BY <2>2, <2>3
  <1>4. ASSUME NEW i \in 1..Len(s) PROVE s[i] \in EffectsOf(s \o t)
    <2>1. i \in 1..Len(s \o t) /\ (s \o t)[i] = s[i]
      BY <1>1, <1>2
    <2>2. QED
      BY <2>1, Zenon DEF EffectsOf
  <1>5. ASSUME NEW i \in 1..Len(t) PROVE t[i] \in EffectsOf(s \o t)
    <2>1. i + Len(s) \in 1..Len(s \o t) /\ (s \o t)[i + Len(s)] = t[i]
      BY <1>1, <1>2
    <2>2. QED
      BY <2>1, Zenon DEF EffectsOf
  <1>6. EffectsOf(s) \cup EffectsOf(t) \subseteq EffectsOf(s \o t)
    BY <1>4, <1>5 DEF EffectsOf
  <1>7. QED
    BY <1>3, <1>6

LEMMA EffectsFew ==
  /\ EffectsOf(<<>>) = {}
  /\ \A e : EffectsOf(<<e>>) = {e}
  /\ \A e, f : EffectsOf(<<e, f>>) = {e, f}
  BY DEF EffectsOf

LEMMA EffectsBehind ==
  ASSUME NEW e \in Effects, NEW t \in Seq(Effects)
  PROVE  EffectsOf(<<e>> \o t) = {e} \cup EffectsOf(t)
  <1>1. <<e>> \in Seq(Effects)
    OBVIOUS
  <1>2. EffectsOf(<<e>> \o t) = EffectsOf(<<e>>) \cup EffectsOf(t)
    BY <1>1, EffectsJoin, Zenon
  <1>3. QED
    BY <1>2, EffectsFew, Zenon

LEMMA EffectsTail ==
  ASSUME NEW t \in Seq(Effects), t # <<>>
  PROVE  /\ Head(t) \in Effects /\ Tail(t) \in Seq(Effects)
         /\ EffectsOf(t) = {Head(t)} \cup EffectsOf(Tail(t))
  <1>1. /\ Head(t) = t[1] /\ Len(t) \in Nat \ {0}
        /\ Tail(t) \in Seq(Effects) /\ Len(Tail(t)) = Len(t) - 1
        /\ \A i \in 1..Len(Tail(t)) : Tail(t)[i] = t[i + 1]
    OBVIOUS
  <1>2. Head(t) \in Effects /\ Head(t) \in EffectsOf(t)
    BY <1>1 DEF EffectsOf
  <1>3. ASSUME NEW i \in 1..Len(t) PROVE t[i] \in {Head(t)} \cup EffectsOf(Tail(t))
    <2>1. CASE i = 1
      BY <1>1, <2>1
    <2>2. CASE i # 1
      <3>1. i - 1 \in 1..Len(Tail(t)) /\ Tail(t)[i - 1] = t[i]
        BY <1>1, <2>2
      <3>2. QED
        BY <3>1, Zenon DEF EffectsOf
    <2>3. QED
      BY <2>1, <2>2
  <1>4. ASSUME NEW i \in 1..Len(Tail(t)) PROVE Tail(t)[i] \in EffectsOf(t)
    <2>1. i + 1 \in 1..Len(t) /\ Tail(t)[i] = t[i + 1]
      BY <1>1
    <2>2. QED
      BY <2>1, Zenon DEF EffectsOf
  <1>5. EffectsOf(t) \subseteq {Head(t)} \cup EffectsOf(Tail(t))
    BY <1>3 DEF EffectsOf
  <1>6. EffectsOf(Tail(t)) \subseteq EffectsOf(t)
    BY <1>4 DEF EffectsOf
  <1>7. QED
    BY <1>1, <1>2, <1>5, <1>6

(* Effects that touch no dialog follow each other as they like.            *)
Steady(t) == t \in Seq(Effects) /\ \A e \in EffectsOf(t) : e.do \notin Dialogs

LEMMA SteadyPlan ==
  ASSUME NEW t, Steady(t)
  PROVE  Plan(t) /\ \A shown : Cleared(t, shown)
  <1>1. t \in Seq(Effects) /\ \A i \in 1..Len(t) : t[i].do \notin Dialogs
    BY DEF Steady, EffectsOf
  <1>2. Plan(t)
    BY <1>1 DEF Plan, Dialogs
  <1>3. \A k \in Keys : On("show", k) \notin EffectsOf(t)
    BY EffectFields DEF Steady, Dialogs
  <1>4. QED
    BY <1>2, <1>3 DEF Cleared

LEMMA SteadyJoin ==
  ASSUME NEW s, NEW t, Steady(s), Steady(t) PROVE Steady(s \o t)
  <1>1. s \in Seq(Effects) /\ t \in Seq(Effects)
    BY DEF Steady
  <1>2. s \o t \in Seq(Effects) /\ EffectsOf(s \o t) = EffectsOf(s) \cup EffectsOf(t)
    BY <1>1, EffectsJoin
  <1>3. QED
    BY <1>2 DEF Steady

LEMMA SteadyFew ==
  /\ Steady(<<>>)
  /\ \A do \in Deeds \ Dialogs : Steady(<<Effect(do)>>)
  /\ \A do, other \in Deeds \ Dialogs : Steady(<<Effect(do), Effect(other)>>)
  <1>1. Steady(<<>>)
    BY EffectsFew DEF Steady
  <1>2. ASSUME NEW do \in Deeds \ Dialogs, NEW other \in Deeds \ Dialogs
        PROVE  Steady(<<Effect(do)>>) /\ Steady(<<Effect(do), Effect(other)>>)
    <2>1. /\ Effect(do) \in Effects /\ Effect(do).do = do
          /\ Effect(other) \in Effects /\ Effect(other).do = other
      BY OneEffect
    <2>2. <<Effect(do)>> \in Seq(Effects) /\ <<Effect(do), Effect(other)>> \in Seq(Effects)
      BY <2>1
    <2>3. QED
      BY <2>1, <2>2, EffectsFew DEF Steady
  <1>3. QED
    BY <1>1, <1>2

(* One effect in front of a plan.                                          *)
LEMMA PlanGrows ==
  ASSUME NEW t, Plan(t), NEW e \in Effects,
         e.do \in Dialogs => e.key \in Keys,
         t # <<>> /\ t[1].do = "forget" => e = On("delete", t[1].key),
         t # <<>> /\ t[1].do = "remember" => e = On("show", t[1].key),
         e.do = "show" => t # <<>> /\ t[1] = On("remember", e.key),
         e.do = "remember" => t = <<>>
  PROVE  Plan(<<e>> \o t)
  <1> DEFINE p == <<e>> \o t
  <1>1. t \in Seq(Effects) /\ Len(t) \in Nat /\ (Len(t) = 0 <=> t = <<>>)
    BY DEF Plan
  <1>2. /\ p \in Seq(Effects) /\ Len(p) = Len(t) + 1 /\ p[1] = e
        /\ \A i \in 2..Len(p) : p[i] = t[i - 1] /\ i - 1 \in 1..Len(t)
    BY <1>1
  <1> HIDE DEF p
  <1>3. \A i \in 1..Len(p) : i = 1 \/ i \in 2..Len(p)
    BY <1>1, <1>2
  <1>4. \A i \in 1..Len(p) : p[i].do \in Dialogs => p[i].key \in Keys
    BY <1>2, <1>3 DEF Plan
  <1>5. ASSUME NEW i \in 2..Len(p)
        PROVE  /\ p[i].do = "forget" => p[i - 1] = On("delete", p[i].key)
               /\ p[i].do = "remember" => p[i - 1] = On("show", p[i].key)
    <2>1. CASE i = 2
      <3>1. p[i] = t[1] /\ p[i - 1] = e /\ t # <<>>
        BY <1>1, <1>2, <2>1
      <3>2. QED
        BY <3>1
    <2>2. CASE i # 2
      <3>1. p[i] = t[i - 1] /\ p[i - 1] = t[(i - 1) - 1] /\ i - 1 \in 2..Len(t)
        BY <1>1, <1>2, <2>2
      <3>2. QED
        BY <3>1 DEF Plan
    <2>3. QED
      BY <2>1, <2>2
  <1>6. ASSUME NEW i \in 1..Len(p)
        PROVE  /\ p[i].do = "show" => i < Len(p) /\ p[i + 1] = On("remember", p[i].key)
               /\ p[i].do = "remember" => i = Len(p)
    <2>1. CASE i = 1
      <3>1. e.do = "show" => Len(p) > 1 /\ p[2] = t[1]
        BY <1>1, <1>2
      <3>2. e.do = "remember" => Len(p) = 1
        BY <1>1, <1>2
      <3>3. QED
        BY <1>2, <2>1, <3>1, <3>2
    <2>2. CASE i # 1
      <3>1. p[i] = t[i - 1] /\ i - 1 \in 1..Len(t)
        BY <1>2, <1>3, <2>2
      <3>2. p[i].do = "remember" => i = Len(p)
        BY <1>1, <1>2, <3>1 DEF Plan
      <3>3. ASSUME p[i].do = "show" PROVE i < Len(p) /\ p[i + 1] = On("remember", p[i].key)
        <4>1. i - 1 < Len(t) /\ t[(i - 1) + 1] = On("remember", p[i].key)
          BY <3>1, <3>3 DEF Plan
        <4>2. i + 1 \in 2..Len(p) /\ p[i + 1] = t[i] /\ i < Len(p)
          BY <1>1, <1>2, <3>1, <4>1
        <4>3. QED
          BY <4>1, <4>2, <3>1
      <3>4. QED
        BY <3>2, <3>3
    <2>3. QED
      BY <2>1, <2>2
  <1>7. Plan(p)
    BY <1>2, <1>4, <1>5, <1>6 DEF Plan
  <1>8. QED
    BY <1>7 DEF p

(* One effect done.                                                        *)
LEMMA PlanShrinks ==
  ASSUME NEW t, Plan(t), t # <<>>
  PROVE  /\ Plan(Tail(t))
         /\ Tail(t) # <<>> =>
              /\ Head(Tail(t)).do = "forget" => Head(t) = On("delete", Head(Tail(t)).key)
              /\ Head(Tail(t)).do = "remember" => Head(t) = On("show", Head(Tail(t)).key)
         /\ Head(t).do \in Dialogs => Head(t).key \in Keys
         /\ Head(t).do = "show" => Tail(t) = <<On("remember", Head(t).key)>>
         /\ Head(t).do = "remember" => Tail(t) = <<>>
  <1> DEFINE r == Tail(t)
  <1>1. /\ t \in Seq(Effects) /\ Head(t) = t[1] /\ Len(t) \in Nat \ {0}
        /\ r \in Seq(Effects) /\ Len(r) = Len(t) - 1
        /\ \A i \in 1..Len(r) : r[i] = t[i + 1] /\ i + 1 \in 2..Len(t)
        /\ r # <<>> => Head(r) = r[1] /\ Len(r) > 0
        /\ Len(r) = 0 => r = <<>>
    BY DEF Plan
  <1> HIDE DEF r
  <1>2. \A i \in 1..Len(r) : r[i].do \in Dialogs => r[i].key \in Keys
    <2>1. \A i \in 1..Len(t) : t[i].do \in Dialogs => t[i].key \in Keys
      BY DEF Plan
    <2>2. \A i \in 1..Len(r) : r[i] = t[i + 1] /\ i + 1 \in 1..Len(t)
      BY <1>1
    <2>3. QED
      BY <2>1, <2>2, Zenon
  <1>3. ASSUME NEW i \in 2..Len(r)
        PROVE  /\ r[i].do = "forget" => r[i - 1] = On("delete", r[i].key)
               /\ r[i].do = "remember" => r[i - 1] = On("show", r[i].key)
    <2>1. r[i] = t[i + 1] /\ r[i - 1] = t[(i + 1) - 1] /\ i + 1 \in 2..Len(t)
      <3>1. i \in 1..Len(r) /\ i - 1 \in 1..Len(r)
        BY <1>1
      <3>2. r[i] = t[i + 1] /\ r[i - 1] = t[(i - 1) + 1] /\ i + 1 \in 2..Len(t)
        BY <1>1, <3>1, Zenon
      <3>3. (i - 1) + 1 = (i + 1) - 1
        BY <3>1
      <3>4. QED
        BY <3>2, <3>3, Zenon
    <2>2. \A j \in 2..Len(t) :
            /\ t[j].do = "forget" => t[j - 1] = On("delete", t[j].key)
            /\ t[j].do = "remember" => t[j - 1] = On("show", t[j].key)
      BY DEF Plan
    <2>3. QED
      BY <2>1, <2>2, Zenon
  <1>4. ASSUME NEW i \in 1..Len(r)
        PROVE  /\ r[i].do = "show" => i < Len(r) /\ r[i + 1] = On("remember", r[i].key)
               /\ r[i].do = "remember" => i = Len(r)
    <2>1. r[i] = t[i + 1] /\ i + 1 \in 1..Len(t)
      BY <1>1
    <2>2. r[i].do = "remember" => i = Len(r)
      BY <1>1, <2>1 DEF Plan
    <2>3. ASSUME r[i].do = "show" PROVE i < Len(r) /\ r[i + 1] = On("remember", r[i].key)
      <3>1. i + 1 < Len(t) /\ t[(i + 1) + 1] = On("remember", r[i].key)
        BY <2>1, <2>3 DEF Plan
      <3>2. i < Len(r) /\ r[i + 1] = t[(i + 1) + 1]
        BY <1>1, <3>1
      <3>3. QED
        BY <3>1, <3>2
    <2>4. QED
      BY <2>2, <2>3
  <1>5. Plan(r)
    BY ONLY <1>1, <1>2, <1>3, <1>4 DEF Plan
  <1>6. r # <<>> =>
          /\ Head(r).do = "forget" => Head(t) = On("delete", Head(r).key)
          /\ Head(r).do = "remember" => Head(t) = On("show", Head(r).key)
    <2>1. r # <<>> => Head(r) = t[2] /\ Head(t) = t[2 - 1] /\ 2 \in 2..Len(t)
      BY <1>1
    <2>2. \A i \in 2..Len(t) :
            /\ t[i].do = "forget" => t[i - 1] = On("delete", t[i].key)
            /\ t[i].do = "remember" => t[i - 1] = On("show", t[i].key)
      BY DEF Plan
    <2>3. QED
      BY <2>1, <2>2
  <1>7. Head(t).do \in Dialogs => Head(t).key \in Keys
    BY <1>1 DEF Plan
  <1>8. Head(t).do = "remember" => r = <<>>
    <2>1. Head(t).do = "remember" => 1 = Len(t)
      BY <1>1 DEF Plan
    <2>2. QED
      BY <1>1, <2>1
  <1>9. ASSUME Head(t).do = "show" PROVE r = <<On("remember", Head(t).key)>>
    <2>1. 1 < Len(t) /\ t[1 + 1] = On("remember", Head(t).key)
      BY <1>1, <1>9 DEF Plan
    <2>2. t[2].do = "remember"
      BY <2>1, EffectFields
    <2>3. Len(t) = 2
      BY <1>1, <2>1, <2>2 DEF Plan
    <2>4. Len(r) = 1 /\ r[1] = On("remember", Head(t).key)
      BY <1>1, <2>1, <2>3
    <2>5. QED
      BY <1>1, <2>4
  <1>10. QED
    BY <1>5, <1>6, <1>7, <1>8, <1>9 DEF r

(***************************************************************************)
(* What the handlers plan.                                                 *)
(***************************************************************************)

(* A plan to begin with: nothing is forgotten or remembered first.         *)
Good(t) ==
  /\ Plan(t) /\ Cleared(t, remembered)
  /\ t # <<>> => t[1].do \notin {"forget", "remember"}

LEMMA SteadyGood == ASSUME NEW t, Steady(t) PROVE Good(t)
  <1>1. Plan(t) /\ Cleared(t, remembered)
    BY SteadyPlan
  <1>2. t # <<>> => t[1] \in EffectsOf(t)
    <2>1. t \in Seq(Effects)
      BY DEF Steady
    <2>2. t # <<>> => 1 \in 1..Len(t)
      BY <2>1
    <2>3. QED
      BY <2>2 DEF EffectsOf
  <1>3. QED
    BY <1>1, <1>2 DEF Good, Steady, Dialogs

LEMMA GoodAfter ==
  ASSUME NEW t, Good(t), NEW do \in Deeds \ Dialogs
  PROVE  Good(<<Effect(do)>> \o t)
  <1>1. Effect(do) \in Effects /\ Effect(do).do = do
    BY OneEffect
  <1>2. t \in Seq(Effects) /\ do # "show" /\ do # "remember"
    BY DEF Good, Plan, Dialogs
  <1>3. Plan(<<Effect(do)>> \o t)
    BY <1>1, <1>2, PlanGrows DEF Good
  <1>4. EffectsOf(<<Effect(do)>> \o t) = {Effect(do)} \cup EffectsOf(t)
    BY <1>1, <1>2, EffectsBehind, Zenon
  <1>5. Cleared(<<Effect(do)>> \o t, remembered)
    <2>1. \A k : On("show", k) # Effect(do)
      BY <1>1, <1>2, EffectFields
    <2>2. QED
      BY <1>4, <2>1 DEF Good, Cleared
  <1>6. (<<Effect(do)>> \o t)[1] = Effect(do)
    BY <1>1, <1>2
  <1>7. QED
    BY <1>1, <1>3, <1>5, <1>6 DEF Good, Dialogs

(* delete_remembered_analytics_message in front of a plan.                 *)
LEMMA WithdrawPlan ==
  ASSUME NEW t, Plan(t), t # <<>> => t[1].do \notin {"forget", "remember"}, NEW k \in Keys
  PROVE  /\ Plan(Withdraw(k) \o t)
         /\ Withdraw(k) \o t # <<>> =>
              (Withdraw(k) \o t)[1].do \notin {"forget", "remember"}
         /\ EffectsOf(t) \subseteq EffectsOf(Withdraw(k) \o t)
         /\ EffectsOf(Withdraw(k) \o t) \subseteq
              {On("delete", k), On("forget", k)} \cup EffectsOf(t)
         /\ remembered[k] # NULL => On("forget", k) \in EffectsOf(Withdraw(k) \o t)
  <1>1. t \in Seq(Effects)
    BY DEF Plan
  <1>2. CASE remembered[k] = NULL
    <2>1. Withdraw(k) \o t = t
      BY <1>1, <1>2 DEF Withdraw
    <2>2. QED
      BY <1>2, <2>1
  <1>3. CASE remembered[k] # NULL
    <2> DEFINE d == On("delete", k)
               f == On("forget", k)
               s == <<f>> \o t
    <2>1. d \in Effects /\ f \in Effects /\ d.do = "delete" /\ f.do = "forget" /\ f.key = k
          /\ d.key = k
      BY OneEffect, EffectFields DEF Deeds
    <2>2. Withdraw(k) \o t = <<d>> \o s
      <3>1. Withdraw(k) = <<d, f>>
        BY <1>3 DEF Withdraw
      <3>2. <<d, f>> \o t = <<d>> \o (<<f>> \o t)
        BY <1>1, <2>1
      <3>3. QED
        BY <3>1, <3>2
    <2>3. Plan(s) /\ s # <<>> /\ s[1] = f /\ s \in Seq(Effects)
      <3>1. Plan(s)
        BY <2>1, PlanGrows
      <3>2. QED
        BY <1>1, <2>1, <3>1
    <2> HIDE DEF s
    <2>4. Plan(<<d>> \o s)
      BY <2>1, <2>3, PlanGrows
    <2>5. <<d>> \o s # <<>> /\ (<<d>> \o s)[1] = d
      BY <2>1, <2>3
    <2>6. EffectsOf(s) = {f} \cup EffectsOf(t)
      BY <1>1, <2>1, EffectsBehind, Zenon DEF s
    <2>7. EffectsOf(<<d>> \o s) = {d} \cup EffectsOf(s)
      BY <2>1, <2>3, EffectsBehind, Zenon
    <2>8. QED
      BY <2>1, <2>2, <2>4, <2>5, <2>6, <2>7
  <1>4. QED
    BY <1>2, <1>3

LEMMA DialogGood ==
  ASSUME NEW u, u.chat \in Chats, NEW slot \in Slots
  PROVE  /\ Good(Dialog(u, slot)) /\ Replying(Dialog(u, slot))
         /\ \A e \in EffectsOf(Dialog(u, slot)) : e.do \in Dialogs \cup {"say"}
  <1>1. CASE u.kind \in Remembered
    <2> DEFINE k == <<u.chat, u.kind, slot>>
               t == <<On("show", k), On("remember", k)>>
    <2>1. k \in Keys
      BY <1>1, UpdateAssumption DEF Keys, UpdateAssumption
    <2>2. Dialog(u, slot) = Withdraw(k) \o t
      BY <1>1 DEF Dialog
    <2> HIDE DEF k
    <2>3. /\ On("show", k) \in Effects /\ On("remember", k) \in Effects
          /\ On("show", k).do = "show" /\ On("remember", k).do = "remember"
          /\ On("show", k).key = k /\ On("remember", k).key = k
      BY <2>1, OneEffect, EffectFields DEF Deeds
    <2>4. EffectsOf(t) = {On("show", k), On("remember", k)}
      BY EffectsFew
    <2>5. Plan(t) /\ t # <<>> /\ t[1] = On("show", k)
      <3>1. Plan(<<>>)
        BY NoStep, SteadyFew, SteadyPlan
      <3>2. <<On("remember", k)>> \o <<>> = <<On("remember", k)>>
        BY <2>3
      <3>3. Plan(<<On("remember", k)>>)
        <4>1. Plan(<<On("remember", k)>> \o <<>>)
          BY <2>1, <2>3, <3>1, PlanGrows
        <4>2. QED
          BY <3>2, <4>1
      <3>4. t = <<On("show", k)>> \o <<On("remember", k)>>
        BY <2>3
      <3>5. Plan(<<On("show", k)>> \o <<On("remember", k)>>)
        <4>1. <<On("remember", k)>> # <<>> /\ <<On("remember", k)>>[1] = On("remember", k)
          BY <2>3
        <4>2. QED
          BY <2>1, <2>3, <3>3, <4>1, PlanGrows
      <3>6. QED
        BY <3>4, <3>5
    <2> HIDE DEF t
    <2>6. /\ Plan(Dialog(u, slot))
          /\ Dialog(u, slot) # <<>> => Dialog(u, slot)[1].do \notin {"forget", "remember"}
          /\ EffectsOf(t) \subseteq EffectsOf(Dialog(u, slot))
          /\ EffectsOf(Dialog(u, slot)) \subseteq
               {On("delete", k), On("forget", k)} \cup EffectsOf(t)
          /\ remembered[k] # NULL => On("forget", k) \in EffectsOf(Dialog(u, slot))
      BY <2>1, <2>2, <2>3, <2>5, WithdrawPlan
    <2>7. Cleared(Dialog(u, slot), remembered)
      <3>1. \A j : On("show", j) \in EffectsOf(Dialog(u, slot)) => j = k
        BY <2>4, <2>6, EffectFields
      <3>2. remembered[k] # "shown" \/ remembered[k] # NULL
        BY UpdateAssumption DEF UpdateAssumption
      <3>3. QED
        BY <2>6, <3>1, <3>2 DEF Cleared
    <2>8. \A e \in EffectsOf(Dialog(u, slot)) : e.do \in Dialogs
      BY <2>3, <2>4, <2>6, EffectFields DEF Dialogs
    <2>9. Replying(Dialog(u, slot))
      BY <2>3, <2>4, <2>6 DEF Replying, Replies
    <2>10. QED
      BY <2>6, <2>7, <2>8, <2>9 DEF Good
  <1>2. CASE u.kind \notin Remembered
    <2>1. Dialog(u, slot) = <<Effect("say")>>
      BY <1>2 DEF Dialog, Say
    <2>2. Good(<<Effect("say")>>)
      BY SteadyFew, SteadyGood DEF Deeds, Dialogs
    <2>3. EffectsOf(<<Effect("say")>>) = {Effect("say")} /\ Effect("say").do = "say"
      BY EffectsFew, EffectFields
    <2>4. QED
      BY <2>1, <2>2, <2>3 DEF Replying, Replies
  <1>3. QED
    BY <1>1, <1>2

LEMMA ReportGood ==
  ASSUME NEW u, u.chat \in Chats
  PROVE  /\ Good(Report(u)) /\ Replying(Report(u))
         /\ \A e \in EffectsOf(Report(u)) : e.do \in Dialogs \cup {"say"}
  <1>1. CASE u.kind \in Remembered
    <2> DEFINE k == <<u.chat, u.kind, "selector">>
               t == Dialog(u, "report")
    <2>1. k \in Keys /\ "report" \in Slots
      BY <1>1, UpdateAssumption DEF Keys, UpdateAssumption, Slots
    <2>2. Report(u) = Withdraw(k) \o t
      BY <1>1 DEF Report
    <2>3. Good(t) /\ Replying(t) /\ \A e \in EffectsOf(t) : e.do \in Dialogs \cup {"say"}
      BY <2>1, DialogGood
    <2> HIDE DEF k, t
    <2>4. /\ Plan(Report(u))
          /\ Report(u) # <<>> => Report(u)[1].do \notin {"forget", "remember"}
          /\ EffectsOf(t) \subseteq EffectsOf(Report(u))
          /\ EffectsOf(Report(u)) \subseteq
               {On("delete", k), On("forget", k)} \cup EffectsOf(t)
      BY <2>1, <2>2, <2>3, WithdrawPlan DEF Good
    <2>5. Cleared(Report(u), remembered)
      <3>1. \A j : On("show", j) \in EffectsOf(Report(u)) => On("show", j) \in EffectsOf(t)
        BY <2>4, EffectFields
      <3>2. QED
        BY <2>3, <2>4, <3>1 DEF Good, Cleared
    <2>6. \A e \in EffectsOf(Report(u)) : e.do \in Dialogs \cup {"say"}
      BY <2>3, <2>4, EffectFields DEF Dialogs
    <2>7. QED
      BY <2>3, <2>4, <2>5, <2>6 DEF Good, Replying
  <1>2. CASE u.kind \notin Remembered
    <2>1. Report(u) = Dialog(u, "report")
      BY <1>2 DEF Report, Dialog
    <2>2. QED
      BY <2>1, DialogGood DEF Slots
  <1>3. QED
    BY <1>1, <1>2

(* What each handler's plan may hold: dialogs, a change of what is asked.  *)
LEMMA DeniedGood ==
  ASSUME NEW u PROVE Good(Denied(u)) /\ Replying(Denied(u))
  <1> DEFINE t == IF u.what = "session" THEN <<Effect("tidy")>> ELSE <<>>
  <1>1. Steady(<<Effect("toast")>>) /\ Steady(t) /\ Steady(Say)
    BY SteadyFew DEF Deeds, Dialogs, Say
  <1>2. Steady(<<Effect("toast")>> \o t)
    BY <1>1, SteadyJoin
  <1>3. Steady(<<Effect("toast")>> \o t \o Say)
    BY <1>1, <1>2, SteadyJoin
  <1>4. EffectsOf(Say) = {Effect("say")} /\ Effect("say").do = "say"
    BY EffectsFew, EffectFields DEF Say
  <1>5. EffectsOf(Say) \subseteq EffectsOf(<<Effect("toast")>> \o t \o Say)
    BY <1>1, <1>2, EffectsJoin DEF Steady
  <1>6. Denied(u) = <<Effect("toast")>> \o t \o Say
    BY DEF Denied
  <1>7. QED
    BY <1>3, <1>4, <1>5, <1>6, SteadyGood DEF Replying, Replies

LEMMA SayFacts ==
  /\ Steady(Say) /\ Good(Say) /\ Replying(Say) /\ EffectsOf(Say) = {Effect("say")}
  /\ Effect("say").do = "say"
  <1>1. Steady(Say) /\ EffectsOf(Say) = {Effect("say")} /\ Effect("say").do = "say"
    BY EffectsFew, EffectFields, SteadyFew DEF Say, Deeds, Dialogs
  <1>2. QED
    BY <1>1, SteadyGood DEF Replying, Replies

(* An effect that is no dialog, in front.                                  *)
LEMMA AfterFacts ==
  ASSUME NEW t, Good(t), Replying(t), NEW do \in Deeds \ Dialogs
  PROVE  /\ Good(<<Effect(do)>> \o t) /\ Replying(<<Effect(do)>> \o t)
         /\ EffectsOf(<<Effect(do)>> \o t) = {Effect(do)} \cup EffectsOf(t)
         /\ Effect(do).do = do
  <1>1. Effect(do) \in Effects /\ Effect(do).do = do /\ t \in Seq(Effects)
    BY OneEffect DEF Good, Plan
  <1>2. EffectsOf(<<Effect(do)>> \o t) = {Effect(do)} \cup EffectsOf(t)
    BY <1>1, EffectsBehind, Zenon
  <1>3. QED
    BY <1>1, <1>2, GoodAfter DEF Replying

LEMMA ButtonsGood ==
  ASSUME NEW u \in Updates
  PROVE  /\ Good(HandleCommand(u)) /\ Replying(HandleCommand(u))
         /\ Good(HandleAnalytics(u)) /\ Replying(HandleAnalytics(u))
         /\ Good(HandleSession(u)) /\ Replying(HandleSession(u))
         /\ Good(HandleAlert(u)) /\ Replying(HandleAlert(u))
         /\ Good(HandlePayment(u)) /\ Replying(HandlePayment(u))
  <1>1. {"register", "answer", "ask", "toast", "settle", "order", "unkey"} \subseteq Deeds \ Dialogs
    BY DEF Deeds, Dialogs
  <1>2. Good(<<Effect("toast")>>) /\ Replying(<<Effect("toast")>>)
    <2>1. EffectsOf(<<Effect("toast")>>) = {Effect("toast")} /\ Effect("toast").do = "toast"
      BY EffectsFew, EffectFields
    <2>2. Steady(<<Effect("toast")>>)
      BY <1>1, SteadyFew
    <2>3. QED
      BY <2>1, <2>2, SteadyGood DEF Replying, Replies
  <1>3. Good(HandleCommand(u)) /\ Replying(HandleCommand(u))
    BY <1>1, SayFacts, AfterFacts DEF HandleCommand
  <1>4. Good(HandleAnalytics(u)) /\ Replying(HandleAnalytics(u))
    <2>1. /\ Good(Dialog(u, "selector")) /\ Replying(Dialog(u, "selector"))
          /\ Good(Report(u)) /\ Replying(Report(u))
      BY DialogGood, ReportGood DEF Updates, Slots
    <2> DEFINE asked == <<Effect("ask")>> \o Dialog(u, "selector")
    <2>2. Good(asked) /\ Replying(asked)
      BY <1>1, <2>1, AfterFacts
    <2> HIDE DEF asked
    <2>3. ASSUME NEW t \in {Say, Dialog(u, "selector"), asked, Report(u)}
          PROVE  Good(<<Effect("answer")>> \o t) /\ Replying(<<Effect("answer")>> \o t)
      BY <1>1, <2>1, <2>2, SayFacts, AfterFacts
    <2>4. CASE u.user \notin active
      BY <2>4, DeniedGood DEF HandleAnalytics
    <2>5. CASE u.user \in active
      <3>1. \E t \in {Say, Dialog(u, "selector"), asked, Report(u)} :
               HandleAnalytics(u) = <<Effect("answer")>> \o t
        BY <2>5 DEF HandleAnalytics, asked
      <3>2. QED
        BY <2>3, <3>1
    <2>6. QED
      BY <2>4, <2>5
  <1>5. Good(HandleSession(u)) /\ Replying(HandleSession(u))
    <2> DEFINE t == <<Effect("answer"), Effect("unkey")>>
    <2>1. Steady(t) /\ Steady(<<Effect("settle")>>)
      BY <1>1, SteadyFew
    <2>2. Steady(t \o Say)
      BY <2>1, SayFacts, SteadyJoin
    <2>3. Steady(t \o Say \o <<Effect("settle")>>)
      BY <2>1, <2>2, SteadyJoin
    <2>4. EffectsOf(Say) \subseteq EffectsOf(t \o Say \o <<Effect("settle")>>)
      <3>1. EffectsOf(Say) \subseteq EffectsOf(t \o Say)
        BY <2>1, SayFacts, EffectsJoin DEF Steady
      <3>2. EffectsOf(t \o Say) \subseteq EffectsOf(t \o Say \o <<Effect("settle")>>)
        BY <2>1, <2>2, EffectsJoin DEF Steady
      <3>3. QED
        BY <3>1, <3>2
    <2>5. Replying(t \o Say \o <<Effect("settle")>>)
      BY <2>4, SayFacts DEF Replying
    <2>6. QED
      BY <1>2, <2>3, <2>5, DeniedGood, SteadyGood DEF HandleSession
  <1>6. Good(HandleAlert(u)) /\ Replying(HandleAlert(u))
    BY <1>1, SayFacts, AfterFacts, DeniedGood DEF HandleAlert
  <1>7. Good(HandlePayment(u)) /\ Replying(HandlePayment(u))
    <2> DEFINE t == <<Effect("order"), Effect("answer")>>
    <2>1. Steady(t)
      BY <1>1, SteadyFew
    <2>2. Steady(t \o Say)
      BY <2>1, SayFacts, SteadyJoin
    <2>3. EffectsOf(Say) \subseteq EffectsOf(t \o Say)
      BY <2>1, SayFacts, EffectsJoin DEF Steady
    <2>4. Good(t \o Say) /\ Replying(t \o Say)
      BY <2>2, <2>3, SayFacts, SteadyGood DEF Replying
    <2>5. QED
      BY <1>2, <2>4 DEF HandlePayment
  <1>8. QED
    BY <1>3, <1>4, <1>5, <1>6, <1>7

(* The text of an update is waited for.                                    *)
Expects(u) ==
  u.what = "text" =>
    users[u.user].status # "none" /\ (asking[u.chat] # NULL \/ MayBind(u.user))

(* A text is answered if it was waited for; it asks for nothing more, and  *)
(* binds to devices that exist.                                            *)
LEMMA TextGood ==
  ASSUME NEW u \in Updates, u.what = "text"
  PROVE  /\ Good(HandleText(u))
         /\ Replying(HandleText(u)) <=> Expects(u)
         /\ \A e \in EffectsOf(HandleText(u)) :
              /\ e.do \in {"unask", "bind", "say"} \cup Dialogs
              /\ e.do = "bind" => u.text \in devices
  <1>1. {"unask", "bind"} \subseteq Deeds \ Dialogs
    BY DEF Deeds, Dialogs
  <1>2. CASE users[u.user].status = "none" \/ (asking[u.chat] = NULL /\ ~MayBind(u.user))
    <2>1. HandleText(u) = <<>>
      BY <1>2 DEF HandleText, BindInput
    <2>2. Good(<<>>) /\ EffectsOf(<<>>) = {}
      BY SteadyFew, SteadyGood, EffectsFew
    <2>3. ~Expects(u)
      BY <1>2 DEF Expects
    <2>4. QED
      BY <2>1, <2>2, <2>3 DEF Replying
  <1>3. CASE users[u.user].status # "none" /\ asking[u.chat] # NULL
    <2> DEFINE v == [u EXCEPT !.kind = asking[u.chat]]
               t == <<Effect("unask")>> \o Report(v)
    <2>1. v.chat \in Chats
      BY DEF Updates
    <2>2. Good(Report(v)) /\ Replying(Report(v))
          /\ \A e \in EffectsOf(Report(v)) : e.do \in Dialogs \cup {"say"}
      BY <2>1, ReportGood
    <2>3. /\ Good(t) /\ Replying(t)
          /\ EffectsOf(t) = {Effect("unask")} \cup EffectsOf(Report(v))
      BY <1>1, <2>2, AfterFacts
    <2>4. /\ Good(<<Effect("unask")>> \o Say) /\ Replying(<<Effect("unask")>> \o Say)
          /\ EffectsOf(<<Effect("unask")>> \o Say) = {Effect("unask")} \cup EffectsOf(Say)
          /\ Effect("unask").do = "unask"
      BY <1>1, SayFacts, AfterFacts
    <2>5. HandleText(u) \in {Say, t, <<Effect("unask")>> \o Say}
      BY <1>3 DEF HandleText, CustomInput
    <2> HIDE DEF t, v
    <2>6. Good(HandleText(u)) /\ Replying(HandleText(u))
      BY <2>3, <2>4, <2>5, SayFacts
    <2>7. \A e \in EffectsOf(HandleText(u)) : e.do \in {"unask", "say"} \cup Dialogs
      BY <2>2, <2>3, <2>4, <2>5, SayFacts
    <2>8. Expects(u)
      BY <1>3 DEF Expects
    <2>9. QED
      BY <2>6, <2>7, <2>8 DEF Dialogs
  <1>4. CASE users[u.user].status # "none" /\ asking[u.chat] = NULL /\ MayBind(u.user)
    <2> DEFINE t == <<Effect("bind")>> \o Say \o Say
    <2>1. Steady(<<Effect("bind")>>) /\ EffectsOf(<<Effect("bind")>>) = {Effect("bind")}
          /\ Effect("bind").do = "bind"
      BY <1>1, SteadyFew, EffectsFew, EffectFields
    <2>2. /\ Steady(<<Effect("bind")>> \o Say)
          /\ EffectsOf(<<Effect("bind")>> \o Say) = {Effect("bind"), Effect("say")}
      BY <2>1, SayFacts, SteadyJoin, EffectsJoin DEF Steady
    <2>3. Steady(t) /\ EffectsOf(t) = {Effect("bind"), Effect("say")}
      BY <2>2, SayFacts, SteadyJoin, EffectsJoin DEF Steady
    <2>4. Good(t) /\ Replying(t)
      BY <2>3, SayFacts, SteadyGood DEF Replying, Replies
    <2>5. HandleText(u) = Say \/ (HandleText(u) = t /\ Known(u.text))
      BY <1>4 DEF HandleText, BindInput
    <2> HIDE DEF t
    <2>6. Good(HandleText(u)) /\ Replying(HandleText(u))
      BY <2>4, <2>5, SayFacts
    <2>7. \A e \in EffectsOf(HandleText(u)) :
            e.do \in {"bind", "say"} /\ (e.do = "bind" => Known(u.text))
      BY <2>1, <2>3, <2>5, SayFacts
    <2>8. Expects(u)
      BY <1>4 DEF Expects
    <2>9. QED
      BY <2>6, <2>7, <2>8 DEF Known
  <1>5. QED
    BY <1>2, <1>3, <1>4

LEMMA HandlerGood ==
  ASSUME NEW u \in Updates
  PROVE  /\ Good(Handler(u))
         /\ Replying(Handler(u)) <=> Expects(u)
         /\ \A e \in EffectsOf(Handler(u)) :
              /\ u.what = "text" => e.do \notin {"ask", "register"}
              /\ e.do = "bind" => u.text \in devices
  <1>1. CASE u.what = "text"
    <2>1. Handler(u) = HandleText(u)
      BY <1>1 DEF Handler
    <2>2. QED
      BY <1>1, <2>1, TextGood DEF Dialogs
  <1>2. CASE u.what # "text"
    <2>1. Handler(u) \in {HandleCommand(u), HandleAnalytics(u), HandleSession(u),
                          HandleAlert(u), HandlePayment(u)}
      BY <1>2 DEF Handler, Updates
    <2>2. Good(Handler(u)) /\ Replying(Handler(u)) /\ Expects(u)
      BY <1>2, <2>1, ButtonsGood DEF Expects
    <2>3. BindsNobody(Handler(u))
      <3>1. CASE Handler(u) = HandleCommand(u)
        BY <3>1, CommandBinds
      <3>2. CASE Handler(u) = HandleAnalytics(u)
        BY <3>2, AnalyticsBinds
      <3>3. CASE Handler(u) \in {HandleSession(u), HandleAlert(u), HandlePayment(u)}
        BY <3>3, ButtonBinds
      <3>4. QED
        BY <2>1, <3>1, <3>2, <3>3
    <2>4. \A e \in EffectsOf(Handler(u)) : e.do # "bind"
      BY <2>3 DEF BindsNobody, EffectsOf
    <2>5. QED
      BY <1>2, <2>2, <2>4
  <1>3. QED
    BY <1>1, <1>2

-----------------------------------------------------------------------------
(***************************************************************************)
(* Types, dialogs and silence.                                             *)
(***************************************************************************)

UserRows(D) == [imei : D \cup {NULL}, chat : Chats \cup {NULL},
                status : {"none", "awaiting_imei", "bound"}]
Prompts     == [pending : BOOLEAN, keyboard : BOOLEAN]
Marks       == {NULL, "shown", "deleted"}
Attempts    == [due : BOOLEAN, answered : BOOLEAN, turned : BOOLEAN]

(* The rows of the bot's tables.                                           *)
TablesOK ==
  /\ users \in [Users -> UserRows(devices)]
  /\ prompts \in [Chats -> Prompts]
  /\ asking \in [Chats -> Kinds \cup {NULL}]
  /\ remembered \in [Keys -> Marks]
  /\ screen \in [Keys -> Nat]
  /\ attempt \in Attempts

(* Telegram and the surroundings.                                          *)
AroundOK ==
  /\ arrived \in 0..MaxUpdates /\ last \in 0..arrived
  /\ DOMAIN server \subseteq 1..arrived
  /\ \A id \in DOMAIN server : server[id] \in Inputs
  /\ expired \subseteq DOMAIN server /\ blocked \subseteq Chats
  /\ devices \subseteq Imeis /\ active \subseteq Users
  /\ bot.phase = "poll" => bot.batch = {}
  /\ handled \subseteq 1..arrived
  /\ used \in [faults : Nat, changes : Nat]

Doing(e) == bot.phase = "act" /\ bot.todo # <<>> /\ Head(bot.todo) = e

(* A dialog shows the message that is remembered, and beyond that at most  *)
(* one for every fault: between sending and remembering it is that one.    *)
DialogInv ==
  /\ bot.phase = "act" => Plan(bot.todo) /\ Cleared(bot.todo, remembered)
  /\ \A k \in Keys :
       /\ \/ screen[k] <= used.faults
          \/ /\ screen[k] <= used.faults + 1
             /\ remembered[k] = "shown" \/ Doing(On("remember", k))
       /\ remembered[k] = "shown" \/ Doing(On("remember", k)) => screen[k] >= 1
       /\ Doing(On("forget", k)) => screen[k] <= used.faults

(* A text asks for nothing more, and binds to devices that exist.          *)
Texts(t, u, D) ==
  \A e \in EffectsOf(t) :
    /\ u.what = "text" => e.do \notin {"ask", "register"}
    /\ e.do = "bind" => u.text \in D

TextInv == bot.phase = "act" => Texts(bot.todo, server[InHand], devices)

(* While the answer to an update is due, its text is still waited for, and *)
(* what is left to do has an answer in it.                                 *)
SilenceInv ==
  attempt.due /\ ~attempt.answered /\ ~attempt.turned =>
    /\ last < arrived
    /\ Expects(server[last + 1])
    /\ bot.phase = "act" => Replying(bot.todo)

Whole == Inv /\ TablesOK /\ AroundOK /\ DialogInv /\ TextInv /\ SilenceInv

LEMMA WholeTypes == Whole => TypeOK
  <1> SUFFICES ASSUME Whole PROVE TypeOK
    OBVIOUS
  <1>1. bot.phase \in {"poll", "next", "act"} /\ bot.batch \subseteq DOMAIN server
    BY DEF Whole, Inv, QueueInv, BatchInv, AroundOK
  <1>2. QED
    BY <1>1 DEF TypeOK, Whole, TablesOK, AroundOK, UserRows, Prompts, Marks

LEMMA WholeInit == Init => Whole
  <1> SUFFICES ASSUME Init PROVE Whole
    OBVIOUS
  <1>1. /\ devices = Devices /\ Devices \subseteq Imeis /\ DOMAIN Bindings \subseteq Users
        /\ Chats # {} /\ \A u \in DOMAIN Bindings : Bindings[u] \in Devices
        /\ NULL # "shown" /\ MaxUpdates \in Nat
    BY UpdateAssumption DEF Init, UpdateAssumption
  <1>2. users \in [Users -> UserRows(devices)]
    <2>1. (CHOOSE c \in Chats : TRUE) \in Chats
      BY <1>1
    <2>2. QED
      BY <1>1, <2>1 DEF Init, UserRows, Unregistered
  <1>3. TablesOK
    BY <1>2 DEF TablesOK, Init, Prompts, Marks, Attempts, Fresh
  <1>4. AroundOK
    BY <1>1 DEF AroundOK, Init, Idle
  <1>5. bot.phase = "poll" /\ ~attempt.due
    BY DEF Init, Idle, Fresh
  <1>6. DialogInv
    BY <1>1, <1>5 DEF DialogInv, Doing, Init
  <1>7. TextInv /\ SilenceInv
    BY <1>5 DEF TextInv, SilenceInv
  <1>8. QED
    BY <1>3, <1>4, <1>6, <1>7, InvInit DEF Whole

LEMMA InHandFacts ==
  ASSUME Whole, bot.phase # "poll"
  PROVE  /\ InHand = last + 1 /\ InHand \in DOMAIN server /\ InHand \in 1..arrived
         /\ server[InHand] \in Updates /\ last < arrived
  BY InHandIsNext, InHandIsUpdate DEF Whole, Inv, QueueInv, BatchInv

(* The head of the plan, as an effect.                                     *)
LEMMA HeadFacts ==
  ASSUME Whole, Pending
  PROVE  LET e == Head(bot.todo)
         IN /\ e \in Effects /\ e \in EffectsOf(bot.todo)
            /\ e.do \in Dialogs => e.key \in Keys
            /\ \A do, k : Doing(On(do, k)) <=> e.do = do /\ e.key = k
            /\ e.do = "show" => remembered[e.key] # "shown"
            /\ bot.todo \in Seq(Effects)
            /\ EffectsOf(Tail(bot.todo)) \subseteq EffectsOf(bot.todo)
            /\ EffectsOf(bot.todo) = {e} \cup EffectsOf(Tail(bot.todo))
  <1> DEFINE e == Head(bot.todo)
  <1>1. bot.phase = "act" /\ bot.todo # <<>> /\ Plan(bot.todo) /\ Cleared(bot.todo, remembered)
    BY DEF Pending, Whole, DialogInv
  <1>2. bot.todo \in Seq(Effects)
    BY <1>1 DEF Plan
  <1>3. e \in Effects /\ EffectsOf(bot.todo) = {e} \cup EffectsOf(Tail(bot.todo))
    BY <1>1, <1>2, EffectsTail
  <1>4. e.do \in Dialogs => e.key \in Keys
    BY <1>1, PlanShrinks
  <1>5. e.do = "show" => Tail(bot.todo) = <<On("remember", e.key)>>
    BY <1>1, PlanShrinks
  <1> HIDE DEF e
  <1>6. \A do, k : Doing(On(do, k)) <=> e.do = do /\ e.key = k
    BY <1>1, <1>3, EffectFields DEF Doing, e
  <1>7. ASSUME e.do = "show" PROVE remembered[e.key] # "shown"
    <2>1. EffectsOf(bot.todo) = {e, On("remember", e.key)}
      <3>1. EffectsOf(Tail(bot.todo)) = {On("remember", e.key)}
        BY <1>5, <1>7, EffectsFew
      <3>2. QED
        BY <1>3, <3>1
    <2>2. e = On("show", e.key) /\ On("remember", e.key).do = "remember"
      BY <1>3, <1>7, EffectFields
    <2>3. On("forget", e.key) \notin EffectsOf(bot.todo)
      BY <1>7, <2>1, EffectFields
    <2>4. e.key \in Keys
      BY <1>4, <1>7 DEF Dialogs
    <2>5. QED
      BY <1>1, <2>1, <2>2, <2>3, <2>4 DEF Cleared
  <1>8. QED
    BY <1>2, <1>3, <1>4, <1>6, <1>7 DEF e

(* What an effect does to the tables.                                      *)
LEMMA ApplyTables ==
  ASSUME Whole, Pending, Apply(Head(bot.todo), server[InHand]), UNCHANGED devices
  PROVE  TablesOK'
  <1> DEFINE e == Head(bot.todo)
             u == server[InHand]
  <1>1. u \in Updates /\ u.user \in Users /\ u.chat \in Chats /\ u.kind \in Kinds \cup {NULL}
    BY InHandFacts DEF Pending, Updates
  <1>2. /\ e \in Effects /\ e \in EffectsOf(bot.todo)
        /\ e.do \in Dialogs => e.key \in Keys
        /\ e.do = "delete" /\ remembered[e.key] = "shown" => screen[e.key] >= 1
        /\ e.do = "bind" => u.text \in devices
    BY HeadFacts DEF Whole, DialogInv, TextInv, Texts, Pending, Dialogs
  <1>3. Apply(e, u) /\ TablesOK
    BY DEF Whole
  <1> HIDE DEF e, u
  <1>4. users' \in [Users -> UserRows(devices)]
    <2>1. CASE e.do = "register"
      <3>1. users' = [users EXCEPT ![u.user] = Registered(u)]
        BY <1>3, <2>1 DEF Apply
      <3>2. users[u.user] \in UserRows(devices)
        BY <1>1, <1>3 DEF TablesOK
      <3>3. Registered(u) \in UserRows(devices)
        BY <1>1, <3>2 DEF Registered, UserRows
      <3>4. QED
        BY <1>3, <3>1, <3>3 DEF TablesOK
    <2>2. CASE e.do = "bind"
      <3>1. users' = [users EXCEPT ![u.user] = Bound(u)]
        BY <1>3, <2>2 DEF Apply
      <3>2. Bound(u) \in UserRows(devices)
        BY <1>1, <1>2, <2>2 DEF Bound, UserRows
      <3>3. QED
        BY <1>3, <3>1, <3>2 DEF TablesOK
    <2>3. CASE e.do \notin {"register", "bind"}
      BY <1>3, <2>3 DEF Apply, TablesOK
    <2>4. QED
      BY <2>1, <2>2, <2>3
  <1>5. prompts' \in [Chats -> Prompts]
    <2>1. \/ prompts' = prompts
          \/ prompts' = [prompts EXCEPT ![u.chat].keyboard = FALSE]
          \/ prompts' = [prompts EXCEPT ![u.chat].pending = FALSE]
      BY <1>3 DEF Apply
    <2>2. prompts \in [Chats -> Prompts]
      BY <1>3 DEF TablesOK
    <2>3. QED
      BY <1>1, <2>1, <2>2 DEF Prompts
  <1>6. asking' \in [Chats -> Kinds \cup {NULL}]
    <2>1. \/ asking' = asking
          \/ asking' = [asking EXCEPT ![u.chat] = u.kind]
          \/ asking' = [asking EXCEPT ![u.chat] = NULL]
      BY <1>3 DEF Apply
    <2>2. QED
      BY <1>1, <1>3, <2>1 DEF TablesOK
  <1>7. remembered' \in [Keys -> Marks]
    <2>1. \/ remembered' = remembered
          \/ e.do \in Dialogs /\ \E m \in Marks : remembered' = [remembered EXCEPT ![e.key] = m]
      BY <1>3 DEF Apply, Marks, Dialogs
    <2>2. QED
      BY <1>2, <1>3, <2>1 DEF TablesOK
  <1>8. screen' \in [Keys -> Nat]
    <2>1. \/ screen' = screen
          \/ e.do \in Dialogs /\ screen' = [screen EXCEPT ![e.key] = @ + 1]
          \/ /\ e.do \in Dialogs /\ screen[e.key] >= 1
             /\ screen' = [screen EXCEPT ![e.key] = @ - 1]
      BY <1>2, <1>3 DEF Apply, Dialogs
    <2>2. QED
      BY <1>2, <1>3, <2>1 DEF TablesOK
  <1>9. attempt' \in Attempts
    BY <1>3 DEF Apply, TablesOK, Attempts
  <1>10. QED
    BY <1>4, <1>5, <1>6, <1>7, <1>8, <1>9 DEF TablesOK

(* What it does to the dialogs.                                            *)
LEMMA ApplyDialogs ==
  ASSUME Whole, Pending, Apply(Head(bot.todo), server[InHand]), NEW k \in Keys
  PROVE  LET e == Head(bot.todo)
             on == e.key = k
         IN /\ e.do = "show" /\ on =>
                 screen'[k] <= used.faults + 1 /\ screen'[k] >= 1 /\ remembered'[k] # "shown"
            /\ ~(e.do = "show" /\ on) =>
                 /\ \/ screen'[k] <= used.faults
                    \/ screen'[k] <= used.faults + 1 /\ remembered'[k] = "shown"
                 /\ remembered'[k] = "shown" => screen'[k] >= 1
            /\ e.do = "delete" /\ on => screen'[k] <= used.faults
            /\ e.do # "remember" /\ remembered[k] # "shown" => remembered'[k] # "shown"
            /\ e.do = "forget" /\ on => remembered'[k] # "shown"
  <1> DEFINE e == Head(bot.todo)
  <1>1. /\ e.do \in Dialogs => e.key \in Keys
        /\ \A do, j : Doing(On(do, j)) <=> e.do = do /\ e.key = j
        /\ e.do = "show" => remembered[e.key] # "shown"
    BY HeadFacts
  <1>2. /\ remembered \in [Keys -> Marks] /\ screen \in [Keys -> Nat] /\ used.faults \in Nat
        /\ NULL # "shown"
    BY UpdateAssumption DEF Whole, TablesOK, AroundOK, UpdateAssumption
  <1>3. /\ \/ screen[k] <= used.faults
           \/ /\ screen[k] <= used.faults + 1
              /\ remembered[k] = "shown" \/ (e.do = "remember" /\ e.key = k)
        /\ remembered[k] = "shown" \/ (e.do = "remember" /\ e.key = k) => screen[k] >= 1
        /\ e.do = "forget" /\ e.key = k => screen[k] <= used.faults
    BY <1>1 DEF Whole, DialogInv
  <1>4. /\ e.do = "delete" => remembered' = [remembered EXCEPT ![e.key] = "deleted"]
        /\ e.do = "forget" => remembered' = [remembered EXCEPT ![e.key] = NULL]
        /\ e.do = "remember" => remembered' = [remembered EXCEPT ![e.key] = "shown"]
        /\ e.do \notin {"delete", "forget", "remember"} => remembered' = remembered
        /\ e.do = "show" => screen' = [screen EXCEPT ![e.key] = @ + 1]
        /\ e.do = "delete" /\ remembered[e.key] = "shown" =>
             screen' = [screen EXCEPT ![e.key] = @ - 1]
        /\ e.do # "show" /\ ~(e.do = "delete" /\ remembered[e.key] = "shown") =>
             screen' = screen
    BY DEF Apply
  <1> HIDE DEF e
  <1>5. screen[k] \in Nat
    BY <1>2
  <1>6. CASE e.do = "show"
    BY <1>1, <1>2, <1>3, <1>4, <1>5, <1>6 DEF e, Dialogs
  <1>7. CASE e.do = "delete"
    BY <1>1, <1>2, <1>3, <1>4, <1>5, <1>7 DEF e, Dialogs
  <1>8. CASE e.do = "forget"
    BY <1>1, <1>2, <1>3, <1>4, <1>5, <1>8 DEF e, Dialogs
  <1>9. CASE e.do = "remember"
    BY <1>1, <1>2, <1>3, <1>4, <1>5, <1>9 DEF e, Dialogs
  <1>10. CASE e.do \notin {"show", "delete", "forget", "remember"}
    BY <1>2, <1>3, <1>4, <1>5, <1>10 DEF e
  <1>11. QED
    BY <1>6, <1>7, <1>8, <1>9, <1>10

(***************************************************************************)
(* Each of these through every step.                                       *)
(***************************************************************************)

(* One of the surroundings' changes.                                       *)
Changes ==
  \/ \E imei \in Imeis : DeviceAppears(imei)
  \/ \E u \in Users : SubscriptionChanges(u)
  \/ \E c \in Chats : BlockBot(c) \/ RideEnds(c)
  \/ \E id \in DOMAIN server : PressExpires(id)

LEMMA ChangesFacts ==
  ASSUME Changes
  PROVE  /\ Change /\ devices \subseteq devices'
         /\ UNCHANGED <<server, arrived, users, asking, remembered, screen, last, bot, handled, attempt>>
  <1>1. Change
    BY DEF Changes, DeviceAppears, SubscriptionChanges, BlockBot, RideEnds, PressExpires
  <1>2. devices \subseteq devices'
    BY DEF Changes, DeviceAppears, SubscriptionChanges, BlockBot, RideEnds, PressExpires, others
  <1>3. QED
    BY <1>1, <1>2 DEF Change, history

LEMMA AroundChanges ==
  ASSUME Whole, Changes
  PROVE  AroundOK'
  <1>1. /\ UNCHANGED <<server, arrived, last, bot, handled>>
        /\ used.changes < MaxChanges /\ used' = [used EXCEPT !.changes = @ + 1]
    BY ChangesFacts DEF Change
  <1>2. AroundOK
    BY DEF Whole
  <1>3. used' \in [faults : Nat, changes : Nat]
    BY <1>1, <1>2 DEF AroundOK
  <1>4. expired' \subseteq DOMAIN server'
    <2>1. expired' = expired \/ \E id \in DOMAIN server : expired' = expired \cup {id}
      BY DEF Changes, DeviceAppears, SubscriptionChanges, BlockBot, RideEnds, PressExpires
    <2>2. QED
      BY <1>1, <1>2, <2>1 DEF AroundOK
  <1>5. blocked' \subseteq Chats
    <2>1. blocked' = blocked \/ \E c \in Chats : blocked' = blocked \cup {c}
      BY DEF Changes, DeviceAppears, SubscriptionChanges, BlockBot, RideEnds, PressExpires
    <2>2. QED
      BY <1>2, <2>1 DEF AroundOK
  <1>6. devices' \subseteq Imeis
    <2>1. devices' = devices \/ \E imei \in Imeis : devices' = devices \cup {imei}
      BY DEF Changes, DeviceAppears, SubscriptionChanges, BlockBot, RideEnds, PressExpires, others
    <2>2. QED
      BY <1>2, <2>1 DEF AroundOK
  <1>7. active' \subseteq Users
    <2>1. active' = active \/ \E u \in Users : active' \subseteq active \cup {u}
      BY DEF Changes, DeviceAppears, SubscriptionChanges, BlockBot, RideEnds, PressExpires, others
    <2>2. QED
      BY <1>2, <2>1 DEF AroundOK
  <1>8. QED
    BY <1>1, <1>2, <1>3, <1>4, <1>5, <1>6, <1>7 DEF AroundOK

(* One more effect done, or given up.                                      *)
LEMMA AroundWork ==
  ASSUME Whole, bot.phase # "poll", NEW todo, Work(todo), UNCHANGED <<telegram, others, last>>,
         used' = used \/ Fault
  PROVE  AroundOK'
  <1>1. InHand \in 1..arrived
    BY InHandFacts
  <1>2. handled' \subseteq 1..arrived /\ bot'.phase = "act"
    BY <1>1 DEF Work, Whole, AroundOK, Inv, BatchInv
  <1>3. used' \in [faults : Nat, changes : Nat]
    BY DEF Fault, Whole, AroundOK
  <1>4. QED
    BY <1>2, <1>3 DEF Whole, AroundOK, telegram, others

(* The batch is given back, or done.                                       *)
LEMMA AroundRest ==
  ASSUME Whole, UNCHANGED <<telegram, others, handled>>, used' = used \/ Fault,
         last' = last \/ (last < arrived /\ last' = last + 1),
         bot'.phase = "poll" => bot'.batch = {}
  PROVE  AroundOK'
  <1>1. used' \in [faults : Nat, changes : Nat]
    BY DEF Fault, Whole, AroundOK
  <1>2. last' \in 0..arrived'
    BY DEF Whole, AroundOK, telegram
  <1>3. QED
    BY <1>1, <1>2 DEF Whole, AroundOK, telegram, others

LEMMA AroundPoll ==
  ASSUME Whole, Poll
  PROVE  AroundOK'
  <1> DEFINE held == {id \in DOMAIN server : id >= last + 1}
  <1>1. /\ server' = [id \in held |-> server[id]] /\ expired' = expired \cap held
        /\ bot'.phase = "next"
        /\ UNCHANGED <<arrived, blocked, others, last, used, handled>>
    BY DEF Poll, history
  <1>2. held \subseteq DOMAIN server
    OBVIOUS
  <1> HIDE DEF held
  <1>3. QED
    BY <1>1, <1>2 DEF Whole, AroundOK, others

LEMMA AroundArrive ==
  ASSUME Whole, NEW u \in Inputs, Arrive(u)
  PROVE  AroundOK'
  <1> DEFINE more == DOMAIN server \cup {arrived + 1}
  <1>1. /\ server' = [id \in more |-> IF id \in DOMAIN server THEN server[id] ELSE u]
        /\ arrived < MaxUpdates /\ arrived' = arrived + 1
        /\ UNCHANGED <<expired, blocked, others, last, bot, used, handled>>
    BY DEF Arrive, history
  <1>2. AroundOK /\ MaxUpdates \in Nat
    BY UpdateAssumption DEF Whole, UpdateAssumption
  <1>3. DOMAIN server' = more /\ DOMAIN server \subseteq more
    BY <1>1
  <1>4. arrived' \in 0..MaxUpdates /\ last' \in 0..arrived' /\ 1..arrived \subseteq 1..arrived'
        /\ arrived + 1 \in 1..arrived'
    BY <1>1, <1>2 DEF AroundOK
  <1>5. more \subseteq 1..arrived'
    BY <1>2, <1>4 DEF AroundOK
  <1>6. \A id \in DOMAIN server' : server'[id] \in Inputs
    BY <1>1, <1>2, <1>3 DEF AroundOK
  <1> HIDE DEF more
  <1>7. QED
    BY <1>1, <1>2, <1>3, <1>4, <1>5, <1>6 DEF AroundOK, others

LEMMA AroundStep ==
  ASSUME Whole, [Next]_vars
  PROVE  AroundOK'
  <1>1. CASE Poll
    BY <1>1, AroundPoll
  <1>2. CASE Take \/ Step \/ DeleteRefused
    <2>1. /\ bot.phase # "poll" /\ UNCHANGED <<telegram, others, last>> /\ (used' = used \/ Fault)
          /\ \E todo : Work(todo)
      BY <1>2 DEF Take, Step, DeleteRefused, Pending, Fault
    <2>2. QED
      BY <2>1, AroundWork
  <1>3. CASE Consume
    <2>1. last < arrived /\ InHand = last + 1
      BY <1>3, InHandFacts DEF Consume
    <2>2. /\ UNCHANGED <<telegram, others, handled, used>> /\ last' = last + 1
          /\ bot'.phase = "poll" => bot'.batch = {}
      BY <1>3, <2>1 DEF Consume, Stored, NextInBatch, Idle
    <2>3. QED
      BY <2>1, <2>2, AroundRest
  <1>4. CASE Refuse \/ Fail \/ AnswerLost
    <2>1. /\ UNCHANGED <<telegram, others, handled, last>> /\ (used' = used \/ Fault)
          /\ bot'.batch = {}
      BY <1>4 DEF Refuse, Fail, AnswerLost, Fault, AfterError, Idle, history
    <2>2. QED
      BY <2>1, AroundRest
  <1>5. CASE \E u \in Inputs : Arrive(u)
    BY <1>5, AroundArrive
  <1>6. CASE Changes
    BY <1>6, AroundChanges
  <1>7. CASE UNCHANGED vars
    BY <1>7 DEF vars, Whole, AroundOK, telegram, others, history
  <1>8. QED
    BY <1>1, <1>2, <1>3, <1>4, <1>5, <1>6, <1>7 DEF Next, BotStep, Surroundings, Changes

LEMMA TablesStep ==
  ASSUME Whole, [Next]_vars
  PROVE  TablesOK'
  <1>1. CASE Step \/ AnswerLost
    <2>1. Pending /\ Apply(Head(bot.todo), server[InHand]) /\ UNCHANGED devices
      BY <1>1 DEF Step, AnswerLost, Fault, others
    <2>2. QED
      BY <2>1, ApplyTables
  <1>2. CASE Changes
    <2>1. devices \subseteq devices' /\ UNCHANGED <<users, asking, remembered, screen, attempt>>
      BY <1>2, ChangesFacts
    <2>2. prompts' = prompts \/ \E c \in Chats : prompts' = [prompts EXCEPT ![c].pending = FALSE]
      BY <1>2 DEF Changes, DeviceAppears, SubscriptionChanges, BlockBot, RideEnds, PressExpires
    <2>3. prompts' \in [Chats -> Prompts]
      BY <2>2 DEF Whole, TablesOK, Prompts
    <2>4. UserRows(devices) \subseteq UserRows(devices')
      BY <2>1 DEF UserRows
    <2>5. users' \in [Users -> UserRows(devices')]
      BY <2>1, <2>4 DEF Whole, TablesOK
    <2>6. QED
      BY <2>1, <2>3, <2>5 DEF Whole, TablesOK
  <1>3. CASE Poll \/ Refuse \/ Fail \/ DeleteRefused \/ (\E u \in Inputs : Arrive(u)) \/ UNCHANGED vars
    <2>1. UNCHANGED <<users, devices, prompts, asking, remembered, screen, attempt>>
      BY <1>3 DEF Poll, Refuse, Fail, DeleteRefused, Fault, Arrive, vars, tables, others, history
    <2>2. QED
      BY <2>1 DEF Whole, TablesOK
  <1>4. CASE Take \/ Consume
    <2>1. UNCHANGED <<users, devices, prompts, asking, remembered, screen>>
      BY <1>4 DEF Take, Consume, tables, others
    <2>2. attempt' \in Attempts
      <3>1. CASE Take
        <4>1. PICK due \in BOOLEAN : attempt' = [attempt EXCEPT !.due = due]
          BY <3>1 DEF Take
        <4>2. attempt \in Attempts
          BY DEF Whole, TablesOK
        <4>3. QED
          BY <4>1, <4>2 DEF Attempts
      <3>2. CASE Consume
        BY <3>2 DEF Consume, Fresh, Attempts
      <3>3. QED
        BY <1>4, <3>1, <3>2
    <2>3. QED
      BY <2>1, <2>2 DEF Whole, TablesOK
  <1>5. QED
    BY <1>1, <1>2, <1>3, <1>4 DEF Next, BotStep, Surroundings, Changes

(* What is done next, when an effect has been done.                        *)
LEMMA TailFacts ==
  ASSUME Whole, Pending, Work(Tail(bot.todo))
  PROVE  LET e == Head(bot.todo)
             r == Tail(bot.todo)
         IN /\ bot' = [phase |-> "act", batch |-> bot.batch, todo |-> r]
            /\ Plan(r)
            /\ \A k : Doing(On("remember", k))' => e.do = "show" /\ e.key = k
            /\ \A k : e.do = "show" /\ e.key = k => Doing(On("remember", k))'
            /\ \A k : Doing(On("forget", k))' => e.do = "delete" /\ e.key = k
            /\ e.do = "remember" => r = <<>>
  <1> DEFINE e == Head(bot.todo)
             r == Tail(bot.todo)
  <1>1. bot' = [phase |-> "act", batch |-> bot.batch, todo |-> r]
    BY DEF Pending, Work, Whole, Inv, BatchInv
  <1>2. /\ Plan(r)
        /\ r # <<>> =>
             /\ Head(r).do = "forget" => e = On("delete", Head(r).key)
             /\ Head(r).do = "remember" => e = On("show", Head(r).key)
        /\ e.do = "show" => r = <<On("remember", e.key)>>
        /\ e.do = "remember" => r = <<>>
    BY PlanShrinks DEF Pending, Whole, DialogInv
  <1> HIDE DEF e, r
  <1>3. \A do, k : Doing(On(do, k))' <=> r # <<>> /\ Head(r) = On(do, k)
    BY <1>1 DEF Doing
  <1>4. e.do = "show" => r # <<>> /\ Head(r) = On("remember", e.key)
    <2>1. \A x : <<x>> # <<>> /\ Head(<<x>>) = x
      OBVIOUS
    <2>2. QED
      BY <1>2, <2>1, Zenon
  <1>5. \A k : e.do = "show" /\ e.key = k => Doing(On("remember", k))'
    BY <1>3, <1>4
  <1>6. ASSUME NEW k
        PROVE  /\ Doing(On("remember", k))' => e.do = "show" /\ e.key = k
               /\ Doing(On("forget", k))' => e.do = "delete" /\ e.key = k
    <2>1. /\ On("remember", k).do = "remember" /\ On("remember", k).key = k
          /\ On("forget", k).do = "forget" /\ On("forget", k).key = k
          /\ On("show", k).do = "show" /\ On("show", k).key = k
          /\ On("delete", k).do = "delete" /\ On("delete", k).key = k
      BY EffectFields
    <2>2. Doing(On("remember", k))' => e = On("show", k)
      BY <1>2, <1>3, <2>1
    <2>3. Doing(On("forget", k))' => e = On("delete", k)
      BY <1>2, <1>3, <2>1
    <2>4. QED
      BY <2>1, <2>2, <2>3
  <1>7. QED
    BY <1>1, <1>2, <1>5, <1>6 DEF e, r

LEMMA DialogTake ==
  ASSUME Whole, Take
  PROVE  DialogInv'
  <1> DEFINE todo == Handler(server[InHand])
  <1>1. /\ bot.phase = "next" /\ UNCHANGED <<remembered, screen, used>>
        /\ bot' = [phase |-> "act", batch |-> bot.batch, todo |-> todo]
    BY DEF Take, Work, Whole, Inv, BatchInv, tables
  <1>2. Good(todo)
    BY <1>1, InHandFacts, HandlerGood
  <1> HIDE DEF todo
  <1>3. Plan(bot'.todo) /\ Cleared(bot'.todo, remembered')
    BY <1>1, <1>2 DEF Good
  <1>4. \A k : ~Doing(On("remember", k))' /\ ~Doing(On("forget", k))'
    <2>1. todo # <<>> => Head(todo) = todo[1]
      BY <1>2 DEF Good, Plan
    <2>2. \A do, k : Doing(On(do, k))' <=> todo # <<>> /\ Head(todo) = On(do, k)
      BY <1>1 DEF Doing
    <2>3. QED
      BY <1>2, <2>1, <2>2, EffectFields DEF Good
  <1>5. \A e : ~Doing(e)
    BY <1>1 DEF Doing
  <1>6. QED
    BY <1>1, <1>3, <1>4, <1>5 DEF Whole, DialogInv

LEMMA DialogDone ==
  ASSUME Whole, Step
  PROVE  DialogInv'
  <1> DEFINE e == Head(bot.todo)
             r == Tail(bot.todo)
  <1>1. /\ Pending /\ Apply(Head(bot.todo), server[InHand]) /\ Work(r) /\ used' = used
    BY DEF Step
  <1>2. /\ bot' = [phase |-> "act", batch |-> bot.batch, todo |-> r]
        /\ Plan(r)
        /\ \A k : Doing(On("remember", k))' => e.do = "show" /\ e.key = k
        /\ \A k : e.do = "show" /\ e.key = k => Doing(On("remember", k))'
        /\ \A k : Doing(On("forget", k))' => e.do = "delete" /\ e.key = k
        /\ e.do = "remember" => r = <<>>
    BY <1>1, TailFacts
  <1>3. /\ EffectsOf(bot.todo) = {e} \cup EffectsOf(r)
        /\ Cleared(bot.todo, remembered)
    BY <1>1, HeadFacts DEF Whole, DialogInv, Pending
  <1>4. \A k \in Keys :
          /\ e.do = "show" /\ e.key = k =>
               screen'[k] <= used.faults + 1 /\ screen'[k] >= 1 /\ remembered'[k] # "shown"
          /\ ~(e.do = "show" /\ e.key = k) =>
               /\ \/ screen'[k] <= used.faults
                  \/ screen'[k] <= used.faults + 1 /\ remembered'[k] = "shown"
               /\ remembered'[k] = "shown" => screen'[k] >= 1
          /\ e.do = "delete" /\ e.key = k => screen'[k] <= used.faults
          /\ e.do # "remember" /\ remembered[k] # "shown" => remembered'[k] # "shown"
          /\ e.do = "forget" /\ e.key = k => remembered'[k] # "shown"
    BY <1>1, ApplyDialogs
  <1> HIDE DEF e, r
  <1>5. Cleared(r, remembered')
    <2> SUFFICES ASSUME NEW k \in Keys, On("show", k) \in EffectsOf(r),
                        On("forget", k) \notin EffectsOf(r)
                 PROVE  remembered'[k] # "shown"
      BY DEF Cleared
    <2>1. remembered[k] # "shown" \/ On("forget", k) = e
      BY <1>3 DEF Cleared
    <2>2. e.do # "remember"
      BY <1>2, EffectsFew
    <2>3. On("forget", k) = e => e.do = "forget" /\ e.key = k
      BY EffectFields
    <2>4. QED
      BY <1>4, <2>1, <2>2, <2>3
  <1>6. QED
    BY <1>1, <1>2, <1>4, <1>5 DEF DialogInv

(* A lost number, a refused deletion: one fault, and one message at most.  *)
LEMMA DialogLost ==
  ASSUME Whole, AnswerLost
  PROVE  DialogInv'
  <1> DEFINE e == Head(bot.todo)
  <1>1. /\ Pending /\ Apply(e, server[InHand]) /\ used' = [used EXCEPT !.faults = @ + 1]
        /\ bot'.phase = "poll"
    BY DEF AnswerLost, Fault, AfterError, Idle
  <1>2. \A k \in Keys :
          /\ e.do = "show" /\ e.key = k =>
               screen'[k] <= used.faults + 1 /\ screen'[k] >= 1 /\ remembered'[k] # "shown"
          /\ ~(e.do = "show" /\ e.key = k) =>
               /\ \/ screen'[k] <= used.faults
                  \/ screen'[k] <= used.faults + 1 /\ remembered'[k] = "shown"
               /\ remembered'[k] = "shown" => screen'[k] >= 1
    BY <1>1, ApplyDialogs
  <1> HIDE DEF e
  <1>3. used'.faults = used.faults + 1 /\ used.faults \in Nat /\ screen' \in [Keys -> Nat]
    BY <1>1, TablesStep DEF Whole, AroundOK, TablesOK, Next
  <1>4. \A d : ~Doing(d)'
    BY <1>1 DEF Doing
  <1>5. \A k \in Keys : screen'[k] <= used'.faults
    BY <1>2, <1>3
  <1>6. QED
    BY <1>1, <1>2, <1>4, <1>5 DEF DialogInv

LEMMA DialogRefused ==
  ASSUME Whole, DeleteRefused
  PROVE  DialogInv'
  <1> DEFINE e == Head(bot.todo)
             r == Tail(bot.todo)
  <1>1. /\ Pending /\ Work(r) /\ used' = [used EXCEPT !.faults = @ + 1] /\ e.do = "delete"
        /\ UNCHANGED <<remembered, screen>>
    BY DEF DeleteRefused, Fault, tables
  <1>2. /\ bot' = [phase |-> "act", batch |-> bot.batch, todo |-> r]
        /\ Plan(r)
        /\ \A k : ~Doing(On("remember", k))'
    BY <1>1, TailFacts
  <1>3. /\ EffectsOf(bot.todo) = {e} \cup EffectsOf(r)
        /\ Cleared(bot.todo, remembered)
        /\ \A k : ~Doing(On("remember", k))
    BY <1>1, HeadFacts DEF Whole, DialogInv, Pending
  <1> HIDE DEF e, r
  <1>4. Cleared(r, remembered')
    <2>1. \A k : On("forget", k) # e
      BY <1>1, EffectFields
    <2>2. QED
      BY <1>1, <1>3, <2>1 DEF Cleared
  <1>5. used'.faults = used.faults + 1 /\ used.faults \in Nat /\ screen \in [Keys -> Nat]
    BY <1>1 DEF Whole, AroundOK, TablesOK
  <1>6. \A k \in Keys : screen'[k] <= used'.faults
    BY <1>1, <1>3, <1>5 DEF Whole, DialogInv
  <1>7. \A k \in Keys : remembered'[k] = "shown" => screen'[k] >= 1
    BY <1>1 DEF Whole, DialogInv
  <1>8. QED
    BY <1>2, <1>4, <1>6, <1>7 DEF DialogInv

(* Nothing is at hand any more.                                            *)
LEMMA DialogRest ==
  ASSUME Whole, UNCHANGED <<remembered, screen>>, bot'.phase # "act",
         \/ used'.faults = used.faults /\ \A k \in Keys : ~Doing(On("remember", k))
         \/ used'.faults = used.faults + 1
  PROVE  DialogInv'
  <1>1. \A d : ~Doing(d)'
    BY DEF Doing
  <1>2. used.faults \in Nat /\ screen \in [Keys -> Nat]
    BY DEF Whole, AroundOK, TablesOK
  <1>3. ASSUME NEW k \in Keys
        PROVE  /\ \/ screen[k] <= used'.faults
                  \/ screen[k] <= used'.faults + 1 /\ remembered[k] = "shown"
               /\ remembered[k] = "shown" => screen[k] >= 1
    <2>1. /\ \/ screen[k] <= used.faults
             \/ /\ screen[k] <= used.faults + 1
                /\ remembered[k] = "shown" \/ Doing(On("remember", k))
          /\ remembered[k] = "shown" => screen[k] >= 1
      BY DEF Whole, DialogInv
    <2>2. QED
      BY <1>2, <2>1
  <1>4. QED
    BY <1>1, <1>3 DEF DialogInv

LEMMA DialogStep ==
  ASSUME Whole, [Next]_vars
  PROVE  DialogInv'
  <1>1. CASE Take
    BY <1>1, DialogTake
  <1>2. CASE Step
    BY <1>2, DialogDone
  <1>3. CASE AnswerLost
    BY <1>3, DialogLost
  <1>4. CASE DeleteRefused
    BY <1>4, DialogRefused
  <1>5. CASE Poll \/ Consume \/ \E u \in Inputs : Arrive(u)
    <2>1. /\ UNCHANGED <<remembered, screen, used>> /\ bot'.phase # "act"
          /\ bot.phase = "poll" \/ bot.todo = <<>>
      BY <1>5 DEF Poll, Consume, NextInBatch, Idle, Arrive, tables
    <2>2. QED
      BY <2>1, DialogRest DEF Doing
  <1>6. CASE Refuse
    <2>1. /\ UNCHANGED <<remembered, screen, used>> /\ bot'.phase # "act" /\ Pending
          /\ Head(bot.todo).do # "remember"
      BY <1>6 DEF Refuse, Refused, AfterError, Idle, tables
    <2>2. \A k : ~Doing(On("remember", k))
      BY <2>1, HeadFacts
    <2>3. QED
      BY <2>1, <2>2, DialogRest
  <1>7. CASE Fail
    <2>1. /\ UNCHANGED <<remembered, screen>> /\ bot'.phase # "act"
          /\ used' = [used EXCEPT !.faults = @ + 1]
      BY <1>7 DEF Fail, Fault, AfterError, Idle, tables
    <2>2. used'.faults = used.faults + 1
      BY <2>1 DEF Whole, AroundOK
    <2>3. QED
      BY <2>1, <2>2, DialogRest
  <1>8. CASE Changes \/ UNCHANGED vars
    <2>1. UNCHANGED <<remembered, screen, bot>> /\ used'.faults = used.faults
      <3>1. CASE Changes
        <4>1. used' = [used EXCEPT !.changes = @ + 1]
          BY <3>1, ChangesFacts DEF Change
        <4>2. QED
          BY <3>1, <4>1, ChangesFacts DEF Whole, AroundOK
      <3>2. CASE UNCHANGED vars
        BY <3>2 DEF vars, tables
      <3>3. QED
        BY <1>8, <3>1, <3>2
    <2>2. \A d : Doing(d)' <=> Doing(d)
      BY <2>1 DEF Doing
    <2>3. QED
      BY <2>1, <2>2 DEF Whole, DialogInv
  <1>9. QED
    BY <1>1, <1>2, <1>3, <1>4, <1>5, <1>6, <1>7, <1>8 DEF Next, BotStep, Surroundings, Changes

LEMMA TextStep ==
  ASSUME Whole, [Next]_vars
  PROVE  TextInv'
  <1>1. CASE Take
    <2> DEFINE todo == Handler(server[InHand])
    <2>1. /\ bot.phase = "next" /\ UNCHANGED <<server, devices>>
          /\ bot' = [phase |-> "act", batch |-> bot.batch, todo |-> todo]
      BY <1>1 DEF Take, Work, Whole, Inv, BatchInv, telegram, others
    <2>2. Texts(todo, server[InHand], devices)
      BY <2>1, InHandFacts, HandlerGood DEF Texts
    <2> HIDE DEF todo
    <2>3. InHand' = InHand
      BY <2>1 DEF InHand
    <2>4. QED
      BY <2>1, <2>2, <2>3 DEF TextInv
  <1>2. CASE Step \/ DeleteRefused
    <2> DEFINE r == Tail(bot.todo)
    <2>1. /\ Pending /\ Work(r) /\ UNCHANGED <<server, devices>>
      BY <1>2 DEF Step, DeleteRefused, Fault, telegram, others
    <2>2. bot' = [phase |-> "act", batch |-> bot.batch, todo |-> r]
      BY <2>1, TailFacts
    <2>3. EffectsOf(r) \subseteq EffectsOf(bot.todo) /\ Texts(bot.todo, server[InHand], devices)
      BY <2>1, HeadFacts DEF Whole, TextInv, Pending
    <2> HIDE DEF r
    <2>4. InHand' = InHand
      BY <2>2 DEF InHand
    <2>5. Texts(r, server[InHand], devices)
      BY <2>3 DEF Texts
    <2>6. QED
      BY <2>1, <2>2, <2>4, <2>5 DEF TextInv
  <1>3. CASE Changes \/ UNCHANGED vars
    <2>1. UNCHANGED <<server, bot>> /\ devices \subseteq devices'
      BY <1>3, ChangesFacts DEF vars, telegram, others
    <2>2. InHand' = InHand
      BY <2>1 DEF InHand
    <2>3. QED
      BY <2>1, <2>2 DEF Whole, TextInv, Texts
  <1>4. CASE \/ Poll \/ Consume \/ Refuse \/ Fail \/ AnswerLost
             \/ \E u \in Inputs : Arrive(u)
    <2>1. bot'.phase # "act"
      BY <1>4 DEF Poll, Consume, NextInBatch, Idle, Arrive, Refuse, Fail, AnswerLost, Fault, AfterError
    <2>2. QED
      BY <2>1 DEF TextInv
  <1>5. QED
    BY <1>1, <1>2, <1>3, <1>4 DEF Next, BotStep, Surroundings, Changes

(* The oldest update waits, and nothing has come of it yet.                *)
Awaited(a) == a.due /\ ~a.answered /\ ~a.turned

LEMMA SilenceTake ==
  ASSUME Whole, Take
  PROVE  SilenceInv'
  <1> DEFINE todo == Handler(server[InHand])
  <1>1. /\ bot.phase = "next" /\ UNCHANGED <<server, arrived, users, asking, last>>
        /\ bot' = [phase |-> "act", batch |-> bot.batch, todo |-> todo]
        /\ attempt' = [attempt EXCEPT !.due = @ \/ \E i \in DOMAIN todo : todo[i].do \in Replies]
    BY DEF Take, Work, Whole, Inv, BatchInv, telegram, tables
  <1>2. InHand = last + 1 /\ last < arrived /\ server[InHand] \in Updates
    BY <1>1, InHandFacts
  <1>3. todo \in Seq(Effects) /\ (Replying(todo) <=> Expects(server[last + 1]))
    BY <1>2, HandlerGood DEF Good, Plan
  <1> HIDE DEF todo
  <1>4. (\E i \in DOMAIN todo : todo[i].do \in Replies) <=> Replying(todo)
    <2>1. DOMAIN todo = 1..Len(todo)
      BY <1>3
    <2>2. QED
      BY <2>1 DEF Replying, EffectsOf
  <1>5. attempt \in Attempts
    BY DEF Whole, TablesOK
  <1>6. Awaited(attempt') => Awaited(attempt) \/ Replying(todo)
    BY <1>1, <1>4, <1>5 DEF Awaited, Attempts
  <1>7. Awaited(attempt) => Expects(server[last + 1])
    BY DEF Whole, SilenceInv, Awaited
  <1>8. Expects(server[last + 1])' <=> Expects(server[last + 1])
    BY <1>1 DEF Expects, MayBind, IsBound
  <1>9. QED
    BY <1>1, <1>2, <1>3, <1>6, <1>7, <1>8 DEF SilenceInv, Awaited

(* An effect that is neither an answer nor a turn leaves the text awaited. *)
LEMMA SilenceApply ==
  ASSUME Whole, Pending, Apply(Head(bot.todo), server[InHand]), Awaited(attempt'),
         UNCHANGED <<server, arrived, last>>
  PROVE  /\ Head(bot.todo).do \notin Replies /\ Awaited(attempt) /\ last' < arrived'
         /\ Expects(server[last + 1])'
  <1> DEFINE e == Head(bot.todo)
             u == server[InHand]
  <1>1. /\ attempt' = [attempt EXCEPT !.answered = @ \/ e.do \in Replies,
                                      !.turned = @ \/ e.do \in {"bind", "unask"}]
        /\ e.do \notin {"register", "bind"} => users' = users
        /\ e.do \notin {"ask", "unask"} => asking' = asking
    BY DEF Apply
  <1>2. attempt \in Attempts
    BY DEF Whole, TablesOK
  <1>3. /\ e.do \notin Replies /\ e.do \notin {"bind", "unask"} /\ Awaited(attempt)
    BY <1>1, <1>2 DEF Awaited, Attempts
  <1>4. Expects(u) /\ last < arrived /\ InHand = last + 1
    BY <1>3, InHandFacts DEF Whole, SilenceInv, Awaited, Pending
  <1>5. u.what = "text" => e.do \notin {"ask", "register"}
    BY HeadFacts DEF Whole, TextInv, Texts, Pending
  <1>6. u.what = "text" => users' = users /\ asking' = asking
    BY <1>1, <1>3, <1>5
  <1>7. server'[last' + 1] = u
    BY <1>4
  <1>8. Expects(server[last + 1])'
    <2>1. CASE u.what = "text"
      BY <1>4, <1>6, <1>7, <2>1 DEF Expects, MayBind, IsBound
    <2>2. CASE u.what # "text"
      BY <1>7, <2>2 DEF Expects
    <2>3. QED
      BY <2>1, <2>2
  <1>9. QED
    BY <1>3, <1>4, <1>8

LEMMA SilenceKept ==
  ASSUME Whole, UNCHANGED <<attempt, users, asking, last>>,
         last < arrived => last < arrived' /\ server'[last + 1] = server[last + 1],
         bot'.phase = "act" => bot.phase = "act" /\ (Replying(bot.todo) => Replying(bot'.todo))
  PROVE  SilenceInv'
  <1> SUFFICES ASSUME Awaited(attempt')
               PROVE  /\ last' < arrived' /\ Expects(server[last + 1])'
                      /\ bot'.phase = "act" => Replying(bot'.todo)
    BY DEF SilenceInv, Awaited
  <1>1. last < arrived /\ Expects(server[last + 1]) /\ (bot.phase = "act" => Replying(bot.todo))
    BY DEF Whole, SilenceInv, Awaited
  <1>2. Expects(server[last + 1])'
    BY <1>1 DEF Expects, MayBind, IsBound
  <1>3. QED
    BY <1>1, <1>2

LEMMA SilenceStep ==
  ASSUME Whole, [Next]_vars
  PROVE  SilenceInv'
  <1>1. CASE Take
    BY <1>1, SilenceTake
  <1>2. CASE Step \/ AnswerLost
    <2> SUFFICES ASSUME Awaited(attempt')
                 PROVE  /\ last' < arrived' /\ Expects(server[last + 1])'
                        /\ bot'.phase = "act" => Replying(bot'.todo)
      BY DEF SilenceInv, Awaited
    <2>1. /\ Pending /\ Apply(Head(bot.todo), server[InHand]) /\ UNCHANGED <<server, arrived, last>>
      BY <1>2 DEF Step, AnswerLost, Fault, telegram
    <2>2. /\ Head(bot.todo).do \notin Replies /\ Awaited(attempt) /\ last' < arrived'
          /\ Expects(server[last + 1])'
      BY <2>1, SilenceApply
    <2>3. CASE AnswerLost
      <3>1. bot'.phase # "act"
        BY <2>3 DEF AnswerLost, AfterError, Idle
      <3>2. QED
        BY <2>2, <3>1
    <2>4. CASE Step
      <3>1. Replying(bot.todo)
        BY <2>1, <2>2 DEF Whole, SilenceInv, Awaited, Pending
      <3>2. EffectsOf(bot.todo) = {Head(bot.todo)} \cup EffectsOf(Tail(bot.todo))
        BY <2>1, HeadFacts
      <3>3. Replying(Tail(bot.todo))
        BY <2>2, <3>1, <3>2 DEF Replying
      <3>4. bot'.todo = Tail(bot.todo)
        BY <2>4, TailFacts DEF Step
      <3>5. QED
        BY <2>2, <3>3, <3>4
    <2>5. QED
      BY <1>2, <2>3, <2>4
  <1>3. CASE DeleteRefused
    <2>1. /\ Pending /\ Work(Tail(bot.todo)) /\ Head(bot.todo).do \notin Replies
          /\ UNCHANGED <<server, arrived, attempt, users, asking, last>>
      BY <1>3 DEF DeleteRefused, Fault, telegram, tables, Replies
    <2>2. EffectsOf(bot.todo) = {Head(bot.todo)} \cup EffectsOf(Tail(bot.todo))
      BY <2>1, HeadFacts
    <2>3. bot'.todo = Tail(bot.todo)
      BY <2>1, TailFacts
    <2>4. Replying(bot.todo) => Replying(bot'.todo)
      BY <2>1, <2>2, <2>3 DEF Replying
    <2>5. QED
      BY <2>1, <2>4, SilenceKept DEF Pending
  <1>4. CASE Consume
    <2>1. ~attempt'.due
      BY <1>4 DEF Consume, Fresh
    <2>2. QED
      BY <2>1 DEF SilenceInv
  <1>5. CASE Poll
    <2> DEFINE held == {id \in DOMAIN server : id >= last + 1}
    <2>1. /\ server' = [id \in held |-> server[id]] /\ bot'.phase = "next"
          /\ UNCHANGED <<arrived, attempt, users, asking, last>>
      BY <1>5 DEF Poll, tables, history
    <2>2. last < arrived => last + 1 \in held
      BY DEF Whole, Inv, QueueInv
    <2> HIDE DEF held
    <2>3. QED
      BY <2>1, <2>2, SilenceKept
  <1>6. ASSUME NEW u \in Inputs, Arrive(u)
        PROVE  SilenceInv'
    <2> DEFINE more == DOMAIN server \cup {arrived + 1}
    <2>1. /\ server' = [id \in more |-> IF id \in DOMAIN server THEN server[id] ELSE u]
          /\ arrived' = arrived + 1 /\ bot'.phase = "poll"
          /\ UNCHANGED <<attempt, users, asking, last>>
      BY <1>6 DEF Arrive, tables, history
    <2>2. last < arrived => last + 1 \in DOMAIN server /\ last < arrived'
      BY <2>1 DEF Whole, Inv, QueueInv
    <2>3. last < arrived => server'[last + 1] = server[last + 1]
      BY <2>1, <2>2
    <2> HIDE DEF more
    <2>4. QED
      BY <2>1, <2>2, <2>3, SilenceKept
  <1>7. CASE Refuse \/ Fail
    <2>1. /\ bot'.phase = "poll" /\ UNCHANGED <<server, arrived, attempt, users, asking, last>>
      BY <1>7 DEF Refuse, Fail, Fault, AfterError, Idle, telegram, tables, history
    <2>2. QED
      BY <2>1, SilenceKept
  <1>8. CASE Changes \/ UNCHANGED vars
    <2>1. UNCHANGED <<server, arrived, attempt, users, asking, last, bot>>
      BY <1>8, ChangesFacts DEF vars, telegram, tables, history
    <2>2. QED
      BY <2>1, SilenceKept
  <1>9. QED
    BY <1>1, <1>2, <1>3, <1>4, <1>5, <1>6, <1>7, <1>8 DEF Next, BotStep, Surroundings, Changes

LEMMA WholeStep == Whole /\ [Next]_vars => Whole'
  <1> SUFFICES ASSUME Whole, [Next]_vars PROVE Whole'
    OBVIOUS
  <1>1. Inv'
    BY QueueStep, StepBinds DEF Inv, Whole
  <1>2. QED
    BY <1>1, TablesStep, AroundStep, DialogStep, TextStep, SilenceStep DEF Whole

(* Every variable keeps its type; above all, no user is bound to a device  *)
(* that is not in devices, and no update_id is handled that was not given  *)
(* out.                                                                    *)
THEOREM SpecTypeOK == Spec => []TypeOK
  BY WholeInit, WholeStep, WholeTypes, PTL DEF Spec

(* send_remembered_analytics_message: a chat shows at most one selector    *)
(* and one report of a kind, but for the messages whose number was lost on *)
(* the way back and those whose deletion Telegram refused.                 *)
THEOREM SpecOneDialogPerSlot == Spec => []OneDialogPerSlot
  <1>1. Whole => OneDialogPerSlot
    <2> SUFFICES ASSUME Whole, NEW k \in Keys PROVE screen[k] <= 1 + used.faults
      BY DEF OneDialogPerSlot
    <2>1. screen[k] <= used.faults \/ screen[k] <= used.faults + 1
      BY DEF Whole, DialogInv
    <2>2. screen[k] \in Nat /\ used.faults \in Nat
      BY DEF Whole, TablesOK, AroundOK
    <2>3. QED
      BY <2>1, <2>2
  <1>2. QED
    BY <1>1, WholeInit, WholeStep, PTL DEF Spec

Explained == Consume => ~attempt.due \/ attempt.answered \/ attempt.turned

(* process_updates puts no update behind it without the answer it asked    *)
(* for, unless an attempt that failed had bound the user or closed the     *)
(* question for a date: then the next attempt takes the text for another.  *)
THEOREM SpecSilenceExplained == Spec => SilenceExplained
  <1>1. Whole /\ [Next]_vars => [Explained]_vars
    <2> SUFFICES ASSUME Whole, Consume, attempt.due, ~attempt.answered, ~attempt.turned
                 PROVE  FALSE
      BY DEF Explained
    <2>1. Replying(<<>>)
      BY DEF Whole, SilenceInv, Consume
    <2>2. QED
      BY <2>1, EffectsFew DEF Replying
  <1>2. Spec => [][Explained]_vars
    BY <1>1, WholeInit, WholeStep, PTL DEF Spec
  <1>3. QED
    BY <1>2 DEF SilenceExplained, Explained
=============================================================================
