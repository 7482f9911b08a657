----------------------------- MODULE BotUpdates -----------------------------
(* The update half of the Telegram bot (src/src/bot.rs): long polling with *)
(* a stored offset, and the handlers of commands, texts and buttons:       *)
(* registration and binding, the access check, analytics dialogs, the      *)
(* answers to an engine prompt, theft alerts.  One process handles one     *)
(* update at a time; an error anywhere drops the rest of the batch, and    *)
(* the update is fetched and handled again from its start.                 *)
(*                                                                         *)
(* A handler reads first and acts afterwards, and only this process writes *)
(* what it reads, but for the subscription, which it reads once: it is the *)
(* sequence of effects computed when its update is taken up.  Stickers and *)
(* the other requests whose failure is only logged, and which leave        *)
(* nothing that is read again, are left out, as are all texts.             *)
EXTENDS Naturals, Sequences, FiniteSets

CONSTANTS
  NULL,
  Users, Chats,
  Imeis,        \* well-formed IMEIs
  Kinds,        \* AnalyticsKind
  Remembered,   \* the kinds whose dialog messages are remembered
  Inputs,       \* the updates users may send
  Bindings,     \* the users bound to begin with, and their devices
  Devices,      \* the rows of devices to begin with
  MaxUpdates,   \* bound: updates sent
  MaxFaults,    \* bound: requests and statements that fail by accident
  MaxChanges    \* bound: changes of the bot's surroundings

(* What a user can send: text is an IMEI, a date, a range of dates.        *)
Updates ==
  [user : Users, chat : Chats, text : Imeis \cup {"day", "range", NULL},
   what : {"start", "help", "text", "analytics", "session", "alert", "support", "subscribe"},
   kind : Kinds \cup {NULL}, range : {"select", "today", "month", "custom", NULL}]

(* A user is bound only once device_exists has found the row, and rows of  *)
(* devices are never deleted: so it is for those bound to begin with.      *)
ASSUME UpdateAssumption ==
  /\ Inputs \subseteq Updates
  /\ Remembered \subseteq Kinds
  /\ Devices \subseteq Imeis
  /\ DOMAIN Bindings \subseteq Users /\ Chats # {}
  /\ \A u \in DOMAIN Bindings : Bindings[u] \in Devices
  /\ NULL \notin {"shown", "deleted"}
  /\ {MaxUpdates, MaxFaults, MaxChanges} \subseteq Nat

Slots == {"selector", "report"}
Keys == Chats \X Kinds \X Slots

VARIABLES
  server,     \* Telegram's queue: the updates it still holds, by update_id
  arrived,    \* the last update_id given out
  expired,    \* the button presses too old to be answered
  blocked,    \* the chats that answer 403
  devices,    \* the imeis of devices
  active,     \* has_active_subscription
  users,      \* telegram_users
  prompts,    \* the engine prompt of each chat: its session and its keyboard
  last,       \* last_telegram_update_id
  asking,     \* analytics_pending:<chat>
  remembered, \* analytics_message:<chat>:<kind>:<slot>: NULL, shown or deleted
  screen,     \* how many dialog messages of a kind and slot the chat shows
  bot,        \* the running process_updates
  used,       \* bounds
  handled,    \* history: the updates whose handler has returned Ok
  attempt     \* history: what happened to the update in hand, over its attempts

telegram == <<server, arrived, expired, blocked>>
others == <<devices, active>>
tables == <<users, prompts, asking, remembered, screen>>
history == <<handled, attempt>>
vars == <<telegram, others, tables, last, bot, used, history>>

-----------------------------------------------------------------------------
(* The rows a handler reads.                                               *)

Unregistered == [imei |-> NULL, chat |-> NULL, status |-> "none"]

IsBound(u) == users[u].imei # NULL

TakenByAnother(imei, u) == \E v \in Users \ {u} : users[v].imei = imei

(* Mutant: device_exists is not asked.                                     *)
WellFormed(imei) == imei \in Imeis

(* is_valid_imei and device_exists                                         *)
Known(imei) == imei \in Imeis /\ imei \in devices

(* Mutant: any registered user may send an IMEI.                           *)
MayBindAlways(u) == users[u].status # "none"

MayBind(u) == users[u].status = "awaiting_imei" /\ ~IsBound(u)

-----------------------------------------------------------------------------
(* The effects of a handler, in order.                                     *)

Effect(do) == [do |-> do, key |-> NULL]
On(do, key) == [do |-> do, key |-> key]

Replies == {"say", "show", "toast"}

Say == <<Effect("say")>>

(* delete_remembered_analytics_message                                     *)
Withdraw(key) ==
  IF remembered[key] = NULL THEN <<>> ELSE <<On("delete", key), On("forget", key)>>

(* Mutant: the message before is left where it is.                         *)
DialogOnTop(u, slot) ==
  IF u.kind \in Remembered
    THEN <<On("show", <<u.chat, u.kind, slot>>), On("remember", <<u.chat, u.kind, slot>>)>>
    ELSE Say

(* send_remembered_analytics_message, for the kinds that are remembered.   *)
Dialog(u, slot) ==
  IF u.kind \in Remembered
    THEN Withdraw(<<u.chat, u.kind, slot>>)
           \o <<On("show", <<u.chat, u.kind, slot>>), On("remember", <<u.chat, u.kind, slot>>)>>
    ELSE Say

(* The end of send_analytics_report.                                       *)
Report(u) ==
  IF u.kind \in Remembered
    THEN Withdraw(<<u.chat, u.kind, "selector">>) \o Dialog(u, "report")
    ELSE Say

-----------------------------------------------------------------------------
(* The handlers.                                                           *)

(* ensure_active_subscription_for_callback: a toast, the keyboard pressed  *)
(* is taken off if Telegram agrees, and the payment menu.                  *)
Denied(u) ==
  <<Effect("toast")>> \o (IF u.what = "session" THEN <<Effect("tidy")>> ELSE <<>>) \o Say

(* parse_custom_analytics_range: a day for sessions, a range for the rest. *)
Understood(kind, text) == text = IF kind = "sessions" THEN "day" ELSE "range"

(* handle_custom_analytics_input                                           *)
CustomInput(u) ==
  CASE ~IsBound(u.user) \/ u.user \notin active -> <<Effect("unask")>> \o Say
    [] ~Understood(asking[u.chat], u.text)       -> Say
    [] OTHER -> <<Effect("unask")>> \o Report([u EXCEPT !.kind = asking[u.chat]])

(* The rest of handle_message: the answer to "send your IMEI".             *)
BindInput(u) ==
  IF ~MayBind(u.user) THEN <<>>
  ELSE IF ~Known(u.text) \/ TakenByAnother(u.text, u.user) THEN Say
  ELSE <<Effect("bind")>> \o Say \o Say

HandleText(u) ==
  IF users[u.user].status = "none" THEN <<>>
  ELSE IF asking[u.chat] # NULL THEN CustomInput(u)
  ELSE BindInput(u)

(* handle_command; /help, /paysupport, /terms and the rest only answer.    *)
HandleCommand(u) ==
  IF u.what = "start" /\ ~IsBound(u.user) THEN <<Effect("register")>> \o Say ELSE Say

(* handle_analytics_action, and its access check.                          *)
HandleAnalytics(u) ==
  IF u.user \notin active THEN Denied(u)
  ELSE <<Effect("answer")>> \o
       CASE ~IsBound(u.user)    -> Say
         [] u.range = "select"  -> Dialog(u, "selector")
         [] u.range = "custom"  -> <<Effect("ask")>> \o Dialog(u, "selector")
         [] u.range = "month" /\ u.kind = "sessions" -> Dialog(u, "selector")
         [] OTHER               -> Report(u)

(* A prompt's yes or no: the only keyboard whose removal must succeed.     *)
HandleSession(u) ==
  CASE u.user \notin active      -> Denied(u)
    [] ~prompts[u.chat].pending  -> <<Effect("toast")>>
    [] OTHER -> <<Effect("answer"), Effect("unkey")>> \o Say \o <<Effect("settle")>>

(* A theft alert of a session of this chat; support needs no subscription. *)
HandleAlert(u) ==
  IF u.what = "alert" /\ u.user \notin active THEN Denied(u)
                                              ELSE <<Effect("answer")>> \o Say

(* handle_payment_action: the order itself is in MidtransPayments.         *)
HandlePayment(u) ==
  IF IsBound(u.user) /\ users[u.user].status = "bound"
    THEN <<Effect("order"), Effect("answer")>> \o Say
    ELSE <<Effect("toast")>>

Handler(u) ==
  CASE u.what \in {"start", "help"}    -> HandleCommand(u)
    [] u.what = "text"                 -> HandleText(u)
    [] u.what = "analytics"            -> HandleAnalytics(u)
    [] u.what = "session"              -> HandleSession(u)
    [] u.what \in {"alert", "support"} -> HandleAlert(u)
    [] u.what = "subscribe"            -> HandlePayment(u)

(* What Telegram and the database refuse whenever it is tried: a message   *)
(* to a chat that blocked the bot, the answer to an old press, the removal *)
(* of a keyboard that is gone, an IMEI twice (bound_imei is UNIQUE).       *)
Refused(id, e) ==
  LET u == server[id]
  IN \/ e.do \in {"say", "show"} /\ u.chat \in blocked
     \/ e.do \in {"toast", "answer"} /\ id \in expired
     \/ e.do = "unkey" /\ ~prompts[u.chat].keyboard
     \/ e.do = "bind" /\ TakenByAnother(u.text, u.user)

-----------------------------------------------------------------------------
Idle == [phase |-> "poll", batch |-> {}, todo |-> <<>>]
Fresh == [due |-> FALSE, answered |-> FALSE, turned |-> FALSE]

Init ==
  /\ server = <<>> /\ arrived = 0 /\ expired = {} /\ blocked = {}
  /\ devices = Devices /\ active = DOMAIN Bindings
  /\ users = [u \in Users |->
                IF u \in DOMAIN Bindings
                  THEN [imei |-> Bindings[u], chat |-> CHOOSE c \in Chats : TRUE, status |-> "bound"]
                  ELSE Unregistered]
  /\ prompts = [c \in Chats |-> [pending |-> TRUE, keyboard |-> TRUE]]
  /\ last = 0
  /\ asking = [c \in Chats |-> NULL]
  /\ remembered = [k \in Keys |-> NULL]
  /\ screen = [k \in Keys |-> 0]
  /\ bot = Idle
  /\ used = [faults |-> 0, changes |-> 0]
  /\ handled = {}
  /\ attempt = Fresh

(* The surroundings.                                                       *)

(* An update that arrives while a batch is handled is not seen before the  *)
(* next getUpdates: it is taken to arrive with that.  A button may have    *)
(* been pressed before its keyboard was taken off.                         *)
Arrive(u) ==
  /\ bot.phase = "poll"
  /\ arrived < MaxUpdates
  /\ u.chat \notin blocked
  /\ arrived' = arrived + 1
  /\ server' = [id \in DOMAIN server \cup {arrived + 1} |-> IF id \in DOMAIN server THEN server[id] ELSE u]
  /\ UNCHANGED <<expired, blocked, others, tables, last, bot, used, history>>

Change ==
  /\ used.changes < MaxChanges
  /\ used' = [used EXCEPT !.changes = @ + 1]
  /\ UNCHANGED <<server, arrived, users, asking, remembered, screen, last, bot, history>>

(* The device logs in for the first time (events.rs).                      *)
DeviceAppears(imei) ==
  /\ Change
  /\ imei \notin devices /\ devices' = devices \cup {imei}
  /\ UNCHANGED <<expired, blocked, active, prompts>>

SubscriptionChanges(u) ==
  /\ Change
  /\ IsBound(u)
  /\ active' = IF u \in active THEN active \ {u} ELSE active \cup {u}
  /\ UNCHANGED <<expired, blocked, devices, prompts>>

BlockBot(c) ==
  /\ Change
  /\ c \notin blocked /\ blocked' = blocked \cup {c}
  /\ UNCHANGED <<expired, others, prompts>>

PressExpires(id) ==
  /\ Change
  /\ server[id].what \notin {"start", "help", "text"}
  /\ id \notin expired /\ expired' = expired \cup {id}
  /\ UNCHANGED <<blocked, others, prompts>>

(* A later heartbeat ends the ride (EngineSessions).                       *)
RideEnds(c) ==
  /\ Change
  /\ prompts[c].pending /\ prompts' = [prompts EXCEPT ![c].pending = FALSE]
  /\ UNCHANGED <<expired, blocked, others>>

-----------------------------------------------------------------------------
(* process_updates                                                         *)

(* A batch comes in the order of update_id.                                *)
InHand == CHOOSE id \in bot.batch : \A other \in bot.batch : id <= other

(* Telegram forgets what lies below the offset it is asked for.            *)
Poll ==
  /\ bot.phase = "poll"
  /\ LET held == {id \in DOMAIN server : id >= last + 1}
     IN /\ held # {}
        /\ server' = [id \in held |-> server[id]]
        /\ expired' = expired \cap held
        /\ bot' = [phase |-> "next", batch |-> held, todo |-> <<>>]
  /\ UNCHANGED <<arrived, blocked, others, tables, last, used, history>>

(* Leaves todo to be done for the update in hand; nothing left means that  *)
(* its handler has returned Ok.                                            *)
Work(todo) ==
  /\ bot' = [bot EXCEPT !.phase = "act", !.todo = todo]
  /\ handled' = IF todo = <<>> THEN handled \cup {InHand} ELSE handled

Take ==
  /\ bot.phase = "next"
  /\ LET todo == Handler(server[InHand])
     IN /\ Work(todo)
        /\ attempt' = [attempt EXCEPT !.due = @ \/ \E i \in DOMAIN todo : todo[i].do \in Replies]
  /\ UNCHANGED <<telegram, others, tables, last, used>>

(* upsert_telegram_user_registration_state                                 *)
Registered(u) ==
  [imei |-> users[u.user].imei, chat |-> u.chat,
   status |-> IF IsBound(u.user) THEN users[u.user].status ELSE "awaiting_imei"]

Bound(u) == [imei |-> u.text, chat |-> u.chat, status |-> "bound"]

(* What an effect changes.                                                 *)
Apply(e, u) ==
  /\ users' = CASE e.do = "register" -> [users EXCEPT ![u.user] = Registered(u)]
                [] e.do = "bind"     -> [users EXCEPT ![u.user] = Bound(u)]
                [] OTHER             -> users
  /\ prompts' = CASE e.do \in {"unkey", "tidy"} -> [prompts EXCEPT ![u.chat].keyboard = FALSE]
                  [] e.do = "settle"            -> [prompts EXCEPT ![u.chat].pending = FALSE]
                  [] OTHER                      -> prompts
  /\ asking' = CASE e.do = "ask"   -> [asking EXCEPT ![u.chat] = u.kind]
                 [] e.do = "unask" -> [asking EXCEPT ![u.chat] = NULL]
                 [] OTHER          -> asking
  /\ remembered' = CASE e.do = "delete"   -> [remembered EXCEPT ![e.key] = "deleted"]
                     [] e.do = "forget"   -> [remembered EXCEPT ![e.key] = NULL]
                     [] e.do = "remember" -> [remembered EXCEPT ![e.key] = "shown"]
                     [] OTHER             -> remembered
  /\ screen' = CASE e.do = "show" -> [screen EXCEPT ![e.key] = @ + 1]
                 [] e.do = "delete" /\ remembered[e.key] = "shown"
                                  -> [screen EXCEPT ![e.key] = @ - 1]
                 [] OTHER         -> screen
  /\ attempt' = [attempt EXCEPT !.answered = @ \/ e.do \in Replies,
                                !.turned = @ \/ e.do \in {"bind", "unask"}]

Pending == bot.phase = "act" /\ bot.todo # <<>>

Step ==
  /\ Pending
  /\ ~Refused(InHand, Head(bot.todo))
  /\ Apply(Head(bot.todo), server[InHand])
  /\ Work(Tail(bot.todo))
  /\ UNCHANGED <<telegram, others, last, used>>

(* set_state_i64: INSERT ... ON CONFLICT DO UPDATE.                        *)
(* Mutant: ON CONFLICT DO NOTHING.                                         *)
StoredOnce(id) == IF last = 0 THEN id ELSE last

Stored(id) == id

NextInBatch ==
  LET rest == bot.batch \ {InHand}
  IN IF rest = {} THEN Idle ELSE [phase |-> "next", batch |-> rest, todo |-> <<>>]

Consume ==
  /\ bot.phase = "act" /\ bot.todo = <<>>
  /\ last' = Stored(InHand)
  /\ bot' = NextInBatch
  /\ attempt' = Fresh
  /\ UNCHANGED <<telegram, others, tables, used, handled>>

-----------------------------------------------------------------------------
(* Failures.                                                               *)

(* Mutant: the error is logged and the loop goes on with the next update.  *)
SkipFailed == NextInBatch

(* Mutant: the error is logged and the offset is moved all the same.       *)
ConsumeFailed == [bot EXCEPT !.phase = "act", !.todo = <<>>]

(* The ? of process_updates; run polls again.                              *)
AfterError == Idle

Refuse ==
  /\ Pending
  /\ Refused(InHand, Head(bot.todo))
  /\ bot' = AfterError
  /\ UNCHANGED <<telegram, others, tables, last, used, history>>

Fault ==
  /\ used.faults < MaxFaults
  /\ used' = [used EXCEPT !.faults = @ + 1]
  /\ UNCHANGED <<telegram, others, last>>

(* A request or a statement fails, or the process dies and is restarted.   *)
Fail ==
  /\ Fault
  /\ bot.phase # "poll"
  /\ bot' = AfterError
  /\ UNCHANGED <<tables, history>>

(* It takes effect, but its answer is lost.                                *)
AnswerLost ==
  /\ Fault
  /\ Pending
  /\ ~Refused(InHand, Head(bot.todo))
  /\ Apply(Head(bot.todo), server[InHand])
  /\ bot' = AfterError
  /\ UNCHANGED handled

(* Telegram does not delete a message: that is only logged.                *)
DeleteRefused ==
  /\ Fault
  /\ Pending
  /\ Head(bot.todo).do = "delete"
  /\ Work(Tail(bot.todo))
  /\ UNCHANGED <<tables, attempt>>

-----------------------------------------------------------------------------
BotStep == Poll \/ Take \/ Step \/ Consume \/ Refuse

Surroundings ==
  \/ \E u \in Inputs : Arrive(u)
  \/ \E imei \in Imeis : DeviceAppears(imei)
  \/ \E u \in Users : SubscriptionChanges(u)
  \/ \E c \in Chats : BlockBot(c) \/ RideEnds(c)
  \/ \E id \in DOMAIN server : PressExpires(id)

Next == BotStep \/ Surroundings \/ Fail \/ AnswerLost \/ DeleteRefused

(* The loop of run never stops and every request returns.  Nothing obliges *)
(* a user to write or the surroundings to change.                          *)
Spec == Init /\ [][Next]_vars /\ WF_vars(BotStep)

-----------------------------------------------------------------------------
TypeOK ==
  /\ arrived \in 0..MaxUpdates /\ last \in 0..arrived
  /\ DOMAIN server \subseteq 1..arrived
  /\ \A id \in DOMAIN server : server[id] \in Inputs
  /\ expired \subseteq DOMAIN server /\ blocked \subseteq Chats
  /\ devices \subseteq Imeis /\ active \subseteq Users
  /\ users \in [Users -> [imei : devices \cup {NULL}, chat : Chats \cup {NULL},
                          status : {"none", "awaiting_imei", "bound"}]]
  /\ prompts \in [Chats -> [pending : BOOLEAN, keyboard : BOOLEAN]]
  /\ asking \in [Chats -> Kinds \cup {NULL}]
  /\ remembered \in [Keys -> {NULL, "shown", "deleted"}]
  /\ screen \in [Keys -> Nat]
  /\ bot.phase \in {"poll", "next", "act"}
  /\ bot.batch \subseteq DOMAIN server
  /\ handled \subseteq 1..arrived

(* "The bot resumes safely using telegram_bot_state" (docs/bot.README):    *)
(* Telegram forgets no update whose handler has not returned Ok, wherever  *)
(* process_updates stopped on the way.                                     *)
NothingSkipped == 1..arrived \subseteq DOMAIN server \cup handled

(* "one Telegram user binds to one device; one device is not allowed to be *)
(* bound to two Telegram users" (docs/bot.README): a binding once made     *)
(* stays, whatever the user sends afterwards and however often it is       *)
(* handled.                                                                *)
BindingIsForLife ==
  [][\A u \in Users : IsBound(u) => users'[u].imei = users[u].imei]_vars

(* A chat never shows two selectors, or two reports, of one kind: but for  *)
(* the messages whose number was lost, or whose deletion was refused.      *)
OneDialogPerSlot == \A k \in Keys : screen[k] <= 1 + used.faults

(* An update that asks for an answer is put behind without one only if an  *)
(* earlier attempt at it turned the conversation before it failed: the     *)
(* binding was made, or the question for a date was closed                 *)
(* (handle_custom_analytics_input clears it before it sends the report).   *)
SilenceExplained ==
  [][Consume => ~attempt.due \/ attempt.answered \/ attempt.turned]_vars

(* The oldest update is one that its handler can not get through.          *)
HeldUp ==
  \E id \in DOMAIN server :
    /\ id = last + 1
    /\ LET todo == Handler(server[id]) IN \E i \in DOMAIN todo : Refused(id, todo[i])

(* Every update is handled in the end: unless the oldest one is refused    *)
(* for ever, which holds up the queue of all chats.                        *)
UpdatesAreHandled == []<>(last = arrived \/ HeldUp)
=============================================================================
