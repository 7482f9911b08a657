---------------------------- MODULE EngineSessions ----------------------------
(***************************************************************************)
(* The loop of the Telegram bot (TelegramBot::run in src/bot.rs): answers  *)
(* to the engine-on prompt, the queue of new heartbeats, and the sessions  *)
(* that went stale, one statement after another in one process.            *)
(*                                                                         *)
(* The bot is the only writer of its tables, so a step here ends where a   *)
(* failure would leave something behind: in a row of the database or, for  *)
(* the ride summary, with the user.  Messages that leave nothing behind    *)
(* belong to the step that follows them.                                   *)
(***************************************************************************)
EXTENDS Integers, Sequences, FiniteSets

CONSTANTS
  NULL,
  Devices,        \* Nat, the order of IMEIs; each bound to one chat (bound_imei UNIQUE)
  Cooldown,       \* ENGINE_ON_ALERT_COOLDOWN_SECS = STALE_ENGINE_SESSION_TIMEOUT_SECS
  Batch,          \* LIMIT of fetch_new_heartbeats
  MaxBlocks,      \* bound: users who block the bot
  MaxHeartbeats,  \* bound: heartbeats inserted
  MaxChanges,     \* bound: subscriptions that start or lapse
  MaxPresses,     \* bound: buttons pressed
  MaxFailures,    \* bound: failed requests and restarts
  Horizon         \* bound: the clock stops here, heartbeats a cooldown before

ASSUME SessionsAssumption ==
  /\ NULL \notin Int
  /\ Devices \subseteq Nat
  /\ Cooldown \in Nat \ {0} /\ Batch \in Nat \ {0}
  /\ {MaxBlocks, MaxHeartbeats, MaxChanges, MaxPresses, MaxFailures, Horizon} \subseteq Nat

VARIABLES
  now,         \* Utc::now()
  heartbeats,  \* device_heartbeats by id, uncommitted ones included
  visible,     \* ids of the committed ones
  subscribed,  \* devices whose user has an active subscription
  blocked,     \* devices whose user blocked the bot
  updates,     \* Telegram updates beyond last_telegram_update_id
  notified,    \* telegram_device_notifications by device, NULL: no row
  sessions,    \* telegram_engine_sessions by id
  cursor,      \* last_notified_heartbeat_id
  bot,         \* what the loop is doing
  used,        \* bounds used up: changes, presses, failures
  handled,     \* history: heartbeats whose handling began
  late,        \* history: heartbeats committed after a later one was fetched
  torn,        \* history: sessions whose recording or silent end failed
  unsaved,     \* history: sessions whose summary was delivered but not stored
  summaries    \* history: ride summaries delivered, by session

tables  == <<notified, sessions, cursor>>
outside == <<now, heartbeats, visible, subscribed, blocked>>
history == <<handled, late, torn, unsaved, summaries>>
vars    == <<outside, updates, tables, bot, used, history>>

-----------------------------------------------------------------------------
Active   == {"pending_confirmation", "confirmed_safe", "reported_theft"}
Statuses == {"on", "off", "unknown"}
Ids(s)   == 1..Len(s)
Least(S) == CHOOSE x \in S : \A y \in S : x <= y

(* fetch_active_engine_sessions *)
Open(d) == {s \in Ids(sessions) : sessions[s].device = d /\ sessions[s].status \in Active}

Looping == [step |-> "updates", batch |-> {}, heartbeat |-> 0, device |-> NULL,
            todo |-> {}, endedAt |-> 0, next |-> "none", groups |-> {}, reference |-> 0]

Init ==
  /\ now = 0 /\ heartbeats = <<>> /\ visible = {}
  /\ subscribed \in SUBSET Devices /\ blocked = {}
  /\ updates = <<>>
  /\ notified = [d \in Devices |-> NULL] /\ sessions = <<>> /\ cursor = 0
  /\ bot = Looping
  /\ used = [changes |-> 0, presses |-> 0, failures |-> 0]
  /\ handled = {} /\ late = {} /\ torn = {} /\ unsaved = {} /\ summaries = <<>>

-----------------------------------------------------------------------------
(* Around the bot.  A heartbeat's transaction holds its device's row, so a *)
(* device has one uncommitted heartbeat at a time; two devices may commit  *)
(* against the order of their ids, and a transaction may never commit.     *)

Tick ==
  /\ now < Horizon
  /\ now' = now + 1
  /\ UNCHANGED <<heartbeats, visible, subscribed, blocked, updates, tables, bot, used, history>>

InsertHeartbeat(d, status) ==
  /\ Len(heartbeats) < MaxHeartbeats /\ now + Cooldown <= Horizon
  /\ \A i \in Ids(heartbeats) \ visible : heartbeats[i].device # d
  /\ heartbeats' = Append(heartbeats, [device |-> d, status |-> status, at |-> now])
  /\ UNCHANGED <<now, visible, subscribed, blocked, updates, tables, bot, used, history>>

CommitHeartbeat(i) ==
  /\ visible' = visible \cup {i}
  /\ late' = IF \E j \in handled \cup bot.batch : j > i THEN late \cup {i} ELSE late
  /\ UNCHANGED <<now, heartbeats, subscribed, blocked, updates, tables, bot, used,
                 handled, torn, unsaved, summaries>>

(* A payment, or the end of a paid period.                                 *)
SubscriptionChanges(d) ==
  /\ used.changes < MaxChanges
  /\ used' = [used EXCEPT !.changes = @ + 1]
  /\ subscribed' = IF d \in subscribed THEN subscribed \ {d} ELSE subscribed \cup {d}
  /\ UNCHANGED <<now, heartbeats, visible, blocked, updates, tables, bot, history>>

BlockBot(d) ==
  /\ Cardinality(blocked) < MaxBlocks
  /\ blocked' = blocked \cup {d}
  /\ UNCHANGED <<now, heartbeats, visible, subscribed, updates, tables, bot, used, history>>

(* The prompt's keyboard stays pressable until the bot has cleared it.     *)
Press(s, answer) ==
  /\ used.presses < MaxPresses
  /\ sessions[s].device \notin blocked
  /\ used' = [used EXCEPT !.presses = @ + 1]
  /\ updates' = Append(updates, [session |-> s, answer |-> answer])
  /\ UNCHANGED <<outside, tables, bot, history>>

-----------------------------------------------------------------------------
(* process_updates: the offset moves only after an update went through.    *)

(* Mutant: the session is not checked to be pending still.                 *)
WantedWhenever(p) == sessions[p.session].device \in subscribed

Wanted(p) == /\ sessions[p.session].device \in subscribed
             /\ sessions[p.session].status = "pending_confirmation"

(* Only a press on a session that is over, by a subscriber, is answered    *)
(* without a message to the chat.                                          *)
Silent(p) == sessions[p.session].device \in subscribed /\ ~Wanted(p)

Refused(d) == d \in blocked

AnswerPress ==
  /\ bot.step = "updates" /\ updates # <<>>
  /\ LET p == Head(updates)
     IN /\ Silent(p) \/ ~Refused(sessions[p.session].device)
        /\ sessions' = IF Wanted(p) THEN [sessions EXCEPT ![p.session].status = p.answer]
                       ELSE sessions
  /\ bot' = [bot EXCEPT !.step = "consume"]
  /\ UNCHANGED <<outside, updates, notified, cursor, used, history>>

ConsumeUpdate ==
  /\ bot.step = "consume"
  /\ updates' = Tail(updates)
  /\ bot' = [bot EXCEPT !.step = "updates"]
  /\ UNCHANGED <<outside, tables, used, history>>

-----------------------------------------------------------------------------
(* process_heartbeat_notifications                                         *)

Unhandled == {i \in visible : i > cursor}

(* Mutant: the newest heartbeats first.                                    *)
FetchedNewest ==
  [Looping EXCEPT !.step = "next",
                  !.batch = {i \in Unhandled : Cardinality({j \in Unhandled : j >= i}) <= Batch}]

Fetched ==
  [Looping EXCEPT !.step = "next",
                  !.batch = {i \in Unhandled : Cardinality({j \in Unhandled : j <= i}) <= Batch}]

FetchHeartbeats ==
  /\ bot.step = "updates" /\ updates = <<>>
  /\ bot' = Fetched
  /\ UNCHANGED <<outside, updates, tables, used, history>>

Told(d, status) == notified[d] # NULL /\ notified[d].status = status

(* should_start_new_engine_on_session compares with the last "on" of the   *)
(* notification row, whether or not a session was opened for it.           *)
Continues(h, d) ==
  /\ Told(d, "on")
  /\ heartbeats[h].at - heartbeats[notified[d].heartbeat].at < Cooldown

(* Takes up the next heartbeat of the batch: its branch starts at step,    *)
(* with the sessions todo to be finished before next.                      *)
Take(h, step, todo, next) ==
  /\ bot' = [bot EXCEPT !.batch = @ \ {h}, !.heartbeat = h,
                        !.device = heartbeats[h].device, !.endedAt = heartbeats[h].at,
                        !.step = step, !.todo = todo, !.next = next]
  /\ handled' = handled \cup {h}
  /\ UNCHANGED <<outside, updates, tables, used, late, torn, unsaved, summaries>>

FinishFirst(h, d, next) ==
  Take(h, IF Open(d) = {} THEN next ELSE "finish", Open(d), next)

Upcoming(h) == bot.step = "next" /\ bot.batch # {} /\ h = Least(bot.batch)

SkipUnknown(h) ==
  /\ Upcoming(h)
  /\ heartbeats[h].status = "unknown"
  /\ Take(h, "advance", {}, "none")

(* Mutant: the sessions still open are not finished first.                 *)
EngineOnUnfinished(h, d) ==
  /\ Upcoming(h)
  /\ heartbeats[h].device = d /\ d \in subscribed
  /\ heartbeats[h].status = "on"
  /\ Take(h, IF Continues(h, d) THEN "mark" ELSE "create", {}, "none")

EngineOn(h, d) ==
  /\ Upcoming(h)
  /\ heartbeats[h].device = d /\ d \in subscribed
  /\ heartbeats[h].status = "on"
  /\ IF Continues(h, d) THEN Take(h, "mark", {}, "none") ELSE FinishFirst(h, d, "create")

(* Without a session to finish the status message comes first.             *)
EngineOff(h, d) ==
  /\ Upcoming(h)
  /\ heartbeats[h].device = d /\ d \in subscribed
  /\ heartbeats[h].status = "off"
  /\ IF Told(d, "off") THEN Take(h, "mark", {}, "none")
     ELSE IF Open(d) = {} /\ Refused(d) THEN Take(h, "advance", {}, "none")
     ELSE FinishFirst(h, d, "mark")

(* Mutant: a user without a subscription is only notified.                 *)
InactiveNotSilenced(h, d) ==
  /\ Upcoming(h)
  /\ heartbeats[h].device = d /\ d \notin subscribed
  /\ heartbeats[h].status # "unknown"
  /\ Take(h, IF Told(d, heartbeats[h].status) \/ ~Refused(d) THEN "mark" ELSE "advance",
          {}, "none")

(* A user without a subscription is notified of a change, and an engine    *)
(* switched off ends a session without a summary, refused or not.          *)
Inactive(h, d) ==
  LET off  == heartbeats[h].status = "off"
      skip == ~Told(d, heartbeats[h].status) /\ Refused(d)
  IN /\ Upcoming(h)
     /\ heartbeats[h].device = d /\ d \notin subscribed
     /\ heartbeats[h].status # "unknown"
     /\ Take(h, IF ~skip THEN "mark" ELSE IF off THEN "silence" ELSE "advance",
             {}, IF off THEN "silence" ELSE "none")

-----------------------------------------------------------------------------
(* finish_active_engine_sessions: each session, oldest first, either is    *)
(* resolved at once (its summary was stored by an attempt that failed      *)
(* later) or gets its messages, a summary if the GPS data allows one, and  *)
(* is resolved then.                                                       *)

Finishing == bot.step = "finish" /\ bot.todo # {}
Subject   == Least(bot.todo)

Resolve(s, at) ==
  /\ sessions' = [sessions EXCEPT ![s].status = "finished", ![s].resolved = at]
  /\ bot' = [bot EXCEPT !.step = IF bot.todo = {s} THEN bot.next ELSE "finish",
                        !.todo = @ \ {s}]

FinishSummarised ==
  /\ Finishing
  /\ sessions[Subject].summary
  /\ Resolve(Subject, bot.endedAt)
  /\ UNCHANGED <<outside, updates, notified, cursor, used, history>>

(* Mutant: a stored summary is not looked for.                             *)
SendSummaryAgain ==
  /\ Finishing
  /\ ~Refused(bot.device)
  /\ summaries' = [summaries EXCEPT ![Subject] = @ + 1]
  /\ bot' = [bot EXCEPT !.step = "store"]
  /\ UNCHANGED <<outside, updates, tables, used, handled, late, torn, unsaved>>

SendSummary ==
  /\ Finishing
  /\ ~sessions[Subject].summary
  /\ ~Refused(bot.device)
  /\ summaries' = [summaries EXCEPT ![Subject] = @ + 1]
  /\ bot' = [bot EXCEPT !.step = "store"]
  /\ UNCHANGED <<outside, updates, tables, used, handled, late, torn, unsaved>>

NoSummary ==
  /\ Finishing
  /\ ~sessions[Subject].summary
  /\ ~Refused(bot.device)
  /\ bot' = [bot EXCEPT !.step = "resolve"]
  /\ UNCHANGED <<outside, updates, tables, used, history>>

StoreSummary ==
  /\ bot.step = "store"
  /\ sessions' = [sessions EXCEPT ![Subject].summary = TRUE]
  /\ bot' = [bot EXCEPT !.step = "resolve"]
  /\ UNCHANGED <<outside, updates, notified, cursor, used, history>>

ResolveSession ==
  /\ bot.step = "resolve"
  /\ Resolve(Subject, now)
  /\ UNCHANGED <<outside, updates, notified, cursor, used, history>>

(* Mutant: a status that fetch_active_engine_sessions does not list.       *)
CreateSessionPending ==
  /\ bot.step = "create"
  /\ ~Refused(bot.device)
  /\ sessions' = Append(sessions,
                  [device |-> bot.device, status |-> "pending",
                   created |-> bot.endedAt, resolved |-> NULL, summary |-> FALSE])
  /\ summaries' = Append(summaries, 0)
  /\ bot' = [bot EXCEPT !.step = "mark"]
  /\ UNCHANGED <<outside, updates, notified, cursor, used, handled, late, torn, unsaved>>

(* The prompt is sent, then the session inserted.                          *)
CreateSession ==
  /\ bot.step = "create"
  /\ ~Refused(bot.device)
  /\ sessions' = Append(sessions,
                  [device |-> bot.device, status |-> "pending_confirmation",
                   created |-> bot.endedAt, resolved |-> NULL, summary |-> FALSE])
  /\ summaries' = Append(summaries, 0)
  /\ bot' = [bot EXCEPT !.step = "mark"]
  /\ UNCHANGED <<outside, updates, notified, cursor, used, handled, late, torn, unsaved>>

(* upsert_notification_state                                               *)
AfterChat == IF bot.next = "silence" THEN "silence" ELSE "advance"

MarkNotified ==
  /\ bot.step = "mark"
  /\ notified' = [notified EXCEPT ![bot.device] =
                    [status |-> heartbeats[bot.heartbeat].status, heartbeat |-> bot.heartbeat]]
  /\ bot' = [bot EXCEPT !.step = AfterChat]
  /\ UNCHANGED <<outside, updates, sessions, cursor, used, history>>

(* finish_inactive_subscription_sessions                                   *)
SilenceSessions ==
  /\ bot.step = "silence"
  /\ sessions' = [s \in Ids(sessions) |->
                    IF s \in Open(bot.device)
                    THEN [sessions[s] EXCEPT !.status = "finished", !.resolved = bot.endedAt]
                    ELSE sessions[s]]
  /\ bot' = [bot EXCEPT !.step = "advance"]
  /\ UNCHANGED <<outside, updates, notified, cursor, used, history>>

AdvanceCursor ==
  /\ bot.step = "advance"
  /\ cursor' = bot.heartbeat
  /\ bot' = [Looping EXCEPT !.step = "next", !.batch = bot.batch]
  /\ UNCHANGED <<outside, updates, notified, sessions, used, history>>

-----------------------------------------------------------------------------
(* process_stale_engine_sessions                                           *)

(* Mutant: only the rides of devices last reported as on.                  *)
RidingAsTold == {d \in Devices : Open(d) # {} /\ Told(d, "on")}

Riding == {d \in Devices : Open(d) # {}}

FetchRiding ==
  /\ bot.step = "next" /\ bot.batch = {}
  /\ bot' = IF Riding = {} THEN Looping
            ELSE [Looping EXCEPT !.step = "stale", !.groups = Riding, !.reference = now]
  /\ UNCHANGED <<outside, updates, tables, used, history>>

Heard(d) == {i \in visible : heartbeats[i].device = d}
Latest(d) == CHOOSE i \in Heard(d) : \A j \in Heard(d) : j <= i

(* should_finish_stale_engine_session                                      *)
Stale(d) == bot.reference - heartbeats[Latest(d)].at >= Cooldown

CheckStale(d) ==
  /\ bot.step = "stale" /\ bot.groups # {} /\ d = Least(bot.groups)
  /\ bot' = IF Stale(d)
            THEN [bot EXCEPT !.groups = @ \ {d}, !.device = d, !.step = "finish",
                             !.todo = Open(d), !.next = "stale",
                             !.endedAt = heartbeats[Latest(d)].at]
            ELSE [bot EXCEPT !.groups = @ \ {d}]
  /\ UNCHANGED <<outside, updates, tables, used, history>>

LoopAgain ==
  /\ bot.step = "stale" /\ bot.groups = {}
  /\ bot' = Looping
  /\ UNCHANGED <<outside, updates, tables, used, history>>

-----------------------------------------------------------------------------
(* An error ends what it is caught around: the handling of one chat, or    *)
(* one of the three parts of the loop.                                     *)
AfterError ==
  IF bot.step \in {"updates", "consume"} THEN Fetched
  ELSE IF bot.step = "stale" \/ bot.next = "stale" THEN Looping
  ELSE IF bot.step \in {"next", "silence", "advance"} THEN [Looping EXCEPT !.step = "next"]
  ELSE [bot EXCEPT !.step = AfterChat]

(* Telegram answers 403: every attempt fails in the same way.              *)
SendRefused ==
  /\ \/ /\ bot.step = "updates" /\ updates # <<>>
        /\ ~Silent(Head(updates)) /\ Refused(sessions[Head(updates).session].device)
     \/ Finishing /\ ~sessions[Subject].summary /\ Refused(bot.device)
     \/ bot.step = "create" /\ Refused(bot.device)
  /\ bot' = AfterError
  /\ UNCHANGED <<outside, updates, tables, used, history>>

Failure ==
  /\ used.failures < MaxFailures
  /\ used' = [used EXCEPT !.failures = @ + 1]
  /\ torn' = IF bot.step \in {"mark", "silence"} THEN torn \cup Open(bot.device) ELSE torn
  /\ \/ bot' \in {AfterError, Looping}
     \/ bot.step = "updates" /\ bot' = [Looping EXCEPT !.step = "next"]
  /\ UNCHANGED <<outside, updates, tables, handled, late>>

(* A request fails (the heartbeats may be what cannot be fetched), or the  *)
(* process is killed and started again.                                    *)
BotFails ==
  /\ unsaved' = IF bot.step = "store" THEN unsaved \cup {Subject} ELSE unsaved
  /\ Failure
  /\ UNCHANGED summaries

(* The summary arrives, its answer does not.                               *)
SummaryAnswerLost ==
  /\ Finishing
  /\ ~sessions[Subject].summary
  /\ ~Refused(bot.device)
  /\ summaries' = [summaries EXCEPT ![Subject] = @ + 1]
  /\ unsaved' = unsaved \cup {Subject}
  /\ Failure

-----------------------------------------------------------------------------
UpdateStep == AnswerPress \/ ConsumeUpdate

HeartbeatStep ==
  \/ FetchHeartbeats
  \/ \E h \in visible : SkipUnknown(h)
  \/ \E h \in visible, d \in Devices : EngineOn(h, d) \/ EngineOff(h, d) \/ Inactive(h, d)
  \/ CreateSession \/ MarkNotified \/ SilenceSessions \/ AdvanceCursor

FinishStep == FinishSummarised \/ SendSummary \/ NoSummary \/ StoreSummary \/ ResolveSession

StaleStep == FetchRiding \/ (\E d \in Devices : CheckStale(d)) \/ LoopAgain

BotStep == UpdateStep \/ HeartbeatStep \/ FinishStep \/ StaleStep \/ SendRefused

Outside ==
  \/ Tick
  \/ \E d \in Devices, status \in Statuses : InsertHeartbeat(d, status)
  \/ \E i \in Ids(heartbeats) \ visible : CommitHeartbeat(i)
  \/ \E d \in Devices : SubscriptionChanges(d) \/ BlockBot(d)
  \/ \E s \in Ids(sessions), answer \in {"confirmed_safe", "reported_theft"} : Press(s, answer)

Next == Outside \/ BotStep \/ BotFails \/ SummaryAnswerLost

Spec == Init /\ [][Next]_vars

(* systemd keeps the bot running, each request returns, and time passes.   *)
(* Nothing obliges a device to speak or a user to act, and failures are    *)
(* not fair.                                                               *)
FairSpec == Spec /\ WF_vars(Tick) /\ WF_vars(BotStep)
-----------------------------------------------------------------------------
BotSteps == {"updates", "consume", "next", "finish", "store", "resolve",
             "create", "mark", "silence", "advance", "stale"}

(* Types of the variables.                                                 *)
TypeOK ==
  /\ now \in Nat
  /\ heartbeats \in Seq([device : Devices, status : Statuses, at : Nat])
  /\ visible \subseteq Ids(heartbeats)
  /\ subscribed \subseteq Devices /\ blocked \subseteq Devices
  /\ sessions \in Seq([device : Devices, status : Active \cup {"finished"}, created : Nat,
                       resolved : Nat \cup {NULL}, summary : BOOLEAN])
  /\ updates \in Seq([session : Ids(sessions), answer : Active])
  /\ notified \in [Devices -> {NULL} \cup [status : Statuses, heartbeat : visible]]
  /\ cursor \in visible \cup {0}
  /\ bot \in [step : BotSteps, batch : SUBSET visible, heartbeat : visible \cup {0},
              device : Devices \cup {NULL}, todo : SUBSET Ids(sessions), endedAt : Nat,
              next : {"none", "create", "mark", "silence", "stale"},
              groups : SUBSET Devices, reference : Nat]
  /\ used \in [changes : Nat, presses : Nat, failures : Nat]
  /\ handled \subseteq visible /\ late \subseteq visible
  /\ torn \cup unsaved \subseteq Ids(sessions)
  /\ summaries \in [Ids(sessions) -> Nat]

(* However the bot fails and starts again, a device and its chat never     *)
(* have two rides open at a time.                                          *)
OneOpenSession == \A d \in Devices : Cardinality(Open(d)) <= 1

(* A finished ride is never reopened, not by a button pressed late nor by  *)
(* an update handled twice, and never finished a second time.              *)
FinishedIsFinal ==
  [][\A s \in Ids(sessions) :
       sessions[s].status = "finished" => sessions'[s] = sessions[s]]_vars

(* "stores the summary message id for retry safety" (docs/bot.README): a   *)
(* summary comes twice only if it was delivered and then not stored.       *)
SummaryRepeatsOnlyUnsaved ==
  \A s \in Ids(sessions) : summaries[s] > 1 => s \in unsaved

(* The bot passes over a heartbeat only if it became visible after one     *)
(* with a later id was fetched, whatever failed since.                     *)
SkippedOnlyIfLate ==
  \A i \in visible : i <= cursor => i \in handled \/ i \in late

(* A chat last told "off" has no ride open, or later "off" heartbeats      *)
(* would not end it: unless the statement that records a ride, or ends it  *)
(* silently, failed.                                                       *)
ToldOffMeansOver ==
  \A d \in Devices :
    Told(d, "off") /\ bot.step \in {"updates", "stale"} => Open(d) \subseteq torn

RideOpen(s) == s \in Ids(sessions) /\ sessions[s].status \in Active
RideOver(s) == s \in Ids(sessions) /\ sessions[s].status = "finished"

(* A ride does not stay open for ever, whatever failed on the way: if no   *)
(* heartbeat ends it, the stale check does.  A chat that refuses messages  *)
(* keeps its own ride open, and the rides behind it in the stale check.    *)
RideEnds ==
  \A s \in 1..MaxHeartbeats : RideOpen(s) ~> (RideOver(s) \/ blocked # {})
=============================================================================
