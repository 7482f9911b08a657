-------------------------- MODULE EngineSessionsProofs --------------------------
(***************************************************************************)
(* Theorems about EngineSessions, for any devices, cooldown, batch size    *)
(* and number of heartbeats, presses, failures and restarts.               *)
(***************************************************************************)
EXTENDS EngineSessions, SequenceTheorems, FiniteSetTheorems, TLAPS

(***************************************************************************)
(* Operators.                                                              *)
(***************************************************************************)

(* The oldest of a non-empty set of ids exists.                            *)
LEMMA LeastIsFirst ==
  ASSUME NEW S \in SUBSET Nat, S # {}
  PROVE  Least(S) \in S /\ \A y \in S : Least(S) <= y
  <1>1. \E x \in S : \A y \in S : <<y, x>> \notin OpToRel(<, Nat)
    BY NatLessThanWellFounded, WFMin
  <1>2. \A x \in S, y \in S : y < x => <<y, x>> \in OpToRel(<, Nat)
    <2> SUFFICES ASSUME NEW x \in S, NEW y \in S, y < x
                 PROVE  <<y, x>> \in {ss \in Nat \X Nat : ss[1] < ss[2]}
      BY Zenon DEF OpToRel
    <2>1. QED
      OBVIOUS
  <1>3. \E x \in S : \A y \in S : ~(y < x)
    BY <1>1, <1>2, Zenon
  <1>4. \E x \in S : \A y \in S : x <= y
    BY <1>3
  <1>5. QED
    BY <1>4 DEF Least

(* So does the newest of a bounded one.                                    *)
LEMMA NewestExists ==
  ASSUME NEW n \in Nat, NEW S \in SUBSET (1..n), S # {}
  PROVE  \E x \in S : \A y \in S : y <= x
  <1> DEFINE T == {n - x : x \in S}
  <1>1. T \in SUBSET Nat /\ T # {}
    <2>1. \A x \in S : n - x \in Nat
      OBVIOUS
    <2>2. QED
      BY <2>1, Zenon
  <1>2. Least(T) \in T /\ \A y \in T : Least(T) <= y
    BY <1>1, LeastIsFirst
  <1>3. PICK x \in S : Least(T) = n - x
    BY <1>2
  <1>4. \A y \in S : n - x <= n - y
    BY <1>2, <1>3
  <1>5. QED
    BY <1>4

(***************************************************************************)
(* Types.                                                                  *)
(***************************************************************************)
Heartbeats  == [device : Devices, status : Statuses, at : Nat]
SessionRows == [device : Devices, status : Active \cup {"finished"}, created : Nat,
                resolved : Nat \cup {NULL}, summary : BOOLEAN]
Presses(n)  == [session : 1..n, answer : Active]
Rows(S)     == {NULL} \cup [status : Statuses, heartbeat : S]
Nexts       == {"none", "create", "mark", "silence", "stale"}
Bots(S, n)  == [step : BotSteps, batch : SUBSET S, heartbeat : S \cup {0},
                device : Devices \cup {NULL}, todo : SUBSET (1..n), endedAt : Nat,
                next : Nexts, groups : SUBSET Devices, reference : Nat]
Used        == [changes : Nat, presses : Nat, failures : Nat]

(* TypeOK, with the record types named.                                    *)
LEMMA TypeParts ==
  TypeOK <=>
    /\ now \in Nat
    /\ heartbeats \in Seq(Heartbeats)
    /\ visible \subseteq 1..Len(heartbeats)
    /\ subscribed \subseteq Devices /\ blocked \subseteq Devices
    /\ sessions \in Seq(SessionRows)
    /\ updates \in Seq(Presses(Len(sessions)))
    /\ notified \in [Devices -> Rows(visible)]
    /\ cursor \in visible \cup {0}
    /\ bot \in Bots(visible, Len(sessions))
    /\ used \in Used
    /\ handled \subseteq visible /\ late \subseteq visible
    /\ torn \subseteq 1..Len(sessions) /\ unsaved \subseteq 1..Len(sessions)
    /\ summaries \in [1..Len(sessions) -> Nat]
  <1>1. torn \cup unsaved \subseteq 1..Len(sessions) <=>
          torn \subseteq 1..Len(sessions) /\ unsaved \subseteq 1..Len(sessions)
    OBVIOUS
  <1>2. QED
    BY <1>1, Zenon DEF TypeOK, Heartbeats, SessionRows, Presses, Rows, Nexts, Bots, Used, Ids

(* Rows only come: what is typed by fewer heartbeats and sessions is typed *)
(* by more.                                                                *)
LEMMA TypesGrow ==
  ASSUME NEW S, NEW T, S \subseteq T, NEW m \in Nat, NEW n \in Nat, m <= n
  PROVE  /\ \A b \in Bots(S, m) : b \in Bots(T, n)
         /\ \A f \in [Devices -> Rows(S)] : f \in [Devices -> Rows(T)]
         /\ \A q \in Seq(Presses(m)) : q \in Seq(Presses(n))
  <1>1. \A b \in Bots(S, m) : b \in Bots(T, n)
    BY DEF Bots
  <1>2. Rows(S) \subseteq Rows(T)
    BY DEF Rows
  <1>3. Presses(m) \subseteq Presses(n)
    BY DEF Presses
  <1>4. \A f \in [Devices -> Rows(S)] : f \in [Devices -> Rows(T)]
    BY <1>2
  <1>5. \A q \in Seq(Presses(m)) : q \in Seq(Presses(n))
    BY <1>3, SeqMonotonic, Zenon
  <1>6. QED
    BY <1>1, <1>4, <1>5

(* The updates of the loop's record and of the session rows, named.        *)
Taken(b, h, d, at, step, todo, next) ==
  [b EXCEPT !.batch = @ \ {h}, !.heartbeat = h, !.device = d, !.endedAt = at,
            !.step = step, !.todo = todo, !.next = next]
FoundStale(b, d, at, todo) ==
  [b EXCEPT !.groups = @ \ {d}, !.device = d, !.step = "finish",
            !.todo = todo, !.next = "stale", !.endedAt = at]
WithStep(b, step)     == [b EXCEPT !.step = step]
WithoutTodo(b, step, s)   == [b EXCEPT !.step = step, !.todo = @ \ {s}]
WithStatus(q, s, v)   == [q EXCEPT ![s].status = v]
WithSummary(q, s)     == [q EXCEPT ![s].summary = TRUE]
WithEnd(q, s, at)     == [q EXCEPT ![s].status = "finished", ![s].resolved = at]
AllEnded(q, S, at)    ==
  [s \in 1..Len(q) |->
     IF s \in S THEN [q[s] EXCEPT !.status = "finished", !.resolved = at] ELSE q[s]]

(* What the stale check of a device does to the record.                    *)
LEMMA StaleRecord ==
  ASSUME NEW S, NEW n, NEW b \in Bots(S, n), NEW d \in Devices, NEW at \in Nat,
         NEW todo \in SUBSET (1..n), NEW c,
         c = FoundStale(b, d, at, todo)
  PROVE  /\ c \in Bots(S, n)
         /\ c.step = "finish" /\ c.batch = b.batch /\ c.heartbeat = b.heartbeat
         /\ c.device = d /\ c.todo = todo /\ c.endedAt = at /\ c.next = "stale"
         /\ c.groups = b.groups \ {d}
  <1>1. c = [k \in {"step", "batch", "heartbeat", "device", "todo", "endedAt", "next",
                    "groups", "reference"} |->
               IF k = "endedAt" THEN at ELSE IF k = "next" THEN "stale"
               ELSE IF k = "todo" THEN todo ELSE IF k = "step" THEN "finish"
               ELSE IF k = "device" THEN d ELSE IF k = "groups" THEN b.groups \ {d}
               ELSE b[k]]
    BY DEF Bots, FoundStale
  <1>2. c = [step |-> "finish", batch |-> b.batch, heartbeat |-> b.heartbeat, device |-> d,
             todo |-> todo, endedAt |-> at, next |-> "stale", groups |-> b.groups \ {d},
             reference |-> b.reference]
    BY <1>1 DEF Bots
  <1>3. /\ b.batch \in SUBSET S /\ b.heartbeat \in S \cup {0}
        /\ b.groups \ {d} \in SUBSET Devices /\ b.reference \in Nat
        /\ "finish" \in BotSteps /\ "stale" \in Nexts
    BY DEF Bots, BotSteps, Nexts
  <1>4. c \in Bots(S, n)
    BY ONLY <1>2, <1>3, d \in Devices, at \in Nat, todo \in SUBSET (1..n) DEF Bots
  <1>5. QED
    BY ONLY <1>2, <1>4

(* What the end of a session does to the record and to its row.            *)
LEMMA ResolveRecord ==
  ASSUME NEW S, NEW n, NEW b \in Bots(S, n), NEW s, NEW step \in BotSteps, NEW c,
         c = WithoutTodo(b, step, s)
  PROVE  /\ c \in Bots(S, n)
         /\ c.step = step /\ c.batch = b.batch /\ c.heartbeat = b.heartbeat
         /\ c.device = b.device /\ c.todo = b.todo \ {s} /\ c.endedAt = b.endedAt
         /\ c.next = b.next /\ c.groups = b.groups
  <1>1. c = [[b EXCEPT !.step = step] EXCEPT !.todo = @ \ {s}]
    BY DEF Bots, WithoutTodo
  <1>2. QED
    BY <1>1 DEF Bots

LEMMA ResolveRow ==
  ASSUME NEW q \in Seq(SessionRows), NEW s \in 1..Len(q), NEW at \in Nat, NEW r,
         r = WithEnd(q, s, at)
  PROVE  /\ r \in Seq(SessionRows) /\ Len(r) = Len(q)
         /\ r[s].status = "finished" /\ r[s].device = q[s].device /\ r[s].summary = q[s].summary
         /\ \A t \in 1..Len(q) : t # s => r[t] = q[t]
  <1> DEFINE row == [q[s] EXCEPT !.status = "finished", !.resolved = at]
  <1>1. q[s] \in SessionRows
    BY ElementOfSeq
  <1>2. row = [[q[s] EXCEPT !.status = "finished"] EXCEPT !.resolved = at]
    BY <1>1 DEF SessionRows
  <1>3. /\ row \in SessionRows
        /\ row.status = "finished" /\ row.device = q[s].device /\ row.summary = q[s].summary
    BY <1>1, <1>2 DEF SessionRows
  <1>4. r = [q EXCEPT ![s] = row]
    BY DEF WithEnd
  <1> HIDE DEF row
  <1>5. QED
    BY ONLY <1>3, <1>4, ExceptSeq, q \in Seq(SessionRows), s \in 1..Len(q), SMTT(30)

LEMMA StatusRow ==
  ASSUME NEW q \in Seq(SessionRows), NEW s \in 1..Len(q), NEW v \in Active, NEW r,
         r = WithStatus(q, s, v)
  PROVE  /\ r \in Seq(SessionRows) /\ Len(r) = Len(q)
         /\ r[s].status = v /\ r[s].device = q[s].device /\ r[s].summary = q[s].summary
         /\ \A t \in 1..Len(q) : t # s => r[t] = q[t]
  <1> DEFINE row == [q[s] EXCEPT !.status = v]
  <1>1. q[s] \in SessionRows
    BY ElementOfSeq
  <1>2. /\ row \in SessionRows
        /\ row.status = v /\ row.device = q[s].device /\ row.summary = q[s].summary
    BY <1>1 DEF SessionRows
  <1>3. r = [q EXCEPT ![s] = row]
    BY DEF WithStatus
  <1> HIDE DEF row
  <1>4. QED
    BY ONLY <1>2, <1>3, ExceptSeq, q \in Seq(SessionRows), s \in 1..Len(q), SMTT(30)

LEMMA SummaryRow ==
  ASSUME NEW q \in Seq(SessionRows), NEW s \in 1..Len(q), NEW r,
         r = WithSummary(q, s)
  PROVE  /\ r \in Seq(SessionRows) /\ Len(r) = Len(q)
         /\ r[s].status = q[s].status /\ r[s].device = q[s].device /\ r[s].summary
         /\ \A t \in 1..Len(q) : t # s => r[t] = q[t]
  <1> DEFINE row == [q[s] EXCEPT !.summary = TRUE]
  <1>1. q[s] \in SessionRows
    BY ElementOfSeq
  <1>2. /\ row \in SessionRows
        /\ row.status = q[s].status /\ row.device = q[s].device /\ row.summary = TRUE
    BY <1>1 DEF SessionRows
  <1>3. r = [q EXCEPT ![s] = row]
    BY DEF WithSummary
  <1> HIDE DEF row
  <1>4. QED
    BY ONLY <1>2, <1>3, ExceptSeq, q \in Seq(SessionRows), s \in 1..Len(q), SMTT(30)

(* finish_inactive_subscription_sessions ends a set of sessions at once.   *)
LEMMA SilencedRows ==
  ASSUME NEW q \in Seq(SessionRows), NEW S, NEW at \in Nat, NEW r,
         r = AllEnded(q, S, at)
  PROVE  /\ r \in Seq(SessionRows) /\ Len(r) = Len(q)
         /\ \A s \in 1..Len(q) :
              /\ r[s].device = q[s].device /\ r[s].summary = q[s].summary
              /\ s \in S => r[s].status = "finished"
              /\ s \notin S => r[s] = q[s]
  <1>1. Len(q) \in Nat
    BY LenProperties
  <1>2. ASSUME NEW s \in 1..Len(q)
        PROVE  /\ r[s] \in SessionRows
               /\ r[s].device = q[s].device /\ r[s].summary = q[s].summary
               /\ s \in S => r[s].status = "finished"
               /\ s \notin S => r[s] = q[s]
    <2>1. q[s] \in SessionRows
      BY ElementOfSeq
    <2>2. CASE s \notin S
      BY <2>1, <2>2 DEF AllEnded
    <2>3. CASE s \in S
      <3> DEFINE row == [q[s] EXCEPT !.status = "finished", !.resolved = at]
      <3>1. row = [[q[s] EXCEPT !.status = "finished"] EXCEPT !.resolved = at]
        BY <2>1 DEF SessionRows
      <3>2. /\ row \in SessionRows
            /\ row.status = "finished" /\ row.device = q[s].device
            /\ row.summary = q[s].summary
        BY <2>1, <3>1 DEF SessionRows
      <3>3. r[s] = row
        BY <2>3 DEF AllEnded
      <3> HIDE DEF row
      <3>4. QED
        BY <2>3, <3>2, <3>3
    <2>4. QED
      BY <2>2, <2>3
  <1>3. r \in [1..Len(q) -> SessionRows]
    <2>1. DOMAIN r = 1..Len(q) /\ r = [s \in DOMAIN r |-> r[s]]
      BY DEF AllEnded
    <2>2. QED
      BY <1>2, <2>1, Zenon
  <1>4. r \in Seq(SessionRows) /\ Len(r) = Len(q)
    BY ONLY <1>1, <1>3
  <1>5. QED
    BY <1>2, <1>4

LEMMA CreatedRow ==
  ASSUME NEW q \in Seq(SessionRows), NEW row \in SessionRows,
         NEW f \in [1..Len(q) -> Nat], NEW v \in Nat
  PROVE  /\ Append(q, row) \in Seq(SessionRows) /\ Len(Append(q, row)) = Len(q) + 1
         /\ Append(q, row)[Len(q) + 1] = row
         /\ \A t \in 1..Len(q) : Append(q, row)[t] = q[t]
         /\ Append(f, v) \in [1..Len(q) + 1 -> Nat]
         /\ Append(f, v)[Len(q) + 1] = v
         /\ \A t \in 1..Len(q) : Append(f, v)[t] = f[t]
  <1>1. Len(q) \in Nat
    BY LenProperties
  <1>2. f \in Seq(Nat) /\ Len(f) = Len(q)
    BY <1>1
  <1>3. /\ Append(q, row) \in Seq(SessionRows) /\ Len(Append(q, row)) = Len(q) + 1
        /\ Append(q, row)[Len(q) + 1] = row
        /\ \A t \in 1..Len(q) : Append(q, row)[t] = q[t]
    OBVIOUS
  <1>4. /\ Append(f, v) \in Seq(Nat) /\ Len(Append(f, v)) = Len(q) + 1
        /\ Append(f, v)[Len(q) + 1] = v
        /\ \A t \in 1..Len(q) : Append(f, v)[t] = f[t]
    BY ONLY <1>1, <1>2, v \in Nat
  <1>5. Append(f, v) \in [1..Len(q) + 1 -> Nat]
    BY <1>4, LenProperties
  <1>6. QED
    BY <1>3, <1>4, <1>5

(* The loop between two heartbeats, and between two groups.                *)
LEMMA LoopingRecord ==
  ASSUME NEW S, NEW n
  PROVE  /\ Looping \in Bots(S, n)
         /\ Looping.step = "updates" /\ Looping.batch = {} /\ Looping.heartbeat = 0
         /\ Looping.groups = {} /\ Looping.next = "none"
  BY DEF Looping, Bots, BotSteps, Nexts

NextHeartbeat(B) == [Looping EXCEPT !.step = "next", !.batch = B]
NextPart         == [Looping EXCEPT !.step = "next"]
FirstGroup(G, t) == [Looping EXCEPT !.step = "stale", !.groups = G, !.reference = t]

LEMMA BatchRecord ==
  ASSUME NEW S, NEW n, NEW B \in SUBSET S
  PROVE  LET b == NextHeartbeat(B)
         IN /\ b \in Bots(S, n)
            /\ b.step = "next" /\ b.batch = B /\ b.heartbeat = 0
            /\ b.groups = {} /\ b.next = "none"
  <1> DEFINE b == NextHeartbeat(B)
  <1>1. b = [[Looping EXCEPT !.step = "next"] EXCEPT !.batch = B]
    BY DEF Looping, NextHeartbeat
  <1>2. b = [step |-> "next", batch |-> B, heartbeat |-> 0, device |-> NULL, todo |-> {},
             endedAt |-> 0, next |-> "none", groups |-> {}, reference |-> 0]
    BY <1>1 DEF Looping
  <1> HIDE DEF b
  <1>3. /\ b \in Bots(S, n)
        /\ b.step = "next" /\ b.batch = B /\ b.heartbeat = 0
        /\ b.groups = {} /\ b.next = "none"
    BY ONLY <1>2, B \in SUBSET S DEF Bots, BotSteps, Nexts
  <1>4. QED
    BY <1>3, Zenon DEF b

LEMMA NextPartRecord == NextPart = NextHeartbeat({})
  <1> DEFINE b == [step |-> "next", batch |-> {}, heartbeat |-> 0, device |-> NULL,
                   todo |-> {}, endedAt |-> 0, next |-> "none", groups |-> {}, reference |-> 0]
  <1>1. NextPart = b
    BY DEF Looping, NextPart
  <1>2. NextHeartbeat({}) = [NextPart EXCEPT !.batch = {}]
    BY DEF Looping, NextHeartbeat, NextPart
  <1>3. [b EXCEPT !.batch = {}] = b
    OBVIOUS
  <1>4. QED
    BY <1>1, <1>2, <1>3, Zenon

LEMMA GroupsRecord ==
  ASSUME NEW S, NEW n, NEW G \in SUBSET Devices, NEW t \in Nat
  PROVE  LET b == FirstGroup(G, t)
         IN /\ b \in Bots(S, n)
            /\ b.step = "stale" /\ b.batch = {} /\ b.heartbeat = 0
            /\ b.groups = G /\ b.next = "none"
  <1> DEFINE b == FirstGroup(G, t)
  <1>1. b = [[[Looping EXCEPT !.step = "stale"] EXCEPT !.groups = G] EXCEPT !.reference = t]
    BY DEF Looping, FirstGroup
  <1>2. b = [step |-> "stale", batch |-> {}, heartbeat |-> 0, device |-> NULL, todo |-> {},
             endedAt |-> 0, next |-> "none", groups |-> G, reference |-> t]
    BY <1>1 DEF Looping
  <1> HIDE DEF b
  <1>3. /\ b \in Bots(S, n)
        /\ b.step = "stale" /\ b.batch = {} /\ b.heartbeat = 0
        /\ b.groups = G /\ b.next = "none"
    BY ONLY <1>2, G \in SUBSET Devices, t \in Nat DEF Bots, BotSteps, Nexts
  <1>4. QED
    BY <1>3, Zenon DEF b

LEMMA StepRecord ==
  ASSUME NEW S, NEW n, NEW b \in Bots(S, n), NEW step \in BotSteps, NEW c,
         c = WithStep(b, step)
  PROVE  /\ c \in Bots(S, n)
         /\ c.step = step /\ c.batch = b.batch /\ c.heartbeat = b.heartbeat
         /\ c.device = b.device /\ c.todo = b.todo /\ c.endedAt = b.endedAt
         /\ c.next = b.next /\ c.groups = b.groups
  BY DEF Bots, WithStep

LEMMA UsedRecord ==
  ASSUME NEW u \in Used
  PROVE  /\ [u EXCEPT !.changes = @ + 1] \in Used
         /\ [u EXCEPT !.presses = @ + 1] \in Used
         /\ [u EXCEPT !.failures = @ + 1] \in Used
  BY DEF Used

-----------------------------------------------------------------------------
(***************************************************************************)
(* The inductive invariant.                                                *)
(***************************************************************************)
FinishSteps == {"finish", "store", "resolve"}
ChatSteps   == {"create", "mark", "silence", "advance"}

(* Open and Heard, with the tables they read as parameters.                *)
OpenOf(rows, d)      == {s \in 1..Len(rows) : rows[s].device = d /\ rows[s].status \in Active}
HeardOf(beats, V, d) == {i \in V : beats[i].device = d}

LEMMA Named ==
  \A d : Open(d) = OpenOf(sessions, d) /\ Heard(d) = HeardOf(heartbeats, visible, d)
  BY DEF Open, OpenOf, Heard, HeardOf, Ids

(* Where the loop is says what its record holds.  While the sessions of a  *)
(* device are finished they are exactly the open ones, so a new session is *)
(* created only when none is left; a branch of the heartbeat handler has a *)
(* heartbeat in hand, and a device has a session only if it was heard.     *)
LoopShape ==
  /\ bot.step = "consume" => updates # <<>>
  /\ bot.step \in FinishSteps =>
       /\ bot.device \in Devices /\ bot.todo = OpenOf(sessions, bot.device)
       /\ bot.next \in {"create", "mark", "stale"}
       /\ bot.next # "stale" => bot.heartbeat # 0
  /\ bot.step \in {"store", "resolve"} => bot.todo # {}
  /\ bot.step \in ChatSteps => bot.heartbeat # 0 /\ bot.next # "stale"
  /\ bot.step = "create" => bot.next = "create" /\ OpenOf(sessions, bot.device) = {}
  /\ bot.next = "create" =>
       bot.heartbeat # 0 /\ heartbeats[bot.heartbeat].status = "on"
  /\ bot.step = "stale" \/ bot.next = "stale" => bot.heartbeat = 0
  /\ bot.heartbeat # 0 => bot.device = heartbeats[bot.heartbeat].device
  /\ \A d \in bot.groups : HeardOf(heartbeats, visible, d) # {}
  /\ \A s \in Ids(sessions) : HeardOf(heartbeats, visible, sessions[s].device) # {}

(* The batch in hand leaves no gap below it.                               *)
InOrder ==
  /\ {cursor, bot.heartbeat} \subseteq handled \cup {0}
  /\ \A i \in visible : i <= cursor \/ i <= bot.heartbeat => i \in handled \cup late
  /\ \A b \in bot.batch, i \in visible : i < b => i \in handled \cup late \cup bot.batch

(* Between telling a chat "off" and ending its ride there is one statement *)
(* at most; between recording a ride and telling "on" there is one too.    *)
ToldOff ==
  /\ \A d \in Devices : Told(d, "off") =>
       \/ OpenOf(sessions, d) \subseteq torn
       \/ d = bot.device /\ bot.step = "silence"
       \/ d = bot.device /\ bot.step = "mark" /\ heartbeats[bot.heartbeat].status # "off"
  /\ bot.step = "mark" /\ heartbeats[bot.heartbeat].status = "off" /\ bot.next # "silence"
       => OpenOf(sessions, bot.device) \subseteq torn

(* A summary delivered and not lost is stored, or about to be.             *)
StoredOnce ==
  \A s \in Ids(sessions) \ unsaved :
    /\ summaries[s] <= 1
    /\ summaries[s] = 1 => sessions[s].summary \/ (bot.step = "store" /\ s = Subject)

OneOpen == \A d \in Devices : \A s, t \in OpenOf(sessions, d) : s = t

(* What a step starts from.                                                *)
Typed == TypeOK /\ LoopShape

(***************************************************************************)
(* Facts of a typed state.                                                 *)
(***************************************************************************)

LEMMA StateFacts ==
  ASSUME Typed
  PROVE  /\ Len(sessions) \in Nat /\ Len(heartbeats) \in Nat
         /\ \A i \in visible : i \in 1..Len(heartbeats) /\ i # 0 /\ i \in Nat
         /\ \A i \in 1..Len(heartbeats) : heartbeats[i] \in Heartbeats
         /\ \A s \in 1..Len(sessions) : sessions[s] \in SessionRows
         /\ \A d : Open(d) \subseteq 1..Len(sessions)
         /\ bot.heartbeat # 0 =>
              /\ bot.heartbeat \in visible /\ bot.device \in Devices
              /\ heartbeats[bot.heartbeat].status \in Statuses
         /\ bot.batch \subseteq visible /\ bot.groups \subseteq Devices
         /\ bot.todo \subseteq 1..Len(sessions)
         /\ bot.step \in BotSteps /\ bot.next \in Nexts
  <1>1. /\ heartbeats \in Seq(Heartbeats) /\ sessions \in Seq(SessionRows)
        /\ visible \subseteq 1..Len(heartbeats) /\ bot \in Bots(visible, Len(sessions))
    BY TypeParts, Zenon DEF Typed
  <1>2. Len(sessions) \in Nat /\ Len(heartbeats) \in Nat
    BY <1>1, LenProperties
  <1>3. /\ \A i \in 1..Len(heartbeats) : heartbeats[i] \in Heartbeats
        /\ \A s \in 1..Len(sessions) : sessions[s] \in SessionRows
    BY <1>1, ElementOfSeq, Zenon
  <1>4. /\ bot.batch \subseteq visible /\ bot.groups \subseteq Devices
        /\ bot.todo \subseteq 1..Len(sessions)
        /\ bot.step \in BotSteps /\ bot.next \in Nexts
        /\ bot.heartbeat \in visible \cup {0}
    BY <1>1 DEF Bots
  <1>5. \A i \in visible : i \in 1..Len(heartbeats) /\ i # 0 /\ i \in Nat
    BY <1>1, <1>2
  <1>6. \A d : Open(d) \subseteq 1..Len(sessions)
    BY DEF Open, Ids
  <1>7. ASSUME bot.heartbeat # 0
        PROVE  /\ bot.heartbeat \in visible /\ bot.device \in Devices
               /\ heartbeats[bot.heartbeat].status \in Statuses
    <2>1. bot.heartbeat \in visible
      BY <1>4, <1>7
    <2>2. heartbeats[bot.heartbeat] \in Heartbeats
      BY <2>1, <1>3, <1>5
    <2>3. bot.device = heartbeats[bot.heartbeat].device
      BY <1>7, Zenon DEF Typed, LoopShape
    <2>4. QED
      BY <2>1, <2>2, <2>3 DEF Heartbeats
  <1>8. QED
    BY <1>2, <1>3, <1>4, <1>5, <1>6, <1>7, Zenon

(* The session being finished is the oldest of those to do, and open.      *)
LEMMA SubjectFacts ==
  ASSUME Typed, bot.todo # {}
  PROVE  /\ Subject \in bot.todo /\ Subject \in 1..Len(sessions)
         /\ bot.step \in FinishSteps =>
              /\ Subject \in Open(bot.device)
              /\ sessions[Subject].device = bot.device
              /\ sessions[Subject].status \in Active
  <1>1. bot.todo \in SUBSET Nat /\ bot.todo \subseteq 1..Len(sessions)
    BY StateFacts
  <1>2. Subject \in bot.todo
    BY <1>1, LeastIsFirst DEF Subject
  <1>3. bot.step \in FinishSteps => Subject \in Open(bot.device)
    BY <1>2, Named DEF Typed, LoopShape
  <1>4. QED
    BY <1>1, <1>2, <1>3 DEF Open

(* A device that was heard has a latest heartbeat.                         *)
LEMMA LatestFacts ==
  ASSUME Typed, NEW d, Heard(d) # {}
  PROVE  Latest(d) \in visible /\ heartbeats[Latest(d)].at \in Nat
  <1>1. Heard(d) \in SUBSET (1..Len(heartbeats)) /\ Heard(d) \subseteq visible
    BY StateFacts DEF Heard
  <1>2. \E i \in Heard(d) : \A j \in Heard(d) : j <= i
    BY <1>1, NewestExists, StateFacts
  <1>3. Latest(d) \in Heard(d)
    BY <1>2 DEF Latest
  <1>4. heartbeats[Latest(d)] \in Heartbeats
    BY <1>1, <1>3, StateFacts
  <1>5. QED
    BY <1>1, <1>3, <1>4 DEF Heartbeats

(***************************************************************************)
(* What an error leaves of the record: the next batch, nothing, or the     *)
(* chat's heartbeat with its cursor still to be moved.                     *)
(***************************************************************************)
Idle(b) ==
  /\ b.step \in {"updates", "next"} /\ b.batch = {} /\ b.heartbeat = 0
  /\ b.groups = {} /\ b.next = "none"

FetchedBatch == {i \in Unhandled : Cardinality({j \in Unhandled : j <= i}) <= Batch}

LEMMA FetchedFacts ==
  ASSUME Typed
  PROVE  /\ Fetched \in Bots(visible, Len(sessions))
         /\ Fetched.step = "next" /\ Fetched.batch = FetchedBatch /\ Fetched.heartbeat = 0
         /\ Fetched.groups = {} /\ Fetched.next = "none"
  <1>1. FetchedBatch \in SUBSET visible
    BY DEF FetchedBatch, Unhandled
  <1>2. Fetched = NextHeartbeat(FetchedBatch)
    BY Zenon DEF Fetched, FetchedBatch, NextHeartbeat
  <1>3. QED
    BY <1>1, <1>2, BatchRecord, Zenon

LEMMA IdleFacts ==
  /\ Idle(Looping) /\ Idle(NextPart)
  /\ \A S, n : Looping \in Bots(S, n) /\ NextPart \in Bots(S, n)
  <1>1. \A S, n : Looping \in Bots(S, n)
    BY LoopingRecord, Zenon
  <1>2. Idle(Looping)
    BY LoopingRecord DEF Idle
  <1>3. ASSUME NEW S, NEW n PROVE NextPart \in Bots(S, n) /\ Idle(NextPart)
    <2>1. {} \in SUBSET S
      OBVIOUS
    <2>2. LET b == NextPart
          IN /\ b \in Bots(S, n) /\ b.step = "next" /\ b.batch = {} /\ b.heartbeat = 0
             /\ b.groups = {} /\ b.next = "none"
      BY <2>1, NextPartRecord, BatchRecord, Zenon
    <2>3. QED
      BY <2>2 DEF Idle
  <1>4. QED
    BY <1>1, <1>2, <1>3, Zenon

(* Only a chat's own handling goes on after an error in it.                *)
ChatGoesOn(b) ==
  /\ bot.step \in FinishSteps \cup {"create", "mark"}
  /\ bot.heartbeat # 0 /\ bot.next # "stale"
  /\ b = [bot EXCEPT !.step = AfterChat]

LEMMA AfterErrorFacts ==
  ASSUME Typed, NEW b, b \in {AfterError, Looping, NextPart}
  PROVE  /\ b \in Bots(visible, Len(sessions))
         /\ b = Fetched \/ Idle(b) \/ ChatGoesOn(b)
  <1>1. CASE b = Fetched
    BY <1>1, FetchedFacts, Zenon
  <1>2. CASE b = Looping \/ b = NextPart
    BY <1>2, IdleFacts, Zenon
  <1>3. CASE /\ bot.step \notin {"updates", "consume", "stale", "next", "silence", "advance"}
             /\ bot.next # "stale"
             /\ b = [bot EXCEPT !.step = AfterChat]
    <2>1. bot \in Bots(visible, Len(sessions))
      BY TypeParts, Zenon DEF Typed
    <2>2. AfterChat \in BotSteps
      BY DEF AfterChat, BotSteps
    <2>3. b \in Bots(visible, Len(sessions))
      BY <1>3, <2>1, <2>2, StepRecord, Zenon DEF WithStep
    <2>4. bot.step \in FinishSteps \cup {"create", "mark"}
      BY <1>3, StateFacts DEF BotSteps, FinishSteps
    <2>5. bot.heartbeat # 0
      BY <1>3, <2>4 DEF Typed, LoopShape, FinishSteps, ChatSteps
    <2>6. QED
      BY <1>3, <2>3, <2>4, <2>5, Zenon DEF ChatGoesOn
  <1>4. QED
    <2>1. b = AfterError => \/ b = Fetched
                            \/ b = Looping \/ b = NextPart
                            \/ /\ bot.step \notin {"updates", "consume", "stale", "next",
                                                   "silence", "advance"}
                               /\ bot.next # "stale"
                               /\ b = [bot EXCEPT !.step = AfterChat]
      BY Zenon DEF AfterError, NextPart
    <2>2. QED
      BY <1>1, <1>2, <1>3, <2>1, Zenon

-----------------------------------------------------------------------------
(***************************************************************************)
(* Types.                                                                  *)
(***************************************************************************)

LEMMA NextTypeParts ==
  ASSUME /\ now' \in Nat
         /\ heartbeats' \in Seq(Heartbeats)
         /\ visible' \subseteq 1..Len(heartbeats')
         /\ subscribed' \subseteq Devices /\ blocked' \subseteq Devices
         /\ sessions' \in Seq(SessionRows)
         /\ updates' \in Seq(Presses(Len(sessions')))
         /\ notified' \in [Devices -> Rows(visible')]
         /\ cursor' \in visible' \cup {0}
         /\ bot' \in Bots(visible', Len(sessions'))
         /\ used' \in Used
         /\ handled' \subseteq visible' /\ late' \subseteq visible'
         /\ torn' \subseteq 1..Len(sessions') /\ unsaved' \subseteq 1..Len(sessions')
         /\ summaries' \in [1..Len(sessions') -> Nat]
  PROVE  TypeOK'
  <1>1. torn' \cup unsaved' \subseteq 1..Len(sessions')
    OBVIOUS
  <1>2. QED
    BY <1>1, Zenon DEF TypeOK, Heartbeats, SessionRows, Presses, Rows, Nexts, Bots, Used, Ids

(* Around the bot.                                                         *)
LEMMA OutsideType == ASSUME Typed, Outside PROVE TypeOK'
  <1> USE TypeParts DEF Typed, history, tables, outside
  <1>1. CASE Tick
    BY <1>1, NextTypeParts DEF Tick
  <1>2. ASSUME NEW d \in Devices, NEW status \in Statuses, InsertHeartbeat(d, status)
        PROVE  TypeOK'
    <2>1. [device |-> d, status |-> status, at |-> now] \in Heartbeats
      BY DEF Heartbeats
    <2>2. heartbeats' = Append(heartbeats, [device |-> d, status |-> status, at |-> now])
      BY <1>2 DEF InsertHeartbeat
    <2>3. heartbeats' \in Seq(Heartbeats) /\ Len(heartbeats') = Len(heartbeats) + 1
      BY <2>1, <2>2, AppendProperties, Zenon
    <2>4. visible \subseteq 1..Len(heartbeats')
      BY <2>3, LenProperties
    <2>5. QED
      BY <1>2, <2>3, <2>4, NextTypeParts DEF InsertHeartbeat
  <1>3. ASSUME NEW i \in Ids(heartbeats) \ visible, CommitHeartbeat(i) PROVE TypeOK'
    <2>1. visible' = visible \cup {i} /\ late' \in {late, late \cup {i}}
      BY <1>3 DEF CommitHeartbeat
    <2>2. visible' \subseteq 1..Len(heartbeats) /\ late' \subseteq visible'
      BY <2>1 DEF Ids
    <2>3. /\ bot \in Bots(visible', Len(sessions)) /\ notified \in [Devices -> Rows(visible')]
      <3>1. visible \subseteq visible' /\ Len(sessions) \in Nat /\ Len(sessions) <= Len(sessions)
        BY <2>1, StateFacts
      <3>2. QED
        BY <3>1, TypesGrow, Zenon
    <2>4. QED
      BY <1>3, <2>1, <2>2, <2>3, NextTypeParts DEF CommitHeartbeat
  <1>4. ASSUME NEW d \in Devices, SubscriptionChanges(d) PROVE TypeOK'
    <2>1. subscribed' \subseteq Devices
      BY <1>4 DEF SubscriptionChanges
    <2>2. used' \in Used
      BY <1>4, UsedRecord DEF SubscriptionChanges
    <2>3. QED
      BY <1>4, <2>1, <2>2, NextTypeParts DEF SubscriptionChanges
  <1>5. ASSUME NEW d \in Devices, BlockBot(d) PROVE TypeOK'
    BY <1>5, NextTypeParts DEF BlockBot
  <1>6. ASSUME NEW s \in Ids(sessions), NEW answer \in {"confirmed_safe", "reported_theft"},
               Press(s, answer)
        PROVE  TypeOK'
    <2>1. [session |-> s, answer |-> answer] \in Presses(Len(sessions))
      BY DEF Presses, Ids, Active
    <2>2. updates' \in Seq(Presses(Len(sessions)))
      BY <1>6, <2>1, AppendProperties, Zenon DEF Press
    <2>3. used' \in Used
      BY <1>6, UsedRecord DEF Press
    <2>4. QED
      BY <1>6, <2>2, <2>3, NextTypeParts DEF Press
  <1>7. QED
    BY <1>1, <1>2, <1>3, <1>4, <1>5, <1>6, Zenon DEF Outside

(* Answers to the prompt, and what the loop takes up next.                 *)
LEMMA LoopType ==
  ASSUME Typed,
         \/ AnswerPress \/ ConsumeUpdate \/ FetchHeartbeats \/ AdvanceCursor
         \/ FetchRiding \/ (\E d \in Devices : CheckStale(d)) \/ LoopAgain
  PROVE  TypeOK'
  <1> USE TypeParts DEF Typed, history, tables, outside
  <1>0. Len(sessions) \in Nat /\ bot \in Bots(visible, Len(sessions))
    BY StateFacts
  <1>1. CASE AnswerPress
    <2>1. bot' \in Bots(visible, Len(sessions))
      <3>1. bot' = WithStep(bot, "consume") /\ "consume" \in BotSteps
        BY <1>1 DEF AnswerPress, WithStep, BotSteps
      <3>2. QED
        BY <1>0, <3>1, StepRecord, Zenon
    <2> DEFINE p == Head(updates)
    <2>2. p \in Presses(Len(sessions))
      BY <1>1, HeadTailProperties DEF AnswerPress
    <2>3. p.session \in 1..Len(sessions) /\ p.answer \in Active
      BY <2>2 DEF Presses
    <2>4. sessions' = sessions \/ sessions' = WithStatus(sessions, p.session, p.answer)
      BY <1>1, Zenon DEF AnswerPress, WithStatus
    <2> HIDE DEF p
    <2>5. sessions' \in Seq(SessionRows) /\ Len(sessions') = Len(sessions)
      BY <2>3, <2>4, StatusRow
    <2>6. QED
      BY <1>1, <2>1, <2>5, NextTypeParts DEF AnswerPress
  <1>2. CASE ConsumeUpdate
    <2>1. bot' \in Bots(visible, Len(sessions))
      <3>1. bot' = WithStep(bot, "updates") /\ "updates" \in BotSteps
        BY <1>2 DEF ConsumeUpdate, WithStep, BotSteps
      <3>2. QED
        BY <1>0, <3>1, StepRecord, Zenon
    <2>2. updates # <<>>
      BY <1>2 DEF ConsumeUpdate, LoopShape
    <2>3. updates' \in Seq(Presses(Len(sessions)))
      BY <1>2, <2>2, HeadTailProperties DEF ConsumeUpdate
    <2>4. QED
      BY <1>2, <2>1, <2>3, NextTypeParts DEF ConsumeUpdate
  <1>3. CASE FetchHeartbeats
    <2>1. bot' \in Bots(visible, Len(sessions))
      BY <1>3, FetchedFacts, Zenon DEF FetchHeartbeats
    <2>2. QED
      BY <1>3, <2>1, NextTypeParts DEF FetchHeartbeats
  <1>4. CASE AdvanceCursor
    <2>1. bot.batch \in SUBSET visible /\ bot.heartbeat \in visible \cup {0}
      BY <1>0 DEF Bots
    <2>2. bot' = NextHeartbeat(bot.batch)
      BY <1>4, Zenon DEF AdvanceCursor, NextHeartbeat
    <2>3. bot' \in Bots(visible, Len(sessions))
      BY <2>1, <2>2, BatchRecord, Zenon
    <2>4. QED
      BY <1>4, <2>1, <2>3, NextTypeParts DEF AdvanceCursor
  <1>5. CASE FetchRiding
    <2>1. Riding \in SUBSET Devices /\ now \in Nat
      BY DEF Riding
    <2>2. bot' \in Bots(visible, Len(sessions))
      <3>1. bot' = Looping \/ bot' = FirstGroup(Riding, now)
        BY <1>5, Zenon DEF FetchRiding, FirstGroup
      <3>2. QED
        <4>1. FirstGroup(Riding, now) \in Bots(visible, Len(sessions))
          BY <2>1, GroupsRecord, Zenon
        <4>2. Looping \in Bots(visible, Len(sessions))
          BY LoopingRecord, Zenon
        <4>3. QED
          BY <3>1, <4>1, <4>2, Zenon
    <2>3. QED
      BY <1>5, <2>2, NextTypeParts DEF FetchRiding
  <1>6. ASSUME NEW d \in Devices, CheckStale(d) PROVE TypeOK'
    <2>1. d \in bot.groups
      <3>1. bot.groups \in SUBSET Nat /\ bot.groups # {} /\ d = Least(bot.groups)
        BY <1>0, <1>6, SessionsAssumption DEF CheckStale, Bots, SessionsAssumption
      <3>2. QED
        BY <3>1, LeastIsFirst
    <2>2. heartbeats[Latest(d)].at \in Nat
      BY <2>1, LatestFacts, Named DEF LoopShape
    <2>3. Open(d) \in SUBSET (1..Len(sessions))
      BY StateFacts
    <2>4. CASE Stale(d)
      <3>1. bot' \in Bots(visible, Len(sessions))
        <4>1. bot' = FoundStale(bot, d, heartbeats[Latest(d)].at, Open(d))
          BY <1>6, <2>4, Zenon DEF CheckStale, FoundStale
        <4>2. QED
          BY <1>0, <2>2, <2>3, <4>1, StaleRecord
      <3>2. QED
        BY <1>6, <3>1, NextTypeParts DEF CheckStale
    <2>5. CASE ~Stale(d)
      <3>1. bot' \in Bots(visible, Len(sessions))
        BY <1>0, <1>6, <2>5 DEF CheckStale, Bots
      <3>2. QED
        BY <1>6, <3>1, NextTypeParts DEF CheckStale
    <2>6. QED
      BY <2>4, <2>5
  <1>7. CASE LoopAgain
    <2>1. bot' \in Bots(visible, Len(sessions))
      BY <1>7, LoopingRecord, Zenon DEF LoopAgain
    <2>2. QED
      BY <1>7, <2>1, NextTypeParts DEF LoopAgain
  <1>8. QED
    BY <1>1, <1>2, <1>3, <1>4, <1>5, <1>6, <1>7

(* A heartbeat is taken up.                                                *)
LEMMA TakeFacts ==
  ASSUME Typed, NEW h \in visible, NEW step \in BotSteps, NEW todo \in SUBSET Ids(sessions),
         NEW next \in Nexts, Upcoming(h), Take(h, step, todo, next)
  PROVE  /\ h \in bot.batch /\ \A b \in bot.batch : h <= b
         /\ bot.step = "next"
         /\ bot' \in Bots(visible, Len(sessions))
         /\ bot'.step = step /\ bot'.batch = bot.batch \ {h} /\ bot'.heartbeat = h
         /\ bot'.device = heartbeats[h].device /\ bot'.todo = todo
         /\ bot'.endedAt = heartbeats[h].at /\ bot'.next = next /\ bot'.groups = bot.groups
         /\ handled' = handled \cup {h}
         /\ UNCHANGED <<outside, updates, tables, used, late, torn, unsaved, summaries>>
         /\ TypeOK'
  <1>1. bot.batch \in SUBSET Nat /\ bot.batch # {} /\ h = Least(bot.batch)
    <2>1. bot.batch \in SUBSET Nat
      BY StateFacts
    <2>2. QED
      BY <2>1 DEF Upcoming
  <1>2. h \in bot.batch /\ \A b \in bot.batch : h <= b
    BY <1>1, LeastIsFirst
  <1>3. heartbeats[h].device \in Devices /\ heartbeats[h].at \in Nat
    BY StateFacts DEF Heartbeats
  <1>4. bot' = Taken(bot, h, heartbeats[h].device, heartbeats[h].at, step, todo, next)
    BY Zenon DEF Take, Taken
  <1>5. bot \in Bots(visible, Len(sessions)) /\ todo \in SUBSET (1..Len(sessions))
    BY TypeParts DEF Ids, Typed
  <1>6. /\ bot' \in Bots(visible, Len(sessions))
        /\ bot'.step = step /\ bot'.batch = bot.batch \ {h} /\ bot'.heartbeat = h
        /\ bot'.device = heartbeats[h].device /\ bot'.todo = todo
        /\ bot'.endedAt = heartbeats[h].at /\ bot'.next = next /\ bot'.groups = bot.groups
    <2>1. bot' = [k \in {"step", "batch", "heartbeat", "device", "todo", "endedAt", "next",
                         "groups", "reference"} |->
                    IF k = "next" THEN next ELSE IF k = "todo" THEN todo
                    ELSE IF k = "step" THEN step ELSE IF k = "endedAt" THEN heartbeats[h].at
                    ELSE IF k = "device" THEN heartbeats[h].device
                    ELSE IF k = "heartbeat" THEN h
                    ELSE IF k = "batch" THEN bot.batch \ {h} ELSE bot[k]]
      BY <1>4, <1>5 DEF Bots, Taken
    <2>2. bot' = [step |-> step, batch |-> bot.batch \ {h}, heartbeat |-> h,
                  device |-> heartbeats[h].device, todo |-> todo,
                  endedAt |-> heartbeats[h].at, next |-> next, groups |-> bot.groups,
                  reference |-> bot.reference]
      BY <1>5, <2>1 DEF Bots
    <2>3. /\ bot.batch \ {h} \in SUBSET visible /\ bot.groups \in SUBSET Devices
          /\ bot.reference \in Nat
      BY <1>5 DEF Bots
    <2>4. bot' \in Bots(visible, Len(sessions))
      BY ONLY <1>3, <1>5, <2>2, <2>3, h \in visible, step \in BotSteps, next \in Nexts DEF Bots
    <2>5. QED
      BY ONLY <2>2, <2>4
  <1>7. /\ handled' = handled \cup {h}
        /\ UNCHANGED <<outside, updates, tables, used, late, torn, unsaved, summaries>>
    BY DEF Take
  <1>8. TypeOK'
    BY <1>6, <1>7, NextTypeParts, TypeParts DEF outside, tables, Typed
  <1>9. QED
    BY <1>2, <1>6, <1>7, <1>8, Zenon DEF Upcoming

(* Which branch a heartbeat takes: with sessions to finish first, with a   *)
(* session to record, with something to tell, or with nothing.             *)
TakenUp(h) ==
  /\ Upcoming(h)
  /\ \/ /\ Take(h, "finish", Open(heartbeats[h].device), "create")
        /\ heartbeats[h].status = "on"
     \/ /\ Take(h, "finish", Open(heartbeats[h].device), "mark")
        /\ heartbeats[h].status = "off"
     \/ /\ Take(h, "create", Open(heartbeats[h].device), "create")
        /\ heartbeats[h].status = "on" /\ Open(heartbeats[h].device) = {}
     \/ /\ Take(h, "mark", Open(heartbeats[h].device), "mark")
        /\ Open(heartbeats[h].device) = {}
     \/ /\ Take(h, "mark", {}, "none")
        /\ heartbeats[h].status # "off" \/ Told(heartbeats[h].device, "off")
     \/ Take(h, "mark", {}, "silence")
     \/ Take(h, "silence", {}, "silence")
     \/ Take(h, "advance", {}, "none")

LEMMA HeartbeatBranches ==
  ASSUME Typed, NEW h \in visible,
         \/ SkipUnknown(h)
         \/ \E d \in Devices : EngineOn(h, d) \/ EngineOff(h, d) \/ Inactive(h, d)
  PROVE  TakenUp(h)
  <1>1. CASE SkipUnknown(h)
    BY <1>1, Zenon DEF SkipUnknown, TakenUp
  <1>2. ASSUME NEW d \in Devices, EngineOn(h, d) PROVE TakenUp(h)
    <2>1. Upcoming(h) /\ heartbeats[h].device = d /\ heartbeats[h].status = "on"
      BY <1>2, Zenon DEF EngineOn
    <2>2. heartbeats[h].status # "off"
      BY <2>1
    <2>3. CASE Continues(h, d)
      BY <1>2, <2>1, <2>2, <2>3, Zenon DEF EngineOn, TakenUp
    <2>4. CASE ~Continues(h, d)
      BY <1>2, <2>1, <2>4, Zenon DEF EngineOn, FinishFirst, TakenUp
    <2>5. QED
      BY <2>3, <2>4
  <1>3. ASSUME NEW d \in Devices, EngineOff(h, d) PROVE TakenUp(h)
    <2>1. Upcoming(h) /\ heartbeats[h].device = d /\ heartbeats[h].status = "off"
      BY <1>3, Zenon DEF EngineOff
    <2>2. CASE Told(d, "off")
      BY <1>3, <2>1, <2>2, Zenon DEF EngineOff, TakenUp
    <2>3. CASE ~Told(d, "off")
      BY <1>3, <2>1, <2>3, Zenon DEF EngineOff, FinishFirst, TakenUp
    <2>4. QED
      BY <2>2, <2>3
  <1>4. ASSUME NEW d \in Devices, Inactive(h, d) PROVE TakenUp(h)
    <2>1. Upcoming(h) /\ heartbeats[h].device = d
      BY <1>4, Zenon DEF Inactive
    <2>2. CASE heartbeats[h].status = "off"
      BY <1>4, <2>1, <2>2, Zenon DEF Inactive, TakenUp
    <2>3. CASE heartbeats[h].status # "off"
      BY <1>4, <2>1, <2>3, Zenon DEF Inactive, TakenUp
    <2>4. QED
      BY <2>2, <2>3
  <1>5. QED
    BY <1>1, <1>2, <1>3, <1>4

Branch(h, step, todo, next) ==
  LET on  == heartbeats[h].status = "on"
      off == heartbeats[h].status = "off"
      d   == heartbeats[h].device
  IN \/ step = "finish" /\ todo = OpenOf(sessions, d) /\ next = "create" /\ on
     \/ step = "finish" /\ todo = OpenOf(sessions, d) /\ next = "mark" /\ off
     \/ step = "create" /\ OpenOf(sessions, d) = {} /\ next = "create" /\ on
     \/ step = "mark" /\ OpenOf(sessions, d) = {} /\ next = "mark"
     \/ step = "mark" /\ next = "none" /\ (~off \/ Told(d, "off"))
     \/ step = "mark" /\ next = "silence"
     \/ step = "silence" /\ next = "silence"
     \/ step = "advance" /\ next = "none"

LEMMA TakenUpFacts ==
  ASSUME Typed, NEW h \in visible, TakenUp(h)
  PROVE  \E step \in BotSteps, todo \in SUBSET Ids(sessions), next \in Nexts :
            Take(h, step, todo, next) /\ Branch(h, step, todo, next)
  <1> DEFINE o == OpenOf(sessions, heartbeats[h].device)
             Picked(step, todo, next) == Take(h, step, todo, next) /\ Branch(h, step, todo, next)
  <1>1. o \in SUBSET Ids(sessions) /\ {} \in SUBSET Ids(sessions)
    BY DEF OpenOf, Ids
  <1>2. /\ {"finish", "create", "mark", "silence", "advance"} \subseteq BotSteps
        /\ {"create", "mark", "none", "silence"} \subseteq Nexts
    BY DEF BotSteps, Nexts
  <1>3. \/ Picked("finish", o, "create") \/ Picked("finish", o, "mark")
        \/ Picked("create", o, "create") \/ Picked("mark", o, "mark")
        \/ Picked("mark", {}, "none") \/ Picked("mark", {}, "silence")
        \/ Picked("silence", {}, "silence") \/ Picked("advance", {}, "none")
    BY Named, Zenon DEF TakenUp, Branch
  <1> HIDE DEF o, Picked
  <1>4. ASSUME NEW step \in {"finish", "create", "mark", "silence", "advance"},
               NEW todo \in {o, {}}, NEW next \in {"create", "mark", "none", "silence"},
               Picked(step, todo, next)
        PROVE  \E stp \in BotSteps, td \in SUBSET Ids(sessions), nxt \in Nexts :
                  Picked(stp, td, nxt)
    BY <1>1, <1>2, <1>4, Zenon
  <1>5. \E stp \in BotSteps, td \in SUBSET Ids(sessions), nxt \in Nexts : Picked(stp, td, nxt)
    BY <1>3, <1>4, Zenon
  <1>6. QED
    BY <1>5, Zenon DEF Picked

(* The sessions of a device are finished.  The facts are used again below. *)
LEMMA ResolveFacts ==
  ASSUME Typed, bot.step \in FinishSteps, bot.todo # {}, NEW at \in Nat, Resolve(Subject, at)
  PROVE  /\ bot' \in Bots(visible, Len(sessions))
         /\ bot'.step \in {bot.next, "finish"}
         /\ bot'.step = IF bot.todo = {Subject} THEN bot.next ELSE "finish"
         /\ bot'.batch = bot.batch /\ bot'.heartbeat = bot.heartbeat
         /\ bot'.device = bot.device /\ bot'.todo = bot.todo \ {Subject}
         /\ bot'.next = bot.next /\ bot'.groups = bot.groups
         /\ sessions' \in Seq(SessionRows) /\ Len(sessions') = Len(sessions)
         /\ sessions'[Subject].status = "finished"
         /\ sessions'[Subject].device = sessions[Subject].device
         /\ sessions'[Subject].summary = sessions[Subject].summary
         /\ \A t \in 1..Len(sessions) : t # Subject => sessions'[t] = sessions[t]
  <1> DEFINE step == IF bot.todo = {Subject} THEN bot.next ELSE "finish"
  <1>1. bot \in Bots(visible, Len(sessions)) /\ sessions \in Seq(SessionRows)
    BY TypeParts DEF Typed
  <1>2. Subject \in 1..Len(sessions)
    BY SubjectFacts
  <1>3. step \in BotSteps
    BY DEF Typed, LoopShape, BotSteps
  <1>4. bot' = WithoutTodo(bot, step, Subject) /\ sessions' = WithEnd(sessions, Subject, at)
    BY Zenon DEF Resolve, WithoutTodo, WithEnd
  <1> HIDE DEF step
  <1>5. /\ bot' \in Bots(visible, Len(sessions))
        /\ bot'.step = step /\ bot'.batch = bot.batch /\ bot'.heartbeat = bot.heartbeat
        /\ bot'.device = bot.device /\ bot'.todo = bot.todo \ {Subject}
        /\ bot'.next = bot.next /\ bot'.groups = bot.groups
    BY <1>1, <1>3, <1>4, ResolveRecord
  <1>6. /\ sessions' \in Seq(SessionRows) /\ Len(sessions') = Len(sessions)
        /\ sessions'[Subject].status = "finished"
        /\ sessions'[Subject].device = sessions[Subject].device
        /\ sessions'[Subject].summary = sessions[Subject].summary
        /\ \A t \in 1..Len(sessions) : t # Subject => sessions'[t] = sessions[t]
    BY <1>1, <1>2, <1>4, ResolveRow
  <1>7. QED
    BY <1>5, <1>6 DEF step

LEMMA FinishType == ASSUME Typed, FinishStep PROVE TypeOK'
  <1> USE TypeParts DEF Typed, history, tables, outside
  <1>0. /\ Len(sessions) \in Nat /\ bot \in Bots(visible, Len(sessions))
        /\ sessions \in Seq(SessionRows) /\ summaries \in [1..Len(sessions) -> Nat]
    BY StateFacts
  <1>1. bot.step \in FinishSteps /\ bot.todo # {}
    BY DEF FinishStep, FinishSummarised, SendSummary, NoSummary, StoreSummary, ResolveSession,
           Finishing, FinishSteps, LoopShape
  <1>2. Subject \in 1..Len(sessions)
    BY <1>1, SubjectFacts
  <1>3. CASE FinishSummarised
    <2>1. bot.endedAt \in Nat /\ Resolve(Subject, bot.endedAt)
      BY <1>0, <1>3 DEF FinishSummarised, Bots
    <2>2. /\ bot' \in Bots(visible, Len(sessions)) /\ sessions' \in Seq(SessionRows)
          /\ Len(sessions') = Len(sessions)
      BY <1>1, <2>1, ResolveFacts
    <2>3. QED
      BY <1>3, <2>2, NextTypeParts DEF FinishSummarised
  <1>4. CASE SendSummary
    <2>1. bot' = WithStep(bot, "store") /\ "store" \in BotSteps
      BY <1>4 DEF SendSummary, WithStep, BotSteps
    <2>2. bot' \in Bots(visible, Len(sessions))
      BY <1>0, <2>1, StepRecord, Zenon
    <2>3. summaries' \in [1..Len(sessions) -> Nat]
      BY <1>0, <1>2, <1>4 DEF SendSummary
    <2>4. QED
      BY <1>4, <2>2, <2>3, NextTypeParts DEF SendSummary
  <1>5. CASE NoSummary
    <2>1. bot' = WithStep(bot, "resolve") /\ "resolve" \in BotSteps
      BY <1>5 DEF NoSummary, WithStep, BotSteps
    <2>2. bot' \in Bots(visible, Len(sessions))
      BY <1>0, <2>1, StepRecord, Zenon
    <2>3. QED
      BY <1>5, <2>2, NextTypeParts DEF NoSummary
  <1>6. CASE StoreSummary
    <2>1. bot' = WithStep(bot, "resolve") /\ "resolve" \in BotSteps
      BY <1>6 DEF StoreSummary, WithStep, BotSteps
    <2>2. bot' \in Bots(visible, Len(sessions))
      BY <1>0, <2>1, StepRecord, Zenon
    <2>3. sessions' = WithSummary(sessions, Subject)
      BY <1>6, Zenon DEF StoreSummary, WithSummary
    <2>4. sessions' \in Seq(SessionRows) /\ Len(sessions') = Len(sessions)
      BY <1>0, <1>2, <2>3, SummaryRow
    <2>5. QED
      BY <1>6, <2>2, <2>4, NextTypeParts DEF StoreSummary
  <1>7. CASE ResolveSession
    <2>1. now \in Nat /\ Resolve(Subject, now)
      BY <1>7 DEF ResolveSession
    <2>2. /\ bot' \in Bots(visible, Len(sessions)) /\ sessions' \in Seq(SessionRows)
          /\ Len(sessions') = Len(sessions)
      BY <1>1, <2>1, ResolveFacts
    <2>3. QED
      BY <1>7, <2>2, NextTypeParts DEF ResolveSession
  <1>8. QED
    BY <1>3, <1>4, <1>5, <1>6, <1>7 DEF FinishStep

(* A session is recorded.                                                  *)
LEMMA CreateFacts ==
  ASSUME Typed, CreateSession
  PROVE  LET n == Len(sessions) + 1
         IN /\ sessions' \in Seq(SessionRows) /\ Len(sessions') = n
            /\ sessions'[n].device = bot.device /\ sessions'[n].status \in Active
            /\ \A t \in 1..Len(sessions) : sessions'[t] = sessions[t]
            /\ summaries' \in [1..n -> Nat] /\ summaries'[n] = 0
            /\ \A t \in 1..Len(sessions) : summaries'[t] = summaries[t]
            /\ bot' \in Bots(visible, n)
            /\ bot'.step = "mark" /\ bot'.batch = bot.batch /\ bot'.heartbeat = bot.heartbeat
            /\ bot'.device = bot.device /\ bot'.todo = bot.todo
            /\ bot'.next = bot.next /\ bot'.groups = bot.groups
  <1>1. /\ Len(sessions) \in Nat /\ bot \in Bots(visible, Len(sessions))
        /\ sessions \in Seq(SessionRows) /\ summaries \in [1..Len(sessions) -> Nat]
    BY StateFacts, TypeParts DEF Typed
  <1>2. bot.device \in Devices /\ bot.endedAt \in Nat
    BY <1>1, StateFacts DEF CreateSession, Typed, LoopShape, Bots, ChatSteps
  <1> DEFINE row == [device |-> bot.device, status |-> "pending_confirmation",
                     created |-> bot.endedAt, resolved |-> NULL, summary |-> FALSE]
  <1>3. row \in SessionRows /\ row.device = bot.device /\ row.status \in Active
    BY <1>2 DEF SessionRows, Active
  <1>4. sessions' = Append(sessions, row) /\ summaries' = Append(summaries, 0)
    BY DEF CreateSession
  <1> HIDE DEF row
  <1>5. /\ sessions' \in Seq(SessionRows) /\ Len(sessions') = Len(sessions) + 1
        /\ sessions'[Len(sessions) + 1] = row
        /\ \A t \in 1..Len(sessions) : sessions'[t] = sessions[t]
        /\ summaries' \in [1..Len(sessions) + 1 -> Nat] /\ summaries'[Len(sessions) + 1] = 0
        /\ \A t \in 1..Len(sessions) : summaries'[t] = summaries[t]
    BY <1>1, <1>3, <1>4, CreatedRow
  <1>6. bot' = WithStep(bot, "mark") /\ "mark" \in BotSteps
    BY DEF CreateSession, WithStep, BotSteps
  <1>7. bot \in Bots(visible, Len(sessions) + 1)
    BY <1>1 DEF Bots
  <1>8. /\ bot' \in Bots(visible, Len(sessions) + 1)
        /\ bot'.step = "mark" /\ bot'.batch = bot.batch /\ bot'.heartbeat = bot.heartbeat
        /\ bot'.device = bot.device /\ bot'.todo = bot.todo
        /\ bot'.next = bot.next /\ bot'.groups = bot.groups
    BY <1>6, <1>7, StepRecord
  <1>9. QED
    BY <1>3, <1>5, <1>8, Zenon

LEMMA ChatType == ASSUME Typed, CreateSession \/ MarkNotified \/ SilenceSessions PROVE TypeOK'
  <1> USE TypeParts DEF Typed, history, tables, outside
  <1>0. /\ Len(sessions) \in Nat /\ bot \in Bots(visible, Len(sessions))
        /\ sessions \in Seq(SessionRows)
    BY StateFacts
  <1>1. CASE CreateSession
    <2> DEFINE n == Len(sessions) + 1
    <2>1. /\ sessions' \in Seq(SessionRows) /\ Len(sessions') = n
          /\ summaries' \in [1..n -> Nat] /\ bot' \in Bots(visible, n)
      BY <1>1, CreateFacts
    <2>2. n \in Nat /\ Len(sessions) <= n
      BY <1>0
    <2>3. updates \in Seq(Presses(n))
      BY <1>0, <2>2, TypesGrow
    <2>4. torn \subseteq 1..n /\ unsaved \subseteq 1..n
      BY <1>0
    <2>5. UNCHANGED <<outside, updates, notified, cursor, used, handled, late, torn, unsaved>>
      BY <1>1, Zenon DEF CreateSession
    <2> HIDE DEF n
    <2>6. QED
      BY <2>1, <2>3, <2>4, <2>5, NextTypeParts
  <1>2. CASE MarkNotified
    <2>1. AfterChat \in BotSteps /\ bot' = WithStep(bot, AfterChat)
      BY <1>2 DEF MarkNotified, AfterChat, WithStep, BotSteps
    <2>2. bot' \in Bots(visible, Len(sessions))
      BY <1>0, <2>1, StepRecord, Zenon
    <2>3. bot.heartbeat \in visible /\ heartbeats[bot.heartbeat].status \in Statuses
      BY <1>2, StateFacts DEF MarkNotified, LoopShape, ChatSteps
    <2>4. notified' \in [Devices -> Rows(visible)]
      BY <1>2, <2>3 DEF MarkNotified, Rows
    <2>5. QED
      BY <1>2, <2>2, <2>4, NextTypeParts DEF MarkNotified
  <1>3. CASE SilenceSessions
    <2>1. "advance" \in BotSteps /\ bot' = WithStep(bot, "advance")
      BY <1>3 DEF SilenceSessions, WithStep, BotSteps
    <2>2. bot' \in Bots(visible, Len(sessions))
      BY <1>0, <2>1, StepRecord, Zenon
    <2>3. bot.endedAt \in Nat
      BY <1>0 DEF Bots
    <2>4. sessions' = AllEnded(sessions, Open(bot.device), bot.endedAt)
      BY <1>3, Zenon DEF SilenceSessions, AllEnded, Ids
    <2>5. sessions' \in Seq(SessionRows) /\ Len(sessions') = Len(sessions)
      BY <1>0, <2>3, <2>4, SilencedRows
    <2>6. QED
      BY <1>3, <2>2, <2>5, NextTypeParts DEF SilenceSessions
  <1>4. QED
    BY <1>1, <1>2, <1>3

(* A refused request, or one that failed.                                  *)
LEMMA ErrorBot ==
  ASSUME Typed, SendRefused \/ BotFails \/ SummaryAnswerLost
  PROVE  /\ bot' \in Bots(visible, Len(sessions))
         /\ bot' = Fetched \/ Idle(bot') \/ ChatGoesOn(bot')
         /\ UNCHANGED <<outside, updates, tables, handled, late>>
  <1>1. bot' \in {AfterError, Looping, NextPart}
    BY Zenon DEF SendRefused, BotFails, SummaryAnswerLost, Failure, NextPart
  <1>2. QED
    BY <1>1, AfterErrorFacts, Zenon
    DEF SendRefused, BotFails, SummaryAnswerLost, Failure, history

LEMMA ErrorType ==
  ASSUME Typed, SendRefused \/ BotFails \/ SummaryAnswerLost PROVE TypeOK'
  <1> USE TypeParts DEF Typed, history, tables, outside
  <1>1. /\ bot' \in Bots(visible, Len(sessions))
        /\ UNCHANGED <<outside, updates, tables, handled, late>>
    BY ErrorBot
  <1>2. Open(bot.device) \subseteq 1..Len(sessions)
    BY StateFacts
  <1>3. torn' \subseteq 1..Len(sessions) /\ used' \in Used
    BY <1>2, UsedRecord DEF SendRefused, BotFails, SummaryAnswerLost, Failure
  <1>4. /\ unsaved' \in {unsaved, unsaved \cup {Subject}}
        /\ summaries' \in {summaries, [summaries EXCEPT ![Subject] = @ + 1]}
        /\ unsaved' # unsaved \/ summaries' # summaries => bot.step = "store" \/ Finishing
    BY DEF SendRefused, BotFails, SummaryAnswerLost, Failure
  <1>5. unsaved' # unsaved \/ summaries' # summaries => Subject \in 1..Len(sessions)
    BY <1>4, SubjectFacts DEF Finishing, LoopShape
  <1>6. unsaved' \subseteq 1..Len(sessions) /\ summaries' \in [1..Len(sessions) -> Nat]
    <2>1. unsaved' \subseteq 1..Len(sessions)
      <3>1. CASE unsaved' = unsaved
        BY <3>1
      <3>2. CASE unsaved' # unsaved
        <4>1. unsaved' = unsaved \cup {Subject} /\ Subject \in 1..Len(sessions)
          BY <1>4, <1>5, <3>2
        <4>2. unsaved \subseteq 1..Len(sessions)
          OBVIOUS
        <4>3. QED
          BY ONLY <4>1, <4>2
      <3>3. QED
        BY <3>1, <3>2
    <2>2. CASE summaries' = summaries
      BY <2>1, <2>2
    <2>3. CASE summaries' # summaries
      <3>1. /\ summaries' = [summaries EXCEPT ![Subject] = @ + 1]
            /\ Subject \in 1..Len(sessions)
        BY <1>4, <1>5, <2>3
      <3>2. summaries \in [1..Len(sessions) -> Nat]
        OBVIOUS
      <3>3. summaries' \in [1..Len(sessions) -> Nat]
        BY ONLY <3>1, <3>2
      <3>4. QED
        BY <2>1, <3>3
    <2>4. QED
      BY <2>2, <2>3
  <1>7. QED
    BY <1>1, <1>3, <1>6, NextTypeParts

LEMMA NextType == ASSUME Typed, [Next]_vars PROVE TypeOK'
  <1>1. ASSUME NEW h \in visible, TakenUp(h) PROVE TypeOK'
    <2>1. PICK step \in BotSteps, todo \in SUBSET Ids(sessions), next \in Nexts :
             Take(h, step, todo, next)
      BY <1>1, TakenUpFacts
    <2>2. QED
      BY <1>1, <2>1, TakeFacts DEF TakenUp
  <1>2. CASE BotStep
    <2>1. CASE \/ \E h \in visible : SkipUnknown(h)
               \/ \E h \in visible, d \in Devices :
                     EngineOn(h, d) \/ EngineOff(h, d) \/ Inactive(h, d)
      BY <1>1, <2>1, HeartbeatBranches, Zenon
    <2>2. QED
      BY <1>2, <2>1, LoopType, FinishType, ChatType, ErrorType, Zenon
      DEF BotStep, UpdateStep, HeartbeatStep, StaleStep
  <1>3. CASE UNCHANGED vars
    BY <1>3, NextTypeParts, TypeParts DEF vars, tables, outside, history, Typed
  <1>4. QED
    BY <1>2, <1>3, OutsideType, ErrorType, Zenon DEF Next

-----------------------------------------------------------------------------
(***************************************************************************)
(* The shape of the loop's record.                                         *)
(***************************************************************************)

(* The bot writes nothing but its own tables.                              *)
LEMMA OutsideStays ==
  ASSUME BotStep \/ BotFails \/ SummaryAnswerLost
  PROVE  UNCHANGED outside
  <1>1. ASSUME UpdateStep PROVE UNCHANGED outside
    BY <1>1, Zenon DEF UpdateStep, AnswerPress, ConsumeUpdate
  <1>2. ASSUME HeartbeatStep PROVE UNCHANGED outside
    <2>1. ASSUME NEW h, NEW step, NEW todo, NEW next, Take(h, step, todo, next)
          PROVE  UNCHANGED outside
      BY <2>1, Zenon DEF Take
    <2>2. ASSUME NEW h, NEW d, EngineOn(h, d) \/ EngineOff(h, d) PROVE UNCHANGED outside
      BY <2>1, <2>2, Zenon DEF EngineOn, EngineOff, FinishFirst
    <2>3. ASSUME NEW h, NEW d, SkipUnknown(h) \/ Inactive(h, d) PROVE UNCHANGED outside
      BY <2>1, <2>3, Zenon DEF SkipUnknown, Inactive
    <2>4. QED
      BY <1>2, <2>2, <2>3, Zenon
      DEF HeartbeatStep, FetchHeartbeats, CreateSession, MarkNotified, SilenceSessions,
          AdvanceCursor
  <1>3. ASSUME FinishStep PROVE UNCHANGED outside
    BY <1>3, Zenon DEF FinishStep, FinishSummarised, SendSummary, NoSummary, StoreSummary,
                       ResolveSession
  <1>4. ASSUME StaleStep PROVE UNCHANGED outside
    BY <1>4, Zenon DEF StaleStep, FetchRiding, CheckStale, LoopAgain
  <1>5. ASSUME SendRefused \/ BotFails \/ SummaryAnswerLost PROVE UNCHANGED outside
    BY <1>5, Zenon DEF SendRefused, BotFails, SummaryAnswerLost, Failure
  <1>6. QED
    BY <1>1, <1>2, <1>3, <1>4, <1>5, Zenon DEF BotStep

(* A heartbeat seen stays as it was.                                       *)
LEMMA HeartbeatsStay ==
  ASSUME Typed, [Next]_vars
  PROVE  /\ visible \subseteq visible'
         /\ \A i \in visible : heartbeats'[i] = heartbeats[i]
         /\ \A d : HeardOf(heartbeats, visible, d) # {} => HeardOf(heartbeats', visible', d) # {}
  <1>1. \/ UNCHANGED <<heartbeats, visible>>
        \/ UNCHANGED heartbeats /\ visible \subseteq visible'
        \/ UNCHANGED visible /\ \E r \in Heartbeats : heartbeats' = Append(heartbeats, r)
    <2>1. CASE Outside
      <3>1. ASSUME NEW d \in Devices, NEW status \in Statuses, InsertHeartbeat(d, status)
            PROVE  UNCHANGED visible /\ \E r \in Heartbeats : heartbeats' = Append(heartbeats, r)
        <4>1. [device |-> d, status |-> status, at |-> now] \in Heartbeats
          BY DEF Heartbeats, Typed, TypeOK
        <4>2. QED
          BY <3>1, <4>1, Zenon DEF InsertHeartbeat
      <3>2. ASSUME NEW i, CommitHeartbeat(i)
            PROVE  UNCHANGED heartbeats /\ visible \subseteq visible'
        BY <3>2 DEF CommitHeartbeat
      <3>3. QED
        BY <2>1, <3>1, <3>2, Zenon
        DEF Outside, Tick, SubscriptionChanges, BlockBot, Press, outside
    <2>2. CASE BotStep \/ BotFails \/ SummaryAnswerLost
      BY <2>2, OutsideStays, Zenon DEF outside
    <2>3. QED
      BY <2>1, <2>2, Zenon DEF Next, vars, outside
  <1>2. visible \subseteq 1..Len(heartbeats) /\ heartbeats \in Seq(Heartbeats)
    BY TypeParts DEF Typed
  <1>3. visible \subseteq visible' /\ \A i \in visible : heartbeats'[i] = heartbeats[i]
    BY <1>1, <1>2, AppendProperties
  <1>4. QED
    BY <1>3 DEF HeardOf

LEMMA OutsideShape ==
  ASSUME Typed, Outside
  PROVE  /\ LoopShape'
         /\ UNCHANGED <<sessions, notified, cursor, bot, handled, torn, unsaved, summaries>>
  <1>1. UNCHANGED <<sessions, notified, cursor, bot, handled, torn, unsaved, summaries>>
    BY Zenon DEF Outside, Tick, InsertHeartbeat, CommitHeartbeat, SubscriptionChanges, BlockBot,
                 Press, outside, tables, history
  <1>2. [Next]_vars
    BY DEF Next
  <1>3. updates # <<>> => updates' # <<>>
    <2>1. \A d, i, st : InsertHeartbeat(d, st) \/ CommitHeartbeat(i) => updates' = updates
      BY Zenon DEF InsertHeartbeat, CommitHeartbeat
    <2>2. ASSUME NEW s, NEW answer, Press(s, answer) PROVE updates' # <<>>
      <3>1. updates \in Seq({[session |-> s, answer |-> answer]} \cup Presses(Len(sessions)))
        BY TypeParts, SeqMonotonic DEF Typed
      <3>2. QED
        BY <2>2, <3>1, AppendProperties DEF Press
    <2>3. QED
      BY <2>1, <2>2, Zenon DEF Outside, Tick, SubscriptionChanges, BlockBot
  <1>4. bot.heartbeat # 0 => heartbeats'[bot.heartbeat] = heartbeats[bot.heartbeat]
    BY <1>2, HeartbeatsStay, StateFacts
  <1>5. QED
    BY <1>1, <1>2, <1>3, <1>4, HeartbeatsStay DEF Typed, LoopShape, Ids

(* Between two heartbeats the record is empty.                             *)
LEMMA EmptyHandsShape ==
  ASSUME Typed, UNCHANGED <<heartbeats, visible, sessions>>,
         bot'.step \in {"updates", "next", "stale"}, bot'.heartbeat = 0, bot'.next = "none",
         \A d \in bot'.groups : HeardOf(heartbeats, visible, d) # {}
  PROVE  LoopShape'
  BY DEF Typed, LoopShape, FinishSteps, ChatSteps, Ids

(* The devices of the sessions are kept.                                   *)
LEMMA DevicesHeard ==
  ASSUME Typed, UNCHANGED <<heartbeats, visible>>,
         Len(sessions') = Len(sessions),
         \A s \in 1..Len(sessions) : sessions'[s].device = sessions[s].device
  PROVE  \A s \in Ids(sessions)' : HeardOf(heartbeats', visible', sessions'[s].device) # {}
  BY DEF Typed, LoopShape, Ids

LEMMA LoopStepShape ==
  ASSUME Typed,
         \/ AnswerPress \/ ConsumeUpdate \/ FetchHeartbeats \/ AdvanceCursor
         \/ FetchRiding \/ (\E d \in Devices : CheckStale(d)) \/ LoopAgain
  PROVE  LoopShape'
  <1>0. /\ Len(sessions) \in Nat /\ bot \in Bots(visible, Len(sessions))
        /\ sessions \in Seq(SessionRows) /\ UNCHANGED <<heartbeats, visible>>
    BY StateFacts, TypeParts, OutsideStays, Zenon
    DEF Typed, outside, BotStep, UpdateStep, HeartbeatStep, StaleStep
  <1>1. CASE AnswerPress
    <2>1. bot' = WithStep(bot, "consume") /\ "consume" \in BotSteps
      BY <1>1 DEF AnswerPress, WithStep, BotSteps
    <2>2. /\ bot'.step = "consume" /\ bot'.heartbeat = bot.heartbeat
          /\ bot'.device = bot.device /\ bot'.next = bot.next /\ bot'.groups = bot.groups
      BY <1>0, <2>1, StepRecord
    <2>3. updates' # <<>>
      BY <1>1 DEF AnswerPress
    <2> DEFINE p == Head(updates)
    <2>4. p.session \in 1..Len(sessions) /\ p.answer \in Active
      <3>1. p \in Presses(Len(sessions))
        BY <1>1, HeadTailProperties, TypeParts DEF AnswerPress, Typed
      <3>2. QED
        BY <3>1 DEF Presses
    <2>5. sessions' = sessions \/ sessions' = WithStatus(sessions, p.session, p.answer)
      BY <1>1, Zenon DEF AnswerPress, WithStatus
    <2> HIDE DEF p
    <2>6. /\ Len(sessions') = Len(sessions)
          /\ \A s \in 1..Len(sessions) : sessions'[s].device = sessions[s].device
      <3>1. CASE sessions' = sessions
        BY <1>0, <3>1
      <3>2. CASE sessions' = WithStatus(sessions, p.session, p.answer)
        <4>1. /\ Len(sessions') = Len(sessions)
              /\ sessions'[p.session].device = sessions[p.session].device
              /\ \A t \in 1..Len(sessions) : t # p.session => sessions'[t] = sessions[t]
          BY <1>0, <2>4, <3>2, StatusRow
        <4>2. QED
          BY ONLY <2>4, <4>1
      <3>3. QED
        BY <2>5, <3>1, <3>2
    <2>7. \A s \in Ids(sessions)' : HeardOf(heartbeats', visible', sessions'[s].device) # {}
      BY <1>0, <2>6, DevicesHeard
    <2>8. QED
      BY <1>0, <2>2, <2>3, <2>7 DEF Typed, LoopShape, FinishSteps, ChatSteps
  <1>2. CASE ConsumeUpdate
    <2>1. bot' = WithStep(bot, "updates") /\ "updates" \in BotSteps /\ sessions' = sessions
      BY <1>2 DEF ConsumeUpdate, WithStep, BotSteps, tables
    <2>2. /\ bot'.step = "updates" /\ bot'.heartbeat = bot.heartbeat
          /\ bot'.device = bot.device /\ bot'.next = bot.next /\ bot'.groups = bot.groups
      BY <1>0, <2>1, StepRecord
    <2>3. QED
      BY <1>0, <2>1, <2>2 DEF Typed, LoopShape, FinishSteps, ChatSteps, Ids
  <1>3. CASE FetchHeartbeats
    <2>1. bot' = Fetched /\ sessions' = sessions
      BY <1>3 DEF FetchHeartbeats, tables
    <2>2. bot'.step = "next" /\ bot'.heartbeat = 0 /\ bot'.next = "none" /\ bot'.groups = {}
      BY <2>1, FetchedFacts
    <2>3. QED
      BY <1>0, <2>1, <2>2, EmptyHandsShape
  <1>4. CASE AdvanceCursor
    <2>1. bot' = NextHeartbeat(bot.batch) /\ sessions' = sessions
      BY <1>4, Zenon DEF AdvanceCursor, NextHeartbeat
    <2>2. bot.batch \in SUBSET visible
      BY StateFacts
    <2>3. bot'.step = "next" /\ bot'.heartbeat = 0 /\ bot'.next = "none" /\ bot'.groups = {}
      BY <2>1, <2>2, BatchRecord
    <2>4. QED
      BY <1>0, <2>1, <2>3, EmptyHandsShape
  <1>5. CASE FetchRiding
    <2>1. sessions' = sessions
      BY <1>5 DEF FetchRiding, tables
    <2>2. CASE Riding = {}
      <3>1. bot' = Looping
        BY <1>5, <2>2 DEF FetchRiding
      <3>2. QED
        BY <1>0, <2>1, <3>1, LoopingRecord, EmptyHandsShape
    <2>3. CASE Riding # {}
      <3>1. bot' = FirstGroup(Riding, now)
        BY <1>5, <2>3, Zenon DEF FetchRiding, FirstGroup
      <3>2. Riding \in SUBSET Devices /\ now \in Nat
        BY TypeParts DEF Riding, Typed
      <3>3. /\ bot'.step = "stale" /\ bot'.heartbeat = 0 /\ bot'.next = "none"
            /\ bot'.groups = Riding
        BY <3>1, <3>2, GroupsRecord, Zenon
      <3>4. \A d \in Riding : HeardOf(heartbeats, visible, d) # {}
        BY DEF Riding, Open, Typed, LoopShape
      <3>5. QED
        BY <1>0, <2>1, <3>3, <3>4, EmptyHandsShape
    <2>4. QED
      BY <2>2, <2>3
  <1>6. ASSUME NEW d \in Devices, CheckStale(d) PROVE LoopShape'
    <2>1. /\ bot.step = "stale" /\ sessions' = sessions
          /\ bot.groups # {} /\ d = Least(bot.groups)
      BY <1>6 DEF CheckStale, tables
    <2>2. d \in bot.groups
      BY <2>1, <1>0, SessionsAssumption, LeastIsFirst DEF Bots, SessionsAssumption
    <2>3. heartbeats[Latest(d)].at \in Nat
      BY <2>2, LatestFacts, Named DEF Typed, LoopShape
    <2>4. Open(d) \in SUBSET (1..Len(sessions)) /\ Open(d) = OpenOf(sessions, d)
      BY StateFacts, Named
    <2>5. CASE Stale(d)
      <3>1. bot' = FoundStale(bot, d, heartbeats[Latest(d)].at, Open(d))
        BY <1>6, <2>5, Zenon DEF CheckStale, FoundStale
      <3>2. /\ bot'.step = "finish" /\ bot'.heartbeat = bot.heartbeat /\ bot'.device = d
            /\ bot'.todo = Open(d) /\ bot'.next = "stale" /\ bot'.groups = bot.groups \ {d}
        BY <1>0, <2>3, <2>4, <3>1, StaleRecord
      <3>3. bot.heartbeat = 0
        BY <2>1 DEF Typed, LoopShape
      <3>4. QED
        BY <1>0, <2>1, <2>4, <3>2, <3>3 DEF Typed, LoopShape, FinishSteps, ChatSteps, Ids
    <2>6. CASE ~Stale(d)
      <3>1. /\ bot'.step = bot.step /\ bot'.heartbeat = bot.heartbeat
            /\ bot'.device = bot.device /\ bot'.todo = bot.todo /\ bot'.next = bot.next
            /\ bot'.groups = bot.groups \ {d}
        BY <1>0, <1>6, <2>6 DEF CheckStale, Bots
      <3>2. QED
        BY <1>0, <2>1, <3>1 DEF Typed, LoopShape, FinishSteps, ChatSteps, Ids
    <2>7. QED
      BY <2>5, <2>6
  <1>7. CASE LoopAgain
    <2>1. bot' = Looping /\ sessions' = sessions
      BY <1>7 DEF LoopAgain, tables
    <2>2. QED
      BY <1>0, <2>1, LoopingRecord, EmptyHandsShape
  <1>8. QED
    BY <1>1, <1>2, <1>3, <1>4, <1>5, <1>6, <1>7

LEMMA TakenUpShape ==
  ASSUME Typed, NEW h \in visible, TakenUp(h) PROVE LoopShape'
  <1>1. PICK step \in BotSteps, todo \in SUBSET Ids(sessions), next \in Nexts :
           Take(h, step, todo, next) /\ Branch(h, step, todo, next)
    BY TakenUpFacts
  <1>2. /\ bot.step = "next" /\ bot'.step = step /\ bot'.heartbeat = h
        /\ bot'.device = heartbeats[h].device /\ bot'.todo = todo
        /\ bot'.next = next /\ bot'.groups = bot.groups
        /\ UNCHANGED <<heartbeats, visible, sessions>>
    BY <1>1, TakeFacts DEF TakenUp, outside, tables
  <1>3. h # 0 /\ heartbeats[h].device \in Devices
    BY StateFacts DEF Heartbeats
  <1>4. step # "stale" /\ step # "consume" /\ step # "store" /\ step # "resolve" /\ next # "stale"
    BY <1>1 DEF Branch
  <1>5. step = "finish" => /\ todo = OpenOf(sessions, heartbeats[h].device)
                           /\ next \in {"create", "mark"}
    BY <1>1 DEF Branch
  <1>6. step = "create" => next = "create" /\ OpenOf(sessions, heartbeats[h].device) = {}
    BY <1>1 DEF Branch
  <1>7. next = "create" => heartbeats[h].status = "on"
    BY <1>1 DEF Branch
  <1>8. QED
    BY <1>2, <1>3, <1>4, <1>5, <1>6, <1>7 DEF Typed, LoopShape, FinishSteps, ChatSteps, Ids

LEMMA FinishShape == ASSUME Typed, FinishStep PROVE LoopShape'
  <1>0. /\ bot \in Bots(visible, Len(sessions)) /\ sessions \in Seq(SessionRows)
        /\ UNCHANGED <<heartbeats, visible>>
    BY TypeParts, OutsideStays DEF Typed, outside, BotStep
  <1>1. bot.step \in FinishSteps /\ bot.todo # {}
    BY DEF FinishStep, FinishSummarised, SendSummary, NoSummary, StoreSummary, ResolveSession,
           Finishing, FinishSteps, Typed, LoopShape
  <1>2. /\ Subject \in 1..Len(sessions) /\ Subject \in bot.todo
        /\ bot.todo = OpenOf(sessions, bot.device) /\ bot.device \in Devices
    BY <1>1, SubjectFacts DEF Typed, LoopShape
  <1>3. ASSUME NEW at \in Nat, Resolve(Subject, at) PROVE LoopShape'
    <2>1. /\ bot'.step = IF bot.todo = {Subject} THEN bot.next ELSE "finish"
          /\ bot'.heartbeat = bot.heartbeat
          /\ bot'.device = bot.device /\ bot'.todo = bot.todo \ {Subject}
          /\ bot'.next = bot.next /\ bot'.groups = bot.groups
      BY <1>1, <1>3, ResolveFacts
    <2>2. /\ Len(sessions') = Len(sessions)
          /\ sessions'[Subject].status = "finished"
          /\ sessions'[Subject].device = sessions[Subject].device
          /\ \A t \in 1..Len(sessions) : t # Subject => sessions'[t] = sessions[t]
      BY <1>1, <1>3, ResolveFacts
    <2>3. OpenOf(sessions', bot.device) = OpenOf(sessions, bot.device) \ {Subject}
      BY <2>2 DEF OpenOf, Active
    <2>4. \A s \in Ids(sessions)' : HeardOf(heartbeats', visible', sessions'[s].device) # {}
      <3>1. \A s \in 1..Len(sessions) : sessions'[s].device = sessions[s].device
        BY <2>2
      <3>2. QED
        BY <1>0, <2>2, <3>1, DevicesHeard
    <2>5. bot.todo = {Subject} => bot'.todo = {}
      BY <2>1
    <2>6. QED
      BY <1>0, <1>1, <1>2, <2>1, <2>3, <2>4, <2>5 DEF Typed, LoopShape, FinishSteps, ChatSteps
  <1>4. ASSUME NEW step \in {"store", "resolve"}, bot' = WithStep(bot, step),
               sessions' = sessions \/ sessions' = WithSummary(sessions, Subject)
        PROVE  LoopShape'
    <2>1. /\ bot'.step = step /\ bot'.heartbeat = bot.heartbeat
          /\ bot'.device = bot.device /\ bot'.todo = bot.todo
          /\ bot'.next = bot.next /\ bot'.groups = bot.groups
      <3>1. step \in BotSteps
        BY DEF BotSteps
      <3>2. QED
        BY <1>0, <1>4, <3>1, StepRecord
    <2>2. /\ Len(sessions') = Len(sessions)
          /\ \A s \in 1..Len(sessions) : /\ sessions'[s].device = sessions[s].device
                                         /\ sessions'[s].status = sessions[s].status
      <3>1. CASE sessions' = sessions
        BY <3>1
      <3>2. CASE sessions' = WithSummary(sessions, Subject)
        <4>1. /\ Len(sessions') = Len(sessions)
              /\ sessions'[Subject].device = sessions[Subject].device
              /\ sessions'[Subject].status = sessions[Subject].status
              /\ \A t \in 1..Len(sessions) : t # Subject => sessions'[t] = sessions[t]
          BY <1>0, <1>2, <3>2, SummaryRow
        <4>2. QED
          BY ONLY <1>2, <4>1
      <3>3. QED
        BY <1>4, <3>1, <3>2
    <2>3. OpenOf(sessions', bot.device) = OpenOf(sessions, bot.device)
      BY <2>2 DEF OpenOf
    <2>4. \A s \in Ids(sessions)' : HeardOf(heartbeats', visible', sessions'[s].device) # {}
      BY <1>0, <2>2, DevicesHeard
    <2>5. QED
      BY <1>0, <1>1, <1>2, <2>1, <2>3, <2>4 DEF Typed, LoopShape, FinishSteps, ChatSteps
  <1>5. CASE FinishSummarised
    <2>1. bot.endedAt \in Nat
      BY <1>0 DEF Bots
    <2>2. QED
      BY <1>3, <1>5, <2>1 DEF FinishSummarised
  <1>6. CASE SendSummary
    BY <1>4, <1>6, Zenon DEF SendSummary, WithStep, tables
  <1>7. CASE NoSummary
    BY <1>4, <1>7, Zenon DEF NoSummary, WithStep, tables
  <1>8. CASE StoreSummary
    BY <1>4, <1>8, Zenon DEF StoreSummary, WithStep, WithSummary
  <1>9. CASE ResolveSession
    BY <1>3, <1>9, TypeParts DEF ResolveSession, Typed
  <1>10. QED
    BY <1>5, <1>6, <1>7, <1>8, <1>9 DEF FinishStep

LEMMA ChatShape ==
  ASSUME Typed, CreateSession \/ MarkNotified \/ SilenceSessions PROVE LoopShape'
  <1>0. /\ Len(sessions) \in Nat /\ bot \in Bots(visible, Len(sessions))
        /\ sessions \in Seq(SessionRows) /\ UNCHANGED <<heartbeats, visible>>
    BY StateFacts, TypeParts, OutsideStays DEF Typed, outside, BotStep, HeartbeatStep
  <1>1. bot.heartbeat # 0 /\ bot.next # "stale" /\ bot.heartbeat \in visible
    BY StateFacts DEF CreateSession, MarkNotified, SilenceSessions, Typed, LoopShape, ChatSteps
  <1>2. ASSUME NEW step \in {"mark", "silence", "advance"}, bot' = WithStep(bot, step),
               \A s \in Ids(sessions)' : HeardOf(heartbeats', visible', sessions'[s].device) # {}
        PROVE  LoopShape'
    <2>1. /\ bot'.step = step /\ bot'.heartbeat = bot.heartbeat
          /\ bot'.device = bot.device /\ bot'.todo = bot.todo
          /\ bot'.next = bot.next /\ bot'.groups = bot.groups
      <3>1. step \in BotSteps
        BY DEF BotSteps
      <3>2. QED
        BY <1>0, <1>2, <3>1, StepRecord
    <2>2. QED
      BY <1>0, <1>1, <1>2, <2>1 DEF Typed, LoopShape, FinishSteps, ChatSteps
  <1>3. CASE CreateSession
    <2>1. /\ Len(sessions') = Len(sessions) + 1
          /\ sessions'[Len(sessions) + 1].device = bot.device
          /\ \A t \in 1..Len(sessions) : sessions'[t] = sessions[t]
      BY <1>3, CreateFacts
    <2>2. HeardOf(heartbeats, visible, bot.device) # {}
      BY <1>1 DEF HeardOf, Typed, LoopShape
    <2>3. \A s \in Ids(sessions)' : HeardOf(heartbeats', visible', sessions'[s].device) # {}
      BY <1>0, <2>1, <2>2 DEF Typed, LoopShape, Ids
    <2>4. QED
      BY <1>2, <1>3, <2>3, Zenon DEF CreateSession, WithStep
  <1>4. CASE MarkNotified
    <2>1. sessions' = sessions /\ bot' = WithStep(bot, AfterChat)
      BY <1>4, Zenon DEF MarkNotified, WithStep
    <2>2. \A s \in Ids(sessions)' : HeardOf(heartbeats', visible', sessions'[s].device) # {}
      BY <1>0, <2>1, DevicesHeard
    <2>3. AfterChat \in {"mark", "silence", "advance"}
      BY DEF AfterChat
    <2>4. QED
      BY <1>2, <2>1, <2>2, <2>3
  <1>5. CASE SilenceSessions
    <2>1. bot.endedAt \in Nat
      BY <1>0 DEF Bots
    <2>2. sessions' = AllEnded(sessions, Open(bot.device), bot.endedAt)
      BY <1>5, Zenon DEF SilenceSessions, AllEnded, Ids
    <2>3. /\ Len(sessions') = Len(sessions)
          /\ \A s \in 1..Len(sessions) : sessions'[s].device = sessions[s].device
      BY <1>0, <2>1, <2>2, SilencedRows
    <2>4. \A s \in Ids(sessions)' : HeardOf(heartbeats', visible', sessions'[s].device) # {}
      BY <1>0, <2>3, DevicesHeard
    <2>5. QED
      BY <1>2, <1>5, <2>4, Zenon DEF SilenceSessions, WithStep
  <1>6. QED
    BY <1>3, <1>4, <1>5

LEMMA ErrorShape ==
  ASSUME Typed, SendRefused \/ BotFails \/ SummaryAnswerLost PROVE LoopShape'
  <1>1. /\ bot' = Fetched \/ Idle(bot') \/ ChatGoesOn(bot')
        /\ UNCHANGED <<heartbeats, visible, sessions>>
    BY ErrorBot DEF outside, tables
  <1>2. CASE bot' = Fetched
    BY <1>1, <1>2, FetchedFacts, EmptyHandsShape
  <1>3. CASE Idle(bot')
    BY <1>1, <1>3, EmptyHandsShape DEF Idle
  <1>4. CASE ChatGoesOn(bot')
    <2>1. bot \in Bots(visible, Len(sessions))
      BY TypeParts DEF Typed
    <2>2. AfterChat \in {"silence", "advance"} /\ AfterChat \in BotSteps
      BY DEF AfterChat, BotSteps
    <2>3. bot' = WithStep(bot, AfterChat)
      BY <1>4, Zenon DEF ChatGoesOn, WithStep
    <2>4. /\ bot'.step \in {"silence", "advance"} /\ bot'.heartbeat = bot.heartbeat
          /\ bot'.device = bot.device /\ bot'.next = bot.next /\ bot'.groups = bot.groups
      BY <2>1, <2>2, <2>3, StepRecord
    <2>5. QED
      BY <1>1, <1>4, <2>4 DEF ChatGoesOn, Typed, LoopShape, FinishSteps, ChatSteps, Ids
  <1>5. QED
    BY <1>1, <1>2, <1>3, <1>4

LEMMA InitTyped == Init => Typed
  <1> SUFFICES ASSUME Init PROVE Typed
    OBVIOUS
  <1>1. NULL \notin Int /\ 0 \in Nat
    BY SessionsAssumption DEF SessionsAssumption
  <1>2. Looping \in Bots({}, 0) /\ Looping.step = "updates" /\ Looping.heartbeat = 0
        /\ Looping.groups = {} /\ Looping.next = "none"
    BY LoopingRecord
  <1>3. /\ heartbeats = <<>> /\ sessions = <<>> /\ updates = <<>> /\ summaries = <<>>
        /\ visible = {} /\ bot = Looping /\ Len(sessions) = 0 /\ Len(heartbeats) = 0
    BY DEF Init
  <1>4. /\ heartbeats \in Seq(Heartbeats) /\ sessions \in Seq(SessionRows)
        /\ updates \in Seq(Presses(0)) /\ summaries \in [1..0 -> Nat]
    BY <1>3
  <1>5. notified \in [Devices -> Rows({})] /\ used \in Used
    BY DEF Init, Rows, Used
  <1>6. TypeOK
    BY <1>2, <1>3, <1>4, <1>5, TypeParts DEF Init
  <1>7. LoopShape
    BY <1>2, <1>3 DEF LoopShape, FinishSteps, ChatSteps, Ids
  <1>8. QED
    BY <1>6, <1>7 DEF Typed

LEMMA NextTyped == Typed /\ [Next]_vars => Typed'
  <1> SUFFICES ASSUME Typed, [Next]_vars PROVE Typed'
    OBVIOUS
  <1>1. TypeOK'
    BY NextType
  <1>2. CASE BotStep
    <2>1. CASE \/ \E h \in visible : SkipUnknown(h)
               \/ \E h \in visible, d \in Devices :
                     EngineOn(h, d) \/ EngineOff(h, d) \/ Inactive(h, d)
      BY <1>1, <2>1, HeartbeatBranches, TakenUpShape, Zenon DEF Typed
    <2>2. QED
      BY <1>1, <1>2, <2>1, LoopStepShape, FinishShape, ChatShape, ErrorShape, Zenon
      DEF BotStep, UpdateStep, HeartbeatStep, StaleStep, Typed
  <1>3. CASE UNCHANGED vars
    BY <1>1, <1>3 DEF vars, tables, outside, history, Typed, LoopShape, Ids
  <1>4. QED
    BY <1>1, <1>2, <1>3, OutsideShape, ErrorShape, Zenon DEF Next, Typed

(* The loop, its tables and its history keep their types under every       *)
(* interleaving of heartbeats, presses, failures and restarts.             *)
THEOREM SpecTypeOK == Spec => []TypeOK
  <1>1. Spec => []Typed
    BY InitTyped, NextTyped, PTL DEF Spec
  <1>2. Typed => TypeOK
    BY DEF Typed
  <1>3. QED
    BY <1>1, <1>2, PTL

-----------------------------------------------------------------------------
(***************************************************************************)
(* What a step does to the session rows.                                   *)
(***************************************************************************)

(* No session comes, none is reopened, and a finished one is left alone.   *)
NoneOpened ==
  /\ Len(sessions') = Len(sessions)
  /\ \A s \in 1..Len(sessions) :
       /\ sessions'[s].device = sessions[s].device
       /\ sessions'[s].status \in Active => sessions[s].status \in Active
       /\ sessions[s].status = "finished" => sessions'[s] = sessions[s]
       /\ sessions[s].summary => sessions'[s].summary

LEMMA NoneOpenedFacts ==
  ASSUME NoneOpened PROVE \A d : OpenOf(sessions', d) \subseteq OpenOf(sessions, d)
  BY DEF NoneOpened, OpenOf

LEMMA SessionSteps ==
  ASSUME Typed, [Next]_vars
  PROVE  \/ CreateSession
         \/ bot.step \in FinishSteps \cup {"updates", "silence"} /\ NoneOpened
         \/ UNCHANGED sessions
  <1>0. sessions \in Seq(SessionRows) /\ bot \in Bots(visible, Len(sessions))
    BY TypeParts DEF Typed
  <1>1. CASE AnswerPress
    <2> DEFINE p == Head(updates)
    <2>1. p.session \in 1..Len(sessions) /\ p.answer \in Active
      <3>1. p \in Presses(Len(sessions))
        BY <1>1, HeadTailProperties, TypeParts DEF AnswerPress, Typed
      <3>2. QED
        BY <3>1 DEF Presses
    <2>2. \/ sessions' = sessions
          \/ /\ sessions' = WithStatus(sessions, p.session, p.answer)
             /\ sessions[p.session].status = "pending_confirmation"
      BY <1>1, Zenon DEF AnswerPress, WithStatus, Wanted
    <2>3. bot.step = "updates"
      BY <1>1 DEF AnswerPress
    <2> HIDE DEF p
    <2>4. ASSUME sessions' = WithStatus(sessions, p.session, p.answer),
                 sessions[p.session].status = "pending_confirmation"
          PROVE  NoneOpened
      <3>1. /\ Len(sessions') = Len(sessions)
            /\ sessions'[p.session].device = sessions[p.session].device
            /\ sessions'[p.session].summary = sessions[p.session].summary
            /\ \A t \in 1..Len(sessions) : t # p.session => sessions'[t] = sessions[t]
        BY <1>0, <2>1, <2>4, StatusRow
      <3>2. sessions[p.session].status \in Active /\ sessions[p.session].status # "finished"
        BY <2>4 DEF Active
      <3>3. QED
        BY ONLY <2>1, <3>1, <3>2 DEF NoneOpened
    <2>5. QED
      BY <2>2, <2>3, <2>4
  <1>2. ASSUME NEW at \in Nat, bot.step \in FinishSteps, bot.todo # {}, Resolve(Subject, at)
        PROVE  NoneOpened
    <2>1. /\ Len(sessions') = Len(sessions)
          /\ sessions'[Subject].status = "finished"
          /\ sessions'[Subject].device = sessions[Subject].device
          /\ sessions'[Subject].summary = sessions[Subject].summary
          /\ \A t \in 1..Len(sessions) : t # Subject => sessions'[t] = sessions[t]
      BY <1>2, ResolveFacts
    <2>2. /\ Subject \in 1..Len(sessions) /\ sessions[Subject].status \in Active
          /\ sessions[Subject].status # "finished"
      BY <1>2, SubjectFacts DEF Active
    <2>3. QED
      BY ONLY <2>1, <2>2 DEF NoneOpened
  <1>3. CASE FinishSummarised
    <2>1. bot.endedAt \in Nat /\ bot.step \in FinishSteps /\ bot.todo # {}
      BY <1>0, <1>3 DEF FinishSummarised, Finishing, FinishSteps, Bots
    <2>2. QED
      BY <1>2, <1>3, <2>1 DEF FinishSummarised
  <1>4. CASE ResolveSession
    <2>1. now \in Nat /\ bot.step \in FinishSteps /\ bot.todo # {}
      BY <1>4, TypeParts DEF ResolveSession, FinishSteps, Typed, LoopShape
    <2>2. QED
      BY <1>2, <1>4, <2>1 DEF ResolveSession
  <1>5. CASE StoreSummary
    <2>1. bot.step \in FinishSteps /\ bot.todo # {} /\ sessions' = WithSummary(sessions, Subject)
      BY <1>5 DEF StoreSummary, FinishSteps, Typed, LoopShape, WithSummary
    <2>2. /\ Subject \in 1..Len(sessions) /\ sessions[Subject].status \in Active
          /\ sessions[Subject].status # "finished"
      BY <2>1, SubjectFacts DEF Active
    <2>3. /\ Len(sessions') = Len(sessions)
          /\ sessions'[Subject].device = sessions[Subject].device
          /\ sessions'[Subject].summary
          /\ \A t \in 1..Len(sessions) : t # Subject => sessions'[t] = sessions[t]
      BY <1>0, <2>1, <2>2, SummaryRow
    <2>4. NoneOpened
      BY ONLY <2>2, <2>3 DEF NoneOpened
    <2>5. QED
      BY <2>1, <2>4
  <1>6. CASE SilenceSessions
    <2>1. bot.endedAt \in Nat /\ bot.step = "silence"
      BY <1>0, <1>6 DEF Bots, SilenceSessions
    <2>2. sessions' = AllEnded(sessions, Open(bot.device), bot.endedAt)
      BY <1>6, Zenon DEF SilenceSessions, AllEnded, Ids
    <2>3. /\ Len(sessions') = Len(sessions)
          /\ \A s \in 1..Len(sessions) :
               /\ sessions'[s].device = sessions[s].device
               /\ sessions'[s].summary = sessions[s].summary
               /\ s \in Open(bot.device) => sessions'[s].status = "finished"
               /\ s \notin Open(bot.device) => sessions'[s] = sessions[s]
      BY <1>0, <2>1, <2>2, SilencedRows
    <2>4. \A s \in Open(bot.device) : /\ sessions[s].status \in Active
                                      /\ sessions[s].status # "finished"
      BY DEF Open, Active
    <2>5. NoneOpened
      BY <2>3, <2>4 DEF NoneOpened
    <2>6. QED
      BY <2>1, <2>5
  <1>7. CASE \/ \E h \in visible : SkipUnknown(h)
             \/ \E h \in visible, d \in Devices :
                   EngineOn(h, d) \/ EngineOff(h, d) \/ Inactive(h, d)
    <2>1. PICK h \in visible : TakenUp(h)
      BY <1>7, HeartbeatBranches, Zenon
    <2>2. UNCHANGED sessions
      BY <2>1, TakenUpFacts, TakeFacts DEF TakenUp, tables
    <2>3. QED
      BY <2>2
  <1>8. CASE \/ ConsumeUpdate \/ FetchHeartbeats \/ MarkNotified \/ AdvanceCursor
             \/ SendSummary \/ NoSummary \/ StaleStep
    BY <1>8, Zenon DEF ConsumeUpdate, FetchHeartbeats, MarkNotified, AdvanceCursor,
       SendSummary, NoSummary, StaleStep, FetchRiding, CheckStale, LoopAgain, tables
  <1>9. CASE SendRefused \/ BotFails \/ SummaryAnswerLost
    BY <1>9, ErrorBot DEF tables
  <1>10. CASE Outside
    BY <1>10, OutsideShape
  <1>11. CASE UNCHANGED vars
    BY <1>11 DEF vars, tables
  <1>12. QED
    BY <1>1, <1>3, <1>4, <1>5, <1>6, <1>7, <1>8, <1>9, <1>10, <1>11, Zenon
    DEF Next, BotStep, UpdateStep, HeartbeatStep, FinishStep

(* A finished ride is never reopened and never finished again: not by a    *)
(* late button, an update handled twice, or an error anywhere.             *)
THEOREM SpecFinishedIsFinal == Spec => FinishedIsFinal
  <1> DEFINE Final == \A s \in Ids(sessions) :
                        sessions[s].status = "finished" => sessions'[s] = sessions[s]
  <1>1. Typed /\ [Next]_vars => [Final]_vars
    <2> SUFFICES ASSUME Typed, [Next]_vars PROVE Final
      OBVIOUS
    <2>1. CASE CreateSession
      BY <2>1, CreateFacts DEF Ids
    <2>2. CASE NoneOpened
      BY <2>2 DEF NoneOpened, Ids
    <2>3. CASE UNCHANGED sessions
      BY <2>3
    <2>4. QED
      BY <2>1, <2>2, <2>3, SessionSteps
  <1>2. QED
    BY <1>1, InitTyped, NextTyped, PTL DEF Spec, FinishedIsFinal

-----------------------------------------------------------------------------
(***************************************************************************)
(* One open session.                                                       *)
(***************************************************************************)

LEMMA NextOneOpen == ASSUME Typed, OneOpen, [Next]_vars PROVE OneOpen'
  <1>1. CASE CreateSession
    <2>1. /\ Len(sessions') = Len(sessions) + 1
          /\ sessions'[Len(sessions) + 1].device = bot.device
          /\ \A t \in 1..Len(sessions) : sessions'[t] = sessions[t]
      BY <1>1, CreateFacts
    <2>2. Len(sessions) \in Nat /\ OpenOf(sessions, bot.device) = {}
      BY <1>1, StateFacts DEF CreateSession, Typed, LoopShape
    <2>3. \A d : OpenOf(sessions', d) \subseteq OpenOf(sessions, d) \cup {Len(sessions) + 1}
      BY <2>1, <2>2 DEF OpenOf
    <2>4. \A d : d # bot.device => OpenOf(sessions', d) \subseteq OpenOf(sessions, d)
      BY <2>1, <2>2 DEF OpenOf
    <2>5. QED
      BY <2>2, <2>3, <2>4 DEF OneOpen
  <1>2. CASE NoneOpened
    BY <1>2, NoneOpenedFacts DEF OneOpen
  <1>3. CASE UNCHANGED sessions
    BY <1>3 DEF OneOpen
  <1>4. QED
    BY <1>1, <1>2, <1>3, SessionSteps

(* However the bot fails and starts again, a device never has two rides    *)
(* open: finish_active_engine_sessions runs to its end before a session is *)
(* inserted.                                                               *)
THEOREM SpecOneOpenSession == Spec => []OneOpenSession
  <1>1. Init => OneOpen
    BY DEF Init, OneOpen, OpenOf
  <1>2. Typed /\ OneOpen /\ [Next]_vars => OneOpen'
    BY NextOneOpen
  <1>3. OneOpen => OneOpenSession
    <2> SUFFICES ASSUME OneOpen, NEW d \in Devices PROVE Cardinality(Open(d)) <= 1
      BY DEF OneOpenSession
    <2>1. CASE Open(d) = {}
      BY <2>1, FS_EmptySet
    <2>2. CASE Open(d) # {}
      <3>1. PICK s \in Open(d) : TRUE
        BY <2>2
      <3>2. Open(d) = {s}
        BY <3>1, Named DEF OneOpen
      <3>3. QED
        BY <3>2, FS_Singleton
    <2>3. QED
      BY <2>1, <2>2
  <1>4. QED
    BY <1>1, <1>2, <1>3, InitTyped, NextTyped, PTL DEF Spec

-----------------------------------------------------------------------------
(***************************************************************************)
(* Summaries.                                                              *)
(***************************************************************************)

LEMMA StoreSteps ==
  ASSUME Typed, [Next]_vars
  PROVE  \/ CreateSession \/ SendSummary \/ StoreSummary \/ BotFails \/ SummaryAnswerLost
         \/ UNCHANGED <<summaries, unsaved>> /\ (bot' = bot \/ bot.step # "store")
  <1>1. CASE \/ \E h \in visible : SkipUnknown(h)
             \/ \E h \in visible, d \in Devices :
                   EngineOn(h, d) \/ EngineOff(h, d) \/ Inactive(h, d)
    <2>1. PICK h \in visible : TakenUp(h)
      BY <1>1, HeartbeatBranches, Zenon
    <2>2. bot.step = "next" /\ UNCHANGED <<summaries, unsaved>>
      BY <2>1, TakenUpFacts, TakeFacts DEF TakenUp
    <2>3. QED
      BY <2>2
  <1>2. CASE UpdateStep
    BY <1>2 DEF UpdateStep, AnswerPress, ConsumeUpdate, history
  <1>3. CASE FetchHeartbeats \/ MarkNotified \/ SilenceSessions \/ AdvanceCursor
    BY <1>3 DEF FetchHeartbeats, MarkNotified, SilenceSessions, AdvanceCursor, history
  <1>4. CASE FinishSummarised \/ NoSummary \/ ResolveSession
    BY <1>4 DEF FinishSummarised, NoSummary, ResolveSession, Finishing, history
  <1>5. CASE StaleStep
    BY <1>5 DEF StaleStep, FetchRiding, CheckStale, LoopAgain, history
  <1>6. CASE SendRefused
    BY <1>6 DEF SendRefused, Finishing, history
  <1>7. CASE Outside
    BY <1>7, OutsideShape
  <1>8. CASE UNCHANGED vars
    BY <1>8 DEF vars, history
  <1>9. QED
    BY <1>1, <1>2, <1>3, <1>4, <1>5, <1>6, <1>7, <1>8, Zenon
    DEF Next, BotStep, HeartbeatStep, FinishStep

LEMMA NextStoredOnce == ASSUME Typed, StoredOnce, [Next]_vars PROVE StoredOnce'
  <1>0. /\ bot \in Bots(visible, Len(sessions)) /\ sessions \in Seq(SessionRows)
        /\ summaries \in [1..Len(sessions) -> Nat] /\ Len(sessions) \in Nat
    BY TypeParts, StateFacts DEF Typed
  <1>1. CASE CreateSession
    <2>1. /\ Len(sessions') = Len(sessions) + 1
          /\ \A t \in 1..Len(sessions) : sessions'[t] = sessions[t]
          /\ summaries'[Len(sessions) + 1] = 0
          /\ \A t \in 1..Len(sessions) : summaries'[t] = summaries[t]
      BY <1>1, CreateFacts
    <2>2. bot.step = "create" /\ unsaved' = unsaved
      BY <1>1 DEF CreateSession
    <2>3. QED
      BY <1>0, <2>1, <2>2 DEF StoredOnce, Ids
  <1>2. CASE SendSummary
    <2>1. /\ bot.step = "finish" /\ bot.todo # {} /\ ~sessions[Subject].summary
          /\ summaries' = [summaries EXCEPT ![Subject] = @ + 1]
          /\ bot' = WithStep(bot, "store") /\ UNCHANGED <<sessions, unsaved>>
      BY <1>2 DEF SendSummary, Finishing, WithStep, tables
    <2>2. Subject \in 1..Len(sessions)
      BY <2>1, SubjectFacts
    <2>3. bot'.step = "store" /\ bot'.todo = bot.todo
      BY <1>0, <2>1, StepRecord DEF BotSteps
    <2>4. Subject' = Subject
      BY <2>3 DEF Subject
    <2>5. QED
      BY <1>0, <2>1, <2>2, <2>3, <2>4 DEF StoredOnce, Ids
  <1>3. CASE StoreSummary
    <2>1. /\ bot.step = "store" /\ sessions' = WithSummary(sessions, Subject)
          /\ UNCHANGED <<summaries, unsaved>>
      BY <1>3 DEF StoreSummary, WithSummary, history
    <2>2. Subject \in 1..Len(sessions)
      BY <2>1, SubjectFacts DEF Typed, LoopShape
    <2>3. /\ Len(sessions') = Len(sessions) /\ sessions'[Subject].summary
          /\ \A t \in 1..Len(sessions) : t # Subject => sessions'[t] = sessions[t]
      BY <1>0, <2>1, <2>2, SummaryRow
    <2>4. QED
      BY <1>0, <2>1, <2>2, <2>3 DEF StoredOnce, Ids
  <1>4. CASE BotFails
    <2>1. /\ UNCHANGED <<sessions, summaries>>
          /\ unsaved' = IF bot.step = "store" THEN unsaved \cup {Subject} ELSE unsaved
      BY <1>4 DEF BotFails, Failure, tables
    <2>2. QED
      BY <2>1 DEF StoredOnce, Ids
  <1>5. CASE SummaryAnswerLost
    <2>1. /\ UNCHANGED sessions /\ bot.step = "finish" /\ bot.todo # {}
          /\ summaries' = [summaries EXCEPT ![Subject] = @ + 1]
          /\ unsaved' = unsaved \cup {Subject}
      BY <1>5 DEF SummaryAnswerLost, Failure, Finishing, tables
    <2>2. QED
      BY <1>0, <2>1 DEF StoredOnce, Ids
  <1>6. CASE UNCHANGED <<summaries, unsaved>> /\ (bot' = bot \/ bot.step # "store") /\ ~CreateSession
    <2>1. /\ Len(sessions') = Len(sessions)
          /\ \A s \in 1..Len(sessions) : sessions[s].summary => sessions'[s].summary
      BY <1>6, SessionSteps DEF NoneOpened
    <2>2. bot' = bot => Subject' = Subject
      BY DEF Subject
    <2>3. QED
      BY <1>6, <2>1, <2>2 DEF StoredOnce, Ids
  <1>7. QED
    BY <1>1, <1>2, <1>3, <1>4, <1>5, <1>6, StoreSteps, Zenon

(* A ride summary reaches its user twice only if it was delivered and the  *)
(* statement that records it failed, or its answer was lost.               *)
THEOREM SpecSummaryRepeatsOnlyUnsaved == Spec => []SummaryRepeatsOnlyUnsaved
  <1>1. Init => StoredOnce
    BY DEF Init, StoredOnce, Ids
  <1>2. Typed /\ StoredOnce /\ [Next]_vars => StoredOnce'
    BY NextStoredOnce
  <1>3. Typed /\ StoredOnce => SummaryRepeatsOnlyUnsaved
    BY TypeParts DEF Typed, StoredOnce, SummaryRepeatsOnlyUnsaved, Ids
  <1>4. QED
    BY <1>1, <1>2, <1>3, InitTyped, NextTyped, PTL DEF Spec

-----------------------------------------------------------------------------
(***************************************************************************)
(* The order of heartbeats.                                                *)
(***************************************************************************)

(* Nothing is fetched, taken up or passed.                                 *)
InHand ==
  /\ UNCHANGED <<visible, cursor, handled, late>>
  /\ bot'.batch \in {bot.batch, {}} /\ bot'.heartbeat \in {bot.heartbeat, 0}

LEMMA StepInHand ==
  ASSUME Typed, NEW step \in BotSteps, bot' = WithStep(bot, step),
         UNCHANGED <<visible, cursor, handled, late>>
  PROVE  InHand
  <1>1. bot \in Bots(visible, Len(sessions))
    BY TypeParts DEF Typed
  <1>2. bot'.batch = bot.batch /\ bot'.heartbeat = bot.heartbeat
    BY <1>1, StepRecord
  <1>3. QED
    BY <1>2 DEF InHand

LEMMA EmptyInHand ==
  ASSUME Idle(bot'), UNCHANGED <<visible, cursor, handled, late>> PROVE InHand
  BY DEF Idle, InHand

LEMMA FinishInHand ==
  ASSUME Typed, FinishStep PROVE InHand
  <1>1. UNCHANGED <<visible, cursor, handled, late>>
    BY Zenon DEF FinishStep, FinishSummarised, SendSummary, NoSummary, StoreSummary,
                 ResolveSession, outside, tables, history
  <1>2. bot.step \in FinishSteps /\ bot.todo # {} /\ bot.endedAt \in Nat /\ now \in Nat
    BY TypeParts
    DEF FinishStep, FinishSummarised, SendSummary, NoSummary, StoreSummary, ResolveSession,
        Finishing, FinishSteps, Typed, LoopShape, Bots
  <1>3. ASSUME NEW at \in Nat, Resolve(Subject, at) PROVE InHand
    BY <1>1, <1>2, <1>3, ResolveFacts DEF InHand
  <1>4. CASE SendSummary \/ NoSummary \/ StoreSummary
    <2>1. bot' = WithStep(bot, "store") \/ bot' = WithStep(bot, "resolve")
      BY <1>4, Zenon DEF SendSummary, NoSummary, StoreSummary, WithStep
    <2>2. "store" \in BotSteps /\ "resolve" \in BotSteps
      BY DEF BotSteps
    <2>3. QED
      BY <1>1, <2>1, <2>2, StepInHand
  <1>5. QED
    BY <1>2, <1>3, <1>4, Zenon DEF FinishStep, FinishSummarised, ResolveSession

LEMMA ErrorInHand ==
  ASSUME Typed, SendRefused \/ BotFails \/ SummaryAnswerLost
  PROVE  /\ UNCHANGED <<visible, cursor, handled, late>>
         /\ bot' = Fetched \/ InHand
  <1>1. /\ bot' = Fetched \/ Idle(bot') \/ ChatGoesOn(bot')
        /\ UNCHANGED <<visible, cursor, handled, late>>
    BY ErrorBot DEF outside, tables
  <1>2. ASSUME ChatGoesOn(bot') PROVE InHand
    <2>1. bot' = WithStep(bot, AfterChat) /\ AfterChat \in BotSteps
      BY <1>2 DEF ChatGoesOn, WithStep, AfterChat, BotSteps
    <2>2. QED
      BY <1>1, <2>1, StepInHand
  <1>3. QED
    BY <1>1, <1>2, EmptyInHand

LEMMA BatchSteps ==
  ASSUME Typed, [Next]_vars
  PROVE  \/ \E i \in Ids(heartbeats) \ visible : CommitHeartbeat(i)
         \/ \E h \in visible : TakenUp(h)
         \/ bot' = Fetched /\ UNCHANGED <<visible, cursor, handled, late>>
         \/ AdvanceCursor
         \/ InHand
  <1>0. bot \in Bots(visible, Len(sessions))
    BY TypeParts DEF Typed
  <1>1. CASE \/ \E h \in visible : SkipUnknown(h)
             \/ \E h \in visible, d \in Devices :
                   EngineOn(h, d) \/ EngineOff(h, d) \/ Inactive(h, d)
    BY <1>1, HeartbeatBranches, Zenon
  <1>2. CASE UpdateStep
    <2>1. bot' = WithStep(bot, "consume") \/ bot' = WithStep(bot, "updates")
      BY <1>2, Zenon DEF UpdateStep, AnswerPress, ConsumeUpdate, WithStep
    <2>2. "consume" \in BotSteps /\ "updates" \in BotSteps
      BY DEF BotSteps
    <2>3. UNCHANGED <<visible, cursor, handled, late>>
      BY <1>2, Zenon DEF UpdateStep, AnswerPress, ConsumeUpdate, outside, tables, history
    <2>4. QED
      BY <2>1, <2>2, <2>3, StepInHand
  <1>3. CASE FetchHeartbeats
    BY <1>3, Zenon DEF FetchHeartbeats, outside, tables, history
  <1>4. CASE CreateSession \/ MarkNotified \/ SilenceSessions
    <2>1. \/ bot' = WithStep(bot, "mark") \/ bot' = WithStep(bot, AfterChat)
          \/ bot' = WithStep(bot, "advance")
      BY <1>4, Zenon DEF CreateSession, MarkNotified, SilenceSessions, WithStep
    <2>2. "mark" \in BotSteps /\ AfterChat \in BotSteps /\ "advance" \in BotSteps
      BY DEF BotSteps, AfterChat
    <2>3. UNCHANGED <<visible, cursor, handled, late>>
      BY <1>4, Zenon DEF CreateSession, MarkNotified, SilenceSessions, outside, tables, history
    <2>4. QED
      BY <2>1, <2>2, <2>3, StepInHand
  <1>5. CASE StaleStep
    <2>1. UNCHANGED <<visible, cursor, handled, late>>
      BY <1>5, Zenon DEF StaleStep, FetchRiding, CheckStale, LoopAgain, outside, tables, history
    <2>2. CASE FetchRiding \/ LoopAgain
      <3>1. bot' = Looping \/ bot' = FirstGroup(Riding, now)
        BY <2>2, Zenon DEF FetchRiding, LoopAgain, FirstGroup
      <3>2. Riding \in SUBSET Devices /\ now \in Nat
        BY TypeParts DEF Riding, Typed
      <3>3. FirstGroup(Riding, now).batch = {} /\ FirstGroup(Riding, now).heartbeat = 0
        BY <3>2, GroupsRecord, Zenon
      <3>4. QED
        BY <2>1, <3>1, <3>3, LoopingRecord DEF InHand
    <2>3. ASSUME NEW d \in Devices, CheckStale(d) PROVE InHand
      <3>1. bot'.batch = bot.batch /\ bot'.heartbeat = bot.heartbeat
        BY <1>0, <2>3 DEF CheckStale, Bots
      <3>2. QED
        BY <2>1, <3>1 DEF InHand
    <2>4. QED
      BY <1>5, <2>2, <2>3 DEF StaleStep
  <1>6. CASE SendRefused \/ BotFails \/ SummaryAnswerLost
    BY <1>6, ErrorInHand
  <1>7. CASE Outside
    <2>1. CASE \E i \in Ids(heartbeats) \ visible : CommitHeartbeat(i)
      BY <2>1
    <2>2. CASE ~\E i \in Ids(heartbeats) \ visible : CommitHeartbeat(i)
      <3>1. UNCHANGED <<visible, late>>
        BY <1>7, <2>2, Zenon DEF Outside, Tick, InsertHeartbeat, SubscriptionChanges, BlockBot,
                                 Press, outside, history
      <3>2. QED
        BY <1>7, <3>1, OutsideShape DEF InHand
    <2>3. QED
      BY <2>1, <2>2
  <1>8. CASE UNCHANGED vars
    BY <1>8 DEF vars, outside, tables, history, InHand
  <1>9. QED
    BY <1>1, <1>2, <1>3, <1>4, <1>5, <1>6, <1>7, <1>8, FinishInHand, Zenon
    DEF Next, BotStep, HeartbeatStep

(* What lies below a heartbeat fetched is fetched with it, or behind.      *)
LEMMA FetchedInOrder ==
  ASSUME Typed, NEW b \in FetchedBatch, NEW i \in visible, i < b, i > cursor
  PROVE  i \in FetchedBatch
  <1> DEFINE Upto(x) == {j \in Unhandled : j <= x}
  <1>1. visible \subseteq 1..Len(heartbeats) /\ Len(heartbeats) \in Nat
    BY TypeParts, StateFacts DEF Typed
  <1>2. b \in Unhandled /\ Cardinality(Upto(b)) <= Batch
    BY Zenon DEF FetchedBatch
  <1>3. Upto(b) \subseteq 1..Len(heartbeats) /\ Upto(i) \subseteq Upto(b)
    <2>1. Unhandled \subseteq 1..Len(heartbeats)
      BY <1>1, Zenon DEF Unhandled
    <2>2. b \in Int /\ i \in Int /\ \A j \in Unhandled : j \in Int
      <3>1. i \in 1..Len(heartbeats) /\ b \in 1..Len(heartbeats)
        BY <1>1, <1>2, <2>1, Zenon
      <3>2. QED
        BY <1>1, <2>1, <3>1
    <2>3. \A j \in Unhandled : j <= i => j <= b
      BY <2>2
    <2>4. QED
      BY <2>1, <2>3
  <1>4. IsFiniteSet(Upto(b))
    <2>1. IsFiniteSet(1..Len(heartbeats))
      BY <1>1, FS_Interval
    <2> HIDE DEF Upto
    <2>2. QED
      BY <1>3, <2>1, FS_Subset
  <1>5. /\ Cardinality(Upto(i)) <= Cardinality(Upto(b))
        /\ Cardinality(Upto(i)) \in Nat /\ Cardinality(Upto(b)) \in Nat
    BY <1>3, <1>4, FS_Subset, FS_CardinalityType
  <1>6. i \in Unhandled
    BY DEF Unhandled
  <1> HIDE DEF Upto
  <1>7. Cardinality(Upto(i)) <= Batch
    BY <1>2, <1>5, SessionsAssumption DEF SessionsAssumption
  <1>8. QED
    BY <1>6, <1>7, Zenon DEF FetchedBatch, Upto

LEMMA NextInOrder == ASSUME Typed, InOrder, [Next]_vars PROVE InOrder'
  <1>0. /\ cursor \in visible \cup {0} /\ bot.heartbeat \in visible \cup {0}
        /\ visible \subseteq 1..Len(heartbeats) /\ Len(heartbeats) \in Nat
        /\ bot.batch \subseteq visible /\ handled \subseteq visible
        /\ \A i \in visible : i \in Nat /\ i # 0
    BY TypeParts, StateFacts DEF Typed, Bots
  <1>1. ASSUME NEW i \in Ids(heartbeats) \ visible, CommitHeartbeat(i) PROVE InOrder'
    <2>1. /\ visible' = visible \cup {i} /\ UNCHANGED <<cursor, bot, handled>>
          /\ late' = IF \E j \in handled \cup bot.batch : j > i THEN late \cup {i} ELSE late
      BY <1>1 DEF CommitHeartbeat, tables
    <2>2. i \in Nat /\ i # 0 /\ late \subseteq late'
      BY <1>0, <2>1 DEF Ids
    <2>3. cursor # i /\ bot.heartbeat # i /\ i \notin bot.batch
      <3>1. i \notin visible
        OBVIOUS
      <3>2. QED
        BY <1>0, <2>2, <3>1, Zenon
    <2>4. i <= cursor \/ i <= bot.heartbeat => i \in late'
      <3>1. ASSUME NEW c \in {cursor, bot.heartbeat}, i <= c PROVE i \in late'
        <4>1. c \in handled \cup {0} /\ c \in Nat /\ c # i
          BY <1>0, <2>3, <3>1 DEF InOrder
        <4>2. c > i /\ c # 0
          BY <2>2, <3>1, <4>1
        <4>3. QED
          BY <2>1, <4>1, <4>2
      <3>2. QED
        BY <3>1
    <2>5. \A b \in bot.batch : i < b => i \in late'
      BY <1>0, <2>1, <2>2
    <2>6. QED
      BY <2>1, <2>2, <2>4, <2>5 DEF InOrder
  <1>2. ASSUME NEW h \in visible, TakenUp(h) PROVE InOrder'
    <2>1. PICK step \in BotSteps, todo \in SUBSET Ids(sessions), next \in Nexts :
             Take(h, step, todo, next)
      BY <1>2, TakenUpFacts
    <2>2. /\ h \in bot.batch /\ \A b \in bot.batch : h <= b
          /\ bot'.batch = bot.batch \ {h} /\ bot'.heartbeat = h
          /\ handled' = handled \cup {h}
          /\ UNCHANGED <<visible, cursor, late>>
      BY <1>2, <2>1, TakeFacts DEF TakenUp, outside, tables
    <2>3. \A i \in visible : i <= h => i \in handled' \cup late
      <3>1. ASSUME NEW i \in visible, i <= h, i # h PROVE i \in handled \cup late
        <4>1. i < h
          BY <1>0, <3>1
        <4>2. i \notin bot.batch
          BY <1>0, <2>2, <4>1
        <4>3. QED
          BY <2>2, <4>1, <4>2 DEF InOrder
      <3>2. QED
        BY <2>2, <3>1
    <2>4. \A b \in bot'.batch, i \in visible : i < b => i \in handled' \cup late \cup bot'.batch
      BY <2>2 DEF InOrder
    <2>5. QED
      BY <2>2, <2>3, <2>4 DEF InOrder
  <1>3. CASE bot' = Fetched /\ UNCHANGED <<visible, cursor, handled, late>>
    <2>1. bot'.batch = FetchedBatch /\ bot'.heartbeat = 0
      BY <1>3, FetchedFacts
    <2>2. \A b \in FetchedBatch, i \in visible :
            i < b => i \in handled \cup late \cup FetchedBatch
      BY <1>0, FetchedInOrder DEF InOrder
    <2>3. \A i \in visible : ~(i <= 0)
      BY <1>0
    <2>4. QED
      BY <1>3, <2>1, <2>2, <2>3 DEF InOrder
  <1>4. CASE AdvanceCursor
    <2>1. /\ cursor' = bot.heartbeat /\ bot' = NextHeartbeat(bot.batch)
          /\ UNCHANGED <<visible, handled, late>>
      BY <1>4, Zenon DEF AdvanceCursor, NextHeartbeat, outside, history
    <2>2. bot'.batch = bot.batch /\ bot'.heartbeat = 0
      BY <1>0, <2>1, BatchRecord
    <2>3. \A i \in visible : ~(i <= 0)
      BY <1>0
    <2>4. QED
      BY <2>1, <2>2, <2>3 DEF InOrder
  <1>5. CASE InHand
    <2>1. \A i \in visible : ~(i <= 0)
      BY <1>0
    <2>2. QED
      BY <1>5, <2>1 DEF InHand, InOrder
  <1>6. QED
    BY <1>1, <1>2, <1>3, <1>4, <1>5, BatchSteps, Zenon

(* No failure, restart or refused message makes the bot pass over a        *)
(* heartbeat: below last_notified_heartbeat_id lies only what was handled, *)
(* and what was committed after a later heartbeat had been fetched.        *)
THEOREM SpecSkippedOnlyIfLate == Spec => []SkippedOnlyIfLate
  <1>1. Init => InOrder
    <2>1. Init => cursor = 0 /\ bot = Looping /\ visible = {}
      BY DEF Init
    <2>2. QED
      BY <2>1, LoopingRecord DEF InOrder
  <1>2. Typed /\ InOrder /\ [Next]_vars => InOrder'
    BY NextInOrder
  <1>3. InOrder => SkippedOnlyIfLate
    BY DEF InOrder, SkippedOnlyIfLate
  <1>4. QED
    BY <1>1, <1>2, <1>3, InitTyped, NextTyped, PTL DEF Spec

-----------------------------------------------------------------------------
(***************************************************************************)
(* What a chat was told, and the rides open behind it.                     *)
(***************************************************************************)

(* Away from the statements that tell a chat and end its ride, what it was *)
(* told stays, and only rides that end change.                             *)
LEMMA QuietToldOff ==
  ASSUME ToldOff, bot.step \notin {"mark", "silence"}, bot'.step # "mark",
         UNCHANGED notified, torn \subseteq torn',
         \A d : OpenOf(sessions', d) \subseteq OpenOf(sessions, d)
  PROVE  ToldOff'
  <1>1. \A d \in Devices : Told(d, "off") => OpenOf(sessions, d) \subseteq torn
    BY DEF ToldOff
  <1>2. \A d \in Devices : Told(d, "off")' => OpenOf(sessions', d) \subseteq torn'
    BY <1>1 DEF Told
  <1>3. QED
    BY <1>2, Zenon DEF ToldOff

LEMMA OpensShrink ==
  ASSUME NoneOpened \/ UNCHANGED sessions
  PROVE  \A d : OpenOf(sessions', d) \subseteq OpenOf(sessions, d)
  BY NoneOpenedFacts, Zenon

(* The last session of a device is finished before its chat is told.       *)
LEMMA ResolveToldOff ==
  ASSUME Typed, ToldOff, bot.step \in FinishSteps, bot.todo # {},
         NEW at \in Nat, Resolve(Subject, at), UNCHANGED <<heartbeats, notified, torn>>,
         NoneOpened
  PROVE  ToldOff'
  <1>1. /\ bot'.step = IF bot.todo = {Subject} THEN bot.next ELSE "finish"
        /\ bot'.device = bot.device
        /\ sessions'[Subject].status = "finished"
        /\ Len(sessions') = Len(sessions)
    BY ResolveFacts
  <1>2. \A d : OpenOf(sessions', d) \subseteq OpenOf(sessions, d)
    BY OpensShrink
  <1>3. bot.step \notin {"mark", "silence"}
    BY DEF FinishSteps
  <1>4. CASE bot'.step # "mark"
    BY <1>2, <1>3, <1>4, QuietToldOff
  <1>5. CASE bot'.step = "mark"
    <2>1. OpenOf(sessions, bot.device) = {Subject}
      BY <1>1, <1>5 DEF Typed, LoopShape
    <2>2. Subject \notin OpenOf(sessions', bot.device)
      BY <1>1 DEF OpenOf, Active
    <2>3. OpenOf(sessions', bot'.device) = {}
      BY <1>1, <1>2, <2>1, <2>2
    <2>4. \A d \in Devices : Told(d, "off")' => OpenOf(sessions', d) \subseteq torn'
      BY <1>2, <1>3 DEF ToldOff, Told
    <2>5. QED
      BY <2>3, <2>4 DEF ToldOff
  <1>6. QED
    BY <1>4, <1>5

LEMMA ErrorToldOff ==
  ASSUME Typed, ToldOff, SendRefused \/ BotFails \/ SummaryAnswerLost PROVE ToldOff'
  <1>1. /\ bot' = Fetched \/ Idle(bot') \/ ChatGoesOn(bot')
        /\ UNCHANGED <<notified, sessions>>
    BY ErrorBot DEF tables
  <1>2. bot'.step # "mark"
    <2>1. ASSUME ChatGoesOn(bot') PROVE bot'.step # "mark"
      <3>1. bot' = WithStep(bot, AfterChat) /\ AfterChat \in BotSteps /\ AfterChat # "mark"
        BY <2>1 DEF ChatGoesOn, WithStep, AfterChat, BotSteps
      <3>2. bot'.step = AfterChat
        BY <3>1, StepRecord, TypeParts DEF Typed
      <3>3. QED
        BY <3>1, <3>2
    <2>2. QED
      BY <1>1, <2>1, FetchedFacts DEF Idle
  <1>3. /\ torn \subseteq torn'
        /\ bot.step \in {"mark", "silence"} => OpenOf(sessions, bot.device) \subseteq torn'
    BY Named DEF SendRefused, BotFails, SummaryAnswerLost, Failure, Finishing, history
  <1>4. \A d \in Devices : Told(d, "off")' => OpenOf(sessions', d) \subseteq torn'
    <2>1. \A d \in Devices : Told(d, "off") =>
             \/ OpenOf(sessions, d) \subseteq torn
             \/ d = bot.device /\ bot.step \in {"mark", "silence"}
      BY DEF ToldOff
    <2>2. QED
      BY <1>1, <1>3, <2>1 DEF Told
  <1>5. QED
    BY <1>2, <1>4 DEF ToldOff

LEMMA ChatToldOff ==
  ASSUME Typed, ToldOff, CreateSession \/ MarkNotified \/ SilenceSessions PROVE ToldOff'
  <1>0. /\ bot \in Bots(visible, Len(sessions)) /\ Len(sessions) \in Nat
        /\ UNCHANGED <<heartbeats, torn>>
    BY StateFacts, TypeParts, Zenon
    DEF Typed, CreateSession, MarkNotified, SilenceSessions, outside, history
  <1>1. CASE CreateSession
    <2>1. /\ Len(sessions') = Len(sessions) + 1
          /\ sessions'[Len(sessions) + 1].device = bot.device
          /\ \A t \in 1..Len(sessions) : sessions'[t] = sessions[t]
          /\ bot'.step = "mark" /\ bot'.heartbeat = bot.heartbeat /\ bot'.device = bot.device
      BY <1>1, CreateFacts
    <2>2. bot.step = "create" /\ UNCHANGED notified
      BY <1>1 DEF CreateSession
    <2>3. heartbeats'[bot'.heartbeat].status # "off"
      BY <1>0, <2>1, <2>2 DEF Typed, LoopShape
    <2>4. \A d : d # bot.device => OpenOf(sessions', d) \subseteq OpenOf(sessions, d)
      BY <1>0, <2>1 DEF OpenOf
    <2>5. \A d \in Devices : Told(d, "off")' =>
             OpenOf(sessions', d) \subseteq torn' \/ d = bot.device
      BY <1>0, <2>2, <2>4 DEF ToldOff, Told
    <2>6. QED
      BY <2>1, <2>3, <2>5, Zenon DEF ToldOff
  <1>2. CASE MarkNotified
    <2>1. /\ bot.step = "mark" /\ UNCHANGED sessions
          /\ notified' = [notified EXCEPT ![bot.device] =
                            [status |-> heartbeats[bot.heartbeat].status,
                             heartbeat |-> bot.heartbeat]]
          /\ bot' = WithStep(bot, AfterChat)
      BY <1>2, Zenon DEF MarkNotified, WithStep
    <2>2. AfterChat \in BotSteps
      BY DEF AfterChat, BotSteps
    <2>3. bot'.step = AfterChat /\ bot'.device = bot.device
      BY <1>0, <2>1, <2>2, StepRecord
    <2>4. notified \in [Devices -> Rows(visible)] /\ bot.device \in Devices
      BY <2>1, TypeParts, StateFacts DEF Typed, LoopShape, ChatSteps
    <2>5. /\ \A d \in Devices : d # bot.device => notified'[d] = notified[d]
          /\ notified'[bot.device].status = heartbeats[bot.heartbeat].status
      BY <2>1, <2>4
    <2>6. \A d \in Devices : d # bot.device /\ Told(d, "off")' =>
             OpenOf(sessions', d) \subseteq torn'
      BY <1>0, <2>1, <2>5 DEF ToldOff, Told
    <2>7. Told(bot.device, "off")' =>
             OpenOf(sessions', bot.device) \subseteq torn' \/ bot'.step = "silence"
      <3>1. CASE bot.next = "silence"
        BY <2>3, <3>1 DEF AfterChat
      <3>2. CASE bot.next # "silence"
        <4>1. ASSUME Told(bot.device, "off")' PROVE heartbeats[bot.heartbeat].status = "off"
          <5>1. bot.device' = bot.device
            BY <2>3
          <5>2. QED
            BY <4>1, <5>1, <2>5 DEF Told
        <4>2. QED
          BY <1>0, <2>1, <3>2, <4>1 DEF ToldOff
      <3>3. QED
        BY <3>1, <3>2
    <2>8. bot'.step # "mark"
      BY <2>3 DEF AfterChat
    <2>9. QED
      BY <2>3, <2>6, <2>7, <2>8 DEF ToldOff
  <1>3. CASE SilenceSessions
    <2>1. /\ bot.step = "silence" /\ UNCHANGED notified /\ bot' = WithStep(bot, "advance")
          /\ sessions' = AllEnded(sessions, Open(bot.device), bot.endedAt)
      BY <1>3, Zenon DEF SilenceSessions, WithStep, AllEnded, Ids
    <2>2. bot'.step = "advance"
      BY <1>0, <2>1, StepRecord DEF BotSteps
    <2>3. NoneOpened
      <3>1. [Next]_vars
        BY <1>3 DEF Next, BotStep, HeartbeatStep
      <3>2. ~CreateSession
        BY <2>1 DEF CreateSession
      <3>3. NoneOpened \/ UNCHANGED sessions
        BY <3>1, <3>2, SessionSteps
      <3>4. sessions' = sessions => NoneOpened
        BY DEF NoneOpened
      <3>5. QED
        BY <3>3, <3>4
    <2>4. OpenOf(sessions', bot.device) = {}
      <3>1. bot.endedAt \in Nat /\ sessions \in Seq(SessionRows)
        BY <1>0, TypeParts DEF Bots, Typed
      <3>2. /\ Len(sessions') = Len(sessions)
            /\ \A s \in 1..Len(sessions) :
                 s \in Open(bot.device) => sessions'[s].status = "finished"
        BY <2>1, <3>1, SilencedRows
      <3>3. OpenOf(sessions', bot.device) \subseteq Open(bot.device)
        BY <2>3, NoneOpenedFacts, Named
      <3>4. QED
        BY <3>2, <3>3 DEF OpenOf, Active
    <2>5. \A d : OpenOf(sessions', d) \subseteq OpenOf(sessions, d)
      BY <2>3, OpensShrink
    <2>6. \A d \in Devices : Told(d, "off")' => OpenOf(sessions', d) \subseteq torn'
      BY <1>0, <2>1, <2>4, <2>5 DEF ToldOff, Told
    <2>7. QED
      BY <2>2, <2>6 DEF ToldOff
  <1>4. QED
    BY <1>1, <1>2, <1>3

LEMMA TakenUpToldOff ==
  ASSUME Typed, ToldOff, NEW h \in visible, TakenUp(h) PROVE ToldOff'
  <1>1. PICK step \in BotSteps, todo \in SUBSET Ids(sessions), next \in Nexts :
           Take(h, step, todo, next) /\ Branch(h, step, todo, next)
    BY TakenUpFacts
  <1>2. /\ bot.step = "next" /\ bot'.step = step /\ bot'.heartbeat = h
        /\ bot'.device = heartbeats[h].device /\ bot'.next = next
        /\ UNCHANGED <<heartbeats, sessions, notified, torn>>
    BY <1>1, TakeFacts DEF TakenUp, outside, tables
  <1>3. \A d \in Devices : Told(d, "off") => OpenOf(sessions, d) \subseteq torn
    BY <1>2 DEF ToldOff
  <1>4. heartbeats[h].device \in Devices
    BY StateFacts DEF Heartbeats
  <1>5. step = "mark" /\ heartbeats[h].status = "off" /\ next # "silence" =>
          OpenOf(sessions, heartbeats[h].device) \subseteq torn
    BY <1>1, <1>3, <1>4 DEF Branch
  <1>6. \A d \in Devices : Told(d, "off")' => OpenOf(sessions', d) \subseteq torn'
    BY <1>2, <1>3 DEF Told
  <1>7. QED
    BY <1>2, <1>5, <1>6 DEF ToldOff

LEMMA NextToldOff == ASSUME Typed, ToldOff, [Next]_vars PROVE ToldOff'
  <1>0. bot \in Bots(visible, Len(sessions))
    BY TypeParts DEF Typed
  <1>1. CASE \/ \E h \in visible : SkipUnknown(h)
             \/ \E h \in visible, d \in Devices :
                   EngineOn(h, d) \/ EngineOff(h, d) \/ Inactive(h, d)
    BY <1>1, HeartbeatBranches, TakenUpToldOff, Zenon
  <1>2. CASE CreateSession \/ MarkNotified \/ SilenceSessions
    BY <1>2, ChatToldOff
  <1>3. CASE SendRefused \/ BotFails \/ SummaryAnswerLost
    BY <1>3, ErrorToldOff
  <1>4. CASE Outside \/ UNCHANGED vars
    <2>1. UNCHANGED <<sessions, notified, bot, torn>>
      BY <1>4, OutsideShape DEF vars, tables, history
    <2>2. bot.step = "mark" => heartbeats'[bot.heartbeat] = heartbeats[bot.heartbeat]
      BY HeartbeatsStay, StateFacts DEF Typed, LoopShape, ChatSteps
    <2>3. QED
      BY <2>1, <2>2 DEF ToldOff, Told
  <1>5. CASE FinishSummarised \/ ResolveSession
    <2>1. /\ bot.endedAt \in Nat /\ now \in Nat /\ bot.step \in FinishSteps /\ bot.todo # {}
          /\ Resolve(Subject, bot.endedAt) \/ Resolve(Subject, now)
          /\ UNCHANGED <<heartbeats, notified, torn>>
      BY <1>0, <1>5, TypeParts
      DEF FinishSummarised, ResolveSession, Finishing, FinishSteps, Bots, Typed, LoopShape,
          outside, history
    <2>2. NoneOpened \/ UNCHANGED sessions
      BY <2>1, SessionSteps DEF CreateSession, FinishSteps
    <2>3. NoneOpened
      BY <2>2 DEF NoneOpened
    <2>4. QED
      BY <2>1, <2>3, ResolveToldOff
  <1>6. CASE \/ AnswerPress \/ ConsumeUpdate \/ SendSummary \/ NoSummary \/ StoreSummary
             \/ FetchHeartbeats \/ AdvanceCursor \/ StaleStep
    <2>1. bot.step \notin {"mark", "silence", "create"} /\ UNCHANGED <<notified, torn>>
      BY <1>6
      DEF AnswerPress, ConsumeUpdate, SendSummary, NoSummary, StoreSummary, FetchHeartbeats,
          AdvanceCursor, StaleStep, FetchRiding, CheckStale, LoopAgain, Finishing,
          tables, history
    <2>2. NoneOpened \/ UNCHANGED sessions
      BY <2>1, SessionSteps DEF CreateSession
    <2>3. bot'.step # "mark"
      <3>1. ASSUME NEW step \in {"consume", "updates", "store", "resolve"},
                   bot' = WithStep(bot, step)
            PROVE  bot'.step # "mark"
        <4>1. step \in BotSteps /\ step # "mark"
          BY DEF BotSteps
        <4>2. QED
          BY <1>0, <3>1, <4>1, StepRecord
      <3>2. CASE AnswerPress \/ ConsumeUpdate \/ SendSummary \/ NoSummary \/ StoreSummary
        BY <3>1, <3>2, Zenon
        DEF AnswerPress, ConsumeUpdate, SendSummary, NoSummary, StoreSummary, WithStep
      <3>3. CASE FetchHeartbeats
        BY <3>3, FetchedFacts DEF FetchHeartbeats
      <3>4. CASE AdvanceCursor
        <4>1. bot' = NextHeartbeat(bot.batch) /\ bot.batch \in SUBSET visible
          BY <3>4, StateFacts DEF AdvanceCursor, NextHeartbeat
        <4>2. QED
          BY <4>1, BatchRecord
      <3>5. CASE StaleStep
        <4>1. CASE FetchRiding \/ LoopAgain
          <5>1. bot' = Looping \/ bot' = FirstGroup(Riding, now)
            BY <4>1, Zenon DEF FetchRiding, LoopAgain, FirstGroup
          <5>2. Riding \in SUBSET Devices /\ now \in Nat
            BY TypeParts DEF Riding, Typed
          <5>3. FirstGroup(Riding, now).step = "stale"
            BY <5>2, GroupsRecord, Zenon
          <5>4. QED
            BY <5>1, <5>3, LoopingRecord
        <4>2. ASSUME NEW d \in Devices, CheckStale(d) PROVE bot'.step # "mark"
          BY <1>0, <4>2 DEF CheckStale, Bots
        <4>3. QED
          BY <3>5, <4>1, <4>2 DEF StaleStep
      <3>6. QED
        BY <1>6, <3>2, <3>3, <3>4, <3>5
    <2>4. QED
      BY <2>1, <2>2, <2>3, OpensShrink, QuietToldOff
  <1>7. QED
    BY <1>1, <1>2, <1>3, <1>4, <1>5, <1>6, Zenon
    DEF Next, BotStep, UpdateStep, HeartbeatStep, FinishStep

(* A chat last told that its engine is off has no ride left open, unless   *)
(* the statement that records the ride, or ends it silently, failed.       *)
THEOREM SpecToldOffMeansOver == Spec => []ToldOffMeansOver
  <1>1. Init => ToldOff
    <2>1. Init => /\ \A d \in Devices : notified[d] = NULL
                  /\ bot.step = "updates"
      BY LoopingRecord DEF Init
    <2>2. QED
      BY <2>1 DEF ToldOff, Told
  <1>2. Typed /\ ToldOff /\ [Next]_vars => ToldOff'
    BY NextToldOff
  <1>3. ToldOff => ToldOffMeansOver
    BY Named DEF ToldOff, ToldOffMeansOver
  <1>4. QED
    BY <1>1, <1>2, <1>3, InitTyped, NextTyped, PTL DEF Spec
=============================================================================
