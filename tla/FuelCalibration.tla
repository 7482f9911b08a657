---------------------------- MODULE FuelCalibration ----------------------------
(***************************************************************************)
(* Fuel calibrations of the HTTP API (src/api.rs): start, restart and      *)
(* complete as transactions under an advisory lock of the device, the      *)
(* reading of the result, and the pool of connections they all draw on.    *)
(* Around them one device rides: its locations, its odometer and its       *)
(* sessions grow, written by the server and the bot later than the times   *)
(* they carry.  The reports of RideMetrics are read in every state.        *)
(***************************************************************************)
EXTENDS RideMetrics

CONSTANTS
  Requests,    \* handlers of the API at work
  PoolSize,    \* database_max_connections
  Budgets      \* bounds of a behaviour: the moves (position, speed, metres for the
               \* odometer) that may be reported, how many, sessions, requests,
               \* failures, and where the clock stops

ASSUME CalibrationAssumption ==
  /\ IsFiniteSet(Requests) /\ NULL \notin Requests
  /\ PoolSize \in Nat \ {0}
  /\ Budgets \subseteq [moves : SUBSET (Nat \X Nat \X Nat), points : Nat, sessions : Nat,
                        requests : Nat, failures : Nat, horizon : Nat]

VARIABLES
  now,           \* Utc::now()
  points,        \* device_locations
  total,         \* total_distance_meters of the odometer
  sessions,      \* telegram_engine_sessions
  calibrations,  \* fuel_calibrations by id
  lock,          \* who holds the advisory lock
  req,           \* by request, what it is doing
  budget         \* what is left of the bounds

world == <<points, total, sessions>>
vars  == <<now, world, calibrations, lock, req, budget>>

-----------------------------------------------------------------------------
(* A handler outside of a transaction: nothing read, no connection held.   *)
Outside(op, step, at, id, code) ==
  [op |-> op, step |-> step, holds |-> FALSE, at |-> at, id |-> id,
   distance |-> 0, riding |-> 0, engineOn |-> 0, trips |-> 0, code |-> code]

Free == Outside("none", "free", 0, 0, 0)

Init ==
  /\ now = 0 /\ points = <<>> /\ total = 0 /\ sessions = <<>>
  /\ calibrations = <<>> /\ lock = NULL
  /\ req = [r \in Requests |-> Free]
  /\ budget \in Budgets

Tick ==
  /\ now < budget.horizon
  /\ now' = now + 1
  /\ UNCHANGED <<world, calibrations, lock, req, budget>>

(* A location is committed under the same advisory lock, into the order of *)
(* (server_received_at, id): its time was taken before the lock was there  *)
(* to have, so another connection's may stand behind it.  ServiceDistance  *)
(* says which metres a location is worth; here they are any.               *)
Move(at, place, pos, speed, metres) ==
  /\ budget.points > 0 /\ lock = NULL
  /\ place > 1 => points[place - 1].at <= at
  /\ place <= Len(points) => at < points[place].at
  /\ budget' = [budget EXCEPT !.points = @ - 1]
  /\ points' = InsertAt(points, place, [at |-> at, pos |-> pos, speed |-> speed])
  /\ total' = total + metres
  /\ UNCHANGED <<now, sessions, calibrations, lock, req>>

Riding == sessions # <<>> /\ Last(sessions).end = NULL

(* create_engine_session: a session begins at the time of its heartbeat,   *)
(* which is handled later and may lie before the end of the session before *)
(* it; of two connections of a device even before that one's start.        *)
OpenSession(at) ==
  /\ budget.sessions > 0 /\ ~Riding
  /\ budget' = [budget EXCEPT !.sessions = @ - 1]
  /\ sessions' = Append(sessions, [start |-> at, end |-> NULL])
  /\ UNCHANGED <<now, points, total, calibrations, lock, req>>

(* A session is ended at the time of handling (resolve_engine_session); at *)
(* that of the heartbeat when a retry finds its summary stored, or the     *)
(* subscription has lapsed.                                                *)
CloseSession(end) ==
  /\ Riding
  /\ sessions' = [sessions EXCEPT ![Len(sessions)].end = end]
  /\ UNCHANGED <<now, points, total, calibrations, lock, req, budget>>

-----------------------------------------------------------------------------
Busy == Cardinality({r \in Requests : req[r].holds})

(* Connections a query of r may use: PgPoolOptions::max_connections.       *)
PoolHasOne == Busy < PoolSize

Active == {i \in 1..Len(calibrations) : calibrations[i].status = "active"}
Finished == {i \in 1..Len(calibrations) : calibrations[i].status = "completed"}

(* The window of a request begins or ends when it arrives, not when it     *)
(* gets the lock.                                                          *)
Arrive(r, op, id) ==
  /\ req[r].step \in {"free", "done"} /\ budget.requests > 0
  /\ budget' = [budget EXCEPT !.requests = @ - 1]
  /\ req' = [req EXCEPT ![r] = Outside(op, IF op = "get" THEN "load" ELSE "begin", now, id, 0)]
  /\ UNCHANGED <<now, world, calibrations, lock>>

(* pool.begin                                                              *)
Acquire(r) ==
  /\ req[r].step = "begin" /\ PoolHasOne
  /\ req' = [req EXCEPT ![r].step = "lock", ![r].holds = TRUE]
  /\ UNCHANGED <<now, world, calibrations, lock, budget>>

(* Mutant: no lock is taken.                                               *)
AnyLock == TRUE

LockFree == lock = NULL

(* pg_advisory_xact_lock                                                   *)
TakeLock(r) ==
  /\ req[r].step = "lock" /\ LockFree
  /\ lock' = r
  /\ req' = [req EXCEPT ![r].step = "read"]
  /\ UNCHANGED <<now, world, calibrations, budget>>

(* The request answers; its connection goes back, its transaction, if it   *)
(* did not commit, is rolled back and the lock released.                   *)
Answered(r, code) == [req EXCEPT ![r] = Outside(req[r].op, "done", 0, req[r].id, code)]

(* Mutant: pg_advisory_lock, which outlives the transaction.               *)
NotReleased(r) == lock

Released(r) == IF lock = r THEN NULL ELSE lock

(* The checks and the odometer.  A restart takes any calibration for       *)
(* invalidated from here on; it is when it commits.                        *)
Refusal(r) == CASE req[r].op = "start" /\ Active # {} -> 409
                [] req[r].op = "complete" /\ req[r].id \notin Active -> 404
                [] OTHER -> 0

Read(r) ==
  /\ req[r].step = "read"
  /\ IF Refusal(r) # 0
     THEN req' = Answered(r, Refusal(r)) /\ lock' = Released(r)
     ELSE /\ req' = [req EXCEPT ![r].distance = total,
                       ![r].step = IF req[r].op = "complete" THEN "riding" ELSE "write"]
          /\ UNCHANGED lock
  /\ UNCHANGED <<now, world, calibrations, budget>>

(* fetch_fuel_window_metrics on a second connection, one query after the   *)
(* other, while the transaction holds the first.                           *)
ReadRiding(r) ==
  /\ req[r].step = "riding" /\ PoolHasOne
  /\ req' = [req EXCEPT ![r].step = "trips",
       ![r].riding = FuelWindow(points, sessions, calibrations[req[r].id].started, req[r].at).riding]
  /\ UNCHANGED <<now, world, calibrations, lock, budget>>

ReadTrips(r) ==
  LET window == FuelWindow(points, sessions, calibrations[req[r].id].started, req[r].at)
  IN /\ req[r].step = "trips" /\ PoolHasOne
     /\ req' = [req EXCEPT ![r].step = "write", ![r].engineOn = window.engineOn,
                           ![r].trips = window.trips]
     /\ UNCHANGED <<now, world, calibrations, lock, budget>>

Begun(r) == [status |-> "active", started |-> req[r].at, from |-> req[r].distance,
             completed |-> NULL, to |-> 0, metres |-> 0, riding |-> 0, engineOn |-> 0, trips |-> 0]

Invalidated(rows) == [i \in 1..Len(rows) |-> IF rows[i].status = "active"
                                  THEN [rows[i] EXCEPT !.status = "invalidated"] ELSE rows[i]]

(* The last statement and the commit; a second active row is refused by    *)
(* idx_fuel_calibrations_one_active_per_device.                            *)
Write(r) ==
  LET me == req[r]
      refused == me.op = "start" /\ Active # {}
      row == calibrations[me.id]
      result == [row EXCEPT !.status = "completed", !.completed = me.at,
                            !.to = me.distance,
                            !.metres = Later(0, me.distance - row.from),
                            !.riding = me.riding, !.engineOn = me.engineOn, !.trips = me.trips]
  IN /\ me.step = "write"
     /\ calibrations' = CASE refused -> calibrations
                          [] me.op = "start" /\ ~refused -> Append(calibrations, Begun(r))
                          [] me.op = "restart" -> Append(Invalidated(calibrations), Begun(r))
                          [] me.op = "complete" -> [calibrations EXCEPT ![me.id] = result]
     /\ lock' = Released(r)
     /\ req' = IF refused THEN Answered(r, 500)
               ELSE [req EXCEPT ![r] = Outside(me.op, "load", 0, me.id, 0)]
     /\ UNCHANGED <<now, world, budget>>

(* load_device_fuel_calibrations: queries that each borrow a connection;   *)
(* the transaction has committed whatever comes of them.                   *)
Load(r) ==
  /\ req[r].step = "load" /\ PoolHasOne
  /\ req' = Answered(r, IF req[r].op \in {"start", "restart"} THEN 201 ELSE 200)
  /\ UNCHANGED <<now, world, calibrations, lock, budget>>

(* Mutant: a query waits for a connection without end.                     *)
NeverTimesOut(r) == FALSE

(* acquire_timeout: nobody gave a connection back in time.                 *)
TimesOut(r) ==
  /\ req[r].step \in {"begin", "riding", "trips", "load"} /\ ~PoolHasOne
  /\ req' = Answered(r, 500) /\ lock' = Released(r)
  /\ UNCHANGED <<now, world, calibrations, budget>>

(* A statement fails, or the client is gone and the handler is dropped.    *)
Fail(r) ==
  /\ req[r].step \notin {"free", "done"} /\ budget.failures > 0
  /\ budget' = [budget EXCEPT !.failures = @ - 1]
  /\ req' = Answered(r, 500) /\ lock' = Released(r)
  /\ UNCHANGED <<now, world, calibrations>>

RequestStep(r) ==
  \/ Acquire(r) \/ TakeLock(r) \/ Read(r) \/ ReadRiding(r) \/ ReadTrips(r) \/ Write(r)
  \/ Load(r) \/ TimesOut(r)

Next ==
  \/ Tick
  \/ \E at \in 0..now :
       \/ OpenSession(at) \/ CloseSession(at)
       \/ \E place \in 1..(Len(points) + 1), move \in budget.moves :
            Move(at, place, move[1], move[2], move[3])
  \/ \E r \in Requests :
       \/ Arrive(r, "start", 0) \/ Arrive(r, "restart", 0) \/ Arrive(r, "get", 0)
       \/ \E id \in 1..Len(calibrations) : Arrive(r, "complete", id)
       \/ RequestStep(r) \/ Fail(r)

(* The API runs its handlers; the rest of the world owes it nothing.       *)
Spec == Init /\ [][Next]_vars /\ \A r \in Requests : WF_vars(RequestStep(r))

-----------------------------------------------------------------------------
(* A row, its metrics apart: open until it is completed, never before it   *)
(* began.                                                                  *)
IsRow(c) ==
  /\ c.status \in {"active", "completed", "invalidated"}
  /\ {c.started, c.from, c.to, c.metres} \subseteq Nat
  /\ c.completed \in IF c.status = "completed" THEN c.started..now ELSE {NULL}

(* The pool is never overdrawn, and who works under the lock of the device *)
(* does so on a connection of its own (the lock is the transaction's).     *)
TypeOK ==
  /\ now \in 0..budget.horizon /\ total \in Nat
  /\ lock \in Requests \cup {NULL}
  /\ \A i \in 1..Len(calibrations) : IsRow(calibrations[i])
  /\ Busy <= PoolSize
  /\ \A r \in Requests : (lock = r \/ req[r].step \in {"lock", "read", "riding", "trips", "write"})
                           => req[r].holds

(* No stretch of the odometer is in two calibrations: each completed one   *)
(* is what the odometer turned meanwhile, and ends before the next that    *)
(* was not invalidated begins (the advisory lock around reading the        *)
(* odometer and writing the row); so no two are active.                    *)
StretchesAreDisjoint ==
  /\ \A i \in Finished :
       LET c == calibrations[i]
       IN c.to = c.from + c.metres /\ c.to <= total
  /\ \A i, j \in 1..Len(calibrations) :
       i < j /\ calibrations[i].status # "invalidated" /\ calibrations[j].status # "invalidated" =>
         /\ calibrations[i].status = "completed"
         /\ calibrations[i].from + calibrations[i].metres <= calibrations[j].from

(* How far a session that is over has come; a session that ended before it *)
(* began came no further than its start.                                   *)
Reached(session) == Later(session.start, session.end)

(* What of a window each session shares with the one before it.            *)
SharedWithin(rides, from, to) ==
  LET shared(i) == Later(0, Earlier(Reached(rides[i - 1]), to) - Later(rides[i].start, from))
  IN SumFunction([i \in 2..Len(rides) |-> shared(i)])

MetricsWithinWindow ==
  \A i \in Finished :
    LET c == calibrations[i]
        window == c.completed - c.started
    IN /\ c.riding \in 0..window
       /\ c.engineOn \in 0..(window + SharedWithin(sessions, c.started, c.completed))
       /\ c.trips \in Nat
       /\ c.trips = 0 => c.engineOn = 0

OfMonth == {d \in 0..WibDate(now) : DayStart(d) >= MonthStart(now)}

ReportsWithinRange ==
  /\ \A range \in {Today(now), Yesterday(now), Month(now)}
                 \cup {Custom(d, d) : d \in 0..WibDate(now)} :
       BotReport(points, sessions, range, now).riding
         <= (Earlier(now, range.to) - range.from)
              + SharedWithin(sessions, range.from, Earlier(now, range.to))
  /\ SumFunction([d \in OfMonth |-> ApiDaily(points, sessions, d, now).riding])
       <= BotReport(points, sessions, Month(now), now).riding

(* A calibration rides no longer than its window, although its queries run *)
(* one after the other while locations and sessions come in.  Sessions are *)
(* summed up, and may overlap: engine time, or the riding time of a        *)
(* report, exceeds its window by no more than sessions in a row share in   *)
(* it.  The days of a month never ride longer than the month: a ride       *)
(* across midnight is cut, not counted twice.                              *)
MetricsAddUp == MetricsWithinWindow /\ ReportsWithinRange

(* Every request, those that only load included, is answered: handlers     *)
(* that hold a connection and wait for another give up (acquire_timeout).  *)
EveryRequestAnswers ==
  \A r \in Requests : req[r].step \in {"begin", "load"} ~> req[r].step = "done"
=============================================================================
