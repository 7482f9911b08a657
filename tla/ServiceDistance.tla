---------------------------- MODULE ServiceDistance ----------------------------
(***************************************************************************)
(* What becomes of a device's messages in the database: persist_event in   *)
(* src/db.rs with the odometer of src/service_distance.rs, the rebuild of  *)
(* the odometer from history, and the service answer of src/api.rs that    *)
(* reads odometer and daily rows in two statements.                        *)
(*                                                                         *)
(* Everything is keyed by the IMEI, so the module follows one device; it   *)
(* may have several connections (the server does not close the old one of  *)
(* a device that reconnects).  Transactions are read committed: what one   *)
(* writes is seen by others when it commits, and the first statement of    *)
(* each, the upsert of the devices row, waits for the transaction that     *)
(* wrote the row before.  Positions are points on a line.                  *)
(***************************************************************************)
EXTENDS Integers, Sequences, FiniteSets

CONSTANTS
  NULL,
  Connections,
  Fixes,        \* locations a device may report: [pos, moving], pos = NULL out of range
  MinSegment,   \* MIN_SEGMENT_METERS
  MaxGap,       \* MAX_POINT_GAP_SECONDS, in ticks
  MaxSpeed,     \* MAX_PLAUSIBLE_SPEED_KPH, in metres a tick
  DayLength,    \* ticks of a day
  WibOffset,    \* WIB_OFFSET_SECONDS, in ticks
  Milestone,    \* 1000 km
  MaxListed,    \* milestones in an answer
  Histories,    \* sequences of fixes stored before the odometer existed, a tick apart
  MaxMessages,  \* bound: messages begun
  MaxStops,     \* bound: stops of the server
  Horizon       \* bound: the clock stops here

ASSUME DistanceAssumption ==
  /\ NULL \notin Int
  /\ NULL \notin [total : Int, row : [id : Int, at : Int, pos : Int \cup {NULL}, moving : BOOLEAN]]
  /\ {MinSegment, MaxGap, MaxSpeed, DayLength, Milestone} \subseteq Nat \ {0}
  /\ {WibOffset, MaxListed, MaxMessages, MaxStops, Horizon} \subseteq Nat
  /\ NULL \notin Connections
  /\ \A f \in Fixes : f.pos \in Int \cup {NULL} /\ f.moving \in BOOLEAN
  /\ \A h \in Histories : h \in Seq([pos : Int \cup {NULL}, moving : BOOLEAN]) /\ Len(h) <= Horizon

VARIABLES
  now,         \* Utc::now()
  service,     \* "up" or "down": gt06n.service
  conn,        \* by connection, the transaction it is in, or Idle
  lock,        \* who holds the devices row
  ids,         \* last value of the sequences: device_locations, device_heartbeats
  locations,   \* committed device_locations
  heartbeats,  \* committed device_heartbeats
  device,      \* the latest_* columns of devices: ids of the rows they copy, NULL: none
  odometer,    \* device_distance_odometer, NULL: no row
  daily,       \* device_distance_daily: metres by day
  backfill,    \* the rows service_distance_backfill has read, NULL: not running
  reader,      \* a GET service: total read, answer
  used,        \* bounds used up: messages, stops
  since        \* history: the odometer counts the locations after this id

tables == <<locations, heartbeats, device, odometer, daily>>
vars   == <<now, service, conn, lock, ids, tables, backfill, reader, used, since>>

-----------------------------------------------------------------------------
(* haversine_distance_meters, on a line.                                   *)
Abs(x) == IF x < 0 THEN -x ELSE x

(* accepted_segment_meters, 0 for None.                                    *)
Segment(p, q) ==
  LET gap == q.at - p.at
      meters == Abs(q.pos - p.pos)
  IN IF /\ p.pos # NULL /\ q.pos # NULL
        /\ gap \in 1..MaxGap
        /\ p.moving \/ q.moving
        /\ meters >= MinSegment
        /\ meters <= MaxSpeed * gap
     THEN meters ELSE 0

WibDate(at) == (at + WibOffset) \div DayLength
Days == 0..WibDate(Horizon)
NoDays == [d \in Days |-> 0]

(* Mutant: a day's metres replace what the day had.                        *)
AddedOver(days, at, meters) == IF meters = 0 THEN days ELSE [days EXCEPT ![WibDate(at)] = meters]

Added(days, at, meters) == [days EXCEPT ![WibDate(at)] = @ + meters]

(* process_location_distance: the odometer and the days after one point.   *)
(* The odometer keeps the point it saw last, counted or not.               *)
Processed(state, row) ==
  LET last == state.odometer
      meters == IF last = NULL THEN 0 ELSE Segment(last.row, row)
  IN IF last # NULL /\ row.id <= last.row.id THEN state
     ELSE [odometer |-> [total |-> (IF last = NULL THEN 0 ELSE last.total) + meters,
                         row |-> row],
           daily |-> Added(state.daily, row.at, meters)]

-----------------------------------------------------------------------------
Transaction(step, kind, row, result) ==
  [step |-> step, kind |-> kind, row |-> row, result |-> result]

Idle == Transaction("idle", "none", NULL, NULL)

Newest(rows) == IF rows = {} THEN NULL
                ELSE CHOOSE i \in {r.id : r \in rows} : \A r \in rows : r.id <= i

(* ORDER BY id: the row at a place in that order, and the last place.      *)
RowWithId(rows, n) == CHOOSE r \in rows : r.id = n
Top(rows) == IF rows = {} THEN 0 ELSE Newest(rows)

History(fixes) == {[id |-> i, at |-> i - 1, pos |-> fixes[i].pos, moving |-> fixes[i].moving] :
                     i \in 1..Len(fixes)}

Init ==
  /\ \E h \in Histories :
       /\ locations = History(h) /\ now = Len(h) /\ since = Len(h)
       /\ ids = [location |-> Len(h), heartbeat |-> 0]
       /\ device = [location |-> Newest(History(h)), heartbeat |-> NULL]
  /\ service = "down" /\ conn = [c \in Connections |-> Idle] /\ lock = NULL
  /\ heartbeats = {} /\ odometer = NULL /\ daily = NoDays
  /\ backfill = NULL /\ reader = [step |-> "idle", total |-> 0, days |-> NoDays, milestones |-> {}]
  /\ used = [messages |-> 0, stops |-> 0]

Tick ==
  /\ now < Horizon
  /\ now' = now + 1
  /\ UNCHANGED <<service, conn, lock, ids, tables, backfill, reader, used, since>>

-----------------------------------------------------------------------------
(* persist_event.  The time of the message is taken before its transaction *)
(* waits for the devices row.                                              *)

Begin(c, kind, fix) ==
  /\ service = "up" /\ conn[c] = Idle /\ used.messages < MaxMessages
  /\ used' = [used EXCEPT !.messages = @ + 1]
  /\ LET row == [id |-> 0, at |-> now, pos |-> fix.pos, moving |-> fix.moving]
     IN conn' = [conn EXCEPT ![c] = Transaction("begun", kind, row, NULL)]
  /\ UNCHANGED <<now, service, lock, ids, tables, backfill, reader, since>>

(* Mutant: the devices row is looked up, not upserted.                     *)
AnyLock == TRUE

LockFree == lock = NULL

(* upsert_device_login, upsert_device_last_seen                            *)
LockDevice(c) ==
  /\ conn[c].step = "begun" /\ LockFree
  /\ lock' = c
  /\ LET next == IF conn[c].kind = "login" THEN "done" ELSE "locked"
     IN conn' = [conn EXCEPT ![c] = Transaction(next, conn[c].kind, conn[c].row, NULL)]
  /\ UNCHANGED <<now, service, ids, tables, backfill, reader, used, since>>

(* insert_location, insert_heartbeat                                       *)
InsertRow(c) ==
  LET kind == conn[c].kind
      next == IF kind = "location" THEN "inserted" ELSE "done"
      row == [conn[c].row EXCEPT !.id = ids[kind] + 1]
  IN /\ conn[c].step = "locked"
     /\ ids' = [ids EXCEPT ![kind] = @ + 1]
     /\ conn' = [conn EXCEPT ![c] = Transaction(next, kind, row, NULL)]
     /\ UNCHANGED <<now, service, lock, tables, backfill, reader, used, since>>

(* Mutant: the odometer is written on a connection of its own.             *)
MeasureOutside(c) ==
  LET result == Processed([odometer |-> odometer, daily |-> daily], conn[c].row)
  IN /\ conn[c].step = "inserted"
     /\ conn' = [conn EXCEPT ![c] = Transaction("done", conn[c].kind, conn[c].row, result)]
     /\ odometer' = result.odometer /\ daily' = result.daily
     /\ UNCHANGED <<now, service, lock, ids, locations, heartbeats, device, backfill, reader,
                    used, since>>

(* process_location_distance in the transaction of the row.  The advisory  *)
(* lock and the odometer's row are not waited for here: of those that      *)
(* write the odometer, the others need the devices row first, and the      *)
(* backfill runs while the service is down; a fuel calibration, which      *)
(* holds the lock while it reads the odometer (FuelCalibration), is a      *)
(* delay.                                                                  *)
Measure(c) ==
  /\ conn[c].step = "inserted"
  /\ LET result == Processed([odometer |-> odometer, daily |-> daily], conn[c].row)
     IN conn' = [conn EXCEPT ![c] = Transaction("done", conn[c].kind, conn[c].row, result)]
  /\ UNCHANGED <<now, service, lock, ids, tables, backfill, reader, used, since>>

(* update_device_latest_location, update_device_latest_heartbeat, commit.  *)
Commit(c) ==
  LET t == conn[c]
  IN /\ t.step = "done"
     /\ conn' = [conn EXCEPT ![c] = Idle]
     /\ lock' = IF lock = c THEN NULL ELSE lock
     /\ CASE t.kind = "login" -> UNCHANGED tables
          [] t.kind = "heartbeat" ->
               /\ heartbeats' = heartbeats \cup {[id |-> t.row.id, at |-> t.row.at]}
               /\ device' = [device EXCEPT !.heartbeat = t.row.id]
               /\ UNCHANGED <<locations, odometer, daily>>
          [] t.kind = "location" ->
               /\ locations' = locations \cup {t.row}
               /\ device' = [device EXCEPT !.location = t.row.id]
               /\ odometer' = t.result.odometer /\ daily' = t.result.daily
               /\ UNCHANGED heartbeats
     /\ UNCHANGED <<now, service, ids, backfill, reader, used, since>>

(* A statement fails: the transaction is rolled back, the error is logged, *)
(* the message is gone.                                                    *)
Fail(c) ==
  /\ conn[c] # Idle
  /\ conn' = [conn EXCEPT ![c] = Idle]
  /\ lock' = IF lock = c THEN NULL ELSE lock
  /\ UNCHANGED <<now, service, ids, tables, backfill, reader, used, since>>

-----------------------------------------------------------------------------
(* systemctl stop and restart, with the backfill in between if it is run   *)
(* (docs/deployment.README.md); a crash of the server is a stop.           *)

Stop ==
  /\ service = "up" /\ used.stops < MaxStops
  /\ service' = "down"
  /\ used' = [used EXCEPT !.stops = @ + 1]
  /\ conn' = [c \in Connections |-> Idle] /\ lock' = NULL
  /\ UNCHANGED <<now, ids, tables, backfill, reader, since>>

Restart ==
  /\ service = "down" /\ backfill = NULL
  /\ service' = "up"
  /\ UNCHANGED <<now, conn, lock, ids, tables, backfill, reader, used, since>>

(* backfill_device_distance: the rows are read, then one transaction       *)
(* deletes the odometer and the days and processes the rows in order.      *)
BackfillReads ==
  /\ service = "down" /\ backfill = NULL
  /\ backfill' = locations
  /\ UNCHANGED <<now, service, conn, lock, ids, tables, reader, used, since>>

Deleted == [odometer |-> NULL, daily |-> NoDays]

Rebuilt(rows) ==
  LET after[n \in Nat] ==
        IF n = 0 THEN Deleted
        ELSE IF \E r \in rows : r.id = n THEN Processed(after[n - 1], RowWithId(rows, n))
        ELSE after[n - 1]
  IN after[Top(rows)]

BackfillCommits ==
  /\ backfill # NULL
  /\ odometer' = Rebuilt(backfill).odometer /\ daily' = Rebuilt(backfill).daily
  /\ since' = 0 /\ backfill' = NULL
  /\ UNCHANGED <<now, service, conn, lock, ids, locations, heartbeats, device, reader, used>>

BackfillDies ==
  /\ backfill # NULL
  /\ backfill' = NULL
  /\ UNCHANGED <<now, service, conn, lock, ids, tables, reader, used, since>>

-----------------------------------------------------------------------------
(* get_device_service                                                      *)

Total == IF odometer = NULL THEN 0 ELSE odometer.total

SumUpto(days, d) == LET sum[e \in Days] == days[e] + (IF e = 0 THEN 0 ELSE sum[e - 1])
                    IN sum[d]

(* service_recommendation of the n-th milestone: kilometres in thousands.  *)
Recommendation(n) == CHOOSE k \in {20, 10, 5, 3, 1} :
  n % k = 0 /\ \A j \in {20, 10, 5, 3, 1} : n % j = 0 => j <= k

(* build_service_milestones: when each was reached, newest MaxListed.      *)
Milestones(days, completed) ==
  LET reached(n) == {d \in Days : SumUpto(days, d) >= n * Milestone}
      all == {n \in 1..completed : reached(n) # {}}
  IN {[number |-> n, recommendation |-> Recommendation(n),
       achieved_on |-> CHOOSE d \in reached(n) : \A e \in reached(n) : d <= e] :
         n \in {m \in all : Cardinality({k \in all : k > m}) < MaxListed}}

Listed(total, days) == [step |-> "answered", total |-> total, days |-> NoDays,
                        milestones |-> Milestones(days, total \div Milestone)]

(* Mutant: the statements in the other order.                              *)
ReadDaysFirst ==
  /\ \/ /\ reader.step = "idle"
        /\ reader' = [reader EXCEPT !.step = "half", !.days = daily]
     \/ /\ reader.step = "half"
        /\ reader' = Listed(Total, reader.days)
  /\ UNCHANGED <<now, service, conn, lock, ids, tables, backfill, used, since>>

ReadService ==
  /\ \/ /\ reader.step = "idle"
        /\ reader' = [reader EXCEPT !.step = "half", !.total = Total]
     \/ /\ reader.step = "half"
        /\ reader' = Listed(reader.total, daily)
  /\ UNCHANGED <<now, service, conn, lock, ids, tables, backfill, used, since>>

-----------------------------------------------------------------------------
NoFix == [pos |-> NULL, moving |-> FALSE]

Next ==
  \/ Tick
  \/ \E c \in Connections :
       \/ Begin(c, "login", NoFix) \/ Begin(c, "heartbeat", NoFix)
       \/ \E fix \in Fixes : Begin(c, "location", fix)
       \/ LockDevice(c) \/ InsertRow(c) \/ Measure(c) \/ Commit(c) \/ Fail(c)
  \/ Stop \/ Restart \/ BackfillReads \/ BackfillCommits \/ BackfillDies
  \/ ReadService

Spec == Init /\ [][Next]_vars

-----------------------------------------------------------------------------
Rows == [id : Nat, at : Nat, pos : Int \cup {NULL}, moving : BOOLEAN]

TypeOK ==
  /\ now \in 0..Horizon /\ service \in {"up", "down"}
  /\ lock \in Connections \cup {NULL}
  /\ \A c \in Connections :
       /\ conn[c].step \in {"idle", "begun", "locked", "inserted", "done"}
       /\ conn[c].row \in Rows \cup {NULL}
  /\ locations \subseteq Rows
  /\ odometer # NULL => odometer.total \in Nat /\ odometer.row \in locations
  /\ daily \in [Days -> Nat]

(* A device's rows are committed in the order of their ids, whichever of   *)
(* its connections they came through: the devices row is locked before an  *)
(* id is taken.  The bot's cursor over heartbeats builds on it.            *)
RowsCommitInOrder ==
  [][/\ \A r \in locations' \ locations, s \in locations : s.id < r.id
     /\ \A r \in heartbeats' \ heartbeats, s \in heartbeats : s.id < r.id]_vars

(* The latest_* columns of devices copy the rows with the highest ids.     *)
SnapshotIsNewestRow ==
  device.location = Newest(locations) /\ device.heartbeat = Newest(heartbeats)

Neighbours(rows) ==
  {p \in rows \X rows : /\ p[1].id < p[2].id
                        /\ \A r \in rows : r.id <= p[1].id \/ p[2].id <= r.id}

(* The metres of the pairs that end at a row up to the one with this id.   *)
MetresInto(pairs, n) ==
  IF \E p \in pairs : p[2].id = n
  THEN LET p == CHOOSE p \in pairs : p[2].id = n IN Segment(p[1], p[2])
  ELSE 0

Metres(pairs, top) ==
  LET upto[n \in Nat] == IF n = 0 THEN 0 ELSE upto[n - 1] + MetresInto(pairs, n)
  IN upto[top]

OfDay(pairs, d) == {p \in pairs : WibDate(p[2].at) = d}

(* The odometer and each day hold the segments between neighbouring rows,  *)
(* on the day of the later row: every one, once, through failures, stops   *)
(* and rebuilds (process_location_distance, backfill_device_distance); and *)
(* devices shows the newest row of each kind.                              *)
OdometerIsHistory ==
  LET counted == {r \in locations : r.id > since}
      pairs == Neighbours(counted)
  IN /\ SnapshotIsNewestRow
     /\ IF counted = {} THEN odometer = NULL /\ daily = NoDays
        ELSE /\ odometer.row.id = Newest(counted)
             /\ odometer.total = Metres(pairs, Newest(counted))
             /\ \A d \in Days : daily[d] = Metres(OfDay(pairs, d), Newest(counted))

(* An answer lists every milestone its total has completed, although the   *)
(* days were read after the odometer (get_device_service).                 *)
ServiceAnswerComplete ==
  reader.step = "answered" =>
    LET completed == reader.total \div Milestone
    IN {m.number : m \in reader.milestones} =
         {n \in 1..completed : n > completed - MaxListed}
=============================================================================
