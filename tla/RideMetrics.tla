------------------------------ MODULE RideMetrics ------------------------------
(***************************************************************************)
(* What the bot and the API compute from a device's locations and its      *)
(* ride sessions: distance and riding time of a window, the day, month and *)
(* custom reports of the bot (src/bot.rs), the daily summary, the session  *)
(* list and the fuel window of the API (src/api.rs).  A point is [at, pos, *)
(* speed], points come in the order of (server_received_at, id); a session *)
(* is [start, end], end = NULL while it is open.  Positions are points on  *)
(* a line.                                                                 *)
(***************************************************************************)
EXTENDS Integers, Sequences, FiniteSets, SequencesExt

CONSTANTS
  NULL,
  MovingSpeed,   \* RIDING_TIME_MOVING_SPEED_KPH
  MaxPointGap,   \* RIDING_TIME_MAX_POINT_GAP_SECS, in ticks
  Spike,         \* SPIKE_KM
  DayLength,     \* ticks of a day
  WibOffset,     \* WIB_OFFSET_SECONDS, in ticks
  MonthLength    \* days of a month

ASSUME MetricsAssumption ==
  /\ {MovingSpeed, MaxPointGap, Spike, DayLength, MonthLength} \subseteq Nat \ {0}
  /\ WibOffset \in 0..(DayLength - 1)
  /\ NULL \notin Int

Earlier(a, b) == IF a <= b THEN a ELSE b
Later(a, b)   == IF a >= b THEN a ELSE b
Apart(a, b)   == IF a <= b THEN b - a ELSE a - b
OrAt(end, at) == IF end = NULL THEN at ELSE end

-----------------------------------------------------------------------------
(* filter_gps_spike_outliers: the neighbours are those of the unfiltered   *)
(* route.                                                                  *)
IsSpike(points, i) ==
  LET before == Apart(points[i - 1].pos, points[i].pos)
      after  == Apart(points[i].pos, points[i + 1].pos)
  IN /\ before > Spike /\ after > Spike
     /\ 2 * Apart(points[i - 1].pos, points[i + 1].pos) < Later(before, after)

Cleaned(points) ==
  LET kept(i) == i \in {1, Len(points)} \/ ~IsSpike(points, i)
  IN [k \in 1..Cardinality({i \in 1..Len(points) : kept(i)}) |->
        points[CHOOSE i \in 1..Len(points) :
                 kept(i) /\ Cardinality({j \in 1..i : kept(j)}) = k]]

(* total_route_distance_km                                                 *)
RouteDistance(points) ==
  LET route == Cleaned(points)
  IN SumFunction([i \in 1..(Len(route) - 1) |-> Apart(route[i].pos, route[i + 1].pos)])

(* total_riding_seconds                                                    *)
RidingSeconds(points) ==
  LET gap(i) == points[i + 1].at - points[i].at
      riding(i) == /\ points[i].speed >= MovingSpeed /\ points[i + 1].speed >= MovingSpeed
                   /\ gap(i) \in 1..MaxPointGap
  IN SumFunction([i \in {k \in 1..(Len(points) - 1) : riding(k)} |-> gap(i)])

(* The points of a window, both ends included.                             *)
Between(points, from, to) ==
  LET first[n \in 0..Len(points)] ==
        IF n = 0 THEN <<>>
        ELSE IF from <= points[n].at /\ points[n].at <= to
             THEN Append(first[n - 1], points[n]) ELSE first[n - 1]
  IN first[Len(points)]

(* fetch_ride_summary                                                      *)
RideSummary(points, from, to) ==
  LET route == Between(points, from, to)
  IN [distance |-> RouteDistance(route), riding |-> RidingSeconds(route)]

-----------------------------------------------------------------------------
(* Days and ranges, WIB.                                                   *)
WibDate(at)   == (at + WibOffset) \div DayLength
DayStart(day) == day * DayLength - WibOffset
MonthStart(at) == DayStart(WibDate(at) - (WibDate(at) % MonthLength))

(* resolve_preset_analytics_range, parse_custom_analytics_range            *)
Today(now)     == [from |-> DayStart(WibDate(now)), to |-> now]
Yesterday(now) == [from |-> DayStart(WibDate(now) - 1), to |-> DayStart(WibDate(now))]
Month(now)     == [from |-> MonthStart(now), to |-> now]
Custom(first, last) == [from |-> DayStart(first), to |-> DayStart(last + 1)]

(* The sessions of a window: fetch_analytics_sessions, get_device_sessions *)
(* and both summaries of the API.                                          *)
Overlapping(sessions, from, to, reference) ==
  {i \in 1..Len(sessions) : sessions[i].start < to /\ OrAt(sessions[i].end, reference) > from}

(* Summaries of the sessions, clipped to a window.                         *)
Clipped(points, sessions, ids, from, to) ==
  LET start(i) == Later(sessions[i].start, from)
      end(i)   == Earlier(OrAt(sessions[i].end, to), to)
      ridden   == {i \in ids : start(i) < end(i)}
      summary(i) == RideSummary(points, start(i), end(i))
  IN [distance |-> SumFunction([i \in ridden |-> summary(i).distance]),
      riding   |-> SumFunction([i \in ridden |-> summary(i).riding])]

(* send_analytics_report, fetch_analytics_ride_summary.  The bot asks for  *)
(* the sessions of its chat, the API for those of the IMEI: they are the   *)
(* same ones, as a bound user's chat_id is not written again.              *)
BotReport(points, sessions, range, reference) ==
  Clipped(points, sessions, Overlapping(sessions, range.from, range.to, reference),
          range.from, Earlier(reference, range.to))

(* get_device_daily_summary                                                *)
ApiDaily(points, sessions, day, now) ==
  Clipped(points, sessions, Overlapping(sessions, DayStart(day), DayStart(day + 1), now),
          DayStart(day), Earlier(DayStart(day + 1), now))

(* Mutant: a session counts from where it began.                           *)
FuelWindowUnclipped(points, sessions, from, to) ==
  LET ids == Overlapping(sessions, from, to, to)
      on(i) == Later(0, Earlier(OrAt(sessions[i].end, to), to) - sessions[i].start)
  IN [riding |-> RideSummary(points, from, to).riding,
      engineOn |-> SumFunction([i \in ids |-> on(i)]), trips |-> Cardinality(ids)]

(* fetch_fuel_window_metrics: riding time of the whole window, sessions of *)
(* their part in it, summed up as they come.                               *)
FuelWindow(points, sessions, from, to) ==
  LET ids == Overlapping(sessions, from, to, to)
      on(i) == Later(0, Earlier(OrAt(sessions[i].end, to), to) - Later(sessions[i].start, from))
  IN [riding |-> RideSummary(points, from, to).riding,
      engineOn |-> SumFunction([i \in ids |-> on(i)]), trips |-> Cardinality(ids)]
=============================================================================
