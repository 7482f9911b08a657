------------------------ MODULE FuelCalibrationProofs ------------------------
(***************************************************************************)
(* Theorems about FuelCalibration, for any number of requests, any pool    *)
(* and any ride: the pool and the advisory lock are kept, and no stretch   *)
(* of the odometer is in two calibrations, for which what                  *)
(* fetch_fuel_window_metrics computes is a value of which nothing is       *)
(* assumed.  Then what it and the reports compute: riding time is a sum    *)
(* over the locations of a window, in the order of their times, and a      *)
(* window cut in two has no more of it than the whole; and of sessions     *)
(* whose times may be anything but of which one is open at a time, the     *)
(* parts in a window are no more than the window and what they share.      *)
(***************************************************************************)
EXTENDS FuelCalibration, InductionLemmas, SequenceTheorems

Operations == {"none", "start", "restart", "get", "complete"}
Steps      == {"free", "begin", "lock", "read", "riding", "trips", "write", "load", "done"}

(* From pg_advisory_xact_lock to the commit; past the checks.              *)
Locked  == {"read", "riding", "trips", "write"}
Checked == {"riding", "trips", "write"}

(* What a request and a row may hold, the metrics being in M.              *)
Calls(M) == [op : Operations, step : Steps, holds : BOOLEAN, at : Nat, id : Nat,
             distance : Nat, riding : M, engineOn : M, trips : M, code : Nat]
Rows(M)  == [status : {"active", "completed", "invalidated"}, started : Nat, from : Nat,
             completed : Nat \cup {NULL}, to : Nat, metres : Nat,
             riding : M, engineOn : M, trips : M]

Typed(M) == req \in [Requests -> Calls(M)] /\ calibrations \in Seq(Rows(M))

WorldInv ==
  /\ budget \in [moves : SUBSET (Nat \X Nat \X Nat), points : Nat, sessions : Nat,
                 requests : Nat, failures : Nat, horizon : Nat]
  /\ now \in 0..budget.horizon /\ total \in Nat
  /\ points \in Seq([at : Nat, pos : Nat, speed : Nat])
  /\ lock \in Requests \cup {NULL}

(* A request holds a connection from begin to commit and the lock from     *)
(* taking it to commit; past the checks they still hold: the odometer read *)
(* is the odometer, the calibration to complete is active, and to start    *)
(* one none is.                                                            *)
CallInv(r) ==
  LET me == req[r]
  IN /\ me.holds <=> me.step = "lock" \/ me.step \in Locked
     /\ lock = r <=> me.step \in Locked
     /\ me.at <= now
     /\ me.step \in {"begin", "lock"} \cup Locked =>
          /\ me.op \in {"start", "restart", "complete"}
          /\ me.op = "complete" =>
               me.id \in 1..Len(calibrations) /\ calibrations[me.id].started <= me.at
     /\ me.step \in {"riding", "trips"} => me.op = "complete"
     /\ me.step \in Checked =>
          /\ me.distance = total
          /\ me.op = "start" => Active = {}
          /\ me.op = "complete" => me.id \in Active

CallsInv == \A r \in Requests : CallInv(r)

(* A row is in order, and lies on the stretch the odometer has turned.     *)
RowInv(i) ==
  LET c == calibrations[i]
  IN /\ IsRow(c)
     /\ c.started <= now
     /\ c.from <= total

RowsInv == \A i \in 1..Len(calibrations) : RowInv(i)

PoolInv == Busy <= PoolSize

IInv == /\ \E M : Typed(M)
        /\ WorldInv /\ CallsInv /\ RowsInv /\ PoolInv /\ StretchesAreDisjoint

-----------------------------------------------------------------------------
(* More metrics, the same requests and rows.                               *)
LEMMA TypedGrows ==
  ASSUME NEW M, NEW x, Typed(M)
  PROVE  Typed(M \cup {x})
  <1> DEFINE N == M \cup {x}
  <1>1. Calls(M) \subseteq Calls(N) /\ Rows(M) \subseteq Rows(N)
    BY DEF Calls, Rows
  <1>2. calibrations \in Seq(Rows(N))
    BY <1>1, SeqMonotonic DEF Typed
  <1>3. req \in [Requests -> Calls(N)]
    BY <1>1 DEF Typed
  <1> QED
    BY <1>2, <1>3 DEF Typed

LEMMA InitIInv == Init => IInv
  <1> SUFFICES ASSUME Init PROVE IInv
    OBVIOUS
  <1> USE CalibrationAssumption DEF CalibrationAssumption, Init
  <1>1. Free \in Calls({0})
    BY DEF Free, Outside, Calls, Operations, Steps
  <1>2. Typed({0})
    BY <1>1 DEF Typed
  <1>3. WorldInv
    BY DEF WorldInv
  <1>4. CallsInv
    BY DEF CallsInv, CallInv, Free, Outside, Locked, Checked
  <1>5. Len(calibrations) = 0 /\ 1..0 = {}
    OBVIOUS
  <1>6. RowsInv /\ StretchesAreDisjoint
    BY <1>5 DEF RowsInv, StretchesAreDisjoint, Finished
  <1>7. {r \in Requests : req[r].holds} = {}
    BY DEF Free, Outside
  <1>8. PoolInv
    <2>1. Busy = 0
      BY <1>7, FS_EmptySet DEF Busy
    <2> QED
      BY <2>1 DEF PoolInv
  <1> QED
    BY <1>2, <1>3, <1>4, <1>6, <1>8 DEF IInv

-----------------------------------------------------------------------------
(* A step of one request does not concern another that is not past its     *)
(* checks, as long as rows are only added and keep the time they began.    *)
LEMMA Bystander ==
  ASSUME NEW M, Typed(M), NEW q \in Requests, CallInv(q),
         now \in Nat, now' \in Nat, now <= now',
         req'[q] = req[q],
         lock' = q <=> lock = q,
         Len(calibrations) <= Len(calibrations'), Len(calibrations') \in Nat,
         \A i \in 1..Len(calibrations) : calibrations'[i].started = calibrations[i].started,
         req[q].step \in Checked => total' = total /\ calibrations' = calibrations
  PROVE  CallInv(q)'
  <1>1. req[q].at \in Nat /\ Len(calibrations) \in Nat /\ req[q].id \in Nat
    BY DEF Typed, Calls
  <1>2. calibrations' = calibrations => Active' = Active
    BY DEF Active
  <1> QED
    BY <1>1, <1>2 DEF CallInv, Locked, Checked

(* A step of request r that leaves what the others may rely on.            *)
LEMMA OthersStay ==
  ASSUME NEW M, Typed(M), WorldInv, CallsInv, NEW r \in Requests,
         \A q \in Requests \ {r} : req'[q] = req[q],
         now' = now, lock' = lock \/ (lock = r /\ lock' = NULL) \/ (lock = NULL /\ lock' = r),
         Len(calibrations) <= Len(calibrations'), Len(calibrations') \in Nat,
         \A i \in 1..Len(calibrations) : calibrations'[i].started = calibrations[i].started,
         lock # r => total' = total /\ calibrations' = calibrations,
         CallInv(r)'
  PROVE  CallsInv'
  <1> SUFFICES ASSUME NEW q \in Requests PROVE CallInv(q)'
    BY DEF CallsInv
  <1>1. CASE q = r
    BY <1>1
  <1>2. CASE q # r
    <2>1. lock' = q <=> lock = q
      BY <1>2, CalibrationAssumption DEF CalibrationAssumption
    <2>2. req[q].step \in Checked => lock # r
      BY <1>2 DEF CallsInv, CallInv, Locked, Checked
    <2> QED
      BY <1>2, <2>1, <2>2, Bystander DEF CallsInv, WorldInv
  <1> QED
    BY <1>1, <1>2

(* No more connections are held than before.                               *)
LEMMA PoolShrinks ==
  ASSUME PoolInv, \A q \in Requests : req'[q].holds => req[q].holds
  PROVE  PoolInv'
  <1> DEFINE H == {q \in Requests : req[q].holds}
             G == {q \in Requests : req'[q].holds}
  <1>1. IsFiniteSet(H) /\ G \subseteq H
    BY FS_Subset, CalibrationAssumption DEF CalibrationAssumption
  <1>2. Cardinality(G) <= Cardinality(H) /\ Cardinality(G) \in Nat /\ Cardinality(H) \in Nat
    BY <1>1, FS_Subset, FS_CardinalityType
  <1> QED
    BY <1>2, CalibrationAssumption DEF PoolInv, Busy, CalibrationAssumption

(* One more, from a pool that had one.                                     *)
LEMMA PoolLendsOne ==
  ASSUME PoolHasOne, NEW r \in Requests,
         \A q \in Requests \ {r} : req'[q].holds => req[q].holds
  PROVE  PoolInv'
  <1> DEFINE H == {q \in Requests : req[q].holds}
             G == {q \in Requests : req'[q].holds}
             K == H \cup {r}
  <1>1. IsFiniteSet(H) /\ G \subseteq K
    BY FS_Subset, CalibrationAssumption DEF CalibrationAssumption
  <1>2. /\ IsFiniteSet(K) /\ Cardinality(H) \in Nat
        /\ Cardinality(K) <= Cardinality(H) + 1
    BY <1>1, FS_AddElement, FS_CardinalityType
  <1>3. Cardinality(G) <= Cardinality(K) /\ Cardinality(G) \in Nat /\ Cardinality(K) \in Nat
    BY <1>1, <1>2, FS_Subset, FS_CardinalityType
  <1> QED
    BY <1>2, <1>3, CalibrationAssumption DEF PoolInv, PoolHasOne, Busy, CalibrationAssumption

(* The rows stay and the odometer does not run backwards.                  *)
LEMMA RowsStay ==
  ASSUME NEW M, Typed(M), WorldInv, RowsInv, StretchesAreDisjoint,
         calibrations' = calibrations, now' \in Nat, now <= now', total' \in Nat, total <= total'
  PROVE  RowsInv' /\ StretchesAreDisjoint'
  <1>1. \A i \in 1..Len(calibrations) : calibrations[i] \in Rows(M)
    BY DEF Typed
  <1>2. ASSUME NEW i \in 1..Len(calibrations) PROVE RowInv(i)'
    <2>1. RowInv(i) /\ calibrations[i] \in Rows(M)
      BY <1>1 DEF RowsInv
    <2> DEFINE c == calibrations[i]
    <2>2. /\ c.started \in Nat /\ c.from \in Nat
          /\ now \in Nat /\ total \in Nat
      BY <2>1 DEF Rows, WorldInv
    <2>3. c.status = "completed" => c.completed \in c.started..now'
      BY <2>1, <2>2 DEF RowInv, IsRow
    <2>4. IsRow(c)'
      BY <2>1, <2>3 DEF RowInv, IsRow
    <2> QED
      BY <2>1, <2>2, <2>4 DEF RowInv
  <1>3. Finished' = Finished
    BY DEF Finished
  <1>4. \A i \in Finished : calibrations[i].to \in Nat
    BY <1>1 DEF Finished, Rows
  <1>5. StretchesAreDisjoint'
    BY <1>3, <1>4 DEF StretchesAreDisjoint, WorldInv
  <1> QED
    BY <1>2, <1>5 DEF RowsInv

(* A budget is spent, the horizon stays.                                   *)
LEMMA Spent ==
  ASSUME WorldInv,
         \/ budget' = budget
         \/ budget' = [budget EXCEPT !.points = @ - 1] /\ budget.points > 0
         \/ budget' = [budget EXCEPT !.sessions = @ - 1] /\ budget.sessions > 0
         \/ budget' = [budget EXCEPT !.requests = @ - 1] /\ budget.requests > 0
         \/ budget' = [budget EXCEPT !.failures = @ - 1] /\ budget.failures > 0
  PROVE  /\ budget' \in [moves : SUBSET (Nat \X Nat \X Nat), points : Nat, sessions : Nat,
                          requests : Nat, failures : Nat, horizon : Nat]
         /\ budget'.horizon = budget.horizon
  <1>1. \A n \in Nat : n > 0 => n - 1 \in Nat
    OBVIOUS
  <1> QED
    BY <1>1 DEF WorldInv

-----------------------------------------------------------------------------
(* The clock, the device and its rides: no location is committed while a   *)
(* request holds the lock, so what a request read of the odometer stands.  *)
LEMMA TickKeeps == IInv /\ Tick => IInv'
  <1> SUFFICES ASSUME IInv, Tick PROVE IInv'
    OBVIOUS
  <1> PICK M : Typed(M)
    BY DEF IInv
  <1>1. /\ now' = now + 1 /\ now < budget.horizon /\ total' = total /\ points' = points
        /\ calibrations' = calibrations /\ lock' = lock /\ req' = req /\ budget' = budget
    BY DEF Tick, world
  <1>2. now \in Nat /\ now' \in 0..budget.horizon /\ now' \in Nat /\ now <= now' /\ total \in Nat
    BY <1>1 DEF IInv, WorldInv
  <1>3. Typed(M)'
    BY <1>1 DEF Typed
  <1>4. WorldInv'
    BY <1>1, <1>2 DEF IInv, WorldInv
  <1>5. Len(calibrations) \in Nat
    BY DEF Typed
  <1>6. CallsInv'
    BY <1>1, <1>2, <1>5, Bystander DEF IInv, CallsInv
  <1>7. RowsInv' /\ StretchesAreDisjoint'
    BY <1>1, <1>2, RowsStay DEF IInv
  <1>8. PoolInv'
    BY <1>1, PoolShrinks DEF IInv
  <1> QED
    BY <1>3, <1>4, <1>6, <1>7, <1>8 DEF IInv

Placed(seq, place, elt) ==
  /\ Len(InsertAt(seq, place, elt)) = Len(seq) + 1
  /\ \A i \in 1..(Len(seq) + 1) :
       InsertAt(seq, place, elt)[i] =
         IF i < place THEN seq[i] ELSE IF i = place THEN elt ELSE seq[i - 1]

LEMMA Inserted ==
  ASSUME NEW T, NEW seq \in Seq(T), NEW place \in 1..(Len(seq) + 1), NEW elt \in T
  PROVE  InsertAt(seq, place, elt) \in Seq(T) /\ Placed(seq, place, elt)
  <1> DEFINE left == SubSeq(seq, 1, place - 1)
             right == SubSeq(seq, place, Len(seq))
             n == Len(seq)
  <1>1. n \in Nat /\ place \in Nat
    BY LenProperties
  <1>2. \A i \in 1..n : seq[i] \in T
    BY ElementOfSeq
  <1>3. /\ left \in Seq(T) /\ Len(left) = place - 1
        /\ \A i \in 1..(place - 1) : left[i] = seq[i]
    <2>1. \A i \in 1..(place - 1) : seq[i] \in T
      BY <1>1, <1>2
    <2>2. 1 \in Int /\ place - 1 \in Int
      BY <1>1
    <2>3. /\ left \in Seq(T) /\ Len(left) = IF 1 <= place - 1 THEN (place - 1) - 1 + 1 ELSE 0
          /\ \A i \in 1..((place - 1) - 1 + 1) : left[i] = seq[1 + i - 1]
      BY <2>1, <2>2, SubSeqProperties
    <2> HIDE DEF left
    <2>4. QED
      BY <1>1, <2>3
  <1>4. /\ right \in Seq(T) /\ Len(right) = n + 1 - place
        /\ \A i \in 1..(n + 1 - place) : right[i] = seq[place + i - 1]
    <2>1. \A i \in place..n : seq[i] \in T
      BY <1>1, <1>2
    <2>2. place \in Int /\ n \in Int
      BY <1>1
    <2>3. /\ right \in Seq(T) /\ Len(right) = IF place <= n THEN n - place + 1 ELSE 0
          /\ \A i \in 1..(n - place + 1) : right[i] = seq[place + i - 1]
      BY <2>1, <2>2, SubSeqProperties
    <2> HIDE DEF right
    <2>4. QED
      BY <1>1, <2>3
  <1> HIDE DEF left, right
  <1> DEFINE front == left \o <<elt>>
  <1>5. /\ front \in Seq(T) /\ Len(front) = place
        /\ \A i \in 1..place : front[i] = IF i < place THEN seq[i] ELSE elt
    BY <1>1, <1>3
  <1> HIDE DEF front
  <1>6. /\ front \o right \in Seq(T) /\ Len(front \o right) = n + 1
        /\ \A i \in 1..(n + 1) : (front \o right)[i] = IF i <= place THEN front[i] ELSE right[i - place]
    <2>1. /\ front \o right \in Seq(T) /\ Len(front \o right) = Len(front) + Len(right)
          /\ \A i \in 1..(Len(front) + Len(right)) :
               (front \o right)[i] = IF i <= Len(front) THEN front[i] ELSE right[i - Len(front)]
      BY <1>4, <1>5, ConcatProperties
    <2>2. Len(front) = place /\ Len(front) + Len(right) = n + 1
      BY <1>1, <1>4, <1>5
    <2> HIDE DEF n
    <2>3. QED
      BY <2>1, <2>2
  <1>7. ASSUME NEW i \in 1..(n + 1)
        PROVE  (front \o right)[i] = IF i < place THEN seq[i] ELSE IF i = place THEN elt ELSE seq[i - 1]
    <2>1. CASE i <= place
      BY <1>1, <1>5, <1>6, <2>1
    <2>2. CASE i > place
      <3>1. PICK j \in 1..(n + 1 - place) : j = i - place
        BY <1>1, <2>2
      <3>2. right[j] = seq[place + j - 1] /\ place + j - 1 = i - 1
        BY <1>1, <1>4, <3>1
      <3>3. (front \o right)[i] = right[j] /\ ~(i < place) /\ i # place
        <4>1. ~(i <= place) /\ ~(i < place) /\ i # place
          BY <1>1, <2>2
        <4> HIDE DEF n
        <4>2. (front \o right)[i] = right[i - place]
          BY <1>6, <4>1
        <4>3. QED
          BY <3>1, <4>1, <4>2
      <3>4. QED
        BY <3>2, <3>3
    <2>3. i <= place \/ i > place
      BY <1>1
    <2>4. QED
      BY <2>1, <2>2, <2>3
  <1>8. InsertAt(seq, place, elt) = front \o right
    BY DEF InsertAt, front, left, right
  <1>9. QED
    BY <1>6, <1>7, <1>8 DEF Placed

LEMMA MoveKeeps ==
  ASSUME IInv, NEW at \in 0..now, NEW place \in 1..(Len(points) + 1), NEW move \in budget.moves,
         Move(at, place, move[1], move[2], move[3])
  PROVE  IInv'
  <1> PICK M : Typed(M)
    BY DEF IInv
  <1>1. /\ now' = now /\ lock = NULL /\ lock' = lock /\ req' = req
        /\ calibrations' = calibrations
        /\ budget' = [budget EXCEPT !.points = @ - 1] /\ budget.points > 0
    BY DEF Move
  <1>2. move[1] \in Nat /\ move[2] \in Nat /\ move[3] \in Nat /\ now \in Nat /\ total \in Nat
    BY DEF IInv, WorldInv
  <1>3. at \in Nat
    BY <1>2
  <1>4. total' \in Nat /\ total <= total'
    BY <1>2 DEF Move
  <1>5. points' \in Seq([at : Nat, pos : Nat, speed : Nat])
    <2>1. [at |-> at, pos |-> move[1], speed |-> move[2]] \in [at : Nat, pos : Nat, speed : Nat]
      BY <1>2, <1>3
    <2>2. points \in Seq([at : Nat, pos : Nat, speed : Nat])
      BY DEF IInv, WorldInv
    <2> QED
      BY <2>1, <2>2, Inserted DEF Move
  <1>6. WorldInv'
    BY <1>1, <1>4, <1>5, Spent DEF IInv, WorldInv
  <1>7. Typed(M)'
    BY <1>1 DEF Typed
  <1>8. CallsInv'
    <2>1. \A q \in Requests : req[q].step \notin Checked
      BY <1>1, CalibrationAssumption DEF IInv, CallsInv, CallInv, Locked, Checked,
           CalibrationAssumption
    <2>2. Len(calibrations) \in Nat
      BY DEF Typed
    <2> QED
      BY <1>1, <1>2, <2>1, <2>2, Bystander DEF IInv, CallsInv
  <1>9. RowsInv' /\ StretchesAreDisjoint'
    BY <1>1, <1>2, <1>4, RowsStay DEF IInv
  <1>10. PoolInv'
    BY <1>1, PoolShrinks DEF IInv
  <1> QED
    BY <1>6, <1>7, <1>8, <1>9, <1>10 DEF IInv

(* The bot opens and closes sessions without the API noticing.             *)
LEMMA SessionKeeps ==
  ASSUME IInv, NEW at, OpenSession(at) \/ CloseSession(at)
  PROVE  IInv'
  <1> PICK M : Typed(M)
    BY DEF IInv
  <1>1. /\ now' = now /\ total' = total /\ points' = points /\ lock' = lock /\ req' = req
        /\ calibrations' = calibrations
        /\ budget' = budget \/ (budget' = [budget EXCEPT !.sessions = @ - 1] /\ budget.sessions > 0)
    BY DEF OpenSession, CloseSession
  <1>2. WorldInv'
    BY <1>1, Spent DEF IInv, WorldInv
  <1>3. Typed(M)' /\ PoolInv'
    BY <1>1, PoolShrinks DEF IInv, Typed
  <1>4. /\ now \in Nat /\ now <= now' /\ total \in Nat /\ total <= total'
        /\ Len(calibrations) \in Nat
    BY <1>1 DEF IInv, WorldInv, Typed
  <1>5. CallsInv' /\ RowsInv' /\ StretchesAreDisjoint'
    <2>1. CallsInv'
      BY <1>1, <1>4, Bystander DEF IInv, CallsInv
    <2>2. RowsInv' /\ StretchesAreDisjoint'
      BY <1>1, <1>4, RowsStay DEF IInv
    <2> QED
      BY <2>1, <2>2
  <1> QED
    BY <1>2, <1>3, <1>4, <1>5 DEF IInv

-----------------------------------------------------------------------------
(* The step of a request that writes nothing: it leaves the request in a   *)
(* state c that is in order, and takes a connection only from a pool that  *)
(* has one.                                                                *)
LEMMA CallStepKeeps ==
  ASSUME IInv, NEW M, Typed(M), NEW x, NEW r \in Requests, NEW c \in Calls(M \cup {x}),
         req' = [req EXCEPT ![r] = c],
         now' = now, points' = points, total' = total, calibrations' = calibrations,
         lock' = lock \/ (lock = r /\ lock' = NULL) \/ (lock = NULL /\ lock' = r),
         \/ budget' = budget
         \/ budget' = [budget EXCEPT !.requests = @ - 1] /\ budget.requests > 0
         \/ budget' = [budget EXCEPT !.failures = @ - 1] /\ budget.failures > 0,
         CallInv(r)',
         c.holds => req[r].holds \/ PoolHasOne
  PROVE  IInv'
  <1> DEFINE N == M \cup {x}
  <1>1. Typed(N)
    BY TypedGrows
  <1>2. Typed(N)'
    BY <1>1 DEF Typed
  <1>3. WorldInv'
    BY Spent DEF IInv, WorldInv
  <1>4. req'[r] = c /\ \A q \in Requests \ {r} : req'[q] = req[q]
    BY DEF Typed
  <1>5. Len(calibrations) \in Nat
    BY DEF Typed
  <1>6. CallsInv'
    BY <1>4, <1>5, OthersStay DEF IInv
  <1>7. RowsInv' /\ StretchesAreDisjoint'
    BY RowsStay DEF IInv, WorldInv
  <1>8. PoolInv'
    BY <1>4, PoolShrinks, PoolLendsOne DEF IInv
  <1> QED
    BY <1>2, <1>3, <1>6, <1>7, <1>8 DEF IInv

(* A request outside of a transaction.                                     *)
LEMMA OutsideType ==
  ASSUME NEW M, NEW op \in Operations, NEW step \in Steps,
         NEW at \in Nat, NEW id \in Nat, NEW code \in Nat
  PROVE  Outside(op, step, at, id, code) \in Calls(M \cup {0})
  BY DEF Outside, Calls

(* A request that answers, with whatever code.                             *)
LEMMA AnsweredKeeps ==
  ASSUME IInv, NEW r \in Requests, NEW code \in Nat,
         req' = Answered(r, code), lock' = Released(r),
         now' = now, points' = points, total' = total, calibrations' = calibrations,
         \/ budget' = budget
         \/ budget' = [budget EXCEPT !.failures = @ - 1] /\ budget.failures > 0
  PROVE  IInv'
  <1> PICK M : Typed(M)
    BY DEF IInv
  <1> DEFINE c == Outside(req[r].op, "done", 0, req[r].id, code)
  <1>1. req[r].op \in Operations /\ req[r].id \in Nat
    BY DEF Typed, Calls
  <1>2. c \in Calls(M \cup {0})
    BY <1>1, OutsideType DEF Steps
  <1>3. c.step = "done" /\ c.at = 0 /\ c.holds = FALSE
    BY DEF Outside
  <1>4. req' = [req EXCEPT ![r] = c]
    BY DEF Answered
  <1>5. req'[r] = c
    BY <1>4 DEF Typed
  <1> HIDE DEF c
  <1>6. lock' # r /\ (lock' = lock \/ (lock = r /\ lock' = NULL))
    BY CalibrationAssumption DEF Released, CalibrationAssumption
  <1>7. now' \in Nat
    BY DEF IInv, WorldInv
  <1>8. CallInv(r)'
    BY <1>3, <1>5, <1>6, <1>7 DEF CallInv, Locked, Checked
  <1> QED
    BY <1>2, <1>3, <1>4, <1>6, <1>8, CallStepKeeps

(* A request arrives; what it wants to complete exists by then.            *)
LEMMA ArriveKeeps ==
  ASSUME IInv, NEW r \in Requests, NEW op \in {"start", "restart", "get", "complete"},
         NEW id \in Nat, op = "complete" => id \in 1..Len(calibrations),
         Arrive(r, op, id)
  PROVE  IInv'
  <1> PICK M : Typed(M)
    BY DEF IInv
  <1> DEFINE c == Outside(op, IF op = "get" THEN "load" ELSE "begin", now, id, 0)
  <1>1. now \in Nat /\ now' = now
    BY DEF IInv, WorldInv, Arrive
  <1>2. c \in Calls(M \cup {0})
    BY <1>1, OutsideType DEF Operations, Steps
  <1>3. /\ c.step \in {"load", "begin"} /\ c.at = now /\ c.id = id /\ c.op = op
        /\ c.holds = FALSE /\ (c.step = "begin" => op # "get")
    BY DEF Outside
  <1>4. req' = [req EXCEPT ![r] = c]
    BY DEF Arrive
  <1>5. req'[r] = c
    BY <1>4 DEF Typed
  <1> HIDE DEF c
  <1>6. lock' = lock /\ lock # r /\ calibrations' = calibrations
    BY DEF Arrive, IInv, CallsInv, CallInv, Locked
  <1>7. op = "complete" => calibrations[id].started <= now
    BY DEF IInv, RowsInv, RowInv
  <1>8. CallInv(r)'
    BY <1>1, <1>3, <1>5, <1>6, <1>7 DEF CallInv, Locked, Checked
  <1>9. points' = points /\ total' = total
        /\ budget' = [budget EXCEPT !.requests = @ - 1] /\ budget.requests > 0
    BY DEF Arrive, world
  <1> QED
    BY <1>1, <1>2, <1>3, <1>4, <1>6, <1>8, <1>9, CallStepKeeps

(* pool.begin: one of the connections left.                                *)
LEMMA AcquireKeeps ==
  ASSUME IInv, NEW r \in Requests, Acquire(r)
  PROVE  IInv'
  <1> PICK M : Typed(M)
    BY DEF IInv
  <1> DEFINE c == [req[r] EXCEPT !.step = "lock", !.holds = TRUE]
  <1>1. c \in Calls(M \cup {0})
    BY DEF Typed, Calls, Steps
  <1>2. req' = [req EXCEPT ![r] = c]
    BY DEF Acquire, Typed
  <1>3. /\ c.step = "lock" /\ c.holds /\ c.at = req[r].at /\ c.op = req[r].op
        /\ c.id = req[r].id
    BY DEF Typed, Calls
  <1>4. req'[r] = c
    BY <1>2 DEF Typed
  <1> HIDE DEF c
  <1>5. /\ now' = now /\ points' = points /\ total' = total /\ calibrations' = calibrations
        /\ lock' = lock /\ budget' = budget /\ req[r].step = "begin" /\ PoolHasOne
    BY DEF Acquire, world
  <1>6. CallInv(r)
    BY DEF IInv, CallsInv
  <1>7. CallInv(r)'
    BY <1>3, <1>4, <1>5, <1>6 DEF CallInv, Locked, Checked
  <1> QED
    BY <1>1, <1>2, <1>5, <1>7, CallStepKeeps

(* pg_advisory_xact_lock: nobody else is past it.                          *)
LEMMA TakeLockKeeps ==
  ASSUME IInv, NEW r \in Requests, TakeLock(r)
  PROVE  IInv'
  <1> PICK M : Typed(M)
    BY DEF IInv
  <1> DEFINE c == [req[r] EXCEPT !.step = "read"]
  <1>1. c \in Calls(M \cup {0})
    BY DEF Typed, Calls, Steps
  <1>2. req' = [req EXCEPT ![r] = c]
    BY DEF TakeLock, Typed
  <1>3. /\ c.step = "read" /\ c.holds = req[r].holds /\ c.at = req[r].at /\ c.op = req[r].op
        /\ c.id = req[r].id
    BY DEF Typed, Calls
  <1>4. req'[r] = c
    BY <1>2 DEF Typed
  <1> HIDE DEF c
  <1>5. /\ now' = now /\ points' = points /\ total' = total /\ calibrations' = calibrations
        /\ lock = NULL /\ lock' = r /\ budget' = budget /\ req[r].step = "lock"
    BY DEF TakeLock, LockFree, world
  <1>6. CallInv(r)
    BY DEF IInv, CallsInv
  <1>7. CallInv(r)'
    BY <1>3, <1>4, <1>5, <1>6 DEF CallInv, Locked, Checked
  <1> QED
    BY <1>1, <1>2, <1>3, <1>5, <1>7, CallStepKeeps

(* The checks and the odometer, read under the lock.                       *)
LEMMA ReadKeeps ==
  ASSUME IInv, NEW r \in Requests, Read(r)
  PROVE  IInv'
  <1> PICK M : Typed(M)
    BY DEF IInv
  <1>1. /\ now' = now /\ points' = points /\ total' = total /\ calibrations' = calibrations
        /\ budget' = budget /\ req[r].step = "read" /\ total \in Nat
    BY DEF Read, world, IInv, WorldInv
  <1>2. CASE Refusal(r) # 0
    <2>1. req' = Answered(r, Refusal(r)) /\ lock' = Released(r)
      BY <1>2 DEF Read
    <2>2. Refusal(r) \in Nat
      BY DEF Refusal
    <2> QED
      BY <1>1, <2>1, <2>2, AnsweredKeeps
  <1>3. CASE Refusal(r) = 0
    <2> DEFINE step == IF req[r].op = "complete" THEN "riding" ELSE "write"
               c == [req[r] EXCEPT !.distance = total, !.step = step]
    <2>1. step \in {"riding", "write"} /\ (step = "riding" => req[r].op = "complete")
      OBVIOUS
    <2>2. /\ req' = [req EXCEPT ![r].distance = total, ![r].step = step]
          /\ lock' = lock
      BY <1>3 DEF Read
    <2> HIDE DEF step
    <2>3. c \in Calls(M \cup {0})
      BY <1>1, <2>1 DEF Typed, Calls, Steps
    <2>4. req' = [req EXCEPT ![r] = c]
      BY <2>2 DEF Typed
    <2>5. /\ c.step = step /\ c.holds = req[r].holds /\ c.at = req[r].at /\ c.op = req[r].op
          /\ c.id = req[r].id /\ c.distance = total
      BY DEF Typed, Calls
    <2>6. req'[r] = c
      BY <2>4 DEF Typed
    <2> HIDE DEF c
    <2>7. CallInv(r)
      BY DEF IInv, CallsInv
    <2>8. /\ req[r].op = "start" => Active = {}
          /\ req[r].op = "complete" => req[r].id \in Active
      BY <1>3 DEF Refusal
    <2>9. Active' = Active
      BY <1>1 DEF Active
    <2>10. CallInv(r)'
      BY <1>1, <2>1, <2>2, <2>5, <2>6, <2>7, <2>8, <2>9 DEF CallInv, Locked, Checked
    <2> QED
      BY <1>1, <2>2, <2>3, <2>4, <2>5, <2>10, CallStepKeeps
  <1> QED
    BY <1>2, <1>3

(* The first query of fetch_fuel_window_metrics, whatever it returns.      *)
LEMMA ReadRidingKeeps ==
  ASSUME IInv, NEW r \in Requests, ReadRiding(r)
  PROVE  IInv'
  <1> PICK M : Typed(M)
    BY DEF IInv
  <1> DEFINE x == FuelWindow(points, sessions, calibrations[req[r].id].started, req[r].at).riding
             c == [req[r] EXCEPT !.step = "trips", !.riding = x]
  <1>1. /\ now' = now /\ points' = points /\ total' = total /\ calibrations' = calibrations
        /\ lock' = lock /\ budget' = budget /\ req[r].step = "riding"
        /\ req' = [req EXCEPT ![r].step = "trips", ![r].riding = x]
    BY DEF ReadRiding, world
  <1> HIDE DEF x
  <1>2. c \in Calls(M \cup {x})
    BY DEF Typed, Calls, Steps
  <1>3. req' = [req EXCEPT ![r] = c]
    BY <1>1 DEF Typed
  <1>4. /\ c.step = "trips" /\ c.holds = req[r].holds /\ c.at = req[r].at /\ c.op = req[r].op
        /\ c.id = req[r].id /\ c.distance = req[r].distance
    BY DEF Typed, Calls
  <1>5. req'[r] = c
    BY <1>3 DEF Typed
  <1> HIDE DEF c
  <1>6. CallInv(r) /\ Active' = Active
    BY <1>1 DEF IInv, CallsInv, Active
  <1>7. CallInv(r)'
    BY <1>1, <1>4, <1>5, <1>6 DEF CallInv, Locked, Checked
  <1> QED
    BY <1>1, <1>2, <1>3, <1>4, <1>7, CallStepKeeps

(* Its second query.                                                       *)
LEMMA ReadTripsKeeps ==
  ASSUME IInv, NEW r \in Requests, ReadTrips(r)
  PROVE  IInv'
  <1> PICK M : Typed(M)
    BY DEF IInv
  <1> DEFINE window == FuelWindow(points, sessions, calibrations[req[r].id].started, req[r].at)
             x == window.engineOn
             y == window.trips
             N == M \cup {x}
             c == [req[r] EXCEPT !.step = "write", !.engineOn = x, !.trips = y]
  <1>1. /\ now' = now /\ points' = points /\ total' = total /\ calibrations' = calibrations
        /\ lock' = lock /\ budget' = budget /\ req[r].step = "trips"
        /\ req' = [req EXCEPT ![r].step = "write", ![r].engineOn = x, ![r].trips = y]
    BY DEF ReadTrips, world
  <1> HIDE DEF window, x, y
  <1>2. Typed(N) /\ x \in N \cup {y} /\ y \in N \cup {y}
    BY TypedGrows
  <1> HIDE DEF N
  <1>3. c \in Calls(N \cup {y})
    BY <1>2 DEF Typed, Calls, Steps
  <1>4. req' = [req EXCEPT ![r] = c]
    BY <1>1, <1>2 DEF Typed
  <1>5. /\ c.step = "write" /\ c.holds = req[r].holds /\ c.at = req[r].at /\ c.op = req[r].op
        /\ c.id = req[r].id /\ c.distance = req[r].distance
    BY <1>2 DEF Typed, Calls
  <1>6. req'[r] = c
    BY <1>4, <1>2 DEF Typed
  <1> HIDE DEF c
  <1>7. CallInv(r) /\ Active' = Active
    BY <1>1 DEF IInv, CallsInv, Active
  <1>8. CallInv(r)'
    BY <1>1, <1>5, <1>6, <1>7 DEF CallInv, Locked, Checked
  <1> QED
    BY <1>1, <1>2, <1>3, <1>4, <1>5, <1>8, CallStepKeeps

(* The answer of a request that does not write, and every way in which one *)
(* ends early.                                                             *)
LEMMA EndKeeps ==
  ASSUME IInv, NEW r \in Requests, Load(r) \/ TimesOut(r) \/ Fail(r)
  PROVE  IInv'
  <1>1. CASE Load(r)
    <2>1. lock # r
      BY <1>1 DEF Load, IInv, CallsInv, CallInv, Locked
    <2> QED
      BY <1>1, <2>1, AnsweredKeeps DEF Load, Released, world
  <1>2. CASE TimesOut(r)
    BY <1>2, AnsweredKeeps DEF TimesOut, world
  <1>3. CASE Fail(r)
    BY <1>3, AnsweredKeeps DEF Fail, world
  <1> QED
    BY <1>1, <1>2, <1>3

-----------------------------------------------------------------------------
(* The writing step.  A row added begins where the odometer is; a row      *)
(* completed ends there.                                                   *)

(* What the request writes, with the caller's checks known to hold.        *)
LEMMA WriteFacts ==
  ASSUME IInv, NEW M, Typed(M), NEW r \in Requests, Write(r)
  PROVE  LET me == req[r]
         IN /\ me \in Calls(M) /\ CallInv(r) /\ lock = r /\ lock' = NULL
            /\ me.step = "write" /\ me.distance = total /\ me.op \in {"start", "restart", "complete"}
            /\ req' = [req EXCEPT ![r] = Outside(me.op, "load", 0, me.id, 0)]
            /\ me.op = "start" => Active = {} /\ calibrations' = Append(calibrations, Begun(r))
            /\ me.op = "restart" => calibrations' = Append(Invalidated(calibrations), Begun(r))
            /\ now' = now /\ points' = points /\ total' = total /\ budget' = budget
  <1> DEFINE me == req[r]
  <1>1. me \in Calls(M) /\ CallInv(r)
    BY DEF Typed, IInv, CallsInv
  <1>2. me.step = "write"
    BY DEF Write
  <1>3. /\ lock = r /\ me.distance = total /\ me.op \in {"start", "restart", "complete"}
        /\ me.op = "start" => Active = {}
    BY <1>1, <1>2 DEF CallInv, Locked, Checked
  <1>4. lock' = NULL
    BY <1>3 DEF Write, Released
  <1>5. ~(me.op = "start" /\ Active # {})
    BY <1>3
  <1>6. req' = [req EXCEPT ![r] = Outside(me.op, "load", 0, me.id, 0)]
    BY <1>5 DEF Write
  <1>7. me.op = "start" => calibrations' = Append(calibrations, Begun(r))
    BY <1>5 DEF Write
  <1>8. me.op = "restart" => calibrations' = Append(Invalidated(calibrations), Begun(r))
    BY <1>5 DEF Write
  <1>9. now' = now /\ points' = points /\ total' = total /\ budget' = budget
    BY DEF Write, world
  <1> QED
    BY <1>1, <1>2, <1>3, <1>4, <1>6, <1>7, <1>8, <1>9

(* Once the rows are in order, so is the rest.                             *)
LEMMA WriteKeepsRest ==
  ASSUME IInv, NEW M, Typed(M), NEW r \in Requests, Write(r), NEW N, M \subseteq N, 0 \in N,
         calibrations' \in Seq(Rows(N)),
         Len(calibrations) <= Len(calibrations'),
         \A i \in 1..Len(calibrations) : calibrations'[i].started = calibrations[i].started,
         RowsInv', StretchesAreDisjoint'
  PROVE  IInv'
  <1> DEFINE me == req[r]
             c == Outside(me.op, "load", 0, me.id, 0)
  <1>1. /\ me \in Calls(M) /\ lock = r /\ lock' = NULL
        /\ req' = [req EXCEPT ![r] = c]
        /\ now' = now /\ points' = points /\ total' = total /\ budget' = budget
    BY WriteFacts
  <1>2. Calls(M) \subseteq Calls(N) /\ N \cup {0} = N
    BY DEF Calls
  <1>3. c \in Calls(N)
    <2>1. me.op \in Operations /\ me.id \in Nat
      BY <1>1 DEF Calls
    <2>2. c \in Calls(N \cup {0})
      BY <2>1, OutsideType DEF Steps
    <2> QED
      BY <1>2, <2>2
  <1>4. req' \in [Requests -> Calls(N)]
    BY <1>1, <1>2, <1>3 DEF Typed
  <1>5. Typed(N)'
    BY <1>4 DEF Typed
  <1>6. c.step = "load" /\ c.holds = FALSE /\ c.at = 0
    BY DEF Outside
  <1>7. req'[r] = c /\ \A q \in Requests \ {r} : req'[q] = req[q]
    BY <1>1 DEF Typed
  <1> HIDE DEF c
  <1>8. now' \in Nat /\ NULL # r
    BY <1>1, CalibrationAssumption DEF IInv, WorldInv, CalibrationAssumption
  <1>9. CallInv(r)'
    BY <1>1, <1>6, <1>7, <1>8 DEF CallInv, Locked, Checked
  <1>10. CallsInv'
    <2>1. Len(calibrations') \in Nat
      OBVIOUS
    <2>2. WorldInv /\ CallsInv
      BY DEF IInv
    <2> QED
      BY <1>1, <1>7, <1>9, <2>1, <2>2, OthersStay
  <1>11. WorldInv'
    BY <1>1 DEF IInv, WorldInv
  <1>12. PoolInv'
    BY <1>6, <1>7, PoolShrinks DEF IInv
  <1> QED
    BY <1>5, <1>10, <1>11, <1>12 DEF IInv

(* A row that begins where the odometer is, behind rows of which none is   *)
(* active: what start and restart leave.                                   *)
LEMMA RowAdded ==
  ASSUME NEW M, NEW rows \in Seq(Rows(M)), NEW row \in Rows(M),
         calibrations' = Append(rows, row),
         now' = now, total' = total, now \in Nat, total \in Nat,
         Len(rows) = Len(calibrations),
         \A i \in 1..Len(rows) :
           /\ calibrations[i].status = "completed" => rows[i] = calibrations[i]
           /\ calibrations[i].status # "completed" => rows[i].status = "invalidated"
           /\ rows[i].status # "active"
           /\ rows[i].started = calibrations[i].started,
         \A i \in 1..Len(rows) : IsRow(rows[i]) /\ rows[i].started <= now /\ rows[i].from <= total,
         IsRow(row), row.status = "active", row.from = total, row.started <= now,
         StretchesAreDisjoint
  PROVE  RowsInv' /\ StretchesAreDisjoint'
  <1> DEFINE n == Len(rows)
  <1>1. /\ n \in Nat /\ Len(calibrations') = n + 1
        /\ \A i \in 1..n : calibrations'[i] = rows[i]
        /\ calibrations'[n + 1] = row
    OBVIOUS
  <1>2. \A i \in 1..(n + 1) : i \in 1..n \/ i = n + 1
    BY <1>1
  <1>3. \A c : IsRow(c) => IsRow(c)'
    BY DEF IsRow
  <1>4. RowsInv'
    <2> SUFFICES ASSUME NEW i \in 1..(n + 1) PROVE RowInv(i)'
      BY <1>1 DEF RowsInv
    <2>1. CASE i \in 1..n
      BY <1>1, <1>3, <2>1 DEF RowInv, IsRow
    <2>2. CASE i = n + 1
      BY <1>1, <1>3, <2>2 DEF RowInv, IsRow, Rows
    <2> QED
      BY <1>2, <2>1, <2>2
  <1>5. \A i \in 1..n : rows[i] \in Rows(M)
    OBVIOUS
  <1>6. \A i \in 1..n : rows[i].status = "completed" =>
          /\ calibrations[i].status = "completed" /\ rows[i] = calibrations[i]
          /\ rows[i].to = rows[i].from + rows[i].metres /\ rows[i].to <= total
    BY DEF StretchesAreDisjoint, Finished
  <1>7. ASSUME NEW i \in Finished'
        PROVE  /\ calibrations'[i].to = calibrations'[i].from + calibrations'[i].metres
               /\ calibrations'[i].to <= total'
    <2>1. i \in 1..n
      BY <1>1, <1>2 DEF Finished
    <2> QED
      BY <1>1, <1>6, <2>1 DEF Finished
  <1>8. ASSUME NEW i \in 1..(n + 1), NEW j \in 1..(n + 1), i < j,
               calibrations'[i].status # "invalidated", calibrations'[j].status # "invalidated"
        PROVE  /\ calibrations'[i].status = "completed"
               /\ calibrations'[i].from + calibrations'[i].metres <= calibrations'[j].from
    <2>1. i \in 1..n /\ calibrations'[i] = rows[i] /\ rows[i].status = "completed"
          /\ rows[i] = calibrations[i]
      BY <1>1, <1>2, <1>5, <1>8
    <2>2. CASE j = n + 1
      BY <1>1, <1>6, <2>1, <2>2
    <2>3. CASE j \in 1..n
      <3>1. rows[j].status = "completed" /\ rows[j] = calibrations[j]
        BY <1>1, <1>8, <2>3
      <3> QED
        BY <1>1, <1>8, <2>1, <2>3, <3>1 DEF StretchesAreDisjoint
    <2> QED
      BY <1>2, <2>2, <2>3
  <1> QED
    BY <1>1, <1>4, <1>7, <1>8 DEF StretchesAreDisjoint

(* The row that start and restart insert.                                  *)
LEMMA BegunRow ==
  ASSUME IInv, NEW M, Typed(M), NEW r \in Requests, Write(r)
  PROVE  /\ Begun(r) \in Rows(M \cup {0}) /\ IsRow(Begun(r))
         /\ Begun(r).status = "active" /\ Begun(r).from = total /\ Begun(r).started <= now
         /\ Begun(r).started \in Nat
  <1>1. /\ req[r] \in Calls(M) /\ req[r].distance = total /\ CallInv(r)
    BY WriteFacts
  <1>2. req[r].at \in Nat /\ req[r].at <= now /\ total \in Nat
    BY <1>1 DEF Calls, CallInv, IInv, WorldInv
  <1>3. Begun(r) \in Rows(M \cup {0})
    BY <1>1, <1>2 DEF Begun, Rows
  <1>4. IsRow(Begun(r))
    BY <1>1, <1>2 DEF Begun, IsRow
  <1> QED
    BY <1>1, <1>2, <1>3, <1>4 DEF Begun

(* UPDATE ... SET status = 'invalidated' WHERE status = 'active'.          *)
LEMMA InvalidatedRows ==
  ASSUME IInv, NEW M, Typed(M)
  PROVE  LET rows == Invalidated(calibrations)
         IN /\ rows \in Seq(Rows(M)) /\ Len(rows) = Len(calibrations)
            /\ \A i \in 1..Len(calibrations) :
                 /\ calibrations[i].status # "active" => rows[i] = calibrations[i]
                 /\ calibrations[i].status = "active" => rows[i].status = "invalidated"
                 /\ rows[i].started = calibrations[i].started
                 /\ rows[i].from = calibrations[i].from
                 /\ IsRow(rows[i])
  <1> DEFINE rows == Invalidated(calibrations)
             c(i) == calibrations[i]
             d(i) == [c(i) EXCEPT !.status = "invalidated"]
             n == Len(calibrations)
  <1>1. n \in Nat /\ \A i \in 1..n : c(i) \in Rows(M)
    BY DEF Typed
  <1>2. \A i \in 1..n : /\ d(i) \in Rows(M) /\ d(i).status = "invalidated"
                        /\ d(i).started = c(i).started /\ d(i).from = c(i).from
                        /\ d(i).to = c(i).to /\ d(i).metres = c(i).metres
                        /\ d(i).completed = c(i).completed
    BY <1>1 DEF Rows
  <1>3. rows = [i \in 1..n |-> IF c(i).status = "active" THEN d(i) ELSE c(i)]
    BY DEF Invalidated
  <1>4. \A i \in 1..n : IsRow(c(i))
    BY DEF IInv, RowsInv, RowInv
  <1> HIDE DEF c, d, rows, n
  <1>5. \A i \in 1..n : c(i).status = "active" => IsRow(d(i))
    BY <1>2, <1>4 DEF IsRow
  <1>6. rows \in [1..n -> Rows(M)]
    BY <1>1, <1>2, <1>3
  <1>7. rows \in Seq(Rows(M)) /\ Len(rows) = n
    BY <1>1, <1>6
  <1>8. \A i \in 1..n : /\ c(i).status # "active" => rows[i] = c(i)
                        /\ c(i).status = "active" => rows[i] = d(i)
    BY <1>3
  <1>9. \A i \in 1..n : /\ c(i).status # "active" => rows[i] = c(i)
                        /\ c(i).status = "active" => rows[i].status = "invalidated"
                        /\ rows[i].started = c(i).started
                        /\ rows[i].from = c(i).from
                        /\ IsRow(rows[i])
    BY <1>2, <1>4, <1>5, <1>8
  <1> QED
    BY <1>7, <1>9 DEF c, rows, n

LEMMA StartKeeps ==
  ASSUME IInv, NEW r \in Requests, Write(r), req[r].op \in {"start", "restart"}
  PROVE  IInv'
  <1> PICK M : Typed(M)
    BY DEF IInv
  <1> DEFINE N == M \cup {0}
             rows == IF req[r].op = "start" THEN calibrations ELSE Invalidated(calibrations)
             n == Len(calibrations)
  <1>1. /\ calibrations' = Append(rows, Begun(r)) /\ now' = now /\ total' = total
        /\ req[r].op = "start" => Active = {}
    BY WriteFacts
  <1>2. Typed(N) /\ M \subseteq N /\ 0 \in N
    BY TypedGrows
  <1>3. Begun(r) \in Rows(N)
    BY BegunRow
  <1>4. /\ Begun(r).status = "active" /\ Begun(r).from = total
        /\ Begun(r).started <= now /\ IsRow(Begun(r))
    BY BegunRow
  <1> HIDE DEF N
  <1>5. \A i \in 1..n : /\ IsRow(calibrations[i]) /\ calibrations[i].started <= now
                        /\ calibrations[i].from <= total
                        /\ calibrations[i].status \in {"active", "completed", "invalidated"}
    BY DEF IInv, RowsInv, RowInv, IsRow
  <1>6. /\ rows \in Seq(Rows(N)) /\ Len(rows) = n /\ n \in Nat
        /\ \A i \in 1..n :
             /\ calibrations[i].status # "active" => rows[i] = calibrations[i]
             /\ calibrations[i].status = "active" => rows[i].status = "invalidated"
             /\ rows[i].started = calibrations[i].started
             /\ rows[i].from = calibrations[i].from
             /\ IsRow(rows[i])
    <2>1. CASE req[r].op = "start"
      <3>1. \A i \in 1..n : calibrations[i].status # "active"
        BY <1>1, <2>1 DEF Active
      <3> QED
        BY <1>2, <1>5, <2>1, <3>1 DEF Typed
    <2>2. CASE req[r].op # "start"
      BY <1>2, <2>2, InvalidatedRows DEF Typed
    <2> QED
      BY <2>1, <2>2
  <1> HIDE DEF rows
  <1>7. now \in Nat /\ total \in Nat /\ StretchesAreDisjoint
    BY DEF IInv, WorldInv
  <1>8. RowsInv' /\ StretchesAreDisjoint'
    BY <1>1, <1>3, <1>4, <1>5, <1>6, <1>7, RowAdded
  <1>9. /\ calibrations' \in Seq(Rows(N)) /\ Len(calibrations') = n + 1
        /\ \A i \in 1..n : calibrations'[i] = rows[i]
    BY <1>1, <1>3, <1>6
  <1> QED
    BY <1>2, <1>6, <1>8, <1>9, WriteKeepsRest

(* The stretch of a completed row: from its beginning to the odometer.     *)
LEMMA CompleteKeeps ==
  ASSUME IInv, NEW r \in Requests, Write(r), req[r].op = "complete"
  PROVE  IInv'
  <1> PICK M : Typed(M)
    BY DEF IInv
  <1> DEFINE me == req[r]
             k == me.id
             row == calibrations[k]
             n == Len(calibrations)
             N == M \cup {0}
             result == [row EXCEPT !.status = "completed", !.completed = me.at,
                            !.to = me.distance,
                            !.metres = Later(0, me.distance - row.from),
                            !.riding = me.riding, !.engineOn = me.engineOn, !.trips = me.trips]
  <1>1. /\ me \in Calls(M) /\ CallInv(r) /\ me.step = "write" /\ me.distance = total
        /\ now' = now /\ total' = total
    BY WriteFacts
  <1>2. /\ k \in 1..n /\ row.status = "active" /\ row.started <= me.at /\ me.at <= now
    BY <1>1 DEF CallInv, Checked, Locked, Active
  <1>3. /\ n \in Nat /\ row \in Rows(M) /\ now \in Nat /\ total \in Nat /\ me.at \in Nat
        /\ row.started \in Nat /\ row.from \in Nat
        /\ me.riding \in M /\ me.engineOn \in M /\ me.trips \in M
    <2>1. n \in Nat /\ row \in Rows(M)
      BY <1>2 DEF Typed
    <2>2. row.started \in Nat /\ row.from \in Nat
      BY <2>1 DEF Rows
    <2>3. now \in Nat /\ total \in Nat
      BY DEF IInv, WorldInv
    <2>4. me.at \in Nat /\ me.riding \in M /\ me.engineOn \in M /\ me.trips \in M
      BY <1>1 DEF Calls
    <2> QED
      BY <2>1, <2>2, <2>3, <2>4
  <1>4. row.from <= total
    BY <1>2 DEF IInv, RowsInv, RowInv
  <1>5. Later(0, me.distance - row.from) = total - row.from /\ total - row.from \in Nat
    BY <1>1, <1>3, <1>4 DEF Later
  <1>6. calibrations' = [calibrations EXCEPT ![k] = result]
    BY DEF Write
  <1>7. /\ result.status = "completed" /\ result.started = row.started /\ result.from = row.from
        /\ result.completed = me.at /\ result.to = total /\ result.metres = total - row.from
        /\ result \in Rows(M)
    BY <1>1, <1>3, <1>5 DEF Rows
  <1> HIDE DEF result
  <1>8. /\ calibrations' \in Seq(Rows(M)) /\ Len(calibrations') = n
        /\ calibrations'[k] = result
        /\ \A i \in 1..n : i # k => calibrations'[i] = calibrations[i]
    BY <1>2, <1>6, <1>7 DEF Typed
  <1>9. \A i \in 1..n : calibrations'[i].started = calibrations[i].started
                        /\ calibrations'[i].from = calibrations[i].from
    BY <1>7, <1>8
  <1>10. RowsInv'
    <2> SUFFICES ASSUME NEW i \in 1..n PROVE RowInv(i)'
      BY <1>8 DEF RowsInv
    <2>1. CASE i = k
      <3>1. /\ calibrations'[i].status = "completed" /\ calibrations'[i].started = row.started
            /\ calibrations'[i].from = row.from /\ calibrations'[i].completed = me.at
            /\ calibrations'[i].to = total /\ calibrations'[i].metres = total - row.from
        BY <1>7, <1>8, <2>1
      <3>2. row.started <= now /\ me.at \in row.started..now
        BY <1>2, <1>3
      <3> QED
        BY <1>1, <1>3, <1>4, <1>5, <3>1, <3>2 DEF RowInv, IsRow
    <2>2. CASE i # k
      <3>1. RowInv(i)
        BY DEF IInv, RowsInv
      <3> QED
        BY <1>1, <1>8, <2>2, <3>1 DEF RowInv, IsRow
    <2> QED
      BY <2>1, <2>2
  <1>11. StretchesAreDisjoint'
    <2>1. StretchesAreDisjoint /\ k \in 1..n
      BY <1>2 DEF IInv
    <2>2. ASSUME NEW i \in Finished'
          PROVE  /\ calibrations'[i].to = calibrations'[i].from + calibrations'[i].metres
                 /\ calibrations'[i].to <= total'
      <3>1. i \in 1..n
        BY <1>8 DEF Finished
      <3>2. CASE i = k
        BY <1>1, <1>3, <1>7, <1>8, <3>2
      <3>3. CASE i # k
        BY <1>1, <1>8, <2>1, <3>1, <3>3 DEF StretchesAreDisjoint, Finished
      <3> QED
        BY <3>2, <3>3
    <2>3. ASSUME NEW i \in 1..n, NEW j \in 1..n, i < j,
                 calibrations'[i].status # "invalidated", calibrations'[j].status # "invalidated"
          PROVE  /\ calibrations'[i].status = "completed"
                 /\ calibrations'[i].from + calibrations'[i].metres <= calibrations'[j].from
      <3>1. calibrations[i].status # "invalidated" /\ calibrations[j].status # "invalidated"
        BY <1>2, <1>8, <2>3
      <3>2. calibrations[i].status = "completed" 
            /\ calibrations[i].from + calibrations[i].metres <= calibrations[j].from
        BY <2>1, <2>3, <3>1 DEF StretchesAreDisjoint
      <3>3. i # k
        BY <1>2, <3>2
      <3> QED
        BY <1>8, <1>9, <3>2, <3>3
    <2> QED
      BY <1>8, <2>2, <2>3 DEF StretchesAreDisjoint
  <1>12. /\ M \subseteq N /\ 0 \in N /\ calibrations' \in Seq(Rows(N))
    <2>1. Rows(M) \subseteq Rows(N)
      BY DEF Rows
    <2> QED
      BY <1>8, <2>1, SeqMonotonic
  <1> HIDE DEF N
  <1> QED
    BY <1>8, <1>9, <1>10, <1>11, <1>12, WriteKeepsRest

-----------------------------------------------------------------------------
LEMMA NextKeepsIInv == IInv /\ [Next]_vars => IInv'
  <1> SUFFICES ASSUME IInv, [Next]_vars PROVE IInv'
    OBVIOUS
  <1>1. CASE Tick
    BY <1>1, TickKeeps
  <1>2. ASSUME NEW at, OpenSession(at) \/ CloseSession(at) PROVE IInv'
    BY <1>2, SessionKeeps
  <1>3. ASSUME NEW at \in 0..now, NEW place \in 1..(Len(points) + 1), NEW move \in budget.moves,
               Move(at, place, move[1], move[2], move[3])
        PROVE  IInv'
    BY <1>3, MoveKeeps
  <1>4. ASSUME NEW r \in Requests, Arrive(r, "start", 0) \/ Arrive(r, "restart", 0) \/ Arrive(r, "get", 0)
        PROVE  IInv'
    <2>1. 0 \in Nat /\ \A op \in {"start", "restart", "get"} : op # "complete"
      OBVIOUS
    <2>2. CASE Arrive(r, "start", 0)
      BY <2>1, <2>2, ArriveKeeps
    <2>3. CASE Arrive(r, "restart", 0)
      BY <2>1, <2>3, ArriveKeeps
    <2>4. CASE Arrive(r, "get", 0)
      BY <2>1, <2>4, ArriveKeeps
    <2> QED
      BY <1>4, <2>2, <2>3, <2>4
  <1>5. ASSUME NEW r \in Requests, NEW id \in 1..Len(calibrations), Arrive(r, "complete", id)
        PROVE  IInv'
    <2>1. Len(calibrations) \in Nat
      BY DEF IInv, Typed
    <2>2. id \in Nat
      BY <2>1
    <2> QED
      BY <1>5, <2>2, ArriveKeeps
  <1>6. ASSUME NEW r \in Requests, RequestStep(r) \/ Fail(r)
        PROVE  IInv'
    <2>1. CASE Acquire(r) \/ TakeLock(r)
      BY <2>1, AcquireKeeps, TakeLockKeeps
    <2>2. CASE Read(r) \/ ReadRiding(r) \/ ReadTrips(r)
      BY <2>2, ReadKeeps, ReadRidingKeeps, ReadTripsKeeps
    <2>3. CASE Write(r)
      <3>1. req[r].op \in {"start", "restart", "complete"}
        BY <2>3, WriteFacts DEF IInv
      <3> QED
        BY <2>3, <3>1, StartKeeps, CompleteKeeps
    <2>4. CASE Load(r) \/ TimesOut(r) \/ Fail(r)
      BY <2>4, EndKeeps
    <2> QED
      BY <1>6, <2>1, <2>2, <2>3, <2>4 DEF RequestStep
  <1>7. CASE UNCHANGED vars
    <2> PICK M : Typed(M)
      BY DEF IInv
    <2>1. /\ now' = now /\ total' = total /\ points' = points /\ calibrations' = calibrations
          /\ lock' = lock /\ req' = req /\ budget' = budget
      BY <1>7 DEF vars, world
    <2>2. /\ now \in Nat /\ now <= now' /\ total \in Nat /\ total <= total'
          /\ Len(calibrations) \in Nat
      BY <2>1 DEF IInv, WorldInv, Typed
    <2>3. Typed(M)' /\ WorldInv'
      BY <2>1 DEF IInv, Typed, WorldInv
    <2>4. CallsInv'
      BY <2>1, <2>2, Bystander DEF IInv, CallsInv
    <2>5. RowsInv' /\ StretchesAreDisjoint'
      BY <2>1, <2>2, RowsStay DEF IInv
    <2>6. PoolInv'
      BY <2>1, PoolShrinks DEF IInv
    <2> QED
      BY <2>3, <2>4, <2>5, <2>6 DEF IInv
  <1> QED
    BY <1>1, <1>2, <1>3, <1>4, <1>5, <1>6, <1>7 DEF Next

THEOREM SpecIInv == Spec => []IInv
  BY InitIInv, NextKeepsIInv, PTL DEF Spec

(* The pool of database_max_connections is never overdrawn; a request that *)
(* works under the advisory lock of the device does so on a connection of  *)
(* its own; and the rows of fuel_calibrations are in order: completed when *)
(* they say so, and not before they began.                                 *)
THEOREM SpecTypeOK == Spec => []TypeOK
  <1>1. IInv => TypeOK
    <2> SUFFICES ASSUME IInv PROVE TypeOK
      OBVIOUS
    <2>1. now \in 0..budget.horizon /\ total \in Nat /\ lock \in Requests \cup {NULL}
      BY DEF IInv, WorldInv
    <2>2. \A i \in 1..Len(calibrations) : IsRow(calibrations[i])
      BY DEF IInv, RowsInv, RowInv
    <2>3. \A r \in Requests : (lock = r \/ req[r].step \in {"lock", "read", "riding", "trips", "write"})
                                => req[r].holds
      BY DEF IInv, CallsInv, CallInv, Locked
    <2> QED
      BY <2>1, <2>2, <2>3 DEF TypeOK, IInv, PoolInv
  <1> QED
    BY <1>1, SpecIInv, PTL

(* No stretch of the odometer is in two calibrations and no two are        *)
(* active: start_, restart_ and complete_fuel_calibration read it under    *)
(* the advisory lock that record_location's transaction takes to turn it,  *)
(* and commit what they read before they give the lock back.               *)
THEOREM SpecStretchesAreDisjoint == Spec => []StretchesAreDisjoint
  <1>1. IInv => StretchesAreDisjoint
    BY DEF IInv
  <1> QED
    BY <1>1, SpecIInv, PTL

-----------------------------------------------------------------------------
Located == [at : Nat, pos : Nat, speed : Nat]

(* The riding time between two locations that follow each other.           *)
Gap(p, q) ==
  IF p.speed >= MovingSpeed /\ q.speed >= MovingSpeed /\ q.at - p.at \in 1..MaxPointGap
  THEN q.at - p.at ELSE 0

Gaps(route) == [i \in Nat |-> IF i \in 1..(Len(route) - 1) THEN Gap(route[i], route[i + 1]) ELSE 0]

LEMMA GapType ==
  ASSUME NEW p \in Located, NEW q \in Located
  PROVE  /\ Gap(p, q) \in Nat
         /\ p.at <= q.at => Gap(p, q) <= q.at - p.at
         /\ p.at = q.at => Gap(p, q) = 0
  <1>1. p.at \in Nat /\ q.at \in Nat
    BY DEF Located
  <1>2. MaxPointGap \in Nat
    BY MetricsAssumption DEF MetricsAssumption
  <1>3. QED
    BY <1>1, <1>2 DEF Gap

LEMMA GapsType ==
  ASSUME NEW route \in Seq(Located)
  PROVE  Gaps(route) \in [Nat -> Nat]
  <1>1. ASSUME NEW i \in 1..(Len(route) - 1) PROVE Gap(route[i], route[i + 1]) \in Nat
    <2>1. i \in 1..Len(route) /\ i + 1 \in 1..Len(route)
      BY LenProperties
    <2>2. route[i] \in Located /\ route[i + 1] \in Located
      BY <2>1, ElementOfSeq
    <2>3. QED
      BY <2>2, GapType
  <1>2. QED
    BY <1>1 DEF Gaps

LEMMA RidingIsUpto ==
  ASSUME NEW route \in Seq(Located), NEW n \in Nat, Len(route) - 1 <= n
  PROVE  RidingSeconds(route) = Upto(Gaps(route), n)
  <1> DEFINE gap(i) == route[i + 1].at - route[i].at
             riding(i) == /\ route[i].speed >= MovingSpeed /\ route[i + 1].speed >= MovingSpeed
                          /\ gap(i) \in 1..MaxPointGap
             T == {i \in 1..(Len(route) - 1) : riding(i)}
             f == [i \in T |-> gap(i)]
  <1>1. RidingSeconds(route) = SumFunction(f)
    BY DEF RidingSeconds
  <1>2. Len(route) \in Nat /\ MaxPointGap \in Nat
    BY LenProperties, MetricsAssumption DEF MetricsAssumption
  <1>3. T \in SUBSET (1..n)
    BY <1>2
  <1>4. f \in [T -> Nat]
    BY <1>2
  <1>5. Padded(f, T) = Gaps(route)
    <2>1. \A i \in 1..(Len(route) - 1) : Gap(route[i], route[i + 1]) = IF riding(i) THEN gap(i) ELSE 0
      BY DEF Gap
    <2>2. \A i \in Nat : (IF i \in T THEN f[i] ELSE 0)
                           = IF i \in 1..(Len(route) - 1) THEN Gap(route[i], route[i + 1]) ELSE 0
      BY <2>1
    <2> HIDE DEF T, f
    <2>3. QED
      BY <2>2 DEF Padded, Gaps
  <1> HIDE DEF T, f
  <1>6. SumFunction(f) = Upto(Padded(f, T), n)
    BY <1>3, <1>4, UptoOf
  <1>7. QED
    BY <1>1, <1>5, <1>6

LEMMA RidingStep ==
  ASSUME NEW route \in Seq(Located), NEW p \in Located
  PROVE  /\ RidingSeconds(<<>>) = 0 /\ RidingSeconds(route) \in Nat
         /\ RidingSeconds(Append(route, p)) =
              RidingSeconds(route) + (IF route = <<>> THEN 0 ELSE Gap(route[Len(route)], p))
  <1> DEFINE longer == Append(route, p)
             n == Len(route)
  <1>1. /\ longer \in Seq(Located) /\ Len(longer) = n + 1 /\ longer[n + 1] = p
        /\ \A i \in 1..n : longer[i] = route[i]
    BY AppendProperties
  <1>2. n \in Nat /\ (n = 0 <=> route = <<>>)
    BY LenProperties, EmptySeq
  <1> HIDE DEF longer
  <1>3. \A r \in Seq(Located) : Gaps(r) \in [Nat -> Nat]
    BY GapsType
  <1>4. RidingSeconds(route) = Upto(Gaps(route), n) /\ RidingSeconds(route) \in Nat
    BY <1>2, <1>3, RidingIsUpto, UptoSteps
  <1>5. <<>> \in Seq(Located) /\ RidingSeconds(<<>>) = 0
    <2>1. PICK e, z : e = <<>> /\ z = 0
      OBVIOUS
    <2>2. e \in Seq(Located) /\ z \in Nat /\ Len(e) - 1 <= z
      BY <2>1
    <2>3. RidingSeconds(e) = Upto(Gaps(e), z) /\ Gaps(e) \in [Nat -> Nat]
      BY <1>3, <2>2, RidingIsUpto
    <2>4. Upto(Gaps(e), 0) = 0
      BY <2>3, UptoSteps
    <2>5. QED
      BY <2>1, <2>2, <2>3, <2>4
  <1>6. CASE n = 0
    <2>1. RidingSeconds(longer) = Upto(Gaps(longer), 0)
      <3>1. PICK z : z = 0
        OBVIOUS
      <3>2. z \in Nat /\ Len(longer) - 1 <= z
        BY <1>1, <1>6, <3>1
      <3>3. RidingSeconds(longer) = Upto(Gaps(longer), z)
        BY <1>1, <3>2, RidingIsUpto
      <3>4. QED
        BY <3>1, <3>3
    <2>2. RidingSeconds(longer) = 0 /\ RidingSeconds(route) = 0
      BY <1>1, <1>2, <1>3, <1>5, <1>6, <2>1, UptoSteps
    <2>3. QED
      BY <1>2, <1>4, <1>5, <1>6, <2>2 DEF longer
  <1>7. CASE n # 0
    <2>1. PICK m \in Nat : n = m + 1
      <3>1. n - 1 \in Nat /\ n = (n - 1) + 1
        BY <1>2, <1>7
      <3>2. QED
        BY <3>1
    <2>2. RidingSeconds(longer) = Upto(Gaps(longer), m + 1) /\ RidingSeconds(route) = Upto(Gaps(route), m)
      <3>1. Len(longer) - 1 <= m + 1 /\ Len(route) - 1 <= m /\ m + 1 \in Nat
        BY <1>1, <2>1
      <3>2. QED
        BY <1>1, <3>1, RidingIsUpto
    <2>3. \A i \in 1..m : Gaps(longer)[i] = Gaps(route)[i]
      <3>1. SUFFICES ASSUME NEW i \in 1..m PROVE Gaps(longer)[i] = Gaps(route)[i]
        OBVIOUS
      <3>2. /\ i \in Nat /\ i \in 1..(Len(longer) - 1) /\ i \in 1..(Len(route) - 1)
            /\ i \in 1..n /\ i + 1 \in 1..n
        BY <1>1, <2>1
      <3>3. longer[i] = route[i] /\ longer[i + 1] = route[i + 1]
        BY <1>1, <3>2
      <3>4. QED
        BY <3>2, <3>3 DEF Gaps
    <2>4. Gaps(longer)[m + 1] = Gap(route[n], p)
      <3>1. m + 1 \in Nat /\ m + 1 \in 1..(Len(longer) - 1) /\ m + 1 \in 1..n /\ (m + 1) + 1 = n + 1
        BY <1>1, <2>1
      <3>2. longer[m + 1] = route[n] /\ longer[(m + 1) + 1] = p
        BY <1>1, <2>1, <3>1
      <3>3. QED
        BY <3>1, <3>2 DEF Gaps
    <2>5. Upto(Gaps(longer), m) = Upto(Gaps(route), m)
      BY <2>3, UptoSame
    <2>6. Upto(Gaps(longer), m + 1) = Upto(Gaps(longer), m) + Gaps(longer)[m + 1]
      BY <1>1, <1>3, UptoSteps
    <2>7. QED
      BY <1>2, <1>4, <1>5, <1>7, <2>2, <2>4, <2>5, <2>6 DEF longer
  <1>8. QED
    BY <1>6, <1>7

-----------------------------------------------------------------------------
(* What the recursion of Between chooses.                                  *)
Firsts(g, track, from, to) ==
  g = [n \in 0..Len(track) |->
         IF n = 0 THEN <<>>
         ELSE IF from <= track[n].at /\ track[n].at <= to
              THEN Append(g[n - 1], track[n]) ELSE g[n - 1]]

LEMMA BetweenIs ==
  ASSUME NEW track, NEW from, NEW to
  PROVE  Between(track, from, to) = (CHOOSE g : Firsts(g, track, from, to))[Len(track)]
  BY DEF Between, Firsts

(* Of the first n locations, those of the window.                          *)
Picks(g, track, from, to) ==
  /\ g \in [0..Len(track) -> Seq(Located)]
  /\ g[0] = <<>>
  /\ \A n \in Nat : n < Len(track) =>
       g[n + 1] = IF from <= track[n + 1].at /\ track[n + 1].at <= to
                  THEN Append(g[n], track[n + 1]) ELSE g[n]

LEMMA FirstsExist ==
  ASSUME NEW track \in Seq(Located), NEW from, NEW to
  PROVE  \E g : Firsts(g, track, from, to)
  <1> DEFINE T == Seq(Located)
             N == Len(track)
             step(n, v) == IF n < N /\ from <= track[n + 1].at /\ track[n + 1].at <= to
                           THEN Append(v, track[n + 1]) ELSE v
             G == [n \in Nat |-> [v \in T |-> step(n, v)]]
  <1>0. N \in Nat
    BY LenProperties
  <1>1. ASSUME NEW n \in Nat, NEW v \in T PROVE step(n, v) \in T
    <2>1. CASE n < N
      <3>1. track[n + 1] \in Located
        BY <1>0, <2>1, ElementOfSeq
      <3>2. QED
        BY <3>1, AppendProperties
    <2>2. CASE ~(n < N)
      BY <2>2
    <2>3. QED
      BY <2>1, <2>2
  <1>2. <<>> \in T
    OBVIOUS
  <1>3. G \in [Nat -> [T -> T]]
    <2> HIDE DEF T, step
    <2>1. QED
      BY <1>1
  <1>4. \A n \in Nat : \A v \in T : G[n][v] = step(n, v)
    OBVIOUS
  <1> HIDE DEF G, T
  <1>5. PICK h : StepsBy(h, T, <<>>, G)
    BY <1>2, <1>3, Recursion, Zenon
  <1>6. h \in [Nat -> T] /\ h[0] = <<>> /\ \A n \in Nat : h[n + 1] = step(n, h[n])
    <2> HIDE DEF step
    <2>1. QED
      BY <1>4, <1>5 DEF StepsBy
  <1> DEFINE g == [n \in 0..N |-> h[n]]
  <1>7. ASSUME NEW n \in 0..N
        PROVE  g[n] = IF n = 0 THEN <<>>
                      ELSE IF from <= track[n].at /\ track[n].at <= to
                           THEN Append(g[n - 1], track[n]) ELSE g[n - 1]
    <2>1. CASE n = 0
      BY <1>0, <1>6, <2>1
    <2>2. CASE n # 0
      <3>1. PICK m \in Nat : n = m + 1
        <4>1. n - 1 \in Nat /\ n = (n - 1) + 1
          BY <1>0, <2>2
        <4>2. QED
          BY <4>1
      <3>2. m < N /\ n - 1 = m /\ m \in 0..N
        BY <1>0, <3>1
      <3>3. g[n] = step(m, h[m]) /\ g[n - 1] = h[m]
        BY <1>6, <3>1, <3>2
      <3> HIDE DEF g
      <3>4. QED
        BY <2>2, <3>1, <3>2, <3>3
    <2>3. QED
      BY <2>1, <2>2
  <1>8. g = [n \in 0..N |-> g[n]]
    OBVIOUS
  <1> HIDE DEF g
  <1>9. Firsts(g, track, from, to)
    BY <1>7, <1>8 DEF Firsts
  <1>10. QED
    BY <1>9

LEMMA FirstsPick ==
  ASSUME NEW track \in Seq(Located), NEW from, NEW to, NEW g, Firsts(g, track, from, to)
  PROVE  Picks(g, track, from, to)
  <1> DEFINE N == Len(track)
             S == {n \in Nat : n <= N => g[n] \in Seq(Located)}
  <1>0. N \in Nat
    BY LenProperties
  <1>1. \A n \in 0..N : g[n] = IF n = 0 THEN <<>>
                      ELSE IF from <= track[n].at /\ track[n].at <= to
                           THEN Append(g[n - 1], track[n]) ELSE g[n - 1]
    BY DEF Firsts
  <1>2. g[0] = <<>>
    <2>1. 0 \in 0..N
      BY <1>0
    <2>2. QED
      BY <1>1, <2>1
  <1>3. ASSUME NEW n \in Nat, n < N
        PROVE  g[n + 1] = IF from <= track[n + 1].at /\ track[n + 1].at <= to
                          THEN Append(g[n], track[n + 1]) ELSE g[n]
    <2>1. n + 1 \in 0..N /\ n + 1 # 0 /\ (n + 1) - 1 = n
      BY <1>0, <1>3
    <2>2. QED
      BY <1>1, <2>1
  <1>4. 0 \in S
    <2>1. <<>> \in Seq(Located) /\ 0 \in Nat
      OBVIOUS
    <2>2. g[0] \in Seq(Located)
      BY <1>2, <2>1
    <2>3. QED
      BY <2>1, <2>2
  <1>5. ASSUME NEW n \in Nat, n \in S PROVE n + 1 \in S
    <2>1. SUFFICES ASSUME n + 1 <= N PROVE g[n + 1] \in Seq(Located)
      OBVIOUS
    <2>2. n < N /\ g[n] \in Seq(Located) /\ n + 1 \in 1..N
      BY <1>0, <1>5, <2>1
    <2>3. track[n + 1] \in Located
      BY <2>2, ElementOfSeq
    <2>4. Append(g[n], track[n + 1]) \in Seq(Located)
      BY <2>2, <2>3, AppendProperties
    <2>5. QED
      BY <1>3, <2>2, <2>4
  <1> HIDE DEF S
  <1>6. \A n \in Nat : n \in S
    BY <1>4, <1>5, SetInduction
  <1>7. \A n \in 0..N : g[n] \in Seq(Located)
    BY <1>0, <1>6 DEF S
  <1>8. g \in [0..N -> Seq(Located)]
    BY <1>7 DEF Firsts
  <1>9. QED
    BY <1>2, <1>3, <1>8 DEF Picks

LEMMA BetweenPicks ==
  ASSUME NEW track \in Seq(Located), NEW from, NEW to
  PROVE  \E g : Picks(g, track, from, to) /\ Between(track, from, to) = g[Len(track)]
  <1> DEFINE g == CHOOSE h : Firsts(h, track, from, to)
  <1>1. Firsts(g, track, from, to)
    BY FirstsExist, Zenon
  <1>2. Between(track, from, to) = g[Len(track)]
    BY BetweenIs
  <1> HIDE DEF g
  <1>3. Picks(g, track, from, to)
    BY <1>1, FirstsPick
  <1>4. QED
    BY <1>2, <1>3

(* The riding time of a window.                                            *)
RidingIn(track, from, to) == RideSummary(track, from, to).riding

LEMMA RidingInIs ==
  ASSUME NEW track, NEW from, NEW to
  PROVE  RidingIn(track, from, to) = RidingSeconds(Between(track, from, to))
  BY DEF RidingIn, RideSummary

-----------------------------------------------------------------------------
(* Locations in the order they came.                                       *)
InOrder(track) == \A n \in 1..(Len(track) - 1) : track[n].at <= track[n + 1].at

(* One more location of a window.                                          *)
Adds(g, p, n) ==
  /\ g[n + 1] # <<>> /\ g[n + 1][Len(g[n + 1])] = p
  /\ RidingSeconds(g[n + 1]) = RidingSeconds(g[n])
       + (IF g[n] = <<>> THEN 0 ELSE Gap(g[n][Len(g[n])], p))

LEMMA PickedOne ==
  ASSUME NEW track \in Seq(Located), NEW from, NEW to, NEW g, Picks(g, track, from, to),
         NEW n \in Nat, n < Len(track), from <= track[n + 1].at, track[n + 1].at <= to
  PROVE  Adds(g, track[n + 1], n)
  <1>1. Len(track) \in Nat /\ n \in 0..Len(track) /\ n + 1 \in 1..Len(track)
    BY LenProperties
  <1>2. g[n] \in Seq(Located) /\ track[n + 1] \in Located
    BY <1>1, ElementOfSeq DEF Picks
  <1>3. g[n + 1] = Append(g[n], track[n + 1])
    BY DEF Picks
  <1>4. QED
    BY <1>2, <1>3, AppendProperties, RidingStep DEF Adds

LEMMA PickedNone ==
  ASSUME NEW track \in Seq(Located), NEW from, NEW to, NEW g, Picks(g, track, from, to),
         NEW n \in Nat, n < Len(track), ~(from <= track[n + 1].at /\ track[n + 1].at <= to)
  PROVE  g[n + 1] = g[n]
  BY DEF Picks

LEMMA PickedType ==
  ASSUME NEW track \in Seq(Located), NEW from, NEW to, NEW g, Picks(g, track, from, to),
         NEW n \in Nat, n <= Len(track)
  PROVE  /\ g[n] \in Seq(Located) /\ RidingSeconds(g[n]) \in Nat
         /\ g[n] # <<>> => g[n][Len(g[n])] \in Located
  <1>1. Len(track) \in Nat /\ n \in 0..Len(track)
    BY LenProperties
  <1>2. g[n] \in Seq(Located)
    BY <1>1 DEF Picks
  <1>3. g[n] # <<>> => g[n][Len(g[n])] \in Located
    <2>1. g[n] # <<>> => Len(g[n]) \in 1..Len(g[n])
      BY <1>2, LenProperties, EmptySeq
    <2>2. QED
      BY <1>2, <2>1, ElementOfSeq
  <1>4. RidingSeconds(g[n]) \in Nat
    <2>1. PICK p : p \in Located
      <3>1. [at |-> 0, pos |-> 0, speed |-> 0] \in Located
        BY DEF Located
      <3>2. QED
        BY <3>1
    <2>2. QED
      BY <1>2, <2>1, RidingStep
  <1>5. QED
    BY <1>2, <1>3, <1>4

LEMMA RidingInType ==
  ASSUME NEW track \in Seq(Located), NEW from, NEW to
  PROVE  RidingIn(track, from, to) \in Nat
  <1>1. PICK g : Picks(g, track, from, to) /\ Between(track, from, to) = g[Len(track)]
    BY BetweenPicks
  <1>2. Len(track) \in Nat /\ Len(track) <= Len(track)
    BY LenProperties
  <1>3. QED
    BY <1>1, <1>2, PickedType, RidingInIs

(* Who rides from a to c has ridden from a to b and from b to c: a ride    *)
(* across b is cut there, and no time of it counted twice.                 *)
LEMMA RidingIsCut ==
  ASSUME NEW track \in Seq(Located), InOrder(track),
         NEW a \in Int, NEW b \in Int, NEW c \in Int, a <= b, b <= c
  PROVE  RidingIn(track, a, b) + RidingIn(track, b, c) <= RidingIn(track, a, c)
  <1> DEFINE N == Len(track)
  <1>0. N \in Nat
    BY LenProperties
  <1>1. PICK f : Picks(f, track, a, b) /\ Between(track, a, b) = f[N]
    BY BetweenPicks
  <1>2. PICK g : Picks(g, track, b, c) /\ Between(track, b, c) = g[N]
    BY BetweenPicks
  <1>3. PICK h : Picks(h, track, a, c) /\ Between(track, a, c) = h[N]
    BY BetweenPicks
  <1> DEFINE last(s) == s[Len(s)]
             Good(n) == /\ RidingSeconds(f[n]) + RidingSeconds(g[n]) <= RidingSeconds(h[n])
                        /\ g[n] # <<>> => /\ h[n] # <<>> /\ last(h[n]) = last(g[n])
                                          /\ b <= last(g[n]).at
                                          /\ n # 0 /\ last(g[n]).at <= track[n].at
                        /\ n = 0 \/ track[n].at <= b => f[n] = h[n]
             S == {n \in Nat : n <= N => Good(n)}
  <1>4. 0 \in S
    <2>1. f[0] = <<>> /\ g[0] = <<>> /\ h[0] = <<>>
      BY <1>1, <1>2, <1>3 DEF Picks
    <2>2. RidingSeconds(f[0]) + RidingSeconds(g[0]) <= RidingSeconds(h[0])
      <3>1. 0 \in Nat /\ 0 <= N
        BY <1>0
      <3>2. RidingSeconds(<<>>) = 0
        <4>1. PICK p, r : p \in Located /\ r = <<>> /\ r \in Seq(Located)
          <5>1. [at |-> 0, pos |-> 0, speed |-> 0] \in Located /\ <<>> \in Seq(Located)
            BY DEF Located
          <5>2. QED
            BY <5>1
        <4>2. QED
          BY <4>1, RidingStep
      <3>3. QED
        BY <2>1, <3>2
    <2>3. QED
      BY <2>1, <2>2
  <1>5. ASSUME NEW n \in Nat, n \in S, n + 1 <= N PROVE Good(n + 1)
    <2> DEFINE p == track[n + 1]
               t == p.at
    <2>1. n < N /\ n <= N /\ n + 1 \in 1..N
      BY <1>0, <1>5
    <2>2. p \in Located /\ t \in Nat
      <3>1. p \in Located
        BY <2>1, ElementOfSeq
      <3>2. QED
        BY <3>1 DEF Located
    <2>3. /\ Good(n)
          /\ n # 0 => track[n] \in Located /\ track[n].at \in Nat /\ track[n].at <= t
      <3>1. Good(n)
        BY <1>5, <2>1
      <3>2. n # 0 => track[n] \in Located /\ track[n].at <= t
        <4>1. n # 0 => n \in 1..N /\ n \in 1..(N - 1)
          BY <2>1
        <4>2. QED
          BY <2>1, <4>1, ElementOfSeq DEF InOrder
      <3> HIDE DEF Good
      <3>3. QED
        BY <3>1, <3>2 DEF Located
    <2>4. /\ f[n] \in Seq(Located) /\ RidingSeconds(f[n]) \in Nat
          /\ g[n] \in Seq(Located) /\ RidingSeconds(g[n]) \in Nat
          /\ h[n] \in Seq(Located) /\ RidingSeconds(h[n]) \in Nat
          /\ f[n] # <<>> => last(f[n]) \in Located
          /\ g[n] # <<>> => last(g[n]) \in Located
          /\ h[n] # <<>> => last(h[n]) \in Located
      BY <1>1, <1>2, <1>3, <2>1, PickedType
    <2> HIDE DEF last
    <2>5. PICK x \in Nat, y \in Nat, z \in Nat :
            x = RidingSeconds(f[n]) /\ y = RidingSeconds(g[n]) /\ z = RidingSeconds(h[n])
      BY <2>4
    <2>6. x + y <= z
      BY <2>3, <2>5
    <2>7. CASE t < a \/ c < t
      <3>1. f[n + 1] = f[n] /\ g[n + 1] = g[n] /\ h[n + 1] = h[n]
        <4>1. ~(a <= t /\ t <= b) /\ ~(b <= t /\ t <= c) /\ ~(a <= t /\ t <= c)
          BY <2>2, <2>7
        <4>2. QED
          BY <1>1, <1>2, <1>3, <2>1, <4>1, PickedNone
      <3>2. g[n] # <<>> => last(g[n]).at <= t
        <4>1. g[n] # <<>> => last(g[n]).at \in Nat
          BY <2>4 DEF Located
        <4>2. QED
          BY <2>2, <2>3, <4>1
      <3>3. t <= b => f[n] = h[n]
        BY <2>2, <2>3
      <3>4. QED
        BY <2>3, <3>1, <3>2, <3>3
    <2>8. CASE a <= t /\ t < b
      <3>1. /\ f[n + 1] # <<>> /\ h[n + 1] # <<>>
            /\ last(f[n + 1]) = p /\ last(h[n + 1]) = p
            /\ g[n + 1] = g[n]
            /\ f[n + 1] = Append(f[n], p) /\ h[n + 1] = Append(h[n], p)
        <4>1. a <= t /\ t <= b /\ ~(b <= t /\ t <= c) /\ t <= c
          BY <2>2, <2>8
        <4>2. f[n + 1] = Append(f[n], p) /\ h[n + 1] = Append(h[n], p)
          BY <1>1, <1>3, <2>1, <4>1 DEF Picks
        <4>3. /\ f[n + 1] # <<>> /\ h[n + 1] # <<>>
              /\ last(f[n + 1]) = p /\ last(h[n + 1]) = p
          <5>1. f[n + 1] # <<>> /\ last(f[n + 1]) = p
            <6>1. Adds(f, p, n)
              BY <1>1, <2>1, <4>1, PickedOne
            <6>2. QED
              BY <6>1 DEF last, Adds
          <5>2. h[n + 1] # <<>> /\ last(h[n + 1]) = p
            <6>1. Adds(h, p, n)
              BY <1>3, <2>1, <4>1, PickedOne
            <6>2. QED
              BY <6>1 DEF last, Adds
          <5>3. QED
            BY <5>1, <5>2
        <4>4. g[n + 1] = g[n]
          BY <1>2, <2>1, <4>1, PickedNone
        <4>5. QED
          BY <4>2, <4>3, <4>4
      <3>2. f[n] = h[n]
        BY <2>2, <2>3, <2>8
      <3>3. g[n] = <<>>
        <4>1. g[n] # <<>> => last(g[n]).at \in Nat
          BY <2>4 DEF Located
        <4>2. QED
          BY <2>2, <2>3, <2>8, <4>1
      <3>4. y = 0
        <4>1. RidingSeconds(<<>>) = 0
          BY <2>2, <2>4, RidingStep
        <4>2. QED
          BY <2>5, <3>3, <4>1
      <3>5. f[n + 1] = h[n + 1]
        BY <3>1, <3>2
      <3>6. RidingSeconds(f[n + 1]) \in Nat
        BY <1>1, <1>5, PickedType
      <3>7. RidingSeconds(f[n + 1]) + RidingSeconds(g[n + 1]) <= RidingSeconds(h[n + 1])
        BY <2>5, <3>1, <3>4, <3>5, <3>6
      <3>8. QED
        BY <3>1, <3>3, <3>5, <3>7
    <2>9. CASE a <= t /\ t = b
      <3>1. a <= t /\ t <= b /\ b <= t /\ t <= c
        BY <2>2, <2>9
      <3>2. /\ f[n + 1] = Append(f[n], p) /\ h[n + 1] = Append(h[n], p)
            /\ g[n + 1] # <<>> /\ h[n + 1] # <<>> /\ last(g[n + 1]) = p /\ last(h[n + 1]) = p
        <4>1. f[n + 1] = Append(f[n], p) /\ h[n + 1] = Append(h[n], p)
          BY <1>1, <1>3, <2>1, <3>1 DEF Picks
        <4>2. g[n + 1] # <<>> /\ h[n + 1] # <<>> /\ last(g[n + 1]) = p /\ last(h[n + 1]) = p
          <5>1. g[n + 1] # <<>> /\ last(g[n + 1]) = p
            <6>1. Adds(g, p, n)
              BY <1>2, <2>1, <3>1, PickedOne
            <6>2. QED
              BY <6>1 DEF last, Adds
          <5>2. h[n + 1] # <<>> /\ last(h[n + 1]) = p
            <6>1. Adds(h, p, n)
              BY <1>3, <2>1, <3>1, PickedOne
            <6>2. QED
              BY <6>1 DEF last, Adds
          <5>3. QED
            BY <5>1, <5>2
        <4>3. QED
          BY <4>1, <4>2
      <3>3. f[n] = h[n]
        BY <2>2, <2>3, <2>9
      <3>4. RidingSeconds(g[n + 1]) = y
        <4>1. RidingSeconds(g[n + 1]) = y + (IF g[n] = <<>> THEN 0 ELSE Gap(last(g[n]), p))
          <5>1. Adds(g, p, n)
            BY <1>2, <2>1, <3>1, PickedOne
          <5>2. QED
            BY <2>5, <5>1 DEF last, Adds
        <4>2. g[n] # <<>> => last(g[n]).at = t
          <5>1. g[n] # <<>> => last(g[n]).at \in Nat
            BY <2>4 DEF Located
          <5>2. QED
            BY <2>2, <2>3, <2>9, <5>1
        <4>3. g[n] # <<>> => Gap(last(g[n]), p) = 0
          BY <2>2, <2>4, <4>2, GapType
        <4>4. QED
          BY <4>1, <4>3
      <3>5. PICK w \in Nat : RidingSeconds(f[n + 1]) = x + w /\ RidingSeconds(h[n + 1]) = z + w
        <4>1. RidingSeconds(f[n + 1]) = x + (IF f[n] = <<>> THEN 0 ELSE Gap(last(f[n]), p))
          <5>1. Adds(f, p, n)
            BY <1>1, <2>1, <3>1, PickedOne
          <5>2. QED
            BY <2>5, <5>1 DEF last, Adds
        <4>2. RidingSeconds(h[n + 1]) = z + (IF h[n] = <<>> THEN 0 ELSE Gap(last(h[n]), p))
          <5>1. Adds(h, p, n)
            BY <1>3, <2>1, <3>1, PickedOne
          <5>2. QED
            BY <2>5, <5>1 DEF last, Adds
        <4>3. (IF f[n] = <<>> THEN 0 ELSE Gap(last(f[n]), p)) \in Nat
          BY <2>2, <2>4, GapType
        <4>4. QED
          BY <3>3, <4>1, <4>2, <4>3
      <3>6. RidingSeconds(f[n + 1]) + RidingSeconds(g[n + 1]) <= RidingSeconds(h[n + 1])
        BY <2>6, <3>4, <3>5
      <3>7. f[n + 1] = h[n + 1]
        BY <3>2, <3>3
      <3>8. b <= t /\ t <= t
        BY <2>2, <2>9
      <3>9. QED
        BY <3>2, <3>6, <3>7, <3>8
    <2>10. CASE b < t /\ t <= c
      <3>1. ~(a <= t /\ t <= b) /\ b <= t /\ t <= c /\ a <= t
        BY <2>2, <2>10
      <3>2. f[n + 1] = f[n]
        BY <1>1, <2>1, <3>1, PickedNone
      <3>3. /\ g[n + 1] # <<>> /\ h[n + 1] # <<>> /\ last(g[n + 1]) = p /\ last(h[n + 1]) = p
            /\ RidingSeconds(g[n + 1]) = y + (IF g[n] = <<>> THEN 0 ELSE Gap(last(g[n]), p))
            /\ RidingSeconds(h[n + 1]) = z + (IF h[n] = <<>> THEN 0 ELSE Gap(last(h[n]), p))
        <4>1. Adds(g, p, n) /\ Adds(h, p, n)
          BY <1>2, <1>3, <2>1, <3>1, PickedOne
        <4>2. QED
          BY <2>5, <4>1 DEF last, Adds
      <3>4. PICK v \in Nat, w \in Nat : /\ v <= w
                                        /\ RidingSeconds(g[n + 1]) = y + v
                                        /\ RidingSeconds(h[n + 1]) = z + w
        <4>1. /\ (IF g[n] = <<>> THEN 0 ELSE Gap(last(g[n]), p)) \in Nat
              /\ (IF h[n] = <<>> THEN 0 ELSE Gap(last(h[n]), p)) \in Nat
          BY <2>2, <2>4, GapType
        <4>2. (IF g[n] = <<>> THEN 0 ELSE Gap(last(g[n]), p))
                <= (IF h[n] = <<>> THEN 0 ELSE Gap(last(h[n]), p))
          BY <2>3, <4>1
        <4>3. QED
          BY <3>3, <4>1, <4>2
      <3>5. RidingSeconds(f[n + 1]) + RidingSeconds(g[n + 1]) <= RidingSeconds(h[n + 1])
        <4>1. RidingSeconds(f[n + 1]) = x
          BY <2>5, <3>2
        <4>2. x + (y + v) <= z + w
          BY <2>6, <3>4
        <4>3. QED
          BY <3>4, <4>1, <4>2
      <3>6. ~(t <= b) /\ b <= t /\ t <= t
        BY <2>2, <2>10
      <3>7. QED
        BY <3>3, <3>5, <3>6
    <2>11. QED
      BY <2>2, <2>7, <2>8, <2>9, <2>10
  <1>6. \A n \in Nat : n \in S
    <2>1. \A n \in Nat : n \in S => n + 1 \in S
      <3> HIDE DEF Good
      <3>1. QED
        BY <1>5
    <2> HIDE DEF S
    <2>2. QED
      BY <1>4, <2>1, SetInduction
  <1>7. Good(N)
    <2> HIDE DEF Good
    <2>1. QED
      BY <1>0, <1>6
  <1>8. QED
    BY <1>1, <1>2, <1>3, <1>7, RidingInIs

-----------------------------------------------------------------------------
(* Nobody rides longer than the window.                                    *)
LEMMA RidingFits ==
  ASSUME NEW track \in Seq(Located), InOrder(track),
         NEW a \in Nat, NEW b \in Nat, a <= b
  PROVE  RidingIn(track, a, b) \in 0..(b - a)
  <1> DEFINE N == Len(track)
  <1>0. N \in Nat
    BY LenProperties
  <1>1. PICK g : Picks(g, track, a, b) /\ Between(track, a, b) = g[N]
    BY BetweenPicks
  <1> DEFINE last(s) == s[Len(s)]
             Good(n) == IF g[n] = <<>> THEN RidingSeconds(g[n]) = 0
                        ELSE /\ n # 0 /\ last(g[n]).at <= track[n].at
                             /\ a <= last(g[n]).at /\ last(g[n]).at <= b
                             /\ a + RidingSeconds(g[n]) <= last(g[n]).at
             S == {n \in Nat : n <= N => Good(n)}
  <1>2. 0 \in S
    <2>1. g[0] = <<>>
      BY <1>1 DEF Picks
    <2>2. RidingSeconds(<<>>) = 0
      <3>1. PICK p, r : p \in Located /\ r = <<>> /\ r \in Seq(Located)
        <4>1. [at |-> 0, pos |-> 0, speed |-> 0] \in Located /\ <<>> \in Seq(Located)
          BY DEF Located
        <4>2. QED
          BY <4>1
      <3>2. QED
        BY <3>1, RidingStep
    <2>3. QED
      BY <2>1, <2>2
  <1>3. ASSUME NEW n \in Nat, n \in S, n + 1 <= N PROVE Good(n + 1)
    <2> DEFINE p == track[n + 1]
               t == p.at
    <2>1. n < N /\ n <= N /\ n + 1 \in 1..N
      BY <1>0, <1>3
    <2>2. p \in Located /\ t \in Nat
      <3>1. p \in Located
        BY <2>1, ElementOfSeq
      <3>2. QED
        BY <3>1 DEF Located
    <2>3. /\ Good(n)
          /\ n # 0 => track[n].at \in Nat /\ track[n].at <= t
      <3>1. Good(n)
        BY <1>3, <2>1
      <3>2. n # 0 => track[n] \in Located /\ track[n].at <= t
        <4>1. n # 0 => n \in 1..N /\ n \in 1..(N - 1)
          BY <2>1
        <4>2. QED
          BY <2>1, <4>1, ElementOfSeq DEF InOrder
      <3> HIDE DEF Good
      <3>3. QED
        BY <3>1, <3>2 DEF Located
    <2>4. g[n] # <<>> => last(g[n]) \in Located /\ last(g[n]).at \in Nat
      <3>1. g[n] # <<>> => last(g[n]) \in Located
        BY <1>1, <2>1, PickedType
      <3>2. QED
        BY <3>1 DEF Located
    <2>5. RidingSeconds(g[n]) \in Nat
      BY <1>1, <2>1, PickedType
    <2> HIDE DEF last
    <2>6. CASE ~(a <= t /\ t <= b)
      <3>1. g[n + 1] = g[n]
        BY <1>1, <2>1, <2>6, PickedNone
      <3>2. g[n] # <<>> => last(g[n]).at <= t
        BY <2>2, <2>3, <2>4
      <3>3. QED
        BY <2>3, <3>1, <3>2
    <2>7. CASE a <= t /\ t <= b
      <3>1. Adds(g, p, n)
        BY <1>1, <2>1, <2>7, PickedOne
      <3>2. /\ g[n + 1] # <<>> /\ last(g[n + 1]) = p
            /\ RidingSeconds(g[n + 1]) = RidingSeconds(g[n])
                 + (IF g[n] = <<>> THEN 0 ELSE Gap(last(g[n]), p))
        BY <3>1 DEF Adds, last
      <3>3. a + RidingSeconds(g[n + 1]) <= t
        <4>1. CASE g[n] = <<>>
          BY <2>3, <2>7, <3>2, <4>1
        <4>2. CASE g[n] # <<>>
          <5>1. PICK x \in Nat, w \in Nat, s \in Nat :
                  /\ x = RidingSeconds(g[n]) /\ w = Gap(last(g[n]), p) /\ s = last(g[n]).at
            <6>1. Gap(last(g[n]), p) \in Nat
              BY <2>2, <2>4, <4>2, GapType
            <6>2. QED
              BY <2>4, <2>5, <4>2, <6>1
          <5>2. s <= t /\ a + x <= s
            BY <2>2, <2>3, <2>4, <4>2, <5>1
          <5>3. w <= t - s
            BY <2>2, <2>4, <4>2, <5>1, <5>2, GapType
          <5>4. a + (x + w) <= t
            BY <2>2, <5>2, <5>3
          <5>5. QED
            BY <3>2, <4>2, <5>1, <5>4
        <4>3. QED
          BY <4>1, <4>2
      <3>4. t <= t
        BY <2>2
      <3>5. QED
        BY <2>7, <3>2, <3>3, <3>4
    <2>8. QED
      BY <2>6, <2>7
  <1>4. \A n \in Nat : n \in S
    <2>1. \A n \in Nat : n \in S => n + 1 \in S
      <3> HIDE DEF Good
      <3>1. QED
        BY <1>3
    <2> HIDE DEF S
    <2>2. QED
      BY <1>2, <2>1, SetInduction
  <1>5. Good(N)
    <2> HIDE DEF Good
    <2>1. QED
      BY <1>0, <1>4
  <1>6. RidingIn(track, a, b) = RidingSeconds(g[N]) /\ RidingIn(track, a, b) \in Nat
    BY <1>1, RidingInIs, RidingInType
  <1>7. g[N] # <<>> => last(g[N]).at \in Nat
    <2>1. N \in Nat /\ N <= N
      BY <1>0
    <2>2. g[N] # <<>> => last(g[N]) \in Located
      BY <1>1, <2>1, PickedType
    <2>3. QED
      BY <2>2 DEF Located
  <1> HIDE DEF last
  <1>8. QED
    BY <1>5, <1>6, <1>7

-----------------------------------------------------------------------------
Ended(rides) == \A i \in 1..Len(rides) :
  rides[i].start \in Nat /\ rides[i].end \in Nat \cup {NULL}

(* The part of a session in a window, and what was ridden in it.           *)
From(session, from) == Later(session.start, from)
Until(session, to)  == Earlier(OrAt(session.end, to), to)

Ridden(track, session, from, to) ==
  IF From(session, from) < Until(session, to)
  THEN RidingIn(track, From(session, from), Until(session, to)) ELSE 0

Rides(track, rides, from, to) ==
  [i \in Nat |-> IF i \in 1..Len(rides) THEN Ridden(track, rides[i], from, to) ELSE 0]

InWindow(rides, from, to) ==
  {i \in 1..Len(rides) : From(rides[i], from) < Until(rides[i], to)}

LEMMA RidesType ==
  ASSUME NEW track \in Seq(Located), NEW rides, NEW from, NEW to
  PROVE  Rides(track, rides, from, to) \in [Nat -> Nat]
  <1>1. \A x, y : RidingIn(track, x, y) \in Nat
    BY RidingInType
  <1>2. \A i : Ridden(track, rides[i], from, to) \in Nat
    BY <1>1 DEF Ridden
  <1>3. QED
    BY <1>2 DEF Rides

(* Only the sessions with a part in the window count.                      *)
LEMMA ClippedSame ==
  ASSUME NEW track, NEW rides, NEW ids, NEW from, NEW to,
         ids \subseteq 1..Len(rides), InWindow(rides, from, to) \subseteq ids
  PROVE  Clipped(track, rides, ids, from, to)
           = Clipped(track, rides, InWindow(rides, from, to), from, to)
  <1>1. {i \in ids : From(rides[i], from) < Until(rides[i], to)}
          = {i \in InWindow(rides, from, to) : From(rides[i], from) < Until(rides[i], to)}
    BY DEF InWindow
  <1>2. QED
    BY <1>1 DEF Clipped, From, Until

LEMMA ClippedRiding ==
  ASSUME NEW track \in Seq(Located), NEW rides, Len(rides) \in Nat, NEW from, NEW to
  PROVE  Clipped(track, rides, InWindow(rides, from, to), from, to).riding
           = Upto(Rides(track, rides, from, to), Len(rides))
  <1> DEFINE T == InWindow(rides, from, to)
             N == Len(rides)
             f == [i \in T |-> RidingIn(track, From(rides[i], from), Until(rides[i], to))]
  <1>1. Clipped(track, rides, T, from, to).riding = SumFunction(f)
    <2>1. {i \in T : From(rides[i], from) < Until(rides[i], to)} = T
      BY DEF InWindow
    <2>2. QED
      BY <2>1 DEF Clipped, From, Until, RidingIn
  <1>2. f \in [T -> Nat] /\ T \in SUBSET (1..N)
    BY RidingInType DEF InWindow
  <1>3. Padded(f, T) = Rides(track, rides, from, to)
    <2>1. \A i \in Nat : (IF i \in T THEN f[i] ELSE 0)
                           = IF i \in 1..N THEN Ridden(track, rides[i], from, to) ELSE 0
      BY DEF InWindow, Ridden
    <2> HIDE DEF T, f
    <2>2. QED
      BY <2>1 DEF Padded, Rides
  <1> HIDE DEF f
  <1>4. SumFunction(f) = Upto(Padded(f, T), N)
    <2> HIDE DEF T
    <2>1. QED
      BY <1>2, UptoOf
  <1>5. QED
    BY <1>1, <1>3, <1>4

-----------------------------------------------------------------------------
LEMMA Times ==
  ASSUME NEW a \in Nat, NEW b \in Nat, NEW k \in Nat \ {0}
  PROVE  a <= b <=> a * k <= b * k
  OBVIOUS

LEMMA Days ==
  ASSUME NEW at \in Nat
  PROVE  /\ WibDate(at) \in Nat
         /\ DayStart(WibDate(at)) <= at /\ at < DayStart(WibDate(at) + 1)
  <1>1. DayLength \in Nat \ {0} /\ WibOffset \in Nat
    BY MetricsAssumption DEF MetricsAssumption
  <1>2. PICK n \in Nat : n = at + WibOffset
    BY <1>1
  <1>3. PICK k \in Nat \ {0}, o \in Nat : k = DayLength /\ o = WibOffset
    BY <1>1
  <1>4. n \div k \in Nat /\ (n \div k) * k <= n /\ n < (n \div k + 1) * k
    OBVIOUS
  <1>5. PICK w \in Nat : w = n \div k
    BY <1>4
  <1>6. w * k - o <= at /\ at < (w + 1) * k - o
    <2>1. w * k <= n /\ n < (w + 1) * k
      BY <1>4, <1>5
    <2>2. PICK x \in Int, y \in Int : x = w * k /\ y = (w + 1) * k
      OBVIOUS
    <2>3. QED
      BY <1>2, <1>3, <2>1, <2>2
  <1>7. WibDate(at) = w
    BY <1>2, <1>3, <1>5 DEF WibDate
  <1>8. QED
    BY <1>3, <1>6, <1>7 DEF DayStart

LEMMA DaysInOrder ==
  ASSUME NEW d \in Nat, NEW e \in Nat
  PROVE  /\ DayStart(d) \in Int
         /\ d <= e <=> DayStart(d) <= DayStart(e)
  <1>1. PICK k \in Nat \ {0}, o \in Nat : k = DayLength /\ o = WibOffset
    BY MetricsAssumption DEF MetricsAssumption
  <1>2. PICK x \in Int, y \in Int : x = d * k /\ y = e * k
    OBVIOUS
  <1>3. d <= e <=> x <= y
    BY <1>2, Times
  <1>4. DayStart(d) = x - o /\ DayStart(e) = y - o
    BY <1>1, <1>2 DEF DayStart
  <1>5. QED
    BY <1>3, <1>4

-----------------------------------------------------------------------------
(* A session is cut at b like the locations it is summed over.             *)
LEMMA SessionIsCut ==
  ASSUME NEW track \in Seq(Located), InOrder(track),
         NEW s, s.start \in Nat, s.end \in Nat \cup {NULL},
         NEW a \in Int, NEW b \in Int, NEW c \in Int, a <= b, b <= c
  PROVE  Ridden(track, s, a, b) + Ridden(track, s, b, c) <= Ridden(track, s, a, c)
  <1>1. PICK start \in Int, e \in Int :
          /\ start = s.start /\ e = Until(s, c)
          /\ e <= c /\ Until(s, b) = Earlier(e, b)
    <2>1. NULL \notin Int
      BY MetricsAssumption DEF MetricsAssumption
    <2>2. s.start \in Int /\ Until(s, c) \in Int /\ Until(s, c) <= c /\ Until(s, b) = Earlier(Until(s, c), b)
      BY <2>1 DEF Until, OrAt, Earlier
    <2>3. QED
      BY <2>2
  <1>2. PICK f \in Int, g \in Int : f = From(s, a) /\ g = From(s, b)
                                   /\ f = Later(start, a) /\ g = Later(start, b)
    <2>1. From(s, a) \in Int /\ From(s, b) \in Int
      BY <1>1 DEF From, Later
    <2>2. QED
      BY <1>1, <2>1 DEF From
  <1>3. \A x, y : RidingIn(track, x, y) \in Nat
    BY RidingInType
  <1>4. Ridden(track, s, a, c) = IF f < e THEN RidingIn(track, f, e) ELSE 0
    BY <1>1, <1>2 DEF Ridden
  <1>5. Ridden(track, s, b, c) = IF g < e THEN RidingIn(track, g, e) ELSE 0
    BY <1>1, <1>2 DEF Ridden
  <1>6. Ridden(track, s, a, b)
          = IF f < Earlier(e, b) THEN RidingIn(track, f, Earlier(e, b)) ELSE 0
    BY <1>1, <1>2 DEF Ridden
  <1>7. CASE e <= b
    <2>1. Earlier(e, b) = e /\ ~(g < e)
      BY <1>2, <1>7 DEF Earlier, Later
    <2>2. QED
      BY <1>3, <1>4, <1>5, <1>6, <2>1
  <1>8. CASE b < e /\ start < b
    <2>1. Earlier(e, b) = b /\ g = b /\ f <= b /\ f < e /\ g < e
      BY <1>2, <1>8 DEF Earlier, Later
    <2>2. RidingIn(track, f, b) + RidingIn(track, b, e) <= RidingIn(track, f, e)
      BY <1>8, <2>1, RidingIsCut
    <2>3. CASE f < b
      BY <1>4, <1>5, <1>6, <2>1, <2>2, <2>3
    <2>4. CASE ~(f < b)
      <3>1. f = b
        BY <2>1, <2>4
      <3>2. QED
        BY <1>3, <1>4, <1>5, <1>6, <2>1, <2>4, <3>1
    <2>5. QED
      BY <2>3, <2>4
  <1>9. CASE b < e /\ b <= start
    <2>1. Earlier(e, b) = b /\ g = start /\ f = start /\ ~(f < b)
      BY <1>2, <1>9 DEF Earlier, Later
    <2>2. QED
      BY <1>3, <1>4, <1>5, <1>6, <2>1
  <1>10. QED
    BY <1>7, <1>8, <1>9

(* So is the riding time of the sessions.                                  *)
LEMMA WindowIsCut ==
  ASSUME NEW track \in Seq(Located), InOrder(track), NEW rides, Ended(rides),
         Len(rides) \in Nat,
         NEW a \in Int, NEW b \in Int, NEW c \in Int, a <= b, b <= c
  PROVE  Upto(Rides(track, rides, a, b), Len(rides))
           + Upto(Rides(track, rides, b, c), Len(rides))
             <= Upto(Rides(track, rides, a, c), Len(rides))
  <1> DEFINE n == Len(rides)
             h == Rides(track, rides, a, b)
             k == Rides(track, rides, b, c)
             l == Rides(track, rides, a, c)
  <1>1. h \in [Nat -> Nat] /\ k \in [Nat -> Nat] /\ l \in [Nat -> Nat]
    BY RidesType
  <1>2. ASSUME NEW i \in 1..n PROVE h[i] + k[i] <= l[i]
    <2>1. rides[i].start \in Nat /\ rides[i].end \in Nat \cup {NULL} /\ i \in Nat
      BY DEF Ended
    <2>2. Ridden(track, rides[i], a, b) + Ridden(track, rides[i], b, c)
            <= Ridden(track, rides[i], a, c)
      BY <2>1, SessionIsCut
    <2>3. QED
      BY <2>1, <2>2 DEF Rides
  <1> HIDE DEF h, k, l
  <1>3. Upto(h, n) + Upto(k, n) <= Upto(l, n)
    BY <1>1, <1>2, UptoAtMost
  <1>4. QED
    BY <1>3 DEF h, k, l

-----------------------------------------------------------------------------
(* A session with a part in the window overlaps it.                        *)
LEMMA PartsOverlap ==
  ASSUME NEW rides, Ended(rides), NEW from \in Int, NEW to \in Int,
         NEW until \in Int, NEW reference \in Int, to <= until, to <= reference
  PROVE  InWindow(rides, from, to) \subseteq Overlapping(rides, from, until, reference)
  <1> SUFFICES ASSUME NEW i \in 1..Len(rides), From(rides[i], from) < Until(rides[i], to)
               PROVE  rides[i].start < until /\ OrAt(rides[i].end, reference) > from
    BY DEF InWindow, Overlapping
  <1>1. NULL \notin Int
    BY MetricsAssumption DEF MetricsAssumption
  <1>2. PICK s \in Int : s = rides[i].start
    BY DEF Ended
  <1>3. PICK e : e = rides[i].end /\ e \in Nat \cup {NULL}
    BY DEF Ended
  <1>4. Later(s, from) < Earlier(OrAt(e, to), to)
    BY <1>2, <1>3 DEF From, Until
  <1>5. s < until /\ OrAt(e, reference) > from
    BY <1>1, <1>3, <1>4 DEF Later, Earlier, OrAt
  <1>6. QED
    BY <1>2, <1>3, <1>5

(* A report sums over the parts of the sessions in its window.             *)
Parts(track, rides, from, to) == Clipped(track, rides, InWindow(rides, from, to), from, to)

LEMMA ReportedParts ==
  ASSUME NEW track, NEW rides, Ended(rides), NEW from \in Int, NEW to \in Int,
         NEW until \in Int, NEW reference \in Int, to <= until, to <= reference
  PROVE  Clipped(track, rides, Overlapping(rides, from, until, reference), from, to)
           = Parts(track, rides, from, to)
  <1> DEFINE ids == Overlapping(rides, from, until, reference)
  <1>1. ids \subseteq 1..Len(rides)
    BY DEF Overlapping
  <1>2. InWindow(rides, from, to) \subseteq ids
    BY PartsOverlap
  <1> HIDE DEF ids
  <1>3. Clipped(track, rides, ids, from, to) = Parts(track, rides, from, to)
    BY <1>1, <1>2, ClippedSame DEF Parts
  <1>4. QED
    BY <1>3 DEF ids

LEMMA EarlierOf ==
  ASSUME NEW a \in Int, NEW b \in Int
  PROVE  /\ Earlier(a, b) \in Int /\ Earlier(a, b) = Earlier(b, a)
         /\ Earlier(a, b) <= a /\ Earlier(a, b) <= b
         /\ a <= b => Earlier(a, b) = a
  BY DEF Earlier

LEMMA ApiReads ==
  ASSUME NEW track, NEW rides, Ended(rides), NEW day \in Nat, NEW at \in Nat
  PROVE  ApiDaily(track, rides, day, at)
           = Parts(track, rides, DayStart(day), Earlier(DayStart(day + 1), at))
  <1>1. PICK f \in Int, u \in Int : f = DayStart(day) /\ u = DayStart(day + 1)
    BY DaysInOrder
  <1>2. Earlier(u, at) \in Int /\ Earlier(u, at) <= u /\ Earlier(u, at) <= at
    BY EarlierOf
  <1>3. Clipped(track, rides, Overlapping(rides, f, u, at), f, Earlier(u, at))
          = Parts(track, rides, f, Earlier(u, at))
    BY <1>2, ReportedParts
  <1>4. QED
    BY <1>1, <1>3 DEF ApiDaily

LEMMA BotReads ==
  ASSUME NEW track, NEW rides, Ended(rides), NEW from \in Int, NEW to \in Int, NEW at \in Nat
  PROVE  BotReport(track, rides, [from |-> from, to |-> to], at)
           = Parts(track, rides, from, Earlier(to, at))
  <1>1. /\ Earlier(to, at) \in Int /\ Earlier(to, at) <= to /\ Earlier(to, at) <= at
        /\ Earlier(at, to) = Earlier(to, at)
    BY EarlierOf
  <1>2. Clipped(track, rides, Overlapping(rides, from, to, at), from, Earlier(to, at))
          = Parts(track, rides, from, Earlier(to, at))
    BY <1>1, ReportedParts
  <1>3. QED
    BY <1>1, <1>2 DEF BotReport

(* The riding time of day d.                                               *)
DayRiding(track, rides, at) == [d \in Nat |-> ApiDaily(track, rides, d, at).riding]

LEMMA DaysWithinMonth ==
  ASSUME NEW track \in Seq(Located), InOrder(track),
         NEW rides, Ended(rides), Len(rides) \in Nat, NEW at \in Nat,
         NEW m \in Nat, NEW w \in Nat, m <= w, w = WibDate(at)
  PROVE  Over(DayRiding(track, rides, at), m, w) <= Parts(track, rides, DayStart(m), at).riding
  <1> DEFINE h == DayRiding(track, rides, at)
             n == Len(rides)
             sum(from, to) == Upto(Rides(track, rides, from, to), n)
             till(d) == Earlier(DayStart(d + 1), at)
             Good(d) == Over(h, m, d) <= sum(DayStart(m), till(d))
             S == {x \in Nat : m + x <= w => Good(m + x)}
  <1>1. \A d \in Nat : DayStart(d) \in Int /\ till(d) \in Int
    <2>1. \A d \in Nat : DayStart(d) \in Int
      BY DaysInOrder
    <2>2. ASSUME NEW d \in Nat PROVE till(d) \in Int
      <3>1. PICK u \in Int : u = DayStart(d + 1)
        BY <2>1
      <3>2. QED
        BY <3>1, EarlierOf
    <2>3. QED
      BY <2>1, <2>2
  <1>2. \A from, to : /\ sum(from, to) \in Nat
                      /\ Parts(track, rides, from, to).riding = sum(from, to)
    <2>1. \A from, to : Rides(track, rides, from, to) \in [Nat -> Nat]
      BY RidesType
    <2>2. \A from, to : sum(from, to) \in Nat
      BY <2>1, UptoSteps
    <2>3. \A from, to : Parts(track, rides, from, to).riding = sum(from, to)
      BY ClippedRiding DEF Parts
    <2>4. QED
      BY <2>2, <2>3
  <1> HIDE DEF sum
  <1>3. h \in [Nat -> Nat] /\ \A d \in Nat : h[d] = sum(DayStart(d), till(d))
    <2>1. \A d \in Nat : ApiDaily(track, rides, d, at).riding = sum(DayStart(d), till(d))
      BY <1>2, ApiReads
    <2>2. QED
      BY <1>2, <2>1 DEF DayRiding
  <1> HIDE DEF h
  <1>4. Good(m)
    <2>1. Over(h, m, m) = h[m] /\ h[m] = sum(DayStart(m), till(m)) /\ h[m] \in Nat
      BY <1>3, OverSteps
    <2>2. QED
      BY <2>1
  <1>5. 0 \in S
    <2>1. m + 0 = m
      OBVIOUS
    <2> HIDE DEF Good
    <2>2. QED
      BY <1>4, <2>1
  <1>6. ASSUME NEW d \in Nat, m <= d, d + 1 <= w, Good(d) PROVE Good(d + 1)
    <2>1. DayStart(d + 1) <= at
      <3>1. PICK e \in Nat : e = d + 1
        OBVIOUS
      <3>2. DayStart(e) <= DayStart(w) /\ DayStart(e) \in Int /\ DayStart(w) \in Int
        BY <1>6, <3>1, DaysInOrder
      <3>3. DayStart(w) <= at
        BY Days
      <3>4. QED
        BY <3>1, <3>2, <3>3
    <2>2. PICK a \in Int, b \in Int, c \in Int : a = DayStart(m) /\ b = DayStart(d + 1) /\ c = till(d + 1)
      <3>1. d + 1 \in Nat
        OBVIOUS
      <3>2. QED
        BY <1>1, <3>1, Zenon
    <2>3. till(d) = b
      BY <2>1, <2>2, EarlierOf
    <2>4. b <= c
      <3>1. PICK e \in Nat, f \in Nat : e = d + 1 /\ f = e + 1
        OBVIOUS
      <3>2. DayStart(e) <= DayStart(f) /\ DayStart(e) \in Int /\ DayStart(f) \in Int
        BY <3>1, DaysInOrder
      <3>3. c = Earlier(DayStart(f), at) /\ b = DayStart(e)
        BY <2>2, <3>1
      <3>4. QED
        BY <2>1, <2>2, <3>2, <3>3 DEF Earlier
    <2>5. a <= b
      <3>1. PICK e \in Nat : e = d + 1
        OBVIOUS
      <3>2. DayStart(m) <= DayStart(e)
        BY <1>6, <3>1, DaysInOrder
      <3>3. QED
        BY <2>2, <3>1, <3>2
    <2>6. sum(a, b) + sum(b, c) <= sum(a, c)
      BY <2>4, <2>5, WindowIsCut DEF sum
    <2>7. Over(h, m, d + 1) = h[d + 1] + Over(h, m, d) /\ Over(h, m, d) \in Nat
      BY <1>3, <1>6, OverSteps
    <2>8. h[d + 1] = sum(b, c)
      <3>1. PICK e \in Nat : e = d + 1
        OBVIOUS
      <3>2. h[e] = sum(DayStart(e), till(e))
        BY <1>3
      <3>3. QED
        BY <2>2, <3>1, <3>2
    <2>9. Over(h, m, d) <= sum(a, b)
      BY <1>6, <2>2, <2>3
    <2>10. PICK x \in Nat, y \in Nat, z \in Nat, v \in Nat :
             x = sum(a, b) /\ y = sum(b, c) /\ z = sum(a, c) /\ v = Over(h, m, d)
      BY <1>2, <2>7
    <2>11. Over(h, m, d + 1) <= sum(a, c)
      <3>1. Over(h, m, d + 1) = y + v
        BY <2>7, <2>8, <2>10
      <3>2. x + y <= z /\ v <= x
        BY <2>6, <2>9, <2>10
      <3>3. y + v <= z
        BY <3>2
      <3>4. QED
        BY <2>10, <3>1, <3>3
    <2>12. QED
      BY <2>2, <2>11
  <1>7. \A x \in Nat : x \in S
    <2>1. ASSUME NEW x \in Nat, x \in S PROVE x + 1 \in S
      <3>1. SUFFICES ASSUME m + (x + 1) <= w PROVE Good(m + (x + 1))
        OBVIOUS
      <3>2. PICK d \in Nat : d = m + x
        OBVIOUS
      <3>3. m <= d /\ d + 1 <= w /\ d <= w /\ m + (x + 1) = d + 1
        BY <3>1, <3>2
      <3> HIDE DEF Good
      <3>4. Good(d)
        BY <2>1, <3>2, <3>3
      <3>5. Good(d + 1)
        BY <1>6, <3>3, <3>4
      <3>6. QED
        BY <3>3, <3>5
    <2> HIDE DEF S
    <2>2. QED
      BY <1>5, <2>1, SetInduction
  <1>8. Good(w)
    <2>1. PICK x \in Nat : m + x = w
      <3>1. w - m \in Nat /\ m + (w - m) = w
        OBVIOUS
      <3>2. QED
        BY <3>1
    <2>2. x \in S /\ m + x <= w
      BY <1>7, <2>1
    <2> HIDE DEF Good
    <2>3. Good(m + x)
      BY <2>2
    <2>4. QED
      BY <2>1, <2>3
  <1>9. till(w) = at
    <2>1. at < DayStart(w + 1)
      BY Days
    <2>2. PICK u \in Int : u = DayStart(w + 1)
      BY DaysInOrder
    <2>3. QED
      BY <2>1, <2>2 DEF Earlier
  <1>10. QED
    BY <1>2, <1>8, <1>9 DEF h

-----------------------------------------------------------------------------
(* One session after the other; their times may be anything.               *)
InTurn(rides) ==
  \A i \in 1..Len(rides) : i + 1 \in 1..Len(rides) => rides[i].end # NULL

(* What of a window lies before x, and between x and y.                    *)
Reach(x, from, to) == Later(0, Earlier(x, to) - from)
Within(x, y, from, to) == Later(0, Earlier(y, to) - Later(x, from))

LEMMA WithinType ==
  ASSUME NEW from \in Int, NEW to \in Int, NEW x \in Int, NEW y \in Int
  PROVE  Within(x, y, from, to) \in Nat
  BY DEF Within, Later, Earlier

LEMMA Reaches ==
  ASSUME NEW from \in Int, NEW to \in Int, from <= to
  PROVE  /\ \A x \in Nat : Reach(x, from, to) \in Nat /\ Reach(x, from, to) <= to - from
         /\ \A x \in Nat : Reach(x, from, to) + Within(x, to, from, to) <= to - from
         /\ \A x \in Nat, y \in Nat :
              /\ Reach(x, from, to) + Within(x, y, from, to) <= Reach(Later(x, y), from, to)
              /\ Reach(x, from, to) <= Reach(y, from, to) + Within(y, x, from, to)
  BY DEF Reach, Within, Earlier, Later

LEMMA UptoBelow ==
  ASSUME NEW h \in [Nat -> Nat], NEW l \in [Nat -> Nat], NEW n \in Nat,
         \A i \in 1..n : h[i] <= l[i]
  PROVE  Upto(h, n) <= Upto(l, n)
  <1> DEFINE k == [i \in Nat |-> 0]
  <1>1. k \in [Nat -> Nat] /\ \A i \in Nat : k[i] = 0
    OBVIOUS
  <1> HIDE DEF k
  <1>2. ASSUME NEW i \in 1..n PROVE h[i] + k[i] <= l[i]
    <2>1. i \in Nat /\ h[i] \in Nat /\ l[i] \in Nat /\ h[i] <= l[i]
      OBVIOUS
    <2>2. QED
      BY <1>1, <2>1
  <1>3. Upto(h, n) + Upto(k, n) <= Upto(l, n)
    BY <1>1, <1>2, UptoAtMost
  <1>4. Upto(h, n) \in Nat /\ Upto(k, n) \in Nat /\ Upto(l, n) \in Nat
    BY <1>1, UptoSteps
  <1>5. QED
    BY <1>3, <1>4

(* The part of each session in a window, and what it shares with the one   *)
(* before it.                                                              *)
EngineOn(session, from, to) == Within(session.start, OrAt(session.end, to), from, to)
Shared(rides, i, from, to) == Within(rides[i].start, Reached(rides[i - 1]), from, to)

Engines(rides, from, to) ==
  [i \in Nat |-> IF i \in 1..Len(rides) THEN EngineOn(rides[i], from, to) ELSE 0]
Shares(rides, from, to) ==
  [i \in Nat |-> IF i \in 2..Len(rides) THEN Shared(rides, i, from, to) ELSE 0]

LEMMA PartsType ==
  ASSUME NEW rides, Ended(rides), NEW from \in Int, NEW to \in Int
  PROVE  Engines(rides, from, to) \in [Nat -> Nat]
  <1>1. ASSUME NEW i \in 1..Len(rides) PROVE EngineOn(rides[i], from, to) \in Nat
    <2>1. PICK x \in Int, v \in Int : x = rides[i].start /\ v = OrAt(rides[i].end, to)
      BY DEF Ended, OrAt
    <2>2. Within(x, v, from, to) \in Nat
      BY WithinType
    <2>3. QED
      BY <2>1, <2>2 DEF EngineOn
  <1>2. QED
    BY <1>1 DEF Engines

(* A session with another behind it is over.                               *)
LEMMA Before ==
  ASSUME NEW rides, Ended(rides), InTurn(rides), Len(rides) \in Nat, NEW i \in 2..Len(rides)
  PROVE  /\ i \in 1..Len(rides) /\ i - 1 \in 1..Len(rides)
         /\ rides[i].start \in Nat /\ rides[i - 1].end # NULL /\ Reached(rides[i - 1]) \in Nat
  <1>1. PICK j \in 1..Len(rides) : j = i - 1 /\ j + 1 = i /\ i \in 1..Len(rides)
    <2>1. i - 1 \in 1..Len(rides) /\ (i - 1) + 1 = i /\ i \in 1..Len(rides)
      OBVIOUS
    <2>2. QED
      BY <2>1
  <1>2. rides[j].end # NULL
    BY <1>1 DEF InTurn
  <1>3. rides[j].start \in Nat /\ rides[j].end \in Nat
    BY <1>2 DEF Ended
  <1>4. Reached(rides[j]) \in Nat
    BY <1>3 DEF Reached, Later
  <1>5. QED
    BY <1>1, <1>2, <1>4 DEF Ended

LEMMA SharesType ==
  ASSUME NEW rides, Ended(rides), InTurn(rides), Len(rides) \in Nat, NEW from \in Int, NEW to \in Int
  PROVE  /\ Shares(rides, from, to) \in [Nat -> Nat]
         /\ \A i \in 2..Len(rides) : Shared(rides, i, from, to) \in Nat
  <1>1. ASSUME NEW i \in 2..Len(rides) PROVE Shared(rides, i, from, to) \in Nat
    <2>1. PICK x \in Int, y \in Int : x = rides[i].start /\ y = Reached(rides[i - 1])
      <3>1. rides[i].start \in Nat /\ Reached(rides[i - 1]) \in Nat
        BY Before
      <3>2. QED
        BY <3>1
    <2>2. Within(x, y, from, to) \in Nat
      BY WithinType
    <2>3. QED
      BY <2>1, <2>2 DEF Shared
  <1>2. QED
    BY <1>1 DEF Shares

LEMMA SharedIs ==
  ASSUME NEW rides, Ended(rides), InTurn(rides), Len(rides) \in Nat, NEW k \in Nat, Len(rides) <= k,
         NEW from \in Int, NEW to \in Int
  PROVE  SharedWithin(rides, from, to) = Upto(Shares(rides, from, to), k)
  <1> DEFINE T == 2..Len(rides)
             f == [i \in T |-> Shared(rides, i, from, to)]
  <1>1. SharedWithin(rides, from, to) = SumFunction(f)
    BY DEF SharedWithin, Shared, Within
  <1>2. T \in SUBSET (1..k)
    OBVIOUS
  <1>3. f \in [T -> Nat]
    BY SharesType
  <1>4. Padded(f, T) = Shares(rides, from, to)
    BY DEF Padded, Shares
  <1> HIDE DEF T, f
  <1>5. SumFunction(f) = Upto(Padded(f, T), k)
    BY <1>2, <1>3, UptoOf
  <1>6. QED
    BY <1>1, <1>4, <1>5

(* Sessions that open, or come to their end, take nothing off what the     *)
(* sessions so far share.                                                  *)
Continue(rides, more) ==
  /\ Len(rides) <= Len(more)
  /\ \A i \in 1..Len(rides) : /\ more[i].start = rides[i].start
                              /\ rides[i].end # NULL => more[i] = rides[i]

LEMMA SharedGrows ==
  ASSUME NEW rides, Ended(rides), InTurn(rides), Len(rides) \in Nat,
         NEW more, Ended(more), InTurn(more), Len(more) \in Nat,
         Continue(rides, more), NEW from \in Int, NEW to \in Int
  PROVE  /\ SharedWithin(rides, from, to) \in Nat /\ SharedWithin(more, from, to) \in Nat
         /\ SharedWithin(rides, from, to) <= SharedWithin(more, from, to)
  <1> DEFINE h == Shares(rides, from, to)
             l == Shares(more, from, to)
             n == Len(more)
  <1>1. h \in [Nat -> Nat] /\ l \in [Nat -> Nat]
    BY SharesType
  <1>2. SharedWithin(rides, from, to) = Upto(h, n) /\ SharedWithin(more, from, to) = Upto(l, n)
    <2>1. Len(rides) <= n /\ n <= n
      BY DEF Continue
    <2>2. QED
      BY <2>1, SharedIs
  <1>3. ASSUME NEW i \in 1..n PROVE h[i] <= l[i]
    <2>1. i \in Nat /\ h[i] \in Nat /\ l[i] \in Nat
      BY <1>1
    <2>2. CASE i \notin 2..Len(rides)
      <3>1. h[i] = 0
        BY <2>1, <2>2 DEF Shares
      <3>2. QED
        BY <2>1, <3>1
    <2>3. CASE i \in 2..Len(rides)
      <3>1. i \in 1..Len(rides) /\ i - 1 \in 1..Len(rides) /\ rides[i - 1].end # NULL
        BY <2>3, Before
      <3>2. more[i].start = rides[i].start /\ more[i - 1] = rides[i - 1]
        BY <3>1 DEF Continue
      <3>3. i \in 2..n
        BY <2>3 DEF Continue
      <3>4. h[i] = l[i]
        BY <2>1, <2>3, <3>2, <3>3 DEF Shares, Shared
      <3>5. QED
        BY <2>1, <3>4
    <2>4. QED
      BY <2>2, <2>3
  <1> HIDE DEF h, l
  <1>4. Upto(h, n) \in Nat /\ Upto(l, n) \in Nat /\ Upto(h, n) <= Upto(l, n)
    BY <1>1, <1>3, UptoBelow, UptoSteps
  <1>5. QED
    BY <1>2, <1>4

(* Up to a session, the parts of the sessions are no more than what of the *)
(* window lies before where it came to, and what they shared.              *)
Done(session, from, to) ==
  IF session.end = NULL THEN to - from ELSE Reach(Reached(session), from, to)

LEMMA OneSession ==
  ASSUME NEW rides, Ended(rides), NEW i \in 1..Len(rides),
         NEW from \in Int, NEW to \in Int, from <= to
  PROVE  /\ Done(rides[i], from, to) \in Nat /\ Done(rides[i], from, to) <= to - from
         /\ Reach(rides[i].start, from, to) \in Nat /\ EngineOn(rides[i], from, to) \in Nat
         /\ Reach(rides[i].start, from, to) + EngineOn(rides[i], from, to) <= Done(rides[i], from, to)
  <1>1. PICK x \in Nat, y \in Nat \cup {NULL} : x = rides[i].start /\ y = rides[i].end
    BY DEF Ended
  <1>2. EngineOn(rides[i], from, to) \in Nat
    <2>1. Engines(rides, from, to) \in [Nat -> Nat]
      BY PartsType
    <2>2. i \in Nat /\ Engines(rides, from, to)[i] = EngineOn(rides[i], from, to)
      BY DEF Engines
    <2>3. QED
      BY <2>1, <2>2
  <1>3. Reach(x, from, to) \in Nat
    BY Reaches
  <1>4. to - from \in Nat
    OBVIOUS
  <1>5. CASE y = NULL
    <2>1. EngineOn(rides[i], from, to) = Within(x, to, from, to)
      BY <1>1, <1>5 DEF EngineOn, OrAt
    <2>2. Done(rides[i], from, to) = to - from
      BY <1>1, <1>5 DEF Done
    <2>3. Reach(x, from, to) + Within(x, to, from, to) <= to - from
      BY Reaches
    <2>4. QED
      BY <1>1, <1>2, <1>3, <1>4, <2>1, <2>2, <2>3
  <1>6. CASE y # NULL
    <2>1. y \in Nat
      BY <1>6
    <2>2. EngineOn(rides[i], from, to) = Within(x, y, from, to)
      BY <1>1, <1>6 DEF EngineOn, OrAt
    <2>3. PICK z \in Nat : z = Later(x, y)
      BY <2>1 DEF Later
    <2>4. Done(rides[i], from, to) = Reach(z, from, to)
      BY <1>1, <1>6, <2>3 DEF Done, Reached
    <2>5. Reach(z, from, to) \in Nat /\ Reach(z, from, to) <= to - from
      BY Reaches
    <2>6. Reach(x, from, to) + Within(x, y, from, to) <= Reach(z, from, to)
      BY <2>1, <2>3, Reaches
    <2>7. QED
      BY <1>1, <1>2, <1>3, <2>2, <2>4, <2>5, <2>6
  <1>7. QED
    BY <1>5, <1>6

(* A session begins where the one before it came to, or shares the rest.   *)
LEMMA NextSession ==
  ASSUME NEW rides, Ended(rides), InTurn(rides), Len(rides) \in Nat, NEW i \in 2..Len(rides),
         NEW from \in Int, NEW to \in Int, from <= to
  PROVE  Done(rides[i - 1], from, to) <= Reach(rides[i].start, from, to) + Shared(rides, i, from, to)
  <1>1. rides[i - 1].end # NULL /\ rides[i].start \in Nat /\ Reached(rides[i - 1]) \in Nat
    BY Before
  <1>2. PICK x \in Nat, y \in Nat : x = Reached(rides[i - 1]) /\ y = rides[i].start
    BY <1>1
  <1>3. Reach(x, from, to) <= Reach(y, from, to) + Within(y, x, from, to)
    BY Reaches
  <1>4. QED
    BY <1>1, <1>2, <1>3 DEF Done, Shared

LEMMA EnginesFit ==
  ASSUME NEW rides, Ended(rides), InTurn(rides), Len(rides) \in Nat,
         NEW from \in Int, NEW to \in Int, from <= to
  PROVE  Upto(Engines(rides, from, to), Len(rides))
           <= (to - from) + SharedWithin(rides, from, to)
  <1> DEFINE N == Len(rides)
             h == Engines(rides, from, to)
             l == Shares(rides, from, to)
             done(i) == Done(rides[i], from, to)
             Good(n) == IF n = 0 THEN Upto(h, n) = 0 ELSE Upto(h, n) <= done(n) + Upto(l, n)
             S == {n \in Nat : n <= N => Good(n)}
  <1>1. h \in [Nat -> Nat] /\ l \in [Nat -> Nat]
    BY PartsType, SharesType
  <1>2. SharedWithin(rides, from, to) = Upto(l, N)
    BY SharedIs
  <1>3. /\ \A i \in 1..N : h[i] = EngineOn(rides[i], from, to)
        /\ \A i \in 2..N : l[i] = Shared(rides, i, from, to)
    BY DEF Engines, Shares
  <1> HIDE DEF h, l
  <1>4. 0 \in S
    <2>1. Upto(h, 0) = 0
      BY <1>1, UptoSteps
    <2>2. QED
      BY <2>1
  <1>5. ASSUME NEW n \in Nat, n \in S, n + 1 <= N PROVE Good(n + 1)
    <2>1. PICK m \in Nat : m = n + 1
      OBVIOUS
    <2>2. m \in 1..N /\ n <= N /\ m # 0
      BY <1>5, <2>1
    <2>3. /\ done(m) \in Nat /\ Reach(rides[m].start, from, to) \in Nat
          /\ EngineOn(rides[m], from, to) \in Nat
          /\ Reach(rides[m].start, from, to) + EngineOn(rides[m], from, to) <= done(m)
      BY <2>2, OneSession
    <2>4. PICK u \in Nat, v \in Nat, r \in Nat, x \in Nat, y \in Nat, d \in Nat :
            /\ u = Upto(h, n) /\ v = Upto(l, n) /\ r = Reach(rides[m].start, from, to)
            /\ x = EngineOn(rides[m], from, to) /\ y = l[m] /\ d = done(m)
      BY <1>1, <2>3, UptoSteps
    <2>5. r + x <= d
      BY <2>3, <2>4
    <2>6. Upto(h, m) = u + x /\ Upto(l, m) = v + y
      <3>1. Upto(h, n + 1) = Upto(h, n) + h[n + 1] /\ Upto(l, n + 1) = Upto(l, n) + l[n + 1]
        BY <1>1, UptoSteps
      <3>2. h[m] = x
        BY <1>3, <2>2, <2>4
      <3>3. QED
        BY <2>1, <2>4, <3>1, <3>2
    <2>7. u <= r + y + v
      <3>1. Good(n)
        BY <1>5, <2>2
      <3>2. CASE n = 0
        BY <2>4, <3>1, <3>2
      <3>3. CASE n # 0
        <4>1. m \in 2..N /\ m - 1 = n /\ n \in 1..N
          BY <2>1, <2>2, <3>3
        <4>2. done(n) <= r + y
          <5>1. Done(rides[m - 1], from, to) <= Reach(rides[m].start, from, to) + Shared(rides, m, from, to)
            BY <4>1, NextSession
          <5>2. l[m] = Shared(rides, m, from, to)
            BY <1>3, <4>1
          <5>3. QED
            BY <2>4, <4>1, <5>1, <5>2
        <4>3. done(n) \in Nat
          BY <4>1, OneSession
        <4>4. PICK w \in Nat : w = done(n)
          BY <4>3
        <4>5. w <= r + y /\ u <= w + v
          BY <2>4, <3>1, <3>3, <4>2, <4>4
        <4>6. QED
          BY <4>5
      <3>4. QED
        BY <3>2, <3>3
    <2>8. u + x <= d + (v + y)
      BY ONLY <2>5, <2>7, u \in Nat, v \in Nat, r \in Nat, x \in Nat, y \in Nat, d \in Nat
    <2>9. Upto(h, m) <= done(m) + Upto(l, m)
      BY <2>4, <2>6, <2>8
    <2>10. QED
      BY <2>1, <2>2, <2>9
  <1>6. \A n \in Nat : n \in S
    <2>1. \A n \in Nat : n \in S => n + 1 \in S
      <3> HIDE DEF Good
      <3>1. QED
        BY <1>5
    <2> HIDE DEF S
    <2>2. QED
      BY <1>4, <2>1, SetInduction
  <1>7. Good(N)
    <2> HIDE DEF Good
    <2>1. QED
      BY <1>6
  <1>8. Upto(h, N) <= (to - from) + Upto(l, N)
    <2>1. Upto(h, N) \in Nat /\ Upto(l, N) \in Nat /\ to - from \in Nat
      <3>1. Upto(h, N) \in Nat /\ Upto(l, N) \in Nat
        BY <1>1, UptoSteps
      <3>2. to - from \in Nat
        OBVIOUS
      <3>3. QED
        BY <3>1, <3>2
    <2>2. CASE N = 0
      BY <1>7, <2>1, <2>2
    <2>3. CASE N # 0
      <3>1. N \in 1..N
        BY <2>3
      <3>2. done(N) \in Nat /\ done(N) <= to - from
        BY <3>1, OneSession
      <3>3. Upto(h, N) <= done(N) + Upto(l, N)
        BY <1>7, <2>3
      <3>4. PICK x \in Nat, y \in Nat, z \in Nat, d \in Nat :
              x = Upto(h, N) /\ y = Upto(l, N) /\ z = to - from /\ d = done(N)
        BY <2>1, <3>2
      <3>5. x <= d + y /\ d <= z
        BY <3>2, <3>3, <3>4
      <3>6. x <= z + y
        BY <3>5
      <3>7. QED
        BY <3>4, <3>6
    <2>4. QED
      BY <2>2, <2>3
  <1>9. QED
    BY <1>2, <1>8 DEF h

(* Measured: what fetch_fuel_window_metrics says of the sessions.          *)
Measured(rides, engineOn, trips, from, to) ==
  /\ engineOn \in 0..((to - from) + SharedWithin(rides, from, to))
  /\ trips \in Nat
  /\ trips = 0 => engineOn = 0

LEMMA MeasuredGrows ==
  ASSUME NEW rides, Ended(rides), InTurn(rides), Len(rides) \in Nat,
         NEW more, Ended(more), InTurn(more), Len(more) \in Nat,
         Continue(rides, more), NEW from \in Int, NEW to \in Int,
         NEW x, NEW y, Measured(rides, x, y, from, to)
  PROVE  Measured(more, x, y, from, to)
  <1>1. PICK a \in Nat, b \in Nat : /\ a = SharedWithin(rides, from, to) /\ b = SharedWithin(more, from, to)
                                    /\ a <= b
    BY SharedGrows
  <1>2. x \in 0..((to - from) + a) => x \in 0..((to - from) + b)
    BY <1>1
  <1>3. QED
    BY <1>1, <1>2 DEF Measured

LEMMA EngineFits ==
  ASSUME NEW track, NEW rides, Ended(rides), InTurn(rides), Len(rides) \in Nat,
         NEW from \in Nat, NEW to \in Nat, from <= to
  PROVE  LET window == FuelWindow(track, rides, from, to)
         IN Measured(rides, window.engineOn, window.trips, from, to)
  <1> DEFINE T == Overlapping(rides, from, to, to)
             N == Len(rides)
             f == [i \in T |-> EngineOn(rides[i], from, to)]
  <1>1. FuelWindow(track, rides, from, to).engineOn = SumFunction(f)
        /\ FuelWindow(track, rides, from, to).trips = Cardinality(T)
    BY DEF FuelWindow, EngineOn, Within
  <1>2. T \in SUBSET (1..N) /\ IsFiniteSet(T) /\ Cardinality(T) \in Nat
    <2>1. T \in SUBSET (1..N)
      BY DEF Overlapping
    <2>2. IsFiniteSet(1..N)
      BY FS_Interval
    <2> HIDE DEF T
    <2>3. IsFiniteSet(T)
      BY <2>1, <2>2, FS_Subset
    <2>4. QED
      BY <2>1, <2>3, FS_CardinalityType
  <1>3. \A i \in 1..N : EngineOn(rides[i], from, to) \in Nat
    <2>1. from \in Int /\ to \in Int
      OBVIOUS
    <2>2. QED
      BY <2>1, OneSession
  <1>4. f \in [T -> Nat]
    BY <1>2, <1>3
  <1>5. \A i \in 1..N : i \notin T => EngineOn(rides[i], from, to) = 0
    <2> SUFFICES ASSUME NEW i \in 1..N, i \notin T PROVE EngineOn(rides[i], from, to) = 0
      OBVIOUS
    <2>1. PICK x \in Nat, y \in Nat : x = rides[i].start /\ y = OrAt(rides[i].end, to)
      BY DEF Ended, OrAt
    <2>2. ~(x < to /\ y > from)
      BY <2>1 DEF Overlapping
    <2>3. Within(x, y, from, to) = 0
      BY <2>2 DEF Within, Later, Earlier
    <2>4. QED
      BY <2>1, <2>3 DEF EngineOn
  <1>6. Padded(f, T) = Engines(rides, from, to)
    <2>1. \A i \in Nat : (IF i \in T THEN f[i] ELSE 0)
                           = IF i \in 1..N THEN EngineOn(rides[i], from, to) ELSE 0
      <3>1. \A i \in T : i \in 1..N /\ f[i] = EngineOn(rides[i], from, to)
        BY <1>2
      <3> HIDE DEF T, f
      <3>2. QED
        BY <1>5, <3>1
    <2> HIDE DEF T, f
    <2>2. QED
      BY <2>1 DEF Padded, Engines
  <1> HIDE DEF f, T
  <1>7. SumFunction(f) = Upto(Engines(rides, from, to), N)
    BY <1>2, <1>4, <1>6, UptoOf
  <1>8. SumFunction(f) \in 0..((to - from) + SharedWithin(rides, from, to))
    <2>1. SumFunction(f) <= (to - from) + SharedWithin(rides, from, to)
      BY <1>7, EnginesFit
    <2>2. SumFunction(f) \in Nat
      BY <1>2, <1>4, SumType
    <2>3. SharedWithin(rides, from, to) \in Nat
      <3>1. Continue(rides, rides)
        BY DEF Continue
      <3>2. QED
        BY <3>1, SharedGrows
    <2>4. QED
      BY <2>1, <2>2, <2>3
  <1>9. Cardinality(T) = 0 => SumFunction(f) = 0
    <2>1. Cardinality(T) = 0 => T = {}
      BY <1>2, FS_EmptySet
    <2>2. T = {} => SumFunction(f) = 0
      BY <1>2, <1>4, SumType
    <2>3. QED
      BY <2>1, <2>2
  <1>10. QED
    BY <1>1, <1>2, <1>8, <1>9 DEF Measured

(* A report rides no longer than the sessions' parts last.                 *)
LEMMA ReportFits ==
  ASSUME NEW track \in Seq(Located), InOrder(track),
         NEW rides, Ended(rides), InTurn(rides), Len(rides) \in Nat,
         NEW from \in Int, NEW to \in Int, from <= to
  PROVE  Parts(track, rides, from, to).riding <= (to - from) + SharedWithin(rides, from, to)
  <1> DEFINE n == Len(rides)
             g == Rides(track, rides, from, to)
             h == Engines(rides, from, to)
  <1>1. g \in [Nat -> Nat] /\ h \in [Nat -> Nat]
    BY RidesType, PartsType
  <1>2. ASSUME NEW i \in 1..n PROVE g[i] <= h[i]
    <2>1. g[i] = Ridden(track, rides[i], from, to) /\ h[i] = EngineOn(rides[i], from, to)
      BY DEF Rides, Engines
    <2>2. h[i] \in Nat
      BY <1>1
    <2>3. PICK x \in Nat, y \in Int : x = rides[i].start /\ y = OrAt(rides[i].end, to)
      BY DEF Ended, OrAt
    <2>4. PICK a \in Nat, b \in Int : a = Later(x, from) /\ b = Earlier(y, to)
      BY DEF Later, Earlier
    <2>5. From(rides[i], from) = a /\ Until(rides[i], to) = b /\ h[i] = Later(0, b - a)
      BY <2>1, <2>3, <2>4 DEF From, Until, EngineOn, Within
    <2>6. CASE a < b
      <3>1. b \in Nat /\ a <= b /\ Later(0, b - a) = b - a
        BY <2>6 DEF Later
      <3>2. RidingIn(track, a, b) \in 0..(b - a)
        BY <3>1, RidingFits
      <3>3. g[i] = RidingIn(track, a, b)
        BY <2>1, <2>5, <2>6 DEF Ridden
      <3>4. QED
        BY <2>5, <3>1, <3>2, <3>3
    <2>7. CASE ~(a < b)
      <3>1. g[i] = 0
        BY <2>1, <2>5, <2>7 DEF Ridden
      <3>2. QED
        BY <2>2, <3>1
    <2>8. QED
      BY <2>6, <2>7
  <1>3. Parts(track, rides, from, to).riding = Upto(g, n)
    BY ClippedRiding DEF Parts
  <1>4. Upto(h, n) <= (to - from) + SharedWithin(rides, from, to)
    BY EnginesFit
  <1> HIDE DEF g, h
  <1>5. Upto(g, n) <= Upto(h, n)
    BY <1>1, <1>2, UptoBelow
  <1>6. Upto(g, n) \in Nat /\ Upto(h, n) \in Nat
    BY <1>1, UptoSteps
  <1>7. SharedWithin(rides, from, to) \in Nat
    <2>1. Continue(rides, rides)
      BY DEF Continue
    <2>2. QED
      BY <2>1, SharedGrows
  <1>8. QED
    BY <1>3, <1>4, <1>5, <1>6, <1>7

-----------------------------------------------------------------------------
(* Locations stand in the order of their times; of the sessions only the   *)
(* last may be open.                                                       *)
Trips == [start : Nat, end : Nat \cup {NULL}]

RideInv == InOrder(points) /\ sessions \in Seq(Trips) /\ Ended(sessions) /\ InTurn(sessions)

(* What a request that completes a calibration has read fits its window.   *)
CallFits(r) ==
  LET me == req[r]
      started == calibrations[me.id].started
  IN me.op = "complete" =>
       /\ me.step \in {"trips", "write"} => me.riding \in 0..(me.at - started)
       /\ me.step = "write" => Measured(sessions, me.engineOn, me.trips, started, me.at)

FitInv == (\A r \in Requests : CallFits(r)) /\ MetricsWithinWindow

LEMMA InitFits == Init => RideInv /\ FitInv
  <1> SUFFICES ASSUME Init PROVE RideInv /\ FitInv
    OBVIOUS
  <1>1. Len(points) = 0 /\ Len(sessions) = 0 /\ Len(calibrations) = 0
    BY DEF Init
  <1>2. \A i : i \notin 1..0
    OBVIOUS
  <1>3. \A i : i \notin 1..(0 - 1)
    OBVIOUS
  <1>4. RideInv
    <2>1. sessions \in Seq(Trips)
      BY DEF Init
    <2>2. QED
      BY <1>1, <1>2, <1>3, <2>1 DEF RideInv, InOrder, Ended, InTurn
  <1>5. MetricsWithinWindow
    BY <1>1, <1>2 DEF MetricsWithinWindow, Finished
  <1>6. \A r \in Requests : CallFits(r)
    BY DEF Init, Free, Outside, CallFits
  <1>7. QED
    BY <1>4, <1>5, <1>6 DEF FitInv

-----------------------------------------------------------------------------
LEMMA MoveRides ==
  ASSUME IInv, RideInv, NEW at \in 0..now, NEW place \in 1..(Len(points) + 1),
         NEW move \in budget.moves, Move(at, place, move[1], move[2], move[3])
  PROVE  RideInv'
  <1> DEFINE n == Len(points)
             p == [at |-> at, pos |-> move[1], speed |-> move[2]]
  <1>1. points \in Seq(Located) /\ n \in Nat /\ now \in Nat
    BY DEF IInv, WorldInv, Located
  <1>2. /\ points' = InsertAt(points, place, p) /\ sessions' = sessions
        /\ place > 1 => points[place - 1].at <= at
        /\ place <= n => at < points[place].at
    BY DEF Move
  <1>3. place \in Nat /\ at \in Nat /\ place <= n + 1
    BY <1>1
  <1>4. Placed(points, place, p)
    <2>1. move[1] \in Nat /\ move[2] \in Nat
      BY DEF IInv, WorldInv
    <2>2. p \in Located
      BY <1>3, <2>1 DEF Located
    <2> HIDE DEF p
    <2>3. QED
      BY <1>1, <2>2, Inserted
  <1>5. p.at = at
    OBVIOUS
  <1> HIDE DEF p
  <1>6. /\ Len(points') = n + 1
        /\ \A i \in 1..(n + 1) :
             points'[i] = IF i < place THEN points[i] ELSE IF i = place THEN p ELSE points[i - 1]
    BY <1>2, <1>4 DEF Placed
  <1>7. \A i \in 1..n : points[i].at \in Nat
    <2>1. \A i \in 1..n : points[i] \in Located
      BY <1>1, ElementOfSeq
    <2>2. QED
      BY <2>1 DEF Located
  <1>8. \A i \in 1..(n - 1) : points[i].at <= points[i + 1].at
    BY DEF RideInv, InOrder
  <1> HIDE DEF n
  <1>9. ASSUME NEW i \in 1..n PROVE points'[i].at <= points'[i + 1].at
    <2>1. i \in Nat /\ i \in 1..(n + 1) /\ i + 1 \in 1..(n + 1)
      BY <1>1
    <2>2. CASE i + 1 < place
      <3>1. i < place /\ i \in 1..(n - 1)
        BY <1>1, <1>3, <2>1, <2>2
      <3>2. points'[i] = points[i] /\ points'[i + 1] = points[i + 1]
        BY <1>6, <2>1, <2>2, <3>1
      <3>3. QED
        BY <1>8, <3>1, <3>2
    <2>3. CASE i + 1 = place
      <3>1. i < place /\ place > 1 /\ i = place - 1
        BY <1>3, <2>1, <2>3
      <3>2. points'[i] = points[i] /\ points'[i + 1] = p
        BY <1>6, <2>1, <2>3, <3>1
      <3>3. QED
        BY <1>2, <1>5, <3>1, <3>2
    <2>4. CASE i = place
      <3>1. i + 1 > place /\ place <= n /\ (i + 1) - 1 = place /\ ~(i + 1 < place) /\ i + 1 # place
        BY <1>1, <1>3, <2>1, <2>4
      <3>2. points'[i] = p /\ points'[i + 1] = points[place]
        BY <1>6, <2>1, <2>4, <3>1
      <3>3. at <= points[place].at
        BY <1>2, <1>3, <1>7, <2>4, <3>1
      <3>4. QED
        BY <1>5, <3>2, <3>3
    <2>5. CASE i > place
      <3>1. PICK j \in 1..(n - 1) : i = j + 1
        <4>1. i - 1 \in 1..(n - 1) /\ i = (i - 1) + 1
          BY <1>1, <1>3, <2>1, <2>5
        <4>2. QED
          BY <4>1
      <3>2. /\ ~(i < place) /\ i # place /\ ~(i + 1 < place) /\ i + 1 # place
            /\ i - 1 = j /\ (i + 1) - 1 = j + 1
        BY <1>3, <2>1, <2>5, <3>1
      <3>3. points'[i] = points[j] /\ points'[i + 1] = points[j + 1]
        BY <1>6, <2>1, <3>2
      <3>4. QED
        BY <1>8, <3>3
    <2>6. i + 1 < place \/ i + 1 = place \/ i = place \/ i > place
      BY <1>3, <2>1
    <2>7. QED
      BY <2>2, <2>3, <2>4, <2>5, <2>6
  <1>10. InOrder(points')
    <2>1. Len(points') - 1 = n
      BY <1>1, <1>6
    <2>2. QED
      BY <1>9, <2>1 DEF InOrder
  <1>11. QED
    BY <1>2, <1>10 DEF RideInv

LEMMA OpenRides ==
  ASSUME RideInv, NEW at \in Nat, OpenSession(at)
  PROVE  RideInv' /\ Continue(sessions, sessions')
  <1> DEFINE n == Len(sessions)
             s == [start |-> at, end |-> NULL]
  <1>1. sessions \in Seq(Trips) /\ n \in Nat
    BY DEF RideInv
  <1>2. sessions' = Append(sessions, s) /\ points' = points /\ ~Riding
    BY DEF OpenSession
  <1>3. s \in Trips /\ s.start = at /\ s.end = NULL
    BY DEF Trips
  <1>4. /\ sessions' \in Seq(Trips) /\ Len(sessions') = n + 1 /\ sessions'[n + 1] = s
        /\ \A i \in 1..n : sessions'[i] = sessions[i]
    BY <1>1, <1>2, <1>3
  <1>5. \A i \in 1..(n + 1) : i \in 1..n \/ i = n + 1
    BY <1>1
  <1>6. n # 0 => sessions[n].end # NULL
    <2>1. n # 0 => sessions # <<>>
      BY <1>1
    <2>2. QED
      BY <1>2, <2>1 DEF Riding, Last
  <1> HIDE DEF s
  <1>7. Ended(sessions')
    <2>1. \A i \in 1..n : sessions[i].start \in Nat /\ sessions[i].end \in Nat \cup {NULL}
      BY DEF RideInv, Ended
    <2> HIDE DEF n
    <2>2. QED
      BY <1>3, <1>4, <1>5, <2>1 DEF Ended
  <1>8. InTurn(sessions')
    <2> SUFFICES ASSUME NEW i \in 1..(n + 1), i + 1 \in 1..(n + 1) PROVE sessions'[i].end # NULL
      BY <1>4 DEF InTurn
    <2>1. i \in 1..n /\ (i = n \/ i + 1 \in 1..n)
      BY <1>1
    <2>2. CASE i = n
      BY <1>1, <1>4, <1>6, <2>1, <2>2
    <2>3. CASE i + 1 \in 1..n
      BY <1>4, <2>1, <2>3 DEF RideInv, InTurn
    <2>4. QED
      BY <2>1, <2>2, <2>3
  <1>9. Continue(sessions, sessions')
    <2>1. n <= n + 1
      BY <1>1
    <2>2. QED
      BY <1>4, <2>1 DEF Continue
  <1>10. QED
    BY <1>2, <1>4, <1>7, <1>8, <1>9 DEF RideInv

LEMMA CloseRides ==
  ASSUME RideInv, NEW end \in Nat, CloseSession(end)
  PROVE  RideInv' /\ Continue(sessions, sessions')
  <1> DEFINE n == Len(sessions)
             s == [sessions[n] EXCEPT !.end = end]
  <1>1. sessions \in Seq(Trips) /\ n \in Nat
    BY DEF RideInv
  <1>2. /\ sessions' = [sessions EXCEPT ![n] = s] /\ points' = points
        /\ sessions # <<>> /\ sessions[n].end = NULL
    BY DEF CloseSession, Riding, Last
  <1>3. n \in 1..n
    BY <1>1, <1>2
  <1>4. sessions[n] \in Trips
    BY <1>1, <1>3, ElementOfSeq
  <1>5. s \in Trips /\ s.start = sessions[n].start /\ s.end = end
    BY <1>4 DEF Trips
  <1>6. end # NULL
    BY MetricsAssumption DEF MetricsAssumption
  <1> HIDE DEF s
  <1>7. /\ sessions' \in Seq(Trips) /\ Len(sessions') = n /\ sessions'[n] = s
        /\ \A i \in 1..n : i # n => sessions'[i] = sessions[i]
    BY <1>1, <1>2, <1>3, <1>5, ExceptSeq
  <1>8. Ended(sessions')
    <2> SUFFICES ASSUME NEW i \in 1..n
                 PROVE  sessions'[i].start \in Nat /\ sessions'[i].end \in Nat \cup {NULL}
      BY <1>7 DEF Ended
    <2>1. sessions[i].start \in Nat /\ sessions[i].end \in Nat \cup {NULL}
      BY DEF RideInv, Ended
    <2>2. QED
      BY <1>5, <1>7, <2>1
  <1>9. InTurn(sessions')
    <2> SUFFICES ASSUME NEW i \in 1..n, i + 1 \in 1..n PROVE sessions'[i].end # NULL
      BY <1>7 DEF InTurn
    <2>1. sessions[i].end # NULL
      BY DEF RideInv, InTurn
    <2>2. QED
      BY <1>5, <1>6, <1>7, <2>1
  <1>10. Continue(sessions, sessions')
    <2>1. n <= n
      BY <1>1
    <2>2. QED
      BY <1>2, <1>5, <1>7, <2>1 DEF Continue
  <1>11. QED
    BY <1>2, <1>7, <1>8, <1>9, <1>10 DEF RideInv

LEMMA NextRides == IInv /\ RideInv /\ [Next]_vars => RideInv'
  <1> SUFFICES ASSUME IInv, RideInv, [Next]_vars PROVE RideInv'
    OBVIOUS
  <1>1. now \in Nat
    BY DEF IInv, WorldInv
  <1>2. ASSUME NEW at \in 0..now, OpenSession(at) PROVE RideInv'
    BY <1>1, <1>2, OpenRides
  <1>3. ASSUME NEW at \in 0..now, CloseSession(at) PROVE RideInv'
    BY <1>1, <1>3, CloseRides
  <1>4. ASSUME NEW at \in 0..now, NEW place \in 1..(Len(points) + 1), NEW move \in budget.moves,
               Move(at, place, move[1], move[2], move[3])
        PROVE  RideInv'
    BY <1>4, MoveRides
  <1>5. CASE world' = world
    BY <1>5 DEF world, RideInv
  <1>6. ASSUME NEW r \in Requests, RequestStep(r) \/ Fail(r)
        PROVE  world' = world
    BY <1>6 DEF RequestStep, Acquire, TakeLock, Read, ReadRiding, ReadTrips, Write, Load, TimesOut, Fail
  <1>7. ASSUME NEW r \in Requests, NEW op, NEW id, Arrive(r, op, id)
        PROVE  world' = world
    BY <1>7 DEF Arrive
  <1>8. CASE Tick
    BY <1>5, <1>8 DEF Tick
  <1>9. QED
    BY <1>2, <1>3, <1>4, <1>5, <1>6, <1>7, <1>8 DEF Next, vars

-----------------------------------------------------------------------------
(* What fetch_fuel_window_metrics computes fits the window it is given.    *)
LEMMA SessionsType == RideInv => Ended(sessions) /\ InTurn(sessions) /\ Len(sessions) \in Nat
  <1> SUFFICES ASSUME RideInv PROVE Len(sessions) \in Nat
    BY DEF RideInv
  <1>1. sessions \in Seq(Trips)
    BY DEF RideInv
  <1>2. QED
    BY <1>1, LenProperties

LEMMA WindowFits ==
  ASSUME IInv, RideInv, NEW from \in Nat, NEW to \in Nat, from <= to
  PROVE  LET window == FuelWindow(points, sessions, from, to)
         IN /\ window.riding \in 0..(to - from)
            /\ Measured(sessions, window.engineOn, window.trips, from, to)
  <1>1. points \in Seq(Located) /\ InOrder(points)
    BY DEF IInv, WorldInv, RideInv, Located
  <1>2. RidingIn(points, from, to) \in 0..(to - from)
    BY <1>1, RidingFits
  <1>3. FuelWindow(points, sessions, from, to).riding = RidingIn(points, from, to)
    BY DEF FuelWindow, RidingIn
  <1>4. Ended(sessions) /\ InTurn(sessions) /\ Len(sessions) \in Nat
    BY SessionsType
  <1>5. LET window == FuelWindow(points, sessions, from, to)
        IN Measured(sessions, window.engineOn, window.trips, from, to)
    BY <1>4, EngineFits
  <1>6. QED
    BY <1>2, <1>3, <1>5

(* The calibration of a request past the checks began before the request   *)
(* came.                                                                   *)
LEMMA WindowOfCall ==
  ASSUME IInv, NEW r \in Requests, req[r].step \in Locked, req[r].op = "complete"
  PROVE  /\ req[r].at \in Nat /\ calibrations[req[r].id].started \in Nat
         /\ calibrations[req[r].id].started <= req[r].at
  <1> PICK M : Typed(M)
    BY DEF IInv
  <1>1. req[r].at \in Nat
    BY DEF Typed, Calls
  <1>2. req[r].id \in 1..Len(calibrations) /\ calibrations[req[r].id].started <= req[r].at
    BY DEF IInv, CallsInv, CallInv
  <1>3. calibrations[req[r].id] \in Rows(M)
    BY <1>2 DEF Typed
  <1>4. QED
    BY <1>1, <1>2, <1>3 DEF Rows

(* Nothing is written, and what r has read fits.                           *)
LEMMA CallFitsStep ==
  ASSUME FitInv, NEW r, calibrations' = calibrations, sessions' = sessions,
         \A q \in Requests \ {r} : req'[q] = req[q],
         r \in Requests => CallFits(r)'
  PROVE  FitInv'
  <1>1. MetricsWithinWindow'
    BY DEF FitInv, MetricsWithinWindow, Finished
  <1>2. ASSUME NEW q \in Requests PROVE CallFits(q)'
    <2>1. CASE q = r
      BY <2>1
    <2>2. CASE q # r
      BY <2>2 DEF FitInv, CallFits
    <2>3. QED
      BY <2>1, <2>2
  <1>3. QED
    BY <1>1, <1>2 DEF FitInv

LEMMA OutsideFits ==
  ASSUME NEW r \in Requests, NEW op, NEW step, step \notin {"trips", "write"}, NEW at, NEW id, NEW code,
         req'[r] = Outside(op, step, at, id, code)
  PROVE  CallFits(r)'
  BY DEF CallFits, Outside

LEMMA ReadRidingFits ==
  ASSUME IInv, RideInv, FitInv, NEW r \in Requests, ReadRiding(r)
  PROVE  FitInv'
  <1> PICK M : Typed(M)
    BY DEF IInv
  <1> DEFINE x == FuelWindow(points, sessions, calibrations[req[r].id].started, req[r].at).riding
  <1>1. /\ calibrations' = calibrations /\ sessions' = sessions /\ req[r].step = "riding"
        /\ req' = [req EXCEPT ![r].step = "trips", ![r].riding = x]
    BY DEF ReadRiding, world
  <1>2. req[r].op = "complete"
    BY <1>1 DEF IInv, CallsInv, CallInv
  <1>3. x \in 0..(req[r].at - calibrations[req[r].id].started)
    BY <1>1, <1>2, WindowOfCall, WindowFits DEF Locked
  <1> HIDE DEF x
  <1>4. /\ req'[r].step = "trips" /\ req'[r].riding = x /\ req'[r].at = req[r].at
        /\ req'[r].id = req[r].id
        /\ \A q \in Requests \ {r} : req'[q] = req[q]
    BY <1>1 DEF Typed, Calls
  <1>5. CallFits(r)'
    BY <1>1, <1>3, <1>4 DEF CallFits
  <1>6. QED
    BY <1>1, <1>4, <1>5, CallFitsStep

LEMMA ReadTripsFits ==
  ASSUME IInv, RideInv, FitInv, NEW r \in Requests, ReadTrips(r)
  PROVE  FitInv'
  <1> PICK M : Typed(M)
    BY DEF IInv
  <1> DEFINE w == FuelWindow(points, sessions, calibrations[req[r].id].started, req[r].at)
             x == w.engineOn
             y == w.trips
  <1>1. /\ calibrations' = calibrations /\ sessions' = sessions /\ req[r].step = "trips"
        /\ req' = [req EXCEPT ![r].step = "write", ![r].engineOn = x, ![r].trips = y]
    BY DEF ReadTrips, world
  <1>2. req[r].op = "complete"
    BY <1>1 DEF IInv, CallsInv, CallInv
  <1>3. Measured(sessions, x, y, calibrations[req[r].id].started, req[r].at)
    BY <1>1, <1>2, WindowOfCall, WindowFits DEF Locked
  <1>4. req[r].riding \in 0..(req[r].at - calibrations[req[r].id].started)
    BY <1>1, <1>2 DEF FitInv, CallFits
  <1> HIDE DEF w, x, y
  <1>5. /\ req'[r].step = "write" /\ req'[r].engineOn = x /\ req'[r].trips = y
        /\ req'[r].at = req[r].at /\ req'[r].id = req[r].id /\ req'[r].riding = req[r].riding
        /\ \A q \in Requests \ {r} : req'[q] = req[q]
    BY <1>1 DEF Typed, Calls
  <1>6. CallFits(r)'
    BY <1>1, <1>3, <1>4, <1>5 DEF CallFits
  <1>7. QED
    BY <1>1, <1>5, <1>6, CallFitsStep

LEMMA PlainStepFits ==
  ASSUME IInv, FitInv, NEW r \in Requests,
         \/ Acquire(r) \/ TakeLock(r) \/ Read(r) \/ Load(r) \/ TimesOut(r) \/ Fail(r)
         \/ \E op \in {"start", "restart", "get", "complete"} : \E id : Arrive(r, op, id)
  PROVE  FitInv'
  <1> PICK M : Typed(M)
    BY DEF IInv
  <1>1. calibrations' = calibrations /\ sessions' = sessions
    BY DEF Acquire, TakeLock, Read, Load, TimesOut, Fail, Arrive, world
  <1>2. CASE \E code : req' = Answered(r, code)
    <2>1. PICK code : req' = Answered(r, code)
      BY <1>2
    <2>2. /\ req'[r] = Outside(req[r].op, "done", 0, req[r].id, code)
          /\ \A q \in Requests \ {r} : req'[q] = req[q]
      BY <2>1 DEF Answered, Typed
    <2>3. CallFits(r)'
      BY <2>2, OutsideFits
    <2>4. QED
      BY <1>1, <2>2, <2>3, CallFitsStep
  <1>3. CASE Acquire(r)
    <2>1. req' = [req EXCEPT ![r].step = "lock", ![r].holds = TRUE]
      BY <1>3 DEF Acquire
    <2>2. req'[r].step = "lock" /\ \A q \in Requests \ {r} : req'[q] = req[q]
      BY <2>1 DEF Typed, Calls
    <2>3. CallFits(r)'
      BY <2>2 DEF CallFits
    <2>4. QED
      BY <1>1, <2>2, <2>3, CallFitsStep
  <1>4. CASE TakeLock(r)
    <2>1. req' = [req EXCEPT ![r].step = "read"]
      BY <1>4 DEF TakeLock
    <2>2. req'[r].step = "read" /\ \A q \in Requests \ {r} : req'[q] = req[q]
      BY <2>1 DEF Typed, Calls
    <2>3. CallFits(r)'
      BY <2>2 DEF CallFits
    <2>4. QED
      BY <1>1, <2>2, <2>3, CallFitsStep
  <1>5. CASE Read(r) /\ Refusal(r) = 0
    <2> DEFINE step == IF req[r].op = "complete" THEN "riding" ELSE "write"
    <2>1. req' = [req EXCEPT ![r].distance = total, ![r].step = step]
      BY <1>5 DEF Read
    <2>2. step = "riding" \/ (step = "write" /\ req[r].op # "complete")
      OBVIOUS
    <2> HIDE DEF step
    <2>3. /\ req'[r].step = step /\ req'[r].op = req[r].op
          /\ \A q \in Requests \ {r} : req'[q] = req[q]
      BY <2>1 DEF Typed, Calls
    <2>4. CallFits(r)'
      BY <2>2, <2>3 DEF CallFits
    <2>5. QED
      BY <1>1, <2>3, <2>4, CallFitsStep
  <1>6. CASE Read(r) /\ Refusal(r) # 0
    <2>1. req' = Answered(r, Refusal(r))
      BY <1>6 DEF Read
    <2>2. QED
      BY <1>2, <2>1
  <1>7. CASE Load(r) \/ TimesOut(r) \/ Fail(r)
    <2>1. \E code : req' = Answered(r, code)
      BY <1>7 DEF Load, TimesOut, Fail
    <2>2. QED
      BY <1>2, <2>1
  <1>8. CASE \E op \in {"start", "restart", "get", "complete"} : \E id : Arrive(r, op, id)
    <2>1. PICK op, id, step : /\ step \notin {"trips", "write"}
                              /\ req' = [req EXCEPT ![r] = Outside(op, step, now, id, 0)]
      <3>1. PICK op, id : Arrive(r, op, id)
        BY <1>8
      <3> DEFINE step == IF op = "get" THEN "load" ELSE "begin"
      <3>2. step \notin {"trips", "write"}
        OBVIOUS
      <3>3. req' = [req EXCEPT ![r] = Outside(op, step, now, id, 0)]
        BY <3>1 DEF Arrive
      <3> HIDE DEF step
      <3>4. QED
        BY <3>2, <3>3
    <2>2. req'[r] = Outside(op, step, now, id, 0) /\ \A q \in Requests \ {r} : req'[q] = req[q]
      BY <2>1 DEF Typed
    <2>3. CallFits(r)'
      BY <2>1, <2>2, OutsideFits
    <2>4. QED
      BY <1>1, <2>2, <2>3, CallFitsStep
  <1>9. QED
    BY <1>3, <1>4, <1>5, <1>6, <1>7, <1>8

-----------------------------------------------------------------------------
(* The metrics of a row fit its window.                                    *)
RowFits(rides, c) ==
  c.status = "completed" =>
    /\ c.riding \in 0..(c.completed - c.started)
    /\ Measured(rides, c.engineOn, c.trips, c.started, c.completed)

LEMMA RowsFit ==
  MetricsWithinWindow <=> \A i \in 1..Len(calibrations) : RowFits(sessions, calibrations[i])
  BY DEF MetricsWithinWindow, RowFits, Measured, Finished

LEMMA WriteFits ==
  ASSUME IInv, RideInv, FitInv, NEW r \in Requests, Write(r)
  PROVE  FitInv'
  <1> PICK M : Typed(M)
    BY DEF IInv
  <1> DEFINE me == req[r]
             k == me.id
             row == calibrations[k]
             n == Len(calibrations)
  <1>1. /\ me \in Calls(M) /\ CallInv(r) /\ me.step = "write" /\ lock = r
        /\ me.op \in {"start", "restart", "complete"}
        /\ req' = [req EXCEPT ![r] = Outside(me.op, "load", 0, me.id, 0)]
        /\ me.op = "start" => calibrations' = Append(calibrations, Begun(r))
        /\ me.op = "restart" => calibrations' = Append(Invalidated(calibrations), Begun(r))
    BY WriteFacts
  <1>2. ASSUME NEW q \in Requests PROVE CallFits(q)'
    <2>1. CASE q = r
      <3>1. req'[r] = Outside(me.op, "load", 0, me.id, 0)
        BY <1>1 DEF Typed
      <3>2. CallFits(r)'
        BY <3>1, OutsideFits
      <3>3. QED
        BY <2>1, <3>2
    <2>2. CASE q # r
      <3>1. req'[q] = req[q]
        BY <1>1, <2>2 DEF Typed
      <3>2. req[q].step \notin {"trips", "write"}
        BY <1>1, <2>2 DEF IInv, CallsInv, CallInv, Locked
      <3>3. QED
        BY <3>1, <3>2 DEF CallFits
    <2>3. QED
      BY <2>1, <2>2
  <1>3. \A i \in 1..n : RowFits(sessions, calibrations[i]) /\ calibrations[i] \in Rows(M)
    BY RowsFit DEF FitInv, Typed
  <1>4. n \in Nat /\ \A i \in 1..(n + 1) : i \in 1..n \/ i = n + 1
    BY DEF Typed
  <1>5. sessions' = sessions
    BY DEF Write, world
  <1>6. CASE me.op \in {"start", "restart"}
    <2> DEFINE rows == IF me.op = "start" THEN calibrations ELSE Invalidated(calibrations)
    <2>1. Begun(r) \in Rows(M \cup {0})
      BY BegunRow
    <2>2. RowFits(sessions, Begun(r))
      BY DEF Begun, RowFits
    <2>3. /\ Len(rows) = n /\ rows \in Seq(Rows(M))
          /\ \A i \in 1..n : \/ rows[i] = calibrations[i]
                             \/ /\ calibrations[i].status = "active"
                                /\ rows[i] = [calibrations[i] EXCEPT !.status = "invalidated"]
      <3>1. CASE me.op = "start"
        BY <3>1 DEF Typed
      <3>2. CASE me.op = "restart"
        <4>1. rows = Invalidated(calibrations)
          BY <3>2
        <4>2. rows \in Seq(Rows(M)) /\ Len(rows) = n
          BY <4>1, InvalidatedRows
        <4>3. \A i \in 1..n : \/ rows[i] = calibrations[i]
                              \/ /\ calibrations[i].status = "active"
                                 /\ rows[i] = [calibrations[i] EXCEPT !.status = "invalidated"]
          BY <4>1 DEF Invalidated
        <4>4. QED
          BY <4>2, <4>3
      <3>3. QED
        BY <1>6, <3>1, <3>2
    <2>4. calibrations' = Append(rows, Begun(r))
      BY <1>1, <1>6
    <2> HIDE DEF rows
    <2>5. \A i \in 1..n : RowFits(sessions, rows[i])
      <3> SUFFICES ASSUME NEW i \in 1..n PROVE RowFits(sessions, rows[i])
        OBVIOUS
      <3>1. CASE rows[i] = calibrations[i]
        BY <1>3, <3>1
      <3>2. CASE rows[i] = [calibrations[i] EXCEPT !.status = "invalidated"]
        <4>1. rows[i].status = "invalidated"
          BY <1>3, <3>2 DEF Rows
        <4>2. QED
          BY <4>1 DEF RowFits
      <3>3. QED
        BY <2>3, <3>1, <3>2
    <2>6. /\ Len(calibrations') = n + 1 /\ calibrations'[n + 1] = Begun(r)
          /\ \A i \in 1..n : calibrations'[i] = rows[i]
      BY <2>3, <2>4
    <2>7. \A i \in 1..Len(calibrations') : RowFits(sessions, calibrations'[i])
      BY <1>4, <2>2, <2>5, <2>6
    <2>8. MetricsWithinWindow'
      BY <1>5, <2>7 DEF MetricsWithinWindow, RowFits, Measured, Finished
    <2>9. QED
      BY <1>2, <2>8 DEF FitInv
  <1>7. CASE me.op = "complete"
    <2> DEFINE result == [row EXCEPT !.status = "completed", !.completed = me.at,
                            !.to = me.distance,
                            !.metres = Later(0, me.distance - row.from),
                            !.riding = me.riding, !.engineOn = me.engineOn, !.trips = me.trips]
    <2>1. k \in 1..n /\ row \in Rows(M)
      BY <1>1, <1>3, <1>7 DEF CallInv, Locked
    <2>2. calibrations' = [calibrations EXCEPT ![k] = result]
      BY <1>7 DEF Write
    <2>3. /\ result.status = "completed" /\ result.completed = me.at /\ result.started = row.started
          /\ result.riding = me.riding /\ result.engineOn = me.engineOn /\ result.trips = me.trips
      BY <2>1 DEF Rows
    <2> HIDE DEF result
    <2>4. RowFits(sessions, result)
      <3>1. /\ me.riding \in 0..(me.at - row.started)
            /\ Measured(sessions, me.engineOn, me.trips, row.started, me.at)
        BY <1>1, <1>7 DEF FitInv, CallFits
      <3>2. QED
        BY <2>3, <3>1 DEF RowFits
    <2>5. /\ Len(calibrations') = n /\ calibrations'[k] = result
          /\ \A i \in 1..n : i # k => calibrations'[i] = calibrations[i]
      BY <2>1, <2>2 DEF Typed
    <2>6. \A i \in 1..Len(calibrations') : RowFits(sessions, calibrations'[i])
      BY <1>3, <2>4, <2>5
    <2>7. MetricsWithinWindow'
      BY <1>5, <2>6 DEF MetricsWithinWindow, RowFits, Measured, Finished
    <2>8. QED
      BY <1>2, <2>7 DEF FitInv
  <1>8. QED
    BY <1>1, <1>6, <1>7

(* What was measured of a window fits it still when a session opens, or    *)
(* comes to its end.                                                       *)
LEMMA SessionsFit ==
  ASSUME IInv, RideInv, RideInv', FitInv, Continue(sessions, sessions'),
         calibrations' = calibrations, req' = req
  PROVE  FitInv'
  <1> PICK M : Typed(M)
    BY DEF IInv
  <1>1. /\ Ended(sessions) /\ InTurn(sessions) /\ Len(sessions) \in Nat
        /\ Ended(sessions') /\ InTurn(sessions') /\ Len(sessions') \in Nat
    <2>1. sessions' \in Seq(Trips) /\ Ended(sessions') /\ InTurn(sessions')
      BY DEF RideInv
    <2>2. Len(sessions') \in Nat
      BY <2>1, LenProperties
    <2>3. QED
      BY <2>1, <2>2, SessionsType
  <1>2. ASSUME NEW from \in Int, NEW to \in Int, NEW x, NEW y, Measured(sessions, x, y, from, to)
        PROVE  Measured(sessions', x, y, from, to)
    BY <1>1, <1>2, MeasuredGrows
  <1>3. ASSUME NEW r \in Requests PROVE CallFits(r)'
    <2> SUFFICES ASSUME req[r].op = "complete", req[r].step = "write"
                 PROVE  Measured(sessions', req[r].engineOn, req[r].trips,
                                 calibrations[req[r].id].started, req[r].at)
      BY DEF FitInv, CallFits
    <2>1. req[r].at \in Int /\ calibrations[req[r].id].started \in Int
      BY WindowOfCall DEF Locked
    <2>2. Measured(sessions, req[r].engineOn, req[r].trips, calibrations[req[r].id].started, req[r].at)
      BY DEF FitInv, CallFits
    <2>3. QED
      BY <1>2, <2>1, <2>2
  <1>4. ASSUME NEW i \in 1..Len(calibrations) PROVE RowFits(sessions', calibrations[i])
    <2> SUFFICES ASSUME calibrations[i].status = "completed"
                 PROVE  RowFits(sessions', calibrations[i])
      BY DEF RowFits
    <2>1. calibrations[i].started \in Int /\ calibrations[i].completed \in Int
      <3>1. /\ calibrations[i].started \in Nat
            /\ calibrations[i].completed \in calibrations[i].started..now
        BY DEF IInv, RowsInv, RowInv, IsRow
      <3>2. now \in Nat
        BY DEF IInv, WorldInv
      <3>3. QED
        BY <3>1, <3>2
    <2>2. RowFits(sessions, calibrations[i])
      BY RowsFit DEF FitInv
    <2>3. QED
      BY <1>2, <2>1, <2>2 DEF RowFits
  <1>5. MetricsWithinWindow'
    BY <1>4 DEF MetricsWithinWindow, RowFits, Measured, Finished
  <1>6. QED
    BY <1>3, <1>5 DEF FitInv

LEMMA NextFits == IInv /\ RideInv /\ FitInv /\ [Next]_vars => FitInv'
  <1> SUFFICES ASSUME IInv, RideInv, FitInv, [Next]_vars PROVE FitInv'
    OBVIOUS
  <1>1. RideInv'
    BY NextRides
  <1>2. CASE calibrations' = calibrations /\ req' = req /\ sessions' = sessions
    BY <1>2 DEF FitInv, CallFits, MetricsWithinWindow, Finished
  <1>3. ASSUME NEW r \in Requests, RequestStep(r) \/ Fail(r) PROVE FitInv'
    BY <1>3, ReadRidingFits, ReadTripsFits, WriteFits, PlainStepFits DEF RequestStep
  <1>4. ASSUME NEW r \in Requests, NEW op \in {"start", "restart", "get", "complete"}, NEW id,
               Arrive(r, op, id)
        PROVE  FitInv'
    BY <1>4, PlainStepFits
  <1>5. now \in Nat
    BY DEF IInv, WorldInv
  <1>6. ASSUME NEW at \in 0..now, OpenSession(at) PROVE FitInv'
    <2>1. Continue(sessions, sessions')
      BY <1>5, <1>6, OpenRides
    <2>2. calibrations' = calibrations /\ req' = req
      BY <1>6 DEF OpenSession
    <2>3. QED
      BY <1>1, <2>1, <2>2, SessionsFit
  <1>7. ASSUME NEW at \in 0..now, CloseSession(at) PROVE FitInv'
    <2>1. Continue(sessions, sessions')
      BY <1>5, <1>7, CloseRides
    <2>2. calibrations' = calibrations /\ req' = req
      BY <1>7 DEF CloseSession
    <2>3. QED
      BY <1>1, <2>1, <2>2, SessionsFit
  <1>8. ASSUME NEW at, NEW place, NEW move, Move(at, place, move[1], move[2], move[3]) PROVE FitInv'
    BY <1>2, <1>8 DEF Move
  <1>9. CASE Tick \/ UNCHANGED vars
    BY <1>2, <1>9 DEF Tick, vars, world
  <1>10. QED
    BY <1>3, <1>4, <1>6, <1>7, <1>8, <1>9 DEF Next

-----------------------------------------------------------------------------
(* The reports are a matter of the state alone.                            *)
LEMMA ReportsRead == IInv /\ RideInv => ReportsWithinRange
  <1> SUFFICES ASSUME IInv, RideInv PROVE ReportsWithinRange
    OBVIOUS
  <1> DEFINE api(day) == ApiDaily(points, sessions, day, now)
             bot(range) == BotReport(points, sessions, range, now)
             w == WibDate(now)
             part(from, to) == Parts(points, sessions, from, to)
  <1>1. /\ points \in Seq(Located) /\ InOrder(points) /\ Ended(sessions) /\ InTurn(sessions)
        /\ Len(sessions) \in Nat /\ now \in Nat
    BY SessionsType DEF RideInv, IInv, WorldInv, Located
  <1>2. w \in Nat /\ DayStart(w) <= now /\ now < DayStart(w + 1)
    BY <1>1, Days
  <1>3. \A d \in Nat : DayStart(d) \in Int
    BY DaysInOrder
  <1>4. \A d \in Nat : api(d) = part(DayStart(d), Earlier(DayStart(d + 1), now))
    BY <1>1, ApiReads
  <1>5. \A from \in Int, to \in Int : bot([from |-> from, to |-> to]) = part(from, Earlier(to, now))
    BY <1>1, BotReads
  <1>6. PICK m \in Nat : m = w - (w % MonthLength) /\ m <= w
    <2>1. PICK k \in Nat \ {0} : k = MonthLength
      BY MetricsAssumption DEF MetricsAssumption
    <2>2. w % k \in 0..w
      BY <1>2
    <2>3. PICK x : x = w % k
      OBVIOUS
    <2>4. w - x \in Nat /\ w - x <= w
      BY <1>2, <2>2, <2>3
    <2>5. QED
      BY <2>1, <2>3, <2>4
  <1>7. MonthStart(now) = DayStart(m)
    BY <1>6 DEF MonthStart
  <1> DEFINE Fits(range) ==
               bot(range).riding <= (Earlier(now, range.to) - range.from)
                                      + SharedWithin(sessions, range.from, Earlier(now, range.to))
  <1>8. ASSUME NEW from \in Int, NEW to \in Int, from <= now, from <= to
        PROVE  Fits([from |-> from, to |-> to])
    <2>1. PICK e \in Int : e = Earlier(now, to) /\ e = Earlier(to, now) /\ from <= e
      BY <1>1, <1>8 DEF Earlier
    <2>2. part(from, e).riding <= (e - from) + SharedWithin(sessions, from, e)
      BY <1>1, <2>1, ReportFits
    <2>3. bot([from |-> from, to |-> to]) = part(from, e)
      BY <1>5, <2>1
    <2> HIDE DEF bot, part
    <2>4. QED
      BY <2>1, <2>2, <2>3
  <1> HIDE DEF api, bot, part, w
  <1>9. Fits(Today(now))
    <2>1. PICK f \in Int : f = DayStart(w) /\ f <= now /\ now \in Int /\ now <= now
      BY <1>1, <1>2, <1>3
    <2>2. Today(now) = [from |-> f, to |-> now]
      BY <2>1 DEF Today, w
    <2> HIDE DEF Fits
    <2>3. QED
      BY <1>8, <2>1, <2>2
  <1>10. Fits(Yesterday(now))
    <2>1. PICK k \in Nat \ {0}, o \in Nat : k = DayLength /\ o = WibOffset
      BY MetricsAssumption DEF MetricsAssumption
    <2>2. PICK x \in Int, y \in Int : x = w * k /\ y = (w - 1) * k /\ y <= x
      <3>1. (w - 1) * k = w * k - k /\ w * k \in Int
        BY <1>2
      <3>2. PICK x \in Int : x = w * k
        BY <3>1
      <3>3. QED
        BY <3>1, <3>2
    <2>3. PICK f \in Int, u \in Int : f = DayStart(w - 1) /\ u = DayStart(w) /\ f <= u
      BY <2>1, <2>2 DEF DayStart
    <2>4. Yesterday(now) = [from |-> f, to |-> u]
      BY <2>3 DEF Yesterday, w
    <2>5. f <= now
      BY <1>1, <1>2, <2>3
    <2> HIDE DEF Fits
    <2>6. QED
      BY <1>8, <2>3, <2>4, <2>5
  <1>11. Fits(Month(now))
    <2>1. PICK f \in Int, u \in Int : f = DayStart(m) /\ u = DayStart(w) /\ f <= u
      BY <1>2, <1>3, <1>6, DaysInOrder
    <2>2. f <= now /\ now \in Int /\ now <= now
      BY <1>1, <1>2, <2>1
    <2>3. Month(now) = [from |-> f, to |-> now]
      BY <1>7, <2>1 DEF Month
    <2> HIDE DEF Fits
    <2>4. QED
      BY <1>8, <2>1, <2>2, <2>3
  <1>12. ASSUME NEW d \in 0..WibDate(now) PROVE Fits(Custom(d, d))
    <2>1. d \in Nat /\ d <= w /\ d + 1 \in Nat /\ d <= d + 1
      BY <1>2 DEF w
    <2>2. PICK f \in Int, u \in Int, v \in Int :
            f = DayStart(d) /\ u = DayStart(w) /\ v = DayStart(d + 1) /\ f <= u /\ f <= v
      BY <1>2, <1>3, <2>1, DaysInOrder
    <2>3. f <= now
      BY <1>1, <1>2, <2>2
    <2>4. Custom(d, d) = [from |-> f, to |-> v]
      BY <2>2 DEF Custom
    <2> HIDE DEF Fits
    <2>5. QED
      BY <1>8, <2>2, <2>3, <2>4
  <1>13. SumFunction([d \in OfMonth |-> api(d).riding]) <= bot(Month(now)).riding
    <2>1. OfMonth = m..w
      <3>1. \A d \in 0..w : DayStart(d) >= DayStart(m) <=> m <= d
        <4>1. SUFFICES ASSUME NEW d \in 0..w PROVE DayStart(d) >= DayStart(m) <=> m <= d
          OBVIOUS
        <4>2. d \in Nat
          BY <1>2
        <4>3. PICK x \in Int, y \in Int : x = DayStart(d) /\ y = DayStart(m)
          BY <1>3, <4>2
        <4>4. m <= d <=> y <= x
          BY <4>2, <4>3, DaysInOrder
        <4>5. QED
          BY <4>3, <4>4
      <3>2. OfMonth = {d \in 0..w : DayStart(d) >= DayStart(m)}
        BY <1>7 DEF OfMonth, w
      <3>3. QED
        BY <1>2, <3>1, <3>2
    <2>2. \A d \in m..w : DayRiding(points, sessions, now)[d] = api(d).riding
      <3>1. \A d \in m..w : d \in Nat
        BY <1>2
      <3>2. QED
        BY <3>1 DEF DayRiding, api
    <2>3. SumFunction([d \in OfMonth |-> api(d).riding]) = Over(DayRiding(points, sessions, now), m, w)
      <3>1. [d \in OfMonth |-> api(d).riding] = [d \in m..w |-> DayRiding(points, sessions, now)[d]]
        BY <2>1, <2>2
      <3>2. QED
        BY <3>1 DEF Over
    <2>4. Over(DayRiding(points, sessions, now), m, w) <= part(DayStart(m), now).riding
      BY <1>1, <1>2, <1>6, DaysWithinMonth DEF w, part
    <2>5. bot(Month(now)) = part(DayStart(m), now)
      <3>1. PICK f \in Int : f = DayStart(m)
        BY <1>3
      <3>2. Month(now) = [from |-> f, to |-> now]
        BY <1>7, <3>1 DEF Month
      <3>3. Earlier(now, now) = now /\ now \in Int
        BY <1>1 DEF Earlier
      <3>4. QED
        BY <1>5, <3>1, <3>2, <3>3
    <2>6. QED
      BY <2>3, <2>4, <2>5
  <1>14. QED
    BY <1>9, <1>10, <1>11, <1>12, <1>13 DEF ReportsWithinRange, api, bot

(* What complete_fuel_calibration writes down as ridden fits the window,   *)
(* although riding time, engine time and trips are read in queries of      *)
(* their own on a second connection while the device goes on riding.       *)
(* Engine time, and the riding time of a report, are summed over sessions  *)
(* that may overlap: they exceed the window by no more than sessions in a  *)
(* row share in it.                                                        *)
(* And the days of get_device_daily_summary add up to no more riding time  *)
(* than the month's report of the bot.                                     *)
THEOREM SpecMetricsAddUp == Spec => []MetricsAddUp
  <1> DEFINE Inv == IInv /\ RideInv /\ FitInv
  <1>1. Init => Inv
    BY InitIInv, InitFits
  <1>2. Inv /\ [Next]_vars => Inv'
    BY NextKeepsIInv, NextRides, NextFits
  <1>3. Inv => MetricsAddUp
    BY ReportsRead DEF FitInv, MetricsAddUp
  <1> QED
    BY <1>1, <1>2, <1>3, PTL DEF Spec
=============================================================================
