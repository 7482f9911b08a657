------------------------- MODULE ServiceDistanceProofs -------------------------
(***************************************************************************)
(* Theorems about ServiceDistance, for any connections, fixes, histories   *)
(* and bounds: the rows of a device are committed in the order of ids, the *)
(* odometer and the days are the history they have counted, and an answer  *)
(* lists the milestones its total has passed.                              *)
(*                                                                         *)
(* First what the recursive definitions compute, by induction over ids and *)
(* days; then what one point, and a rebuild, do to sums that account for   *)
(* some rows; then the steps.                                              *)
(***************************************************************************)
EXTENDS ServiceDistance, FiniteSetTheorems, InductionLemmas, TLAPS

-----------------------------------------------------------------------------
(* Segments, days, sums of metres and their growth.                        *)

Reports == [id : Nat, at : 0..Horizon, pos : Int \cup {NULL}, moving : BOOLEAN]

LEMMA SegmentIsNat ==
  ASSUME NEW p \in Reports, NEW q \in Reports
  PROVE  Segment(p, q) \in Nat
  <1>1. CASE p.pos # NULL /\ q.pos # NULL
    <2>1. p.pos \in Int /\ q.pos \in Int
      BY <1>1 DEF Reports
    <2>2. Abs(q.pos - p.pos) \in Nat
      BY <2>1 DEF Abs
    <2>3. QED
      BY <2>2 DEF Segment
  <1>2. CASE ~ (p.pos # NULL /\ q.pos # NULL)
    BY <1>2 DEF Segment
  <1>3. QED
    BY <1>1, <1>2

LEMMA Division ==
  ASSUME NEW a \in Nat, NEW b \in Nat, NEW k \in Nat \ {0}, a <= b
  PROVE  a \div k \in Nat /\ b \div k \in Nat /\ a \div k <= b \div k
         /\ k * (a \div k) <= a /\ a < k * (a \div k + 1)
  OBVIOUS

LEMMA DayOfReport ==
  /\ WibDate(Horizon) \in Nat
  /\ \A at \in 0..Horizon : WibDate(at) \in Days
  <1>1. WibOffset \in Nat /\ Horizon \in Nat /\ DayLength \in Nat \ {0}
    BY DistanceAssumption DEF DistanceAssumption
  <1>2. ASSUME NEW at \in 0..Horizon PROVE WibDate(at) \in Days
    BY <1>1, Division DEF WibDate, Days
  <1>3. QED
    BY <1>1, <1>2, Division DEF WibDate, Days

(* Times a number: the product grows with the number.                      *)
LEMMA Times ==
  ASSUME NEW k \in Nat, NEW m \in Nat, NEW n \in Nat, m <= n
  PROVE  m * k \in Nat /\ n * k \in Nat /\ m * k <= n * k
  OBVIOUS

(* What the sum over pairs computes, one id at a time.                     *)
LEMMA MetresSteps ==
  ASSUME NEW pairs, \A n \in Nat : MetresInto(pairs, n) \in Nat
  PROVE  /\ Metres(pairs, 0) = 0
         /\ \A n \in Nat : /\ Metres(pairs, n) \in Nat
                           /\ Metres(pairs, n + 1) = Metres(pairs, n) + MetresInto(pairs, n + 1)
  <1> DEFINE Eq(g) == g = [n \in Nat |-> IF n = 0 THEN 0 ELSE g[n - 1] + MetresInto(pairs, n)]
             u == CHOOSE g : Eq(g)
             G == [n \in Nat |-> [v \in Nat |-> v + MetresInto(pairs, n + 1)]]
  <1>1. G \in [Nat -> [Nat -> Nat]]
    OBVIOUS
  <1>2. PICK f : StepsBy(f, Nat, 0, G)
    <2> HIDE DEF G
    <2>1. 0 \in Nat
      OBVIOUS
    <2>2. QED
      BY <1>1, <2>1, Recursion
  <1>3. Eq(f)
    <2>1. f \in [Nat -> Nat] /\ f[0] = 0
          /\ \A n \in Nat : f[n + 1] = f[n] + MetresInto(pairs, n + 1)
      BY <1>2 DEF StepsBy
    <2>2. ASSUME NEW n \in Nat, n # 0 PROVE f[n] = f[n - 1] + MetresInto(pairs, n)
      <3>1. n - 1 \in Nat /\ (n - 1) + 1 = n
        BY <2>2
      <3>2. QED
        BY <2>1, <3>1
    <2>3. \A n \in Nat : f[n] = IF n = 0 THEN 0 ELSE f[n - 1] + MetresInto(pairs, n)
      BY <2>1, <2>2
    <2>4. f = [n \in Nat |-> f[n]]
      BY <2>1
    <2>5. QED
      BY <2>3, <2>4
  <1>4. Eq(u)
    <2> HIDE DEF Eq
    <2>1. QED
      BY <1>3
  <1>5. \A n \in Nat : Metres(pairs, n) = u[n]
    BY DEF Metres
  <1> HIDE DEF u
  <1>6. \A n \in Nat : u[n] = IF n = 0 THEN 0 ELSE u[n - 1] + MetresInto(pairs, n)
    BY <1>4
  <1>7. u[0] = 0 /\ \A n \in Nat : u[n + 1] = u[n] + MetresInto(pairs, n + 1)
    <2>1. \A n \in Nat : n + 1 \in Nat /\ n + 1 # 0 /\ (n + 1) - 1 = n
      OBVIOUS
    <2>2. QED
      BY <1>6, <2>1
  <1>8. \A n \in Nat : u[n] \in Nat
    <2> DEFINE S == {k \in Nat : u[k] \in Nat}
    <2>1. 0 \in S /\ \A n \in Nat : n \in S => n + 1 \in S
      BY <1>7
    <2> HIDE DEF S
    <2>2. \A n \in Nat : n \in S
      BY <2>1, SetInduction
    <2>3. QED
      BY <2>2 DEF S
  <1>9. QED
    BY <1>5, <1>7, <1>8

LEMMA MetresIntoIsNat ==
  ASSUME NEW pairs, pairs \subseteq Reports \X Reports, NEW n
  PROVE  MetresInto(pairs, n) \in Nat
  <1>1. CASE \E p \in pairs : p[2].id = n
    <2> DEFINE p == CHOOSE p \in pairs : p[2].id = n
    <2>1. p \in pairs
      BY <1>1
    <2>2. MetresInto(pairs, n) = Segment(p[1], p[2])
      BY <1>1 DEF MetresInto
    <2> HIDE DEF p
    <2>3. p[1] \in Reports /\ p[2] \in Reports
      BY <2>1
    <2>4. QED
      BY <2>2, <2>3, SegmentIsNat
  <1>2. CASE ~ \E p \in pairs : p[2].id = n
    BY <1>2 DEF MetresInto
  <1>3. QED
    BY <1>1, <1>2

(* Sums over different pairs, compared id by id.                           *)
LEMMA MetresAtMost ==
  ASSUME NEW pairs, NEW more, pairs \subseteq Reports \X Reports, more \subseteq Reports \X Reports,
         \A n \in Nat : MetresInto(pairs, n) <= MetresInto(more, n)
  PROVE  \A n \in Nat : Metres(pairs, n) <= Metres(more, n)
  <1>1. \A n \in Nat : MetresInto(pairs, n) \in Nat /\ MetresInto(more, n) \in Nat
    BY MetresIntoIsNat
  <1> DEFINE S == {n \in Nat : Metres(pairs, n) <= Metres(more, n)}
  <1>2. 0 \in S
    BY <1>1, MetresSteps
  <1>3. ASSUME NEW n \in Nat, n \in S PROVE n + 1 \in S
    <2>1. /\ Metres(pairs, n + 1) = Metres(pairs, n) + MetresInto(pairs, n + 1)
          /\ Metres(more, n + 1) = Metres(more, n) + MetresInto(more, n + 1)
          /\ Metres(pairs, n) \in Nat /\ Metres(more, n) \in Nat
      BY <1>1, MetresSteps
    <2>2. /\ MetresInto(pairs, n + 1) \in Nat /\ MetresInto(more, n + 1) \in Nat
          /\ MetresInto(pairs, n + 1) <= MetresInto(more, n + 1)
      BY <1>1
    <2>3. Metres(pairs, n) <= Metres(more, n)
      BY <1>3
    <2>4. QED
      BY <2>1, <2>2, <2>3
  <1> HIDE DEF S
  <1>4. \A n \in Nat : n \in S
    BY <1>2, <1>3, SetInduction
  <1>5. QED
    BY <1>4 DEF S

LEMMA MetresSame ==
  ASSUME NEW pairs, NEW more, pairs \subseteq Reports \X Reports, more \subseteq Reports \X Reports,
         NEW top \in Nat, \A n \in 0..top : MetresInto(pairs, n) = MetresInto(more, n)
  PROVE  Metres(pairs, top) = Metres(more, top)
  <1>1. \A n \in Nat : MetresInto(pairs, n) \in Nat /\ MetresInto(more, n) \in Nat
    BY MetresIntoIsNat
  <1> DEFINE S == {n \in Nat : n <= top => Metres(pairs, n) = Metres(more, n)}
  <1>2. 0 \in S
    BY <1>1, MetresSteps
  <1>3. ASSUME NEW n \in Nat, n \in S PROVE n + 1 \in S
    <2> SUFFICES ASSUME n + 1 <= top PROVE Metres(pairs, n + 1) = Metres(more, n + 1)
      OBVIOUS
    <2>1. /\ Metres(pairs, n + 1) = Metres(pairs, n) + MetresInto(pairs, n + 1)
          /\ Metres(more, n + 1) = Metres(more, n) + MetresInto(more, n + 1)
      BY <1>1, MetresSteps
    <2>2. Metres(pairs, n) = Metres(more, n)
      BY <1>3
    <2>3. QED
      BY <2>1, <2>2
  <1> HIDE DEF S
  <1>4. \A n \in Nat : n \in S
    BY <1>2, <1>3, SetInduction
  <1>5. QED
    BY <1>4 DEF S

(* Between two ids at which no pair ends, nothing is added.                *)
LEMMA MetresFlat ==
  ASSUME NEW pairs, pairs \subseteq Reports \X Reports, NEW a \in Nat, NEW b \in Nat, a <= b,
         \A n \in Nat : a < n /\ n <= b => MetresInto(pairs, n) = 0
  PROVE  Metres(pairs, b) = Metres(pairs, a)
  <1>1. \A n \in Nat : MetresInto(pairs, n) \in Nat
    BY MetresIntoIsNat
  <1> DEFINE S == {n \in Nat : a <= n /\ n <= b => Metres(pairs, n) = Metres(pairs, a)}
  <1>2. 0 \in S
    OBVIOUS
  <1>3. ASSUME NEW n \in Nat, n \in S PROVE n + 1 \in S
    <2> SUFFICES ASSUME a <= n, n + 1 <= b PROVE Metres(pairs, n + 1) = Metres(pairs, a)
      OBVIOUS
    <2>1. /\ Metres(pairs, n + 1) = Metres(pairs, n) + MetresInto(pairs, n + 1)
          /\ Metres(pairs, n) \in Nat
      BY <1>1, MetresSteps
    <2>2. Metres(pairs, n) = Metres(pairs, a)
      BY <1>3
    <2>3. MetresInto(pairs, n + 1) = 0
      OBVIOUS
    <2>4. QED
      BY <2>1, <2>2, <2>3
  <1> HIDE DEF S
  <1>4. \A n \in Nat : n \in S
    BY <1>2, <1>3, SetInduction
  <1>5. QED
    BY <1>4 DEF S

(* Rows are known by their ids, pairs by the row they end at.              *)
ById(rows) == rows \subseteq Reports /\ \A r, s \in rows : r.id = s.id => r = s

ByEnd(pairs) == /\ pairs \subseteq Reports \X Reports
                /\ \A p, q \in pairs : p[2].id = q[2].id => p = q

LEMMA NeighboursByEnd ==
  ASSUME NEW rows, ById(rows)
  PROVE  ByEnd(Neighbours(rows))
  <1>1. Neighbours(rows) \subseteq Reports \X Reports
    BY DEF Neighbours, ById
  <1>2. ASSUME NEW p \in Neighbours(rows), NEW q \in Neighbours(rows), p[2].id = q[2].id
        PROVE  p = q
    <2>1. /\ p[1] \in rows /\ p[2] \in rows /\ q[1] \in rows /\ q[2] \in rows
          /\ p = <<p[1], p[2]>> /\ q = <<q[1], q[2]>>
          /\ p[1].id < p[2].id /\ q[1].id < q[2].id
          /\ q[1].id <= p[1].id \/ p[2].id <= q[1].id
          /\ p[1].id <= q[1].id \/ q[2].id <= p[1].id
      BY DEF Neighbours
    <2>2. p[1].id \in Nat /\ p[2].id \in Nat /\ q[1].id \in Nat /\ q[2].id \in Nat
      BY <2>1 DEF ById, Reports
    <2>3. p[2] = q[2] /\ p[1].id = q[1].id
      BY <1>2, <2>1, <2>2 DEF ById
    <2>4. p[1] = q[1]
      BY <2>1, <2>3 DEF ById
    <2>5. QED
      BY <2>1, <2>3, <2>4
  <1>3. QED
    BY <1>1, <1>2 DEF ByEnd

LEMMA MetresIntoEnd ==
  ASSUME NEW pairs, ByEnd(pairs), NEW p \in pairs
  PROVE  MetresInto(pairs, p[2].id) = Segment(p[1], p[2])
  <1> DEFINE q == CHOOSE q \in pairs : q[2].id = p[2].id
  <1>1. q \in pairs /\ q[2].id = p[2].id
    OBVIOUS
  <1>2. q = p
    BY <1>1 DEF ByEnd
  <1>3. MetresInto(pairs, p[2].id) = Segment(q[1], q[2])
    BY DEF MetresInto
  <1> HIDE DEF q
  <1>4. QED
    BY <1>2, <1>3

LEMMA MetresIntoNone ==
  ASSUME NEW pairs, NEW n, \A p \in pairs : p[2].id # n
  PROVE  MetresInto(pairs, n) = 0
  BY DEF MetresInto

(* One more pair behind all others.                                        *)
LEMMA MetresGrow ==
  ASSUME NEW pairs, ByEnd(pairs), NEW last \in Reports, NEW row \in Reports, last.id < row.id,
         \A p \in pairs : p[2].id <= last.id
  PROVE  /\ Metres(pairs, row.id) = Metres(pairs, last.id)
         /\ Metres(pairs \cup {<<last, row>>}, row.id)
              = Metres(pairs, last.id) + Segment(last, row)
  <1> DEFINE pair == <<last, row>>
             more == pairs \cup {pair}
  <1>1. last.id \in Nat /\ row.id \in Nat /\ \A p \in pairs : p[2].id \in Nat
    BY DEF Reports, ByEnd
  <1>2. pair[1] = last /\ pair[2] = row /\ pair \in Reports \X Reports
    OBVIOUS
  <1> HIDE DEF pair
  <1>3. ByEnd(more)
    BY <1>1, <1>2 DEF ByEnd
  <1>4. MetresInto(more, row.id) = Segment(last, row)
    <2>1. pair \in more
      OBVIOUS
    <2> HIDE DEF more
    <2>2. QED
      BY <1>2, <1>3, <2>1, MetresIntoEnd
  <1>5. \A n \in 0..last.id : MetresInto(more, n) = MetresInto(pairs, n)
    <2> SUFFICES ASSUME NEW n \in 0..last.id PROVE MetresInto(more, n) = MetresInto(pairs, n)
      OBVIOUS
    <2>1. CASE \E p \in pairs : p[2].id = n
      <3>1. PICK p \in pairs : p[2].id = n
        BY <2>1
      <3>2. p \in more
        OBVIOUS
      <3> HIDE DEF more
      <3>3. QED
        BY <1>3, <3>1, <3>2, MetresIntoEnd
    <2>2. CASE \A p \in pairs : p[2].id # n
      <3>1. \A p \in more : p[2].id # n
        BY <1>1, <1>2, <2>2
      <3> HIDE DEF more
      <3>2. QED
        BY <2>2, <3>1, MetresIntoNone
    <2>3. QED
      BY <2>1, <2>2
  <1>6. \A n \in Nat : last.id < n /\ n < row.id => MetresInto(more, n) = 0
    <2> SUFFICES ASSUME NEW n \in Nat, last.id < n, n < row.id PROVE MetresInto(more, n) = 0
      OBVIOUS
    <2>1. \A p \in more : p[2].id # n
      BY <1>1, <1>2
    <2> HIDE DEF more
    <2>2. QED
      BY <2>1, MetresIntoNone
  <1>7. \A n \in Nat : last.id < n => MetresInto(pairs, n) = 0
    <2> SUFFICES ASSUME NEW n \in Nat, last.id < n PROVE MetresInto(pairs, n) = 0
      OBVIOUS
    <2>1. \A p \in pairs : p[2].id # n
      BY <1>1
    <2>2. QED
      BY <2>1, MetresIntoNone
  <1> HIDE DEF more
  <1>8. pairs \subseteq Reports \X Reports /\ more \subseteq Reports \X Reports
    BY <1>3 DEF ByEnd
  <1>9. Metres(pairs, row.id) = Metres(pairs, last.id)
    BY <1>1, <1>7, <1>8, MetresFlat
  <1>10. Metres(more, last.id) = Metres(pairs, last.id)
    BY <1>1, <1>5, <1>8, MetresSame
  <1>11. PICK n \in Nat : n + 1 = row.id
    <2>1. row.id - 1 \in Nat /\ (row.id - 1) + 1 = row.id
      BY <1>1
    <2>2. QED
      BY <2>1
  <1>12. Metres(more, n) = Metres(more, last.id)
    BY <1>1, <1>6, <1>8, <1>11, MetresFlat
  <1>13. Metres(more, n + 1) = Metres(more, n) + MetresInto(more, n + 1)
    BY <1>8, MetresIntoIsNat, MetresSteps
  <1>14. Metres(more, row.id) = Metres(pairs, last.id) + Segment(last, row)
    BY <1>4, <1>10, <1>11, <1>12, <1>13
  <1>15. QED
    BY <1>9, <1>14 DEF more, pair

LEMMA NeighboursGrow ==
  ASSUME NEW rows, ById(rows), NEW last \in rows, \A r \in rows : r.id <= last.id,
         NEW row \in Reports, last.id < row.id
  PROVE  /\ Neighbours(rows \cup {row}) = Neighbours(rows) \cup {<<last, row>>}
         /\ \A p \in Neighbours(rows) : p[2].id <= last.id
  <1>1. row.id \in Nat /\ \A r \in rows : r.id \in Nat
    BY DEF Reports, ById
  <1>2. ASSUME NEW p \in Neighbours(rows \cup {row})
        PROVE  p \in Neighbours(rows) \cup {<<last, row>>}
    <2>1. /\ p = <<p[1], p[2]>> /\ p[1] \in rows \cup {row} /\ p[2] \in rows \cup {row}
          /\ p[1].id < p[2].id
          /\ \A r \in rows \cup {row} : r.id <= p[1].id \/ p[2].id <= r.id
      BY DEF Neighbours
    <2>2. p[1] \in rows
      BY <1>1, <2>1
    <2>3. CASE p[2] \in rows
      BY <2>1, <2>2, <2>3 DEF Neighbours
    <2>4. CASE p[2] = row
      <3>1. last.id <= p[1].id
        BY <1>1, <2>1, <2>4
      <3>2. p[1] = last
        BY <1>1, <2>2, <3>1 DEF ById
      <3>3. QED
        BY <2>1, <2>4, <3>2
    <2>5. QED
      BY <2>1, <2>3, <2>4
  <1>3. <<last, row>> \in Neighbours(rows \cup {row})
    <2> DEFINE p == <<last, row>>
    <2>1. p[1] = last /\ p[2] = row /\ p \in (rows \cup {row}) \X (rows \cup {row})
      OBVIOUS
    <2> HIDE DEF p
    <2>2. p \in Neighbours(rows \cup {row})
      BY <1>1, <2>1 DEF Neighbours
    <2>3. QED
      BY <2>2 DEF p
  <1>4. ASSUME NEW p \in Neighbours(rows)
        PROVE  p \in Neighbours(rows \cup {row}) /\ p[2].id <= last.id
    <2>1. /\ p \in rows \X rows /\ p[1] \in rows /\ p[2] \in rows
          /\ p[1].id < p[2].id
          /\ \A r \in rows : r.id <= p[1].id \/ p[2].id <= r.id
      BY DEF Neighbours
    <2>2. p \in (rows \cup {row}) \X (rows \cup {row}) /\ p[2].id <= last.id /\ p[2].id <= row.id
      BY <1>1, <2>1
    <2>3. QED
      BY <2>1, <2>2 DEF Neighbours
  <1>5. QED
    BY <1>2, <1>3, <1>4

LEMMA NeighboursOfFew ==
  ASSUME NEW row \in Reports
  PROVE  Neighbours({}) = {} /\ Neighbours({row}) = {}
  <1>1. row.id \in Nat
    BY DEF Reports
  <1>2. QED
    BY <1>1 DEF Neighbours

LastDay == WibDate(Horizon)

(* The metres of the days up to one.                                       *)
LEMMA SumSteps ==
  ASSUME NEW days, days \in [Days -> Nat]
  PROVE  /\ SumUpto(days, 0) = days[0]
         /\ \A d \in Days : SumUpto(days, d) \in Nat
         /\ \A d \in Days : d + 1 \in Days => SumUpto(days, d + 1) = SumUpto(days, d) + days[d + 1]
  <1> DEFINE Eq(g) == g = [e \in Days |-> days[e] + (IF e = 0 THEN 0 ELSE g[e - 1])]
             u == CHOOSE g : Eq(g)
             G == [n \in Nat |-> [v \in Nat |-> v + (IF n + 1 \in Days THEN days[n + 1] ELSE 0)]]
  <1>1. LastDay \in Nat /\ Days = 0..LastDay /\ 0 \in Days
    BY DayOfReport DEF Days, LastDay
  <1>2. G \in [Nat -> [Nat -> Nat]] /\ days[0] \in Nat
    BY <1>1
  <1>3. PICK f : StepsBy(f, Nat, days[0], G)
    <2> HIDE DEF G
    <2>1. QED
      BY <1>2, Recursion
  <1>4. Eq([e \in Days |-> f[e]])
    <2> DEFINE g == [e \in Days |-> f[e]]
    <2>1. f \in [Nat -> Nat] /\ f[0] = days[0]
          /\ \A n \in Nat : n + 1 \in Days => f[n + 1] = f[n] + days[n + 1]
      BY <1>3 DEF StepsBy
    <2>2. ASSUME NEW e \in Days PROVE g[e] = days[e] + (IF e = 0 THEN 0 ELSE g[e - 1])
      <3>1. CASE e = 0
        BY <1>2, <2>1, <3>1
      <3>2. CASE e # 0
        <4>1. e - 1 \in Nat /\ e - 1 \in Days /\ (e - 1) + 1 = e
          BY <1>1, <3>2
        <4>2. f[e] = f[e - 1] + days[e]
          BY <2>1, <4>1
        <4>3. f[e - 1] \in Nat /\ days[e] \in Nat /\ g[e] = f[e] /\ g[e - 1] = f[e - 1]
          BY <2>1, <4>1
        <4>4. QED
          BY <3>2, <4>2, <4>3
      <3>3. QED
        BY <3>1, <3>2
    <2>3. g = [e \in Days |-> g[e]]
      OBVIOUS
    <2> HIDE DEF g
    <2>4. g = [e \in Days |-> days[e] + (IF e = 0 THEN 0 ELSE g[e - 1])]
      BY <2>2, <2>3
    <2>5. QED
      BY <2>4 DEF g
  <1>5. Eq(u)
    <2> HIDE DEF Eq
    <2>1. QED
      BY <1>4
  <1>6. \A d \in Days : SumUpto(days, d) = u[d]
    BY DEF SumUpto
  <1> HIDE DEF u
  <1>7. \A e \in Days : u[e] = days[e] + (IF e = 0 THEN 0 ELSE u[e - 1])
    BY <1>5
  <1>8. u[0] = days[0]
    BY <1>1, <1>2, <1>7
  <1>9. ASSUME NEW d \in Days, d + 1 \in Days PROVE u[d + 1] = days[d + 1] + u[d]
    <2>1. d + 1 # 0 /\ (d + 1) - 1 = d
      BY <1>1
    <2>2. QED
      BY <1>7, <1>9, <2>1
  <1>10. \A d \in Days : u[d] \in Nat
    <2> DEFINE S == {k \in Nat : k \in Days => u[k] \in Nat}
    <2>1. 0 \in S
      BY <1>2, <1>8
    <2>2. ASSUME NEW n \in Nat, n \in S PROVE n + 1 \in S
      <3> SUFFICES ASSUME n + 1 \in Days PROVE u[n + 1] \in Nat
        OBVIOUS
      <3>1. n \in Days
        BY <1>1
      <3>2. u[n] \in Nat /\ days[n + 1] \in Nat
        BY <2>2, <3>1
      <3>3. QED
        BY <1>9, <3>1, <3>2
    <2> HIDE DEF S
    <2>3. \A n \in Nat : n \in S
      BY <2>1, <2>2, SetInduction
    <2>4. QED
      BY <1>1, <2>3 DEF S
  <1>11. \A d \in Days : d + 1 \in Days => u[d + 1] = u[d] + days[d + 1]
    <2> SUFFICES ASSUME NEW d \in Days, d + 1 \in Days PROVE u[d + 1] = u[d] + days[d + 1]
      OBVIOUS
    <2>1. u[d] \in Nat /\ days[d + 1] \in Nat
      BY <1>10
    <2>2. QED
      BY <1>9, <2>1
  <1>12. QED
    BY <1>1, <1>6, <1>8, <1>10, <1>11

(* Metres added to a day are in the sums from that day on.                 *)
LEMMA SumAdded ==
  ASSUME NEW days, days \in [Days -> Nat], NEW at \in 0..Horizon, NEW meters \in Nat
  PROVE  /\ Added(days, at, meters) \in [Days -> Nat]
         /\ \A d \in Days : Added(days, at, meters)[d] =
              (IF d = WibDate(at) THEN days[d] + meters ELSE days[d])
         /\ SumUpto(Added(days, at, meters), LastDay) = SumUpto(days, LastDay) + meters
  <1> DEFINE k == WibDate(at)
             more == Added(days, at, meters)
  <1>1. LastDay \in Nat /\ Days = 0..LastDay /\ k \in Days /\ 0 \in Days /\ LastDay \in Days
    BY DayOfReport DEF Days, LastDay
  <1>2. more = [days EXCEPT ![k] = days[k] + meters]
    BY DEF Added
  <1> HIDE DEF k, more
  <1>3. more \in [Days -> Nat]
    BY <1>1, <1>2
  <1>4. \A d \in Days : more[d] = (IF d = k THEN days[d] + meters ELSE days[d])
    BY <1>1, <1>2
  <1> DEFINE S == {n \in Nat : n \in Days =>
                     SumUpto(more, n) = SumUpto(days, n) + (IF n >= k THEN meters ELSE 0)}
  <1>5. 0 \in S
    <2>1. SumUpto(more, 0) = more[0] /\ SumUpto(days, 0) = days[0]
      BY <1>3, SumSteps
    <2>2. 0 >= k <=> 0 = k
      BY <1>1
    <2>3. days[0] \in Nat
      BY <1>1
    <2>4. more[0] = days[0] + (IF 0 >= k THEN meters ELSE 0)
      BY <1>1, <1>4, <2>2, <2>3
    <2>5. QED
      BY <2>1, <2>4
  <1>6. ASSUME NEW n \in Nat, n \in S PROVE n + 1 \in S
    <2> SUFFICES ASSUME n + 1 \in Days
                 PROVE  SumUpto(more, n + 1) = SumUpto(days, n + 1) + (IF n + 1 >= k THEN meters ELSE 0)
      OBVIOUS
    <2>1. n \in Days
      BY <1>1
    <2>2. SumUpto(more, n) = SumUpto(days, n) + (IF n >= k THEN meters ELSE 0)
      BY <1>6, <2>1
    <2>3. /\ SumUpto(more, n + 1) = SumUpto(more, n) + more[n + 1]
          /\ SumUpto(days, n + 1) = SumUpto(days, n) + days[n + 1]
          /\ SumUpto(days, n) \in Nat /\ days[n + 1] \in Nat
      BY <1>3, <2>1, SumSteps
    <2>4. more[n + 1] = IF n + 1 = k THEN days[n + 1] + meters ELSE days[n + 1]
      BY <1>4
    <2>5. k \in Int
      BY <1>1
    <2> HIDE DEF S
    <2>6. QED
      BY <2>2, <2>3, <2>4, <2>5
  <1> HIDE DEF S
  <1>7. \A n \in Nat : n \in S
    BY <1>5, <1>6, SetInduction
  <1>8. SumUpto(more, LastDay) = SumUpto(days, LastDay) + meters
    BY <1>1, <1>7 DEF S
  <1>9. QED
    BY <1>3, <1>4, <1>8 DEF k, more

LEMMA SumOfNoDays == NoDays \in [Days -> Nat] /\ SumUpto(NoDays, LastDay) = 0
  <1>1. NoDays \in [Days -> Nat] /\ \A d \in Days : NoDays[d] = 0
    BY DEF NoDays
  <1>2. LastDay \in Nat /\ Days = 0..LastDay
    BY DayOfReport DEF Days, LastDay
  <1> DEFINE S == {n \in Nat : n \in Days => SumUpto(NoDays, n) = 0}
  <1>3. 0 \in S
    BY <1>1, SumSteps
  <1>4. ASSUME NEW n \in Nat, n \in S PROVE n + 1 \in S
    <2> SUFFICES ASSUME n + 1 \in Days PROVE SumUpto(NoDays, n + 1) = 0
      OBVIOUS
    <2>1. n \in Days
      BY <1>2
    <2>2. SumUpto(NoDays, n + 1) = SumUpto(NoDays, n) + NoDays[n + 1]
      BY <1>1, <2>1, SumSteps
    <2>3. SumUpto(NoDays, n) = 0
      BY <1>4, <2>1
    <2>4. QED
      BY <1>1, <2>2, <2>3
  <1> HIDE DEF S
  <1>5. \A n \in Nat : n \in S
    BY <1>3, <1>4, SetInduction
  <1>6. QED
    BY <1>1, <1>2, <1>5 DEF S

-----------------------------------------------------------------------------
(* Sums that account for rows: one point, a rebuild, an answer.            *)

Odometers == [total : Nat, row : Reports]
Sums == [odometer : {NULL} \cup Odometers, daily : [Days -> Nat]]

TotalOf(last) == IF last = NULL THEN 0 ELSE last.total

(* An odometer and days that account for rows.                             *)
Accounts(sums, rows) ==
  /\ sums \in Sums
  /\ rows = {} => sums = Deleted
  /\ rows # {} =>
       LET last == sums.odometer.row
       IN /\ sums.odometer # NULL
          /\ last \in rows /\ \A r \in rows : r.id <= last.id
          /\ sums.odometer.total = Metres(Neighbours(rows), last.id)
          /\ \A d \in Days : sums.daily[d] = Metres(OfDay(Neighbours(rows), d), last.id)
  /\ SumUpto(sums.daily, LastDay) = TotalOf(sums.odometer)

LEMMA OdometerIsNotNull == NULL \notin Odometers
  BY DistanceAssumption DEF DistanceAssumption, Odometers, Reports

LEMMA NothingAccounted == Accounts(Deleted, {})
  BY SumOfNoDays DEF Accounts, Deleted, Sums, TotalOf

LEMMA NoMetres ==
  ASSUME NEW n \in Nat
  PROVE  Metres({}, n) = 0
  <1>1. \A k \in Nat : MetresInto({}, k) = 0
    BY MetresIntoNone
  <1>2. Metres({}, n) = Metres({}, 0)
    <2>1. {} \subseteq Reports \X Reports
      OBVIOUS
    <2>2. QED
      BY <1>1, <2>1, MetresFlat
  <1>3. QED
    BY <1>1, <1>2, MetresSteps

(* What one point does to them.                                            *)
LEMMA ProcessedFirst ==
  ASSUME NEW row \in Reports
  PROVE  Accounts(Processed(Deleted, row), {row})
  <1> DEFINE next == Processed(Deleted, row)
             odo == [total |-> 0, row |-> row]
             days == Added(NoDays, row.at, 0)
  <1>1. row.at \in 0..Horizon /\ row.id \in Nat
    BY DEF Reports
  <1>2. next = [odometer |-> odo, daily |-> days]
    BY DEF Processed, Deleted
  <1>3. odo \in Odometers /\ odo # NULL /\ odo.total = 0 /\ odo.row = row
    BY OdometerIsNotNull DEF Odometers
  <1>4. /\ days \in [Days -> Nat] /\ \A d \in Days : days[d] = 0
        /\ SumUpto(days, LastDay) = 0
    <2>1. \A d \in Days : NoDays[d] = 0
      BY DEF NoDays
    <2>2. QED
      BY <1>1, <2>1, SumOfNoDays, SumAdded
  <1> HIDE DEF odo, days, next
  <1>5. next \in Sums /\ next.odometer = odo /\ next.daily = days
    BY <1>2, <1>3, <1>4 DEF Sums
  <1>6. Neighbours({row}) = {} /\ \A d \in Days : OfDay(Neighbours({row}), d) = {}
    BY NeighboursOfFew DEF OfDay
  <1>7. Metres({}, row.id) = 0
    BY <1>1, NoMetres
  <1>8. Accounts(next, {row})
    BY <1>1, <1>3, <1>4, <1>5, <1>6, <1>7 DEF Accounts, TotalOf
  <1>9. QED
    BY <1>8 DEF next

LEMMA ProcessedNext ==
  ASSUME NEW sums, NEW rows, ById(rows), rows # {}, Accounts(sums, rows),
         NEW row \in Reports, \A r \in rows : r.id < row.id
  PROVE  Accounts(Processed(sums, row), rows \cup {row})
  <1> DEFINE last == sums.odometer.row
             meters == Segment(last, row)
             next == Processed(sums, row)
             odo == [total |-> sums.odometer.total + meters, row |-> row]
             days == Added(sums.daily, row.at, meters)
             pairs == Neighbours(rows)
             more == Neighbours(rows \cup {row})
             pair == <<last, row>>
  <1>1. /\ sums \in Sums /\ sums.odometer # NULL /\ sums.odometer \in Odometers
        /\ sums.daily \in [Days -> Nat]
        /\ last \in rows /\ last \in Reports /\ \A r \in rows : r.id <= last.id
        /\ sums.odometer.total \in Nat
        /\ SumUpto(sums.daily, LastDay) = sums.odometer.total
    BY DEF Accounts, Sums, Odometers, TotalOf, ById
  <1>2. /\ sums.odometer.total = Metres(pairs, last.id)
        /\ \A d \in Days : sums.daily[d] = Metres(OfDay(pairs, d), last.id)
    BY DEF Accounts
  <1>3. row.at \in 0..Horizon /\ row.id \in Nat /\ last.id \in Nat /\ last.id < row.id
    BY <1>1 DEF Reports
  <1>4. meters \in Nat
    BY <1>1, SegmentIsNat
  <1>5. next = [odometer |-> odo, daily |-> days]
    <2>1. ~ (row.id <= last.id)
      BY <1>3
    <2>2. QED
      BY <1>1, <2>1 DEF Processed
  <1> HIDE DEF last, meters, next
  <1>6. odo \in Odometers /\ odo # NULL /\ odo.total = sums.odometer.total + meters /\ odo.row = row
    BY <1>1, <1>4, OdometerIsNotNull DEF Odometers
  <1>7. /\ days \in [Days -> Nat]
        /\ \A d \in Days : days[d] = IF d = WibDate(row.at) THEN sums.daily[d] + meters
                                     ELSE sums.daily[d]
        /\ SumUpto(days, LastDay) = SumUpto(sums.daily, LastDay) + meters
    BY <1>1, <1>3, <1>4, SumAdded
  <1> HIDE DEF odo, days
  <1>8. next \in Sums /\ next.odometer = odo /\ next.daily = days
    BY <1>5, <1>6, <1>7 DEF Sums
  <1>9. ByEnd(pairs) /\ more = pairs \cup {pair} /\ \A p \in pairs : p[2].id <= last.id
    BY <1>1, <1>3, NeighboursByEnd, NeighboursGrow
  <1> HIDE DEF pairs, more
  <1>10. Metres(more, row.id) = Metres(pairs, last.id) + meters
    <2>1. row.id \in Nat /\ Metres(pairs \cup {<<last, row>>}, row.id)
                               = Metres(pairs, last.id) + Segment(last, row)
      BY <1>1, <1>3, <1>9, MetresGrow
    <2>2. QED
      BY <1>9, <2>1 DEF meters
  <1>11. ASSUME NEW d \in Days
         PROVE  days[d] = Metres(OfDay(more, d), row.id)
    <2> DEFINE part == OfDay(pairs, d)
    <2>1. ByEnd(part) /\ \A p \in part : p[2].id <= last.id
      BY <1>9 DEF OfDay, ByEnd
    <2>2. /\ Metres(part, row.id) = Metres(part, last.id)
          /\ Metres(part \cup {pair}, row.id) = Metres(part, last.id) + meters
      <3> HIDE DEF part
      <3>1. QED
        BY <1>1, <1>3, <2>1, MetresGrow DEF meters
    <2>3. pair[2] = row
      OBVIOUS
    <2> HIDE DEF pair
    <2>4. OfDay(more, d) = IF d = WibDate(row.at) THEN part \cup {pair} ELSE part
      BY <1>9, <2>3 DEF OfDay
    <2>5. QED
      BY <1>2, <1>7, <2>2, <2>4
  <1>12. rows \cup {row} # {} /\ \A r \in rows \cup {row} : r.id <= row.id
    <2>1. \A r \in rows : r.id \in Nat
      BY DEF ById, Reports
    <2>2. QED
      BY <1>3, <2>1
  <1>13. SumUpto(next.daily, LastDay) = TotalOf(next.odometer)
    BY <1>1, <1>6, <1>7, <1>8 DEF TotalOf
  <1>14. odo.total = Metres(more, row.id)
    BY <1>2, <1>6, <1>10
  <1>15. Accounts(next, rows \cup {row})
    BY <1>6, <1>8, <1>11, <1>12, <1>13, <1>14 DEF Accounts, more
  <1>16. QED
    BY <1>15 DEF next

LEMMA ProcessedAccounts ==
  ASSUME NEW sums, NEW rows, ById(rows), Accounts(sums, rows),
         NEW row \in Reports, \A r \in rows : r.id < row.id
  PROVE  Accounts(Processed(sums, row), rows \cup {row})
  <1>1. CASE rows = {}
    <2>1. sums = Deleted /\ rows \cup {row} = {row}
      BY <1>1 DEF Accounts
    <2>2. QED
      BY <2>1, ProcessedFirst
  <1>2. CASE rows # {}
    BY <1>2, ProcessedNext
  <1>3. QED
    BY <1>1, <1>2

LEMMA ProcessedIsSums ==
  ASSUME NEW sums \in Sums, NEW row \in Reports
  PROVE  Processed(sums, row) \in Sums
  <1> DEFINE last == sums.odometer
             meters == IF last = NULL THEN 0 ELSE Segment(last.row, row)
             total == (IF last = NULL THEN 0 ELSE last.total) + meters
             odo == [total |-> total, row |-> row]
             days == Added(sums.daily, row.at, meters)
  <1>1. last \in {NULL} \cup Odometers /\ sums.daily \in [Days -> Nat] /\ row.at \in 0..Horizon
    BY DEF Sums, Reports
  <1>2. last # NULL => last.total \in Nat /\ last.row \in Reports
    BY <1>1 DEF Odometers
  <1>3. meters \in Nat
    BY <1>2, SegmentIsNat
  <1>4. Processed(sums, row) = sums \/ Processed(sums, row) = [odometer |-> odo, daily |-> days]
    BY DEF Processed
  <1> HIDE DEF meters, last
  <1>5. total \in Nat
    BY <1>2, <1>3
  <1> HIDE DEF total
  <1>6. odo \in Odometers
    BY <1>5 DEF Odometers
  <1>7. days \in [Days -> Nat]
    BY <1>1, <1>3, SumAdded
  <1> HIDE DEF odo, days
  <1>8. QED
    BY <1>4, <1>6, <1>7 DEF Sums

(* The newest of rows whose ids are bounded.                               *)
LEMMA NewestIs ==
  ASSUME NEW rows, rows # {}, NEW bound \in Nat, \A r \in rows : r.id \in Nat /\ r.id <= bound
  PROVE  /\ \E r \in rows : r.id = Newest(rows)
         /\ \A r \in rows : r.id <= Newest(rows)
  <1> DEFINE taken == {r.id : r \in rows}
             left == {bound - i : i \in taken}
  <1>1. taken \subseteq Nat /\ taken # {} /\ \A i \in taken : i <= bound
    OBVIOUS
  <1> HIDE DEF taken
  <1>2. left \subseteq Nat /\ left # {}
    <2>1. \A i \in taken : bound - i \in Nat
      BY <1>1
    <2>2. QED
      BY <1>1, <2>1
  <1>3. PICK l \in left : \A m \in left : l <= m
    BY <1>2, Least
  <1>4. PICK i \in taken : l = bound - i
    BY <1>3
  <1>5. \A j \in taken : j <= i
    <2> SUFFICES ASSUME NEW j \in taken PROVE j <= i
      OBVIOUS
    <2>1. l <= bound - j
      BY <1>3
    <2>2. QED
      BY <1>1, <1>4, <2>1
  <1>6. i \in {r.id : r \in rows} /\ \A r \in rows : r.id <= i
    BY <1>5 DEF taken
  <1>7. Newest(rows) \in {r.id : r \in rows} /\ \A r \in rows : r.id <= Newest(rows)
    BY <1>6 DEF Newest
  <1>8. QED
    BY <1>7

LEMMA NewestOf ==
  ASSUME NEW rows, NEW row \in rows, \A r \in rows : r.id \in Nat /\ r.id <= row.id
  PROVE  Newest(rows) = row.id
  <1>1. /\ \E r \in rows : r.id = Newest(rows)
        /\ \A r \in rows : r.id <= Newest(rows)
    BY NewestIs
  <1>2. PICK r \in rows : r.id = Newest(rows)
    BY <1>1
  <1>3. r.id <= row.id /\ row.id <= r.id /\ r.id \in Nat /\ row.id \in Nat
    BY <1>1, <1>2
  <1>4. QED
    BY <1>2, <1>3

(* The rebuild accounts for the rows it has read.                          *)
LEMMA RebuiltAccounts ==
  ASSUME NEW rows, ById(rows), NEW bound \in Nat, \A r \in rows : 0 < r.id /\ r.id <= bound
  PROVE  Accounts(Rebuilt(rows), rows)
  <1> DEFINE Eq(g) == g = [n \in Nat |->
                IF n = 0 THEN Deleted
                ELSE IF \E r \in rows : r.id = n THEN Processed(g[n - 1], RowWithId(rows, n))
                ELSE g[n - 1]]
             u == CHOOSE g : Eq(g)
             Step(n, v) == IF \E r \in rows : r.id = n THEN Processed(v, RowWithId(rows, n)) ELSE v
             G == [n \in Nat |-> [v \in Sums |-> Step(n + 1, v)]]
  <1>1. \A r \in rows : r \in Reports /\ r.id \in Nat
    BY DEF ById, Reports
  <1>2. ASSUME NEW n \in Nat, \E r \in rows : r.id = n
        PROVE  RowWithId(rows, n) \in rows /\ RowWithId(rows, n).id = n
    BY <1>2 DEF RowWithId
  <1>3. ASSUME NEW n \in Nat, NEW v \in Sums PROVE Step(n + 1, v) \in Sums
    BY <1>1, <1>2, ProcessedIsSums
  <1>4. Deleted \in Sums
    BY NothingAccounted DEF Accounts
  <1>5. Rebuilt(rows) = u[Top(rows)]
    BY DEF Rebuilt
  <1>6. Eq(u)
    <2>1. G \in [Nat -> [Sums -> Sums]]
      <3> HIDE DEF Step
      <3>1. QED
        BY <1>3
    <2>2. PICK f : StepsBy(f, Sums, Deleted, G)
      <3> HIDE DEF G
      <3>1. QED
        BY <1>4, <2>1, Recursion
    <2>3. f \in [Nat -> Sums] /\ f[0] = Deleted
      BY <2>2 DEF StepsBy
    <2>4. ASSUME NEW n \in Nat, n # 0 PROVE f[n] = Step(n, f[n - 1])
      <3>1. PICK k \in Nat : k + 1 = n /\ n - 1 = k
        <4>1. n - 1 \in Nat /\ (n - 1) + 1 = n
          BY <2>4
        <4>2. QED
          BY <4>1
      <3>2. f[k + 1] = G[k][f[k]] /\ f[k] \in Sums
        BY <2>2, <2>3 DEF StepsBy
      <3> HIDE DEF Step
      <3>3. f[k + 1] = Step(k + 1, f[k])
        BY <3>2
      <3>4. QED
        BY <3>1, <3>3
    <2>5. \A n \in Nat : f[n] = IF n = 0 THEN Deleted ELSE Step(n, f[n - 1])
      BY <2>3, <2>4
    <2>6. f = [n \in Nat |-> f[n]]
      BY <2>3
    <2>7. f = [n \in Nat |-> IF n = 0 THEN Deleted ELSE Step(n, f[n - 1])]
      <3> HIDE DEF Step
      <3>1. QED
        BY <2>5, <2>6
    <2>8. Eq(f)
      BY <2>7
    <2> HIDE DEF Eq
    <2>9. QED
      BY <2>8
  <1> HIDE DEF u
  <1>7. u[0] = Deleted /\ \A n \in Nat : u[n + 1] = Step(n + 1, u[n])
    <2>1. \A n \in Nat : u[n] = IF n = 0 THEN Deleted ELSE Step(n, u[n - 1])
      BY <1>6
    <2>2. \A n \in Nat : n + 1 \in Nat /\ n + 1 # 0 /\ (n + 1) - 1 = n
      OBVIOUS
    <2> HIDE DEF Step
    <2>3. QED
      BY <2>1, <2>2
  <1> DEFINE First(n) == {r \in rows : r.id <= n}
             S == {n \in Nat : Accounts(u[n], First(n))}
  <1>8. 0 \in S
    <2>1. First(0) = {}
      BY <1>1
    <2> HIDE DEF First
    <2>2. QED
      BY <1>7, <2>1, NothingAccounted
  <1>9. ASSUME NEW n \in Nat, n \in S PROVE n + 1 \in S
    <2>1. Accounts(u[n], First(n))
      BY <1>9
    <2>2. Accounts(u[n + 1], First(n + 1))
      <3>1. CASE \E r \in rows : r.id = n + 1
        <4> DEFINE row == RowWithId(rows, n + 1)
        <4>1. row \in rows /\ row.id = n + 1 /\ row \in Reports
          BY <1>1, <1>2, <3>1
        <4>2. u[n + 1] = Processed(u[n], row)
          BY <1>7, <3>1
        <4> HIDE DEF row
        <4>3. First(n + 1) = First(n) \cup {row}
          <5>1. \A r \in rows : r.id <= n + 1 <=> r.id <= n \/ r = row
            BY <1>1, <4>1 DEF ById
          <5>2. QED
            BY <4>1, <5>1
        <4>4. ById(First(n)) /\ \A r \in First(n) : r.id < row.id
          BY <1>1, <4>1 DEF ById
        <4> HIDE DEF First
        <4>5. Accounts(Processed(u[n], row), First(n) \cup {row})
          BY <2>1, <4>1, <4>4, ProcessedAccounts
        <4>6. QED
          BY <4>2, <4>3, <4>5
      <3>2. CASE ~ \E r \in rows : r.id = n + 1
        <4>1. u[n + 1] = u[n]
          BY <1>7, <3>2
        <4>2. First(n + 1) = First(n)
          BY <1>1, <3>2
        <4> HIDE DEF First
        <4>3. QED
          BY <2>1, <4>1, <4>2
      <3>3. QED
        BY <3>1, <3>2
    <2> HIDE DEF First
    <2>3. QED
      BY <2>2
  <1> HIDE DEF S
  <1>10. \A n \in Nat : n \in S
    BY <1>8, <1>9, SetInduction
  <1>11. Top(rows) \in Nat /\ First(Top(rows)) = rows
    <2>1. CASE rows = {}
      BY <2>1 DEF Top
    <2>2. CASE rows # {}
      <3>1. /\ \E r \in rows : r.id = Newest(rows)
            /\ \A r \in rows : r.id <= Newest(rows)
        BY <1>1, <2>2, NewestIs
      <3>2. QED
        BY <1>1, <2>2, <3>1 DEF Top
    <2>3. QED
      BY <2>1, <2>2
  <1> HIDE DEF First
  <1>12. Accounts(u[Top(rows)], First(Top(rows)))
    BY <1>10, <1>11 DEF S
  <1>13. QED
    BY <1>5, <1>11, <1>12

(* A rebuild takes no metre away: what was counted since some id is still  *)
(* between neighbours when all rows are counted.                           *)
LEMMA RebuiltIsMore ==
  ASSUME NEW all, ById(all), NEW after \in Nat, NEW some, NEW sums,
         Accounts(sums, all), Accounts(some, {r \in all : r.id > after})
  PROVE  TotalOf(some.odometer) <= TotalOf(sums.odometer)
  <1> DEFINE rows == {r \in all : r.id > after}
  <1>1. \A r \in all : r.id \in Nat /\ r \in Reports
    BY DEF ById, Reports
  <1>2. sums \in Sums /\ some \in Sums /\ TotalOf(sums.odometer) \in Nat
    BY DEF Accounts, Sums, Odometers, TotalOf
  <1>3. CASE rows = {}
    <2>1. some = Deleted
      BY <1>3 DEF Accounts
    <2>2. TotalOf(some.odometer) = 0
      BY <2>1 DEF Deleted, TotalOf
    <2>3. QED
      BY <1>2, <2>2
  <1>4. CASE rows # {}
    <2> DEFINE last == some.odometer.row
               top == sums.odometer.row
    <2>1. /\ some.odometer # NULL /\ last \in all /\ last.id > after
          /\ \A r \in rows : r.id <= last.id
          /\ TotalOf(some.odometer) = Metres(Neighbours(rows), last.id)
      BY <1>4 DEF Accounts, TotalOf
    <2>2. /\ sums.odometer # NULL /\ top \in all /\ \A r \in all : r.id <= top.id
          /\ TotalOf(sums.odometer) = Metres(Neighbours(all), top.id)
      BY <1>4 DEF Accounts, TotalOf
    <2> HIDE DEF last, top
    <2>3. top.id = last.id /\ last.id \in Nat
      BY <1>1, <2>1, <2>2
    <2>4. ById(rows)
      BY DEF ById
    <2>5. ByEnd(Neighbours(rows)) /\ ByEnd(Neighbours(all))
      <3> HIDE DEF rows
      <3>1. QED
        BY <2>4, NeighboursByEnd
    <2>6. Neighbours(rows) \subseteq Neighbours(all)
      <3> SUFFICES ASSUME NEW p \in Neighbours(rows) PROVE p \in Neighbours(all)
        OBVIOUS
      <3>1. /\ p \in rows \X rows /\ p[1] \in rows /\ p[2] \in rows /\ p[1].id < p[2].id
            /\ \A r \in rows : r.id <= p[1].id \/ p[2].id <= r.id
        BY DEF Neighbours
      <3>2. \A r \in all : r.id <= p[1].id \/ p[2].id <= r.id
        BY <1>1, <3>1
      <3>3. p \in all \X all
        BY <3>1
      <3>4. QED
        BY <3>1, <3>2, <3>3 DEF Neighbours
    <2> HIDE DEF rows
    <2> DEFINE pairs == Neighbours(rows)
               more == Neighbours(all)
    <2>7. pairs \subseteq Reports \X Reports /\ more \subseteq Reports \X Reports
      BY <2>5 DEF ByEnd
    <2>8. ASSUME NEW n \in Nat PROVE MetresInto(pairs, n) <= MetresInto(more, n)
      <3> HIDE DEF pairs, more
      <3>1. MetresInto(more, n) \in Nat
        BY <2>7, MetresIntoIsNat
      <3>2. CASE \E p \in pairs : p[2].id = n
        <4>1. PICK p \in pairs : p[2].id = n
          BY <3>2
        <4>2. p \in more
          BY <2>6 DEF pairs, more
        <4>3. MetresInto(pairs, n) = Segment(p[1], p[2]) /\ MetresInto(more, n) = Segment(p[1], p[2])
          BY <2>5, <4>1, <4>2, MetresIntoEnd DEF pairs, more
        <4>4. QED
          BY <3>1, <4>3
      <3>3. CASE \A p \in pairs : p[2].id # n
        BY <3>1, <3>3, MetresIntoNone
      <3>4. QED
        BY <3>2, <3>3
    <2>9. Metres(pairs, last.id) <= Metres(more, last.id)
      <3> HIDE DEF pairs, more
      <3>1. QED
        BY <2>3, <2>7, <2>8, MetresAtMost
    <2>10. QED
      BY <2>1, <2>2, <2>3, <2>9 DEF rows
  <1>5. QED
    BY <1>3, <1>4

LEMMA AnswerLists ==
  ASSUME NEW total \in Nat, NEW days \in [Days -> Nat], total <= SumUpto(days, LastDay)
  PROVE  LET completed == total \div Milestone
         IN {m.number : m \in Milestones(days, completed)}
              = {n \in 1..completed : n > completed - MaxListed}
  <1> DEFINE completed == total \div Milestone
             reached(n) == {d \in Days : SumUpto(days, d) >= n * Milestone}
             all == {n \in 1..completed : reached(n) # {}}
             listed == {m \in all : Cardinality({k \in all : k > m}) < MaxListed}
             entry(n) == [number |-> n, recommendation |-> Recommendation(n),
                          achieved_on |-> CHOOSE d \in reached(n) : \A e \in reached(n) : d <= e]
  <1>1. Milestone \in Nat \ {0} /\ MaxListed \in Nat
    BY DistanceAssumption DEF DistanceAssumption
  <1>2. completed \in Nat /\ Milestone * completed <= total
    BY <1>1, Division
  <1>3. LastDay \in Days
    BY DayOfReport DEF Days, LastDay
  <1>4. SumUpto(days, LastDay) \in Nat
    BY <1>3, SumSteps
  <1>5. Milestones(days, completed) = {entry(n) : n \in listed}
    BY DEF Milestones
  <1>6. {m.number : m \in Milestones(days, completed)} = listed
    <2>1. \A n : entry(n).number = n
      OBVIOUS
    <2> HIDE DEF entry, listed
    <2>2. QED
      BY <1>5, <2>1
  <1> HIDE DEF completed
  <1>7. all = 1..completed
    <2>1. ASSUME NEW n \in 1..completed PROVE LastDay \in reached(n)
      <3>1. n * Milestone <= completed * Milestone /\ n * Milestone \in Nat
            /\ completed * Milestone \in Nat /\ completed * Milestone = Milestone * completed
        BY <1>1, <1>2, Times
      <3>2. n * Milestone <= SumUpto(days, LastDay)
        BY <1>2, <1>4, <3>1
      <3>3. QED
        BY <1>3, <1>4, <3>1, <3>2
    <2> HIDE DEF reached
    <2>2. QED
      BY <2>1
  <1> HIDE DEF all
  <1>8. ASSUME NEW m \in 1..completed
        PROVE  Cardinality({k \in all : k > m}) = completed - m
    <2>1. {k \in all : k > m} = (m + 1)..completed
      BY <1>2, <1>7
    <2>2. Cardinality((m + 1)..completed) = IF m + 1 > completed THEN 0 ELSE completed - (m + 1) + 1
      BY <1>2, FS_Interval
    <2> DEFINE size == Cardinality((m + 1)..completed)
    <2>3. size = completed - m
      <3>1. size = IF m + 1 > completed THEN 0 ELSE completed - (m + 1) + 1
        BY <2>2
      <3> HIDE DEF size
      <3>2. QED
        BY <1>2, <3>1
    <2>4. QED
      BY <2>1, <2>3
  <1>9. listed = {n \in 1..completed : n > completed - MaxListed}
    BY <1>1, <1>2, <1>7, <1>8
  <1>10. QED
    BY <1>6, <1>9 DEF completed

-----------------------------------------------------------------------------
(* The order of rows.                                                      *)

(* What a sequence has given out is not below a committed row.             *)
IdsInv ==
  /\ ids = [location |-> ids.location, heartbeat |-> ids.heartbeat]
  /\ ids.location \in Nat /\ ids.heartbeat \in Nat
  /\ \A r \in locations : r.id \in Nat /\ r.id <= ids.location
  /\ \A r \in heartbeats : r.id \in Nat /\ r.id <= ids.heartbeat

RowShape(row) ==
  row = [id |-> row.id, at |-> row.at, pos |-> row.pos, moving |-> row.moving]

TransactionShape(t) ==
  /\ t = [step |-> t.step, kind |-> t.kind, row |-> t.row, result |-> t.result]
  /\ t.step \in {"idle", "begun", "locked", "inserted", "done"}
  /\ t.step # "idle" => t.kind \in {"login", "heartbeat", "location"} /\ RowShape(t.row)

(* A transaction that is past its first statement holds the devices row.   *)
LockInv ==
  /\ conn = [c \in Connections |-> conn[c]]
  /\ lock \in Connections \cup {NULL}
  /\ \A c \in Connections :
       /\ TransactionShape(conn[c])
       /\ conn[c].step \in {"locked", "inserted", "done"} => lock = c

(* The row a transaction is about to commit has the highest id of all.     *)
Highest(row, rows, id) == row.id \in Nat /\ row.id <= id /\ \A s \in rows : s.id < row.id

RowInv ==
  \A c \in Connections :
    /\ conn[c].kind = "location" /\ conn[c].step \in {"inserted", "done"} =>
         Highest(conn[c].row, locations, ids.location)
    /\ conn[c].kind = "heartbeat" /\ conn[c].step \in {"inserted", "done"} =>
         Highest(conn[c].row, heartbeats, ids.heartbeat)

Inv == IdsInv /\ LockInv /\ RowInv

InOrder ==
  /\ \A r \in locations' \ locations, s \in locations : s.id < r.id
  /\ \A r \in heartbeats' \ heartbeats, s \in heartbeats : s.id < r.id

LEMMA InvInit == Init => Inv
  <1> SUFFICES ASSUME Init PROVE Inv
    OBVIOUS
  <1>1. PICK h \in Histories : locations = History(h)
                               /\ ids = [location |-> Len(h), heartbeat |-> 0]
    BY DEF Init
  <1>2. Len(h) \in Nat
    BY DistanceAssumption DEF DistanceAssumption
  <1>3. \A r \in locations : r.id \in 1..Len(h)
    BY <1>1 DEF History
  <1>4. IdsInv
    BY <1>1, <1>2, <1>3 DEF Init, IdsInv
  <1>5. LockInv /\ RowInv
    BY DEF Init, LockInv, RowInv, TransactionShape, Idle, Transaction
  <1>6. QED
    BY <1>4, <1>5 DEF Inv

(* Nothing of the transactions and their rows moves.                       *)
LEMMA Untouched ==
  ASSUME Inv, UNCHANGED <<conn, lock, ids, locations, heartbeats>>
  PROVE  Inv' /\ InOrder
  BY DEF Inv, IdsInv, LockInv, RowInv, TransactionShape, RowShape, Highest, InOrder

(* A transaction moves on without an id or a row of its own.               *)
LEMMA Moved ==
  ASSUME Inv, NEW c \in Connections, NEW t,
         conn' = [conn EXCEPT ![c] = t], TransactionShape(t),
         t.step \in {"locked", "inserted", "done"} => lock' = c,
         t.step \in {"inserted", "done"} =>
           \/ t.kind = "login"
           \/ conn[c].step \in {"inserted", "done"} /\ t.kind = conn[c].kind /\ t.row = conn[c].row,
         lock' \in Connections \cup {NULL},
         \A d \in Connections \ {c} : lock = d => lock' = d,
         UNCHANGED <<ids, locations, heartbeats>>
  PROVE  Inv' /\ InOrder
  <1>1. \A d \in Connections : conn'[d] = IF d = c THEN t ELSE conn[d]
    BY DEF Inv, LockInv
  <1>2. IdsInv' /\ InOrder
    BY DEF Inv, IdsInv, InOrder
  <1>3. LockInv'
    <2>1. conn' = [d \in Connections |-> conn'[d]]
      BY DEF Inv, LockInv
    <2>2. ASSUME NEW d \in Connections
          PROVE  /\ TransactionShape(conn'[d])
                 /\ conn'[d].step \in {"locked", "inserted", "done"} => lock' = d
      BY <1>1 DEF Inv, LockInv
    <2>3. QED
      BY <2>1, <2>2 DEF LockInv, TransactionShape, RowShape
  <1>4. RowInv'
    BY <1>1 DEF Inv, RowInv, Highest
  <1>5. QED
    BY <1>2, <1>3, <1>4 DEF Inv

(* What Begin puts up.                                                     *)
LEMMA BeginKeeps ==
  ASSUME Inv, NEW c \in Connections, NEW kind \in {"login", "heartbeat", "location"}, NEW fix,
         Begin(c, kind, fix)
  PROVE  Inv' /\ InOrder
  <1> DEFINE row == [id |-> 0, at |-> now, pos |-> fix.pos, moving |-> fix.moving]
             t == Transaction("begun", kind, row, NULL)
  <1>1. conn' = [conn EXCEPT ![c] = t] /\ UNCHANGED <<lock, ids, locations, heartbeats>>
    BY DEF Begin, tables
  <1>2. TransactionShape(t) /\ t.step = "begun"
    BY DEF Transaction, TransactionShape, RowShape
  <1>3. QED
    BY <1>1, <1>2, Moved DEF Inv, LockInv

LEMMA LockKeeps ==
  ASSUME Inv, NEW c \in Connections, LockDevice(c)
  PROVE  Inv' /\ InOrder
  <1> DEFINE step == IF conn[c].kind = "login" THEN "done" ELSE "locked"
             t == Transaction(step, conn[c].kind, conn[c].row, NULL)
  <1>1. conn[c].step = "begun" /\ lock = NULL /\ lock' = c
        /\ conn' = [conn EXCEPT ![c] = t]
        /\ UNCHANGED <<ids, locations, heartbeats>>
    BY DEF LockDevice, LockFree, tables
  <1>2. TransactionShape(conn[c])
    BY DEF Inv, LockInv
  <1>3. step \in {"done", "locked"} /\ (step = "done" => conn[c].kind = "login")
    OBVIOUS
  <1> HIDE DEF step
  <1>4. TransactionShape(t) /\ t.step = step /\ t.kind = conn[c].kind
    BY <1>1, <1>2, <1>3 DEF Transaction, TransactionShape, RowShape
  <1> HIDE DEF t
  <1>5. NULL \notin Connections
    BY DistanceAssumption DEF DistanceAssumption
  <1>6. QED
    BY <1>1, <1>3, <1>4, <1>5, Moved

LEMMA MeasureKeeps ==
  ASSUME Inv, NEW c \in Connections, Measure(c)
  PROVE  Inv' /\ InOrder
  <1> DEFINE result == Processed([odometer |-> odometer, daily |-> daily], conn[c].row)
             t == Transaction("done", conn[c].kind, conn[c].row, result)
  <1>1. conn[c].step = "inserted" /\ conn' = [conn EXCEPT ![c] = t]
        /\ UNCHANGED <<lock, ids, locations, heartbeats>>
    BY DEF Measure, tables
  <1> HIDE DEF result
  <1>2. TransactionShape(conn[c]) /\ lock = c
    BY <1>1 DEF Inv, LockInv
  <1>3. TransactionShape(t) /\ t.kind = conn[c].kind /\ t.row = conn[c].row /\ t.step = "done"
    BY <1>1, <1>2 DEF Transaction, TransactionShape, RowShape
  <1> HIDE DEF t
  <1>4. QED
    BY <1>1, <1>2, <1>3, Moved DEF Inv, LockInv

(* nextval under the lock: nobody else has an id in hand.                  *)
LEMMA InsertKeeps ==
  ASSUME Inv, NEW c \in Connections, InsertRow(c)
  PROVE  Inv' /\ InOrder
  <1> DEFINE kind == conn[c].kind
             step == IF kind = "location" THEN "inserted" ELSE "done"
             row == [conn[c].row EXCEPT !.id = ids[kind] + 1]
             t == Transaction(step, kind, row, NULL)
  <1>1. conn[c].step = "locked" /\ UNCHANGED <<lock, locations, heartbeats>>
        /\ ids' = [ids EXCEPT ![kind] = @ + 1]
        /\ conn' = [conn EXCEPT ![c] = t]
    BY DEF InsertRow, tables
  <1>2. TransactionShape(conn[c]) /\ lock = c
    BY <1>1 DEF Inv, LockInv
  <1>3. RowShape(row) /\ row.id = ids[kind] + 1
    BY <1>1, <1>2 DEF TransactionShape, RowShape
  <1>4. step \in {"inserted", "done"}
    OBVIOUS
  <1> HIDE DEF row, step
  <1>5. TransactionShape(t) /\ t.step = step /\ t.kind = kind /\ t.row = row
    BY <1>1, <1>2, <1>3, <1>4 DEF Transaction, TransactionShape
  <1> HIDE DEF t
  <1>6. \A d \in Connections : conn'[d] = IF d = c THEN t ELSE conn[d]
    BY <1>1 DEF Inv, LockInv
  <1>7. kind \in {"login", "heartbeat", "location"}
    BY <1>1, <1>2 DEF TransactionShape
  <1> HIDE DEF kind
  <1>8. IdsInv' /\ (kind = "location" => ids'.location = ids.location + 1)
                /\ (kind = "heartbeat" => ids'.heartbeat = ids.heartbeat + 1)
    <2>1. CASE kind = "location"
      <3>1. ids' = [ids EXCEPT !.location = ids.location + 1]
        BY <1>1, <2>1
      <3>2. ids' = [location |-> ids.location + 1, heartbeat |-> ids.heartbeat]
        BY <3>1 DEF Inv, IdsInv
      <3>3. ids'.location = ids.location + 1 /\ ids'.heartbeat = ids.heartbeat
        BY <3>2
      <3>4. ids' = [location |-> ids'.location, heartbeat |-> ids'.heartbeat]
        BY <3>2, <3>3
      <3>5. IdsInv'
        BY <1>1, <3>3, <3>4 DEF Inv, IdsInv
      <3>6. QED
        BY <2>1, <3>3, <3>5
    <2>2. CASE kind = "heartbeat"
      <3>1. ids' = [ids EXCEPT !.heartbeat = ids.heartbeat + 1]
        BY <1>1, <2>2
      <3>2. ids' = [location |-> ids.location, heartbeat |-> ids.heartbeat + 1]
        BY <3>1 DEF Inv, IdsInv
      <3>3. ids'.location = ids.location /\ ids'.heartbeat = ids.heartbeat + 1
        BY <3>2
      <3>4. ids' = [location |-> ids'.location, heartbeat |-> ids'.heartbeat]
        BY <3>2, <3>3
      <3>5. IdsInv'
        BY <1>1, <3>3, <3>4 DEF Inv, IdsInv
      <3>6. QED
        BY <2>2, <3>3, <3>5
    <2>3. CASE kind = "login"
      <3>1. ids' = ids
        BY <1>1, <2>3 DEF Inv, IdsInv
      <3>2. QED
        BY <1>1, <2>3, <3>1 DEF Inv, IdsInv
    <2>4. QED
      BY <1>7, <2>1, <2>2, <2>3
  <1>9. LockInv' /\ InOrder
    <2>1. conn' = [d \in Connections |-> conn'[d]]
      BY <1>1 DEF Inv, LockInv
    <2>2. ASSUME NEW d \in Connections
          PROVE  /\ TransactionShape(conn'[d])
                 /\ conn'[d].step \in {"locked", "inserted", "done"} => lock' = d
      BY <1>1, <1>2, <1>5, <1>6 DEF Inv, LockInv
    <2>3. QED
      BY <1>1, <2>1, <2>2 DEF Inv, LockInv, TransactionShape, RowShape, InOrder
  <1>10. RowInv'
    <2> SUFFICES ASSUME NEW d \in Connections, conn'[d].step \in {"inserted", "done"}
                 PROVE  /\ conn'[d].kind = "location" =>
                             Highest(conn'[d].row, locations', ids'.location)
                        /\ conn'[d].kind = "heartbeat" =>
                             Highest(conn'[d].row, heartbeats', ids'.heartbeat)
      BY DEF RowInv, Highest
    <2>1. d = c
      BY <1>2, <1>6 DEF Inv, LockInv
    <2>2. conn'[d].kind = kind /\ conn'[d].row.id = ids[kind] + 1
      BY <1>3, <1>5, <1>6, <2>1
    <2>3. QED
      BY <1>1, <1>8, <2>2 DEF Inv, IdsInv, Highest
  <1>11. QED
    BY <1>8, <1>9, <1>10 DEF Inv

(* The connections are idle that were rolled back or have committed.       *)
LEMMA IdleShape == TransactionShape(Idle) /\ Idle.step = "idle"
  BY DEF TransactionShape, Idle, Transaction

LEMMA FailKeeps ==
  ASSUME Inv, NEW c \in Connections, Fail(c)
  PROVE  Inv' /\ InOrder
  <1>1. conn' = [conn EXCEPT ![c] = Idle] /\ lock' = (IF lock = c THEN NULL ELSE lock)
        /\ UNCHANGED <<ids, locations, heartbeats>>
    BY DEF Fail, tables
  <1>2. QED
    BY <1>1, IdleShape, Moved DEF Inv, LockInv

LEMMA StopKeeps ==
  ASSUME Inv, Stop
  PROVE  Inv' /\ InOrder
  <1>1. conn' = [c \in Connections |-> Idle] /\ lock' = NULL
        /\ UNCHANGED <<ids, locations, heartbeats>>
    BY DEF Stop, tables
  <1>2. \A c \in Connections : conn'[c] = Idle
    BY <1>1
  <1>3. LockInv'
    BY <1>1, <1>2, IdleShape DEF LockInv, TransactionShape, RowShape
  <1>4. RowInv' /\ IdsInv' /\ InOrder
    BY <1>1, <1>2, IdleShape DEF Inv, RowInv, IdsInv, InOrder
  <1>5. QED
    BY <1>3, <1>4 DEF Inv

(* The row it adds is the highest, and the others have none in hand.       *)
LEMMA CommitKeeps ==
  ASSUME Inv, NEW c \in Connections, Commit(c)
  PROVE  Inv' /\ InOrder
  <1> DEFINE row == conn[c].row
             kind == conn[c].kind
  <1>1. /\ conn[c].step = "done" /\ ids' = ids
        /\ conn' = [conn EXCEPT ![c] = Idle]
        /\ lock' = IF lock = c THEN NULL ELSE lock
    BY DEF Commit
  <1>2. TransactionShape(conn[c]) /\ lock = c
    BY <1>1 DEF Inv, LockInv
  <1>3. \A d \in Connections : conn'[d] = IF d = c THEN Idle ELSE conn[d]
    BY <1>1 DEF Inv, LockInv
  <1>4. \A d \in Connections : conn'[d].step \notin {"locked", "inserted", "done"}
    BY <1>2, <1>3, IdleShape DEF Inv, LockInv
  <1>5. kind \in {"login", "heartbeat", "location"}
    BY <1>1, <1>2 DEF TransactionShape
  <1>6. LockInv' /\ RowInv'
    <2>1. conn' = [d \in Connections |-> conn'[d]] /\ lock' = NULL
      BY <1>1, <1>2 DEF Inv, LockInv
    <2>2. \A d \in Connections : TransactionShape(conn'[d])
      BY <1>3, IdleShape DEF Inv, LockInv
    <2>3. QED
      BY <1>4, <2>1, <2>2 DEF LockInv, RowInv, TransactionShape, RowShape
  <1>7. IdsInv' /\ InOrder
    <2>1. CASE kind = "login"
      <3>1. UNCHANGED <<locations, heartbeats>>
        BY <2>1 DEF Commit, tables
      <3>2. QED
        BY <1>1, <3>1 DEF Inv, IdsInv, InOrder
    <2>2. CASE kind = "heartbeat"
      <3>1. /\ locations' = locations
            /\ heartbeats' = heartbeats \cup {[id |-> row.id, at |-> row.at]}
        BY <2>2 DEF Commit
      <3>2. Highest(row, heartbeats, ids.heartbeat)
        BY <1>1, <2>2 DEF Inv, RowInv
      <3>3. QED
        BY <1>1, <3>1, <3>2 DEF Inv, IdsInv, InOrder, Highest
    <2>3. CASE kind = "location"
      <3>1. heartbeats' = heartbeats /\ locations' = locations \cup {row}
        BY <2>3 DEF Commit
      <3>2. Highest(row, locations, ids.location)
        BY <1>1, <2>3 DEF Inv, RowInv
      <3>3. QED
        BY <1>1, <3>1, <3>2 DEF Inv, IdsInv, InOrder, Highest
    <2>4. QED
      BY <1>5, <2>1, <2>2, <2>3
  <1>8. QED
    BY <1>6, <1>7 DEF Inv

LEMMA StepKeeps ==
  ASSUME Inv, [Next]_vars
  PROVE  Inv' /\ InOrder
  <1>1. ASSUME NEW c \in Connections,
               \/ Begin(c, "login", NoFix) \/ Begin(c, "heartbeat", NoFix)
               \/ \E fix \in Fixes : Begin(c, "location", fix)
        PROVE  Inv' /\ InOrder
    BY <1>1, BeginKeeps
  <1>2. ASSUME NEW c \in Connections,
               LockDevice(c) \/ InsertRow(c) \/ Measure(c) \/ Commit(c) \/ Fail(c)
        PROVE  Inv' /\ InOrder
    BY <1>2, LockKeeps, InsertKeeps, MeasureKeeps, CommitKeeps, FailKeeps
  <1>3. CASE Stop
    BY <1>3, StopKeeps
  <1>4. CASE \/ Tick \/ Restart \/ BackfillReads \/ BackfillCommits \/ BackfillDies
             \/ ReadService \/ UNCHANGED vars
    <2>1. UNCHANGED <<conn, lock, ids, locations, heartbeats>>
      BY <1>4 DEF Tick, Restart, BackfillReads, BackfillCommits, BackfillDies, ReadService, vars,
                  tables
    <2>2. QED
      BY <2>1, Untouched
  <1>5. QED
    BY <1>1, <1>2, <1>3, <1>4 DEF Next

(* "device_locations" and "device_heartbeats" of a device grow at the end, *)
(* whichever connections its messages came through (persist_event).        *)
THEOREM SpecRowsCommitInOrder == Spec => RowsCommitInOrder
  <1>1. Inv /\ [Next]_vars => [InOrder]_vars
    BY StepKeeps
  <1>2. Spec => [][InOrder]_vars
    BY <1>1, InvInit, StepKeeps, PTL DEF Spec
  <1>3. QED
    BY <1>2 DEF RowsCommitInOrder, InOrder

-----------------------------------------------------------------------------
(* The odometer as history.                                                *)

Current == [odometer |-> odometer, daily |-> daily]

(* The locations the odometer counts.                                      *)
Counted == {r \in locations : r.id > since}

WorldInv ==
  /\ now \in 0..Horizon /\ service \in {"up", "down"}
  /\ ById(locations) /\ \A r \in locations : 0 < r.id
  /\ since \in Nat /\ since <= ids.location

(* What a transaction has in hand; what it measured is not out of date.    *)
HandOk(t, after, sums) ==
  /\ t.row \in Reports \cup {NULL} /\ (t.step # "idle" => t.row \in Reports)
  /\ t.step = "locked" => t.kind \in {"heartbeat", "location"}
  /\ t.step = "inserted" => t.kind = "location"
  /\ t.kind = "location" /\ t.step \in {"inserted", "done"} => t.row.id > after
  /\ t.kind = "location" /\ t.step = "done" => t.result = Processed(sums, t.row)

HandInv == \A c \in Connections : HandOk(conn[c], since, Current)

AccountInv == Accounts(Current, Counted)

(* The backfill works while nobody writes locations.                       *)
DownInv ==
  /\ service = "down" => \A c \in Connections : conn[c] = Idle
  /\ backfill # NULL => service = "down" /\ backfill = locations

SnapInv == device = [location |-> Newest(locations), heartbeat |-> Newest(heartbeats)]

(* The total a reader has read is one the days have reached.               *)
ReaderInv ==
  /\ reader = [step |-> reader.step, total |-> reader.total, days |-> reader.days,
               milestones |-> reader.milestones]
  /\ reader.step \in {"idle", "half", "answered"}
  /\ reader.step = "half" => reader.total \in Nat /\ reader.total <= TotalOf(odometer)
  /\ ServiceAnswerComplete

HistoryInv == WorldInv /\ HandInv /\ AccountInv /\ DownInv /\ SnapInv /\ ReaderInv

LEMMA HistoryInit == Init => HistoryInv
  <1> SUFFICES ASSUME Init PROVE HistoryInv
    OBVIOUS
  <1>1. PICK h \in Histories :
          /\ locations = History(h) /\ now = Len(h) /\ since = Len(h)
          /\ ids = [location |-> Len(h), heartbeat |-> 0]
          /\ device = [location |-> Newest(History(h)), heartbeat |-> NULL]
    BY DEF Init
  <1> DEFINE F == [pos : Int \cup {NULL}, moving : BOOLEAN]
  <1>2. Len(h) \in Nat /\ Len(h) <= Horizon /\ Horizon \in Nat
        /\ \A i \in 1..Len(h) : h[i] \in F
    <2>1. h \in Seq(F) /\ Len(h) <= Horizon
      BY DistanceAssumption, Zenon DEF DistanceAssumption
    <2>2. Horizon \in Nat
      BY DistanceAssumption DEF DistanceAssumption
    <2> HIDE DEF F
    <2>3. QED
      BY <2>1, <2>2
  <1>3. \A i \in 1..Len(h) : h[i].pos \in Int \cup {NULL} /\ h[i].moving \in BOOLEAN
                             /\ i - 1 \in 0..Horizon /\ i \in Nat
    BY <1>2
  <1>4. \A r \in locations : \E i \in 1..Len(h) :
          r = [id |-> i, at |-> i - 1, pos |-> h[i].pos, moving |-> h[i].moving]
    BY <1>1 DEF History
  <1>5. \A r \in locations : r \in Reports /\ r.id \in 1..Len(h)
    BY <1>3, <1>4 DEF Reports
  <1>6. \A r, s \in locations : r.id = s.id => r = s
    BY <1>4
  <1>7. WorldInv
    BY <1>1, <1>2, <1>5, <1>6 DEF WorldInv, ById, Init
  <1>8. HandInv
    BY DEF Init, HandInv, HandOk, Idle, Transaction
  <1>9. AccountInv
    <2>1. Counted = {}
      BY <1>1, <1>2, <1>5 DEF Counted
    <2>2. Current = Deleted
      BY DEF Init, Current, Deleted
    <2>3. QED
      BY <2>1, <2>2, NothingAccounted DEF AccountInv
  <1>10. DownInv /\ SnapInv /\ ReaderInv
    BY <1>1 DEF Init, DownInv, SnapInv, ReaderInv, Newest, ServiceAnswerComplete
  <1>11. QED
    BY <1>7, <1>8, <1>9, <1>10 DEF HistoryInv

(* A step that leaves the tables alone and moves at most one transaction.  *)
LEMMA HandMoves ==
  ASSUME Inv, HistoryInv, NEW c \in Connections, NEW t, conn' = [conn EXCEPT ![c] = t],
         HandOk(t, since, Current), service = "up" \/ t = Idle, ids'.location \in Nat,
         ids.location <= ids'.location,
         UNCHANGED <<now, service, tables, backfill, reader, since>>
  PROVE  HistoryInv'
  <1>1. UNCHANGED <<locations, heartbeats, device, odometer, daily>>
    BY DEF tables
  <1>2. \A d \in Connections : conn'[d] = IF d = c THEN t ELSE conn[d]
    BY DEF Inv, LockInv
  <1>3. Current' = Current /\ Counted' = Counted
    BY <1>1 DEF Current, Counted
  <1>4. WorldInv'
    <2>1. ids.location \in Nat
      BY DEF Inv, IdsInv
    <2>2. QED
      BY <1>1, <2>1 DEF HistoryInv, WorldInv
  <1>5. HandInv'
    BY <1>2, <1>3 DEF HistoryInv, HandInv
  <1>6. DownInv'
    BY <1>1, <1>2 DEF HistoryInv, DownInv
  <1>7. AccountInv' /\ SnapInv' /\ ReaderInv'
    BY <1>1, <1>3 DEF HistoryInv, AccountInv, SnapInv, ReaderInv, ServiceAnswerComplete
  <1>8. QED
    BY <1>4, <1>5, <1>6, <1>7 DEF HistoryInv

LEMMA ServiceIsUp ==
  ASSUME HistoryInv, NEW c \in Connections, conn[c].step # "idle"
  PROVE  service = "up" /\ backfill = NULL
  <1>1. conn[c] # Idle
    BY IdleShape
  <1>2. QED
    BY <1>1 DEF HistoryInv, DownInv, WorldInv

LEMMA HistoryBegin ==
  ASSUME Inv, HistoryInv, NEW c \in Connections, NEW kind \in {"login", "heartbeat", "location"},
         NEW fix, fix.pos \in Int \cup {NULL}, fix.moving \in BOOLEAN, Begin(c, kind, fix)
  PROVE  HistoryInv'
  <1> DEFINE row == [id |-> 0, at |-> now, pos |-> fix.pos, moving |-> fix.moving]
             t == Transaction("begun", kind, row, NULL)
  <1>1. service = "up" /\ conn' = [conn EXCEPT ![c] = t]
        /\ UNCHANGED <<now, service, ids, tables, backfill, reader, since>>
    BY DEF Begin
  <1>2. row \in Reports
    BY DEF HistoryInv, WorldInv, Reports
  <1> HIDE DEF row
  <1>3. HandOk(t, since, Current)
    BY <1>2 DEF HandOk, Transaction
  <1> HIDE DEF t
  <1>4. ids'.location \in Nat /\ ids.location <= ids'.location
    BY <1>1 DEF Inv, IdsInv
  <1>5. QED
    BY <1>1, <1>3, <1>4, HandMoves

LEMMA HistoryLock ==
  ASSUME Inv, HistoryInv, NEW c \in Connections, LockDevice(c)
  PROVE  HistoryInv'
  <1> DEFINE step == IF conn[c].kind = "login" THEN "done" ELSE "locked"
             t == Transaction(step, conn[c].kind, conn[c].row, NULL)
  <1>1. conn[c].step = "begun" /\ conn' = [conn EXCEPT ![c] = t]
        /\ UNCHANGED <<now, service, ids, tables, backfill, reader, since>>
    BY DEF LockDevice
  <1>2. HandOk(conn[c], since, Current) /\ conn[c].kind \in {"login", "heartbeat", "location"}
    BY <1>1 DEF HistoryInv, HandInv, Inv, LockInv, TransactionShape
  <1>3. /\ step \in {"done", "locked"} /\ (step = "done" => conn[c].kind = "login")
        /\ (step = "locked" => conn[c].kind # "login")
    OBVIOUS
  <1> HIDE DEF step
  <1>4. HandOk(t, since, Current)
    BY <1>1, <1>2, <1>3 DEF HandOk, Transaction
  <1> HIDE DEF t
  <1>5. ids'.location \in Nat /\ ids.location <= ids'.location /\ service = "up"
    BY <1>1, ServiceIsUp DEF Inv, IdsInv
  <1>6. QED
    BY <1>1, <1>4, <1>5, HandMoves

LEMMA HistoryInsert ==
  ASSUME Inv, HistoryInv, NEW c \in Connections, InsertRow(c)
  PROVE  HistoryInv'
  <1> DEFINE kind == conn[c].kind
             step == IF kind = "location" THEN "inserted" ELSE "done"
             row == [conn[c].row EXCEPT !.id = ids[kind] + 1]
             t == Transaction(step, kind, row, NULL)
  <1>1. conn[c].step = "locked" /\ conn' = [conn EXCEPT ![c] = t]
        /\ ids' = [ids EXCEPT ![kind] = @ + 1]
        /\ UNCHANGED <<now, service, tables, backfill, reader, since>>
    BY DEF InsertRow
  <1>2. HandOk(conn[c], since, Current) /\ conn[c].row \in Reports
        /\ kind \in {"heartbeat", "location"}
    BY <1>1 DEF HistoryInv, HandInv, HandOk
  <1>3. ids = [location |-> ids.location, heartbeat |-> ids.heartbeat]
        /\ ids.location \in Nat /\ ids.heartbeat \in Nat
    BY DEF Inv, IdsInv
  <1>4. /\ kind = "location" => ids[kind] = ids.location
        /\ kind = "heartbeat" => ids[kind] = ids.heartbeat
    OBVIOUS
  <1>5. ids[kind] \in Nat
    BY <1>2, <1>3, <1>4
  <1>6. row \in Reports /\ row.id = ids[kind] + 1
    BY <1>2, <1>5 DEF Reports
  <1>7. since < ids.location + 1
    BY <1>3 DEF HistoryInv, WorldInv
  <1>8. ids'.location \in Nat /\ ids.location <= ids'.location
    <2>1. CASE kind = "location"
      BY <1>1, <1>3, <2>1
    <2>2. CASE kind = "heartbeat"
      BY <1>1, <1>3, <2>2
    <2>3. QED
      BY <1>2, <2>1, <2>2
  <1>9. step \in {"inserted", "done"} /\ (step = "inserted" <=> kind = "location")
    OBVIOUS
  <1> HIDE DEF step, row, kind
  <1>10. HandOk(t, since, Current)
    BY <1>2, <1>4, <1>6, <1>7, <1>9 DEF HandOk, Transaction
  <1> HIDE DEF t
  <1>11. service = "up"
    BY <1>1, ServiceIsUp
  <1>12. QED
    BY <1>1, <1>8, <1>10, <1>11, HandMoves

LEMMA HistoryMeasure ==
  ASSUME Inv, HistoryInv, NEW c \in Connections, Measure(c)
  PROVE  HistoryInv'
  <1> DEFINE result == Processed(Current, conn[c].row)
             t == Transaction("done", conn[c].kind, conn[c].row, result)
  <1>1. conn[c].step = "inserted" /\ conn' = [conn EXCEPT ![c] = t]
        /\ UNCHANGED <<now, service, ids, tables, backfill, reader, since>>
    BY DEF Measure, Current
  <1>2. HandOk(conn[c], since, Current)
    BY DEF HistoryInv, HandInv
  <1>3. t.step = "done" /\ t.kind = conn[c].kind /\ t.row = conn[c].row
        /\ t.result = Processed(Current, t.row)
    BY DEF Transaction
  <1> HIDE DEF result, t
  <1>4. HandOk(t, since, Current)
    BY <1>1, <1>2, <1>3 DEF HandOk
  <1>5. ids'.location \in Nat /\ ids.location <= ids'.location /\ service = "up"
    BY <1>1, ServiceIsUp DEF Inv, IdsInv
  <1>6. QED
    BY <1>1, <1>4, <1>5, HandMoves

LEMMA IdleIsOk == ASSUME NEW after, NEW sums PROVE HandOk(Idle, after, sums)
  BY DEF HandOk, Idle, Transaction

LEMMA HistoryFail ==
  ASSUME Inv, HistoryInv, NEW c \in Connections, Fail(c)
  PROVE  HistoryInv'
  <1>1. conn' = [conn EXCEPT ![c] = Idle]
        /\ UNCHANGED <<now, service, ids, tables, backfill, reader, since>>
    BY DEF Fail
  <1>2. ids'.location \in Nat /\ ids.location <= ids'.location
    BY <1>1 DEF Inv, IdsInv
  <1>3. QED
    BY <1>1, <1>2, IdleIsOk, HandMoves

LEMMA ProcessedIsMore ==
  ASSUME NEW sums \in Sums, NEW row \in Reports
  PROVE  TotalOf(sums.odometer) <= TotalOf(Processed(sums, row).odometer)
  <1> DEFINE last == sums.odometer
             meters == IF last = NULL THEN 0 ELSE Segment(last.row, row)
             total == (IF last = NULL THEN 0 ELSE last.total) + meters
             odo == [total |-> total, row |-> row]
  <1>1. last # NULL => last \in Odometers /\ last.total \in Nat /\ last.row \in Reports
    BY DEF Sums, Odometers
  <1>2. meters \in Nat /\ TotalOf(last) \in Nat /\ total = TotalOf(last) + meters
    BY <1>1, SegmentIsNat DEF TotalOf
  <1>3. Processed(sums, row) = sums \/ Processed(sums, row).odometer = odo
    BY DEF Processed
  <1> HIDE DEF total, meters, last
  <1>4. odo \in Odometers /\ odo.total = total
    BY <1>2 DEF Odometers
  <1>5. TotalOf(odo) = total
    BY <1>4, OdometerIsNotNull DEF TotalOf
  <1> HIDE DEF odo
  <1>6. QED
    BY <1>2, <1>3, <1>5 DEF last

LEMMA HistoryCommit ==
  ASSUME Inv, HistoryInv, NEW c \in Connections, Commit(c)
  PROVE  HistoryInv'
  <1> DEFINE t == conn[c]
             row == t.row
  <1>1. /\ t.step = "done" /\ conn' = [conn EXCEPT ![c] = Idle]
        /\ UNCHANGED <<now, service, ids, backfill, reader, since>>
    BY DEF Commit
  <1>2. TransactionShape(t) /\ lock = c /\ t.kind \in {"login", "heartbeat", "location"}
    BY <1>1 DEF Inv, LockInv, TransactionShape
  <1>3. HandOk(t, since, Current) /\ row \in Reports
    BY <1>1 DEF HistoryInv, HandInv, HandOk
  <1>4. service = "up" /\ backfill = NULL
    BY <1>1, ServiceIsUp
  <1>5. \A d \in Connections : conn'[d] = IF d = c THEN Idle ELSE conn[d]
    BY DEF Commit, Inv, LockInv
  <1>6. ASSUME NEW d \in Connections, NEW sums PROVE HandOk(conn'[d], since, sums)
    <2>1. CASE d = c
      BY <1>5, <2>1, IdleIsOk
    <2>2. CASE d # c
      <3>1. conn[d].step \notin {"locked", "inserted", "done"} /\ HandOk(conn[d], since, Current)
        BY <1>2, <2>2 DEF Inv, LockInv, HistoryInv, HandInv
      <3>2. HandOk(conn[d], since, sums)
        BY <3>1 DEF HandOk
      <3>3. QED
        BY <1>5, <2>2, <3>2
    <2>3. QED
      BY <2>1, <2>2
  <1>7. HandInv' /\ DownInv'
    BY <1>1, <1>4, <1>6 DEF HandInv, DownInv
  <1>8. CASE t.kind = "login"
    <2>1. UNCHANGED <<locations, heartbeats, device, odometer, daily>>
      BY <1>8 DEF Commit, tables
    <2>2. Current' = Current /\ Counted' = Counted
      BY <1>1, <2>1 DEF Current, Counted
    <2>3. QED
      BY <1>1, <1>7, <2>1, <2>2 DEF HistoryInv, WorldInv, AccountInv, SnapInv, ReaderInv,
                                    ServiceAnswerComplete
  <1>9. CASE t.kind = "heartbeat"
    <2> DEFINE beat == [id |-> row.id, at |-> row.at]
    <2>1. /\ heartbeats' = heartbeats \cup {beat}
          /\ device' = [device EXCEPT !.heartbeat = row.id]
          /\ UNCHANGED <<locations, odometer, daily>>
      BY <1>9 DEF Commit
    <2>2. Current' = Current /\ Counted' = Counted
      BY <1>1, <2>1 DEF Current, Counted
    <2>3. Newest(heartbeats') = row.id
      <3>1. Highest(row, heartbeats, ids.heartbeat)
        BY <1>1, <1>9 DEF Inv, RowInv
      <3>2. beat.id = row.id
        OBVIOUS
      <3> HIDE DEF beat
      <3>3. beat \in heartbeats' /\ \A r \in heartbeats' : r.id \in Nat /\ r.id <= beat.id
        BY <2>1, <3>1, <3>2 DEF Highest, Inv, IdsInv
      <3> HIDE DEF row
      <3>4. QED
        BY <3>2, <3>3, NewestOf
    <2>4. SnapInv'
      BY <2>1, <2>3 DEF HistoryInv, SnapInv
    <2>5. QED
      BY <1>1, <1>7, <2>1, <2>2, <2>4 DEF HistoryInv, WorldInv, AccountInv, ReaderInv,
                                          ServiceAnswerComplete
  <1>10. CASE t.kind = "location"
    <2>1. /\ locations' = locations \cup {row}
          /\ device' = [device EXCEPT !.location = row.id]
          /\ odometer' = t.result.odometer /\ daily' = t.result.daily
          /\ heartbeats' = heartbeats
      BY <1>10 DEF Commit
    <2>2. Highest(row, locations, ids.location) /\ row.id > since
          /\ t.result = Processed(Current, row)
      BY <1>1, <1>3, <1>10 DEF Inv, RowInv, HandOk
    <2>3. ById(locations) /\ since \in Nat /\ \A r \in locations : r.id \in Nat /\ r \in Reports
      BY DEF HistoryInv, WorldInv, ById, Reports
    <2>4. Counted' = Counted \cup {row}
      BY <1>1, <2>1, <2>2 DEF Counted
    <2>5. Accounts(t.result, Counted \cup {row})
      <3>1. ById(Counted) /\ Accounts(Current, Counted) /\ \A r \in Counted : r.id < row.id
        BY <2>2, <2>3 DEF Counted, ById, Highest, HistoryInv, AccountInv
      <3> HIDE DEF row
      <3>2. QED
        BY <1>3, <2>2, <3>1, ProcessedAccounts
    <2>6. Current' = t.result
      <3>1. t.result \in Sums
        BY <2>5 DEF Accounts
      <3>2. t.result = [odometer |-> t.result.odometer, daily |-> t.result.daily]
        BY <3>1 DEF Sums
      <3>3. QED
        BY <2>1, <3>2 DEF Current
    <2>7. AccountInv'
      BY <2>4, <2>5, <2>6 DEF AccountInv
    <2>8. WorldInv'
      BY <1>1, <1>3, <2>1, <2>2, <2>3 DEF HistoryInv, WorldInv, ById, Highest
    <2>9. SnapInv'
      <3>1. row \in locations' /\ \A r \in locations' : r.id \in Nat /\ r.id <= row.id
        BY <2>1, <2>2, <2>3 DEF Highest
      <3> HIDE DEF row
      <3>2. Newest(locations') = row.id
        BY <3>1, NewestOf
      <3>3. QED
        BY <2>1, <3>2 DEF HistoryInv, SnapInv
    <2>10. TotalOf(odometer) <= TotalOf(odometer')
      <3>1. Current \in Sums /\ Current.odometer = odometer
        BY DEF HistoryInv, AccountInv, Accounts, Current
      <3>2. TotalOf(Current.odometer) <= TotalOf(Processed(Current, row).odometer)
        BY <1>3, <3>1, ProcessedIsMore
      <3>3. QED
        BY <2>1, <2>2, <3>1, <3>2
    <2>11. TotalOf(odometer) \in Nat /\ TotalOf(odometer') \in Nat
      <3>1. Current \in Sums /\ t.result \in Sums
        BY <2>5 DEF HistoryInv, AccountInv, Accounts
      <3>2. odometer \in {NULL} \cup Odometers /\ odometer' \in {NULL} \cup Odometers
        BY <2>1, <3>1 DEF Sums, Current
      <3>3. QED
        BY <3>2 DEF TotalOf, Odometers
    <2>12. ReaderInv'
      <3>1. ReaderInv /\ reader' = reader
        BY <1>1 DEF HistoryInv
      <3>2. reader.step = "half" => reader.total \in Nat /\ reader.total <= TotalOf(odometer')
        BY <2>10, <2>11, <3>1 DEF ReaderInv
      <3>3. ServiceAnswerComplete'
        BY <3>1 DEF ReaderInv, ServiceAnswerComplete
      <3>4. QED
        BY <3>1, <3>2, <3>3 DEF ReaderInv
    <2>13. QED
      BY <1>7, <2>7, <2>8, <2>9, <2>12 DEF HistoryInv
  <1>11. QED
    BY <1>2, <1>8, <1>9, <1>10

LEMMA HistoryStop ==
  ASSUME Inv, HistoryInv, Stop
  PROVE  HistoryInv'
  <1>1. /\ service = "up" /\ service' = "down" /\ conn' = [c \in Connections |-> Idle]
        /\ UNCHANGED <<now, ids, locations, heartbeats, device, odometer, daily, backfill,
                       reader, since>>
    BY DEF Stop, tables
  <1>2. Current' = Current /\ Counted' = Counted /\ backfill' = NULL
    BY <1>1 DEF Current, Counted, HistoryInv, DownInv
  <1>3. \A c \in Connections : conn'[c] = Idle
    BY <1>1
  <1>4. HandInv' /\ DownInv'
    BY <1>1, <1>2, <1>3, IdleIsOk DEF HandInv, DownInv
  <1>5. QED
    BY <1>1, <1>2, <1>4 DEF HistoryInv, WorldInv, AccountInv, SnapInv, ReaderInv,
                            ServiceAnswerComplete

(* The clock, the restart, and the backfill until it commits.              *)
LEMMA HistoryAside ==
  ASSUME Inv, HistoryInv,
         UNCHANGED <<conn, ids, locations, heartbeats, device, odometer, daily, reader, since>>,
         now' \in 0..Horizon, service' \in {"up", "down"},
         service' = "down" => service = "down",
         backfill' # NULL => service' = "down" /\ backfill' = locations
  PROVE  HistoryInv'
  <1>1. Current' = Current /\ Counted' = Counted
    BY DEF Current, Counted
  <1>2. WorldInv' /\ HandInv' /\ AccountInv' /\ DownInv' /\ SnapInv'
    BY <1>1 DEF HistoryInv, WorldInv, HandInv, AccountInv, DownInv, SnapInv
  <1>3. ReaderInv'
    BY DEF HistoryInv, ReaderInv, ServiceAnswerComplete
  <1>4. QED
    BY <1>2, <1>3 DEF HistoryInv

LEMMA HistoryBackfill ==
  ASSUME Inv, HistoryInv, BackfillCommits
  PROVE  HistoryInv'
  <1> DEFINE sums == Rebuilt(locations)
  <1>1. /\ backfill # NULL /\ service = "down" /\ backfill = locations
        /\ odometer' = sums.odometer /\ daily' = sums.daily
        /\ since' = 0 /\ backfill' = NULL
        /\ UNCHANGED <<now, service, conn, ids, locations, heartbeats, device, reader>>
    BY DEF BackfillCommits, HistoryInv, DownInv
  <1>2. ById(locations) /\ since \in Nat /\ ids.location \in Nat
        /\ \A r \in locations : 0 < r.id /\ r.id <= ids.location
    BY DEF HistoryInv, WorldInv, Inv, IdsInv
  <1>3. Accounts(sums, locations)
    BY <1>2, RebuiltAccounts
  <1> HIDE DEF sums
  <1>4. Current' = sums
    <2>1. sums = [odometer |-> sums.odometer, daily |-> sums.daily]
      BY <1>3 DEF Accounts, Sums
    <2>2. QED
      BY <1>1, <2>1 DEF Current
  <1>5. Counted' = locations
    BY <1>1, <1>2 DEF Counted
  <1>6. AccountInv'
    BY <1>3, <1>4, <1>5 DEF AccountInv
  <1>7. WorldInv' /\ SnapInv'
    BY <1>1, <1>2 DEF HistoryInv, WorldInv, SnapInv
  <1>8. HandInv' /\ DownInv'
    <2>1. \A c \in Connections : conn'[c] = Idle
      BY <1>1 DEF HistoryInv, DownInv
    <2>2. QED
      BY <1>1, <2>1, IdleIsOk DEF HandInv, DownInv
  <1>9. TotalOf(odometer) <= TotalOf(odometer')
    <2>1. Accounts(Current, {r \in locations : r.id > since}) /\ Current.odometer = odometer
      BY DEF HistoryInv, AccountInv, Counted, Current
    <2>2. TotalOf(Current.odometer) <= TotalOf(sums.odometer)
      BY <1>2, <1>3, <2>1, RebuiltIsMore
    <2>3. QED
      BY <1>1, <2>1, <2>2
  <1>10. TotalOf(odometer) \in Nat /\ TotalOf(odometer') \in Nat
    <2>1. Current \in Sums /\ sums \in Sums
      BY <1>3 DEF HistoryInv, AccountInv, Accounts
    <2>2. odometer \in {NULL} \cup Odometers /\ odometer' \in {NULL} \cup Odometers
      BY <1>1, <2>1 DEF Sums, Current
    <2>3. QED
      BY <2>2 DEF TotalOf, Odometers
  <1>11. ReaderInv'
    <2>1. ReaderInv /\ reader' = reader
      BY <1>1 DEF HistoryInv
    <2>2. reader.step = "half" => reader.total \in Nat /\ reader.total <= TotalOf(odometer')
      BY <1>9, <1>10, <2>1 DEF ReaderInv
    <2>3. ServiceAnswerComplete'
      BY <2>1 DEF ReaderInv, ServiceAnswerComplete
    <2>4. QED
      BY <2>1, <2>2, <2>3 DEF ReaderInv
  <1>12. QED
    BY <1>6, <1>7, <1>8, <1>11 DEF HistoryInv

LEMMA HistoryRead ==
  ASSUME Inv, HistoryInv, ReadService
  PROVE  HistoryInv'
  <1>1. UNCHANGED <<now, service, conn, ids, locations, heartbeats, device, odometer, daily,
                    backfill, since>>
    BY DEF ReadService, tables
  <1>2. Current' = Current /\ Counted' = Counted
    BY <1>1 DEF Current, Counted
  <1>3. WorldInv' /\ HandInv' /\ AccountInv' /\ DownInv' /\ SnapInv'
    BY <1>1, <1>2 DEF HistoryInv, WorldInv, HandInv, AccountInv, DownInv, SnapInv
  <1>4. odometer \in {NULL} \cup Odometers /\ daily \in [Days -> Nat]
        /\ SumUpto(daily, LastDay) = TotalOf(odometer) /\ TotalOf(odometer) \in Nat
    <2>1. Current \in Sums /\ SumUpto(Current.daily, LastDay) = TotalOf(Current.odometer)
          /\ Current.daily = daily /\ Current.odometer = odometer
      BY DEF HistoryInv, AccountInv, Accounts, Current
    <2>2. odometer \in {NULL} \cup Odometers /\ daily \in [Days -> Nat]
      BY <2>1 DEF Sums
    <2>3. QED
      BY <2>1, <2>2 DEF TotalOf, Odometers
  <1>5. ReaderInv
    BY DEF HistoryInv
  <1>6. CASE reader.step = "idle"
    <2>1. reader' = [reader EXCEPT !.step = "half", !.total = Total]
      BY <1>6 DEF ReadService
    <2>2. reader' = [step |-> "half", total |-> Total, days |-> reader.days,
                     milestones |-> reader.milestones]
      BY <1>5, <2>1 DEF ReaderInv
    <2>3. Total = TotalOf(odometer)
      BY DEF Total, TotalOf
    <2>4. ReaderInv'
      BY <1>1, <1>4, <2>2, <2>3 DEF ReaderInv, ServiceAnswerComplete
    <2>5. QED
      BY <1>3, <2>4 DEF HistoryInv
  <1>7. CASE reader.step = "half"
    <2>1. reader' = Listed(reader.total, daily)
      BY <1>7 DEF ReadService
    <2>2. reader.total \in Nat /\ reader.total <= SumUpto(daily, LastDay)
      BY <1>4, <1>5, <1>7 DEF ReaderInv
    <2>3. reader' = [step |-> "answered", total |-> reader.total, days |-> NoDays,
                     milestones |-> Milestones(daily, reader.total \div Milestone)]
      BY <2>1 DEF Listed
    <2>4. ServiceAnswerComplete'
      <3>1. reader'.total = reader.total
            /\ reader'.milestones = Milestones(daily, reader.total \div Milestone)
        BY <2>3
      <3>2. {m.number : m \in Milestones(daily, reader.total \div Milestone)}
              = {n \in 1..(reader.total \div Milestone) : n > (reader.total \div Milestone) - MaxListed}
        BY <1>4, <2>2, AnswerLists
      <3>3. QED
        BY <3>1, <3>2 DEF ServiceAnswerComplete
    <2>5. ReaderInv'
      BY <2>3, <2>4 DEF ReaderInv
    <2>6. QED
      BY <1>3, <2>5 DEF HistoryInv
  <1>8. QED
    BY <1>6, <1>7 DEF ReadService

LEMMA HistoryStep ==
  ASSUME Inv, HistoryInv, [Next]_vars
  PROVE  HistoryInv'
  <1>1. ASSUME NEW c \in Connections,
               \/ Begin(c, "login", NoFix) \/ Begin(c, "heartbeat", NoFix)
               \/ \E fix \in Fixes : Begin(c, "location", fix)
        PROVE  HistoryInv'
    <2>1. NoFix.pos \in Int \cup {NULL} /\ NoFix.moving \in BOOLEAN
      BY DEF NoFix
    <2>2. \A fix \in Fixes : fix.pos \in Int \cup {NULL} /\ fix.moving \in BOOLEAN
      BY DistanceAssumption DEF DistanceAssumption
    <2>3. QED
      BY <1>1, <2>1, <2>2, HistoryBegin
  <1>2. ASSUME NEW c \in Connections,
               LockDevice(c) \/ InsertRow(c) \/ Measure(c) \/ Commit(c) \/ Fail(c)
        PROVE  HistoryInv'
    BY <1>2, HistoryLock, HistoryInsert, HistoryMeasure, HistoryCommit, HistoryFail
  <1>3. CASE Stop
    BY <1>3, HistoryStop
  <1>4. CASE BackfillCommits
    BY <1>4, HistoryBackfill
  <1>5. CASE ReadService
    BY <1>5, HistoryRead
  <1>6. WorldInv /\ DownInv /\ Horizon \in Nat
    BY DistanceAssumption DEF HistoryInv, DistanceAssumption
  <1>7. CASE Tick
    BY <1>6, <1>7, HistoryAside DEF Tick, tables, WorldInv, DownInv
  <1>8. CASE Restart \/ BackfillReads \/ BackfillDies \/ UNCHANGED vars
    BY <1>6, <1>8, HistoryAside DEF Restart, BackfillReads, BackfillDies, vars, tables, WorldInv,
                                    DownInv
  <1>9. QED
    BY <1>1, <1>2, <1>3, <1>4, <1>5, <1>7, <1>8 DEF Next

LEMMA TypesFollow ==
  ASSUME Inv, HistoryInv
  PROVE  TypeOK
  <1>1. Current \in Sums /\ Current.odometer = odometer /\ Current.daily = daily
    BY DEF HistoryInv, AccountInv, Accounts, Current
  <1>2. odometer \in {NULL} \cup Odometers /\ daily \in [Days -> Nat]
    BY <1>1 DEF Sums
  <1>3. odometer # NULL => odometer.total \in Nat /\ odometer.row \in locations
    <2> SUFFICES ASSUME odometer # NULL PROVE odometer.total \in Nat /\ odometer.row \in locations
      OBVIOUS
    <2>1. Counted # {}
      BY <1>1 DEF HistoryInv, AccountInv, Accounts, Deleted
    <2>2. odometer.row \in Counted
      BY <1>1, <2>1 DEF HistoryInv, AccountInv, Accounts
    <2>3. QED
      BY <1>2, <2>2 DEF Counted, Odometers
  <1>4. Horizon \in Nat /\ Reports \subseteq Rows
    BY DistanceAssumption DEF DistanceAssumption, Reports, Rows
  <1>5. locations \subseteq Rows /\ \A c \in Connections : conn[c].row \in Rows \cup {NULL}
    BY <1>4 DEF HistoryInv, WorldInv, ById, HandInv, HandOk
  <1>6. QED
    BY <1>2, <1>3, <1>5 DEF TypeOK, HistoryInv, WorldInv, Inv, LockInv, TransactionShape

LEMMA HistoryFollows ==
  ASSUME Inv, HistoryInv
  PROVE  OdometerIsHistory
  <1> DEFINE pairs == Neighbours(Counted)
  <1>1. SnapshotIsNewestRow
    BY DEF HistoryInv, SnapInv, SnapshotIsNewestRow
  <1>2. Accounts(Current, Counted) /\ Current.odometer = odometer /\ Current.daily = daily
    BY DEF HistoryInv, AccountInv, Current
  <1>3. CASE Counted = {}
    <2>1. odometer = NULL /\ daily = NoDays
      BY <1>2, <1>3 DEF Accounts, Deleted
    <2>2. QED
      BY <1>1, <1>3, <2>1 DEF OdometerIsHistory, Counted
  <1>4. CASE Counted # {}
    <2>1. /\ odometer.row \in Counted /\ \A r \in Counted : r.id <= odometer.row.id
          /\ odometer.total = Metres(pairs, odometer.row.id)
          /\ \A d \in Days : daily[d] = Metres(OfDay(pairs, d), odometer.row.id)
      BY <1>2, <1>4 DEF Accounts
    <2>2. \A r \in Counted : r.id \in Nat
      BY DEF HistoryInv, WorldInv, ById, Counted, Reports
    <2>3. Newest(Counted) = odometer.row.id
      BY <2>1, <2>2, NewestOf
    <2>4. QED
      BY <1>1, <1>4, <2>1, <2>3 DEF OdometerIsHistory, Counted
  <1>5. QED
    BY <1>3, <1>4

(* The variables keep their types, and the odometer's point is a committed *)
(* location: what it has seen is in the table (persist_event).             *)
THEOREM SpecTypeOK == Spec => []TypeOK
  <1>1. Spec => [](Inv /\ HistoryInv)
    BY InvInit, StepKeeps, HistoryInit, HistoryStep, PTL DEF Spec
  <1>2. QED
    BY <1>1, TypesFollow, PTL

(* Odometer and days are the segments between neighbouring locations, each *)
(* once and on the day of the later one, through failures, stops and       *)
(* rebuilds (process_location_distance, backfill_device_distance).         *)
THEOREM SpecOdometerIsHistory == Spec => []OdometerIsHistory
  <1>1. Spec => [](Inv /\ HistoryInv)
    BY InvInit, StepKeeps, HistoryInit, HistoryStep, PTL DEF Spec
  <1>2. QED
    BY <1>1, HistoryFollows, PTL

(* An answer lists every milestone its total has completed, although a     *)
(* rebuild or a message may come between its two reads (get_device_service). *)
THEOREM SpecServiceAnswerComplete == Spec => []ServiceAnswerComplete
  <1>1. Spec => [](Inv /\ HistoryInv)
    BY InvInit, StepKeeps, HistoryInit, HistoryStep, PTL DEF Spec
  <1>2. Inv /\ HistoryInv => ServiceAnswerComplete
    BY DEF HistoryInv, ReaderInv
  <1>3. QED
    BY <1>1, <1>2, PTL
================================================================================
