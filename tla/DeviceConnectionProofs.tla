------------------------ MODULE DeviceConnectionProofs ------------------------
(***************************************************************************)
(* Theorems about DeviceConnection, for any scripts of bytes, any cutting  *)
(* of the stream into reads and any checksum that is a u16: no frame is    *)
(* lost or invented on the stretch of the wire that is consumed, and the   *)
(* acknowledgements are the answers, in order, to what asked for one.      *)
(*                                                                         *)
(* Where the decoder looks in its buffer is where the wire has the frame   *)
(* (WireInv to FoundIs); so each turn of the inner loop keeps the frames   *)
(* greedy (GreedyInv).  What was written reads back as the answers, and    *)
(* the three counts differ only inside a turn (AckInv).  In quiet noise a  *)
(* start pair the decoder stops at begins a said item, so the items behind *)
(* what is consumed are whole and the frames are theirs (ArriveInv).       *)
(***************************************************************************)
EXTENDS DeviceConnection, SequenceTheorems, FiniteSetTheorems, InductionLemmas, TLAPS

-----------------------------------------------------------------------------
(* Pieces of the wire, and the buffer among them.                        *)

(* Pieces of the wire.                                                     *)
LEMMA Piece ==
  ASSUME NEW w \in Seq(Bytes), NEW a \in Nat, NEW b \in Nat, a <= b, b <= Len(w)
  PROVE  /\ SubSeq(w, a + 1, b) \in Seq(Bytes)
         /\ Len(SubSeq(w, a + 1, b)) = b - a
         /\ \A i \in 1..(b - a) : SubSeq(w, a + 1, b)[i] = w[a + i]
  <1>1. \A i \in (a + 1)..b : w[i] \in Bytes
    BY LenProperties
  <1>2. /\ SubSeq(w, a + 1, b) \in Seq(Bytes)
        /\ Len(SubSeq(w, a + 1, b)) = IF a + 1 <= b THEN b - (a + 1) + 1 ELSE 0
        /\ \A i \in 1..(b - (a + 1) + 1) : SubSeq(w, a + 1, b)[i] = w[(a + 1) + i - 1]
    BY <1>1, SubSeqProperties
  <1>3. QED
    BY <1>2

(* A piece of a piece is a piece of the whole.                           *)
LEMMA PieceOfPiece ==
  ASSUME NEW w \in Seq(Bytes), NEW a \in Nat, NEW b \in Nat, a <= b, b <= Len(w),
         NEW c \in Nat, NEW d \in Nat, c <= d, d <= b - a
  PROVE  SubSeq(SubSeq(w, a + 1, b), c + 1, d) = SubSeq(w, a + c + 1, a + d)
  <1> DEFINE whole == SubSeq(w, a + 1, b)
  <1>1. whole \in Seq(Bytes) /\ Len(whole) = b - a /\ \A i \in 1..(b - a) : whole[i] = w[a + i]
    BY Piece
  <1> HIDE DEF whole
  <1> DEFINE part == SubSeq(whole, c + 1, d)
             same == SubSeq(w, a + c + 1, a + d)
  <1>2. part \in Seq(Bytes) /\ Len(part) = d - c /\ \A i \in 1..(d - c) : part[i] = whole[c + i]
    <2>1. d <= Len(whole)
      BY <1>1
    <2>2. QED
      BY <1>1, <2>1, Piece
  <1>3. same \in Seq(Bytes) /\ Len(same) = d - c /\ \A i \in 1..(d - c) : same[i] = w[a + c + i]
    <2>1. a + c \in Nat /\ a + d \in Nat /\ a + c <= a + d /\ a + d <= Len(w)
          /\ (a + d) - (a + c) = d - c
      BY LenProperties
    <2>2. /\ same \in Seq(Bytes) /\ Len(same) = (a + d) - (a + c)
          /\ \A i \in 1..((a + d) - (a + c)) : same[i] = w[(a + c) + i]
      BY <2>1, Piece
    <2>3. QED
      BY <2>1, <2>2
  <1> HIDE DEF part, same
  <1>4. \A i \in 1..(d - c) : part[i] = same[i]
    <2>1. \A i \in 1..(d - c) : c + i \in 1..(b - a) /\ a + (c + i) = a + c + i
      OBVIOUS
    <2>2. QED
      BY <1>1, <1>2, <1>3, <2>1
  <1>5. part = same
    BY <1>2, <1>3, <1>4, SeqEqual
  <1>6. QED
    BY <1>5 DEF part, same, whole

(* The buffer is the piece of the wire behind what was consumed.           *)
WireInv ==
  /\ wire \in Seq(Bytes)
  /\ received \in 0..Len(wire)
  /\ Consumed \in 0..received
  /\ buffer = SubSeq(wire, Consumed + 1, received)

(* What the wire invariant says of the lengths.                          *)
LEMMA BufferIs ==
  ASSUME WireInv
  PROVE  /\ Len(wire) \in Nat /\ received \in Nat /\ received <= Len(wire) /\ Consumed \in Nat
         /\ Len(buffer) = received - Consumed /\ Len(buffer) \in Nat
         /\ buffer \in Seq(Bytes)
         /\ \A i \in 1..Len(buffer) : buffer[i] = wire[Consumed + i]
         /\ \A p \in 1..Len(wire) : wire[p] \in Bytes
  <1>1. Len(wire) \in Nat /\ received \in Nat /\ received <= Len(wire) /\ Consumed \in Nat
        /\ Consumed <= received
    BY LenProperties DEF WireInv
  <1>2. /\ buffer \in Seq(Bytes) /\ Len(buffer) = received - Consumed
        /\ \A i \in 1..(received - Consumed) : buffer[i] = wire[Consumed + i]
    BY <1>1, Piece DEF WireInv
  <1>3. \A p \in 1..Len(wire) : wire[p] \in Bytes
    BY LenProperties DEF WireInv
  <1>4. received - Consumed \in Nat
    BY <1>1
  <1> HIDE DEF Consumed
  <1>5. QED
    BY <1>1, <1>2, <1>3, <1>4

(* The bytes NextFrame skips: none of them starts a start pair.          *)
LEMMA SkippedIs ==
  ASSUME NEW b \in Seq(Bytes)
  PROVE  /\ SkippedBefore(b) \in 0..Len(b)
         /\ StartsAt(b, SkippedBefore(b))
         /\ \A j \in 0..(SkippedBefore(b) - 1) : ~StartsAt(b, j)
  <1> DEFINE T == {k \in 0..Len(b) : StartsAt(b, k)}
  <1>1. Len(b) \in Nat
    BY LenProperties
  <1>2. Len(b) \in T
    BY <1>1 DEF StartsAt
  <1>3. T \subseteq Nat
    BY <1>1
  <1>4. PICK k \in T : \A j \in T : k <= j
    <2> HIDE DEF T
    <2>1. QED
      BY <1>2, <1>3, Least
  <1>5. \A j \in 0..(k - 1) : ~StartsAt(b, j)
    BY <1>1, <1>4
  <1>6. \E i \in 0..Len(b) : StartsAt(b, i) /\ \A j \in 0..(i - 1) : ~StartsAt(b, j)
    BY <1>4, <1>5
  <1>7. QED
    BY <1>6 DEF SkippedBefore

(* Where the decoder looks.                                                *)
Skip  == SkippedBefore(buffer)
Place == Consumed + Skip + 1
Rest  == Drop(buffer, Skip)
Found == NextFrame(buffer)

(* What two bytes make.                                                    *)
Words    == {n \in Nat : n \div 256 \in Bytes}
Messages == [protocol_number : Bytes, payload : Seq(Bytes), serial : Words]

(* A piece of the buffer is a piece of the wire.                           *)
LEMMA PieceOfBuffer ==
  ASSUME WireInv, NEW a \in Nat, NEW b \in Nat, a <= b, b <= Len(buffer)
  PROVE  SubSeq(buffer, a + 1, b) = SubSeq(wire, Consumed + a + 1, Consumed + b)
  <1>1. wire \in Seq(Bytes) /\ Consumed \in Nat /\ received \in Nat /\ Consumed <= received
        /\ received <= Len(wire) /\ b <= received - Consumed
        /\ buffer = SubSeq(wire, Consumed + 1, received)
    BY BufferIs DEF WireInv
  <1> HIDE DEF Consumed
  <1>2. SubSeq(SubSeq(wire, Consumed + 1, received), a + 1, b)
          = SubSeq(wire, Consumed + a + 1, Consumed + b)
    BY <1>1, PieceOfPiece
  <1>3. QED
    BY <1>1, <1>2

(* A start pair in the buffer is a start pair on the wire.               *)
LEMMA PairOfBuffer ==
  ASSUME WireInv, NEW k \in Nat, k + 2 <= Len(buffer)
  PROVE  StartsAt(buffer, k) <=> PairAt(Consumed + k + 1)
  <1>1. Len(buffer) \in Nat /\ Consumed \in Nat /\ Len(wire) \in Nat
        /\ Consumed + k + 2 <= Len(wire)
    BY BufferIs
  <1>2. PICK e \in Nat : e = k + 2
    OBVIOUS
  <1>3. PICK p \in Nat : p = Consumed + k + 1
    BY <1>1
  <1>4. SubSeq(buffer, k + 1, e) = SubSeq(wire, Consumed + k + 1, Consumed + e)
    <2>1. k <= e /\ e <= Len(buffer)
      BY <1>1, <1>2
    <2>2. QED
      BY <2>1, PieceOfBuffer, Zenon
  <1>5. SubSeq(buffer, k + 1, k + 2) = SubSeq(wire, p, p + 1)
    <2>1. Consumed + e = p + 1
      BY <1>1, <1>2, <1>3
    <2>2. QED
      BY <1>2, <1>3, <1>4, <2>1
  <1>6. p + 1 <= Len(wire) /\ ~ (Len(buffer) - k < 2)
    BY <1>1, <1>3
  <1>7. StartsAt(buffer, k) <=> PairAt(p)
    BY <1>5, <1>6 DEF StartsAt, PairAt
  <1>8. QED
    BY <1>3, <1>7

(* What is left behind the skipped bytes.                                *)
LEMMA RestIs ==
  ASSUME WireInv
  PROVE  /\ Skip \in Nat /\ Skip <= Len(buffer) /\ Place \in Nat \ {0}
         /\ Rest = SubSeq(wire, Place, received) /\ Rest \in Seq(Bytes)
         /\ Len(Rest) = Len(buffer) - Skip /\ Len(Rest) = received - Place + 1
         /\ \A i \in 1..Len(Rest) : Rest[i] = wire[Place + i - 1] /\ Rest[i] \in Bytes
         /\ StartsAt(buffer, Skip)
         /\ \A p \in (Consumed + 1)..(Place - 1) : ~PairAt(p)
  <1>1. /\ Len(wire) \in Nat /\ received \in Nat /\ received <= Len(wire) /\ Consumed \in Nat
        /\ Len(buffer) = received - Consumed /\ Len(buffer) \in Nat /\ buffer \in Seq(Bytes)
        /\ \A p \in 1..Len(wire) : wire[p] \in Bytes
    BY BufferIs
  <1>2. /\ Skip \in 0..Len(buffer) /\ StartsAt(buffer, Skip)
        /\ \A j \in 0..(Skip - 1) : ~StartsAt(buffer, j)
    BY <1>1, SkippedIs DEF Skip
  <1> DEFINE c == Consumed
             k == Skip
  <1>3. Rest = SubSeq(wire, c + k + 1, c + Len(buffer))
    <2>0. PICK e \in Nat : e = Len(buffer)
      BY <1>1
    <2>1. SubSeq(buffer, k + 1, e) = SubSeq(wire, c + k + 1, c + e)
      <3>1. k \in Nat /\ k <= e
        BY <1>1, <1>2, <2>0
      <3> HIDE DEF k
      <3>2. QED
        <4>1. e <= Len(buffer)
          BY <1>1, <2>0
        <4>2. QED
          BY <3>1, <4>1, PieceOfBuffer, Zenon
    <2>2. QED
      BY <2>0, <2>1 DEF Rest, Drop
  <1>4. Place = c + k + 1
    BY DEF Place
  <1>5. ASSUME NEW p \in (c + 1)..(Place - 1) PROVE ~PairAt(p)
    <2> DEFINE j == p - c - 1
    <2> HIDE DEF Consumed, Skip
    <2>1. j \in 0..(k - 1) /\ p = c + j + 1 /\ c + j + 1 = Consumed + j + 1
      BY <1>1, <1>2, <1>4
    <2>2. ~StartsAt(buffer, j)
      BY <1>2, <2>1
    <2>3. j + 2 <= Len(buffer) /\ j \in Nat
      BY <1>1, <1>2, <2>1, <2>2 DEF StartsAt
    <2> HIDE DEF j
    <2>4. ~PairAt(Consumed + j + 1)
      BY <2>2, <2>3, PairOfBuffer
    <2>5. QED
      BY <2>1, <2>4
  <1> HIDE DEF c, k
  <1> DEFINE e == c + k
  <1>6. c \in Nat /\ k \in Nat /\ k <= Len(buffer) /\ Len(buffer) = received - c /\ e \in Nat /\ e <= received
        /\ c + Len(buffer) = received
    BY <1>1, <1>2 DEF c, k
  <1>7. wire \in Seq(Bytes)
    BY DEF WireInv
  <1>8. /\ SubSeq(wire, e + 1, received) \in Seq(Bytes)
        /\ Len(SubSeq(wire, e + 1, received)) = received - e
        /\ \A i \in 1..(received - e) : SubSeq(wire, e + 1, received)[i] = wire[e + i]
    BY <1>1, <1>6, <1>7, Piece
  <1>9. Place = e + 1 /\ Rest = SubSeq(wire, e + 1, received)
    BY <1>3, <1>4, <1>6
  <1>10. \A i \in 1..(received - e) : e + i = Place + i - 1 /\ e + i \in 1..Len(wire)
    BY <1>1, <1>6, <1>9
  <1>11. /\ Rest \in Seq(Bytes) /\ Len(Rest) = received - e
         /\ \A i \in 1..Len(Rest) : Rest[i] = wire[Place + i - 1] /\ Rest[i] \in Bytes
    BY <1>1, <1>8, <1>9, <1>10
  <1>12. Len(Rest) = Len(buffer) - k /\ Len(Rest) = received - Place + 1 /\ Place \in Nat \ {0}
         /\ Place - 1 = e
    BY <1>1, <1>6, <1>9, <1>11
  <1>13. QED
    BY <1>2, <1>5, <1>6, <1>9, <1>11, <1>12 DEF c, k

(* Two bytes of it are a start pair on the wire.                         *)
LEMMA PairOfRest ==
  ASSUME WireInv, Len(Rest) >= 2
  PROVE  PairAt(Place)
  <1>1. /\ Skip \in Nat /\ Len(Rest) = Len(buffer) - Skip /\ Len(buffer) \in Nat
        /\ StartsAt(buffer, Skip)
    BY RestIs, BufferIs
  <1>2. Skip + 2 <= Len(buffer)
    BY <1>1
  <1>3. StartsAt(buffer, Skip) <=> PairAt(Consumed + Skip + 1)
    BY <1>1, <1>2, PairOfBuffer, Zenon
  <1>4. QED
    BY <1>1, <1>3, Zenon DEF Place

(* A piece of the rest is a piece of the wire.                           *)
LEMMA PieceOfRest ==
  ASSUME WireInv, NEW a \in Nat, NEW b \in Nat, a <= b, b <= Len(Rest)
  PROVE  SubSeq(Rest, a + 1, b) = SubSeq(wire, Place + a, Place + b - 1)
  <1>1. /\ Place \in Nat \ {0} /\ Rest = SubSeq(wire, Place, received)
        /\ Len(Rest) = received - Place + 1
    BY RestIs
  <1>2. wire \in Seq(Bytes) /\ received \in Nat /\ received <= Len(wire) /\ Len(wire) \in Nat
    BY BufferIs DEF WireInv
  <1> DEFINE p == Place
             r == Rest
             l == Len(Rest)
  <1>a. p \in Nat \ {0} /\ l = received - p + 1 /\ b <= l
    BY <1>1
  <1>b. r = SubSeq(wire, p, received)
    BY <1>1
  <1>c. SubSeq(Rest, a + 1, b) = SubSeq(r, a + 1, b)
    OBVIOUS
  <1> HIDE DEF p, r, l
  <1>3. PICK e \in Nat : p = e + 1
    <2>1. p - 1 \in Nat /\ p = (p - 1) + 1
      BY <1>a
    <2>2. QED
      BY <2>1
  <1>4. r = SubSeq(wire, e + 1, received) /\ b <= received - e /\ e <= received
    BY <1>a, <1>b, <1>2, <1>3
  <1>5. SubSeq(SubSeq(wire, e + 1, received), a + 1, b) = SubSeq(wire, e + a + 1, e + b)
    BY <1>2, <1>4, PieceOfPiece
  <1>6. p + a = e + a + 1 /\ p + b - 1 = e + b
    BY <1>a, <1>3
  <1>7. QED
    BY <1>c, <1>4, <1>5, <1>6 DEF p

(* So is a single byte.                                                  *)
LEMMA FieldOfRest ==
  ASSUME WireInv, NEW a \in Nat, NEW b \in Nat, a <= b, b <= Len(Rest)
  PROVE  /\ SubSeq(Rest, a + 1, b) \in Seq(Bytes)
         /\ Len(SubSeq(Rest, a + 1, b)) = b - a
         /\ \A i \in 1..(b - a) : SubSeq(Rest, a + 1, b)[i] \in Bytes
  <1>1. Rest \in Seq(Bytes)
    BY RestIs
  <1>2. /\ SubSeq(Rest, a + 1, b) \in Seq(Bytes)
        /\ Len(SubSeq(Rest, a + 1, b)) = b - a
    BY <1>1, Piece, Zenon
  <1> DEFINE s == SubSeq(Rest, a + 1, b)
  <1>a. s \in Seq(Bytes) /\ Len(s) = b - a
    BY <1>2
  <1>b. SubSeq(Rest, a + 1, b) = s
    OBVIOUS
  <1> HIDE DEF s
  <1>3. \A i \in 1..(b - a) : s[i] \in Bytes
    BY <1>a, ElementOfSeq
  <1>4. QED
    BY <1>a, <1>b, <1>3

(* Two bytes make a word, and a word is two bytes.                       *)
LEMMA WordIs ==
  ASSUME NEW x \in Bytes, NEW y \in Bytes
  PROVE  x * 256 + y \in Words
  <1>1. x \in Int /\ y \in Int /\ 0 <= x /\ x <= 255 /\ 0 <= y /\ y <= 255
    BY SMT DEF Bytes
  <1>2. x * 256 + y \in Nat /\ (x * 256 + y) \div 256 = x
    BY <1>1, SMT
  <1>3. QED
    BY <1>2, Zenon DEF Words

LEMMA U16Is ==
  ASSUME NEW s, s[1] \in Bytes, s[2] \in Bytes
  PROVE  U16(s) \in Words
  BY WordIs, Zenon DEF U16

LEMMA HighAndLow ==
  ASSUME NEW n \in Words
  PROVE  n \div 256 \in Bytes /\ n % 256 \in Bytes
  <1>1. n \in Nat
    BY DEF Words
  <1>2. n % 256 \in 0..255
    BY <1>1
  <1>3. QED
    BY <1>2, Zenon DEF Words, Bytes

(* A whole frame in the buffer, said of the wire: at is its place, long    *)
(* the length byte.                                                        *)
Whole(at, long) ==
  /\ WireInv /\ ~Incomplete(Rest)
  /\ at = Place /\ long = Rest[3] /\ long >= 5

(* A whole frame has a size, and ends where EndAt says.                  *)
LEMMA WholeSize ==
  ASSUME NEW at, NEW long, Whole(at, long)
  PROVE  /\ long \in 5..255 /\ long = wire[at + 2] /\ at \in Nat \ {0}
         /\ Len(Rest) \in Nat /\ long + 5 <= Len(Rest) /\ Len(Rest) >= 5
         /\ Len(Rest) = received - at + 1 /\ PairAt(at)
         /\ at + long + 4 <= Len(wire) /\ at + long + 4 <= received
         /\ Len(wire) \in Nat /\ received \in Nat
  <1> DEFINE l == Len(Rest)
  <1>1. l \in Nat /\ ~ (l < 5) /\ ~ (Rest[3] >= 5 /\ l < Rest[3] + 5)
    BY RestIs, LenProperties DEF Incomplete, TotalLen, Whole
  <1>2. /\ at \in Nat \ {0} /\ Skip \in Nat /\ l = Len(buffer) - Skip /\ l = received - at + 1
        /\ \A i \in 1..l : Rest[i] = wire[at + i - 1] /\ Rest[i] \in Bytes
        /\ StartsAt(buffer, Skip) /\ at = Consumed + Skip + 1
    BY RestIs DEF Place, Whole
  <1>3. Len(wire) \in Nat /\ received \in Nat /\ received <= Len(wire) /\ Len(buffer) \in Nat
    BY BufferIs DEF Whole
  <1>4. long = Rest[3] /\ long >= 5
    BY DEF Whole
  <1>d. Len(Rest) = l
    OBVIOUS
  <1> HIDE DEF l
  <1>5. l >= 5 /\ 3 \in 1..l
    BY <1>1
  <1>6. long \in Bytes /\ ~ (long >= 5 /\ l < long + 5) /\ long = wire[at + 3 - 1]
    BY <1>1, <1>2, <1>4, <1>5
  <1>7. long \in 5..255 /\ long + 5 <= l /\ at + 3 - 1 = at + 2
    <2>1. long \in 0..255 /\ long >= 5 /\ l \in Nat /\ ~ (l < long + 5) /\ at \in Nat
      BY <1>1, <1>2, <1>4, <1>6 DEF Bytes
    <2>2. QED
      BY ONLY <2>1
  <1>8. PairAt(at)
    <2>1. Skip + 2 <= Len(buffer)
      BY <1>2, <1>3, <1>5
    <2>2. StartsAt(buffer, Skip) <=> PairAt(Consumed + Skip + 1)
      BY <1>2, <2>1, PairOfBuffer, Zenon DEF Whole
    <2>3. QED
      BY <1>2, <2>1, <2>2, Zenon
  <1>9. at + long + 4 <= received /\ at + long + 4 <= Len(wire)
    <2>1. /\ at \in Nat /\ long \in Nat /\ l \in Nat /\ received \in Nat /\ Len(wire) \in Nat
          /\ l = received - at + 1 /\ received <= Len(wire) /\ long + 5 <= l
      BY <1>1, <1>2, <1>3, <1>7
    <2>2. QED
      BY ONLY <2>1
  <1>10. QED
    BY <1>1, <1>2, <1>3, <1>5, <1>6, <1>7, <1>8, <1>9, <1>d

(* Its stop bytes, what the checksum is of, and the checksum.              *)
SameParts(at, n, stop) ==
  /\ SubSeq(Rest, n - 1, n) = SubSeq(wire, stop - 1, stop)
  /\ SubSeq(Rest, 3, n - 4) = SubSeq(wire, at + 2, stop - 4)
  /\ SubSeq(Rest, n - 3, n - 2) = SubSeq(wire, stop - 3, stop - 2)

(* The decoder looks at the same bytes the wire has there.               *)
LEMMA WholeParts ==
  ASSUME NEW at, NEW long, Whole(at, long)
  PROVE  \A n, stop : n = long + 5 /\ stop = at + long + 4 => SameParts(at, n, stop)
  <1>0. TAKE n, stop
  <1>e. HAVE n = long + 5 /\ stop = at + long + 4
  <1>1. /\ long \in 5..255 /\ at \in Nat \ {0} /\ Len(Rest) \in Nat /\ long + 5 <= Len(Rest)
    BY WholeSize
  <1>w. WireInv /\ at = Place
    BY DEF Whole
  <1> DEFINE l == Len(Rest)
  <1>2. \A a, b \in Nat : a <= b /\ b <= l =>
          SubSeq(Rest, a + 1, b) = SubSeq(wire, at + a, at + b - 1)
    <2>1. TAKE a, b \in Nat
    <2>2. HAVE a <= b /\ b <= l
    <2>3. SubSeq(Rest, a + 1, b) = SubSeq(wire, Place + a, Place + b - 1)
      BY <1>w, <2>2, PieceOfRest, Zenon
    <2>4. QED
      BY <1>w, <2>3
  <1>3. l \in Nat /\ long + 5 <= l
    BY <1>1
  <1> HIDE DEF l
  <1>6. SubSeq(Rest, n - 1, n) = SubSeq(wire, stop - 1, stop)
    <2>1. PICK a \in Nat, b \in Nat : a = long + 3 /\ b = long + 5
      BY <1>1
    <2>2. a <= b /\ b <= l /\ stop - 1 = at + a /\ stop = at + b - 1 /\ a + 1 = n - 1 /\ b = n
      BY <1>1, <1>3, <1>e, <2>1
    <2>3. SubSeq(Rest, a + 1, b) = SubSeq(wire, at + a, at + b - 1)
      BY <1>2, <2>1, <2>2, Zenon
    <2>5. QED
      BY <2>2, <2>3
  <1>7. SubSeq(Rest, 3, n - 4) = SubSeq(wire, at + 2, stop - 4)
    <2>1. PICK a \in Nat, b \in Nat : a = 2 /\ b = long + 1
      BY <1>1
    <2>2. a <= b /\ b <= l /\ at + 2 = at + a /\ stop - 4 = at + b - 1 /\ a + 1 = 3 /\ b = n - 4
      BY <1>1, <1>3, <1>e, <2>1
    <2>3. SubSeq(Rest, a + 1, b) = SubSeq(wire, at + a, at + b - 1)
      BY <1>2, <2>1, <2>2, Zenon
    <2>5. QED
      BY <2>2, <2>3
  <1>8. SubSeq(Rest, n - 3, n - 2) = SubSeq(wire, stop - 3, stop - 2)
    <2>1. PICK a \in Nat, b \in Nat : a = long + 1 /\ b = long + 3
      BY <1>1
    <2>2. a <= b /\ b <= l /\ stop - 3 = at + a /\ stop - 2 = at + b - 1 /\ a + 1 = n - 3 /\ b = n - 2
      BY <1>1, <1>3, <1>e, <2>1
    <2>3. SubSeq(Rest, a + 1, b) = SubSeq(wire, at + a, at + b - 1)
      BY <1>2, <2>1, <2>2, Zenon
    <2>5. QED
      BY <2>2, <2>3
  <1>9. QED
    BY <1>6, <1>7, <1>8 DEF SameParts

(* Not malformed, in the buffer, is a frame on the wire.                 *)
LEMMA WholeIs ==
  ASSUME NEW at, NEW long, Whole(at, long)
  PROVE  Malformed(Rest) <=> ~FrameAt(at)
  <1>n. PICK n, stop : n = long + 5 /\ stop = at + long + 4
    OBVIOUS
  <1>1. /\ long \in 5..255 /\ at \in Nat \ {0} /\ PairAt(at) /\ long = wire[at + 2]
        /\ at + long + 4 <= Len(wire) /\ Len(wire) \in Nat /\ long = Rest[3]
    BY WholeSize DEF Whole
  <1>2. SameParts(at, n, stop)
    BY <1>n, WholeParts, Zenon
  <1>4. EndAt(at) = stop /\ TotalLen(Rest) = n
    BY <1>1, <1>n, Zenon DEF EndAt, TotalLen
  <1>5. at + 4 <= Len(wire) /\ stop <= Len(wire) /\ long >= 5 /\ ~ (long < 5)
    <2>1. at \in Nat /\ long \in 5..255 /\ Len(wire) \in Nat /\ stop = at + long + 4
          /\ at + long + 4 <= Len(wire)
      BY <1>1, <1>n
    <2>2. QED
      BY ONLY <2>1
  <1>9. Malformed(Rest) <=> \/ SubSeq(Rest, n - 1, n) # STOP_BYTES
                            \/ Crc(SubSeq(Rest, 3, n - 4)) # U16(SubSeq(Rest, n - 3, n - 2))
    BY <1>1, <1>4, <1>5, Zenon DEF Malformed
  <1>10. FrameAt(at) <=>
           /\ SubSeq(wire, stop - 1, stop) = STOP_BYTES
           /\ Crc(SubSeq(wire, at + 2, stop - 4)) = U16(SubSeq(wire, stop - 3, stop - 2))
    BY <1>1, <1>4, <1>5, Zenon DEF FrameAt
  <1>12. QED
    BY <1>2, <1>9, <1>10 DEF SameParts

(* What the decoder makes of it is a frame record.                       *)
LEMMA FrameOfRest ==
  ASSUME NEW at, NEW long, Whole(at, long)
  PROVE  FrameOf(Rest) \in Messages /\ Len(FrameOf(Rest).payload) + 10 = long + 5
  <1>0. WireInv /\ long = Rest[3]
    BY DEF Whole
  <1>1. long \in 5..255
    BY WholeSize
  <1> DEFINE payload == SubSeq(Rest, 5, long - 1)
             tail == SubSeq(Rest, long, long + 1)
             l == Len(Rest)
  <1>p. payload = SubSeq(Rest, 5, long - 1) /\ tail = SubSeq(Rest, long, long + 1)
    OBVIOUS
  <1>l. \A a, b \in Nat : a <= b /\ b <= l =>
          /\ SubSeq(Rest, a + 1, b) \in Seq(Bytes)
          /\ Len(SubSeq(Rest, a + 1, b)) = b - a
          /\ \A i \in 1..(b - a) : SubSeq(Rest, a + 1, b)[i] \in Bytes
    BY <1>0, FieldOfRest
  <1>s. l \in Nat /\ long + 5 <= l
    BY WholeSize
  <1>r. \A i \in 1..l : Rest[i] \in Bytes
    BY <1>0, RestIs
  <1> HIDE DEF payload, tail, l
  <1>2. Rest[4] \in Bytes
    <2>1. 4 \in 1..l
      BY <1>1, <1>s
    <2>2. QED
      BY <1>r, <2>1
  <1>3. payload \in Seq(Bytes) /\ Len(payload) = long - 5
    <2>1. PICK a \in Nat, b \in Nat : a = 4 /\ b = long - 1
      BY <1>1
    <2>2. a <= b /\ b <= l /\ a + 1 = 5 /\ b - a = long - 5
      BY <1>1, <1>s, <2>1
    <2>3. SubSeq(Rest, a + 1, b) \in Seq(Bytes) /\ Len(SubSeq(Rest, a + 1, b)) = b - a
      BY <1>l, <2>2, Zenon
    <2>4. QED
      BY <1>p, <2>1, <2>2, <2>3
  <1>4. tail[1] \in Bytes /\ tail[2] \in Bytes
    <2>1. PICK a \in Nat, b \in Nat : a = long - 1 /\ b = long + 1
      BY <1>1
    <2>2. a <= b /\ b <= l /\ a + 1 = long /\ 1 \in 1..(b - a) /\ 2 \in 1..(b - a)
      BY <1>1, <1>s, <2>1
    <2>3. \A i \in 1..(b - a) : SubSeq(Rest, a + 1, b)[i] \in Bytes
      BY <1>l, <2>2, Zenon
    <2>4. SubSeq(Rest, a + 1, b) = tail
      BY <1>p, <2>1, <2>2
    <2>5. QED
      BY <2>2, <2>3, <2>4
  <1>5. U16(tail) \in Words
    BY <1>4, U16Is, Zenon
  <1>6. FrameOf(Rest) = [protocol_number |-> Rest[4], payload |-> payload, serial |-> U16(tail)]
    <2>1. (long - 1) + 1 = long /\ (long - 1) + 2 = long + 1
      BY <1>1
    <2>2. FrameOf(Rest) = [protocol_number |-> Rest[4], payload |-> SubSeq(Rest, 5, long - 1),
                           serial |-> U16(SubSeq(Rest, (long - 1) + 1, (long - 1) + 2))]
      BY <1>0, Zenon DEF FrameOf
    <2>3. QED
      BY <1>p, <2>1, <2>2
  <1>7. FrameOf(Rest) \in Messages /\ FrameOf(Rest).payload = payload
    BY <1>2, <1>3, <1>5, <1>6 DEF Messages
  <1>8. (long - 5) + 10 = long + 5
    BY <1>1
  <1>9. QED
    BY <1>3, <1>7, <1>8

-----------------------------------------------------------------------------
(* What NextFrame finds.                                                 *)

(* The three answers of next_frame, and what each says of the wire.        *)
FoundNothing ==
  /\ Found.kind = "none" /\ Found.taken = Skip /\ Incomplete(Rest)
FoundError ==
  /\ Found.kind = "error" /\ Found.taken = Skip + 1
  /\ Skip < Len(buffer) /\ PairAt(Place) /\ ~FrameAt(Place)
FoundFrame(long) ==
  /\ Found.kind = "frame" /\ Found.frame \in Messages /\ Found.frame = FrameOf(Rest)
  /\ long = wire[Place + 2]
  /\ long \in 5..255 /\ Len(Found.frame.payload) + 10 = long + 5
  /\ Found.taken = Skip + (long + 5) /\ Skip + (long + 5) <= Len(buffer)
  /\ FrameAt(Place)

(* The three outcomes of NextFrame, and what is known of each.           *)
LEMMA FoundIs ==
  ASSUME WireInv
  PROVE  FoundNothing \/ FoundError \/ \E long : FoundFrame(long)
  <1> DEFINE turn == AtStart[Rest]
  <1>1. Found = [turn EXCEPT !.taken = Skip + @]
    BY DEF Found, NextFrame, Rest, Skip
  <1>2. turn = IF Incomplete(Rest) THEN [kind |-> "none", taken |-> 0, frame |-> NoFrame]
               ELSE IF Malformed(Rest) THEN [kind |-> "error", taken |-> GivenUp(Rest), frame |-> NoFrame]
               ELSE [kind |-> "frame", taken |-> TotalLen(Rest), frame |-> FrameOf(Rest)]
    BY RestIs DEF AtStart
  <1> HIDE DEF turn
  <1>3. Skip \in Nat /\ Skip <= Len(buffer) /\ Len(Rest) = Len(buffer) - Skip /\ Len(buffer) \in Nat
    BY RestIs, BufferIs
  <1>4. CASE Incomplete(Rest)
    <2>1. turn = [kind |-> "none", taken |-> 0, frame |-> NoFrame]
      BY <1>2, <1>4
    <2>2. Found.kind = "none" /\ Found.taken = Skip + 0
      BY <1>1, <2>1
    <2>3. QED
      BY <1>3, <1>4, <2>2 DEF FoundNothing
  <1>5. CASE ~Incomplete(Rest) /\ Malformed(Rest)
    <2>1. turn = [kind |-> "error", taken |-> 1, frame |-> NoFrame]
      BY <1>2, <1>5 DEF GivenUp
    <2>2. Found.kind = "error" /\ Found.taken = Skip + 1
      BY <1>1, <2>1
    <2>3. Len(Rest) >= 5
      <3>1. ~ (Len(Rest) < 5) /\ Len(Rest) \in Nat
        BY <1>3, <1>5 DEF Incomplete
      <3>2. QED
        BY <3>1
    <2>4. Skip < Len(buffer)
      BY <1>3, <2>3
    <2>5. ~FrameAt(Place)
      <3>1. CASE Rest[3] >= 5
        <4>1. Whole(Place, Rest[3])
          BY <1>5, <3>1 DEF Whole
        <4>2. QED
          BY <1>5, <4>1, WholeIs
      <3>2. CASE ~ (Rest[3] >= 5)
        <4>1. 3 \in 1..Len(Rest)
          BY <1>3, <2>3
        <4>2. Rest[3] = wire[Place + 3 - 1] /\ Place \in Nat
          BY <4>1, RestIs
        <4>3. Place + 3 - 1 = Place + 2
          BY <4>2
        <4>4. QED
          BY <3>2, <4>2, <4>3 DEF FrameAt
      <3>3. QED
        BY <3>1, <3>2
    <2>6. PairAt(Place)
      BY <2>3, PairOfRest
    <2>7. QED
      BY <2>2, <2>4, <2>5, <2>6 DEF FoundError
  <1>6. CASE ~Incomplete(Rest) /\ ~Malformed(Rest)
    <2> PICK long : long = Rest[3]
      OBVIOUS
    <2>1. turn = [kind |-> "frame", taken |-> TotalLen(Rest), frame |-> FrameOf(Rest)]
      BY <1>2, <1>6
    <2>2. Rest[3] \in Nat /\ long >= 5
      <3>1. ~ (Len(Rest) < 5) /\ Len(Rest) \in Nat /\ ~ (Rest[3] < 5)
        BY <1>3, <1>6 DEF Incomplete, Malformed
      <3>2. 3 \in 1..Len(Rest)
        BY <3>1
      <3>3. Rest[3] \in Nat
        <4>1. Rest[3] \in Bytes
          BY <3>2, RestIs
        <4>2. QED
          BY <4>1 DEF Bytes
      <3>4. QED
        BY <3>1, <3>3
    <2>3. Whole(Place, long)
      BY <1>6, <2>2 DEF Whole
    <2>4. long \in 5..255 /\ long + 5 <= Len(Rest) /\ long = wire[Place + 2]
      BY <2>3, WholeSize
    <2>5. FrameAt(Place)
      BY <1>6, <2>3, WholeIs
    <2>6. FrameOf(Rest) \in Messages /\ Len(FrameOf(Rest).payload) + 10 = long + 5
      BY <2>3, FrameOfRest
    <2>7. TotalLen(Rest) = long + 5
      BY DEF TotalLen
    <2>8. Found.kind = "frame" /\ Found.taken = Skip + (long + 5) /\ Found.frame = FrameOf(Rest)
      BY <1>1, <2>1, <2>7
    <2>9. Skip + (long + 5) <= Len(buffer)
      BY <1>3, <2>4
    <2>10. FoundFrame(long)
      BY <2>4, <2>5, <2>6, <2>8, <2>9 DEF FoundFrame
    <2>11. QED
      BY <2>10
  <1>7. QED
    BY <1>4, <1>5, <1>6

(* Dropping n bytes off the front.                                         *)
LEMMA DropIs ==
  ASSUME WireInv, NEW n \in Nat, n <= Len(buffer),
         buffer' = Drop(buffer, n), wire' = wire, received' = received
  PROVE  WireInv' /\ Consumed' = Consumed + n
  <1>1. /\ wire \in Seq(Bytes) /\ Consumed \in Nat /\ received \in Nat /\ received \in 0..Len(wire)
        /\ Len(buffer) = received - Consumed /\ Len(buffer) \in Nat
    BY BufferIs DEF WireInv
  <1>2. PICK m \in Nat : m = Len(buffer)
    BY <1>1
  <1>3. SubSeq(buffer, n + 1, m) = SubSeq(wire, Consumed + n + 1, Consumed + m)
    <2>1. n <= m /\ m <= Len(buffer)
      BY <1>2
    <2>2. QED
      BY <1>2, <2>1, PieceOfBuffer, Zenon
  <1> DEFINE c == Consumed
  <1>4. PICK e \in Nat : e = c + n
    BY <1>1
  <1>5. c \in Nat /\ m = received - c /\ n <= m
    BY <1>1, <1>2
  <1>6. buffer' = SubSeq(wire, c + n + 1, c + m)
    BY <1>2, <1>3 DEF Drop
  <1>c. Consumed + n = c + n
    OBVIOUS
  <1> HIDE DEF c
  <1>7. buffer' = SubSeq(wire, e + 1, received) /\ e <= received
    <2>1. c + n + 1 = e + 1 /\ c + m = received /\ e <= received
      BY <1>1, <1>4, <1>5
    <2>2. QED
      BY <1>6, <2>1
  <1>8. Len(buffer') = received - e
    <2>1. received <= Len(wire)
      BY <1>1
    <2>2. Len(SubSeq(wire, e + 1, received)) = received - e
      BY <1>1, <1>4, <1>7, <2>1, Piece
    <2>3. QED
      BY <1>7, <2>2
  <1>9. Consumed' = e
    <2>1. Consumed' = received' - Len(buffer')
      BY DEF Consumed
    <2>2. received - (received - e) = e
      BY <1>1, <1>4
    <2>3. QED
      BY <1>8, <2>1, <2>2
  <1>10. e \in 0..received
    BY <1>1, <1>4, <1>7
  <1>11. WireInv'
    BY <1>1, <1>7, <1>9, <1>10 DEF WireInv
  <1>12. QED
    BY <1>4, <1>9, <1>11, <1>c

-----------------------------------------------------------------------------
(* The frames taken so far.                                              *)

(* What is known of the frames taken.                                    *)
Positive == Nat \ {0}
Taken    == [frame : Messages, at : Positive, len : Positive]

(* Frames were taken from what is consumed.                                *)
FramesInv ==
  /\ frames \in Seq(Taken)
  /\ \A i \in 1..Len(frames) : frames[i].at + frames[i].len <= Consumed + 1

GreedyInv == WireInv /\ FramesInv /\ FramesAreGreedy

(* Each frame taken has a place and a length.                            *)
LEMMA TakenFacts ==
  ASSUME frames \in Seq(Taken)
  PROVE  /\ Len(frames) \in Nat
         /\ \A i \in 1..Len(frames) : frames[i].at \in Positive /\ frames[i].len \in Positive
  <1>1. \A i \in 1..Len(frames) : frames[i] \in Taken
    BY ElementOfSeq
  <1>2. QED
    BY <1>1, LenProperties DEF Taken

(* Places passed without taking a frame: there was none.                   *)
LEMMA PassedOver ==
  ASSUME GreedyInv, WireInv', wire' = wire, frames' = frames,
         Consumed <= Consumed', \A p \in (Consumed + 1)..Consumed' : ~FrameAt(p)
  PROVE  GreedyInv'
  <1> DEFINE c == Consumed
             d == Consumed'
             T(p) == TakenAt(p)
             F(p) == FrameAt(p)
             I(p) == Inside(p)
  <1>1. c \in Nat /\ d \in Nat /\ c <= d
    <2>1. Consumed \in Nat
      BY BufferIs DEF GreedyInv
    <2>2. Consumed' \in 0..received'
      BY DEF WireInv
    <2>3. QED
      BY <2>1, <2>2
  <1>2. Len(frames) \in Nat
        /\ \A i \in 1..Len(frames) : frames[i].at \in Positive /\ frames[i].len \in Positive
    BY TakenFacts DEF GreedyInv, FramesInv
  <1>3. frames \in Seq(Taken) /\ \A i \in 1..Len(frames) : frames[i].at + frames[i].len <= c + 1
    BY DEF GreedyInv, FramesInv
  <1>4. \A p \in (c + 1)..d : ~F(p)
    OBVIOUS
  <1>5. \A p \in 1..c : T(p) <=> F(p) /\ ~I(p)
    BY DEF GreedyInv, FramesAreGreedy
  <1>6. \A p : T(p) => p <= c /\ p \in Nat
    <2>1. SUFFICES ASSUME NEW p, NEW i \in 1..Len(frames), frames[i].at = p
                   PROVE  p <= c /\ p \in Nat
      BY DEF TakenAt
    <2>2. PICK x \in Positive, y \in Positive : x = frames[i].at /\ y = frames[i].len
      BY <1>2
    <2>3. x + y <= c + 1
      BY <1>3, <2>2
    <2>4. x <= c /\ x \in Nat
      BY <1>1, <2>3 DEF Positive
    <2>5. QED
      BY <2>1, <2>2, <2>4
  <1>7. FramesAreGreedy' <=> \A p \in 1..d : T(p)' <=> F(p)' /\ ~I(p)'
    BY DEF FramesAreGreedy
  <1>8. \A p : (T(p)' <=> T(p)) /\ (F(p)' <=> F(p)) /\ (I(p)' <=> I(p))
    BY DEF TakenAt, FrameAt, PairAt, EndAt, Inside
  <1>9. frames' \in Seq(Taken) /\ \A i \in 1..Len(frames') : frames'[i].at + frames'[i].len <= d + 1
    <2>1. SUFFICES ASSUME NEW i \in 1..Len(frames)
                   PROVE  frames[i].at + frames[i].len <= d + 1
      BY <1>3
    <2>2. PICK x \in Positive, y \in Positive : x = frames[i].at /\ y = frames[i].len
      BY <1>2
    <2>3. x + y <= c + 1
      BY <1>3, <2>2
    <2> HIDE DEF c, d
    <2>4. x + y <= d + 1
      BY <1>1, <2>2, <2>3 DEF Positive
    <2>5. QED
      BY <2>2, <2>4 DEF d
  <1>10. FramesInv'
    BY <1>9 DEF FramesInv
  <1> HIDE DEF c, d, T, F, I
  <1>11. \A p \in 1..d : T(p) <=> F(p) /\ ~I(p)
    <2> SUFFICES ASSUME NEW p \in 1..d PROVE T(p) <=> F(p) /\ ~I(p)
      OBVIOUS
    <2>1. CASE p <= c
      <3>1. p \in 1..c
        BY <1>1, <2>1
      <3>2. QED
        BY <1>5, <3>1
    <2>2. CASE ~ (p <= c)
      <3>1. p \in (c + 1)..d
        BY <1>1, <2>2
      <3>2. QED
        BY <1>4, <1>6, <2>2, <3>1
    <2>3. QED
      BY <2>1, <2>2
  <1>12. \A p \in 1..d : T(p)' <=> F(p)' /\ ~I(p)'
    BY <1>8, <1>11
  <1>13. QED
    BY <1>7, <1>10, <1>12 DEF GreedyInv

(* A frame taken at its place: what lies before it was passed over, what   *)
(* lies behind is inside it.                                               *)
LEMMA TookFrame ==
  ASSUME GreedyInv, WireInv', wire' = wire,
         NEW f \in Messages, NEW at \in Positive, NEW len \in Positive,
         frames' = Append(frames, [frame |-> f, len |-> len, at |-> at]),
         Consumed < at, Consumed' = at + len - 1,
         FrameAt(at), \A p \in (Consumed + 1)..(at - 1) : ~FrameAt(p)
  PROVE  GreedyInv'
  <1> DEFINE c == Consumed
             d == Consumed'
             n == Len(frames)
             T(p) == TakenAt(p)
             F(p) == FrameAt(p)
             I(p) == Inside(p)
             new == [frame |-> f, len |-> len, at |-> at]
  <1>1. c \in Nat /\ c < at /\ d = at + len - 1 /\ at \in Nat /\ len \in Nat /\ len # 0 /\ at # 0
    BY BufferIs DEF GreedyInv, Positive
  <1>2. n \in Nat /\ \A i \in 1..n : frames[i].at \in Positive /\ frames[i].len \in Positive
    BY TakenFacts DEF GreedyInv, FramesInv
  <1>3. frames \in Seq(Taken) /\ \A i \in 1..n : frames[i].at + frames[i].len <= c + 1
    BY DEF GreedyInv, FramesInv
  <1>4. F(at) /\ \A p \in (c + 1)..(at - 1) : ~F(p)
    OBVIOUS
  <1>5. \A p \in 1..c : T(p) <=> F(p) /\ ~I(p)
    BY DEF GreedyInv, FramesAreGreedy
  <1>6. new \in Taken /\ new.at = at /\ new.len = len
    BY DEF Taken
  <1>7. FramesAreGreedy' <=> \A p \in 1..d : T(p)' <=> F(p)' /\ ~I(p)'
    BY DEF FramesAreGreedy
  <1>8. \A p : F(p)' <=> F(p)
    BY DEF FrameAt, PairAt, EndAt
  <1> HIDE DEF new
  <1>9. frames' \in Seq(Taken) /\ Len(frames') = n + 1 /\ frames'[n + 1] = new
        /\ \A i \in 1..n : frames'[i] = frames[i]
    <2>1. frames' = Append(frames, new)
      BY DEF new
    <2>2. QED
      BY <1>3, <1>6, <2>1, AppendProperties
  <1>10. \A i \in 1..(n + 1) : i \in 1..n \/ i = n + 1
    BY <1>2
  <1>11. \A i \in 1..n : i \in 1..(n + 1)
    BY <1>2
  <1>12. n + 1 \in 1..(n + 1)
    BY <1>2
  <1>13. \A p : T(p)' <=> T(p) \/ p = at
    <2>1. \A p : T(p)' <=> \E i \in 1..(n + 1) : frames'[i].at = p
      BY <1>9 DEF TakenAt
    <2>2. \A p : T(p) <=> \E i \in 1..n : frames[i].at = p
      BY DEF TakenAt
    <2> HIDE DEF T, n
    <2>3. QED
      BY <1>6, <1>9, <1>10, <1>11, <1>12, <2>1, <2>2
  <1>14. \A p : I(p)' <=> I(p) \/ (at < p /\ p < at + len)
    <2>1. \A p : I(p)' <=> \E i \in 1..(n + 1) : frames'[i].at < p /\ p < frames'[i].at + frames'[i].len
      BY <1>9 DEF Inside
    <2>2. \A p : I(p) <=> \E i \in 1..n : frames[i].at < p /\ p < frames[i].at + frames[i].len
      BY DEF Inside
    <2> HIDE DEF I, n
    <2>3. QED
      BY <1>6, <1>9, <1>10, <1>11, <1>12, <2>1, <2>2, Zenon
  <1>15. \A p \in Nat : T(p) \/ I(p) => p <= c
    <2>1. SUFFICES ASSUME NEW p \in Nat, NEW i \in 1..n,
                          frames[i].at = p \/ p < frames[i].at + frames[i].len
                   PROVE  p <= c
      BY DEF TakenAt, Inside
    <2>2. PICK x \in Positive, y \in Positive : x = frames[i].at /\ y = frames[i].len
      BY <1>2
    <2>3. x + y <= c + 1 /\ (x = p \/ p < x + y)
      BY <1>3, <2>1, <2>2
    <2>4. QED
      BY <1>1, <2>3 DEF Positive
  <1>16. \A i \in 1..Len(frames') : frames'[i].at + frames'[i].len <= d + 1
    <2> SUFFICES ASSUME NEW i \in 1..(n + 1) PROVE frames'[i].at + frames'[i].len <= d + 1
      BY <1>9
    <2>1. CASE i \in 1..n
      <3>2. PICK x \in Positive, y \in Positive : x = frames[i].at /\ y = frames[i].len
        BY <1>2, <2>1
      <3>3. x + y <= c + 1
        BY <1>3, <2>1, <3>2
      <3>4. x + y <= d + 1
        BY <1>1, <3>3 DEF Positive
      <3>5. QED
        BY <1>9, <2>1, <3>2, <3>4
    <2>2. CASE i = n + 1
      <3>1. at + len <= d + 1
        BY <1>1
      <3>2. QED
        BY <1>6, <1>9, <2>2, <3>1
    <2>3. QED
      BY <1>10, <2>1, <2>2
  <1>17. FramesInv'
    BY <1>9, <1>16 DEF FramesInv
  <1> HIDE DEF c, d, T, F, I, n
  <1>18. \A p \in 1..d : T(p)' <=> F(p)' /\ ~I(p)'
    <2> SUFFICES ASSUME NEW p \in 1..d PROVE T(p) \/ p = at <=> F(p) /\ ~ (I(p) \/ (at < p /\ p < at + len))
      BY <1>8, <1>13, <1>14
    <2>0. p \in Nat
      BY <1>1
    <2>1. CASE p <= c
      <3>1. p \in 1..c /\ ~ (at < p) /\ p # at
        BY <1>1, <2>1
      <3>2. QED
        BY <1>5, <3>1
    <2>2. CASE c < p /\ p < at
      <3>1. p \in (c + 1)..(at - 1) /\ ~ (p <= c) /\ p # at
        BY <1>1, <2>2
      <3>2. QED
        BY <1>4, <1>15, <2>0, <3>1
    <2>3. CASE p = at
      <3>1. ~ (p <= c) /\ ~ (at < p)
        BY <1>1, <2>3
      <3>2. QED
        BY <1>4, <1>15, <2>0, <2>3, <3>1
    <2>4. CASE at < p
      <3>1. p < at + len /\ ~ (p <= c) /\ p # at
        BY <1>1, <2>4
      <3>2. QED
        BY <1>15, <2>0, <2>4, <3>1
    <2>5. p <= c \/ (c < p /\ p < at) \/ p = at \/ at < p
      BY <1>1, <2>0
    <2>6. QED
      BY <2>1, <2>2, <2>3, <2>4, <2>5
  <1>19. QED
    BY <1>7, <1>17, <1>18 DEF GreedyInv

-----------------------------------------------------------------------------
(* The steps of the task, for FramesAreGreedy.                           *)

(* Neighbouring pieces join.                                             *)
LEMMA JoinedPieces ==
  ASSUME NEW w \in Seq(Bytes), NEW a \in Nat, NEW b \in Nat, NEW e \in Nat,
         a <= b, b <= e, e <= Len(w)
  PROVE  SubSeq(w, a + 1, b) \o SubSeq(w, b + 1, e) = SubSeq(w, a + 1, e)
  <1> DEFINE s == SubSeq(w, a + 1, b)
             t == SubSeq(w, b + 1, e)
             u == SubSeq(w, a + 1, e)
             st == s \o t
  <1>1. s \in Seq(Bytes) /\ Len(s) = b - a /\ \A i \in 1..(b - a) : s[i] = w[a + i]
    BY LenProperties, Piece
  <1>2. t \in Seq(Bytes) /\ Len(t) = e - b /\ \A i \in 1..(e - b) : t[i] = w[b + i]
    BY LenProperties, Piece
  <1>3. u \in Seq(Bytes) /\ Len(u) = e - a /\ \A i \in 1..(e - a) : u[i] = w[a + i]
    BY LenProperties, Piece
  <1> HIDE DEF s, t, u
  <1>4. /\ st \in Seq(Bytes) /\ Len(st) = Len(s) + Len(t)
        /\ \A i \in 1..(Len(s) + Len(t)) : st[i] = IF i <= Len(s) THEN s[i] ELSE t[i - Len(s)]
    BY <1>1, <1>2, ConcatProperties
  <1> HIDE DEF st
  <1>5. Len(st) = e - a
    BY <1>1, <1>2, <1>4
  <1>6. ASSUME NEW i \in 1..(e - a) PROVE st[i] = u[i]
    <2>0. st[i] = (IF i <= b - a THEN s[i] ELSE t[i - (b - a)]) /\ u[i] = w[a + i]
      BY <1>1, <1>2, <1>3, <1>4
    <2>1. CASE i <= b - a
      <3>1. i \in 1..(b - a)
        BY <2>1
      <3>2. QED
        BY <1>1, <2>0, <2>1, <3>1
    <2>2. CASE ~ (i <= b - a)
      <3>1. i - (b - a) \in 1..(e - b) /\ b + (i - (b - a)) = a + i
        BY <2>2
      <3>2. QED
        BY <1>2, <2>0, <2>2, <3>1
    <2>3. QED
      BY <2>1, <2>2
  <1>7. st = u
    BY <1>3, <1>4, <1>5, <1>6, SeqEqual
  <1>8. QED
    BY <1>7 DEF st, s, t, u

(* A read appends what the wire has next; nothing is consumed.           *)
LEMMA ReadIs ==
  ASSUME WireInv, NEW n \in 1..(Len(wire) - received), Read(n)
  PROVE  WireInv' /\ Consumed' = Consumed
  <1> DEFINE c == Consumed
  <1>1. /\ wire \in Seq(Bytes) /\ c \in Nat /\ received \in Nat /\ received <= Len(wire) /\ Len(wire) \in Nat
        /\ c <= received /\ buffer = SubSeq(wire, c + 1, received)
    BY BufferIs DEF WireInv
  <1>2. buffer' = buffer \o SubSeq(wire, received + 1, received + n) /\ received' = received + n /\ wire' = wire
    BY DEF Read
  <1>3. PICK e \in Nat : e = received + n
    BY <1>1
  <1>4. received <= e /\ e <= Len(wire) /\ c <= e
    BY <1>1, <1>3
  <1>5. c = Consumed
    OBVIOUS
  <1> HIDE DEF c
  <1>6. SubSeq(wire, c + 1, received) \o SubSeq(wire, received + 1, e) = SubSeq(wire, c + 1, e)
    BY <1>1, <1>3, <1>4, JoinedPieces, Zenon
  <1>7. buffer' = SubSeq(wire, c + 1, e)
    BY <1>1, <1>2, <1>3, <1>6
  <1>8. Len(buffer') = e - c
    BY <1>1, <1>3, <1>4, <1>7, Piece
  <1>9. Consumed' = c
    <2>1. Consumed' = received' - Len(buffer')
      BY DEF Consumed
    <2>2. e - (e - c) = c
      BY <1>1, <1>3
    <2>3. QED
      BY <1>2, <1>3, <1>8, <2>1, <2>2
  <1>10. c \in 0..e /\ e \in 0..Len(wire)
    BY <1>1, <1>3, <1>4
  <1>11. WireInv'
    BY <1>1, <1>2, <1>3, <1>7, <1>9, <1>10 DEF WireInv
  <1>12. QED
    BY <1>5, <1>9, <1>11

(* What the bytes skipped hold.                                            *)
LEMMA SkippedHoldNothing ==
  ASSUME WireInv
  PROVE  /\ Consumed \in Nat /\ Skip \in Nat /\ Place = Consumed + Skip + 1
         /\ Skip <= Len(buffer) /\ Len(buffer) \in Nat
         /\ \A p \in (Consumed + 1)..(Place - 1) : ~FrameAt(p)
  BY RestIs, BufferIs DEF FrameAt, Place

(* Bytes skipped while waiting hold no frame.                            *)
LEMMA GreedyWait ==
  ASSUME GreedyInv, Wait
  PROVE  GreedyInv'
  <1>0. WireInv
    BY DEF GreedyInv
  <1>1. Found.kind = "none" /\ buffer' = Drop(buffer, Found.taken) /\ UNCHANGED <<wire, received, frames>>
    BY DEF Wait, Decoding, Take, Found
  <1>2. Found.taken = Skip
    BY <1>0, <1>1, FoundIs DEF FoundNothing, FoundError, FoundFrame
  <1> DEFINE c == Consumed
             k == Skip
  <1>3. /\ c \in Nat /\ k \in Nat /\ Place = c + k + 1 /\ k <= Len(buffer)
        /\ \A p \in (c + 1)..(Place - 1) : ~FrameAt(p)
    BY <1>0, SkippedHoldNothing
  <1>4. WireInv' /\ Consumed' = c + k
    BY <1>0, <1>1, <1>2, <1>3, DropIs
  <1>5. c <= Consumed' /\ \A p \in (c + 1)..Consumed' : ~FrameAt(p)
    <2>1. Place - 1 = c + k /\ c <= c + k
      BY <1>3
    <2>2. QED
      BY <1>3, <1>4, <2>1
  <1>6. QED
    BY <1>1, <1>4, <1>5, PassedOver

(* The byte an error gives up begins no frame.                           *)
LEMMA GreedyReject ==
  ASSUME GreedyInv, Reject
  PROVE  GreedyInv'
  <1>0. WireInv
    BY DEF GreedyInv
  <1>1. Found.kind = "error" /\ buffer' = Drop(buffer, Found.taken) /\ UNCHANGED <<wire, received, frames>>
    BY DEF Reject, Decoding, Take, Found
  <1>2. Found.taken = Skip + 1 /\ Skip < Len(buffer) /\ ~FrameAt(Place)
    BY <1>0, <1>1, FoundIs DEF FoundNothing, FoundError, FoundFrame
  <1> DEFINE c == Consumed
             k == Skip
  <1>3. /\ c \in Nat /\ k \in Nat /\ Place = c + k + 1 /\ k <= Len(buffer) /\ Len(buffer) \in Nat
        /\ \A p \in (c + 1)..(Place - 1) : ~FrameAt(p)
    BY <1>0, SkippedHoldNothing
  <1>4. PICK m \in Nat : m = k + 1
    BY <1>3
  <1>5. WireInv' /\ Consumed' = c + m
    <2>1. m <= Len(buffer)
      BY <1>2, <1>3, <1>4
    <2>2. QED
      BY <1>0, <1>1, <1>2, <1>4, <2>1, DropIs
  <1>6. c <= Consumed' /\ \A p \in (c + 1)..Consumed' : ~FrameAt(p)
    <2>1. c + m = Place /\ c <= c + m
      BY <1>3, <1>4
    <2>2. \A p \in (c + 1)..Place : p = Place \/ p \in (c + 1)..(Place - 1)
      BY <1>3
    <2>3. QED
      BY <1>2, <1>3, <1>5, <2>1, <2>2
  <1>7. QED
    BY <1>1, <1>5, <1>6, PassedOver

(* A frame taken is the first on the stretch, and nothing in it is lost. *)
LEMMA GreedyAccept ==
  ASSUME GreedyInv, Accept
  PROVE  GreedyInv'
  <1>0. WireInv
    BY DEF GreedyInv
  <1>1. Found.kind = "frame" /\ buffer' = Drop(buffer, Found.taken) /\ UNCHANGED <<wire, received>>
    BY DEF Accept, Decoding, Take, Found
  <1>2. PICK long : FoundFrame(long)
    BY <1>0, <1>1, FoundIs DEF FoundNothing, FoundError
  <1> DEFINE c == Consumed
             k == Skip
             size == Len(Found.frame.payload) + 10
             at == received - Len(buffer) + Found.taken - size + 1
  <1>3. /\ c \in Nat /\ k \in Nat /\ Place = c + k + 1 /\ Len(buffer) \in Nat
        /\ \A p \in (c + 1)..(Place - 1) : ~FrameAt(p)
    BY <1>0, SkippedHoldNothing
  <1>4. /\ long \in 5..255 /\ Found.taken = k + (long + 5) /\ k + (long + 5) <= Len(buffer)
        /\ size = long + 5 /\ FrameAt(Place) /\ Found.frame \in Messages
    BY <1>2 DEF FoundFrame
  <1>5. frames' = Append(frames, [frame |-> Found.frame, len |-> size, at |-> at])
    BY DEF Accept, Found
  <1>6. at = c + Found.taken - size + 1
    BY DEF Consumed
  <1> HIDE DEF c, k, size, at
  <1>7. PICK m \in Nat : m = k + (long + 5)
    BY <1>3, <1>4
  <1>8. WireInv' /\ Consumed' = c + m
    BY <1>0, <1>1, <1>4, <1>7, DropIs DEF c
  <1>9. at = Place /\ at \in Positive /\ size \in Positive /\ c < at /\ c + m = at + size - 1
    BY <1>3, <1>4, <1>6, <1>7 DEF Positive
  <1>10. FrameAt(at) /\ \A p \in (c + 1)..(at - 1) : ~FrameAt(p)
    BY <1>3, <1>4, <1>9
  <1>11. Consumed' = at + size - 1
    BY <1>8, <1>9
  <1>12. QED
    BY <1>1, <1>4, <1>5, <1>8, <1>9, <1>10, <1>11, TookFrame DEF c

(* What Concat passes through: the bytes of the first i items.             *)
ConcatSteps(s, u) ==
  /\ u[0] = <<>> /\ u[Len(s)] = Concat(s)
  /\ \A i \in 1..Len(s) : u[i] = u[i - 1] \o s[i].bytes
  /\ \A i \in 0..Len(s) : u[i] \in Seq(Bytes)

(* There is such a function, and the bytes of a script are bytes.          *)
LEMMA ConcatPasses ==
  ASSUME NEW s \in Scripts
  PROVE  \E u : ConcatSteps(s, u)
  <1> DEFINE n == Len(s)
             B == Seq(Bytes)
             part(i) == IF i \in 1..n THEN s[i].bytes ELSE <<>>
             Eq(g) == g = [i \in 0..n |-> IF i = 0 THEN <<>> ELSE g[i - 1] \o s[i].bytes]
             u == CHOOSE g : Eq(g)
             G == [i \in Nat |-> [v \in B |-> v \o part(i + 1)]]
  <1>1. n \in Nat /\ \A i \in 1..n : s[i].bytes \in B
    BY ConnectionAssumption DEF ConnectionAssumption
  <1>2. \A i \in Nat : part(i) \in B
    BY <1>1
  <1>3. <<>> \in B /\ \A v, w \in B : v \o w \in B
    BY ConcatProperties, EmptySeq
  <1>4. Concat(s) = u[n]
    BY DEF Concat
  <1>5. \A i \in 1..n : part(i) = s[i].bytes
    OBVIOUS
  <1> HIDE DEF part, B
  <1>6. G \in [Nat -> [B -> B]]
    BY <1>2, <1>3
  <1>7. PICK f : StepsBy(f, B, <<>>, G)
    <2> HIDE DEF G
    <2>1. QED
      BY <1>3, <1>6, Recursion
  <1>8. f \in [Nat -> B] /\ f[0] = <<>> /\ \A i \in Nat : f[i + 1] = f[i] \o part(i + 1)
    BY <1>7 DEF StepsBy
  <1> HIDE DEF G
  <1> DEFINE h == [i \in 0..n |-> f[i]]
  <1>9. Eq(h)
    <2>1. ASSUME NEW i \in 1..n PROVE f[i] = h[i - 1] \o s[i].bytes
      <3>1. i - 1 \in Nat /\ (i - 1) + 1 = i /\ i - 1 \in 0..n
        BY <1>1
      <3>2. f[i] = f[i - 1] \o part(i)
        BY <1>8, <3>1
      <3>3. QED
        BY <1>5, <3>1, <3>2
    <2>2. ASSUME NEW i \in 0..n
          PROVE  f[i] = IF i = 0 THEN <<>> ELSE h[i - 1] \o s[i].bytes
      <3>1. CASE i = 0
        BY <1>8, <3>1
      <3>2. CASE i # 0
        <4>1. i \in 1..n
          BY <1>1, <3>2
        <4>2. QED
          BY <2>1, <3>2, <4>1
      <3>3. QED
        BY <3>1, <3>2
    <2>3. QED
      BY <2>2
  <1> HIDE DEF h
  <1>10. Eq(u)
    <2> HIDE DEF Eq
    <2>1. QED
      BY <1>9
  <1> HIDE DEF u
  <1>11. u[0] = <<>> /\ \A i \in 1..n : u[i] = u[i - 1] \o s[i].bytes
    <2>1. \A i \in 0..n : u[i] = IF i = 0 THEN <<>> ELSE u[i - 1] \o s[i].bytes
      BY <1>10
    <2>2. 0 \in 0..n /\ \A i \in 1..n : i \in 0..n /\ i # 0
      BY <1>1
    <2>3. QED
      BY <2>1, <2>2
  <1>12. \A i \in Nat : i <= n => u[i] \in B
    <2> DEFINE S == {i \in Nat : i <= n => u[i] \in B}
    <2>1. 0 \in S
      BY <1>3, <1>11
    <2>2. ASSUME NEW i \in Nat, i \in S PROVE i + 1 \in S
      <3>1. SUFFICES ASSUME i + 1 <= n PROVE u[i + 1] \in B
        OBVIOUS
      <3>2. i + 1 \in 1..n /\ (i + 1) - 1 = i /\ i <= n
        BY <1>1, <3>1
      <3>3. u[i + 1] = u[i] \o s[i + 1].bytes
        BY <1>11, <3>2
      <3>4. u[i] \in B /\ s[i + 1].bytes \in B
        BY <1>1, <2>2, <3>2
      <3>5. QED
        BY <1>3, <3>3, <3>4
    <2> HIDE DEF S
    <2>3. \A i \in Nat : i \in S
      BY <2>1, <2>2, SetInduction
    <2>4. QED
      BY <2>3 DEF S
  <1>13. \A i \in 0..n : i \in Nat /\ i <= n
    BY <1>1
  <1>14. ConcatSteps(s, u)
    BY <1>4, <1>11, <1>12, <1>13 DEF ConcatSteps, B
  <1>15. QED
    BY <1>14

LEMMA ConcatIsBytes ==
  ASSUME NEW s \in Scripts
  PROVE  Concat(s) \in Seq(Bytes)
  <1>1. Len(s) \in Nat
    BY ConnectionAssumption DEF ConnectionAssumption
  <1>2. Len(s) \in 0..Len(s)
    BY <1>1
  <1>3. QED
    BY <1>2, ConcatPasses DEF ConcatSteps

LEMMA GreedyInit == Init => GreedyInv
  <1> SUFFICES ASSUME Init PROVE GreedyInv
    OBVIOUS
  <1>1. wire \in Seq(Bytes) /\ received = 0 /\ buffer = <<>> /\ frames = <<>>
    BY ConcatIsBytes DEF Init
  <1>2. Len(wire) \in Nat /\ Len(buffer) = 0 /\ Len(frames) = 0
    BY <1>1, LenProperties
  <1>3. Consumed = 0
    <2>1. Consumed = 0 - 0
      BY <1>1, <1>2, Zenon DEF Consumed
    <2>2. QED
      BY <2>1
  <1>4. SubSeq(wire, 1, 0) = <<>>
    BY <1>1, SubSeqEmpty
  <1>5. WireInv
    <2>1. 0 + 1 = 1
      OBVIOUS
    <2>2. SubSeq(wire, 0 + 1, 0) = <<>>
      BY <1>4, <2>1
    <2>3. 0 \in 0..0 /\ 0 \in 0..Len(wire)
      BY <1>2
    <2>4. QED
      BY <1>1, <1>3, <2>2, <2>3 DEF WireInv
  <1>6. FramesInv
    BY <1>1, <1>2 DEF FramesInv
  <1>7. FramesAreGreedy
    BY <1>3 DEF FramesAreGreedy
  <1>8. QED
    BY <1>5, <1>6, <1>7 DEF GreedyInv

LEMMA GreedyStep == GreedyInv /\ [Next]_vars => GreedyInv'
  <1> SUFFICES ASSUME GreedyInv, [Next]_vars PROVE GreedyInv'
    OBVIOUS
  <1>0. WireInv
    BY DEF GreedyInv
  <1>1. ASSUME NEW n \in 1..(Len(wire) - received), Read(n) PROVE GreedyInv'
    <2>1. WireInv' /\ Consumed' = Consumed
      BY <1>0, <1>1, ReadIs
    <2>2. wire' = wire /\ frames' = frames
      BY <1>1 DEF Read
    <2>3. Consumed \in Nat
      BY <1>0, BufferIs
    <2>4. Consumed <= Consumed' /\ \A p \in (Consumed + 1)..Consumed' : ~FrameAt(p)
      <3> DEFINE c == Consumed
      <3>1. c \in Nat /\ Consumed' = c
        BY <2>1, <2>3
      <3> HIDE DEF c
      <3>2. c <= c /\ (c + 1)..c = {}
        BY <3>1
      <3>3. QED
        BY <3>1, <3>2 DEF c
    <2>5. QED
      BY <2>1, <2>2, <2>4, PassedOver
  <1>2. CASE wire' = wire /\ received' = received /\ buffer' = buffer /\ frames' = frames
    <2>1. WireInv' /\ Consumed' = Consumed
      BY <1>0, <1>2 DEF WireInv, Consumed
    <2>2. FramesInv'
      BY <1>2, <2>1 DEF GreedyInv, FramesInv
    <2>3. FramesAreGreedy'
      BY <1>2, <2>1 DEF GreedyInv, FramesAreGreedy, TakenAt, FrameAt, PairAt, EndAt, Inside
    <2>4. QED
      BY <2>1, <2>2, <2>3 DEF GreedyInv
  <1>3. CASE Wait \/ Reject \/ Accept
    BY <1>3, GreedyWait, GreedyReject, GreedyAccept
  <1>4. CASE Ack \/ Handle \/ Close \/ UNCHANGED vars
    BY <1>2, <1>4 DEF Ack, Handle, Close, vars
  <1>5. QED
    BY <1>1, <1>3, <1>4 DEF Next

-----------------------------------------------------------------------------
(* Messages.                                                             *)

Kinds == {"login", "heartbeat", "location", "ignored"}

(* The four kinds of message, and what a login carries.                  *)
LEMMA MessageKinds ==
  ASSUME NEW f
  PROVE  LET m == DecodeMessage(f)
         IN /\ m.kind \in Kinds
            /\ WantsAck(m) => f.protocol_number \in {PROTOCOL_LOGIN, PROTOCOL_HEARTBEAT}
            /\ m.kind = "login" => Len(f.payload) >= 8 /\ m.packet = DecodeBcdImei(SubSeq(f.payload, 1, 8))
  <1> DEFINE p == f.payload
             n == f.protocol_number
             m == DecodeMessage(f)
             A == n = PROTOCOL_LOGIN /\ Len(p) >= 8
             B == n = PROTOCOL_HEARTBEAT /\ Len(p) >= 5
             C == n \in {PROTOCOL_LOCATION, PROTOCOL_EXTENDED_LOCATION} /\ Len(p) >= 18
  <1>1. m = CASE A -> [kind |-> "login", packet |-> DecodeBcdImei(SubSeq(p, 1, 8))]
              [] B -> [kind |-> "heartbeat", packet |-> DecodeHeartbeat(p)]
              [] C -> [kind |-> "location", packet |-> DecodeLocation(p, n = PROTOCOL_EXTENDED_LOCATION)]
              [] OTHER -> [kind |-> "ignored", packet |-> <<>>]
    BY Zenon DEF DecodeMessage
  <1>2. ~ (A /\ B) /\ ~ (A /\ C) /\ ~ (B /\ C)
    BY DEF PROTOCOL_LOGIN, PROTOCOL_HEARTBEAT, PROTOCOL_LOCATION, PROTOCOL_EXTENDED_LOCATION
  <1> HIDE DEF m, A, B, C
  <1>3. CASE A
    <2>1. m = [kind |-> "login", packet |-> DecodeBcdImei(SubSeq(p, 1, 8))]
      BY <1>1, <1>2, <1>3
    <2>2. QED
      BY <2>1, <1>3 DEF m, A, Kinds
  <1>4. CASE B
    <2>1. m = [kind |-> "heartbeat", packet |-> DecodeHeartbeat(p)]
      BY <1>1, <1>2, <1>4
    <2>2. QED
      BY <2>1, <1>4 DEF m, B, Kinds
  <1>5. CASE C
    <2>1. m = [kind |-> "location", packet |-> DecodeLocation(p, n = PROTOCOL_EXTENDED_LOCATION)]
      BY <1>1, <1>2, <1>5
    <2>2. QED
      BY <2>1 DEF m, Kinds, WantsAck
  <1>6. CASE ~A /\ ~B /\ ~C
    <2>1. m = [kind |-> "ignored", packet |-> <<>>]
      BY <1>1, <1>6
    <2>2. QED
      BY <2>1 DEF m, Kinds, WantsAck
  <1>7. QED
    BY <1>3, <1>4, <1>5, <1>6

LEMMA NibblesAreDigits ==
  ASSUME NEW x \in 0..255
  PROVE  x \div 16 \in 0..15 /\ x % 16 \in 0..15
  <1>1. x \in Int /\ 0 <= x /\ x <= 255
    OBVIOUS
  <1>2. x \div 16 \in Int /\ 0 <= x \div 16 /\ x \div 16 <= 15
    BY <1>1, SMT
  <1>3. x % 16 \in Int /\ 0 <= x % 16 /\ x % 16 <= 15
    BY <1>1, SMT
  <1>4. QED
    BY <1>2, <1>3, SMT

(* The digits of an IMEI.                                                *)
LEMMA DigitsAreDigits ==
  ASSUME NEW s \in Seq(Bytes), Len(s) = 8
  PROVE  DecodeBcdImei(s) \in Seq(0..15)
  <1> DEFINE d == [i \in 1..2 * Len(s) |-> IF i % 2 = 1 THEN s[(i + 1) \div 2] \div 16
                                           ELSE s[i \div 2] % 16]
  <1>1. ASSUME NEW i \in 1..16 PROVE d[i] \in 0..15
    <2>0. d[i] = IF i % 2 = 1 THEN s[(i + 1) \div 2] \div 16 ELSE s[i \div 2] % 16
      OBVIOUS
    <2> HIDE DEF d
    <2>1. CASE i % 2 = 1
      <3>1. (i + 1) \div 2 \in 1..8
        BY <2>1
      <3>2. PICK x \in 0..255 : x = s[(i + 1) \div 2]
        <4>1. s[(i + 1) \div 2] \in Bytes
          BY <3>1, ElementOfSeq
        <4>2. QED
          BY <4>1 DEF Bytes
      <3>3. x \div 16 \in 0..15
        BY NibblesAreDigits
      <3>4. QED
        BY <2>0, <2>1, <3>2, <3>3
    <2>2. CASE i % 2 # 1
      <3>1. i \div 2 \in 1..8
        BY <2>2
      <3>2. PICK x \in 0..255 : x = s[i \div 2]
        <4>1. s[i \div 2] \in Bytes
          BY <3>1, ElementOfSeq
        <4>2. QED
          BY <4>1 DEF Bytes
      <3>3. x % 16 \in 0..15
        BY NibblesAreDigits
      <3>4. QED
        BY <2>0, <2>2, <3>2, <3>3
    <2>3. QED
      BY <2>1, <2>2
  <1>2. d = [i \in 1..16 |-> d[i]]
    BY 2 * 8 = 16
  <1>3. DecodeBcdImei(s) = IF Len(d) = 16 /\ d[1] = 0 THEN Tail(d) ELSE d
    BY DEF DecodeBcdImei
  <1> HIDE DEF d
  <1>4. d \in Seq(0..15) /\ Len(d) = 16
    BY <1>1, <1>2
  <1>5. Tail(d) \in Seq(0..15)
    <2>1. d # <<>>
      BY <1>4
    <2>2. QED
      BY <1>4, <2>1, HeadTailProperties
  <1>6. QED
    BY <1>3, <1>4, <1>5

LEMMA LoginIs ==
  ASSUME NEW f \in Messages, DecodeMessage(f).kind = "login"
  PROVE  DecodeMessage(f).packet \in Seq(0..15)
  <1>1. Len(f.payload) >= 8 /\ DecodeMessage(f).packet = DecodeBcdImei(SubSeq(f.payload, 1, 8))
    BY MessageKinds
  <1>2. f.payload \in Seq(Bytes)
    BY DEF Messages
  <1> DEFINE p == f.payload
  <1>3. p \in Seq(Bytes) /\ Len(p) >= 8
    BY <1>1, <1>2
  <1>4. DecodeMessage(f).packet = DecodeBcdImei(SubSeq(p, 1, 8))
    BY <1>1
  <1> HIDE DEF p
  <1>5. SubSeq(p, 0 + 1, 8) \in Seq(Bytes) /\ Len(SubSeq(p, 0 + 1, 8)) = 8 - 0
    <2>1. 0 \in Nat /\ 8 \in Nat /\ 0 <= 8 /\ 8 <= Len(p)
      BY <1>3, LenProperties
    <2>2. QED
      BY <1>3, <2>1, Piece
  <1>6. SubSeq(p, 1, 8) \in Seq(Bytes) /\ Len(SubSeq(p, 1, 8)) = 8
    BY <1>5
  <1>7. QED
    BY <1>4, <1>6, DigitsAreDigits

-----------------------------------------------------------------------------
(* Acknowledgements.                                                     *)

AckNumbers == {PROTOCOL_LOGIN, PROTOCOL_HEARTBEAT}

(* A word is its high and its low byte.                                  *)
LEMMA TwoBytes ==
  ASSUME NEW n \in Words
  PROVE  (n \div 256) * 256 + (n % 256) = n
  <1>1. n \in Nat
    BY DEF Words
  <1>2. QED
    BY <1>1, SMT

LEMMA TwoOf ==
  ASSUME NEW s \in Seq(Bytes), Len(s) = 2
  PROVE  s = <<s[1], s[2]>>
  OBVIOUS

LEMMA FourOf ==
  ASSUME NEW s \in Seq(Bytes), Len(s) = 4
  PROVE  s = <<s[1], s[2], s[3], s[4]>>
  OBVIOUS

LEMMA TenOf ==
  ASSUME NEW s \in Seq(Bytes), Len(s) = 10
  PROVE  s = <<s[1], s[2], s[3], s[4], s[5], s[6], s[7], s[8], s[9], s[10]>>
  OBVIOUS

(* Two sequences of bytes, one after the other.                            *)
Joined(s, t, st) ==
  /\ st \in Seq(Bytes) /\ Len(st) = Len(s) + Len(t)
  /\ \A i \in 1..Len(s) : st[i] = s[i]
  /\ \A i \in 1..Len(t) : st[Len(s) + i] = t[i]

LEMMA Behind ==
  ASSUME NEW s \in Seq(Bytes), NEW t \in Seq(Bytes)
  PROVE  Joined(s, t, s \o t)
  <1>1. /\ s \o t \in Seq(Bytes) /\ Len(s \o t) = Len(s) + Len(t)
        /\ \A i \in 1..(Len(s) + Len(t)) : (s \o t)[i] = IF i <= Len(s) THEN s[i] ELSE t[i - Len(s)]
    BY ConcatProperties
  <1>2. Len(s) \in Nat /\ Len(t) \in Nat
    BY LenProperties
  <1> DEFINE st == s \o t
             l == Len(s)
             m == Len(t)
  <1>3. st \in Seq(Bytes) /\ Len(st) = l + m
        /\ \A i \in 1..(l + m) : st[i] = IF i <= l THEN s[i] ELSE t[i - l]
    BY <1>1
  <1>4. l \in Nat /\ m \in Nat
    BY <1>2
  <1> HIDE DEF st, l, m
  <1>5. ASSUME NEW i \in 1..l PROVE st[i] = s[i]
    <2>1. i \in 1..(l + m) /\ i <= l
      BY <1>4
    <2>2. QED
      BY <1>3, <2>1
  <1>6. ASSUME NEW i \in 1..m PROVE st[l + i] = t[i]
    <2>1. l + i \in 1..(l + m) /\ ~ (l + i <= l) /\ (l + i) - l = i
      BY <1>4
    <2>2. QED
      BY <1>3, <2>1
  <1>7. /\ \A i \in 1..Len(s) : st[i] = s[i]
        /\ \A i \in 1..Len(t) : st[Len(s) + i] = t[i]
    BY <1>5, <1>6 DEF l, m
  <1>8. QED
    BY <1>3, <1>7, Zenon DEF st, l, m, Joined

(* The ten bytes encode_ack writes.                                      *)
LEMMA TenBytes ==
  ASSUME NEW n \in Bytes, NEW hi \in Bytes, NEW lo \in Bytes, NEW x \in Bytes, NEW y \in Bytes
  PROVE  /\ START_BYTES \o <<5, n, hi, lo>> \o <<x, y>> \o STOP_BYTES
              = <<120, 120, 5, n, hi, lo, x, y, 13, 10>>
         /\ <<120, 120, 5, n, hi, lo, x, y, 13, 10>> \in Seq(Bytes)
  <1>0. 120 \in Bytes /\ 5 \in Bytes /\ 13 \in Bytes /\ 10 \in Bytes
    BY DEF Bytes
  <1> DEFINE b == <<5, n, hi, lo>>
             e == <<x, y>>
             t == START_BYTES \o b
             u == t \o e
             v == u \o STOP_BYTES
  <1>1. START_BYTES \in Seq(Bytes) /\ Len(START_BYTES) = 2
        /\ START_BYTES[1] = 120 /\ START_BYTES[2] = 120
    BY <1>0 DEF START_BYTES
  <1>2. STOP_BYTES \in Seq(Bytes) /\ Len(STOP_BYTES) = 2
        /\ STOP_BYTES[1] = 13 /\ STOP_BYTES[2] = 10
    BY <1>0 DEF STOP_BYTES
  <1>3. b \in Seq(Bytes) /\ Len(b) = 4 /\ b[1] = 5 /\ b[2] = n /\ b[3] = hi /\ b[4] = lo
    BY <1>0
  <1>4. e \in Seq(Bytes) /\ Len(e) = 2 /\ e[1] = x /\ e[2] = y
    OBVIOUS
  <1>5. v = START_BYTES \o <<5, n, hi, lo>> \o <<x, y>> \o STOP_BYTES
    OBVIOUS
  <1> HIDE DEF b, e
  <1>6. /\ t \in Seq(Bytes) /\ Len(t) = 2 + 4
        /\ \A i \in 1..2 : t[i] = START_BYTES[i]
        /\ \A i \in 1..4 : t[2 + i] = b[i]
    <2>0. Joined(START_BYTES, b, t)
      BY <1>1, <1>3, Behind
    <2>1. /\ t \in Seq(Bytes) /\ Len(t) = Len(START_BYTES) + Len(b)
          /\ \A i \in 1..Len(START_BYTES) : t[i] = START_BYTES[i]
          /\ \A i \in 1..Len(b) : t[Len(START_BYTES) + i] = b[i]
      BY <2>0, Zenon DEF Joined
    <2>2. Len(START_BYTES) = 2 /\ Len(b) = 4
      BY <1>1, <1>3
    <2> HIDE DEF t
    <2>3. QED
      BY <2>1, <2>2, Zenon
  <1> HIDE DEF t
  <1>7. /\ Len(t) = 6 /\ t[1] = 120 /\ t[2] = 120 /\ t[3] = 5 /\ t[4] = n
        /\ t[5] = hi /\ t[6] = lo
    BY <1>1, <1>3, <1>6
  <1>8. /\ u \in Seq(Bytes) /\ Len(u) = 6 + 2
        /\ \A i \in 1..6 : u[i] = t[i]
        /\ \A i \in 1..2 : u[6 + i] = e[i]
    <2>0. Joined(t, e, u)
      BY <1>4, <1>6, <1>7, Behind
    <2>1. /\ u \in Seq(Bytes) /\ Len(u) = Len(t) + Len(e)
          /\ \A i \in 1..Len(t) : u[i] = t[i]
          /\ \A i \in 1..Len(e) : u[Len(t) + i] = e[i]
      BY <2>0, Zenon DEF Joined
    <2>2. Len(t) = 6 /\ Len(e) = 2
      BY <1>4, <1>6, <1>7
    <2> HIDE DEF u
    <2>3. QED
      BY <2>1, <2>2, Zenon
  <1> HIDE DEF u
  <1>9. /\ Len(u) = 8 /\ u[1] = 120 /\ u[2] = 120 /\ u[3] = 5 /\ u[4] = n
        /\ u[5] = hi /\ u[6] = lo /\ u[7] = x /\ u[8] = y
    BY <1>4, <1>7, <1>8
  <1>10. /\ v \in Seq(Bytes) /\ Len(v) = 8 + 2
         /\ \A i \in 1..8 : v[i] = u[i]
         /\ \A i \in 1..2 : v[8 + i] = STOP_BYTES[i]
    <2>0. Joined(u, STOP_BYTES, v)
      BY <1>2, <1>8, <1>9, Behind
    <2>1. /\ v \in Seq(Bytes) /\ Len(v) = Len(u) + Len(STOP_BYTES)
          /\ \A i \in 1..Len(u) : v[i] = u[i]
          /\ \A i \in 1..Len(STOP_BYTES) : v[Len(u) + i] = STOP_BYTES[i]
      BY <2>0, Zenon DEF Joined
    <2>2. Len(u) = 8 /\ Len(STOP_BYTES) = 2
      BY <1>2, <1>8, <1>9
    <2> HIDE DEF v
    <2>3. QED
      BY <2>1, <2>2, Zenon
  <1> HIDE DEF v
  <1>11. /\ Len(v) = 10 /\ v[1] = 120 /\ v[2] = 120 /\ v[3] = 5 /\ v[4] = n
         /\ v[5] = hi /\ v[6] = lo /\ v[7] = x /\ v[8] = y /\ v[9] = 13 /\ v[10] = 10
    BY <1>2, <1>9, <1>10
  <1>12. v = <<v[1], v[2], v[3], v[4], v[5], v[6], v[7], v[8], v[9], v[10]>>
    BY <1>10, <1>11, TenOf
  <1>13. v = <<120, 120, 5, n, hi, lo, x, y, 13, 10>>
    BY <1>11, <1>12
  <1>14. QED
    BY <1>5, <1>10, <1>13

(* Two bytes, and four, of a sequence.                                   *)
LEMMA TwoAt ==
  ASSUME NEW a \in Seq(Bytes), NEW j \in Nat, 1 <= j, j + 1 <= Len(a)
  PROVE  SubSeq(a, j, j + 1) = <<a[j], a[j + 1]>>
  <1>1. PICK e \in Nat : e + 1 = j
    <2>1. j - 1 \in Nat /\ (j - 1) + 1 = j
      OBVIOUS
    <2>2. QED
      BY <2>1
  <1>2. Len(a) \in Nat /\ j + 1 \in Nat /\ e <= j + 1
    BY <1>1, LenProperties
  <1>3. PICK f \in Nat : f = j + 1
    BY <1>2
  <1>4. PICK s : s = SubSeq(a, e + 1, f)
    OBVIOUS
  <1>5. s \in Seq(Bytes) /\ Len(s) = f - e /\ \A i \in 1..(f - e) : s[i] = a[e + i]
    <2>1. e \in Nat /\ f \in Nat /\ e <= f /\ f <= Len(a)
      BY <1>1, <1>2, <1>3
    <2>2. QED
      BY <1>4, <2>1, Piece, Zenon
  <1>6. f - e = 2 /\ e + 2 = j + 1
    BY <1>1, <1>3
  <1>7. Len(s) = 2 /\ s[1] = a[j] /\ s[2] = a[j + 1]
    BY <1>1, <1>5, <1>6
  <1>8. s = <<s[1], s[2]>>
    BY <1>5, <1>7, TwoOf
  <1>9. QED
    BY <1>1, <1>3, <1>4, <1>7, <1>8

LEMMA FourAt ==
  ASSUME NEW a \in Seq(Bytes), 6 <= Len(a)
  PROVE  SubSeq(a, 3, 6) = <<a[3], a[4], a[5], a[6]>>
  <1>1. PICK e \in Nat, f \in Nat : e = 2 /\ f = 6
    OBVIOUS
  <1>2. e <= f /\ f <= Len(a)
    BY <1>1
  <1>3. PICK s : s = SubSeq(a, e + 1, f)
    OBVIOUS
  <1>4. s \in Seq(Bytes) /\ Len(s) = f - e /\ \A i \in 1..(f - e) : s[i] = a[e + i]
    BY <1>1, <1>2, <1>3, Piece, Zenon
  <1>5. Len(s) = 4 /\ s[1] = a[3] /\ s[2] = a[4] /\ s[3] = a[5] /\ s[4] = a[6]
    BY <1>1, <1>4
  <1>6. s = <<s[1], s[2], s[3], s[4]>>
    BY <1>4, <1>5, FourOf
  <1>7. e + 1 = 3
    BY <1>1
  <1>8. QED
    BY <1>1, <1>3, <1>5, <1>6, <1>7

(* The parts a decoder looks at in a frame of ten bytes.                   *)
TenParts(a) ==
  /\ SubSeq(a, 1, 2) = <<a[1], a[2]>> /\ SubSeq(a, 3, 6) = <<a[3], a[4], a[5], a[6]>>
  /\ SubSeq(a, 7, 8) = <<a[7], a[8]>> /\ SubSeq(a, 9, 10) = <<a[9], a[10]>>
  /\ SubSeq(a, 5, 6) = <<a[5], a[6]>> /\ SubSeq(a, 5, 4) = <<>> /\ SubSeq(a, 1, 10) = a

LEMMA PartsOfTen ==
  ASSUME NEW a \in Seq(Bytes), Len(a) = 10
  PROVE  TenParts(a)
  <1>1. \A j \in {1, 5, 7, 9} : SubSeq(a, j, j + 1) = <<a[j], a[j + 1]>>
    <2>1. SUFFICES ASSUME NEW j \in {1, 5, 7, 9} PROVE SubSeq(a, j, j + 1) = <<a[j], a[j + 1]>>
      OBVIOUS
    <2>2. j \in Nat /\ 1 <= j /\ j + 1 <= Len(a)
      OBVIOUS
    <2>3. QED
      BY <2>2, TwoAt, Zenon
  <1>2. 1 + 1 = 2 /\ 5 + 1 = 6 /\ 7 + 1 = 8 /\ 9 + 1 = 10
    OBVIOUS
  <1>3. SubSeq(a, 3, 6) = <<a[3], a[4], a[5], a[6]>>
    <2>1. 6 <= Len(a)
      OBVIOUS
    <2>2. QED
      BY <2>1, FourAt, Zenon
  <1>4. SubSeq(a, 5, 4) = <<>>
    <2>1. 5 \in Int /\ 4 \in Int /\ 5 > 4
      OBVIOUS
    <2>2. QED
      BY <2>1, SubSeqEmpty
  <1>5. SubSeq(a, 1, 10) = a
    BY SubSeqFull
  <1>6. QED
    BY <1>1, <1>2, <1>3, <1>4, <1>5 DEF TenParts

(* encode_ack for a u16 checksum.                                        *)
LEMMA AckIs ==
  ASSUME NEW n \in AckNumbers, NEW s \in Words
  PROVE  LET crc == Crc(<<5, n, s \div 256, s % 256>>)
         IN /\ crc \in Words
            /\ EncodeAck(n, s) = <<120, 120, 5, n, s \div 256, s % 256, crc \div 256, crc % 256, 13, 10>>
            /\ EncodeAck(n, s) \in Seq(Bytes)
  <1> DEFINE hi == s \div 256
             lo == s % 256
             crc == Crc(<<5, n, hi, lo>>)
             x == crc \div 256
             y == crc % 256
  <1>1. hi \in Bytes /\ lo \in Bytes
    BY HighAndLow
  <1>2. crc \in Words
    <2>1. \A m \in AckNumbers : \A b, c \in Bytes : Crc(<<5, m, b, c>>) \in Words
      BY ConnectionAssumption, Zenon DEF ConnectionAssumption, Words, AckNumbers
    <2> HIDE DEF hi, lo
    <2>2. QED
      BY <1>1, <2>1, Zenon
  <1>3. x \in Bytes /\ y \in Bytes
    BY <1>2, HighAndLow
  <1>4. EncodeAck(n, s) = START_BYTES \o <<5, n, hi, lo>> \o <<x, y>> \o STOP_BYTES
    BY Zenon DEF EncodeAck
  <1>5. n \in Bytes
    BY DEF AckNumbers, PROTOCOL_LOGIN, PROTOCOL_HEARTBEAT, Bytes
  <1>6. crc = Crc(<<5, n, s \div 256, s % 256>>)
    OBVIOUS
  <1> HIDE DEF hi, lo, crc, x, y
  <1>7. START_BYTES \o <<5, n, hi, lo>> \o <<x, y>> \o STOP_BYTES
            = <<120, 120, 5, n, hi, lo, x, y, 13, 10>>
         /\ <<120, 120, 5, n, hi, lo, x, y, 13, 10>> \in Seq(Bytes)
    BY <1>1, <1>3, <1>5, TenBytes, Zenon
  <1>8. EncodeAck(n, s) = <<120, 120, 5, n, hi, lo, x, y, 13, 10>>
        /\ EncodeAck(n, s) \in Seq(Bytes)
    BY <1>4, <1>7, Zenon
  <1>10. QED
    BY <1>2, <1>6, <1>8 DEF hi, lo, x, y

(* The decoder reads an acknowledgement as an empty frame.                 *)
LEMMA AckReadBack ==
  ASSUME NEW n \in AckNumbers, NEW s \in Words
  PROVE  NextFrame(EncodeAck(n, s)).frame = [protocol_number |-> n, payload |-> <<>>, serial |-> s]
  <1> DEFINE hi == s \div 256
             lo == s % 256
             crc == Crc(<<5, n, hi, lo>>)
             x == crc \div 256
             y == crc % 256
             a == EncodeAck(n, s)
  <1>1. crc \in Words /\ a = <<120, 120, 5, n, hi, lo, x, y, 13, 10>> /\ a \in Seq(Bytes)
    BY AckIs
  <1>2. hi * 256 + lo = s /\ x * 256 + y = crc
    BY <1>1, TwoBytes
  <1>3. crc = Crc(<<5, n, hi, lo>>)
    OBVIOUS
  <1>f. NextFrame(EncodeAck(n, s)) = NextFrame(a)
    OBVIOUS
  <1> HIDE DEF hi, lo, crc, x, y, a
  <1>4. Len(a) = 10 /\ a[3] = 5 /\ a[4] = n
    BY <1>1
  <1>5. /\ SubSeq(a, 1, 2) = <<120, 120>> /\ SubSeq(a, 3, 6) = <<5, n, hi, lo>>
        /\ SubSeq(a, 7, 8) = <<x, y>> /\ SubSeq(a, 9, 10) = <<13, 10>>
        /\ SubSeq(a, 5, 6) = <<hi, lo>> /\ SubSeq(a, 5, 4) = <<>> /\ SubSeq(a, 1, 10) = a
    <2>1. TenParts(a)
      BY <1>1, <1>4, PartsOfTen
    <2>2. /\ a[1] = 120 /\ a[2] = 120 /\ a[3] = 5 /\ a[4] = n /\ a[5] = hi
          /\ a[6] = lo /\ a[7] = x /\ a[8] = y /\ a[9] = 13 /\ a[10] = 10
      BY <1>1
    <2>3. QED
      BY <2>1, <2>2, Zenon DEF TenParts
  <1>6. SkippedBefore(a) = 0
    <2>1. StartsAt(a, 0)
      BY <1>5 DEF StartsAt, START_BYTES
    <2>2. /\ SkippedBefore(a) \in 0..Len(a)
          /\ \A j \in 0..(SkippedBefore(a) - 1) : ~StartsAt(a, j)
      BY <1>1, SkippedIs
    <2> DEFINE k == SkippedBefore(a)
    <2> HIDE DEF k
    <2>3. k \in 0..10 /\ \A j \in 0..(k - 1) : ~StartsAt(a, j)
      BY <1>4, <2>2 DEF k
    <2>4. k = 0
      BY <2>1, <2>3
    <2>5. QED
      BY <2>4 DEF k
  <1>7. Drop(a, 0) = a
    BY <1>4, <1>5 DEF Drop
  <1>9. TotalLen(a) = 10
    BY <1>4 DEF TotalLen
  <1>10. ~Incomplete(a)
    BY <1>4, <1>9 DEF Incomplete
  <1>11. U16(<<x, y>>) = crc /\ U16(<<hi, lo>>) = s
    BY <1>2 DEF U16
  <1>12. ~Malformed(a)
    <2>1. ~ (a[3] < 5)
      BY <1>4
    <2>2. 10 - 1 = 9 /\ 10 - 4 = 6 /\ 10 - 3 = 7 /\ 10 - 2 = 8
      OBVIOUS
    <2>3. SubSeq(a, 10 - 1, 10) = STOP_BYTES
      BY <1>5, <2>2 DEF STOP_BYTES
    <2>4. Crc(SubSeq(a, 3, 10 - 4)) = U16(SubSeq(a, 10 - 3, 10 - 2))
      BY <1>3, <1>5, <1>11, <2>2
    <2>5. QED
      BY <1>9, <2>1, <2>3, <2>4, Zenon DEF Malformed
  <1>13. FrameOf(a) = [protocol_number |-> n, payload |-> <<>>, serial |-> s]
    <2>1. FrameOf(a) = [protocol_number |-> a[4], payload |-> SubSeq(a, 5, 5 - 1),
                        serial |-> U16(SubSeq(a, 5 - 1 + 1, 5 - 1 + 2))]
      BY <1>4, Zenon DEF FrameOf
    <2>2. 5 - 1 = 4 /\ 4 + 1 = 5 /\ 4 + 2 = 6
      OBVIOUS
    <2>3. QED
      BY <1>4, <1>5, <1>11, <2>1, <2>2
  <1>14. AtStart[a] = [kind |-> "frame", taken |-> TotalLen(a), frame |-> FrameOf(a)]
    BY <1>1, <1>10, <1>12 DEF AtStart
  <1>15. NextFrame(a) = [AtStart[a] EXCEPT !.taken = 0 + @]
    BY <1>6, <1>7 DEF NextFrame
  <1>16. NextFrame(a).frame = FrameOf(a)
    BY <1>14, <1>15
  <1>17. QED
    BY <1>f, <1>13, <1>16

-----------------------------------------------------------------------------
(* Counting what asked and what was answered.                            *)

UpTo(S, i) == {j \in S : j <= i}

(* How many of a set of places come up to one of them.                     *)
LEMMA CountUpTo ==
  ASSUME NEW n \in Nat, NEW S \in SUBSET (1..n)
  PROVE  /\ IsFiniteSet(S) /\ Cardinality(S) \in Nat
         /\ \A i \in S : /\ Cardinality(UpTo(S, i)) \in Nat /\ Cardinality(UpTo(S, i)) >= 1
                         /\ Cardinality(UpTo(S, i)) <= Cardinality(S)
         /\ \A i \in S : n \in S /\ i # n => Cardinality(UpTo(S, i)) < Cardinality(S)
         /\ n \in S => UpTo(S, n) = S
  <1>1. IsFiniteSet(1..n)
    BY FS_Interval
  <1>2. IsFiniteSet(S)
    BY <1>1, FS_Subset
  <1>3. Cardinality(S) \in Nat
    BY <1>2, FS_CardinalityType
  <1>4. ASSUME NEW i \in S
        PROVE  /\ Cardinality(UpTo(S, i)) \in Nat /\ Cardinality(UpTo(S, i)) >= 1
               /\ Cardinality(UpTo(S, i)) <= Cardinality(S)
    <2>1. i \in UpTo(S, i) /\ UpTo(S, i) \in SUBSET S
      BY DEF UpTo
    <2>2. IsFiniteSet(UpTo(S, i)) /\ Cardinality(UpTo(S, i)) <= Cardinality(S)
      BY <1>2, <2>1, FS_Subset
    <2>3. Cardinality(UpTo(S, i)) \in Nat
      BY <2>2, FS_CardinalityType
    <2>4. Cardinality(UpTo(S, i)) # 0
      BY <2>1, <2>2, FS_EmptySet
    <2>5. PICK c \in Nat : c = Cardinality(UpTo(S, i))
      BY <2>3
    <2>6. c >= 1
      BY <2>4, <2>5
    <2>7. QED
      BY <2>2, <2>5, <2>6
  <1>5. ASSUME NEW i \in S, n \in S, i # n
        PROVE  Cardinality(UpTo(S, i)) < Cardinality(S)
    <2>1. n \notin UpTo(S, i) /\ UpTo(S, i) \in SUBSET S
      <3>1. i \in 1..n
        OBVIOUS
      <3>2. QED
        BY <1>5, <3>1 DEF UpTo
    <2>2. UpTo(S, i) # S
      BY <1>5, <2>1
    <2>3. /\ Cardinality(UpTo(S, i)) <= Cardinality(S)
          /\ Cardinality(S) = Cardinality(UpTo(S, i)) => S = UpTo(S, i)
      BY <1>2, <2>1, FS_Subset
    <2>4. PICK c \in Nat, d \in Nat : c = Cardinality(UpTo(S, i)) /\ d = Cardinality(S)
      BY <1>3, <1>4
    <2>5. c <= d /\ c # d
      BY <2>2, <2>3, <2>4
    <2>6. c < d
      BY <2>5
    <2>7. QED
      BY <2>4, <2>6
  <1>6. n \in S => UpTo(S, n) = S
    <2>1. \A j \in S : j <= n
      OBVIOUS
    <2>2. QED
      BY <2>1, Zenon DEF UpTo
  <1>7. QED
    BY <1>2, <1>3, <1>4, <1>5, <1>6

(* One place more, behind the others.                                      *)
LEMMA CountOneMore ==
  ASSUME NEW n \in Nat, NEW S \in SUBSET (1..n)
  PROVE  /\ Cardinality(S \cup {n + 1}) = Cardinality(S) + 1
         /\ \A i \in S : UpTo(S \cup {n + 1}, i) = UpTo(S, i)
         /\ UpTo(S \cup {n + 1}, n + 1) = S \cup {n + 1}
  <1>1. IsFiniteSet(S)
    BY CountUpTo
  <1>2. n + 1 \notin S
    OBVIOUS
  <1>3. Cardinality(S \cup {n + 1}) = Cardinality(S) + 1
    BY <1>1, <1>2, FS_AddElement
  <1>4. ASSUME NEW i \in S PROVE UpTo(S \cup {n + 1}, i) = UpTo(S, i)
    BY DEF UpTo
  <1>5. UpTo(S \cup {n + 1}, n + 1) = S \cup {n + 1}
    <2>1. \A j \in S \cup {n + 1} : j <= n + 1
      OBVIOUS
    <2>2. QED
      BY <2>1, Zenon DEF UpTo
  <1>6. QED
    BY <1>3, <1>4, <1>5

(* The counts of AcksAnswerInOrder, of any sequences.                    *)
AskedIn(fs)  == {i \in 1..Len(fs) : WantsAck(DecodeMessage(fs[i].frame))}
HandedIn(es) == {i \in 1..Len(es) : WantsAck(es[i])}
Told         == {DecodeMessage(f) : f \in Messages}

(* One frame more, and one message more.                                 *)
LEMMA AskedOneMore ==
  ASSUME NEW fs \in Seq(Taken), NEW t \in Taken
  PROVE  AskedIn(Append(fs, t)) = IF WantsAck(DecodeMessage(t.frame)) THEN AskedIn(fs) \cup {Len(fs) + 1}
                                  ELSE AskedIn(fs)
  <1> DEFINE n == Len(fs)
             gs == Append(fs, t)
  <1>1. n \in Nat /\ Len(gs) = n + 1 /\ gs[n + 1] = t /\ \A i \in 1..n : gs[i] = fs[i]
    BY AppendProperties, LenProperties
  <1> HIDE DEF n, gs
  <1>2. 1..(n + 1) = (1..n) \cup {n + 1}
    BY <1>1
  <1>3. AskedIn(gs) = {i \in 1..(n + 1) : WantsAck(DecodeMessage(gs[i].frame))}
    BY <1>1 DEF AskedIn
  <1>4. AskedIn(fs) = {i \in 1..n : WantsAck(DecodeMessage(fs[i].frame))}
    BY DEF AskedIn, n
  <1>5. AskedIn(gs) = IF WantsAck(DecodeMessage(t.frame)) THEN AskedIn(fs) \cup {n + 1} ELSE AskedIn(fs)
    BY <1>1, <1>2, <1>3, <1>4, Zenon
  <1>6. QED
    BY <1>5 DEF n, gs

LEMMA HandedOneMore ==
  ASSUME NEW es \in Seq(Told), NEW t \in Told
  PROVE  HandedIn(Append(es, t)) = IF WantsAck(t) THEN HandedIn(es) \cup {Len(es) + 1} ELSE HandedIn(es)
  <1> DEFINE n == Len(es)
             gs == Append(es, t)
  <1>1. n \in Nat /\ Len(gs) = n + 1 /\ gs[n + 1] = t /\ \A i \in 1..n : gs[i] = es[i]
    BY AppendProperties, LenProperties
  <1> HIDE DEF n, gs
  <1>2. 1..(n + 1) = (1..n) \cup {n + 1}
    BY <1>1
  <1>3. HandedIn(gs) = {i \in 1..(n + 1) : WantsAck(gs[i])}
    BY <1>1 DEF HandedIn
  <1>4. HandedIn(es) = {i \in 1..n : WantsAck(es[i])}
    BY DEF HandedIn, n
  <1>5. HandedIn(gs) = IF WantsAck(t) THEN HandedIn(es) \cup {n + 1} ELSE HandedIn(es)
    BY <1>1, <1>2, <1>3, <1>4, Zenon
  <1>6. QED
    BY <1>5 DEF n, gs

(* Ten bytes behind whole tens: the earlier tens stay, the last is new.    *)
LEMMA TensOfBytes ==
  ASSUME NEW s \in Seq(Bytes), NEW k \in Nat, Len(s) = 10 * k,
         NEW a \in Seq(Bytes), Len(a) = 10
  PROVE  /\ s \o a \in Seq(Bytes) /\ Len(s \o a) = 10 * (k + 1)
         /\ \A n \in 1..k : SubSeq(s \o a, 10 * n - 9, 10 * n) = SubSeq(s, 10 * n - 9, 10 * n)
         /\ SubSeq(s \o a, 10 * (k + 1) - 9, 10 * (k + 1)) = a
  <1> DEFINE u == s \o a
  <1>0. Joined(s, a, u)
    BY Behind
  <1>1. /\ u \in Seq(Bytes) /\ Len(u) = Len(s) + Len(a)
        /\ \A i \in 1..Len(s) : u[i] = s[i]
        /\ \A i \in 1..Len(a) : u[Len(s) + i] = a[i]
    BY <1>0, Zenon DEF Joined
  <1> HIDE DEF u
  <1>2. /\ Len(u) = 10 * k + 10
        /\ \A i \in 1..(10 * k) : u[i] = s[i]
        /\ \A i \in 1..10 : u[10 * k + i] = a[i]
    BY <1>1
  <1>3. ASSUME NEW n \in 1..k
        PROVE  SubSeq(u, 10 * n - 9, 10 * n) = SubSeq(s, 10 * n - 9, 10 * n)
    <2>1. PICK e \in Nat, f \in Nat : e = 10 * n - 10 /\ f = 10 * n
      <3>1. 10 * n - 10 \in Nat /\ 10 * n \in Nat
        OBVIOUS
      <3>2. QED
        BY <3>1
    <2>2. e <= f /\ f <= 10 * k /\ e + 1 = 10 * n - 9
      BY <2>1
    <2>3. e <= f /\ f <= Len(s) /\ f <= Len(u)
      BY <1>2, <2>2
    <2>4. PICK v : v = SubSeq(u, e + 1, f)
      OBVIOUS
    <2>5. PICK w : w = SubSeq(s, e + 1, f)
      OBVIOUS
    <2>6. v \in Seq(Bytes) /\ Len(v) = f - e /\ \A i \in 1..(f - e) : v[i] = u[e + i]
      BY <1>1, <2>3, <2>4, Piece, Zenon
    <2>7. w \in Seq(Bytes) /\ Len(w) = f - e /\ \A i \in 1..(f - e) : w[i] = s[e + i]
      BY <2>3, <2>5, Piece, Zenon
    <2>8. ASSUME NEW i \in 1..(f - e) PROVE v[i] = w[i]
      <3>1. e + i \in 1..(10 * k)
        BY <2>2
      <3>2. QED
        BY <1>2, <2>6, <2>7, <3>1
    <2>9. v = w
      BY <2>6, <2>7, <2>8, SeqEqual
    <2>10. QED
      BY <2>1, <2>2, <2>4, <2>5, <2>9
  <1>4. SubSeq(u, 10 * (k + 1) - 9, 10 * (k + 1)) = a
    <2>1. PICK e \in Nat, f \in Nat : e = 10 * k /\ f = 10 * k + 10
      OBVIOUS
    <2>2. e <= f /\ f <= Len(u) /\ e + 1 = 10 * (k + 1) - 9 /\ f = 10 * (k + 1) /\ f - e = 10
      BY <1>2, <2>1
    <2>3. PICK v : v = SubSeq(u, e + 1, f)
      OBVIOUS
    <2>4. v \in Seq(Bytes) /\ Len(v) = f - e /\ \A i \in 1..(f - e) : v[i] = u[e + i]
      <3>1. e \in Nat /\ f \in Nat /\ e <= f /\ f <= Len(u)
        BY <2>1, <2>2
      <3>2. QED
        BY <1>1, <2>3, <3>1, Piece, Zenon
    <2>5. Len(v) = 10 /\ \A i \in 1..10 : v[i] = a[i]
      BY <1>2, <2>1, <2>2, <2>4
    <2>6. v = a
      BY <2>4, <2>5, SeqEqual
    <2>7. QED
      BY <2>2, <2>3, <2>6
  <1>5. 10 * k + 10 = 10 * (k + 1)
    OBVIOUS
  <1>6. QED
    BY <1>1, <1>2, <1>3, <1>4, <1>5 DEF u

-----------------------------------------------------------------------------
(* The steps of the task, for AcksAnswerInOrder.                         *)

Phases == {"read", "decode", "ack", "handle", "closed"}

(* The phases: a frame is in hand when one is answered or handled, and   *)
(* it wants an answer when it is answered.                               *)
PhasesInv ==
  /\ phase \in Phases
  /\ device = NULL \/ device \in Seq(0..15)
  /\ phase \in {"ack", "handle"} => frames # <<>>
  /\ phase = "ack" => WantsAck(DecodeMessage(InHand))

AnswerOf(i) == [frames[i].frame EXCEPT !.payload = <<>>]

(* The answers written are whole, and are the answers to the first that  *)
(* asked.                                                                *)
AnswersInv ==
  /\ sent \in Seq(Bytes) /\ Answers \in Nat /\ Len(sent) = 10 * Answers
  /\ events \in Seq(Told)
  /\ \A i \in Asked : AskedBy(i) <= Answers => Answer(AskedBy(i)) = AnswerOf(i)

(* Between the frame and its answer one is unanswered; between the       *)
(* answer and the handlers one is unhanded; otherwise the three counts   *)
(* are equal.                                                            *)
Unanswered == IF phase = "ack" THEN 1 ELSE 0
Unhanded   == IF phase = "handle" /\ WantsAck(DecodeMessage(InHand)) THEN 1 ELSE 0

TurnInv ==
  IF phase = "closed"
  THEN /\ Cardinality(Handed) <= Answers /\ Answers <= Cardinality(Asked)
       /\ Cardinality(Asked) <= Cardinality(Handed) + 1
  ELSE /\ Cardinality(Asked) = Answers + Unanswered
       /\ Answers = Cardinality(Handed) + Unhanded

AckInv == FramesInv /\ PhasesInv /\ AnswersInv /\ TurnInv

(* The message the task works on is the last frame taken.                *)
LEMMA InHandIs ==
  ASSUME FramesInv, frames # <<>>
  PROVE  /\ InHand \in Messages /\ InHand = frames[Len(frames)].frame
         /\ Len(frames) \in 1..Len(frames)
  <1>1. frames \in Seq(Taken)
    BY DEF FramesInv
  <1>2. Len(frames) \in Nat \ {0}
    BY <1>1, EmptySeq
  <1>3. Len(frames) \in 1..Len(frames)
    BY <1>2
  <1>4. frames[Len(frames)] \in Taken
    BY <1>1, <1>3, ElementOfSeq
  <1>5. InHand = frames[Len(frames)].frame
    BY DEF InHand, Last
  <1>6. QED
    BY <1>3, <1>4, <1>5 DEF Taken

(* The two counts of the invariant.                                        *)
LEMMA Counts ==
  ASSUME AckInv
  PROVE  /\ Len(frames) \in Nat /\ Asked \in SUBSET (1..Len(frames)) /\ Cardinality(Asked) \in Nat
         /\ Len(events) \in Nat /\ Handed \in SUBSET (1..Len(events)) /\ Cardinality(Handed) \in Nat
         /\ Asked = AskedIn(frames) /\ Handed = HandedIn(events)
  <1>1. Len(frames) \in Nat /\ Len(events) \in Nat
    BY LenProperties DEF AckInv, FramesInv, AnswersInv
  <1>2. Asked \in SUBSET (1..Len(frames)) /\ Handed \in SUBSET (1..Len(events))
    BY DEF Asked, Handed
  <1>3. Cardinality(Asked) \in Nat /\ Cardinality(Handed) \in Nat
    BY <1>1, <1>2, CountUpTo
  <1>4. QED
    BY <1>1, <1>2, <1>3 DEF Asked, Handed, AskedIn, HandedIn

LEMMA AckInvShows ==
  ASSUME AckInv
  PROVE  AcksAnswerInOrder
  <1> DEFINE k == Answers
             a == Cardinality(Asked)
             h == Cardinality(Handed)
  <1>1. k \in Nat /\ a \in Nat /\ h \in Nat
    BY Counts DEF AckInv, AnswersInv
  <1>2. IF phase = "closed" THEN h <= k /\ k <= a /\ a <= h + 1
        ELSE a = k + Unanswered /\ k = h + Unhanded
    BY DEF AckInv, TurnInv
  <1>3. Unanswered \in {0, 1} /\ Unhanded \in {0, 1} /\ (Unanswered = 0 \/ Unhanded = 0)
    BY DEF Unanswered, Unhanded
  <1> HIDE DEF k, a, h
  <1>4. h <= k /\ k <= a /\ a <= h + 1
    BY <1>1, <1>2, <1>3
  <1>5. /\ Len(sent) = 10 * Answers
        /\ \A i \in Asked : AskedBy(i) <= Answers =>
             Answer(AskedBy(i)) = [frames[i].frame EXCEPT !.payload = <<>>]
    BY Zenon DEF AckInv, AnswersInv, AnswerOf
  <1>6. QED
    BY <1>4, <1>5 DEF AcksAnswerInOrder, k, a, h

LEMMA AckInit == Init => AckInv
  <1> SUFFICES ASSUME Init PROVE AckInv
    OBVIOUS
  <1>1. FramesInv
    BY GreedyInit DEF GreedyInv
  <1>2. frames = <<>> /\ events = <<>> /\ sent = <<>> /\ phase = "read" /\ device = NULL
    BY DEF Init
  <1>3. Asked = {} /\ Handed = {}
    <2>1. Len(frames) = 0 /\ Len(events) = 0 /\ 1..0 = {}
      BY <1>2
    <2>2. QED
      BY <2>1 DEF Asked, Handed
  <1>4. Cardinality(Asked) = 0 /\ Cardinality(Handed) = 0
    BY <1>3, FS_EmptySet
  <1>5. Answers = 0 /\ Len(sent) = 0
    BY <1>2 DEF Answers
  <1>6. PhasesInv
    BY <1>2 DEF PhasesInv, Phases
  <1>7. AnswersInv
    <2>1. sent \in Seq(Bytes) /\ events \in Seq(Told)
      BY <1>2, EmptySeq
    <2>2. Answers \in Nat /\ Len(sent) = 10 * Answers
      BY <1>5
    <2>3. QED
      BY <1>3, <2>1, <2>2 DEF AnswersInv
  <1>8. TurnInv
    <2>1. Unanswered = 0 /\ Unhanded = 0 /\ phase # "closed"
      BY <1>2 DEF Unanswered, Unhanded
    <2>2. QED
      BY <1>4, <1>5, <2>1 DEF TurnInv
  <1>9. QED
    BY <1>1, <1>6, <1>7, <1>8 DEF AckInv

(* A frame taken is one more that may want an answer.                    *)
LEMMA AckAccept ==
  ASSUME AckInv, FramesInv', WireInv, Accept
  PROVE  AckInv'
  <1> DEFINE f == Found.frame
             m == DecodeMessage(f)
             n == Len(frames)
             k == Answers
             a == Cardinality(Asked)
  <1>1. /\ Found.kind = "frame" /\ phase = "decode" /\ phase' = PhaseFor(m)
        /\ UNCHANGED <<device, sent, events>>
    BY DEF Accept, Decoding, Found
  <1>2. PICK size, at : frames' = Append(frames, [frame |-> f, len |-> size, at |-> at])
    BY DEF Accept, Found
  <1> DEFINE new == [frame |-> f, len |-> size, at |-> at]
  <1>3. frames \in Seq(Taken) /\ frames' \in Seq(Taken)
    BY DEF AckInv, FramesInv
  <1>4. n \in Nat /\ a \in Nat /\ k \in Nat /\ Asked \in SUBSET (1..n) /\ Asked = AskedIn(frames)
    BY Counts DEF AckInv, AnswersInv
  <1>5. m.kind \in Kinds
    BY MessageKinds
  <1>6. new \in Taken /\ new.frame = f
    <2>1. Len(frames') = n + 1 /\ frames'[n + 1] = new
      BY <1>2, <1>3, <1>4
    <2>2. n + 1 \in 1..Len(frames')
      BY <1>4, <2>1
    <2>3. QED
      BY <1>3, <2>1, <2>2, ElementOfSeq
  <1>7. /\ Len(frames') = n + 1 /\ frames'[n + 1] = new
        /\ \A i \in 1..n : frames'[i] = frames[i]
    BY <1>2, <1>3, <1>6, AppendProperties
  <1>8. Asked' = IF WantsAck(m) THEN Asked \cup {n + 1} ELSE Asked
    <2>1. Asked' = AskedIn(frames')
      BY DEF Asked, AskedIn
    <2>2. frames' = Append(frames, new)
      BY <1>2
    <2> HIDE DEF new, m
    <2>3. AskedIn(Append(frames, new)) = IF WantsAck(DecodeMessage(new.frame)) THEN AskedIn(frames) \cup {Len(frames) + 1}
                                         ELSE AskedIn(frames)
      BY <1>3, <1>6, AskedOneMore, Zenon
    <2>4. QED
      BY <1>4, <1>6, <2>1, <2>2, <2>3, Zenon DEF m
  <1>9. a = k /\ k = Cardinality(Handed) /\ Handed' = Handed /\ Answers' = Answers
    BY <1>1, <1>4, Counts DEF AckInv, TurnInv, Unanswered, Unhanded, Handed, Answers
  <1>10. InHand' = f
    <2>1. InHand' = frames'[Len(frames')].frame
      BY DEF InHand, Last
    <2>2. QED
      BY <1>6, <1>7, <2>1
  <1>11. phase' \in {"ack", "handle", "decode"} /\ (phase' = "ack" <=> WantsAck(m))
    BY <1>1, <1>5, Zenon DEF PhaseFor, WantsAck, Kinds
  <1>12. PhasesInv'
    <2>1. frames' # <<>>
      BY <1>2, <1>3, <1>6, AppendProperties
    <2>2. phase' = "ack" => WantsAck(DecodeMessage(InHand'))
      BY <1>10, <1>11
    <2>3. device' = NULL \/ device' \in Seq(0..15)
      BY <1>1 DEF AckInv, PhasesInv
    <2>4. phase' \in Phases
      BY <1>11 DEF Phases
    <2>5. QED
      BY <2>1, <2>2, <2>3, <2>4 DEF PhasesInv
  <1>13. /\ Cardinality(Asked \cup {n + 1}) = a + 1
         /\ \A i \in Asked : UpTo(Asked \cup {n + 1}, i) = UpTo(Asked, i)
         /\ UpTo(Asked \cup {n + 1}, n + 1) = Asked \cup {n + 1}
    BY <1>4, CountOneMore
  <1>14. \A i : AskedBy(i) = Cardinality(UpTo(Asked, i)) /\ AskedBy(i)' = Cardinality(UpTo(Asked', i))
    BY DEF AskedBy, UpTo
  <1>15. AnswersInv'
    <2>1. sent' \in Seq(Bytes) /\ Answers' \in Nat /\ Len(sent') = 10 * Answers' /\ events' \in Seq(Told)
      BY <1>1, <1>9 DEF AckInv, AnswersInv
    <2>2. ASSUME NEW i \in Asked', AskedBy(i)' <= Answers'
          PROVE  Answer(AskedBy(i))' = AnswerOf(i)'
      <3>1. CASE i \in Asked
        <4>1. AskedBy(i)' = AskedBy(i)
          BY <1>8, <1>13, <1>14, <3>1
        <4>2. Answer(AskedBy(i))' = Answer(AskedBy(i))
          BY <1>1, <4>1 DEF Answer
        <4>3. frames'[i] = frames[i]
          BY <1>4, <1>7, <3>1
        <4>4. AnswerOf(i)' = AnswerOf(i)
          BY <4>3, Zenon DEF AnswerOf
        <4>5. AskedBy(i) <= Answers
          BY <1>9, <2>2, <4>1
        <4>6. Answer(AskedBy(i)) = AnswerOf(i)
          BY <3>1, <4>5 DEF AckInv, AnswersInv
        <4>7. QED
          BY <4>2, <4>4, <4>6
      <3>2. CASE i \notin Asked
        <4>1. i = n + 1 /\ Asked' = Asked \cup {n + 1}
          BY <1>8, <3>2
        <4>2. AskedBy(i)' = a + 1
          BY <1>13, <1>14, <4>1
        <4> HIDE DEF a, k
        <4>3. a + 1 <= k
          BY <1>9, <2>2, <4>2 DEF k
        <4>4. QED
          BY <1>4, <1>9, <4>3
      <3>3. QED
        BY <3>1, <3>2
    <2>3. QED
      BY <2>1, <2>2 DEF AnswersInv
  <1>16. TurnInv'
    <2>1. phase' # "closed" /\ Unhanded' = IF phase' = "handle" /\ WantsAck(m) THEN 1 ELSE 0
      BY <1>10, <1>11 DEF Unhanded
    <2>2. Unhanded' = 0 /\ Unanswered' = IF WantsAck(m) THEN 1 ELSE 0
      BY <1>11, <2>1 DEF Unanswered
    <2>3. Cardinality(Asked') = a + Unanswered'
      BY <1>4, <1>8, <1>13, <2>2
    <2>4. Answers' = Cardinality(Handed') + Unhanded'
      <3> DEFINE h == Cardinality(Handed)
      <3>1. h \in Nat /\ k = h /\ Handed' = Handed
        BY <1>4, <1>9
      <3> HIDE DEF h
      <3>2. h + 0 = k
        BY <3>1
      <3>3. QED
        BY <1>9, <2>2, <3>1, <3>2 DEF h
    <2>5. QED
      BY <1>9, <2>1, <2>3, <2>4 DEF TurnInv
  <1>17. QED
    BY <1>12, <1>15, <1>16 DEF AckInv

(* The answer is the next ten bytes, and it is for the frame in hand.    *)
LEMMA AckAck ==
  ASSUME AckInv, FramesInv', Ack
  PROVE  AckInv'
  <1> DEFINE f == InHand
             new == EncodeAck(f.protocol_number, f.serial)
             n == Len(frames)
             k == Answers
             a == Cardinality(Asked)
  <1>1. /\ phase = "ack" /\ sent' = sent \o new /\ phase' = "handle"
        /\ UNCHANGED <<device, frames, events>>
    BY DEF Ack
  <1>2. frames # <<>> /\ WantsAck(DecodeMessage(f)) /\ FramesInv
    BY <1>1 DEF AckInv, PhasesInv
  <1>3. f \in Messages /\ f = frames[n].frame /\ n \in 1..n
    BY <1>2, InHandIs
  <1>4. f.protocol_number \in AckNumbers /\ f.serial \in Words
    BY <1>2, <1>3, MessageKinds DEF AckNumbers, Messages
  <1>5. new \in Seq(Bytes) /\ Len(new) = 10
    <2> DEFINE p == f.protocol_number
               s == f.serial
               crc == Crc(<<5, p, s \div 256, s % 256>>)
    <2>1. p \in AckNumbers /\ s \in Words /\ new = EncodeAck(p, s)
      BY <1>4
    <2> HIDE DEF new, p, s
    <2>2. EncodeAck(p, s) = <<120, 120, 5, p, s \div 256, s % 256, crc \div 256, crc % 256, 13, 10>>
          /\ EncodeAck(p, s) \in Seq(Bytes)
      BY <2>1, AckIs
    <2> HIDE DEF crc
    <2>3. QED
      BY <2>1, <2>2
  <1>6. NextFrame(new).frame = [protocol_number |-> f.protocol_number, payload |-> <<>>, serial |-> f.serial]
    BY <1>4, AckReadBack
  <1>7. n \in Nat /\ a \in Nat /\ k \in Nat /\ Asked \in SUBSET (1..n)
    BY Counts DEF AckInv, AnswersInv
  <1>8. sent \in Seq(Bytes) /\ Len(sent) = 10 * k /\ events \in Seq(Told)
        /\ \A i \in Asked : AskedBy(i) <= Answers => Answer(AskedBy(i)) = AnswerOf(i)
    BY DEF AckInv, AnswersInv
  <1>9. a = k + 1 /\ Answers = Cardinality(Handed) + 0
    BY <1>1 DEF AckInv, TurnInv, Unanswered, Unhanded
  <1>10. n \in Asked
    BY <1>2, <1>3 DEF Asked
  <1>11. Asked' = Asked /\ Handed' = Handed /\ InHand' = InHand
         /\ \A i : AskedBy(i)' = AskedBy(i) /\ AnswerOf(i)' = AnswerOf(i)
    BY <1>1, Zenon DEF Asked, Handed, InHand, AskedBy, AnswerOf
  <1> HIDE DEF f, new, n, k, a
  <1>12. /\ sent' \in Seq(Bytes) /\ Len(sent') = 10 * (k + 1)
         /\ \A m \in 1..k : SubSeq(sent', 10 * m - 9, 10 * m) = SubSeq(sent, 10 * m - 9, 10 * m)
         /\ SubSeq(sent', 10 * (k + 1) - 9, 10 * (k + 1)) = new
    <2>1. /\ sent \o new \in Seq(Bytes) /\ Len(sent \o new) = 10 * (k + 1)
          /\ \A m \in 1..k : SubSeq(sent \o new, 10 * m - 9, 10 * m) = SubSeq(sent, 10 * m - 9, 10 * m)
          /\ SubSeq(sent \o new, 10 * (k + 1) - 9, 10 * (k + 1)) = new
      <3>1. sent \in Seq(Bytes) /\ k \in Nat /\ Len(sent) = 10 * k /\ new \in Seq(Bytes) /\ Len(new) = 10
        BY <1>5, <1>7, <1>8
      <3>2. QED
        BY <3>1, TensOfBytes, Zenon
    <2>2. sent' = sent \o new
      BY <1>1
    <2>3. QED
      BY <2>1, <2>2, Zenon
  <1>13. Answers' = k + 1
    <2>1. PICK l \in Nat : l = Len(sent')
      BY <1>12, LenProperties
    <2>2. l \div 10 = k + 1
      BY <1>7, <1>12, <2>1
    <2>3. QED
      BY <2>1, <2>2 DEF Answers
  <1>14. ASSUME NEW i \in Asked, AskedBy(i) <= k + 1
         PROVE  Answer(AskedBy(i))' = AnswerOf(i)
    <2>1. /\ AskedBy(i) \in Nat /\ AskedBy(i) >= 1
          /\ i # n => AskedBy(i) < k + 1
          /\ i = n => AskedBy(i) = k + 1
      <3>1. AskedBy(i) = Cardinality(UpTo(Asked, i))
        BY DEF AskedBy, UpTo
      <3>2. i # n => Cardinality(UpTo(Asked, i)) < Cardinality(Asked)
        BY <1>7, <1>10, CountUpTo, Zenon
      <3>3. i = n => UpTo(Asked, i) = Asked
        BY <1>7, <1>10, CountUpTo, Zenon
      <3>4. Cardinality(UpTo(Asked, i)) \in Nat /\ Cardinality(UpTo(Asked, i)) >= 1
        BY <1>7, CountUpTo, Zenon
      <3>5. QED
        BY <1>9, <3>1, <3>2, <3>3, <3>4 DEF a
    <2>2. PICK m \in Nat : m = AskedBy(i)
      BY <2>1
    <2>3. Answer(AskedBy(i))' = NextFrame(SubSeq(sent', 10 * m - 9, 10 * m)).frame
      <3>1. AskedBy(i)' = m
        BY <1>11, <2>2
      <3>2. QED
        BY <3>1, Zenon DEF Answer
    <2>4. CASE i # n
      <3>1. m \in 1..k /\ m <= k
        BY <1>7, <2>1, <2>2, <2>4
      <3>2. SubSeq(sent', 10 * m - 9, 10 * m) = SubSeq(sent, 10 * m - 9, 10 * m)
        BY <1>12, <3>1, Zenon
      <3>3. Answer(AskedBy(i)) = NextFrame(SubSeq(sent, 10 * m - 9, 10 * m)).frame
        BY <2>2, Zenon DEF Answer
      <3>4. Answer(AskedBy(i)) = AnswerOf(i)
        BY <1>8, <2>2, <3>1 DEF k
      <3>5. QED
        BY <2>3, <3>2, <3>3, <3>4, Zenon
    <2>5. CASE i = n
      <3>1. m = k + 1
        BY <2>1, <2>2, <2>5
      <3>2. Answer(AskedBy(i))' = NextFrame(new).frame
        BY <1>12, <2>3, <3>1, Zenon
      <3>3. AnswerOf(i) = [f EXCEPT !.payload = <<>>]
        BY <1>3, <2>5, Zenon DEF AnswerOf
      <3>4. [f EXCEPT !.payload = <<>>] = [protocol_number |-> f.protocol_number, payload |-> <<>>, serial |-> f.serial]
        BY <1>3 DEF Messages
      <3>5. QED
        BY <1>6, <3>2, <3>3, <3>4, Zenon
    <2>6. QED
      BY <2>4, <2>5
  <1>15. AnswersInv'
    <2>1. k + 1 \in Nat
      BY <1>7
    <2>2. \A i \in Asked' : AskedBy(i)' <= Answers' => Answer(AskedBy(i))' = AnswerOf(i)'
      BY <1>11, <1>13, <1>14, Zenon
    <2>3. sent' \in Seq(Bytes) /\ Answers' \in Nat /\ Len(sent') = 10 * Answers' /\ events' \in Seq(Told)
      BY <1>1, <1>8, <1>12, <1>13, <2>1
    <2>4. QED
      BY <2>2, <2>3, Zenon DEF AnswersInv
  <1>16. PhasesInv'
    BY <1>1, <1>2 DEF AckInv, PhasesInv, Phases
  <1>17. TurnInv'
    <2>1. phase' # "closed" /\ Unanswered' = 0 /\ Unhanded' = 1
      BY <1>1, <1>2, <1>11 DEF Unanswered, Unhanded, f
    <2> DEFINE h == Cardinality(Handed)
    <2>2. h \in Nat /\ k = h + 0
      BY <1>9, Counts DEF k
    <2>3. Cardinality(Asked') = a /\ Cardinality(Handed') = h
      BY <1>11 DEF a
    <2> HIDE DEF h
    <2>4. a = (k + 1) + 0 /\ k + 1 = h + 1
      BY <1>7, <1>9, <2>2
    <2>5. QED
      BY <1>13, <2>1, <2>3, <2>4 DEF TurnInv
  <1>18. QED
    BY <1>15, <1>16, <1>17 DEF AckInv

(* A message is handed on once its answer is written.                    *)
LEMMA AckHandle ==
  ASSUME AckInv, FramesInv', Handle
  PROVE  AckInv'
  <1> DEFINE m == DecodeMessage(InHand)
             e == Len(events)
             h == Cardinality(Handed)
             k == Answers
  <1>1. /\ phase = "handle" /\ phase' = "decode" /\ device' = DeviceAfter(m)
        /\ events' = Append(events, m) /\ UNCHANGED <<sent, frames>>
    BY DEF Handle
  <1>2. frames # <<>> /\ FramesInv /\ (device = NULL \/ device \in Seq(0..15))
    BY <1>1 DEF AckInv, PhasesInv
  <1>3. InHand \in Messages /\ m \in Told
    BY <1>2, InHandIs DEF Told
  <1>4. e \in Nat /\ Handed \in SUBSET (1..e) /\ h \in Nat /\ k \in Nat /\ Handed = HandedIn(events)
        /\ Cardinality(Asked) \in Nat
    BY Counts DEF AckInv, AnswersInv
  <1>5. Cardinality(Asked) = k + 0 /\ k = h + Unhanded
    BY <1>1 DEF AckInv, TurnInv, Unanswered
  <1>6. /\ Asked' = Asked /\ Answers' = Answers /\ InHand' = InHand
        /\ \A i : AskedBy(i)' = AskedBy(i) /\ AnswerOf(i)' = AnswerOf(i)
    BY <1>1, Zenon DEF Asked, Answers, InHand, AskedBy, AnswerOf
  <1>7. device' = NULL \/ device' \in Seq(0..15)
    <2>1. m.kind = "login" => m.packet \in Seq(0..15)
      BY <1>3, LoginIs
    <2>2. QED
      BY <1>1, <1>2, <2>1 DEF DeviceAfter
  <1>8. PhasesInv'
    BY <1>1, <1>7 DEF PhasesInv, Phases
  <1>9. events \in Seq(Told) /\ events' \in Seq(Told)
    BY <1>1, <1>3, AppendProperties DEF AckInv, AnswersInv
  <1>10. AnswersInv'
    <2>1. sent \in Seq(Bytes) /\ Answers \in Nat /\ Len(sent) = 10 * Answers
          /\ \A i \in Asked : AskedBy(i) <= Answers => Answer(AskedBy(i)) = AnswerOf(i)
      BY DEF AckInv, AnswersInv
    <2>2. \A i : Answer(AskedBy(i))' = Answer(AskedBy(i))
      BY <1>1, Zenon DEF Answer, AskedBy, Asked
    <2>3. \A i \in Asked' : AskedBy(i)' <= Answers' => Answer(AskedBy(i))' = AnswerOf(i)'
      BY <1>6, <2>1, <2>2, Zenon
    <2>4. sent' \in Seq(Bytes) /\ Answers' \in Nat /\ Len(sent') = 10 * Answers'
      BY <1>1, <1>6, <2>1
    <2>5. QED
      BY <1>9, <2>3, <2>4, Zenon DEF AnswersInv
  <1>11. Cardinality(Handed') = h + Unhanded
    <2>1. Handed' = HandedIn(events')
      BY DEF Handed, HandedIn
    <2> HIDE DEF m, e
    <2>2. Handed' = IF WantsAck(m) THEN Handed \cup {e + 1} ELSE Handed
      BY <1>1, <1>3, <1>4, <1>9, <2>1, HandedOneMore DEF e
    <2>3. Cardinality(Handed \cup {e + 1}) = h + 1
      BY <1>4, CountOneMore
    <2>4. Unhanded = IF WantsAck(m) THEN 1 ELSE 0
      BY <1>1 DEF Unhanded, m
    <2>5. CASE WantsAck(m)
      BY <2>2, <2>3, <2>4, <2>5
    <2>6. CASE ~WantsAck(m)
      <3>1. Cardinality(Handed') = h /\ Unhanded = 0
        BY <2>2, <2>4, <2>6
      <3> HIDE DEF h
      <3>2. QED
        BY <1>4, <3>1
    <2>7. QED
      BY <2>5, <2>6
  <1>12. TurnInv'
    <2>1. phase' # "closed" /\ Unanswered' = 0 /\ Unhanded' = 0
      BY <1>1 DEF Unanswered, Unhanded
    <2> HIDE DEF h, k
    <2>2. Cardinality(Asked') = k + 0 /\ Answers' = k /\ k = k + 0 /\ k = Cardinality(Handed')
      BY <1>4, <1>5, <1>6, <1>11 DEF k
    <2>3. QED
      BY <2>1, <2>2 DEF TurnInv
  <1>13. QED
    BY <1>8, <1>10, <1>12 DEF AckInv

(* A step that leaves frames, answers and messages alone.                  *)
LEMMA AckQuiet ==
  ASSUME AckInv, FramesInv', UNCHANGED <<device, sent, frames, events>>,
         \/ phase' = phase
         \/ phase' = "closed"
         \/ phase \in {"read", "decode"} /\ phase' \in {"read", "decode"}
  PROVE  AckInv'
  <1>1. /\ Asked' = Asked /\ Answers' = Answers /\ Handed' = Handed /\ InHand' = InHand
        /\ \A i : AnswerOf(i)' = AnswerOf(i)
        /\ \A i : AskedBy(i)' = AskedBy(i)
    BY Zenon DEF Asked, Answers, Handed, InHand, AnswerOf, AskedBy
  <1>2. \A i : Answer(AskedBy(i))' = Answer(AskedBy(i))
    BY Zenon DEF Answer, AskedBy, Asked
  <1>3. AnswersInv'
    <2>1. sent \in Seq(Bytes) /\ Answers \in Nat /\ Len(sent) = 10 * Answers
          /\ events \in Seq(Told)
          /\ \A i \in Asked : AskedBy(i) <= Answers => Answer(AskedBy(i)) = AnswerOf(i)
      BY DEF AckInv, AnswersInv
    <2>2. \A i \in Asked' : AskedBy(i)' <= Answers' => Answer(AskedBy(i))' = AnswerOf(i)'
      BY <1>1, <1>2, <2>1, Zenon
    <2>3. sent' \in Seq(Bytes) /\ Answers' \in Nat /\ Len(sent') = 10 * Answers' /\ events' \in Seq(Told)
      BY <1>1, <2>1
    <2>4. QED
      BY <2>2, <2>3, Zenon DEF AnswersInv
  <1>4. PhasesInv'
    BY <1>1 DEF AckInv, PhasesInv, Phases
  <1>5. TurnInv'
    <2>1. CASE phase' = phase
      BY <1>1, <2>1 DEF AckInv, TurnInv, Unanswered, Unhanded
    <2>2. CASE phase' = "closed"
      <3>1. AcksAnswerInOrder
        BY AckInvShows
      <3>2. QED
        BY <1>1, <2>2, <3>1 DEF AcksAnswerInOrder, TurnInv
    <2>3. CASE phase \in {"read", "decode"} /\ phase' \in {"read", "decode"}
      <3>1. Unanswered = 0 /\ Unhanded = 0 /\ Unanswered' = 0 /\ Unhanded' = 0
            /\ phase # "closed" /\ phase' # "closed"
        BY <2>3 DEF Unanswered, Unhanded
      <3>2. QED
        BY <1>1, <3>1 DEF AckInv, TurnInv
    <2>4. QED
      BY <2>1, <2>2, <2>3
  <1>6. QED
    BY <1>3, <1>4, <1>5 DEF AckInv

(* The inductive invariant of the connection.                            *)
ConnectionInv == GreedyInv /\ AckInv

LEMMA ConnectionInvInit == Init => ConnectionInv
  BY GreedyInit, AckInit DEF ConnectionInv

LEMMA ConnectionInvStep == ConnectionInv /\ [Next]_vars => ConnectionInv'
  <1> SUFFICES ASSUME ConnectionInv, [Next]_vars PROVE ConnectionInv'
    OBVIOUS
  <1>1. GreedyInv' /\ FramesInv' /\ WireInv /\ AckInv
    BY GreedyStep DEF ConnectionInv, GreedyInv
  <1>2. AckInv'
    <2>1. ASSUME NEW n \in 1..(Len(wire) - received), Read(n) PROVE AckInv'
      <3>1. UNCHANGED <<device, sent, frames, events>>
            /\ phase \in {"read", "decode"} /\ phase' \in {"read", "decode"}
        BY <2>1 DEF Read
      <3>2. QED
        BY <1>1, <3>1, AckQuiet
    <2>2. CASE Wait \/ Reject \/ Close \/ UNCHANGED vars
      <3>1. /\ UNCHANGED <<device, sent, frames, events>>
            /\ \/ phase' = phase \/ phase' = "closed"
               \/ phase \in {"read", "decode"} /\ phase' \in {"read", "decode"}
        BY <2>2 DEF Wait, Reject, Close, Decoding, vars
      <3>2. QED
        BY <1>1, <3>1, AckQuiet
    <2>3. CASE Accept
      BY <1>1, <2>3, AckAccept
    <2>4. CASE Ack
      BY <1>1, <2>4, AckAck
    <2>5. CASE Handle
      BY <1>1, <2>5, AckHandle
    <2>6. QED
      BY <2>1, <2>2, <2>3, <2>4, <2>5 DEF Next
  <1>3. QED
    BY <1>1, <1>2 DEF ConnectionInv

(* Whatever arrives and wherever the reads cut it, the buffer is the     *)
(* stretch of the wire between what is consumed and what was read, the   *)
(* device id is digits, and a frame is in hand whenever one is answered  *)
(* or handled (handle_connection).                                       *)
THEOREM SpecTypeOK == Spec => []TypeOK
  <1>1. ConnectionInv => TypeOK
    <2>1. ConnectionInv => /\ received \in 0..Len(wire) /\ buffer = SubSeq(wire, Consumed + 1, received)
      BY DEF ConnectionInv, GreedyInv, WireInv
    <2>2. ConnectionInv => /\ phase \in Phases /\ (device = NULL \/ device \in Seq(0..15))
                           /\ sent \in Seq(Bytes) /\ (phase \in {"ack", "handle"} => frames # <<>>)
      BY DEF ConnectionInv, AckInv, PhasesInv, AnswersInv
    <2>3. QED
      BY <2>1, <2>2 DEF TypeOK, Phases
  <1>2. QED
    BY <1>1, ConnectionInvInit, ConnectionInvStep, PTL DEF Spec

(* next_frame resynchronises without loss: of all the frames on the      *)
(* consumed stretch exactly those that do not begin inside an earlier    *)
(* one were taken, for every script, every cutting of the stream and     *)
(* every checksum function.                                              *)
THEOREM SpecFramesAreGreedy == Spec => []FramesAreGreedy
  <1>1. ConnectionInv => FramesAreGreedy
    BY DEF ConnectionInv, GreedyInv
  <1>2. QED
    BY <1>1, ConnectionInvInit, ConnectionInvStep, PTL DEF Spec

(* handle_connection answers each login and heartbeat once, in order,    *)
(* with an acknowledgement that decodes to its own protocol number and   *)
(* serial, and never hands one on unanswered.                            *)
THEOREM SpecAcksAnswerInOrder == Spec => []AcksAnswerInOrder
  <1>1. ConnectionInv => AcksAnswerInOrder
    BY AckInvShows DEF ConnectionInv
  <1>2. QED
    BY <1>1, ConnectionInvInit, ConnectionInvStep, PTL DEF Spec

-----------------------------------------------------------------------------
(* Where the items of a script lie on the wire.                          *)

(* Item i is what lies behind e[i - 1] up to e[i].                         *)
ItemEnds(s, e) ==
  /\ e[0] = 0 /\ e[Len(s)] = Len(Concat(s))
  /\ \A i \in 0..Len(s) : e[i] \in Nat
  /\ \A i \in 1..Len(s) : e[i] = e[i - 1] + Len(s[i].bytes)
  /\ \A i \in 1..Len(s) : \A k \in 1..Len(s[i].bytes) : Concat(s)[e[i - 1] + k] = s[i].bytes[k]

(* What was passed through stays in front.                                 *)
Fronts(u, i, j) ==
  /\ Len(u[i]) <= Len(u[j])
  /\ \A p \in 1..Len(u[i]) : u[j][p] = u[i][p]

LEMMA FrontsStay ==
  ASSUME NEW s, Len(s) \in Nat, \A i \in 1..Len(s) : s[i].bytes \in Seq(Bytes),
         NEW u, ConcatSteps(s, u), NEW i \in 0..Len(s)
  PROVE  \A d \in Nat : i + d <= Len(s) => Fronts(u, i, i + d)
  <1> DEFINE S == {d \in Nat : i + d <= Len(s) => Fronts(u, i, i + d)}
  <1>0. i \in Nat /\ u[i] \in Seq(Bytes) /\ Len(u[i]) \in Nat
    BY LenProperties DEF ConcatSteps
  <1>1. 0 \in S
    <2>1. i + 0 = i
      BY <1>0
    <2>2. Fronts(u, i, i)
      BY <1>0 DEF Fronts
    <2>3. QED
      BY <2>1, <2>2
  <1>2. ASSUME NEW d \in Nat, d \in S PROVE d + 1 \in S
    <2>1. SUFFICES ASSUME i + (d + 1) <= Len(s) PROVE Fronts(u, i, i + (d + 1))
      OBVIOUS
    <2>2. PICK j \in Nat : j = i + d
      BY <1>0
    <2>3. PICK m \in Nat : m = j + 1
      OBVIOUS
    <2>4. i + (d + 1) = m /\ m \in 1..Len(s) /\ m - 1 = j /\ j \in 0..Len(s) /\ i + d <= Len(s)
      BY <1>0, <2>1, <2>2, <2>3
    <2>5. Fronts(u, i, j)
      BY <1>2, <2>2, <2>4
    <2>6. u[m] = u[j] \o s[m].bytes /\ u[j] \in Seq(Bytes) /\ s[m].bytes \in Seq(Bytes)
      BY <2>4 DEF ConcatSteps
    <2> DEFINE v == u[j]
               w == s[m].bytes
               x == u[i]
               vw == v \o w
    <2>7. v \in Seq(Bytes) /\ w \in Seq(Bytes) /\ u[m] = v \o w
      BY <2>6
    <2>8. Len(x) <= Len(v) /\ \A p \in 1..Len(x) : v[p] = x[p]
      BY <2>5 DEF Fronts
    <2> HIDE DEF v, w
    <2>9. Len(v) \in Nat /\ Len(w) \in Nat /\ Len(v \o w) = Len(v) + Len(w)
          /\ \A p \in 1..Len(v) + Len(w) : (v \o w)[p] = IF p <= Len(v) THEN v[p] ELSE w[p - Len(v)]
      BY <2>7, ConcatProperties, LenProperties
    <2>10. vw = u[m] /\ Len(x) \in Nat
      BY <1>0, <2>7
    <2>11. Len(v) \in Nat /\ Len(w) \in Nat /\ Len(vw) = Len(v) + Len(w)
          /\ \A p \in 1..Len(v) + Len(w) : vw[p] = IF p <= Len(v) THEN v[p] ELSE w[p - Len(v)]
      BY <2>9
    <2> HIDE DEF vw, x
    <2>12. \A p \in 1..Len(x) : p <= Len(v) /\ p \in 1..Len(v) + Len(w)
      BY <2>8, <2>9, <2>10
    <2>13. Len(x) <= Len(vw) /\ \A p \in 1..Len(x) : vw[p] = x[p]
      BY <2>8, <2>10, <2>11, <2>12
    <2>14. Fronts(u, i, m)
      BY <2>10, <2>13 DEF Fronts, x
    <2>15. QED
      BY <2>4, <2>14
  <1> HIDE DEF S
  <1>3. \A d \in Nat : d \in S
    BY <1>1, <1>2, SetInduction
  <1>4. QED
    BY <1>3 DEF S

LEMMA ItemsHaveEnds ==
  ASSUME NEW s \in Scripts
  PROVE  \E e : ItemEnds(s, e)
  <1>1. Len(s) \in Nat /\ \A i \in 1..Len(s) : s[i].bytes \in Seq(Bytes)
    BY ConnectionAssumption DEF ConnectionAssumption
  <1>2. PICK u : ConcatSteps(s, u)
    BY ConcatPasses
  <1> DEFINE n == Len(s)
             e == [i \in 0..n |-> Len(u[i])]
  <1>3. \A i \in 0..n : e[i] = Len(u[i]) /\ e[i] \in Nat /\ u[i] \in Seq(Bytes)
    BY <1>2, LenProperties DEF ConcatSteps
  <1> HIDE DEF e
  <1>4. 0 \in 0..n /\ n \in 0..n
    BY <1>1
  <1>5. e[0] = 0
    BY <1>2, <1>3, <1>4 DEF ConcatSteps
  <1>6. e[n] = Len(Concat(s))
    BY <1>2, <1>3, <1>4 DEF ConcatSteps
  <1>7. ASSUME NEW i \in 1..n
        PROVE  /\ e[i] = e[i - 1] + Len(s[i].bytes)
               /\ \A k \in 1..Len(s[i].bytes) : Concat(s)[e[i - 1] + k] = s[i].bytes[k]
    <2>1. i - 1 \in 0..n /\ i \in 0..n /\ i \in Nat /\ n - i \in Nat /\ i + (n - i) = n
      BY <1>1
    <2>2. u[i] = u[i - 1] \o s[i].bytes /\ u[i - 1] \in Seq(Bytes) /\ s[i].bytes \in Seq(Bytes)
      BY <1>1, <1>2, <2>1 DEF ConcatSteps
    <2> DEFINE v == u[i - 1]
               w == s[i].bytes
               vw == v \o w
    <2>3. v \in Seq(Bytes) /\ w \in Seq(Bytes) /\ u[i] = v \o w
      BY <2>2
    <2> HIDE DEF v, w
    <2>4. Len(v) \in Nat /\ Len(w) \in Nat /\ Len(vw) = Len(v) + Len(w)
          /\ \A p \in 1..Len(v) + Len(w) : vw[p] = IF p <= Len(v) THEN v[p] ELSE w[p - Len(v)]
      BY <2>3, ConcatProperties, LenProperties
    <2>5. vw = u[i]
      BY <2>3
    <2> HIDE DEF vw
    <2>6. e[i] = Len(v) + Len(w) /\ e[i - 1] = Len(v)
      BY <1>3, <2>1, <2>4, <2>5 DEF v
    <2>7. PICK d \in Nat : d = n - i
      BY <2>1
    <2>8. i + d = n /\ i + d <= n
      BY <1>1, <2>1, <2>7
    <2>9. Fronts(u, i, i + d)
      BY <1>1, <1>2, <2>1, <2>8, FrontsStay
    <2>10. Fronts(u, i, n)
      BY <2>8, <2>9
    <2>11. \A p \in 1..Len(vw) : u[n][p] = vw[p]
      BY <2>5, <2>10 DEF Fronts
    <2>12. u[n] = Concat(s)
      BY <1>2 DEF ConcatSteps
    <2>13. ASSUME NEW k \in 1..Len(w) PROVE Concat(s)[e[i - 1] + k] = w[k]
      <3>1. PICK l \in Nat : l = Len(v)
        BY <2>4
      <3>2. PICK p \in Nat : p = l + k
        BY <2>4, <3>1
      <3>3. p \in 1..Len(v) + Len(w) /\ p \in 1..Len(vw) /\ ~ (p <= Len(v)) /\ p - Len(v) = k
        BY <2>4, <3>1, <3>2
      <3>4. vw[p] = w[k]
        BY <2>4, <3>3
      <3>5. e[i - 1] + k = p
        BY <2>6, <3>1, <3>2
      <3>6. QED
        BY <2>11, <2>12, <3>3, <3>4, <3>5
    <2>14. QED
      BY <2>6, <2>13 DEF w
  <1>8. ItemEnds(s, e)
    BY <1>3, <1>5, <1>6, <1>7 DEF ItemEnds
  <1>9. QED
    BY <1>8

(* The ends grow, and every byte is of an item.                            *)
LEMMA EndsGrow ==
  ASSUME NEW s, Len(s) \in Nat, \A i \in 1..Len(s) : s[i].bytes \in Seq(Bytes),
         NEW e, ItemEnds(s, e), NEW i \in 0..Len(s)
  PROVE  \A j \in 0..Len(s) : i <= j => e[i] <= e[j]
  <1> DEFINE n == Len(s)
             S == {d \in Nat : i + d <= n => e[i] <= e[i + d]}
  <1>0. i \in Nat /\ e[i] \in Nat /\ n \in Nat
    BY DEF ItemEnds
  <1>1. 0 \in S
    <2>1. i + 0 = i /\ e[i] <= e[i]
      BY <1>0
    <2>2. QED
      BY <2>1
  <1>2. ASSUME NEW d \in Nat, d \in S PROVE d + 1 \in S
    <2>1. SUFFICES ASSUME i + (d + 1) <= n PROVE e[i] <= e[i + (d + 1)]
      OBVIOUS
    <2>2. PICK j \in Nat : j = i + d
      BY <1>0
    <2>3. PICK m \in Nat : m = j + 1
      OBVIOUS
    <2>4. i + (d + 1) = m /\ m \in 1..n /\ m - 1 = j /\ j \in 0..n /\ i + d <= n /\ m \in 0..n
      BY <1>0, <2>1, <2>2, <2>3
    <2>5. e[i] <= e[j]
      BY <1>2, <2>2, <2>4
    <2>6. e[m] = e[j] + Len(s[m].bytes) /\ e[j] \in Nat /\ e[m] \in Nat
      BY <2>4 DEF ItemEnds
    <2>7. Len(s[m].bytes) \in Nat
      BY <2>4, LenProperties
    <2>8. PICK a \in Nat, b \in Nat, c \in Nat, l \in Nat :
            a = e[i] /\ b = e[j] /\ c = e[m] /\ l = Len(s[m].bytes)
      BY <1>0, <2>6, <2>7
    <2>9. a <= b /\ c = b + l
      BY <2>5, <2>6, <2>8
    <2>10. a <= c
      BY <2>9
    <2>11. QED
      BY <2>4, <2>8, <2>10
  <1> HIDE DEF S
  <1>3. \A d \in Nat : d \in S
    BY <1>1, <1>2, SetInduction
  <1>4. ASSUME NEW j \in 0..n, i <= j PROVE e[i] <= e[j]
    <2>1. PICK d \in Nat : i + d = j
      <3>1. j - i \in Nat /\ i + (j - i) = j
        BY <1>0, <1>4
      <3>2. QED
        BY <3>1
    <2>2. j <= n
      BY <1>0
    <2>3. QED
      BY <1>3, <2>1, <2>2 DEF S
  <1>5. QED
    BY <1>4

LEMMA ItemOfByte ==
  ASSUME NEW s, Len(s) \in Nat, NEW e, ItemEnds(s, e), NEW p \in Nat, p >= 1, p <= Len(Concat(s))
  PROVE  \E i \in 1..Len(s) : e[i - 1] < p /\ p <= e[i]
  <1> DEFINE n == Len(s)
             T == {i \in 0..n : p <= e[i]}
  <1>1. n \in T /\ T \subseteq Nat
    BY DEF ItemEnds
  <1>2. PICK i \in T : \A j \in T : i <= j
    <2> HIDE DEF T
    <2>1. QED
      BY <1>1, Least
  <1>3. i # 0
    <2>1. ~ (p <= 0)
      OBVIOUS
    <2>2. QED
      BY <1>2, <2>1 DEF ItemEnds
  <1>4. i \in 1..n /\ i - 1 \in 0..n /\ ~ (i <= i - 1)
    BY <1>2, <1>3
  <1>5. e[i - 1] \in Nat /\ ~ (p <= e[i - 1])
    BY <1>2, <1>4 DEF ItemEnds
  <1>6. e[i - 1] < p
    <2>1. PICK c \in Nat : c = e[i - 1]
      BY <1>5
    <2>2. QED
      BY <1>5, <2>1
  <1>7. QED
    BY <1>2, <1>4, <1>6

-----------------------------------------------------------------------------
(* Said items on the wire, for QuietNoiseLosesNothing.                   *)

(* What the wire is, and where its items lie.                              *)
ScriptInv == script \in Scripts /\ wire = Concat(script)
Ends      == CHOOSE e : ItemEnds(script, e)

LEMMA EndsAre ==
  ASSUME ScriptInv
  PROVE  /\ ItemEnds(script, Ends) /\ wire \in Seq(Bytes) /\ Len(script) \in Nat
         /\ \A i \in 1..Len(script) : script[i].bytes \in Seq(Bytes)
         /\ \A i \in Meant : i \in 1..Len(script) /\ IsFrame(script[i].bytes)
  <1>1. script \in Scripts /\ wire = Concat(script)
    BY DEF ScriptInv
  <1>2. ItemEnds(script, Ends)
    BY <1>1, ItemsHaveEnds DEF Ends
  <1>3. wire \in Seq(Bytes)
    BY <1>1, ConcatIsBytes
  <1>4. Len(script) \in Nat /\ \A i \in 1..Len(script) : script[i].bytes \in Seq(Bytes)
    BY <1>1, ConnectionAssumption DEF ConnectionAssumption
  <1>5. \A i \in 1..Len(script) : script[i].says # NULL => IsFrame(script[i].bytes)
    BY <1>1, SaidAssumption DEF SaidAssumption
  <1>6. QED
    BY <1>2, <1>3, <1>4, <1>5 DEF Meant

(* A said item between a and z is a frame on the wire.                     *)
MeantFrame(i, a, z) ==
  /\ a \in Nat /\ z \in Nat /\ a + 10 <= z /\ z <= Len(wire) /\ Len(wire) \in Nat
  /\ PairAt(a + 1) /\ FrameAt(a + 1) /\ z = a + wire[a + 3] + 5 /\ wire[a + 3] \in Nat
  /\ script[i].bytes = SubSeq(wire, a + 1, z)

LEMMA MeantIs ==
  ASSUME ScriptInv, NEW i \in Meant, NEW a \in Nat, NEW z \in Nat, a = Ends[i - 1], z = Ends[i]
  PROVE  MeantFrame(i, a, z)
  <1> DEFINE b == script[i].bytes
             n == Len(b)
             l == Len(script)
  <1>1. /\ ItemEnds(script, Ends) /\ wire \in Seq(Bytes) /\ l \in Nat /\ i \in 1..l
        /\ \A j \in 1..l : script[j].bytes \in Seq(Bytes)
        /\ b \in Seq(Bytes) /\ IsFrame(b)
    BY EndsAre
  <1>2. i - 1 \in 0..l /\ i \in 0..l /\ l \in 0..l /\ i <= l
    BY <1>1
  <1>3. /\ a \in Nat /\ z \in Nat /\ z = a + Len(b) /\ Ends[l] = Len(Concat(script))
        /\ \A k \in 1..Len(b) : Concat(script)[a + k] = b[k]
    BY <1>1, <1>2 DEF ItemEnds
  <1>4. wire = Concat(script)
    BY DEF ScriptInv
  <1>5. z <= Len(wire)
    <2>1. \A j \in 0..l : i <= j => Ends[i] <= Ends[j]
      BY <1>1, <1>2, EndsGrow
    <2>2. Ends[i] <= Ends[l]
      BY <1>2, <2>1, Zenon
    <2>3. QED
      BY <1>3, <1>4, <2>2, Zenon
  <1>6. /\ n >= 10 /\ SubSeq(b, 1, 2) = START_BYTES /\ b[3] = n - 5
        /\ SubSeq(b, n - 1, n) = STOP_BYTES
        /\ Crc(SubSeq(b, 3, n - 4)) = U16(SubSeq(b, n - 3, n - 2))
    BY <1>1, Zenon DEF IsFrame
  <1>7. n \in Nat /\ Len(wire) \in Nat
    BY <1>1, LenProperties
  <1>8. b \in Seq(Bytes) /\ z = a + n /\ \A k \in 1..n : wire[a + k] = b[k]
    BY <1>1, <1>3, <1>4
  <1>b. script[i].bytes = b /\ Len(b) = n
    OBVIOUS
  <1> HIDE DEF b, n, l
  <1> DEFINE lw == Len(wire)
  <1>w. Len(wire) = lw
    OBVIOUS
  <1> HIDE DEF lw
  <1>t. /\ n \in Nat /\ lw \in Nat /\ n >= 10 /\ z = a + n /\ z <= lw
        /\ a \in Nat /\ z \in Nat
    BY <1>5, <1>6, <1>7, <1>8, <1>w
  <1>9. b = SubSeq(wire, a + 1, z)
    <2> DEFINE c == SubSeq(wire, a + 1, z)
    <2>1. c \in Seq(Bytes) /\ Len(c) = z - a /\ \A k \in 1..(z - a) : c[k] = wire[a + k]
      <3>1. a <= z
        BY <1>3, <1>7, <1>8
      <3>2. QED
        BY <1>1, <1>3, <1>5, <3>1, Piece
    <2> HIDE DEF c
    <2>2. z - a = n
      BY <1>3, <1>7, <1>8
    <2>3. c \in Seq(Bytes) /\ Len(c) = n /\ \A k \in 1..n : c[k] = wire[a + k]
      BY <2>1, <2>2, Zenon
    <2>4. \A k \in 1..n : b[k] = c[k]
      BY <1>8, <2>3, Zenon
    <2>5. b = c
      BY <1>b, <1>8, <2>3, <2>4, SeqEqual
    <2>6. QED
      BY <2>5 DEF c
  <1>10. \A c, d \in Nat : c <= d /\ d <= n => SubSeq(b, c + 1, d) = SubSeq(wire, a + c + 1, a + d)
    <2>1. TAKE c, d \in Nat
    <2>2. HAVE c <= d /\ d <= n
    <2>3. a <= z /\ d <= z - a
      BY <1>t, <2>2
    <2>4. wire \in Seq(Bytes) /\ a \in Nat /\ z \in Nat /\ z <= Len(wire) /\ c <= d
      BY <1>1, <1>5, <2>2
    <2>5. SubSeq(SubSeq(wire, a + 1, z), c + 1, d) = SubSeq(wire, a + c + 1, a + d)
      BY ONLY <2>3, <2>4, c \in Nat, d \in Nat, PieceOfPiece
    <2>6. QED
      BY <1>9, <2>5
  <1>11. PICK p, q : p \in Nat /\ q \in Nat /\ p = a + 1 /\ q = p + 1
    <2>1. a + 1 \in Nat /\ a + 1 + 1 \in Nat
      BY ONLY <1>t
    <2>2. QED
      BY <2>1
  <1>12. wire[p + 2] = n - 5 /\ p + 2 = a + 3 /\ n - 5 \in Nat
    <2>1. 3 \in 1..n /\ p + 2 = a + 3 /\ n - 5 \in Nat
      BY ONLY <1>t, <1>11
    <2>2. QED
      BY <1>6, <1>8, <2>1
  <1>13. EndAt(p) = z
    <2>1. p + (n - 5) + 4 = z
      BY ONLY <1>t, <1>11
    <2>2. QED
      BY <1>12, <2>1 DEF EndAt
  <1>14. PairAt(p)
    <2>1. PICK c, d : c \in Nat /\ d \in Nat /\ c = 0 /\ d = 2
      OBVIOUS
    <2>2. c <= d /\ d <= n
      BY ONLY <1>t, <1>11, <2>1
    <2>3. c + 1 = 1 /\ a + c + 1 = p /\ a + d = q
      BY ONLY <1>t, <1>11, <2>1
    <2>p. SubSeq(b, c + 1, d) = SubSeq(wire, a + c + 1, a + d)
      BY <1>10, <2>1, <2>2, Zenon
    <2>4. SubSeq(b, 1, 2) = SubSeq(wire, p, q)
      BY <2>1, <2>3, <2>p, Zenon
    <2>5. q <= lw
      BY ONLY <1>t, <1>11
    <2>6. QED
      BY <1>6, <1>11, <1>w, <2>4, <2>5 DEF PairAt
  <1>15. SubSeq(wire, z - 1, z) = STOP_BYTES
    <2>1. PICK c : c \in Nat /\ c = n - 2
      BY ONLY <1>t
    <2>2. c <= n /\ n <= n /\ c + 1 = n - 1 /\ a + c + 1 = z - 1
      BY ONLY <1>t, <2>1
    <2>3. SubSeq(b, c + 1, n) = SubSeq(wire, a + c + 1, a + n)
      BY <1>7, <1>10, <2>1, <2>2, Zenon
    <2>4. QED
      BY <1>6, <1>8, <2>2, <2>3
  <1>16. SubSeq(b, 3, n - 4) = SubSeq(wire, p + 2, z - 4)
    <2>1. PICK c, d : c \in Nat /\ d \in Nat /\ c = 2 /\ d = n - 4
      BY ONLY <1>t
    <2>2. c <= d /\ d <= n /\ c + 1 = 3 /\ a + c + 1 = p + 2 /\ a + d = z - 4
      BY ONLY <1>t, <1>11, <2>1
    <2>3. SubSeq(b, c + 1, d) = SubSeq(wire, a + c + 1, a + d)
      BY <1>10, <2>1, <2>2, Zenon
    <2>4. QED
      BY <2>1, <2>2, <2>3
  <1>17. SubSeq(b, n - 3, n - 2) = SubSeq(wire, z - 3, z - 2)
    <2>1. PICK c, d : c \in Nat /\ d \in Nat /\ c = n - 4 /\ d = n - 2
      BY ONLY <1>t
    <2>2. c <= d /\ d <= n /\ c + 1 = n - 3 /\ a + c + 1 = z - 3 /\ a + d = z - 2
      BY ONLY <1>t, <1>11, <2>1
    <2>3. SubSeq(b, c + 1, d) = SubSeq(wire, a + c + 1, a + d)
      BY <1>10, <2>1, <2>2, Zenon
    <2>4. QED
      BY <2>1, <2>2, <2>3
  <1>18. FrameAt(p)
    <2>1. p + 4 <= lw /\ n - 5 >= 5
      BY ONLY <1>t, <1>11
    <2>2. wire[p + 2] >= 5 /\ EndAt(p) <= Len(wire)
      BY <1>5, <1>12, <1>13, <2>1
    <2>3. SubSeq(wire, EndAt(p) - 1, EndAt(p)) = STOP_BYTES
      BY <1>13, <1>15
    <2>4. Crc(SubSeq(wire, p + 2, EndAt(p) - 4)) = U16(SubSeq(wire, EndAt(p) - 3, EndAt(p) - 2))
      BY <1>6, <1>13, <1>16, <1>17
    <2>5. QED
      BY <1>14, <1>w, <2>1, <2>2, <2>3, <2>4 DEF FrameAt
  <1>19. a + 10 <= z /\ z = a + (n - 5) + 5
    BY ONLY <1>t
  <1>20. QED
    BY <1>b, <1>3, <1>5, <1>7, <1>9, <1>11, <1>12, <1>14, <1>18, <1>19 DEF MeantFrame

(* Items said one after the other.                                         *)
LEMMA MeantInOrder ==
  ASSUME ScriptInv, NEW i \in Meant, NEW j \in Meant
  PROVE  /\ i < j => Ends[i] <= Ends[j - 1]
         /\ i <= j => Ends[i] <= Ends[j]
         /\ Ends[i] \in Nat /\ Ends[i - 1] \in Nat /\ i \in Nat
  <1> DEFINE l == Len(script)
  <1>1. /\ ItemEnds(script, Ends) /\ l \in Nat /\ i \in 1..l /\ j \in 1..l
        /\ \A k \in 1..l : script[k].bytes \in Seq(Bytes)
    BY EndsAre
  <1>2. i \in 0..l /\ i - 1 \in 0..l /\ j \in 0..l /\ j - 1 \in 0..l /\ (i < j => i <= j - 1) /\ i \in Nat
    BY <1>1
  <1>3. \A k \in 0..l : i <= k => Ends[i] <= Ends[k]
    BY <1>1, <1>2, EndsGrow
  <1>4. \A k \in 0..l : Ends[k] \in Nat
    BY <1>1 DEF ItemEnds
  <1> HIDE DEF l
  <1>5. QED
    BY <1>2, <1>3, <1>4, Zenon

(* No said item lies across what is consumed, and none was left behind     *)
(* whole when the task waits.                                              *)
Done == {i \in Meant : Ends[i] <= Consumed}
ItemsApart   == \A i \in Meant : Ends[i] <= Consumed \/ Consumed <= Ends[i - 1]
NothingWaits == phase = "read" =>
                  \A i \in Meant : Ends[i] <= Consumed \/ received < Ends[i]

(* What is skipped holds no said item.                                     *)
LEMMA SkippedIsNoise ==
  ASSUME ScriptInv, WireInv, ItemsApart, NEW i \in Meant, NEW p \in Nat, p = Place
  PROVE  Ends[i] <= Consumed \/ p <= Ends[i - 1] + 1
  <1> SUFFICES ASSUME ~ (Ends[i] <= Consumed) PROVE p <= Ends[i - 1] + 1
    OBVIOUS
  <1>1. Consumed <= Ends[i - 1]
    BY DEF ItemsApart
  <1>2. PICK a \in Nat, z \in Nat : a = Ends[i - 1] /\ z = Ends[i]
    BY MeantInOrder
  <1>3. FrameAt(a + 1)
    BY <1>2, MeantIs DEF MeantFrame
  <1>4. Consumed \in Nat /\ \A q \in (Consumed + 1)..(Place - 1) : ~FrameAt(q)
    BY SkippedHoldNothing
  <1>5. PICK c \in Nat : c = Consumed
    BY <1>4
  <1>6. c <= a /\ a + 1 \notin (c + 1)..(p - 1)
    BY <1>1, <1>2, <1>3, <1>4, <1>5
  <1>7. p <= a + 1
    BY <1>6
  <1>8. QED
    BY <1>2, <1>7

(* In a script whose noise is quiet a start pair the decoder stops at is   *)
(* the start of a said item.                                               *)
LEMMA PairIsMeant ==
  ASSUME ScriptInv, WireInv, Quiet, ItemsApart, PairAt(Place), NEW p \in Nat, p = Place
  PROVE  \E i \in Meant : p = Ends[i - 1] + 1 /\ ~ (Ends[i] <= Consumed)
  <1> DEFINE n == Len(script)
             w == Len(wire)
  <1>1. /\ ItemEnds(script, Ends) /\ wire \in Seq(Bytes) /\ n \in Nat /\ wire = Concat(script)
        /\ \A k \in 1..n : script[k].bytes \in Seq(Bytes)
    BY EndsAre DEF ScriptInv
  <1>2. PICK c \in Nat : c = Consumed /\ c < p
    <2>1. Consumed \in Nat /\ Skip \in Nat /\ Place = Consumed + Skip + 1
      BY SkippedHoldNothing
    <2>2. PICK c \in Nat, k \in Nat : c = Consumed /\ k = Skip /\ p = c + k + 1
      BY <2>1
    <2>3. c < p
      BY <2>2
    <2>4. QED
      BY <2>2, <2>3
  <1>3. p + 1 <= w /\ SubSeq(wire, p, p + 1) = START_BYTES /\ w \in Nat
    BY <1>1, LenProperties DEF PairAt
  <1>4. p >= 1 /\ p <= w
    BY <1>2, <1>3
  <1>5. wire[p] = 120
    <2>1. PICK a \in Nat, b \in Nat : a + 1 = p /\ b = p + 1
      <3>1. p - 1 \in Nat /\ (p - 1) + 1 = p /\ p + 1 \in Nat
        BY <1>4
      <3>2. QED
        BY <3>1
    <2>2. a <= b /\ b <= w /\ 1 \in 1..(b - a)
      BY <1>3, <2>1
    <2>3. \A k \in 1..(b - a) : SubSeq(wire, a + 1, b)[k] = wire[a + k]
      BY <1>1, <2>2, Piece
    <2>4. SubSeq(wire, a + 1, b)[1] = wire[a + 1]
      BY <2>2, <2>3
    <2>5. SubSeq(wire, a + 1, b) = START_BYTES
      BY <1>3, <2>1
    <2>6. START_BYTES[1] = 120
      BY DEF START_BYTES
    <2>7. QED
      BY <2>1, <2>4, <2>5, <2>6
  <1>6. PICK i \in 1..n : Ends[i - 1] < p /\ p <= Ends[i]
    BY <1>1, <1>4, ItemOfByte
  <1>7. i \in Meant
    <2>1. i - 1 \in 0..n /\ i \in 0..n
      BY <1>1
    <2>2. /\ Ends[i - 1] \in Nat /\ Ends[i] = Ends[i - 1] + Len(script[i].bytes)
          /\ \A k \in 1..Len(script[i].bytes) : wire[Ends[i - 1] + k] = script[i].bytes[k]
      BY <1>1, <2>1 DEF ItemEnds
    <2>3. Len(script[i].bytes) \in Nat
      BY <1>1, LenProperties
    <2>4. PICK a \in Nat, m \in Nat : a = Ends[i - 1] /\ m = Len(script[i].bytes)
      BY <2>2, <2>3
    <2>5. a < p /\ p <= a + m
      BY <1>6, <2>2, <2>4
    <2>6. PICK k \in 1..m : p = a + k
      <3>1. p - a \in 1..m /\ p = a + (p - a)
        BY <2>5
      <3>2. QED
        BY <3>1
    <2>7. script[i].bytes[k] = 120
      BY <1>5, <2>2, <2>4, <2>6
    <2>8. script[i].says # NULL
      BY <2>4, <2>7 DEF Quiet
    <2>9. QED
      BY <2>8 DEF Meant
  <1>8. ~ (Ends[i] <= Consumed) /\ Ends[i - 1] \in Nat
    <2>1. Ends[i] \in Nat /\ Ends[i - 1] \in Nat
      BY <1>7, MeantInOrder
    <2>2. PICK z \in Nat : z = Ends[i]
      BY <2>1
    <2>3. ~ (z <= c)
      BY <1>2, <1>6, <2>2
    <2>4. QED
      BY <1>2, <2>1, <2>2, <2>3
  <1>9. p <= Ends[i - 1] + 1
    BY <1>7, <1>8, SkippedIsNoise
  <1>10. PICK a \in Nat : a = Ends[i - 1]
    BY <1>8
  <1>11. p = a + 1
    BY <1>6, <1>9, <1>10
  <1>12. QED
    BY <1>7, <1>8, <1>10, <1>11

(* Up to the next start pair nothing said is passed.                       *)
LEMMA SkippingKeepsApart ==
  ASSUME ScriptInv, WireInv, ItemsApart, UNCHANGED script, Consumed' = Place - 1
  PROVE  ItemsApart' /\ Done' = Done
  <1>1. Meant' = Meant /\ Ends' = Ends
    BY DEF Meant, Ends
  <1>2. PICK p \in Nat, c \in Nat : p = Place /\ c = Consumed /\ c < p
    <2>1. Consumed \in Nat /\ Skip \in Nat /\ Place = Consumed + Skip + 1
      BY SkippedHoldNothing
    <2>2. PICK c \in Nat, k \in Nat : c = Consumed /\ k = Skip
      BY <2>1
    <2>3. c < c + k + 1 /\ c + k + 1 \in Nat
      BY <2>2
    <2>4. QED
      BY <2>1, <2>2, <2>3
  <1>3. PICK d \in Nat : d = Consumed' /\ d = p - 1 /\ c <= d
    <2>1. p - 1 \in Nat /\ c <= p - 1
      BY <1>2
    <2>2. QED
      BY <1>2, <2>1
  <1>4. ASSUME NEW i \in Meant
        PROVE  /\ Ends[i] <= d \/ d <= Ends[i - 1]
               /\ Ends[i] <= d <=> Ends[i] <= c
    <2>1. PICK a \in Nat, z \in Nat : a = Ends[i - 1] /\ z = Ends[i]
      BY MeantInOrder
    <2>2. a + 10 <= z
      BY <2>1, MeantIs DEF MeantFrame
    <2>3. z <= c \/ p <= a + 1
      BY <1>2, <2>1, SkippedIsNoise
    <2>4. (z <= d \/ d <= a) /\ (z <= d <=> z <= c)
      BY <1>3, <2>2, <2>3
    <2>5. QED
      BY <2>1, <2>4
  <1>5. ItemsApart'
    BY <1>1, <1>3, <1>4, Zenon DEF ItemsApart
  <1>6. Done' = Done
    BY <1>1, <1>2, <1>3, <1>4, Zenon DEF Done
  <1>7. QED
    BY <1>5, <1>6

(* A said item the decoder finds is decoded from its own bytes.            *)
LEMMA FrameAsSaid ==
  ASSUME ScriptInv, WireInv, NEW j \in Meant, NEW p \in Nat, p = Place, p = Ends[j - 1] + 1,
         NEW long \in Nat, 5 <= long, long = wire[p + 2], long + 5 <= Len(Rest)
  PROVE  /\ Ends[j] \in Nat /\ Ends[j] = p + long + 4
         /\ FrameOf(Rest) = FrameOf(script[j].bytes)
  <1>1. PICK a \in Nat, z \in Nat : a = Ends[j - 1] /\ z = Ends[j]
    BY MeantInOrder
  <1>2. MeantFrame(j, a, z)
    BY <1>1, MeantIs
  <1> DEFINE b == script[j].bytes
             l == Len(Rest)
  <1>3. /\ z = a + wire[a + 3] + 5 /\ z <= Len(wire) /\ b = SubSeq(wire, a + 1, z)
    BY <1>2, Zenon DEF MeantFrame
  <1>4. p = a + 1
    BY <1>1
  <1>5. p + 2 = a + 3
    BY <1>4
  <1>6. z = a + long + 5
    BY <1>3, <1>5, Zenon
  <1>r. /\ wire \in Seq(Bytes) /\ l \in Nat /\ Rest \in Seq(Bytes)
        /\ \A i \in 1..l : Rest[i] = wire[p + i - 1]
    BY RestIs, BufferIs DEF WireInv
  <1>e. Len(Rest) = l
    OBVIOUS
  <1> HIDE DEF b, l
  <1>7. /\ a \in Nat /\ z \in Nat /\ p \in Nat /\ l \in Nat /\ p = a + 1 /\ z = a + long + 5
        /\ long \in Nat /\ 5 <= long /\ long + 5 <= l
    BY <1>4, <1>6, <1>r, <1>e
  <1>8. \A i \in 1..(z - a) : b[i] = wire[a + i]
    <2>1. a <= z
      BY ONLY <1>7
    <2>2. QED
      BY <1>3, <1>r, <2>1, Piece
  <1>9. ASSUME NEW i \in 1..(long + 5) PROVE b[i] = Rest[i]
    <2>1. i \in 1..(z - a) /\ i \in 1..l /\ p + i - 1 = a + i
      <3>1. i \in 1..(long + 5)
        OBVIOUS
      <3>2. QED
        BY ONLY <1>7, <3>1
    <2>2. QED
      BY <1>8, <1>r, <2>1
  <1>10. \A c, d \in Nat : c <= d /\ d <= long + 5 => SubSeq(b, c + 1, d) = SubSeq(Rest, c + 1, d)
    <2>1. TAKE c, d \in Nat
    <2>2. HAVE c <= d /\ d <= long + 5
    <2>3. a <= z /\ d <= z - a /\ d <= l /\ p + c = a + c + 1 /\ p + d - 1 = a + d
      BY ONLY <1>7, <2>2, c \in Nat, d \in Nat
    <2>4. wire \in Seq(Bytes) /\ a \in Nat /\ z \in Nat /\ z <= Len(wire) /\ c <= d
      BY <1>3, <1>r, <2>2
    <2>5. SubSeq(SubSeq(wire, a + 1, z), c + 1, d) = SubSeq(wire, a + c + 1, a + d)
      BY ONLY <2>3, <2>4, c \in Nat, d \in Nat, PieceOfPiece
    <2>6. SubSeq(Rest, c + 1, d) = SubSeq(wire, Place + c, Place + d - 1)
      BY <1>e, <2>2, <2>3, PieceOfRest
    <2>7. QED
      BY <1>3, <2>3, <2>5, <2>6, Zenon
  <1>11. b[3] = long /\ Rest[3] = long /\ b[4] = Rest[4]
    <2>1. 3 \in 1..(long + 5) /\ 4 \in 1..(long + 5) /\ 3 \in 1..l /\ p + 3 - 1 = p + 2
      BY ONLY <1>7
    <2>2. Rest[3] = wire[p + 2]
      BY <1>r, <2>1
    <2>3. QED
      BY <1>9, <2>1, <2>2
  <1>12. SubSeq(b, 5, long - 1) = SubSeq(Rest, 5, long - 1)
    <2>1. PICK c, d : c \in Nat /\ d \in Nat /\ c = 4 /\ d = long - 1
      <3>1. 4 \in Nat /\ long - 1 \in Nat
        BY ONLY <1>7
      <3>2. QED
        BY ONLY <3>1
    <2>2. c <= d /\ d <= long + 5 /\ c + 1 = 5
      BY ONLY <1>7, <2>1
    <2>3. SubSeq(b, c + 1, d) = SubSeq(Rest, c + 1, d)
      BY <1>10, <2>1, <2>2, Zenon
    <2>4. QED
      BY <2>1, <2>2, <2>3, Zenon
  <1>13. SubSeq(b, (long - 1) + 1, (long - 1) + 2) = SubSeq(Rest, (long - 1) + 1, (long - 1) + 2)
    <2>1. PICK c, d : c \in Nat /\ d \in Nat /\ c = long - 1 /\ d = (long - 1) + 2
      <3>1. long - 1 \in Nat /\ (long - 1) + 2 \in Nat
        BY ONLY <1>7
      <3>2. QED
        BY ONLY <3>1
    <2>2. c <= d /\ d <= long + 5
      BY ONLY <1>7, <2>1
    <2>3. SubSeq(b, c + 1, d) = SubSeq(Rest, c + 1, d)
      BY <1>10, <2>1, <2>2, Zenon
    <2>4. QED
      BY <2>1, <2>3, Zenon
  <1>14. FrameOf(Rest) = FrameOf(b)
    BY <1>11, <1>12, <1>13, Zenon DEF FrameOf
  <1>15. z = p + long + 4
    BY ONLY <1>7
  <1>16. QED
    BY <1>1, <1>14, <1>15 DEF b

(* The task waits: no whole item is left in the buffer.                    *)
LEMMA WaitLeavesNothing ==
  ASSUME ScriptInv, WireInv, Quiet, ItemsApart, Incomplete(Rest),
         NEW i \in Meant, NEW p \in Nat, p = Place, p <= Ends[i - 1] + 1
  PROVE  received < Ends[i]
  <1> SUFFICES ASSUME ~ (received < Ends[i]) PROVE FALSE
    OBVIOUS
  <1>1. PICK a \in Nat, z \in Nat : a = Ends[i - 1] /\ z = Ends[i]
    BY MeantInOrder
  <1>2. a + 10 <= z
    BY <1>1, MeantIs DEF MeantFrame
  <1>3. PICK l \in Nat, r \in Nat : l = Len(Rest) /\ r = received /\ l = r - p + 1
    BY RestIs, BufferIs, LenProperties
  <1>4. z <= r /\ l >= 10
    BY <1>1, <1>2, <1>3
  <1>5. PairAt(Place)
    <2>1. Len(Rest) >= 2
      BY <1>3, <1>4
    <2>2. QED
      BY <2>1, PairOfRest
  <1>6. PICK j \in Meant : p = Ends[j - 1] + 1
    BY <1>5, PairIsMeant
  <1>7. PICK aj \in Nat, zj \in Nat : aj = Ends[j - 1] /\ zj = Ends[j]
    BY MeantInOrder
  <1>8. MeantFrame(j, aj, zj)
    BY <1>7, MeantIs
  <1>9. PICK long \in Nat : long = wire[aj + 3]
    BY <1>8, Zenon DEF MeantFrame
  <1>10. zj = aj + long + 5
    BY <1>8, <1>9, Zenon DEF MeantFrame
  <1>11. p = aj + 1
    BY <1>6, <1>7
  <1>12. zj <= z
    <2>1. i \in Nat /\ j \in Nat
      BY MeantInOrder
    <2>2. CASE i < j
      <3>1. z <= aj
        BY <1>1, <1>7, <2>2, MeantInOrder
      <3>2. QED
        BY <1>1, <1>2, <1>11, <3>1
    <2>3. CASE ~ (i < j)
      <3>1. j <= i
        BY <2>1, <2>3
      <3>2. QED
        BY <1>1, <1>7, <3>1, MeantInOrder
    <2>4. QED
      BY <2>2, <2>3
  <1>13. Rest[3] = long
    <2>1. 3 \in 1..l /\ p + 3 - 1 = aj + 3
      BY <1>4, <1>11
    <2>2. \A k \in 1..l : Rest[k] = wire[p + k - 1]
      BY <1>3, RestIs
    <2>3. QED
      BY <1>9, <2>1, <2>2
  <1>14. ~ (l < 5) /\ ~ (l < long + 5)
    BY <1>3, <1>4, <1>10, <1>11, <1>12
  <1>15. QED
    BY <1>3, <1>13, <1>14 DEF Incomplete, TotalLen

-----------------------------------------------------------------------------
(* The steps of the task, for QuietNoiseLosesNothing.                    *)

(* The frames taken are those of the said items that are done, in order;   *)
(* the messages handed on are what the frames decode to, but for the one   *)
(* in hand.                                                                *)
FramesTold ==
  /\ Len(frames) = Cardinality(Done)
  /\ \A i \in Done : /\ MeantUpTo(i) \in 1..Len(frames)
                     /\ frames[MeantUpTo(i)].frame = FrameOf(script[i].bytes)

InTurn == IF phase \in {"ack", "handle"} THEN 1 ELSE 0

EventsTold ==
  /\ Len(events) <= Len(frames)
  /\ phase # "closed" => Len(events) + InTurn = Len(frames)
  /\ \A k \in 1..Len(events) : events[k] = DecodeMessage(frames[k].frame)

(* One frame more.                                                         *)
LEMMA AcceptedIs ==
  ASSUME FramesInv, FramesInv', Accept
  PROVE  /\ Found.kind = "frame" /\ phase = "decode"
         /\ phase' = PhaseFor(DecodeMessage(Found.frame))
         /\ Len(frames) \in Nat /\ Len(frames') = Len(frames) + 1
         /\ frames'[Len(frames) + 1].frame = Found.frame
         /\ \A k \in 1..Len(frames) : frames'[k] = frames[k]
  <1> DEFINE n == Len(frames)
  <1>1. Found.kind = "frame" /\ phase = "decode" /\ phase' = PhaseFor(DecodeMessage(Found.frame))
    BY DEF Accept, Decoding, Found
  <1>2. PICK size, at : frames' = Append(frames, [frame |-> Found.frame, len |-> size, at |-> at])
    BY DEF Accept, Found
  <1> DEFINE new == [frame |-> Found.frame, len |-> size, at |-> at]
  <1>3. frames \in Seq(Taken) /\ frames' \in Seq(Taken)
    BY DEF FramesInv
  <1>4. n \in Nat
    BY <1>3, LenProperties
  <1>5. new \in Taken /\ new.frame = Found.frame
    <2>1. Len(frames') = n + 1 /\ frames'[n + 1] = new
      BY <1>2, <1>3, <1>4
    <2>2. n + 1 \in 1..Len(frames')
      BY <1>4, <2>1
    <2>3. QED
      BY <1>3, <2>1, <2>2, ElementOfSeq
  <1>6. /\ Len(frames') = n + 1 /\ frames'[n + 1] = new
        /\ \A k \in 1..n : frames'[k] = frames[k]
    BY <1>2, <1>3, <1>5, AppendProperties
  <1>7. QED
    BY <1>1, <1>4, <1>5, <1>6

(* Of a set of places those up to one are those before it, and itself.     *)
OneMore(M, j, D) ==
  D \cup {j} = UpTo(M, j) /\ Cardinality(UpTo(M, j)) = Cardinality(D) + 1

LEMMA UpToOneMore ==
  ASSUME NEW n \in Nat, NEW M \in SUBSET (1..n), NEW j \in M, NEW D, D = {i \in M : i < j}
  PROVE  OneMore(M, j, D)
  <1>1. \A i \in M : i \in Nat
    OBVIOUS
  <1>2. \A i \in M : i <= j <=> i < j \/ i = j
    BY <1>1
  <1>3. D \cup {j} = UpTo(M, j)
    BY <1>2 DEF UpTo
  <1>4. j \notin D /\ D \in SUBSET (1..n)
    <2>1. ~ (j < j)
      BY <1>1
    <2>2. QED
      BY <2>1, Zenon
  <1>5. IsFiniteSet(D) /\ Cardinality(D) \in Nat
    BY <1>4, CountUpTo
  <1>6. Cardinality(D \cup {j}) = Cardinality(D) + 1
    BY <1>4, <1>5, FS_AddElement
  <1>7. QED
    BY <1>3, <1>6 DEF OneMore

(* Before the item the decoder finds, those that are done.                 *)
LEMMA DoneIsBefore ==
  ASSUME ScriptInv, WireInv, ItemsApart, NEW j \in Meant, NEW p \in Nat, p = Place,
         p = Ends[j - 1] + 1, ~ (Ends[j] <= Consumed)
  PROVE  Done = {i \in Meant : i < j}
  <1>1. Consumed \in Nat
    BY BufferIs
  <1>2. ASSUME NEW i \in Meant PROVE Ends[i] <= Consumed <=> i < j
    <2>1. PICK a \in Nat, z \in Nat : a = Ends[i - 1] /\ z = Ends[i]
      BY MeantInOrder
    <2>2. PICK aj \in Nat, zj \in Nat : aj = Ends[j - 1] /\ zj = Ends[j]
      BY MeantInOrder
    <2>3. a + 10 <= z
      BY <2>1, MeantIs DEF MeantFrame
    <2>4. PICK c \in Nat : c = Consumed
      BY <1>1
    <2>5. z <= c \/ p <= a + 1
      BY <2>1, <2>4, SkippedIsNoise
    <2>6. p = aj + 1 /\ ~ (zj <= c)
      BY <2>2, <2>4
    <2>7. i \in Nat /\ j \in Nat
      BY MeantInOrder
    <2>8. CASE i < j
      <3>1. z <= aj
        BY <2>1, <2>2, <2>8, MeantInOrder
      <3>2. z <= c
        BY <2>3, <2>5, <2>6, <3>1
      <3>3. QED
        BY <2>1, <2>4, <2>8, <3>2
    <2>9. CASE ~ (i < j)
      <3>1. j <= i
        BY <2>7, <2>9
      <3>2. zj <= z
        BY <2>1, <2>2, <3>1, MeantInOrder
      <3>3. ~ (z <= c)
        BY <2>6, <3>2
      <3>4. QED
        BY <2>1, <2>4, <2>9, <3>3
    <2>10. QED
      BY <2>8, <2>9
  <1>3. QED
    BY <1>2, Zenon DEF Done

(* The task takes the next said item.                                      *)
LEMMA TakesTheNext ==
  ASSUME ScriptInv, GreedyInv, FramesInv', Quiet, ItemsApart, FramesTold, Accept
  PROVE  /\ ItemsApart' /\ FramesTold'
         /\ \E j \in Meant : Found.frame = FrameOf(script[j].bytes)
  <1>0. WireInv /\ FramesInv
    BY DEF GreedyInv
  <1>1. /\ Found.kind = "frame" /\ buffer' = Drop(buffer, Found.taken)
        /\ wire' = wire /\ received' = received /\ script' = script
    BY DEF Accept, Decoding, Take, Found
  <1>2. PICK long : FoundFrame(long)
    BY <1>0, <1>1, FoundIs DEF FoundNothing, FoundError
  <1>3. /\ long \in Nat /\ 5 <= long /\ long = wire[Place + 2] /\ Found.taken = Skip + (long + 5)
        /\ Skip + (long + 5) <= Len(buffer) /\ PairAt(Place) /\ Found.frame = FrameOf(Rest)
    <2>1. \A x \in 5..255 : x \in Nat /\ 5 <= x
      OBVIOUS
    <2>2. QED
      BY <1>2, <2>1 DEF FoundFrame, FrameAt
  <1>4. PICK p \in Nat, c \in Nat, k \in Nat, l \in Nat :
          /\ p = Place /\ c = Consumed /\ k = Skip /\ l = Len(buffer)
          /\ Len(Rest) = l - k /\ p = c + k + 1
    <2>1. /\ Place \in Nat /\ Consumed \in Nat /\ Skip \in Nat /\ Len(buffer) \in Nat
          /\ Len(Rest) = Len(buffer) - Skip
      BY <1>0, RestIs, BufferIs
    <2>2. QED
      BY <2>1 DEF Place
  <1>5. PICK j \in Meant : p = Ends[j - 1] + 1 /\ ~ (Ends[j] <= Consumed)
    BY <1>0, <1>3, <1>4, PairIsMeant
  <1>6. long + 5 <= Len(Rest)
    BY <1>3, <1>4
  <1>7. Ends[j] \in Nat /\ Ends[j] = p + long + 4 /\ FrameOf(Rest) = FrameOf(script[j].bytes)
    <2>1. long = wire[p + 2]
      BY <1>3, <1>4
    <2>2. QED
      BY <1>0, <1>3, <1>4, <1>5, <1>6, <2>1, FrameAsSaid
  <1>8. Consumed' = Ends[j]
    <2>1. PICK m \in Nat : m = k + (long + 5)
      BY <1>3, <1>4
    <2>2. m <= Len(buffer) /\ Found.taken = m
      BY <1>3, <1>4, <2>1
    <2>3. Consumed' = Consumed + m
      BY <1>0, <1>1, <2>2, DropIs
    <2>4. c + m = p + long + 4
      <3>1. p = c + k + 1 /\ m = k + (long + 5) /\ long \in Nat
        BY <1>3, <1>4, <2>1
      <3>2. QED
        BY ONLY <3>1, p \in Nat, c \in Nat, k \in Nat, m \in Nat
    <2>5. QED
      BY <1>4, <1>7, <2>3, <2>4
  <1>9. Meant' = Meant /\ Ends' = Ends
    BY <1>1 DEF Meant, Ends
  <1>10. ItemsApart'
    <2>1. ASSUME NEW i \in Meant PROVE Ends[i] <= Ends[j] \/ Ends[j] <= Ends[i - 1]
      <3>1. i \in Nat /\ j \in Nat
        BY MeantInOrder
      <3>2. i <= j \/ j < i
        BY <3>1
      <3>3. QED
        BY <3>2, MeantInOrder
    <2>2. QED
      BY <1>8, <1>9, <2>1, Zenon DEF ItemsApart
  <1>11. Done = {i \in Meant : i < j}
    BY <1>0, <1>4, <1>5, DoneIsBefore
  <1>12. Done' = UpTo(Meant, j)
    <2>1. ASSUME NEW i \in Meant PROVE Ends[i] <= Ends[j] <=> i <= j
      <3>1. i \in Nat /\ j \in Nat
        BY MeantInOrder
      <3>2. PICK z \in Nat, zj \in Nat, a \in Nat : z = Ends[i] /\ zj = Ends[j] /\ a = Ends[i - 1]
        BY MeantInOrder
      <3>3. a + 10 <= z
        BY <3>2, MeantIs DEF MeantFrame
      <3>4. CASE i <= j
        BY <3>4, MeantInOrder
      <3>5. CASE ~ (i <= j)
        <4>1. j < i
          BY <3>1, <3>5
        <4>2. zj <= a
          BY <3>2, <4>1, MeantInOrder
        <4>3. ~ (z <= zj)
          BY <3>3, <4>2
        <4>4. QED
          BY <3>2, <3>5, <4>3
      <3>6. QED
        BY <3>4, <3>5
    <2>2. QED
      BY <1>8, <1>9, <2>1, Zenon DEF Done, UpTo
  <1> DEFINE n == Len(frames)
  <1>13. PICK x \in Nat : x = Len(script)
    BY EndsAre
  <1>14. Meant \in SUBSET (1..x)
    BY <1>13 DEF Meant
  <1>15. /\ Done \cup {j} = UpTo(Meant, j)
         /\ Cardinality(UpTo(Meant, j)) = Cardinality(Done) + 1
    <2>1. OneMore(Meant, j, Done)
      BY <1>11, <1>13, <1>14, UpToOneMore
    <2>2. QED
      BY <2>1 DEF OneMore
  <1>16. /\ n \in Nat /\ Len(frames') = n + 1 /\ frames'[n + 1].frame = Found.frame
         /\ \A i \in 1..n : frames'[i] = frames[i]
    BY <1>0, AcceptedIs
  <1>17. \A i : MeantUpTo(i)' = MeantUpTo(i)
    BY <1>9 DEF MeantUpTo
  <1>18. /\ n = Cardinality(Done)
         /\ \A i \in Done : /\ MeantUpTo(i) \in 1..n
                            /\ frames[MeantUpTo(i)].frame = FrameOf(script[i].bytes)
    BY DEF FramesTold
  <1>19. MeantUpTo(j) = n + 1
    BY <1>15, <1>18 DEF MeantUpTo, UpTo
  <1>20. Len(frames') = Cardinality(Done')
    BY <1>12, <1>15, <1>16, <1>18
  <1>21. Done' = Done \cup {j}
    BY <1>12, <1>15
  <1> HIDE DEF n
  <1>22. \A y \in 1..n : y \in 1..(n + 1)
    BY <1>16
  <1>23. n + 1 \in 1..(n + 1)
    BY <1>16
  <1>24. ASSUME NEW i \in Done'
         PROVE  /\ MeantUpTo(i) \in 1..(n + 1)
                /\ frames'[MeantUpTo(i)].frame = FrameOf(script[i].bytes)
    <2>1. CASE i \in Done
      BY <1>16, <1>18, <1>22, <2>1
    <2>2. CASE i = j
      BY <1>3, <1>7, <1>16, <1>19, <1>23, <2>2
    <2>3. QED
      BY <1>21, <2>1, <2>2
  <1>25. FramesTold'
    BY <1>1, <1>16, <1>17, <1>20, <1>24, Zenon DEF FramesTold
  <1>26. QED
    BY <1>3, <1>7, <1>10, <1>25

(* The said items say what their frames decode to.                         *)
Understood ==
  \A s \in Scripts : \A i \in 1..Len(s) : s[i].says # NULL =>
    s[i].says.kind # "ignored" /\ DecodeMessage(FrameOf(s[i].bytes)) = s[i].says

(* Quiet noise: no said item is cut or left behind, the frames are theirs  *)
(* and the messages are the frames'.                                       *)
QuietInv  == ItemsApart /\ NothingWaits /\ FramesTold /\ EventsTold
ArriveInv == ConnectionInv /\ ScriptInv /\ (Quiet => QuietInv)

LEMMA ArriveInit == Init => ArriveInv
  <1> SUFFICES ASSUME Init PROVE ArriveInv
    OBVIOUS
  <1>1. ConnectionInv
    BY ConnectionInvInit
  <1>2. /\ ScriptInv /\ received = 0 /\ buffer = <<>> /\ frames = <<>> /\ events = <<>>
        /\ phase = "read"
    BY DEF Init, ScriptInv
  <1>3. Len(buffer) = 0 /\ Len(frames) = 0 /\ Len(events) = 0
    BY <1>2
  <1>4. Consumed = 0
    <2>1. Consumed = 0 - 0
      BY <1>2, <1>3, Zenon DEF Consumed
    <2>2. QED
      BY <2>1
  <1>5. ASSUME NEW i \in Meant PROVE 0 <= Ends[i - 1] /\ 0 < Ends[i] /\ ~ (Ends[i] <= 0)
    <2>1. PICK a \in Nat, z \in Nat : a = Ends[i - 1] /\ z = Ends[i]
      BY <1>2, MeantInOrder
    <2>2. a + 10 <= z
      BY <1>2, <2>1, MeantIs DEF MeantFrame
    <2>3. 0 <= a /\ 0 < z /\ ~ (z <= 0)
      BY <2>2
    <2>4. QED
      BY <2>1, <2>3
  <1>6. ItemsApart /\ NothingWaits /\ Done = {}
    BY <1>2, <1>4, <1>5, Zenon DEF ItemsApart, NothingWaits, Done
  <1>7. FramesTold
    <2>1. Cardinality(Done) = 0
      BY <1>6, FS_EmptySet
    <2>2. QED
      BY <1>3, <1>6, <2>1 DEF FramesTold
  <1>8. EventsTold
    BY <1>2, <1>3 DEF EventsTold, InTurn
  <1>9. QED
    BY <1>1, <1>2, <1>6, <1>7, <1>8 DEF ArriveInv, QuietInv

(* Nothing consumed, no frame taken.                                       *)
LEMMA NothingTaken ==
  ASSUME ItemsApart, FramesTold, UNCHANGED <<script, frames>>, Consumed' = Consumed
  PROVE  ItemsApart' /\ FramesTold'
  <1>1. Meant' = Meant /\ Ends' = Ends /\ \A i : MeantUpTo(i)' = MeantUpTo(i)
    BY DEF Meant, Ends, MeantUpTo
  <1>2. Done' = Done /\ ItemsApart'
    BY <1>1, Zenon DEF Done, ItemsApart
  <1>3. FramesTold'
    BY <1>1, <1>2, Zenon DEF FramesTold
  <1>4. QED
    BY <1>2, <1>3

(* No message handed on.                                                   *)
LEMMA NothingTold ==
  ASSUME EventsTold, UNCHANGED <<frames, events>>,
         phase' = "closed" \/ (phase # "closed" /\ InTurn' = InTurn)
  PROVE  EventsTold'
  BY DEF EventsTold

(* Whatever was received: reads, answers and the end of the stream.        *)
LEMMA ArriveRead ==
  ASSUME ArriveInv, Quiet, NEW n \in 1..(Len(wire) - received), Read(n)
  PROVE  QuietInv'
  <1>1. WireInv /\ QuietInv
    BY DEF ArriveInv, ConnectionInv, GreedyInv
  <1>2. Consumed' = Consumed
    BY <1>1, ReadIs
  <1>3. UNCHANGED <<script, frames, events>> /\ phase = "read" /\ phase' = "decode"
    BY DEF Read
  <1>4. ItemsApart' /\ FramesTold'
    BY <1>1, <1>2, <1>3, NothingTaken DEF QuietInv
  <1>5. EventsTold'
    BY <1>1, <1>3, NothingTold DEF QuietInv, InTurn
  <1>6. NothingWaits'
    BY <1>3 DEF NothingWaits
  <1>7. QED
    BY <1>4, <1>5, <1>6 DEF QuietInv

LEMMA ArriveQuiet ==
  ASSUME ArriveInv, Quiet, UNCHANGED <<script, wire, received, buffer, frames>>,
         \/ UNCHANGED <<phase, events>>
         \/ phase' = "closed" /\ events' = events
         \/ Ack
         \/ Handle
  PROVE  QuietInv'
  <1>1. QuietInv
    BY DEF ArriveInv
  <1>2. Consumed' = Consumed
    BY DEF Consumed
  <1>3. ItemsApart' /\ FramesTold'
    BY <1>1, <1>2, NothingTaken DEF QuietInv
  <1>4. NothingWaits'
    <2>1. Meant' = Meant /\ Ends' = Ends
      BY DEF Meant, Ends
    <2>2. phase' = "read" => phase = "read"
      BY DEF Ack, Handle
    <2>3. QED
      BY <1>1, <1>2, <2>1, <2>2, Zenon DEF QuietInv, NothingWaits
  <1>5. EventsTold'
    <2>1. CASE Handle
      <3> DEFINE m == DecodeMessage(InHand)
                 e == Len(events)
      <3>1. /\ phase = "handle" /\ phase' = "decode" /\ events' = Append(events, m)
        BY <2>1 DEF Handle
      <3>2. frames # <<>> /\ FramesInv /\ events \in Seq(Told)
        BY <3>1 DEF ArriveInv, ConnectionInv, AckInv, PhasesInv, AnswersInv
      <3>3. m \in Told /\ InHand = frames[Len(frames)].frame
        BY <3>2, InHandIs DEF Told
      <3>4. e \in Nat /\ e + 1 = Len(frames) /\ \A k \in 1..e : events[k] = DecodeMessage(frames[k].frame)
        BY <1>1, <3>1, <3>2, LenProperties DEF QuietInv, EventsTold, InTurn
      <3>5. Len(events') = e + 1 /\ events'[e + 1] = m /\ \A k \in 1..e : events'[k] = events[k]
        BY <3>1, <3>2, <3>3, AppendProperties
      <3> HIDE DEF e
      <3>6. ASSUME NEW k \in 1..(e + 1) PROVE events'[k] = DecodeMessage(frames[k].frame)
        <4>1. CASE k \in 1..e
          BY <3>4, <3>5, <4>1
        <4>2. CASE k = e + 1
          BY <3>3, <3>4, <3>5, <4>2
        <4>3. k \in 1..e \/ k = e + 1
          BY <3>4
        <4>4. QED
          BY <4>1, <4>2, <4>3
      <3>7. InTurn' = 0 /\ (e + 1) + 0 = Len(frames) /\ e + 1 <= Len(frames)
        BY <3>1, <3>4 DEF InTurn
      <3>8. QED
        BY <3>5, <3>6, <3>7 DEF EventsTold
    <2>2. CASE Ack
      <3>1. UNCHANGED <<frames, events>> /\ phase = "ack" /\ phase' = "handle"
        BY <2>2 DEF Ack
      <3>2. InTurn' = InTurn /\ phase # "closed"
        BY <3>1 DEF InTurn
      <3>3. QED
        BY <1>1, <3>1, <3>2, NothingTold DEF QuietInv
    <2>3. CASE UNCHANGED <<phase, events>>
      BY <1>1, <2>3 DEF QuietInv, EventsTold, InTurn
    <2>4. CASE phase' = "closed" /\ events' = events
      BY <1>1, <2>4, NothingTold DEF QuietInv
    <2>5. QED
      BY <2>1, <2>2, <2>3, <2>4
  <1>6. QED
    BY <1>3, <1>4, <1>5 DEF QuietInv

(* The task goes back to the socket.                                       *)
LEMMA ArriveWait ==
  ASSUME ArriveInv, Quiet, Wait
  PROVE  QuietInv'
  <1>1. WireInv /\ QuietInv /\ ScriptInv
    BY DEF ArriveInv, ConnectionInv, GreedyInv
  <1>2. /\ Found.kind = "none" /\ buffer' = Drop(buffer, Found.taken) /\ phase = "decode"
        /\ phase' = "read" /\ UNCHANGED <<script, wire, received, frames, events>>
    BY DEF Wait, Decoding, Take, Found
  <1>3. Found.taken = Skip /\ Incomplete(Rest)
    BY <1>1, <1>2, FoundIs DEF FoundNothing, FoundError, FoundFrame
  <1>4. PICK p \in Nat, c \in Nat, k \in Nat :
          p = Place /\ c = Consumed /\ k = Skip /\ k <= Len(buffer) /\ p = c + k + 1
    BY <1>1, SkippedHoldNothing, RestIs
  <1>5. Consumed' = Place - 1
    <2>1. Consumed' = c + k
      BY <1>1, <1>2, <1>3, <1>4, DropIs
    <2>2. c + k = p - 1
      BY <1>4
    <2>3. QED
      BY <1>4, <2>1, <2>2
  <1>6. ItemsApart' /\ Done' = Done
    BY <1>1, <1>2, <1>5, SkippingKeepsApart DEF QuietInv
  <1>7. Meant' = Meant /\ Ends' = Ends /\ \A i : MeantUpTo(i)' = MeantUpTo(i)
    BY <1>2 DEF Meant, Ends, MeantUpTo
  <1>8. FramesTold'
    BY <1>1, <1>2, <1>6, <1>7, Zenon DEF FramesTold, QuietInv
  <1>9. EventsTold'
    BY <1>1, <1>2, NothingTold DEF QuietInv, InTurn
  <1>10. ASSUME NEW i \in Meant PROVE Ends[i] <= Consumed' \/ received < Ends[i]
    <2>1. CASE Ends[i] <= Consumed
      <3>1. i \in Done'
        BY <1>6, <2>1 DEF Done
      <3>2. QED
        BY <1>7, <3>1 DEF Done
    <2>2. CASE ~ (Ends[i] <= Consumed)
      <3>1. p <= Ends[i - 1] + 1
        BY <1>1, <1>4, <2>2, SkippedIsNoise DEF QuietInv
      <3>2. QED
        BY <1>1, <1>3, <1>4, <3>1, WaitLeavesNothing DEF QuietInv
    <2>3. QED
      BY <2>1, <2>2
  <1>11. NothingWaits'
    BY <1>2, <1>7, <1>10, Zenon DEF NothingWaits
  <1>12. QED
    BY <1>6, <1>8, <1>9, <1>11 DEF QuietInv

(* In quiet noise nothing is rejected.                                     *)
LEMMA ArriveReject ==
  ASSUME ArriveInv, Quiet, Reject
  PROVE  FALSE
  <1>1. WireInv /\ ItemsApart /\ ScriptInv
    BY DEF ArriveInv, ConnectionInv, GreedyInv, QuietInv
  <1>2. Found.kind = "error"
    BY DEF Reject, Decoding, Found
  <1>3. PairAt(Place) /\ ~FrameAt(Place)
    BY <1>1, <1>2, FoundIs DEF FoundNothing, FoundError, FoundFrame
  <1>4. PICK p \in Nat : p = Place
    BY <1>1, RestIs
  <1>5. PICK j \in Meant : p = Ends[j - 1] + 1
    BY <1>1, <1>3, <1>4, PairIsMeant
  <1>6. PICK a \in Nat, z \in Nat : a = Ends[j - 1] /\ z = Ends[j]
    BY <1>1, MeantInOrder
  <1>7. FrameAt(a + 1)
    BY <1>1, <1>6, MeantIs DEF MeantFrame
  <1>8. QED
    BY <1>3, <1>4, <1>5, <1>6, <1>7

(* A frame is taken, and is handed on.                                     *)
LEMMA ArriveAccept ==
  ASSUME Understood, ArriveInv, FramesInv', Quiet, Accept
  PROVE  QuietInv'
  <1>1. GreedyInv /\ FramesInv /\ ItemsApart /\ FramesTold /\ EventsTold /\ ScriptInv
    BY DEF ArriveInv, ConnectionInv, GreedyInv, QuietInv
  <1>2. /\ ItemsApart' /\ FramesTold'
        /\ \E j \in Meant : Found.frame = FrameOf(script[j].bytes)
    BY <1>1, TakesTheNext
  <1>3. PICK j \in Meant : Found.frame = FrameOf(script[j].bytes)
    BY <1>2
  <1> DEFINE m == DecodeMessage(Found.frame)
             n == Len(frames)
  <1>4. /\ phase = "decode" /\ phase' = PhaseFor(m)
        /\ n \in Nat /\ Len(frames') = n + 1 /\ \A k \in 1..n : frames'[k] = frames[k]
    BY <1>1, AcceptedIs
  <1>5. events' = events
    BY DEF Accept
  <1>6. m.kind # "ignored" /\ m.kind \in Kinds
    <2>1. j \in 1..Len(script) /\ script[j].says # NULL /\ script \in Scripts
      BY <1>1 DEF Meant, ScriptInv
    <2>2. script[j].says.kind # "ignored" /\ DecodeMessage(FrameOf(script[j].bytes)) = script[j].says
      BY <2>1 DEF Understood
    <2>3. m.kind \in Kinds
      BY MessageKinds
    <2>4. QED
      BY <1>3, <2>2, <2>3
  <1> HIDE DEF m
  <1>7. PhaseFor(m) \in {"ack", "handle"}
    BY <1>6 DEF PhaseFor, WantsAck, Kinds
  <1>8. n = Len(events) + 0 /\ Len(events) <= n /\ \A k \in 1..Len(events) : events[k] = DecodeMessage(frames[k].frame)
    BY <1>1, <1>4 DEF EventsTold, InTurn
  <1>9. InTurn' = 1 /\ phase' # "closed" /\ phase' # "read"
    BY <1>4, <1>7 DEF InTurn
  <1>10. Len(events) \in Nat
    BY LenProperties DEF ArriveInv, ConnectionInv, AckInv, AnswersInv
  <1>11. PICK e \in Nat : e = Len(events)
    BY <1>10
  <1> HIDE DEF n
  <1>12. e = n
    BY <1>4, <1>8, <1>11
  <1>13. e <= n + 1 /\ e + 1 = n + 1
    BY <1>4, <1>12
  <1>14. EventsTold'
    BY <1>4, <1>5, <1>8, <1>9, <1>11, <1>12, <1>13 DEF EventsTold
  <1>15. NothingWaits'
    BY <1>9 DEF NothingWaits
  <1>16. QED
    BY <1>2, <1>14, <1>15 DEF QuietInv

LEMMA ArriveStep == Understood /\ ArriveInv /\ [Next]_vars => ArriveInv'
  <1> SUFFICES ASSUME Understood, ArriveInv, [Next]_vars PROVE ArriveInv'
    OBVIOUS
  <1>1. ConnectionInv' /\ FramesInv'
    BY ConnectionInvStep DEF ArriveInv, ConnectionInv, GreedyInv
  <1>2. UNCHANGED <<script, wire>>
    BY DEF Next, Read, Wait, Reject, Accept, Ack, Handle, Close, vars
  <1>3. ScriptInv' /\ Quiet' = Quiet
    BY <1>2 DEF ArriveInv, ScriptInv, Quiet
  <1>4. ASSUME Quiet PROVE QuietInv'
    <2>1. ASSUME NEW n \in 1..(Len(wire) - received), Read(n) PROVE QuietInv'
      BY <1>4, <2>1, ArriveRead
    <2>2. CASE Wait
      BY <1>4, <2>2, ArriveWait
    <2>3. CASE Reject
      BY <1>4, <2>3, ArriveReject
    <2>4. CASE Accept
      BY <1>1, <1>4, <2>4, ArriveAccept
    <2>5. CASE Ack \/ Handle \/ Close \/ UNCHANGED vars
      <3>1. UNCHANGED <<script, wire, received, buffer, frames>>
        BY <2>5 DEF Ack, Handle, Close, vars
      <3>2. \/ UNCHANGED <<phase, events>> \/ (phase' = "closed" /\ events' = events) \/ Ack \/ Handle
        BY <2>5 DEF Close, vars
      <3>3. QED
        BY <1>4, <3>1, <3>2, ArriveQuiet
    <2>6. QED
      BY <2>1, <2>2, <2>3, <2>4, <2>5 DEF Next
  <1>5. QED
    BY <1>1, <1>3, <1>4 DEF ArriveInv

LEMMA ArriveShows == Understood /\ ArriveInv => QuietNoiseLosesNothing
  <1> SUFFICES ASSUME Understood, ArriveInv, Quiet, phase = "read", received = Len(wire)
               PROVE  /\ Len(events) = Cardinality(Meant)
                      /\ \A i \in Meant : events[MeantUpTo(i)] = script[i].says
    BY DEF QuietNoiseLosesNothing
  <1>1. QuietInv /\ ScriptInv
    BY DEF ArriveInv
  <1>2. Done = Meant
    <2>1. ASSUME NEW i \in Meant PROVE Ends[i] <= Consumed
      <3>1. PICK a \in Nat, z \in Nat : a = Ends[i - 1] /\ z = Ends[i]
        BY <1>1, MeantInOrder
      <3>2. z <= Len(wire) /\ Len(wire) \in Nat
        BY <1>1, <3>1, MeantIs DEF MeantFrame
      <3>3. PICK w \in Nat : w = Len(wire)
        BY <3>2
      <3>4. ~ (w < z)
        BY <3>2, <3>3
      <3>5. ~ (received < Ends[i])
        BY <3>1, <3>3, <3>4
      <3>6. QED
        BY <1>1, <3>5 DEF QuietInv, NothingWaits
    <2>2. QED
      BY <2>1 DEF Done
  <1>3. Len(events) \in Nat
    BY LenProperties DEF ArriveInv, ConnectionInv, AckInv, AnswersInv
  <1>4. Len(events) + 0 = Len(frames)
    BY <1>1 DEF QuietInv, EventsTold, InTurn
  <1>5. Len(events) = Len(frames)
    BY <1>3, <1>4
  <1>6. Len(events) = Cardinality(Meant)
    BY <1>1, <1>2, <1>5 DEF QuietInv, FramesTold
  <1>7. ASSUME NEW i \in Meant PROVE events[MeantUpTo(i)] = script[i].says
    <2>1. MeantUpTo(i) \in 1..Len(events) /\ frames[MeantUpTo(i)].frame = FrameOf(script[i].bytes)
      BY <1>1, <1>2, <1>5 DEF QuietInv, FramesTold
    <2>2. events[MeantUpTo(i)] = DecodeMessage(FrameOf(script[i].bytes))
      BY <1>1, <2>1 DEF QuietInv, EventsTold
    <2>3. i \in 1..Len(script) /\ script[i].says # NULL /\ script \in Scripts
      BY <1>1 DEF Meant, ScriptInv
    <2>4. QED
      BY <2>2, <2>3 DEF Understood
  <1>8. QED
    BY <1>6, <1>7

(* When the noise holds no start byte, handle_connection hands on every  *)
(* message the device meant, as it meant it and in its order, however    *)
(* the reads cut the stream: for all scripts whose said items are frames *)
(* (SaidAssumption) that decode_message understands (Understood).        *)
THEOREM SpecQuietNoiseLosesNothing ==
  ASSUME Understood
  PROVE  Spec => []QuietNoiseLosesNothing
  <1>1. ArriveInv /\ [Next]_vars => ArriveInv'
    BY ArriveStep
  <1>2. ArriveInv => QuietNoiseLosesNothing
    BY ArriveShows
  <1>3. QED
    BY <1>1, <1>2, ArriveInit, PTL DEF Spec

=============================================================================
