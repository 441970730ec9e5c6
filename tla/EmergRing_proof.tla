--------------------------- MODULE EmergRing_proof ---------------------------
(***************************************************************************)
(* The ring of emergency messages stays intact for any size and whatever   *)
(* the two threads do in between: RingIntact follows from RingInv, which   *)
(* every step of the ring preserves.                                       *)
(***************************************************************************)
EXTENDS EmergRing, TLAPS

RingType ==
    /\ msgs \in [Slots -> Emerg \cup {NULL}]
    /\ read_index \in Slots
    /\ write_index \in Slots
    /\ overruns \in Nat
    /\ pushing \in {"none", "overrun", "stored"}
    /\ popping \in Emerg \cup {NULL}
    /\ kept \in Seq(Emerg)
    /\ owed \in Nat

\* The slot n places behind r.
Place(r, n) == IF r + n <= RingSize THEN r + n ELSE r + n - (RingSize + 1)

\* RingIntact without remainders, and what the other side can rely on while a
\* push or a pop is under way: a message that is being stored has its place.
RingInv ==
    /\ RingType
    /\ Len(kept) <= RingSize
    /\ write_index = Place(read_index, Len(kept))
    /\ \A i \in 1 .. Len(kept) : msgs[Place(read_index, i - 1)] = kept[i]
    /\ popping # NULL => Len(kept) > 0 /\ popping = kept[1]
    /\ owed = Len(kept) + overruns + (IF pushing = "none" THEN 0 ELSE 1)
    /\ pushing = "stored" => Len(kept) < RingSize /\ msgs[write_index] \in Emerg

-----------------------------------------------------------------------------
\* The remainder of a number below twice the divisor.
LEMMA Remainder ==
    ASSUME NEW a \in Nat, NEW n \in Nat \ {0}, a < 2 * n
    PROVE  a % n = IF a < n THEN a ELSE a - n
  OBVIOUS

LEMMA PlaceRemainder ==
    ASSUME NEW r \in Slots, NEW k \in 0 .. RingSize, NEW a, a = r + k
    PROVE  a % (RingSize + 1) = Place(r, k) /\ Place(r, k) \in Slots
<1> DEFINE n == RingSize + 1
<1>1. /\ RingSize \in Nat /\ r \in Nat /\ r <= RingSize
      /\ k \in Nat /\ k <= RingSize
  BY RingAssumption DEF Slots
<1>2. a \in Nat /\ n \in Nat \ {0} /\ a < 2 * n
  BY <1>1
<1>3. /\ a < n => Place(r, k) = a
      /\ ~(a < n) => Place(r, k) = a - n
      /\ Place(r, k) \in Slots
  BY <1>1 DEF Place, Slots
<1> HIDE DEF n
<1>4. a % n = IF a < n THEN a ELSE a - n
  BY ONLY <1>2, Remainder
<1> QED
  BY <1>2, <1>3, <1>4 DEF n

LEMMA AfterPlace ==
    ASSUME NEW r \in Slots
    PROVE  After(r) = Place(r, 1) /\ After(r) \in Slots
<1>1. CASE RingSize = 0
  BY <1>1, Remainder DEF After, Place, Slots
<1>2. CASE RingSize # 0
  BY <1>2, PlaceRemainder, RingAssumption DEF After
<1> QED
  BY <1>1, <1>2

LEMMA SlotPlace ==
    ASSUME read_index \in Slots, NEW i \in 1 .. RingSize + 1
    PROVE  Slot(i) = Place(read_index, i - 1)
<1> i - 1 \in 0 .. RingSize /\ read_index + i - 1 = read_index + (i - 1)
  BY RingAssumption DEF Slots
<1> QED
  BY PlaceRemainder DEF Slot

\* RingInv is what was to be shown, and more.
THEOREM RingInvIntact == RingInv => RingIntact
<1> SUFFICES ASSUME RingInv PROVE RingIntact
  OBVIOUS
<1> RingSize \in Nat
  BY RingAssumption
<1>1. Len(kept) \in Nat /\ Len(kept) <= RingSize
  BY DEF RingInv, RingType
<1>2. Slot(Len(kept) + 1) = write_index
  BY <1>1, SlotPlace DEF RingInv, RingType
<1>3. ASSUME NEW i \in 1 .. Len(kept) PROVE msgs[Slot(i)] = kept[i]
  BY <1>1, SlotPlace DEF RingInv, RingType
<1>4. popping # NULL => kept # <<>> /\ popping = Head(kept)
  BY DEF RingInv, RingType
<1> QED
  BY <1>1, <1>2, <1>3, <1>4 DEF RingIntact, RingInv

\* ec_coe_emerg_ring_init() gives an intact ring.
THEOREM RingInitInv == RingInit => RingInv
  BY RingAssumption DEF RingInit, RingInv, RingType, Slots, Place

LEMMA PlaceFacts ==
    ASSUME NEW r \in Slots, NEW n \in 0 .. RingSize
    PROVE  /\ Place(r, n) \in Slots
           /\ Place(r, 0) = r
           /\ After(Place(r, n)) = Place(r, n + 1)
           /\ Place(After(r), n) = Place(r, n + 1)
           /\ Place(r, n) = r => n = 0
           /\ \A k \in 0 .. RingSize : Place(r, n) = Place(r, k) => n = k
           /\ Place(r, RingSize + 1) = r
<1> RingSize \in Nat /\ r \in Nat /\ r <= RingSize
  BY RingAssumption DEF Slots
<1>1. Place(r, n) \in Slots
  BY DEF Place, Slots
<1> QED
  BY <1>1, AfterPlace DEF Place, Slots

-----------------------------------------------------------------------------
LEMMA PushBeginInv ==
    ASSUME RingInv, NEW m \in Emerg, PushBegin(m)
    PROVE  RingInv'
<1> USE DEF RingInv, RingType
<1> RingSize \in Nat
  BY RingAssumption
<1> DEFINE n == Len(kept)
<1>1. n \in 0 .. RingSize /\ write_index = Place(read_index, n)
  OBVIOUS
<1>2. After(write_index) = Place(read_index, n + 1)
  BY <1>1, PlaceFacts
<1>3. CASE After(write_index) = read_index
  BY <1>3 DEF PushBegin
<1>4. CASE After(write_index) # read_index
  <2>1. n < RingSize
    BY <1>1, <1>2, <1>4, PlaceFacts
  <2>2. msgs' = [msgs EXCEPT ![write_index] = m] /\ pushing' = "stored"
    BY <1>4 DEF PushBegin
  <2>3. \A i \in 1 .. n : Place(read_index, i - 1) # write_index
    BY <1>1, <2>1, PlaceFacts
  <2>4. \A i \in 1 .. n : Place(read_index, i - 1) \in Slots
    BY <1>1, <2>1, PlaceFacts
  <2>5. \A i \in 1 .. n : msgs'[Place(read_index, i - 1)] = kept[i]
    BY <2>2, <2>3, <2>4
  <2> QED
    BY <2>1, <2>2, <2>5 DEF PushBegin
<1> QED
  BY <1>3, <1>4

LEMMA PushEndInv ==
    ASSUME RingInv, PushEnd
    PROVE  RingInv'
<1> USE DEF RingInv, RingType
<1> RingSize \in Nat
  BY RingAssumption
<1>1. CASE pushing = "overrun"
  BY <1>1 DEF PushEnd
<1>2. CASE pushing = "stored"
  <2> DEFINE n == Len(kept)
  <2>1. n \in 0 .. RingSize /\ n < RingSize /\ write_index = Place(read_index, n)
    BY <1>2
  <2>2. write_index' = Place(read_index, n + 1) /\ write_index' \in Slots
    BY <1>2, <2>1, PlaceFacts, AfterPlace DEF PushEnd
  <2>3. kept' = Append(kept, msgs[write_index]) /\ msgs[write_index] \in Emerg
    BY <1>2 DEF PushEnd
  <2>4. /\ kept' \in Seq(Emerg) /\ Len(kept') = n + 1
        /\ kept'[n + 1] = msgs[write_index]
        /\ \A i \in 1 .. n : kept'[i] = kept[i]
    BY <2>3
  <2>5. UNCHANGED <<msgs, read_index, popping, overruns, owed>> /\ pushing' = "none"
    BY <1>2 DEF PushEnd
  <2>6. ASSUME NEW i \in 1 .. n + 1
        PROVE  msgs[Place(read_index, i - 1)] = kept'[i]
    BY <2>1, <2>4
  <2>7. \A i \in 1 .. Len(kept') : msgs'[Place(read_index', i - 1)] = kept'[i]
    BY <2>4, <2>5, <2>6
  <2> QED
    BY <1>2, <2>1, <2>2, <2>4, <2>5, <2>7
<1> QED
  BY <1>1, <1>2 DEF PushEnd

LEMMA PopBeginInv ==
    ASSUME RingInv, PopBegin
    PROVE  RingInv'
<1> USE DEF RingInv, RingType
<1> RingSize \in Nat
  BY RingAssumption
<1>1. Len(kept) > 0
  BY PlaceFacts DEF PopBegin
<1>2. msgs[read_index] = kept[1]
  BY <1>1, PlaceFacts
<1> QED
  BY <1>1, <1>2 DEF PopBegin

LEMMA PopEndInv ==
    ASSUME RingInv, PopEnd
    PROVE  RingInv'
<1> USE DEF RingInv, RingType
<1> RingSize \in Nat
  BY RingAssumption
<1> DEFINE n == Len(kept)
<1>1. n \in 1 .. RingSize /\ write_index = Place(read_index, n)
  BY DEF PopEnd
<1>2. read_index' = After(read_index) /\ read_index' \in Slots
  BY AfterPlace DEF PopEnd
<1>3. /\ kept' \in Seq(Emerg) /\ Len(kept') = n - 1
      /\ \A i \in 1 .. n - 1 : kept'[i] = kept[i + 1]
  BY <1>1 DEF PopEnd
<1>4. write_index = Place(read_index', n - 1)
  BY <1>1, <1>2, PlaceFacts
<1>5. ASSUME NEW i \in 1 .. n - 1
      PROVE  msgs[Place(read_index', i - 1)] = kept'[i]
  <2>1. Place(read_index', i - 1) = Place(read_index, i)
    BY <1>1, <1>2, PlaceFacts
  <2>2. i + 1 \in 1 .. n /\ (i + 1) - 1 = i
    BY <1>1
  <2>3. msgs[Place(read_index, (i + 1) - 1)] = kept[i + 1]
    BY <2>2
  <2> QED
    BY <1>3, <2>1, <2>2, <2>3
<1> QED
  BY <1>1, <1>2, <1>3, <1>4, <1>5 DEF PopEnd

LEMMA ClearRingInv ==
    ASSUME RingInv, ClearRing
    PROVE  RingInv'
<1> USE DEF RingInv, RingType
<1> RingSize \in Nat
  BY RingAssumption
<1>1. read_index' = write_index /\ kept' = <<>> /\ write_index \in Slots
  BY DEF ClearRing
<1>2. write_index' = Place(read_index', Len(kept'))
  BY <1>1, PlaceFacts DEF ClearRing
<1> QED
  BY <1>1, <1>2 DEF ClearRing

\* Every step of either thread keeps the ring intact.
THEOREM RingNextInv == RingInv /\ [RingNext]_ringvars => RingInv'
<1> SUFFICES ASSUME RingInv, [RingNext]_ringvars PROVE RingInv'
  OBVIOUS
<1>1. ASSUME NEW m \in Emerg, PushBegin(m) PROVE RingInv'
  BY <1>1, PushBeginInv
<1>2. CASE PushEnd
  BY <1>2, PushEndInv
<1>3. CASE PopBegin
  BY <1>3, PopBeginInv
<1>4. CASE PopEnd
  BY <1>4, PopEndInv
<1>5. CASE ClearRing
  BY <1>5, ClearRingInv
<1>6. CASE UNCHANGED ringvars
  BY <1>6 DEF ringvars, RingInv, RingType
<1> QED
  BY <1>1, <1>2, <1>3, <1>4, <1>5, <1>6 DEF RingNext
=============================================================================
