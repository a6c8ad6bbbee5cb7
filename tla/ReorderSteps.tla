--------------------------- MODULE ReorderSteps ----------------------------
(***************************************************************************)
(* Every step of the reorder buffer keeps its types (Shapes) and what the  *)
(* originator sends (Sender), and the steps that leave the slots and the   *)
(* head alone keep the order of the frames.  Released says what emptying   *)
(* slots and moving the head does to it.                                   *)
(***************************************************************************)
EXTENDS ReorderInv, TLAPS

(* Some of the steps below need more than the five seconds of the default. *)
USE SMTT(30)

----------------------------------------------------------------------------
(* Arithmetic of the ring.                                                 *)

(* A remainder is at least zero and below the divisor.                     *)
LEMMA ModRange ==
    ASSUME NEW b \in Nat \ {0}, NEW x \in Int PROVE x % b \in 0 .. b - 1
  OBVIOUS

(* The remainder of a number that is less than the divisor away from zero. *)
LEMMA ModSmall ==
    ASSUME NEW b \in Nat \ {0}, NEW x \in Int, -b <= x, x < b
    PROVE  x % b = IF x >= 0 THEN x ELSE x + b
  OBVIOUS

(* The divisor itself leaves no remainder.                                 *)
LEMMA ModSelf ==
    ASSUME NEW b \in Nat \ {0} PROVE b % b = 0
  OBVIOUS

(* Both moduli are positive.                                               *)
LEMMA Positive ==
    /\ BufSize \in Nat \ {0} /\ SN_MODULO \in Nat \ {0}
    /\ U16 \in Nat \ {0} /\ BufSize < U16
<1>1. U16 \in Nat \ {0}
  BY DEF U16
<1> QED  BY <1>1, ReorderAssumption, Zenon

(* Any integer modulo the buffer size is a slot.                           *)
LEMMA ModSlots ==
    ASSUME NEW x \in Int PROVE x % BufSize \in Slots
  BY Positive, ModRange, Zenon DEF Slots

(* Any integer modulo SN_MODULO is a sequence number.                      *)
LEMMA ModSn ==
    ASSUME NEW x \in Int PROVE x % SN_MODULO \in 0 .. SN_MODULO - 1
  BY Positive, ModRange, Zenon

(* How far slot s lies after slot i.                                       *)
LEMMA Distance ==
    ASSUME NEW s \in Slots, NEW i \in Slots
    PROVE  (s - i) % BufSize = IF s >= i THEN s - i ELSE s - i + BufSize
<1>1. s - i \in Int /\ -BufSize <= s - i /\ s - i < BufSize
  BY Positive DEF Slots
<1>2. s - i >= 0 <=> s >= i
  BY DEF Slots
<1> QED  BY <1>1, <1>2, Positive, ModSmall, Zenon

(* The slot after slot k.                                                  *)
LEMMA Successor ==
    ASSUME NEW k \in Slots
    PROVE  /\ Next1(k) \in Slots
           /\ Next1(k) = IF k + 1 = BufSize THEN 0 ELSE k + 1
<1>1. k \in Int /\ k + 1 \in Int /\ 0 <= k /\ k + 1 <= BufSize
  BY Positive DEF Slots
<1> USE <1>1
<1>2. CASE k + 1 = BufSize
  BY <1>2, Positive, ModSelf DEF Next1, Slots
<1>3. CASE k + 1 # BufSize
  <2>1. (k + 1) % BufSize = k + 1
    <3>1. k + 1 < BufSize /\ -BufSize <= k + 1 /\ k + 1 >= 0
      BY <1>3, Positive
    <3> QED  BY <3>1, Positive
  <2> QED  BY <1>3, <2>1, Positive DEF Next1, Slots
<1> QED  BY <1>2, <1>3, Zenon

(* Moving the end of a stretch by one slot adds at most that slot.         *)
LEMMA BetweenStep ==
    ASSUME NEW i \in Slots, NEW k \in Slots
    PROVE  /\ Between(i, i) = {}
           /\ Between(i, Next1(k)) \subseteq Between(i, k) \cup {k}
<1>1. Between(i, i) = {}
  <2> SUFFICES ASSUME NEW s \in Slots, (s - i) % BufSize < (i - i) % BufSize
               PROVE  FALSE
    BY Zenon DEF Between
  <2>1. (i - i) % BufSize = 0
    BY Distance, Positive DEF Slots
  <2>2. (s - i) % BufSize \in Nat
    BY Distance, Positive DEF Slots
  <2> QED  BY <2>1, <2>2
<1>2. ASSUME NEW s \in Between(i, Next1(k)), s # k
      PROVE  s \in Between(i, k)
  <2>1. /\ s \in Slots /\ Next1(k) \in Slots
        /\ (s - i) % BufSize < (Next1(k) - i) % BufSize
    BY <1>2, Successor, Zenon DEF Between
  <2> USE <2>1
  <2>2. (s - i) % BufSize < (k - i) % BufSize
    <3>1. (s - i) % BufSize = IF s >= i THEN s - i ELSE s - i + BufSize
      BY Distance, Zenon
    <3>2. (k - i) % BufSize = IF k >= i THEN k - i ELSE k - i + BufSize
      BY Distance, Zenon
    <3>3. (Next1(k) - i) % BufSize =
             IF Next1(k) >= i THEN Next1(k) - i ELSE Next1(k) - i + BufSize
      BY Distance, Zenon
    <3>4. Next1(k) = IF k + 1 = BufSize THEN 0 ELSE k + 1
      BY Successor, Zenon
    <3> HIDE DEF Next1
    <3> DEFINE ds == (s - i) % BufSize
               dk == (k - i) % BufSize
               dn == (Next1(k) - i) % BufSize
               n == Next1(k)
    <3>5. /\ ds = IF s >= i THEN s - i ELSE s - i + BufSize
          /\ dk = IF k >= i THEN k - i ELSE k - i + BufSize
          /\ dn = IF n >= i THEN n - i ELSE n - i + BufSize
          /\ n = IF k + 1 = BufSize THEN 0 ELSE k + 1
          /\ ds < dn
      BY <3>1, <3>2, <3>3, <3>4, Zenon
    <3>6. s \in Int /\ i \in Int /\ k \in Int /\ BufSize \in Int
          /\ 0 <= s /\ s < BufSize /\ 0 <= i /\ i < BufSize /\ 0 <= k /\ k < BufSize
      BY Positive DEF Slots
    <3> HIDE DEF ds, dk, dn, n
    <3>7. ds < dk
      BY <1>2, <3>5, <3>6
    <3> QED  BY <3>7, Zenon DEF ds, dk
  <2> QED  BY <2>2, Zenon DEF Between
<1> QED  BY <1>1, <1>2, Zenon

----------------------------------------------------------------------------
(* Lists of frames.                                                        *)

(* An entry of a list is one of the frames it is a list of.                *)
LEMMA ListElement ==
    ASSUME NEW S, NEW seq \in Seq(S), NEW n \in 1 .. Len(seq) PROVE seq[n] \in S
  OBVIOUS

(* The empty list is the one without entries.                              *)
LEMMA ListEmpty ==
    ASSUME NEW S
    PROVE  /\ <<>> \in Seq(S) /\ Len(<<>>) = 0
           /\ \A seq \in Seq(S) : seq # <<>> => Len(seq) \in Nat \ {0}
  OBVIOUS

(* A list is a function on 1 up to its length.                             *)
LEMMA ListLength ==
    ASSUME NEW S, NEW seq \in Seq(S)
    PROVE  Len(seq) \in Nat /\ seq \in [1 .. Len(seq) -> S] /\ DOMAIN seq = 1 .. Len(seq)
  OBVIOUS

(* __skb_queue_tail() adds one frame behind the others.                    *)
LEMMA ListAppend ==
    ASSUME NEW S, NEW seq \in Seq(S), NEW elt \in S
    PROVE  /\ Append(seq, elt) \in Seq(S) /\ Len(Append(seq, elt)) = Len(seq) + 1
           /\ \A i \in 1 .. Len(seq) : Append(seq, elt)[i] = seq[i]
           /\ Append(seq, elt)[Len(seq) + 1] = elt
  OBVIOUS

(* A list behind another one, as frames are passed up.                     *)
LEMMA ListJoin ==
    ASSUME NEW S, NEW s \in Seq(S), NEW t \in Seq(S)
    PROVE  /\ s \o t \in Seq(S) /\ Len(s \o t) = Len(s) + Len(t)
           /\ \A i \in 1 .. Len(s) + Len(t) :
                 (s \o t)[i] = IF i <= Len(s) THEN s[i] ELSE t[i - Len(s)]
  OBVIOUS

(* Passing up nothing changes nothing.                                     *)
LEMMA ListJoinEmpty ==
    ASSUME NEW S, NEW seq \in Seq(S) PROVE seq \o <<>> = seq /\ <<>> \o seq = seq
  OBVIOUS

(* One lemma for each part of the invariant, one case for each action.     *)
(* Facts about the operators.                                              *)
(* A sequence number, and the sum of two, is an integer.                   *)
LEMMA SnInt ==
    ASSUME Types
    PROVE  /\ Sn(skb.n) \in Int /\ Slot \in Slots
           /\ Index(head_seq_num) \in Slots
           /\ ieee80211_sn_inc(head_seq_num) \in Int
           /\ ieee80211_sn_add(ieee80211_sn_inc(head_seq_num), skipped) \in Int
<1>1. skb.n \in Int /\ Offset \in Int /\ skb.n + Offset \in Int
  BY ReorderAssumption DEF Types, Skb, Frames
<1>2. Sn(skb.n) \in Int
  BY <1>1, ModSn DEF Sn
<1>3. head_seq_num \in Int /\ head_seq_num + 1 \in Int
  BY DEF Types
<1>4. ieee80211_sn_inc(head_seq_num) \in Int
  BY <1>3, ModSn DEF ieee80211_sn_inc, ieee80211_sn_add
<1>5. ieee80211_sn_inc(head_seq_num) + skipped \in Int
  BY <1>4 DEF Types
<1>6. ieee80211_sn_add(ieee80211_sn_inc(head_seq_num), skipped) \in Int
  BY <1>5, ModSn DEF ieee80211_sn_add
<1> QED  BY <1>2, <1>3, <1>4, <1>6, ModSlots, Zenon DEF Slot, Index

----------------------------------------------------------------------------
(* Sequence numbers stand for MPDUs.                                       *)

(* a and b differ by a multiple of m.                                      *)
Same(m, a, b) == \E k \in Int : a = b + k * m

(* Congruence is kept by sums and differences.                             *)
LEMMA SameSum ==
    ASSUME NEW m \in Int, NEW a \in Int, NEW b \in Int, NEW c \in Int,
           NEW d \in Int,
           Same(m, a, b), Same(m, c, d)
    PROVE  Same(m, a + c, b + d) /\ Same(m, a - c, b - d) /\ Same(m, b, a)
<1>1. PICK k \in Int : a = b + k * m
  BY Zenon DEF Same
<1>2. PICK l \in Int : c = d + l * m
  BY Zenon DEF Same
<1>3. /\ a + c = (b + d) + (k + l) * m
      /\ a - c = (b - d) + (k - l) * m
      /\ b = a + (-k) * m
  BY <1>1, <1>2
<1>4. k + l \in Int /\ k - l \in Int /\ -k \in Int
  OBVIOUS
<1> QED  BY <1>3, <1>4, Zenon DEF Same

(* Every number is congruent to itself.                                    *)
LEMMA SameRefl ==
    ASSUME NEW m \in Int, NEW a \in Int PROVE Same(m, a, a)
<1>1. 0 \in Int /\ a = a + 0 * m
  OBVIOUS
<1> QED  BY <1>1, Zenon DEF Same

(* Congruent numbers less than the modulus apart are equal.                *)
LEMMA SameSmall ==
    ASSUME NEW m \in Nat \ {0}, NEW a \in Int, NEW b \in Int, Same(m, a, b),
           a - b < m, b - a < m
    PROVE  a = b
<1>1. PICK k \in Int : a = b + k * m
  BY Zenon DEF Same
<1>2. CASE k >= 1
  <2>1. k * m >= m
    BY <1>2
  <2> QED  BY <1>1, <2>1
<1>3. CASE k <= -1
  <2>1. (-k) * m >= m
    BY <1>3
  <2>2. (-k) * m = -(k * m)
    OBVIOUS
  <2> QED  BY <1>1, <2>1, <2>2
<1>4. CASE k = 0
  BY <1>1, <1>4
<1> QED  BY <1>2, <1>3, <1>4

(* Division with remainder.                                                *)
LEMMA DivMod ==
    ASSUME NEW a \in Int, NEW n \in Nat \ {0}
    PROVE  a \div n \in Int /\ a = n * (a \div n) + (a % n)
  OBVIOUS

(* A number is congruent to its remainder.                                 *)
LEMMA SameMod ==
    ASSUME NEW m \in Nat \ {0}, NEW a \in Int PROVE Same(m, a % m, a)
<1> DEFINE q == a \div m
           r == a % m
<1>1. q \in Int /\ r \in Int /\ a = m * q + r
  BY DivMod, ModRange
<1> HIDE DEF q, r
<1>2. r = a + (-q) * m /\ -q \in Int
  BY <1>1
<1>3. Same(m, r, a)
  BY <1>2, Zenon DEF Same
<1> QED  BY <1>3, Zenon DEF r

(* Two numbers are congruent when they leave the same remainder.           *)
LEMMA SameModEqual ==
    ASSUME NEW m \in Nat \ {0}, NEW a \in Int, NEW b \in Int
    PROVE  Same(m, a, b) <=> a % m = b % m
<1> DEFINE x == a % m
           y == b % m
<1>1. x \in 0 .. m - 1 /\ y \in 0 .. m - 1
  BY ModRange, Zenon
<1>2. Same(m, x, a) /\ Same(m, y, b)
  BY SameMod, Zenon
<1> HIDE DEF x, y
<1>3. x \in Int /\ y \in Int /\ x - y < m /\ y - x < m /\ m \in Int
  BY <1>1
<1> USE <1>3
<1>4. ASSUME Same(m, a, b) PROVE x = y
  <2>1. Same(m, a - b, 0)
    <3>1. Same(m, b, b)
      BY SameRefl, Zenon
    <3>2. Same(m, a - b, b - b)
      BY <1>4, <3>1, SameSum, Zenon
    <3> QED  BY <3>2
  <2>2. Same(m, x - y, a - b)
    BY <1>2, SameSum, Zenon
  <2>3. PICK k \in Int : x - y = (a - b) + k * m
    BY <2>2, Zenon DEF Same
  <2>4. PICK l \in Int : a - b = 0 + l * m
    BY <2>1, Zenon DEF Same
  <2>5. x = y + (k + l) * m /\ k + l \in Int
    BY <2>3, <2>4
  <2>6. Same(m, x, y)
    BY <2>5, Zenon DEF Same
  <2> QED  BY <2>6, SameSmall, Zenon
<1>5. ASSUME x = y PROVE Same(m, a, b)
  <2>1. PICK k \in Int : x = a + k * m
    BY <1>2, Zenon DEF Same
  <2>2. PICK l \in Int : x = b + l * m
    BY <1>2, <1>5, Zenon DEF Same
  <2>3. a = b + (l - k) * m /\ l - k \in Int
    BY <2>1, <2>2
  <2> QED  BY <2>3, Zenon DEF Same
<1> QED  BY <1>4, <1>5, Zenon DEF x, y

(* The two halves of the range.                                            *)
LEMMA Halves ==
    /\ Half \in Int /\ SN_MODULO \div 2 \in Int
    /\ SN_MODULO \div 2 <= Half /\ Half <= SN_MODULO \div 2 + 1
    /\ Half + SN_MODULO \div 2 = SN_MODULO
  BY Positive DEF Half

(* Sn(a) is a sequence number, congruent to a + Offset.                    *)
LEMMA SnFacts ==
    ASSUME NEW a \in Int
    PROVE  Sn(a) \in 0 .. SN_MODULO - 1 /\ Sn(a) \in Int /\ Same(SN_MODULO, Sn(a), a + Offset)
<1> DEFINE c == a + Offset
<1>1. c \in Int
  BY ReorderAssumption
<1> HIDE DEF c
<1>2. c % SN_MODULO \in 0 .. SN_MODULO - 1
  BY <1>1, ModSn, Zenon
<1>3. Same(SN_MODULO, c % SN_MODULO, c)
  BY <1>1, SameMod, Positive, Zenon
<1> QED  BY <1>2, <1>3 DEF Sn, c

(* What is congruent to a + Offset has Sn(a) as its remainder.             *)
LEMMA SnOf ==
    ASSUME NEW a \in Int, NEW x \in Int, Same(SN_MODULO, x, a + Offset)
    PROVE  x % SN_MODULO = Sn(a)
<1>1. a + Offset \in Int
  BY ReorderAssumption
<1> QED  BY <1>1, SameModEqual, Positive, Zenon DEF Sn

(* The difference of two sequence numbers, modulo, is that of the numbers  *)
(* they stand for.                                                         *)
LEMMA SnDiff ==
    ASSUME NEW a \in Int, NEW b \in Int, a - b < SN_MODULO, b - a <= SN_MODULO
    PROVE  (Sn(a) - Sn(b)) % SN_MODULO = IF a >= b THEN a - b ELSE a - b + SN_MODULO
<1> DEFINE x == Sn(a)
           y == Sn(b)
<1>1. x \in Int /\ y \in Int /\ Same(SN_MODULO, x, a + Offset) /\ Same(SN_MODULO, y, b + Offset)
  BY SnFacts, Zenon
<1>2. SN_MODULO \in Nat \ {0} /\ SN_MODULO \in Int /\ Offset \in Int
  BY Positive, ReorderAssumption
<1> USE <1>2
<1> HIDE DEF x, y
<1>3. Same(SN_MODULO, x - y, (a + Offset) - (b + Offset))
  BY <1>1, SameSum
<1>4. (a + Offset) - (b + Offset) = a - b
  OBVIOUS
<1> DEFINE c == x - y
           d == a - b
<1>a. c \in Int /\ d \in Int /\ -SN_MODULO <= d /\ d < SN_MODULO
  BY <1>1
<1>b. Same(SN_MODULO, c, d)
  BY <1>3, <1>4, Zenon
<1> HIDE DEF c, d
<1>c. c % SN_MODULO = d % SN_MODULO
  BY <1>a, <1>b, SameModEqual, Zenon
<1>d. d % SN_MODULO = IF d >= 0 THEN d ELSE d + SN_MODULO
  BY <1>a, ModSmall, Zenon
<1>5. (x - y) % SN_MODULO = (a - b) % SN_MODULO
  BY <1>c, Zenon DEF c, d
<1>6. (a - b) % SN_MODULO = IF a - b >= 0 THEN a - b ELSE a - b + SN_MODULO
  BY <1>d, Zenon DEF d
<1> QED  BY <1>5, <1>6 DEF x, y

(* ieee80211_sn_less() compares two MPDUs right as long as they are less   *)
(* than half the range apart.                                              *)
LEMMA SnLess ==
    ASSUME NEW a \in Int, NEW b \in Int, a - b <= SN_MODULO \div 2, b - a < Half
    PROVE  ieee80211_sn_less(Sn(a), Sn(b)) <=> a < b
<1>1. a - b < SN_MODULO /\ b - a <= SN_MODULO
  BY Halves, Positive
<1>2. (Sn(a) - Sn(b)) % SN_MODULO = IF a >= b THEN a - b ELSE a - b + SN_MODULO
  BY <1>1, SnDiff, Zenon
<1>3. (IF a >= b THEN a - b ELSE a - b + SN_MODULO) > SN_MODULO \div 2 <=> a < b
  BY Halves, Positive
<1> QED  BY <1>2, <1>3, Zenon DEF ieee80211_sn_less

(* ieee80211_sn_add() and ieee80211_sn_sub() count MPDUs.                  *)
LEMMA SnAdd ==
    ASSUME NEW a \in Int, NEW k \in Int
    PROVE  /\ ieee80211_sn_add(Sn(a), k) = Sn(a + k)
           /\ ieee80211_sn_sub(Sn(a), k) = Sn(a - k)
<1>1. SN_MODULO \in Int /\ Offset \in Int /\ Sn(a) \in Int
      /\ Same(SN_MODULO, Sn(a), a + Offset) /\ Same(SN_MODULO, k, k)
  BY SnFacts, SameRefl, Positive, ReorderAssumption
<1>2. Same(SN_MODULO, Sn(a) + k, (a + Offset) + k) /\ Same(SN_MODULO, Sn(a) - k, (a + Offset) - k)
  <2> DEFINE x == Sn(a)
             c == a + Offset
  <2>1. x \in Int /\ c \in Int /\ Same(SN_MODULO, x, c) /\ Same(SN_MODULO, k, k) /\ SN_MODULO \in Int
    BY <1>1
  <2> HIDE DEF x, c
  <2>2. Same(SN_MODULO, x + k, c + k) /\ Same(SN_MODULO, x - k, c - k)
    BY <2>1, SameSum, Zenon
  <2> QED  BY <2>2, Zenon DEF x, c
<1>3. (a + Offset) + k = (a + k) + Offset /\ (a + Offset) - k = (a - k) + Offset
  BY <1>1
<1>4. Sn(a) + k \in Int /\ Sn(a) - k \in Int /\ a + k \in Int /\ a - k \in Int
  BY <1>1
<1> QED  BY <1>2, <1>3, <1>4, SnOf, Zenon DEF ieee80211_sn_add, ieee80211_sn_sub

(* ieee80211_sn_inc() goes on to the next MPDU.                            *)
LEMMA SnInc ==
    ASSUME NEW a \in Int PROVE ieee80211_sn_inc(Sn(a)) = Sn(a + 1)
  BY SnAdd DEF ieee80211_sn_inc

(* The test for the end of the window, whose right side is not masked,     *)
(* compares right too.                                                     *)
LEMMA SnBeyond ==
    ASSUME NEW a \in Int, NEW b \in Int, a - b - BufSize <= SN_MODULO \div 2,
           b - a + BufSize < Half
    PROVE  ieee80211_sn_less(Sn(a), Sn(b) + BufSize) <=> a < b + BufSize
<1>1. BufSize \in Int /\ b + BufSize \in Int
  BY Positive
<1> USE <1>1
<1>2. (Sn(a) - (Sn(b) + BufSize)) % SN_MODULO = (Sn(a) - Sn(b + BufSize)) % SN_MODULO
  <2> DEFINE x == Sn(a)
             y == Sn(b) + BufSize
             z == Sn(b + BufSize)
  <2>1. x \in Int /\ y \in Int /\ z \in Int /\ SN_MODULO \in Int /\ Offset \in Int
    BY SnFacts, Positive, ReorderAssumption
  <2> USE <2>1
  <2>2. Same(SN_MODULO, y, z)
    <3>1. y % SN_MODULO = z
      BY SnAdd, Zenon DEF ieee80211_sn_add
    <3>2. Same(SN_MODULO, y % SN_MODULO, y)
      BY SameMod, Positive, Zenon
    <3>3. Same(SN_MODULO, z, y)
      BY <3>1, <3>2, Zenon
    <3> HIDE DEF y, z
    <3> QED  BY <3>3, SameSum, Zenon
  <2> HIDE DEF x, y, z
  <2>3. Same(SN_MODULO, x, x)
    BY SameRefl, Zenon
  <2>4. Same(SN_MODULO, x - y, x - z)
    BY <2>2, <2>3, SameSum, Zenon
  <2> DEFINE c == x - y
             d == x - z
  <2>5. c \in Int /\ d \in Int /\ Same(SN_MODULO, c, d)
    BY <2>4
  <2> HIDE DEF c, d
  <2>6. c % SN_MODULO = d % SN_MODULO
    BY <2>5, SameModEqual, Positive, Zenon
  <2> QED  BY <2>6, Zenon DEF x, y, z, c, d
<1>3. a - (b + BufSize) <= SN_MODULO \div 2 /\ (b + BufSize) - a < Half
  BY Halves
<1>4. ieee80211_sn_less(Sn(a), Sn(b + BufSize)) <=> a < b + BufSize
  BY <1>3, SnLess, Zenon
<1> QED  BY <1>2, <1>4, Zenon DEF ieee80211_sn_less

(* The slot of an MPDU is its number modulo the buffer's size, across the  *)
(* wrap of the sequence numbers.                                           *)
LEMMA SlotSame ==
    ASSUME SN_MODULO % BufSize = 0, NEW a \in Int
    PROVE  Index(Sn(a)) \in Slots /\ Index(Sn(a)) = (a + Offset) % BufSize
<1>1. SN_MODULO \in Nat \ {0} /\ BufSize \in Nat \ {0} /\ Offset \in Int /\ BufSize \in Int
  BY Positive, ReorderAssumption
<1> USE <1>1
<1> DEFINE q == SN_MODULO \div BufSize
           x == Sn(a)
<1>2. q \in Int /\ SN_MODULO = BufSize * q
  <2>1. q \in Int /\ SN_MODULO = BufSize * q + (SN_MODULO % BufSize)
    BY DivMod
  <2> QED  BY <2>1
<1>3. x \in Int /\ Same(SN_MODULO, x, a + Offset)
  BY SnFacts, Zenon
<1> HIDE DEF q, x
<1>4. PICK k \in Int : x = (a + Offset) + k * SN_MODULO
  BY <1>3, Zenon DEF Same
<1>5. x = (a + Offset) + (k * q) * BufSize /\ k * q \in Int
  BY <1>2, <1>4
<1>6. Same(BufSize, x, a + Offset)
  BY <1>5, Zenon DEF Same
<1> DEFINE c == a + Offset
<1>7. c \in Int /\ Same(BufSize, x, c)
  BY <1>6
<1> HIDE DEF c
<1>8. x % BufSize = c % BufSize /\ c % BufSize \in Slots
  BY <1>3, <1>7, SameModEqual, ModSlots, Zenon
<1> QED  BY <1>8, Zenon DEF x, c, Index

(* Two MPDUs of one window have different slots.                           *)
LEMMA SlotApart ==
    ASSUME SN_MODULO % BufSize = 0, NEW a \in Int, NEW b \in Int,
           Index(Sn(a)) = Index(Sn(b)), a - b < BufSize, b - a < BufSize
    PROVE  a = b
<1>1. BufSize \in Nat \ {0} /\ Offset \in Int /\ a + Offset \in Int /\ b + Offset \in Int
  BY Positive, ReorderAssumption
<1> USE <1>1
<1>2. (a + Offset) % BufSize = (b + Offset) % BufSize
  BY SlotSame, Zenon
<1>3. Same(BufSize, a + Offset, b + Offset)
  BY <1>2, SameModEqual, Zenon
<1>4. (a + Offset) - (b + Offset) < BufSize /\ (b + Offset) - (a + Offset) < BufSize
  OBVIOUS
<1>5. a + Offset = b + Offset
  BY <1>3, <1>4, SameSmall, Zenon
<1> QED  BY <1>5

(* The next MPDU has the next slot.                                        *)
LEMMA SlotNext ==
    ASSUME SN_MODULO % BufSize = 0, NEW a \in Int
    PROVE  Index(Sn(a + 1)) = Next1(Index(Sn(a)))
<1>1. BufSize \in Nat \ {0} /\ BufSize \in Int /\ Offset \in Int /\ a + Offset \in Int
      /\ 1 \in Int /\ (a + Offset) + 1 = (a + 1) + Offset /\ (a + Offset) + 1 \in Int
  BY Positive, ReorderAssumption
<1> USE <1>1
<1> DEFINE r == (a + Offset) % BufSize
<1>2. r \in Int /\ Same(BufSize, r, a + Offset)
  BY ModRange, SameMod
<1> HIDE DEF r
<1>3. Same(BufSize, 1, 1)
  BY SameRefl, Zenon
<1>4. Same(BufSize, r + 1, (a + Offset) + 1)
  BY <1>2, <1>3, SameSum, Zenon
<1>5. (r + 1) % BufSize = ((a + 1) + Offset) % BufSize
  <2> DEFINE c == r + 1
             d == (a + 1) + Offset
  <2>1. c \in Int /\ d \in Int /\ Same(BufSize, c, d)
    BY <1>2, <1>4
  <2> HIDE DEF c, d
  <2>2. c % BufSize = d % BufSize
    BY <2>1, SameModEqual, Zenon
  <2> QED  BY <2>2, Zenon DEF c, d
<1>6. Index(Sn(a)) = r /\ Index(Sn(a + 1)) = ((a + 1) + Offset) % BufSize
  BY SlotSame DEF r
<1> QED  BY <1>5, <1>6, Zenon DEF Next1

(* The distance is at most the buffer's size and grows with every slot.    *)
LEMMA DistStep ==
    ASSUME NEW i \in Slots, NEW k \in Slots
    PROVE  /\ Dist(i, k) \in 1 .. BufSize
           /\ k # i => Dist(i, k) < BufSize /\ Dist(i, Next1(k)) = Dist(i, k) + 1
           /\ Dist(i, Next1(i)) = 1
<1>1. BufSize \in Int /\ BufSize >= 1 /\ i \in Int /\ k \in Int /\ 0 <= i /\ i < BufSize /\ 0 <= k /\ k < BufSize
  BY Positive DEF Slots
<1>2. /\ Next1(k) \in Slots /\ Next1(k) = IF k + 1 = BufSize THEN 0 ELSE k + 1
      /\ Next1(i) \in Slots /\ Next1(i) = IF i + 1 = BufSize THEN 0 ELSE i + 1
  BY Successor, Zenon
<1>3. /\ (k - i) % BufSize = IF k >= i THEN k - i ELSE k - i + BufSize
      /\ (Next1(k) - i) % BufSize = IF Next1(k) >= i THEN Next1(k) - i ELSE Next1(k) - i + BufSize
      /\ (Next1(i) - i) % BufSize = IF Next1(i) >= i THEN Next1(i) - i ELSE Next1(i) - i + BufSize
  BY <1>2, Distance, Zenon
<1> DEFINE nk == Next1(k)
           ni == Next1(i)
           dk == (k - i) % BufSize
           dn == (nk - i) % BufSize
           di == (ni - i) % BufSize
<1>4. /\ nk = IF k + 1 = BufSize THEN 0 ELSE k + 1
      /\ ni = IF i + 1 = BufSize THEN 0 ELSE i + 1
      /\ dk = IF k >= i THEN k - i ELSE k - i + BufSize
      /\ dn = IF nk >= i THEN nk - i ELSE nk - i + BufSize
      /\ di = IF ni >= i THEN ni - i ELSE ni - i + BufSize
      /\ Dist(i, k) = IF k = i THEN BufSize ELSE dk
      /\ Dist(i, Next1(k)) = IF nk = i THEN BufSize ELSE dn
      /\ Dist(i, Next1(i)) = IF ni = i THEN BufSize ELSE di
  BY <1>2, <1>3, Zenon DEF Dist
<1> HIDE DEF nk, ni, dk, dn, di
<1>5. Dist(i, k) \in 1 .. BufSize
  BY <1>1, <1>4
<1>6. k # i => Dist(i, k) < BufSize /\ Dist(i, Next1(k)) = Dist(i, k) + 1
  BY <1>1, <1>4
<1>7. Dist(i, Next1(i)) = 1
  BY <1>1, <1>4
<1> QED  BY <1>5, <1>6, <1>7, Zenon

----------------------------------------------------------------------------
(* Steps that leave the slots and the head alone.                          *)

(* The steps that leave the slots, the head and what was passed up alone.  *)
Quiet ==
    \/ Advance \/ RxFrame \/ RxLastSubframe \/ LastSubframeLost \/ RxBar \/ BarLock
    \/ Duplicate \/ ieee80211_sta_reorder_release \/ ScanSkips \/ ScanStops
    \/ ScanEnds \/ Rearm \/ Unlock \/ TimerFires
    \/ sta_rx_agg_reorder_timer_expired \/ ieee80211_release_reorder_timeout
    \/ Tick \/ Unpublish \/ MarkRemoved \/ DeleteTimer
    \/ (\E a \in Actors : Deliver(a)) \/ UNCHANGED vars

(* The other steps, by name.                                               *)
LEMMA QuietFrame ==
    ASSUME [Next]_vars
    PROVE  \/ Quiet
           \/ RxBeforeStart \/ RxOutdated \/ ieee80211_sta_manage_reorder_buf
           \/ ieee80211_release_reorder_frames \/ Pass \/ Store \/ ReleaseRun
           \/ ScanReleases \/ ieee80211_free_tid_rx
  BY Zenon DEF Next, Traffic, Receive, Locked, Timer, Stop, Quiet

(* A quiet step that changes neither what the originator sends nor what is *)
(* on its way into the buffer.                                             *)
Minor ==
    /\ UNCHANGED <<head_seq_num, reorder, started, seen, win, more>>
    /\ life = "freed" => life' = "freed"
    /\ op \in {"release", "insert"} \/ op' \in {"release", "insert"} =>
         UNCHANGED <<op, target, then, lock, skb>>
    /\ step["rx"] \in {"frame", "bar"} \/ step'["rx"] \in {"frame", "bar"} =>
         UNCHANGED <<step["rx"], skb>>
    /\ more => UNCHANGED skb

(* The quiet steps that are not minor, by name.  Of the minor ones only    *)
(* two change where the search for timed-out frames is.                    *)
LEMMA QuietMinor ==
    ASSUME Inv, Sender, Quiet
    PROVE  \/ Advance \/ RxFrame \/ RxLastSubframe \/ LastSubframeLost \/ RxBar
           \/ BarLock \/ Duplicate
           \/ Minor /\ (ieee80211_sta_reorder_release \/ ScanSkips)
           \/ Minor /\ (op' = "scan" => UNCHANGED <<op, j, skipped>>)
<1> DEFINE Keeps == op' = "scan" => UNCHANGED <<op, j, skipped>>
<1>1. CASE ieee80211_sta_reorder_release \/ ScanSkips
  <2>1. /\ op \notin {"release", "insert"} /\ op' \notin {"release", "insert"}
        /\ UNCHANGED <<head_seq_num, reorder, started, seen, win, more, life, step, skb>>
    BY <1>1, Zenon DEF ieee80211_sta_reorder_release, ScanSkips, buffer, originator, history
  <2> QED  BY <1>1, <2>1, Zenon DEF Minor
<1>2. CASE ScanStops \/ ScanEnds \/ Rearm
  <2>1. /\ op \notin {"release", "insert"} /\ op' \notin {"release", "insert", "scan"}
        /\ UNCHANGED <<head_seq_num, reorder, started, seen, win, more, life, step, skb>>
    BY <1>2, Zenon DEF ScanStops, ScanEnds, Rearm, buffer, originator, history
  <2> QED  BY <2>1, Zenon DEF Minor
<1>3. CASE Unlock
  <2>1. /\ op = "unlock" /\ op' = "none"
        /\ step' = [step EXCEPT ![lock] = "deliver"] /\ step[lock] = "locked"
        /\ UNCHANGED <<head_seq_num, reorder, started, seen, win, more, life, skb>>
    BY <1>3, Zenon DEF Unlock, buffer, originator, history, Inv, Control, Actors
  <2>2. step'["rx"] = step["rx"] \/ (step["rx"] = "locked" /\ step'["rx"] = "deliver")
    BY <2>1, Zenon DEF Inv, Types, Actors
  <2> QED  BY <2>1, <2>2, Zenon DEF Minor
<1>4. CASE TimerFires \/ sta_rx_agg_reorder_timer_expired
  <2>1. /\ \E s : step' = [step EXCEPT !["timer"] = s]
        /\ UNCHANGED <<head_seq_num, reorder, started, seen, win, more, life, op,
                       target, then, lock, j, skipped, skb>>
    BY <1>4, Zenon DEF TimerFires, sta_rx_agg_reorder_timer_expired, buffer, locals,
       originator, history
  <2>2. step'["rx"] = step["rx"]
    BY <2>1, Zenon DEF Inv, Types, Actors
  <2> QED  BY <2>1, <2>2, Zenon DEF Minor
<1>5. CASE ieee80211_release_reorder_timeout
  <2>1. /\ op = "none" /\ op' = "flush" /\ step' = [step EXCEPT !["timer"] = "locked"]
        /\ UNCHANGED <<head_seq_num, reorder, started, seen, win, more, life, skb>>
    BY <1>5, Zenon DEF ieee80211_release_reorder_timeout, Lock, buffer, originator, history,
       Inv, Control
  <2>2. step'["rx"] = step["rx"]
    BY <2>1, Zenon DEF Inv, Types, Actors
  <2> QED  BY <2>1, <2>2, Zenon DEF Minor
<1>6. CASE Tick \/ Unpublish \/ MarkRemoved \/ DeleteTimer \/ UNCHANGED vars
  <2>1. /\ life = "freed" => life' = "freed"
        /\ UNCHANGED <<head_seq_num, reorder, started, seen, win, more, op, target,
                       then, lock, j, skipped, skb, step>>
    BY <1>6, Zenon DEF Tick, Unpublish, MarkRemoved, DeleteTimer, vars, buffer, locals,
       originator, history
  <2> QED  BY <2>1, Zenon DEF Minor
<1>7. CASE \E a \in Actors : Deliver(a)
  <2>1. PICK a \in Actors : Deliver(a)
    BY <1>7, Zenon
  <2>2. /\ step[a] = "deliver" /\ step' = [step EXCEPT ![a] = "idle"]
        /\ skb' = IF a = "rx" /\ ~more THEN NoSkb ELSE skb
        /\ UNCHANGED <<head_seq_num, reorder, started, seen, win, more, life, op,
                       target, then, lock, j, skipped>>
    BY <2>1, Zenon DEF Deliver, buffer, locals, originator, history
  <2>3. /\ step'["rx"] = step["rx"] \/ (step["rx"] = "deliver" /\ step'["rx"] = "idle")
        /\ step["rx"] = "deliver" \/ skb' = skb
    BY <2>2, Zenon DEF Inv, Types, Actors
  <2>4. step["rx"] = "deliver" => op \notin {"release", "insert"}
    BY Zenon DEF Sender, Inv, Control, Actors
  <2> QED  BY <2>2, <2>3, <2>4, Zenon DEF Minor
<1> QED
  BY <1>1, <1>2, <1>3, <1>4, <1>5, <1>6, <1>7, Zenon DEF Quiet

(* What is on its way stays so in a minor step.                            *)
LEMMA MinorKeeps ==
    ASSUME Minor
    PROVE  /\ (Placing' <=> Placing) /\ (Pending' <=> Pending) /\ (Carried' <=> Carried)
           /\ (Carried => skb' = skb)
<1>1. (Placing' <=> Placing) /\ (Placing => skb' = skb)
  BY Zenon DEF Minor, Placing
<1>2. (Pending' <=> Pending) /\ (Pending => skb' = skb)
  BY <1>1, Zenon DEF Minor, Pending
<1>3. (Carried' <=> Carried) /\ (Carried => skb' = skb)
  BY <1>2, Zenon DEF Minor, Carried
<1> QED  BY <1>1, <1>2, <1>3, Zenon

----------------------------------------------------------------------------
(* The originator.                                                         *)

(* What a frame brings with it when it comes in.                           *)
LEMMA RxFrameArrives ==
    ASSUME Inv, Sender, RxFrame
    PROVE  \E n \in Frames :
             /\ n \in win .. win + BufSize - 1 \/ (win = 1 /\ n = 0 /\ (started \/ n \notin seen))
             /\ skb'.n = n /\ (skb'.more <=> n \in Amsdus) /\ (more' <=> n \in Amsdus)
             /\ step["rx"] = "idle" /\ step'["rx"] = "frame"
             /\ op \notin {"release", "insert"}
             /\ UNCHANGED <<win, seen, op, target, then, j, skipped, life>>
<1>1. PICK n \in Frames :
        /\ n \in win .. win + BufSize - 1 \/ (win = 1 /\ n = 0 /\ (started \/ n \notin seen))
        /\ Arrives(n, "frame", n \notin Amsdus)
  BY Zenon DEF RxFrame
<1>2. skb'.n = n /\ (skb'.more <=> n \in Amsdus) /\ (more' <=> n \in Amsdus)
  BY <1>1, Zenon DEF Arrives
<1>3. step["rx"] = "idle" /\ step'["rx"] = "frame"
  BY <1>1, Zenon DEF Arrives, Inv, Types, Actors
<1>4. UNCHANGED <<win, seen, op, target, then, j, skipped, life>>
  BY <1>1, Zenon DEF Arrives, locals, history
<1>5. op \notin {"release", "insert"}
  BY <1>3, Zenon DEF Sender, Inv, Control, Actors
<1> QED  BY <1>1, <1>2, <1>3, <1>4, <1>5, Zenon

(* The last subframe of an A-MSDU.                                         *)
LEMMA RxLastArrives ==
    ASSUME Inv, Sender, RxLastSubframe
    PROVE  /\ more /\ ~more' /\ skb'.n = skb.n /\ ~skb'.more
           /\ step["rx"] = "idle" /\ step'["rx"] = "frame"
           /\ op \notin {"release", "insert"}
           /\ UNCHANGED <<win, seen, op, target, then, j, skipped, life>>
<1>1. more /\ ~more' /\ skb'.n = skb.n /\ ~skb'.more
  BY Zenon DEF RxLastSubframe, Arrives
<1>2. step["rx"] = "idle" /\ step'["rx"] = "frame"
  BY Zenon DEF RxLastSubframe, Arrives, Inv, Types, Actors
<1>3. UNCHANGED <<win, seen, op, target, then, j, skipped, life>>
  BY Zenon DEF RxLastSubframe, Arrives, locals, history
<1>4. op \notin {"release", "insert"}
  BY <1>2, Zenon DEF Sender, Inv, Control, Actors
<1> QED  BY <1>1, <1>2, <1>3, <1>4, Zenon

(* A Block Ack request.                                                    *)
LEMMA RxBarArrives ==
    ASSUME Inv, Sender, RxBar
    PROVE  /\ ~more' /\ skb'.n = win
           /\ step["rx"] = "idle" /\ step'["rx"] = "bar"
           /\ op \notin {"release", "insert"}
           /\ UNCHANGED <<win, seen, op, target, then, j, skipped, life>>
<1>1. ~more' /\ skb'.n = win
  BY Zenon DEF RxBar, Arrives
<1>2. step["rx"] = "idle" /\ step'["rx"] = "bar"
  BY Zenon DEF RxBar, Arrives, Inv, Types, Actors
<1>3. UNCHANGED <<win, seen, op, target, then, j, skipped, life>>
  BY Zenon DEF RxBar, Arrives, locals, history
<1>4. op \notin {"release", "insert"}
  BY <1>2, Zenon DEF Sender, Inv, Control, Actors
<1> QED  BY <1>1, <1>2, <1>3, <1>4, Zenon

(* Every step keeps what is known of the originator.                       *)
LEMMA SenderStep ==
    ASSUME Inv, Shapes, Sender, Kept, [Next]_vars PROVE Sender'
<1>0. /\ win \in Int /\ skb.n \in Int /\ (\A k \in seen : k \in Int)
      /\ BufSize \in Int /\ BufSize >= 1 /\ MaxLag \in Int
  BY Positive, ReorderAssumption DEF Inv, Types, Shapes, Lists, Frames, Skb
<1>1. CASE Advance
  <2>1. /\ win' = win + 1 /\ \E k \in seen \cup {0} : win < k + MaxLag
        /\ UNCHANGED <<seen, skb, step, more, op, then, lock>>
    BY <1>1, Zenon DEF Advance, locals, history
  <2>2. \E k \in seen \cup {0} : win + 1 <= k + MaxLag
    BY <1>0, <2>1
  <2> QED  BY <1>0, <2>1, <2>2 DEF Sender, Carried, Pending, Placing
<1>2. CASE Minor
  <2>1. /\ (Placing' <=> Placing) /\ (Pending' <=> Pending) /\ (Carried' <=> Carried)
        /\ Carried => skb' = skb
    BY <1>2, MinorKeeps, Zenon
  <2>2. /\ UNCHANGED <<win, seen, more>>
        /\ op' \in {"release", "insert"} => UNCHANGED <<op, then, lock, skb>>
        /\ step'["rx"] \in {"frame", "bar"} => UNCHANGED <<step["rx"], skb>>
    BY <1>2, Zenon DEF Minor
  <2>3. (Pending => Carried) /\ (Placing => Carried) /\ (more => Carried)
    BY Zenon DEF Carried, Pending
  <2> QED  BY <2>1, <2>2, <2>3, Zenon DEF Sender
<1>3. CASE RxFrame
  <2>1. PICK n \in Frames :
          /\ n \in win .. win + BufSize - 1 \/ (win = 1 /\ n = 0 /\ (started \/ n \notin seen))
          /\ skb'.n = n /\ (skb'.more <=> n \in Amsdus) /\ (more' <=> n \in Amsdus)
          /\ step'["rx"] = "frame" /\ op' \notin {"release", "insert"}
          /\ UNCHANGED <<win, seen>>
    BY <1>3, RxFrameArrives, Zenon
  <2>2. n \in Int
    BY DEF Frames
  <2>3. n <= win + BufSize - 1 /\ \A k \in seen : k <= n + BufSize
    BY <1>0, <2>1, <2>2 DEF Sender
  <2> QED  BY <2>1, <2>3, Zenon DEF Sender, Carried, Pending, Placing
<1>4. CASE RxLastSubframe
  <2>1. /\ more /\ skb'.n = skb.n /\ ~skb'.more /\ ~more'
        /\ step'["rx"] = "frame" /\ op' \notin {"release", "insert"}
        /\ UNCHANGED <<win, seen>>
    BY <1>4, RxLastArrives, Zenon
  <2> QED  BY <2>1, Zenon DEF Sender, Carried, Pending, Placing
<1>5. CASE LastSubframeLost
  <2>1. ~more' /\ more /\ step["rx"] = "idle" /\ UNCHANGED <<win, seen, skb, step, op, then, lock>>
    BY <1>5, Zenon DEF LastSubframeLost, locals, history
  <2>2. op \notin {"release", "insert"}
    BY <2>1, Zenon DEF Sender, Inv, Control, Actors
  <2> QED  BY <2>1, <2>2, Zenon DEF Sender, Carried, Pending, Placing
<1>6. CASE RxBar
  <2>1. /\ skb'.n = win /\ step'["rx"] = "bar" /\ ~more'
        /\ op' \notin {"release", "insert"} /\ UNCHANGED <<win, seen>>
    BY <1>6, RxBarArrives, Zenon
  <2>2. win <= win /\ \A k \in seen : k <= win + BufSize - 1
    BY <1>0 DEF Sender
  <2> QED  BY <2>1, <2>2, Zenon DEF Sender, Carried, Pending, Placing
<1>7. CASE BarLock
  <2>1. /\ step["rx"] = "bar" /\ step'["rx"] = "locked" /\ lock' = "rx"
        /\ op' = "release" /\ then' = "unlock" /\ UNCHANGED <<win, seen, skb, more>>
    BY <1>7, Zenon DEF BarLock, Lock, Inv, Types, Actors, originator, history
  <2> QED  BY <2>1, Zenon DEF Sender, Carried, Pending, Placing
<1>8. CASE Duplicate
  <2>1. op = "insert" /\ op' = "unlock" /\ UNCHANGED <<win, seen, skb, more, step, then, lock>>
    BY <1>8, Zenon DEF Duplicate, originator, history
  <2> QED  BY <2>1, Zenon DEF Sender, Carried, Pending, Placing
<1>9. CASE RxBeforeStart \/ RxOutdated
  <2>1. /\ step["rx"] = "frame" /\ step'["rx"] = "deliver" /\ lock = "free"
        /\ seen' = seen \cup {skb.n} /\ UNCHANGED <<win, skb, more, op, then, lock>>
    BY <1>9, Zenon DEF RxBeforeStart, RxOutdated, Lock, Unlocked, Inv, Types, Actors, locals, originator
  <2>2. ~Placing /\ ~Placing' /\ Pending /\ Carried /\ op \notin {"release", "insert"}
    BY <2>1, Zenon DEF Placing, Pending, Carried, Sender
  <2>3. Carried' => more
    BY <2>1, <2>2, Zenon DEF Pending, Carried
  <2>4. \A k \in seen' : k <= win + BufSize - 1 /\ k <= skb.n + BufSize
    BY <1>0, <2>1, <2>2 DEF Sender
  <2> QED  BY <2>1, <2>2, <2>3, <2>4, Zenon DEF Sender, Pending
<1>10. CASE ieee80211_sta_manage_reorder_buf
  <2>1. /\ step["rx"] = "frame" /\ step'["rx"] = "locked" /\ lock' = "rx"
        /\ seen' = seen \cup {skb.n} /\ op' \in {"release", "insert"} /\ then' = "insert"
        /\ UNCHANGED <<win, skb, more>>
    BY <1>10, Zenon DEF ieee80211_sta_manage_reorder_buf, Lock, Inv, Types, Actors, originator
  <2>2. Pending /\ Carried
    BY <2>1, Zenon DEF Pending, Carried
  <2>3. \A k \in seen' : k <= win + BufSize - 1 /\ k <= skb.n + BufSize
    BY <1>0, <2>1, <2>2 DEF Sender
  <2> QED  BY <2>1, <2>2, <2>3, Zenon DEF Sender, Pending
<1>11. CASE ieee80211_release_reorder_frames
  <2>1. /\ op = "release" /\ (op' = op \/ op' = then)
        /\ UNCHANGED <<win, seen, skb, more, step, then, lock>>
    BY <1>11, Zenon DEF ieee80211_release_reorder_frames, originator
  <2> QED  BY <2>1, Zenon DEF Sender, Carried, Pending, Placing, Inv, Types
<1>12. CASE Pass
  <2>1. op = "insert" /\ op' = "unlock" /\ UNCHANGED <<win, seen, skb, more, step, then, lock>>
    BY <1>12, Zenon DEF Pass, originator
  <2> QED  BY <2>1, Zenon DEF Sender, Carried, Pending, Placing
<1>13. CASE Store
  <2>1. /\ op = "insert" /\ op' \in {"unlock", "flush"}
        /\ UNCHANGED <<win, seen, skb, more, step, then, lock>>
    BY <1>13, Zenon DEF Store, originator, history
  <2> QED  BY <2>1, Zenon DEF Sender, Carried, Pending, Placing
<1>14. CASE ReleaseRun
  <2>1. /\ op = "run" /\ op' \in {"run", "rearm"}
        /\ UNCHANGED <<win, seen, then, lock, skb, more, step>>
    BY <1>14, Zenon DEF ReleaseRun, originator
  <2> QED  BY <2>1, Zenon DEF Sender, Carried, Pending, Placing
<1>15. CASE ScanReleases
  <2>1. op = "scan" /\ UNCHANGED <<win, seen, skb, more, step, op, then, lock>>
    BY <1>15, Zenon DEF ScanReleases, originator
  <2> QED  BY <2>1, Zenon DEF Sender, Carried, Pending, Placing
<1>16. CASE ieee80211_free_tid_rx
  <2>1. UNCHANGED <<win, seen, skb, more, step, op, then, lock>>
    BY <1>16, Zenon DEF ieee80211_free_tid_rx, locals, originator, history
  <2> QED  BY <2>1, Zenon DEF Sender, Carried, Pending, Placing
<1> QED
  BY <1>1, <1>2, <1>3, <1>4, <1>5, <1>6, <1>7, <1>8, <1>9, <1>10, <1>11, <1>12, <1>13, <1>14, <1>15, <1>16,
     QuietFrame, QuietMinor, Zenon

----------------------------------------------------------------------------
(* Types.                                                                  *)

(* The next sequence number is one.                                        *)
LEMMA IncRange ==
    ASSUME head_seq_num \in 0 .. SN_MODULO - 1
    PROVE  ieee80211_sn_inc(head_seq_num) \in 0 .. SN_MODULO - 1
  BY ModSn DEF ieee80211_sn_inc, ieee80211_sn_add

(* stored_mpdu_num stays a 16-bit number.                                  *)
LEMMA CountRange ==
    ASSUME stored_mpdu_num \in 0 .. U16 - 1
    PROVE  (stored_mpdu_num - 1) % U16 \in 0 .. U16 - 1 /\ (stored_mpdu_num + 1) % U16 \in 0 .. U16 - 1
<1>1. stored_mpdu_num - 1 \in Int /\ stored_mpdu_num + 1 \in Int
  BY Positive
<1> QED  BY <1>1, Positive, ModRange, Zenon

(* Every step keeps the types of the counters and flags; the search counts *)
(* no more slots than it has passed.                                       *)
LEMMA ScalarsStep ==
    ASSUME Inv, Scalars, [Next]_vars PROVE Scalars'
<1>1. CASE Advance
  BY <1>1, Zenon DEF Advance, Inv, Types, Control, Scalars, Dist, Actors,
     buffer, locals, originator, history
<1>2. CASE RxFrame
  <2>1. PICK n \in Frames : Arrives(n, "frame", n \notin Amsdus)
    BY <1>2, Zenon DEF RxFrame
  <2>2. more' \in BOOLEAN
    BY <2>1, Zenon DEF Arrives
  <2>3. UNCHANGED <<head_seq_num, target, stored_mpdu_num, auto_seq, started, removed, op, skipped, index, j, waiting>>
    BY <2>1, Zenon DEF Arrives, buffer, locals
  <2> QED  BY <2>2, <2>3, Zenon DEF Scalars, Dist
<1>3. CASE RxLastSubframe
  BY <1>3, Zenon DEF RxLastSubframe, Arrives, Inv, Types, Control, Scalars,
     Dist, Actors, buffer, locals, originator, history
<1>4. CASE LastSubframeLost
  <2>1. more' = FALSE /\ UNCHANGED <<head_seq_num, target, stored_mpdu_num,
           auto_seq, started, removed, op, skipped, index, j, waiting>>
    BY <1>4, Zenon DEF LastSubframeLost, buffer, locals
  <2> QED  BY <2>1, Zenon DEF Scalars, Dist
<1>5. CASE RxBar
  BY <1>5, Zenon DEF RxBar, Arrives, Inv, Types, Control, Scalars, Dist,
     Actors, buffer, locals, originator, history
<1>6. CASE RxBeforeStart
  <2>1. head_seq_num' \in 0 .. SN_MODULO - 1 /\ auto_seq' = FALSE
    <3>1. skb.n \in Int /\ Sn(skb.n) \in 0 .. SN_MODULO - 1
      BY SnFacts DEF Inv, Types, Skb, Frames
    <3> QED  BY <1>6, <3>1, Zenon DEF RxBeforeStart, HeadSn, Scalars
  <2>2. UNCHANGED <<stored_mpdu_num, target, started, removed, more, op, skipped, index, j, waiting>>
    BY <1>6, Zenon DEF RxBeforeStart, locals, originator
  <2> QED  BY <2>1, <2>2, Zenon DEF Scalars, Dist
<1>7. CASE RxOutdated
  BY <1>7, Zenon DEF RxOutdated, Lock, Unlocked, Give, Inv, Types, Control,
     Scalars, Dist, Actors, buffer, locals, originator, history
<1>8. CASE ieee80211_sta_manage_reorder_buf
  <2>1. skb.n \in Int /\ Sn(skb.n) \in 0 .. SN_MODULO - 1
    BY SnFacts DEF Inv, Types, Skb, Frames
  <2>2. HeadSn \in 0 .. SN_MODULO - 1
    BY <2>1, Zenon DEF HeadSn, Scalars
  <2>3. ieee80211_sn_inc(ieee80211_sn_sub(Sn(skb.n), BufSize)) \in 0 .. SN_MODULO - 1
    <3>1. ieee80211_sn_sub(Sn(skb.n), BufSize) \in Int
      <4>1. Sn(skb.n) - BufSize \in Int
        BY <2>1, Positive
      <4> QED  BY <4>1, ModSn DEF ieee80211_sn_sub
    <3> QED  BY <3>1, ModSn DEF ieee80211_sn_inc, ieee80211_sn_add
  <2>4. op' \in {"release", "insert"} /\ target' \in 0 .. SN_MODULO - 1
    BY <1>8, <2>3, Zenon DEF ieee80211_sta_manage_reorder_buf, Scalars
  <2> QED  BY <1>8, <2>2, <2>4, Zenon DEF ieee80211_sta_manage_reorder_buf, Scalars,
     originator
<1>9. CASE BarLock
  <2>1. target' \in 0 .. SN_MODULO - 1
    <3>1. skb.n \in Int /\ Sn(skb.n) \in 0 .. SN_MODULO - 1
      BY SnFacts DEF Inv, Types, Skb, Frames
    <3> QED  BY <1>9, <3>1, Zenon DEF BarLock
  <2>2. op' = "release" /\ UNCHANGED <<head_seq_num, stored_mpdu_num, auto_seq, started, removed, more, skipped, waiting>>
    BY <1>9, Zenon DEF BarLock, buffer, originator
  <2> QED  BY <2>1, <2>2, Zenon DEF Scalars
<1>10. CASE ieee80211_release_reorder_frames
  <2> USE <1>10
  <2>1. head_seq_num' \in 0 .. SN_MODULO - 1
    BY IncRange, Zenon DEF ieee80211_release_reorder_frames,
       ieee80211_release_reorder_frame, Scalars
  <2>2. stored_mpdu_num' \in 0 .. U16 - 1
    BY CountRange, Zenon DEF ieee80211_release_reorder_frames,
       ieee80211_release_reorder_frame, Scalars
  <2>3. op' \in {"release", "insert", "unlock"}
    BY Zenon DEF ieee80211_release_reorder_frames, Inv, Types
  <2>4. UNCHANGED <<target, auto_seq, started, removed, more, skipped, waiting>>
    BY Zenon DEF ieee80211_release_reorder_frames, originator
  <2> QED  BY <2>1, <2>2, <2>3, <2>4, Zenon DEF Scalars
<1>11. CASE Duplicate
  BY <1>11, Zenon DEF Duplicate, Inv, Types, Control, Scalars, Dist, Actors,
     buffer, locals, originator, history
<1>12. CASE Pass
  <2>1. head_seq_num' \in 0 .. SN_MODULO - 1
    BY <1>12, IncRange, Zenon DEF Pass, Scalars
  <2>2. op' = "unlock" /\ UNCHANGED <<stored_mpdu_num, target, auto_seq, started, removed, more, skipped, waiting>>
    BY <1>12, Zenon DEF Pass, originator
  <2> QED  BY <2>1, <2>2, Zenon DEF Scalars
<1>13. CASE Store
  <2>1. stored_mpdu_num' \in 0 .. U16 - 1 /\ op' \in {"flush", "unlock"}
    BY <1>13, CountRange, Zenon DEF Store, Scalars
  <2>2. UNCHANGED <<head_seq_num, target, auto_seq, started, removed, more, skipped, waiting>>
    BY <1>13, Zenon DEF Store, originator
  <2> QED  BY <2>1, <2>2, Zenon DEF Scalars
<1>14. CASE ieee80211_sta_reorder_release
  <2> DEFINE i == Index(head_seq_num)
  <2>1. i \in Slots /\ Next1(i) \in Slots /\ Dist(i, Next1(i)) = 1
    BY SnInt, Successor, DistStep, Zenon DEF Inv
  <2>2. UNCHANGED <<head_seq_num, stored_mpdu_num, target, auto_seq, started, removed, more, waiting>>
    BY <1>14, Zenon DEF ieee80211_sta_reorder_release, buffer, originator
  <2>3. \/ op' = "scan" /\ index' = i /\ j' = Next1(i) /\ skipped' = 1
        \/ op' = "run" /\ skipped' = skipped
    BY <1>14, Zenon DEF ieee80211_sta_reorder_release
  <2>4. CASE op' = "scan" /\ index' = i /\ j' = Next1(i) /\ skipped' = 1
    <3>1. Dist(index, j)' = 1
      BY <2>1, <2>4, Zenon DEF Dist
    <3> QED  BY <2>2, <2>4, <3>1, Positive DEF Scalars
  <2>5. CASE op' = "run" /\ skipped' = skipped
    BY <2>2, <2>5, Zenon DEF Scalars
  <2> QED  BY <2>3, <2>4, <2>5, Zenon
<1>15. CASE ReleaseRun
  <2> USE <1>15
  <2>1. head_seq_num' \in 0 .. SN_MODULO - 1
    BY IncRange, Zenon DEF ReleaseRun, ieee80211_release_reorder_frame, Scalars
  <2>2. stored_mpdu_num' \in 0 .. U16 - 1
    BY CountRange, Zenon DEF ReleaseRun, ieee80211_release_reorder_frame, Scalars
  <2>3. op' \in {"run", "rearm"}
    BY Zenon DEF ReleaseRun
  <2>4. UNCHANGED <<target, auto_seq, started, removed, more, skipped, waiting>>
    BY Zenon DEF ReleaseRun, originator
  <2> QED  BY <2>1, <2>2, <2>3, <2>4, Zenon DEF Scalars
<1>16. CASE ScanSkips
  <2>1. index \in Slots /\ j \in Slots /\ j # index /\ op = "scan" /\ op' = "scan"
        /\ skipped' = skipped + 1 /\ j' = Next1(j) /\ index' = index
    BY <1>16, Zenon DEF ScanSkips, Inv, Types
  <2> USE <2>1
  <2>2. Dist(index, j) < BufSize /\ Dist(index, Next1(j)) = Dist(index, j) + 1 /\ Dist(index, j) \in Int
    BY DistStep
  <2>3. Dist(index, j)' = Dist(index, Next1(j))
    BY Zenon DEF Dist
  <2>4. UNCHANGED <<head_seq_num, stored_mpdu_num, target, auto_seq, started, removed, more, waiting>>
    BY <1>16, Zenon DEF ScanSkips, buffer, originator
  <2>5. skipped' \in 0 .. BufSize /\ skipped' <= Dist(index, j)'
    BY <2>2, <2>3, Positive DEF Scalars
  <2> QED  BY <2>4, <2>5, Zenon DEF Scalars
<1>17. CASE ScanReleases
  <2> USE <1>17
  <2>1. index \in Slots /\ j \in Slots /\ j # index /\ op = "scan" /\ op' = "scan"
        /\ skipped' = 0 /\ j' = Next1(j) /\ index' = index
    BY Zenon DEF ScanReleases, Inv, Types
  <2> USE <2>1
  <2>2. Dist(index, Next1(j)) \in 1 .. BufSize
    BY Successor, DistStep, Zenon
  <2>3. Dist(index, j)' = Dist(index, Next1(j))
    BY Zenon DEF Dist
  <2>4. UNCHANGED <<target, auto_seq, started, removed, more, waiting>>
    BY Zenon DEF ScanReleases, originator
  <2>5. stored_mpdu_num' \in 0 .. U16 - 1
    BY CountRange, Zenon DEF ScanReleases, Scalars
  <2>6. head_seq_num' \in 0 .. SN_MODULO - 1
    <3>1. ieee80211_sn_inc(head_seq_num) + skipped \in Int
      BY IncRange DEF Scalars
    <3> QED  BY <3>1, ModSn, Zenon DEF ScanReleases, ieee80211_sn_add
  <2>7. skipped' \in 0 .. BufSize /\ skipped' <= Dist(index, j)'
    BY <2>2, <2>3, Positive
  <2> QED  BY <2>4, <2>5, <2>6, <2>7, Zenon DEF Scalars
<1>18. CASE ScanStops
  BY <1>18, Zenon DEF ScanStops, SetTimer, Inv, Types, Control, Scalars,
     Dist, Actors, buffer, locals, originator, history
<1>19. CASE ScanEnds
  BY <1>19, Zenon DEF ScanEnds, Inv, Types, Control, Scalars, Dist, Actors,
     buffer, locals, originator, history
<1>20. CASE Rearm
  BY <1>20, Zenon DEF Rearm, Inv, Types, Control, Scalars, Dist, Actors,
     buffer, locals, originator, history
<1>21. CASE Unlock
  <2>1. op' = "none" /\ target' = 0 /\ skipped' = 0
        /\ UNCHANGED <<head_seq_num, stored_mpdu_num, auto_seq, started, removed, more, waiting>>
    BY <1>21, Zenon DEF Unlock, buffer, originator
  <2> QED  BY <2>1, Positive DEF Scalars
<1>22. CASE TimerFires
  BY <1>22, Zenon DEF TimerFires, Inv, Types, Control, Scalars, Dist, Actors,
     buffer, locals, originator, history
<1>23. CASE sta_rx_agg_reorder_timer_expired
  BY <1>23, Zenon DEF sta_rx_agg_reorder_timer_expired, Inv, Types, Control,
     Scalars, Dist, Actors, buffer, locals, originator, history
<1>24. CASE ieee80211_release_reorder_timeout
  BY <1>24, Zenon DEF ieee80211_release_reorder_timeout, Lock, Inv, Types,
     Control, Scalars, Dist, Actors, buffer, locals, originator, history
<1>25. CASE Tick
  BY <1>25, Zenon DEF Tick, Inv, Types, Control, Scalars, Dist, Actors,
     buffer, locals, originator, history
<1>26. CASE Unpublish
  BY <1>26, Zenon DEF Unpublish, Inv, Types, Control, Scalars, Dist, Actors,
     buffer, locals, originator, history
<1>27. CASE MarkRemoved
  BY <1>27, Zenon DEF MarkRemoved, Inv, Types, Control, Scalars, Dist,
     Actors, buffer, locals, originator, history
<1>28. CASE DeleteTimer
  BY <1>28, Zenon DEF DeleteTimer, Inv, Types, Control, Scalars, Dist,
     Actors, buffer, locals, originator, history
<1>29. CASE ieee80211_free_tid_rx
  BY <1>29, Zenon DEF ieee80211_free_tid_rx, Inv, Types, Control, Scalars,
     Dist, Actors, buffer, locals, originator, history
<1>30. CASE \E a \in Actors : Deliver(a)
  BY <1>30 DEF Deliver, Inv, Types, Control, Scalars, Dist, Actors,
     buffer, locals, originator, history
<1>31. CASE UNCHANGED vars
  BY <1>31, Zenon DEF Inv, Types, Control, Scalars, Dist, Actors, vars,
     buffer, locals, originator, history
<1> QED
  BY <1>1, <1>2, <1>3, <1>4, <1>5, <1>6, <1>7, <1>8, <1>9, <1>10, <1>11, <1>12,
     <1>13, <1>14, <1>15, <1>16, <1>17, <1>18, <1>19, <1>20, <1>21, <1>22,
     <1>23, <1>24, <1>25, <1>26, <1>27, <1>28, <1>29, <1>30, <1>31, Zenon DEF
     Next, Traffic, Receive, Locked, Timer, Stop

(* A step that touches neither the slots nor the head nor what was passed  *)
(* up.                                                                     *)
Still ==
    UNCHANGED <<reorder, out, head_seq_num, stored_mpdu_num, auto_seq, started,
                seen, late>>

(* The numbers of a list of frames.                                        *)
LEMMA NumbersIn ==
    ASSUME NEW list \in Seq(Skb)
    PROVE  Numbers(list) \subseteq Frames
<1>1. \A k \in 1 .. Len(list) : list[k] \in Skb
  BY ListElement, Zenon
<1> QED  BY <1>1, Zenon DEF Numbers, Skb

(* Passing frames up keeps the types.                                      *)
LEMMA GiveTypes ==
    ASSUME Lists, NEW a \in Actors, NEW list \in Seq(Skb), Give(a, list)
    PROVE  frames' \in [Actors -> Seq(Skb)] /\ out' \in Seq(Skb)
<1>1. frames[a] \in Seq(Skb) /\ out \in Seq(Skb)
  BY Zenon DEF Lists
<1>2. frames[a] \o list \in Seq(Skb) /\ out \o list \in Seq(Skb)
  BY <1>1, ListJoin, Zenon
<1>3. frames' = [frames EXCEPT ![a] = frames[a] \o list]
  BY Zenon DEF Give, Lists
<1> QED  BY <1>2, <1>3, Zenon DEF Give, Lists

(* Every step keeps the types of the lists.                                *)
LEMMA ListsStep ==
    ASSUME Inv, Lists, [Next]_vars PROVE Lists'
<1>1. CASE Advance
  BY <1>1, Zenon DEF Advance, Lists, buffer, locals, originator, history
<1>2. CASE RxFrame
  BY <1>2, Zenon DEF RxFrame, Arrives, Lists, buffer, locals, originator, history
<1>3. CASE RxLastSubframe
  BY <1>3, Zenon DEF RxLastSubframe, Arrives, Lists, buffer, locals, originator,
     history
<1>4. CASE LastSubframeLost
  BY <1>4, Zenon DEF LastSubframeLost, Lists, buffer, locals, originator, history
<1>5. CASE RxBar
  BY <1>5, Zenon DEF RxBar, Arrives, Lists, buffer, locals, originator, history
<1>6. CASE RxBeforeStart
  <2>1. skb \in Skb /\ <<skb>> \in Seq(Skb) /\ "rx" \in Actors /\ skb.n \in Frames
    BY DEF Inv, Types, Skb, Actors
  <2>2. Give("rx", <<skb>>) /\ seen' = seen \cup {skb.n} /\ late' = late
    BY <1>6, Zenon DEF RxBeforeStart, Unlocked
  <2> QED  BY <2>1, <2>2, GiveTypes, Zenon DEF Lists
<1>7. CASE RxOutdated
  <2>1. <<>> \in Seq(Skb) /\ "rx" \in Actors /\ skb.n \in Frames
    BY DEF Inv, Types, Skb, Actors
  <2>2. Give("rx", <<>>) /\ seen' = seen \cup {skb.n} /\ late' = late \cup ({skb.n} \ seen)
    BY <1>7, Zenon DEF RxOutdated, Unlocked
  <2> QED  BY <2>1, <2>2, GiveTypes, Zenon DEF Lists
<1>8. CASE ieee80211_sta_manage_reorder_buf
  <2>1. skb.n \in Frames
    BY Zenon DEF Inv, Types, Skb
  <2>2. seen' = seen \cup {skb.n} /\ UNCHANGED <<frames, out, late>>
    BY <1>8, Zenon DEF ieee80211_sta_manage_reorder_buf
  <2> QED  BY <2>1, <2>2, Zenon DEF Lists
<1>9. CASE BarLock
  BY <1>9, Zenon DEF BarLock, Lock, Lists, buffer, locals, originator, history
<1>10. CASE ieee80211_release_reorder_frames
  <2> DEFINE i == Index(head_seq_num)
  <2>1. i \in Slots /\ reorder[i] \in Seq(Skb) /\ Numbers(reorder[i]) \subseteq Frames
    BY SnInt, NumbersIn, Zenon DEF Inv, Types
  <2>2. lock \in Actors /\ seen' = seen
    BY <1>10, Zenon DEF ieee80211_release_reorder_frames, Inv, Control, Actors
  <2>3. \/ UNCHANGED <<frames, out, late>>
        \/ Give(lock, reorder[i]) /\ late' = late
        \/ late' = late \cup Numbers(reorder[i]) /\ UNCHANGED <<frames, out>>
    BY <1>10, Zenon DEF ieee80211_release_reorder_frames,
       ieee80211_release_reorder_frame
  <2> QED  BY <2>1, <2>2, <2>3, GiveTypes, Zenon DEF Lists
<1>11. CASE Duplicate
  BY <1>11, Zenon DEF Duplicate, Lists, buffer, locals, originator, history
<1>12. CASE Pass
  <2>1. skb \in Skb /\ <<skb>> \in Seq(Skb) /\ "rx" \in Actors /\ skb.n \in Frames
    BY DEF Inv, Types, Skb, Actors
  <2>2. Give("rx", <<skb>>) /\ UNCHANGED <<seen, late>>
    BY <1>12, Zenon DEF Pass
  <2> QED  BY <2>1, <2>2, GiveTypes, Zenon DEF Lists
<1>13. CASE Store
  BY <1>13, Zenon DEF Store, Lists, buffer, locals, originator, history
<1>14. CASE ieee80211_sta_reorder_release
  BY <1>14, Zenon DEF ieee80211_sta_reorder_release, Lists, buffer, locals,
     originator, history
<1>15. CASE ReleaseRun
  <2> DEFINE i == Index(head_seq_num)
  <2>1. i \in Slots /\ reorder[i] \in Seq(Skb) /\ Numbers(reorder[i]) \subseteq Frames
    BY SnInt, NumbersIn, Zenon DEF Inv, Types
  <2>2. lock \in Actors /\ seen' = seen
    BY <1>15, Zenon DEF ReleaseRun, Inv, Control, Actors
  <2>3. \/ UNCHANGED <<frames, out, late>>
        \/ Give(lock, reorder[i]) /\ late' = late
        \/ late' = late \cup Numbers(reorder[i]) /\ UNCHANGED <<frames, out>>
    BY <1>15, Zenon DEF ReleaseRun, ieee80211_release_reorder_frame
  <2> QED  BY <2>1, <2>2, <2>3, GiveTypes, Zenon DEF Lists
<1>16. CASE ScanSkips
  BY <1>16, Zenon DEF ScanSkips, Lists, buffer, locals, originator, history
<1>17. CASE ScanReleases
  <2>1. j \in Slots /\ reorder[j] \in Seq(Skb)
    BY Zenon DEF Inv, Types
  <2>2. lock \in Actors /\ Give(lock, reorder[j]) /\ seen' = seen /\ late' = late \cup Lost
    BY <1>17, Zenon DEF ScanReleases, Inv, Control, Actors
  <2>3. Lost \subseteq Frames
    <3>1. \A s \in Purged : reorder[s] \in Seq(Skb)
      BY Zenon DEF Purged, Between, Inv, Types
    <3> QED  BY <3>1, NumbersIn, Zenon DEF Lost
  <2> QED  BY <2>1, <2>2, <2>3, GiveTypes, Zenon DEF Lists
<1>18. CASE ScanStops
  BY <1>18, Zenon DEF ScanStops, SetTimer, Lists, buffer, locals, originator,
     history
<1>19. CASE ScanEnds
  BY <1>19, Zenon DEF ScanEnds, Lists, buffer, locals, originator, history
<1>20. CASE Rearm
  BY <1>20, Zenon DEF Rearm, Lists, buffer, locals, originator, history
<1>21. CASE Unlock
  BY <1>21, Zenon DEF Unlock, Lists, buffer, locals, originator, history
<1>22. CASE TimerFires
  BY <1>22, Zenon DEF TimerFires, Lists, buffer, locals, originator, history
<1>23. CASE sta_rx_agg_reorder_timer_expired
  BY <1>23, Zenon DEF sta_rx_agg_reorder_timer_expired, Lists, buffer, locals,
     originator, history
<1>24. CASE ieee80211_release_reorder_timeout
  BY <1>24, Zenon DEF ieee80211_release_reorder_timeout, Lock, Lists, buffer,
     locals, originator, history
<1>25. CASE Tick
  BY <1>25, Zenon DEF Tick, Lists, buffer, locals, originator, history
<1>26. CASE Unpublish
  BY <1>26, Zenon DEF Unpublish, Lists, buffer, locals, originator, history
<1>27. CASE MarkRemoved
  BY <1>27, Zenon DEF MarkRemoved, Lists, buffer, locals, originator, history
<1>28. CASE DeleteTimer
  BY <1>28, Zenon DEF DeleteTimer, Lists, buffer, locals, originator, history
<1>29. CASE ieee80211_free_tid_rx
  BY <1>29, Zenon DEF ieee80211_free_tid_rx, Lists, buffer, locals, originator,
     history
<1>30. CASE \E a \in Actors : Deliver(a)
  <2>1. PICK a \in Actors : Deliver(a)
    BY <1>30, Zenon
  <2>2. frames' = [frames EXCEPT ![a] = <<>>] /\ UNCHANGED <<out, seen, late>>
    BY <2>1, Zenon DEF Deliver, history
  <2>3. <<>> \in Seq(Skb)
    OBVIOUS
  <2> QED  BY <2>2, <2>3, Zenon DEF Lists
<1>31. CASE UNCHANGED vars
  BY <1>31, Zenon DEF Lists, vars, buffer, locals, originator, history
<1> QED
  BY <1>1, <1>2, <1>3, <1>4, <1>5, <1>6, <1>7, <1>8, <1>9, <1>10, <1>11, <1>12,
     <1>13, <1>14, <1>15, <1>16, <1>17, <1>18, <1>19, <1>20, <1>21, <1>22,
     <1>23, <1>24, <1>25, <1>26, <1>27, <1>28, <1>29, <1>30, <1>31, Zenon DEF
     Next, Traffic, Receive, Locked, Timer, Stop

(* The types hold at the start.                                            *)
LEMMA InitShapes == Init => Shapes
<1> SUFFICES ASSUME Init PROVE Shapes
  BY Zenon
<1>1. Lists
  BY DEF Init, Lists
<1>2. Sn(1) \in 0 .. SN_MODULO - 1
  BY SnFacts
<1>3. Scalars
  <2>1. auto_seq \in BOOLEAN
    BY SessionAssumption, Zenon DEF Init
  <2>2. head_seq_num \in 0 .. SN_MODULO - 1
    BY <1>2, Positive DEF Init
  <2>3. /\ target \in 0 .. SN_MODULO - 1 /\ stored_mpdu_num \in 0 .. U16 - 1
        /\ skipped \in 0 .. BufSize
    BY Positive DEF Init
  <2>4. started = FALSE /\ removed = FALSE /\ more = FALSE /\ op = "none" /\ waiting = {}
    BY Zenon DEF Init
  <2> QED  BY <2>1, <2>2, <2>3, <2>4, Zenon DEF Scalars
<1> QED  BY <1>1, <1>3, Zenon DEF Shapes

----------------------------------------------------------------------------
(* What a quiet step keeps.                                                *)

(* A quiet step changes neither the slots nor what was passed up.          *)
LEMMA QuietStill ==
    ASSUME Quiet PROVE Still
<1>1. CASE Advance
  BY <1>1, Zenon DEF Advance, Still, buffer, locals, originator, history
<1>2. CASE RxFrame
  BY <1>2, Zenon DEF RxFrame, Arrives, Still, buffer, locals, originator, history
<1>3. CASE RxLastSubframe
  BY <1>3, Zenon DEF RxLastSubframe, Arrives, Still, buffer, locals, originator,
     history
<1>4. CASE LastSubframeLost
  BY <1>4, Zenon DEF LastSubframeLost, Still, buffer, locals, originator, history
<1>5. CASE RxBar
  BY <1>5, Zenon DEF RxBar, Arrives, Still, buffer, locals, originator, history
<1>6. CASE BarLock
  BY <1>6, Zenon DEF BarLock, Lock, Still, buffer, locals, originator, history
<1>7. CASE Duplicate
  BY <1>7, Zenon DEF Duplicate, Still, buffer, locals, originator, history
<1>8. CASE ieee80211_sta_reorder_release
  BY <1>8, Zenon DEF ieee80211_sta_reorder_release, Still, buffer, locals,
     originator, history
<1>9. CASE ScanSkips
  BY <1>9, Zenon DEF ScanSkips, Still, buffer, locals, originator, history
<1>10. CASE ScanStops
  BY <1>10, Zenon DEF ScanStops, SetTimer, Still, buffer, locals, originator,
     history
<1>11. CASE ScanEnds
  BY <1>11, Zenon DEF ScanEnds, Still, buffer, locals, originator, history
<1>12. CASE Rearm
  BY <1>12, Zenon DEF Rearm, Still, buffer, locals, originator, history
<1>13. CASE Unlock
  BY <1>13, Zenon DEF Unlock, Still, buffer, locals, originator, history
<1>14. CASE TimerFires
  BY <1>14, Zenon DEF TimerFires, Still, buffer, locals, originator, history
<1>15. CASE sta_rx_agg_reorder_timer_expired
  BY <1>15, Zenon DEF sta_rx_agg_reorder_timer_expired, Still, buffer, locals,
     originator, history
<1>16. CASE ieee80211_release_reorder_timeout
  BY <1>16, Zenon DEF ieee80211_release_reorder_timeout, Lock, Still, buffer,
     locals, originator, history
<1>17. CASE Tick
  BY <1>17, Zenon DEF Tick, Still, buffer, locals, originator, history
<1>18. CASE Unpublish
  BY <1>18, Zenon DEF Unpublish, Still, buffer, locals, originator, history
<1>19. CASE MarkRemoved
  BY <1>19, Zenon DEF MarkRemoved, Still, buffer, locals, originator, history
<1>20. CASE DeleteTimer
  BY <1>20, Zenon DEF DeleteTimer, Still, buffer, locals, originator, history
<1>21. CASE \E a \in Actors : Deliver(a)
  BY <1>21, Zenon DEF Deliver, Still, buffer, locals, originator, history
<1>22. CASE UNCHANGED vars
  BY <1>22, Zenon DEF Still, vars, buffer, locals, originator, history
<1> QED
  BY <1>1, <1>2, <1>3, <1>4, <1>5, <1>6, <1>7, <1>8, <1>9, <1>10, <1>11, <1>12,
     <1>13, <1>14, <1>15, <1>16, <1>17, <1>18, <1>19, <1>20, <1>21, <1>22, Zenon
     DEF Quiet

(* What was passed up stays in order when nothing is added.                *)
LEMMA InOrderStays ==
    ASSUME InOrder, out' = out PROVE InOrder'
<1>1. ASSUME NEW b, LeftBehind(b) PROVE LeftBehind(b)'
  <2>1. PICK c \in b + 1 .. Len(out) :
          /\ out[b].n < out[c].n
          /\ \A k \in b .. c : Index(Sn(out[k].n)) = Index(Sn(out[b].n))
    BY <1>1, Zenon DEF LeftBehind
  <2>2. c \in b + 1 .. Len(out') /\ out'[b].more /\ out'[b].n < out'[c].n
    BY <1>1, <2>1, Zenon DEF LeftBehind
  <2>3. \A k \in b .. c : Index(Sn(out'[k].n)) = Index(Sn(out'[b].n))
    BY <2>1, Zenon
  <2> QED  BY <2>2, <2>3, Zenon DEF LeftBehind
<1> QED  BY <1>1, Zenon DEF InOrder

(* What holds of the slots and of what was passed up holds after a still   *)
(* step.                                                                   *)
LEMMA StillKeeps ==
    ASSUME Still, NEW h
    PROVE  /\ Kept => Kept'
           /\ InOrder => InOrder'
           /\ OutOK(h) => OutOK(h)'
           /\ (\A s \in Slots : SlotOK(h, s)) => (\A s \in Slots : SlotOK(h, s))'
<1>1. reorder' = reorder /\ out' = out /\ seen' = seen
  BY Zenon DEF Still
<1> USE <1>1
<1>2. Kept => Kept'
  BY DEF Kept, Numbers, Stored
<1>3. InOrder => InOrder'
  BY InOrderStays, Zenon
<1>4. OutOK(h) => OutOK(h)'
  BY Zenon DEF OutOK
<1>5. (\A s \in Slots : SlotOK(h, s)) => (\A s \in Slots : SlotOK(h, s))'
  BY DEF SlotOK, Numbers
<1> QED  BY <1>2, <1>3, <1>4, <1>5, Zenon

(* How far the head and the originator's window can be apart.              *)
LEMMA HeadRange ==
    ASSUME HalfRange, Inv, Shapes, Sender, NEW h \in Nat, HeadOK(h)
    PROVE  /\ h <= win + BufSize
           /\ ~(op = "release" /\ then = "insert") => win + BufSize - 1 < h + Half
<1>1. /\ win \in Int /\ \A k \in seen : k \in Int
      /\ BufSize \in Int /\ BufSize >= 1 /\ MaxLag \in Int /\ MaxLag >= 0 /\ Half \in Int
  BY Positive, Halves, ReorderAssumption DEF Inv, Types, Shapes, Lists, Frames
<1> USE <1>1
<1>2. h <= win + BufSize
  BY DEF HeadOK, Sender
<1>3. ASSUME ~(op = "release" /\ then = "insert") PROVE win + BufSize - 1 < h + Half
  <2>1. CASE win = 1
    BY <2>1 DEF HalfRange
  <2>2. CASE \E k \in seen \cup {0} : win <= k + MaxLag
    <3>1. PICK k \in seen \cup {0} : win <= k + MaxLag
      BY <2>2, Zenon
    <3>2. k \in Int /\ k <= h + BufSize - 1
      BY <1>3, <3>1 DEF HeadOK
    <3> QED  BY <3>1, <3>2 DEF HalfRange
  <2> QED  BY <2>1, <2>2, Zenon DEF Sender
<1> QED  BY <1>2, <1>3, Zenon

(* A quiet step keeps the head where it is: a frame or a Block Ack request *)
(* that comes in is in range of the head, and the search for timed-out     *)
(* frames stays in step with its count.                                    *)
LEMMA QuietHead ==
    ASSUME HalfRange, Inv, Shapes, Sender, NEW h \in Nat, HeadOK(h), Quiet
    PROVE  HeadOK(h)'
<1>1. UNCHANGED <<head_seq_num, seen, reorder>> /\ head_seq_num = Sn(h)
  BY QuietStill, Zenon DEF Still, HeadOK
<1>2. \A s : ieee80211_rx_reorder_ready(s)' <=> ieee80211_rx_reorder_ready(s)
  BY <1>1, Zenon DEF ieee80211_rx_reorder_ready
<1>3. win \in Int /\ win >= 1 /\ Half \in Int /\ BufSize \in Int /\ BufSize >= 1
  BY Positive, Halves, ReorderAssumption DEF Inv, Types, Frames, Sender
<1>4. CASE Advance
  <2>1. win' = win + 1 /\ UNCHANGED <<step, skb, more, op, target, then, j, skipped>>
    BY <1>4, Zenon DEF Advance, locals
  <2>2. h <= win => h <= win'
    BY <1>3, <2>1
  <2>3. Carried' = Carried
    BY <2>1, Zenon DEF Carried, Pending, Placing
  <2> QED  BY <1>1, <1>2, <2>1, <2>2, <2>3, Zenon DEF HeadOK
<1>5. CASE RxFrame \/ RxLastSubframe \/ RxBar
  <2>1. /\ step["rx"] = "idle" /\ UNCHANGED <<op, target, then, j, skipped, win>>
        /\ \/ step'["rx"] = "frame" /\ h <= skb'.n + BufSize + 1 /\ skb'.n < h + Half
           \/ /\ step'["rx"] = "bar" /\ ~more'
              /\ h <= skb'.n + BufSize /\ skb'.n < h + Half
    <3>1. CASE RxFrame
      <4>1. PICK n \in Frames :
              /\ n \in win .. win + BufSize - 1 \/ (win = 1 /\ n = 0 /\ (started \/ n \notin seen))
              /\ skb'.n = n /\ step["rx"] = "idle" /\ step'["rx"] = "frame"
              /\ op # "release" /\ UNCHANGED <<op, target, then, j, skipped, win>>
        BY <3>1, RxFrameArrives, Zenon
      <4>2. h <= win + BufSize /\ win + BufSize - 1 < h + Half
        BY <4>1, HeadRange, Zenon
      <4>3. h <= n + BufSize + 1 /\ n < h + Half
        BY <1>3, <4>1, <4>2 DEF Frames
      <4> QED  BY <4>1, <4>3, Zenon
    <3>2. CASE RxLastSubframe
      <4>1. /\ skb'.n = skb.n /\ step["rx"] = "idle" /\ step'["rx"] = "frame" /\ more
            /\ UNCHANGED <<op, target, then, j, skipped, win>>
        BY <3>2, RxLastArrives, Zenon
      <4> QED  BY <4>1, Zenon DEF HeadOK, Carried
    <3>3. CASE RxBar
      <4>1. /\ skb'.n = win /\ step["rx"] = "idle" /\ step'["rx"] = "bar" /\ ~more'
            /\ op # "release" /\ UNCHANGED <<op, target, then, j, skipped, win>>
        BY <3>3, RxBarArrives, Zenon
      <4>2. h <= win + BufSize /\ win + BufSize - 1 < h + Half
        BY <4>1, HeadRange, Zenon
      <4> QED  BY <1>3, <4>1, <4>2
    <3> QED  BY <1>5, <3>1, <3>2, <3>3, Zenon
  <2>2. op \notin {"release", "insert"}
    BY <2>1, Zenon DEF Sender, Inv, Control, Actors
  <2>3. step'["rx"] = "bar" => ~Carried'
    BY <2>1, <2>2, Zenon DEF Carried, Pending, Placing
  <2>4. /\ Carried' => h <= skb'.n + BufSize + 1 /\ skb'.n < h + Half
        /\ step'["rx"] = "bar" => h <= skb'.n + BufSize /\ skb'.n < h + Half
    BY <2>1, <2>3, Zenon
  <2> QED  BY <1>1, <1>2, <2>1, <2>2, <2>4, Zenon DEF HeadOK
<1>6. CASE LastSubframeLost \/ Duplicate
  <2>1. /\ UNCHANGED <<step, skb, target, then, j, skipped, win>> /\ (more' => more)
        /\ op' = op \/ (op = "insert" /\ op' = "unlock")
    BY <1>6 DEF LastSubframeLost, Duplicate, locals, originator
  <2>2. Carried' => Carried
    BY <2>1, Zenon DEF Carried, Pending, Placing
  <2> QED  BY <1>1, <1>2, <2>1, <2>2, Zenon DEF HeadOK
<1>7. CASE BarLock
  <2>1. /\ step["rx"] = "bar" /\ step'["rx"] = "locked" /\ lock = "free"
        /\ op' = "release" /\ target' = Sn(skb.n) /\ then' = "unlock"
        /\ UNCHANGED <<skb, more, win>>
    BY <1>7, Zenon DEF BarLock, Lock, Inv, Types, Actors, originator
  <2>2. ~Carried' /\ op # "release"
    BY <2>1, Zenon DEF Carried, Pending, Placing, Sender
  <2> QED  BY <1>1, <2>1, <2>2, Zenon DEF HeadOK
<1>8. ASSUME Minor
      PROVE  /\ UNCHANGED <<win>> /\ (Carried' <=> Carried) /\ (Carried => skb' = skb)
             /\ op' \in {"release", "insert"} => UNCHANGED <<op, target, then, skb>>
             /\ op = "release" => op' = "release"
             /\ step'["rx"] = "bar" => UNCHANGED <<step["rx"], skb>>
  BY <1>8, MinorKeeps, Zenon DEF Minor
<1>9. CASE Minor /\ (op' = "scan" => UNCHANGED <<op, j, skipped>>)
  BY <1>1, <1>2, <1>8, <1>9, Zenon DEF HeadOK
<1>10. CASE Minor /\ ieee80211_sta_reorder_release
  <2>1. op = "flush" /\ (op' = "run" \/ op' = "scan")
    BY <1>10, Zenon DEF ieee80211_sta_reorder_release
  <2>2. ASSUME op' = "scan"
        PROVE  /\ j' = Next1(Index(head_seq_num)) /\ skipped' = 1
               /\ ~ieee80211_rx_reorder_ready(Index(head_seq_num))
    BY <1>10, <2>2, Zenon DEF ieee80211_sta_reorder_release
  <2>3. Index(Sn(h + 1)) = Next1(Index(Sn(h)))
    BY SlotNext DEF HalfRange
  <2>4. ASSUME op' = "scan"
        PROVE  /\ j' = Index(Sn(h + skipped'))
               /\ \A i \in 0 .. skipped' - 1 : ~ieee80211_rx_reorder_ready(Index(Sn(h + i)))
    <3>1. j' = Index(Sn(h + skipped'))
      BY <1>1, <2>2, <2>3, <2>4, Zenon
    <3>2. (\A i \in 0 .. skipped' - 1 : i = 0) /\ h + 0 = h
      BY <2>2, <2>4
    <3>3. ~ieee80211_rx_reorder_ready(Index(Sn(h + 0)))
      BY <1>1, <2>2, <2>4, <3>2, Zenon
    <3> QED  BY <3>1, <3>2, <3>3, Zenon
  <2> QED  BY <1>1, <1>2, <1>8, <1>10, <2>1, <2>4, Zenon DEF HeadOK
<1>11. CASE Minor /\ ScanSkips
  <2>1. /\ op = "scan" /\ op' = op /\ skipped' = skipped + 1 /\ j' = Next1(j)
        /\ ~ieee80211_rx_reorder_ready(j) /\ skipped \in Int /\ skipped >= 0
    BY <1>11, Positive DEF ScanSkips, Shapes, Scalars
  <2>2. j' = Index(Sn(h + skipped'))
    <3> DEFINE x == h + skipped
    <3>1. x \in Int /\ j = Index(Sn(x)) /\ x + 1 = h + skipped'
      BY <2>1 DEF HeadOK
    <3> HIDE DEF x
    <3>2. Index(Sn(x + 1)) = Next1(j)
      BY <3>1, SlotNext, Zenon DEF HalfRange
    <3> QED  BY <2>1, <3>1, <3>2, Zenon
  <2>3. \A i \in 0 .. skipped' - 1 : ~ieee80211_rx_reorder_ready(Index(Sn(h + i)))
    <3>1. \A i \in 0 .. skipped' - 1 : i \in 0 .. skipped - 1 \/ i = skipped
      BY <2>1
    <3>2. ~ieee80211_rx_reorder_ready(Index(Sn(h + skipped)))
      BY <2>1, Zenon DEF HeadOK
    <3>3. \A i \in 0 .. skipped - 1 : ~ieee80211_rx_reorder_ready(Index(Sn(h + i)))
      BY <2>1, Zenon DEF HeadOK
    <3> QED  BY <3>1, <3>2, <3>3, Zenon
  <2> QED  BY <1>1, <1>2, <1>8, <1>11, <2>1, <2>2, <2>3, Zenon DEF HeadOK
<1> QED
  BY <1>4, <1>5, <1>6, <1>7, <1>9, <1>10, <1>11, QuietMinor, Zenon

(* A frame that comes in before the session has started is the early one   *)
(* or at least at the head.                                                *)
LEMMA QuietNotStarted ==
    ASSUME Inv, Sender, Kept, NEW h \in Nat, NotStarted(h), Quiet
    PROVE  NotStarted(h)'
<1>1. h \in Int /\ win \in Int /\ skb.n \in Int
  BY ReorderAssumption DEF Inv, Types, Frames, Skb
<1>2. UNCHANGED <<seen, started, reorder, out>>
  BY QuietStill, Zenon DEF Still
<1>3. CASE Advance
  <2>1. win' = win + 1 /\ UNCHANGED <<step, skb, more, op, then>>
    BY <1>3, Zenon DEF Advance, locals
  <2> QED  BY <1>1, <1>2, <2>1 DEF NotStarted, Carried, Pending, Placing
<1>4. CASE RxFrame
  <2>1. PICK n \in Frames :
          /\ n \in win .. win + BufSize - 1 \/ (win = 1 /\ n = 0 /\ (started \/ n \notin seen))
          /\ skb'.n = n /\ win' = win
    BY <1>4, RxFrameArrives, Zenon
  <2>2. n \in Int /\ BufSize \in Int
    BY Positive DEF Frames
  <2>3. ~started => n = 0 \/ n >= h
    BY <1>1, <2>1, <2>2 DEF NotStarted
  <2>4. ~started /\ n = 0 => 0 \notin seen
    BY <1>1, <2>1, <2>2 DEF Sender
  <2>5. ~started /\ n = 0 => \A a \in 1 .. Len(out) : out[a].more
    BY <2>4, Zenon DEF NotStarted, Kept, Numbers
  <2> QED  BY <1>2, <2>1, <2>3, <2>5, Zenon DEF NotStarted
<1>5. CASE RxLastSubframe
  <2>1. more /\ skb'.n = skb.n /\ win' = win
    BY <1>5, RxLastArrives, Zenon
  <2> QED  BY <1>2, <2>1, Zenon DEF NotStarted, Carried
<1>6. CASE RxBar
  <2>1. win' = win /\ ~more' /\ step'["rx"] = "bar" /\ op' \notin {"release", "insert"}
    BY <1>6, RxBarArrives, Zenon
  <2>2. ~Carried'
    BY <2>1, Zenon DEF Carried, Pending, Placing
  <2> QED  BY <1>2, <2>1, <2>2, Zenon DEF NotStarted
<1>7. CASE LastSubframeLost \/ BarLock \/ Duplicate
  <2>1. (Carried' => Carried) /\ skb' = skb /\ win' = win
    <3>1. CASE LastSubframeLost
      BY <3>1, Zenon DEF LastSubframeLost, Carried, Pending, Placing, locals
    <3>2. CASE BarLock
      BY <3>2, Zenon DEF BarLock, Carried, Pending, Placing, originator, Inv, Types, Actors
    <3>3. CASE Duplicate
      BY <3>3, Zenon DEF Duplicate, Carried, Pending, Placing, originator
    <3> QED  BY <1>7, <3>1, <3>2, <3>3, Zenon
  <2> QED  BY <1>2, <2>1, Zenon DEF NotStarted
<1>8. CASE Minor
  <2>1. (Carried' <=> Carried) /\ (Carried => skb' = skb) /\ win' = win
    BY <1>8, MinorKeeps, Zenon DEF Minor
  <2> QED  BY <1>2, <2>1, Zenon DEF NotStarted
<1> QED
  BY <1>3, <1>4, <1>5, <1>6, <1>7, <1>8, QuietMinor, Zenon

(* Of the quiet steps only Duplicate ends the placing of a frame.          *)
LEMMA QuietPlacing ==
    ASSUME Inv, Sender, Quiet
    PROVE  /\ Placing' => Placing /\ skb' = skb
           /\ Placing => Placing' \/ Duplicate
           /\ life = "freed" => life' = "freed"
<1>1. CASE Advance
  <2>1. UNCHANGED <<step, skb, more, op, then, life>>
    BY <1>1, Zenon DEF Advance, locals
  <2> QED  BY <2>1, Zenon DEF Placing
<1>2. CASE \/ RxFrame \/ RxLastSubframe \/ RxBar
  <2>1. op \notin {"release", "insert"} /\ op' = op /\ life' = life
    BY <1>2, RxFrameArrives, RxLastArrives, RxBarArrives, Zenon
  <2>2. ~Placing /\ ~Placing'
    BY <2>1, Zenon DEF Placing
  <2> QED  BY <2>1, <2>2, Zenon
<1>3. CASE LastSubframeLost
  <2>1. more /\ ~more' /\ UNCHANGED <<step, skb, op, then, life>>
    BY <1>3, Zenon DEF LastSubframeLost, locals
  <2> QED  BY <2>1, Zenon DEF Placing
<1>4. CASE BarLock
  <2>1. /\ step["rx"] = "bar" /\ step'["rx"] = "locked" /\ then' = "unlock"
        /\ lock = "free" /\ UNCHANGED <<skb, more, life>>
    BY <1>4, Zenon DEF BarLock, Lock, originator, Inv, Types, Actors
  <2>2. ~Placing /\ ~Placing'
    BY <2>1, Zenon DEF Placing, Sender
  <2> QED  BY <2>1, <2>2, Zenon
<1>5. CASE Duplicate
  <2>1. /\ op = "insert" /\ op' = "unlock" /\ UNCHANGED <<step, skb, more, then, life>>
    BY <1>5, Zenon DEF Duplicate, originator
  <2>2. Placing /\ ~Placing'
    BY <2>1, Zenon DEF Placing, Sender
  <2> QED  BY <1>5, <2>1, <2>2, Zenon
<1>6. CASE Minor
  <2>1. Placing => Carried
    BY Zenon DEF Carried, Pending
  <2> QED  BY <1>6, <2>1, MinorKeeps, Zenon DEF Minor
<1> QED
  BY <1>1, <1>2, <1>3, <1>4, <1>5, <1>6, QuietMinor, Zenon

(* No quiet step loses a frame: what Duplicate drops is in its slot.       *)
LEMMA QuietAcc ==
    ASSUME HalfRange, Inv, Shapes, Sender, NEW h \in Nat, HeadOK(h),
           \A s \in Slots : SlotOK(h, s), Acc, Quiet
    PROVE  Acc'
<1>1. UNCHANGED <<out, seen, late, reorder>>
  BY QuietStill, Zenon DEF Still
<1>2. UNCHANGED <<Numbers(out), Stored>>
  BY <1>1 DEF Numbers, Stored
<1>3. CASE Duplicate
  <2>1. op = "insert" /\ ieee80211_rx_reorder_ready(Slot) /\ Slot \in Slots
    <3>1. skb.n \in Int
      BY DEF Inv, Types, Skb, Frames
    <3> QED  BY <1>3, <3>1, SlotSame, Zenon DEF Duplicate, Slot, HalfRange
  <2> USE <2>1
  <2> DEFINE l == Len(reorder[Slot])
             e == reorder[Slot][l]
  <2>2. l \in 1 .. Len(reorder[Slot]) /\ e \in Skb /\ ~e.more
    <3>1. reorder[Slot] \in Seq(Skb) /\ reorder[Slot] # <<>>
      BY Zenon DEF Inv, Types, ieee80211_rx_reorder_ready
    <3>2. l \in 1 .. Len(reorder[Slot]) /\ e \in Skb
      BY <3>1, ListEmpty, ListLength, ListElement
    <3> QED  BY <3>2, Zenon DEF ieee80211_rx_reorder_ready
  <2>3. Index(Sn(e.n)) = Slot /\ e.n < h + BufSize /\ e.n >= h
    BY <2>2, Zenon DEF SlotOK
  <2>4. h <= skb.n /\ skb.n < h + BufSize
    BY Zenon DEF HeadOK
  <2>5. e.n = skb.n
    <3> DEFINE x == e.n
               y == skb.n
    <3>1. x \in Int /\ y \in Int /\ BufSize \in Int
      BY <2>2, Positive DEF Inv, Types, Skb, Frames
    <3>2. x - y < BufSize /\ y - x < BufSize
      BY <2>3, <2>4, <3>1
    <3>3. Index(Sn(x)) = Index(Sn(y))
      BY <2>3, Zenon DEF Slot
    <3> HIDE DEF x, y
    <3>4. x = y
      BY <3>1, <3>2, <3>3, SlotApart, Zenon DEF HalfRange
    <3> QED  BY <3>4, Zenon DEF x, y
  <2>6. skb.n \in Stored
    BY <2>2, <2>5 DEF Stored, Numbers
  <2>7. ~Placing' /\ life' = life
    BY <1>3, Zenon DEF Duplicate, Placing
  <2> QED  BY <1>1, <1>2, <2>6, <2>7, Zenon DEF Acc
<1>4. CASE ~Duplicate
  <2>1. (Placing' <=> Placing) /\ (Placing => skb' = skb) /\ (life = "freed" => life' = "freed")
    BY <1>4, QuietPlacing, Zenon
  <2> QED  BY <1>1, <1>2, <2>1, Zenon DEF Acc
<1> QED  BY <1>3, <1>4, Zenon

(* A quiet step leaves an untouched session untouched.                     *)
LEMMA QuietUntouched ==
    ASSUME Untouched, Quiet
    PROVE  Untouched' /\ auto_seq' = auto_seq
<1>1. UNCHANGED <<out, seen, late, started, reorder, auto_seq>>
  BY QuietStill, Zenon DEF Still
<1>2. then' = then \/ then' = "unlock"
  BY Zenon DEF Quiet, Advance, RxFrame, RxLastSubframe, LastSubframeLost, RxBar,
     BarLock, Duplicate, ieee80211_sta_reorder_release, ScanSkips, ScanStops,
     ScanEnds, Rearm, Unlock, TimerFires, sta_rx_agg_reorder_timer_expired,
     ieee80211_release_reorder_timeout, Tick, Unpublish, MarkRemoved,
     DeleteTimer, Deliver, Arrives, locals, vars
<1> QED  BY <1>1, <1>2, Zenon DEF Untouched

----------------------------------------------------------------------------
(* Passing frames up.                                                      *)

(* What is passed up after a list was appended.                            *)
LEMMA OutAppend ==
    ASSUME out \in Seq(Skb), NEW list \in Seq(Skb), out' = out \o list
    PROVE  /\ out' \in Seq(Skb) /\ Len(out) \in Nat /\ Len(list) \in Nat
           /\ Len(out') = Len(out) + Len(list)
           /\ \A a \in 1 .. Len(out) : out'[a] = out[a]
           /\ \A k \in 1 .. Len(list) : out'[Len(out) + k] = list[k]
           /\ \A a \in 1 .. Len(out') :
                \/ a \in 1 .. Len(out) /\ out'[a] = out[a]
                \/ a - Len(out) \in 1 .. Len(list) /\ out'[a] = list[a - Len(out)]
           /\ Numbers(out') = Numbers(out) \cup Numbers(list)
<1>1. /\ out' \in Seq(Skb) /\ Len(out) \in Nat /\ Len(list) \in Nat
      /\ Len(out') = Len(out) + Len(list)
      /\ \A a \in 1 .. Len(out) : out'[a] = out[a]
      /\ \A k \in 1 .. Len(list) : out'[Len(out) + k] = list[k]
  BY ListJoin, ListLength
<1>2. \A a \in 1 .. Len(out') :
        \/ a \in 1 .. Len(out) /\ out'[a] = out[a]
        \/ a - Len(out) \in 1 .. Len(list) /\ out'[a] = list[a - Len(out)]
  <2> TAKE a \in 1 .. Len(out')
  <2>1. CASE a <= Len(out)
    BY <1>1, <2>1
  <2>2. CASE a > Len(out)
    <3> DEFINE k == a - Len(out)
    <3>1. k \in 1 .. Len(list) /\ a = Len(out) + k
      BY <1>1, <2>2
    <3> QED  BY <1>1, <3>1, Zenon
  <2> QED  BY <1>1, <2>1, <2>2
<1>3. \A k \in 1 .. Len(list) : Len(out) + k \in 1 .. Len(out')
  BY <1>1
<1>4. \A a \in 1 .. Len(out) : a \in 1 .. Len(out')
  BY <1>1
<1>5. Numbers(out') \subseteq Numbers(out) \cup Numbers(list)
  <2> SUFFICES ASSUME NEW a \in 1 .. Len(out') PROVE out'[a].n \in Numbers(out) \cup Numbers(list)
    BY Zenon DEF Numbers
  <2>1. CASE a \in 1 .. Len(out) /\ out'[a] = out[a]
    BY <2>1, Zenon DEF Numbers
  <2>2. CASE a - Len(out) \in 1 .. Len(list) /\ out'[a] = list[a - Len(out)]
    BY <2>2, Zenon DEF Numbers
  <2> QED  BY <1>2, <2>1, <2>2, Zenon
<1>6. Numbers(out) \cup Numbers(list) \subseteq Numbers(out')
  <2>1. \A a \in 1 .. Len(out) : out[a].n \in Numbers(out')
    <3> TAKE a \in 1 .. Len(out)
    <3>1. a \in 1 .. Len(out') /\ out[a].n = out'[a].n
      BY <1>1, <1>4, Zenon
    <3> QED  BY <3>1, Zenon DEF Numbers
  <2>2. \A k \in 1 .. Len(list) : list[k].n \in Numbers(out')
    <3> TAKE k \in 1 .. Len(list)
    <3>1. Len(out) + k \in 1 .. Len(out') /\ list[k].n = out'[Len(out) + k].n
      BY <1>1, <1>3, Zenon
    <3> QED  BY <3>1, Zenon DEF Numbers
  <2> QED  BY <2>1, <2>2, Zenon DEF Numbers
<1> QED  BY <1>1, <1>2, <1>5, <1>6, Zenon

(* The types of what a slot holds.                                         *)
LEMMA ReadyList ==
    ASSUME Inv, NEW i \in Slots
    PROVE  /\ reorder[i] \in Seq(Skb) /\ Len(reorder[i]) \in Nat
           /\ \A k \in 1 .. Len(reorder[i]) : reorder[i][k] \in Skb /\ reorder[i][k].n \in Nat
           /\ reorder[i] # <<>> => Len(reorder[i]) \in 1 .. Len(reorder[i])
<1>1. reorder[i] \in Seq(Skb) /\ Len(reorder[i]) \in Nat
  BY DEF Inv, Types
<1>2. \A k \in 1 .. Len(reorder[i]) : reorder[i][k] \in Skb /\ reorder[i][k].n \in Nat
  <2>1. \A k \in 1 .. Len(reorder[i]) : reorder[i][k] \in Skb
    BY <1>1, ListElement, Zenon
  <2>2. \A f \in Skb : f.n \in Nat
    BY ReorderAssumption DEF Skb, Frames
  <2> QED  BY <2>1, <2>2, Zenon
<1>3. reorder[i] # <<>> => Len(reorder[i]) \in 1 .. Len(reorder[i])
  BY <1>1, ListEmpty
<1> QED  BY <1>1, <1>2, <1>3, Zenon

(* The list of a ready slot ends with the highest of its numbers, which is *)
(* not before the head; an entry with a lower one is a first subframe.     *)
LEMMA LastOfSlot ==
    ASSUME Inv, NEW h \in Nat, NEW i \in Slots, SlotOK(h, i),
           ieee80211_rx_reorder_ready(i)
    PROVE  LET list == reorder[i]
               m == list[Len(list)].n
           IN  /\ m \in Nat /\ m >= h /\ m < h + BufSize /\ Index(Sn(m)) = i
               /\ \A k \in 1 .. Len(list) : list[k].n <= m
               /\ \A k \in 1 .. Len(list) : list[k].n < m => k < Len(list) /\ list[k].more
<1> DEFINE list == reorder[i]
           l == Len(list)
           m == list[l].n
<1>1. l \in 1 .. l /\ list[l] \in Skb /\ m \in Nat /\ ~list[l].more /\ l \in Nat
  BY ReadyList, Zenon DEF ieee80211_rx_reorder_ready
<1>2. m >= h /\ m < h + BufSize /\ Index(Sn(m)) = i
  BY <1>1, Zenon DEF SlotOK
<1>3. \A k \in 1 .. l : list[k].n <= m
  <2> TAKE k \in 1 .. l
  <2>1. list[k].n \in Nat
    BY ReadyList, Zenon
  <2>2. CASE k = l
    BY <2>1, <2>2
  <2>3. CASE k < l
    BY <1>1, <2>3, Zenon DEF SlotOK
  <2> QED  BY <1>1, <2>2, <2>3
<1>4. \A k \in 1 .. l : list[k].n < m => k < l /\ list[k].more
  <2>1. \A k \in 1 .. l : list[k].n < m => k < l
    BY <1>1
  <2> QED  BY <2>1, Zenon DEF SlotOK
<1> QED  BY <1>1, <1>2, <1>3, <1>4, Zenon

(* A frame that was left behind stays so when more is passed up.           *)
LEMMA LeftBehindStays ==
    ASSUME out \in Seq(Skb), NEW list \in Seq(Skb), out' = out \o list,
           NEW b \in 1 .. Len(out), LeftBehind(b)
    PROVE  LeftBehind(b)'
<1>1. PICK c \in b + 1 .. Len(out) :
        /\ out[b].n < out[c].n
        /\ \A k \in b .. c : Index(Sn(out[k].n)) = Index(Sn(out[b].n))
  BY Zenon DEF LeftBehind
<1>2. /\ Len(out') = Len(out) + Len(list) /\ Len(out) \in Nat /\ Len(list) \in Nat
      /\ \A a \in 1 .. Len(out) : out'[a] = out[a]
  BY OutAppend, Zenon
<1>3. c \in b + 1 .. Len(out') /\ c \in 1 .. Len(out) /\ \A k \in b .. c : k \in 1 .. Len(out)
  BY <1>1, <1>2
<1>4. out'[b] = out[b] /\ out'[c] = out[c] /\ \A k \in b .. c : out'[k] = out[k]
  BY <1>2, <1>3, Zenon
<1>5. \A k \in b .. c : Index(Sn(out'[k].n)) = Index(Sn(out'[b].n))
  BY <1>1, <1>4, Zenon
<1>6. out'[b].more /\ out'[b].n < out'[c].n
  BY <1>1, <1>4, Zenon DEF LeftBehind
<1> QED  BY <1>3, <1>5, <1>6, Zenon DEF LeftBehind

(* Passing up the list of a ready slot keeps the order.                    *)
LEMMA GiveSlot ==
    ASSUME Inv, Shapes, InOrder, NEW h \in Nat, OutOK(h), NEW i \in Slots,
           SlotOK(h, i),
           ieee80211_rx_reorder_ready(i), out' = out \o reorder[i]
    PROVE  /\ InOrder'
           /\ \A a \in 1 .. Len(out') : out'[a].n <= reorder[i][Len(reorder[i])].n
<1> DEFINE list == reorder[i]
           l == Len(list)
           m == list[l].n
           o == Len(out)
<1>1. out \in Seq(Skb) /\ list \in Seq(Skb)
  BY ReadyList, Zenon DEF Shapes, Lists
<1>2. /\ o \in Nat /\ l \in Nat /\ Len(out') = o + l
      /\ \A a \in 1 .. o : out'[a] = out[a]
      /\ \A k \in 1 .. l : out'[o + k] = list[k]
      /\ \A a \in 1 .. Len(out') :
           \/ a \in 1 .. o /\ out'[a] = out[a]
           \/ a - o \in 1 .. l /\ out'[a] = list[a - o]
  BY <1>1, OutAppend, Zenon
<1>3. /\ m \in Nat /\ m >= h /\ m < h + BufSize /\ Index(Sn(m)) = i
      /\ \A k \in 1 .. l : list[k].n <= m
      /\ \A k \in 1 .. l : list[k].n < m => k < l /\ list[k].more
  BY LastOfSlot, Zenon
<1>4. \A a \in 1 .. o : out[a].n \in Nat /\ (out[a].n < h \/ (out[a].n = h /\ out[a].more))
  <2>1. \A a \in 1 .. o : out[a] \in Skb
    BY <1>1, ListElement, Zenon
  <2>2. \A f \in Skb : f.n \in Nat
    BY ReorderAssumption DEF Skb, Frames
  <2> QED  BY <2>1, <2>2 DEF OutOK
<1>5. \A k \in 1 .. l : list[k].n \in Nat
  BY ReadyList, Zenon
<1>6. \A a \in 1 .. Len(out') : out'[a].n <= m
  BY <1>2, <1>3, <1>4, <1>5
<1>7. ASSUME NEW a \in 1 .. Len(out'), NEW b \in 1 .. Len(out'), a < b
      PROVE  \/ out'[a].n < out'[b].n
             \/ out'[a].n = out'[b].n /\ out'[a].more
             \/ LeftBehind(b)'
  <2>1. CASE b \in 1 .. o
    <3>1. a \in 1 .. o
      BY <1>2, <1>7, <2>1
    <3>2. out'[a] = out[a] /\ out'[b] = out[b]
      BY <1>2, <2>1, <3>1, Zenon
    <3>3. LeftBehind(b) => LeftBehind(b)'
      BY <1>1, <2>1, LeftBehindStays, Zenon
    <3>4. \/ out[a].n < out[b].n
          \/ out[a].n = out[b].n /\ out[a].more
          \/ LeftBehind(b)
      BY <1>7, <2>1, <3>1, Zenon DEF InOrder
    <3> QED  BY <3>2, <3>3, <3>4, Zenon
  <2>2. CASE b - o \in 1 .. l /\ a \in 1 .. o
    <3> DEFINE k == b - o
    <3>1. k \in 1 .. l /\ out'[b] = list[k] /\ out'[a] = out[a]
      <4>1. b \notin 1 .. o
        BY <1>2, <2>2
      <4> QED  BY <1>2, <2>2, <4>1, Zenon
    <3>2. CASE list[k].n = m
      BY <1>3, <1>4, <2>2, <3>1, <3>2
    <3>3. CASE list[k].n < m
      <4> DEFINE c == o + l
      <4>1. /\ c \in b + 1 .. Len(out') /\ out'[c] = list[l] /\ list[k].more
        <5>1. k < l /\ list[k].more /\ l \in 1 .. l
          BY <1>2, <1>3, <3>1, <3>3
        <5>2. c \in b + 1 .. Len(out')
          BY <1>2, <3>1, <5>1
        <5> QED  BY <1>2, <5>1, <5>2, Zenon
      <4>2. ASSUME NEW q \in b .. c PROVE Index(Sn(out'[q].n)) = i
        <5>1. q - o \in 1 .. l /\ q = o + (q - o)
          BY <1>2, <2>2
        <5>2. out'[q] = list[q - o]
          BY <1>2, <5>1, Zenon
        <5> QED  BY <5>1, <5>2, Zenon DEF SlotOK
      <4>3. Index(Sn(out'[b].n)) = i
        BY <3>1, Zenon DEF SlotOK
      <4> QED  BY <3>1, <3>3, <4>1, <4>2, <4>3, Zenon DEF LeftBehind
    <3> QED  BY <1>3, <1>5, <3>1, <3>2, <3>3
  <2>3. CASE b - o \in 1 .. l /\ a - o \in 1 .. l
    <3> DEFINE k == a - o
               q == b - o
    <3>1. k \in 1 .. l /\ q \in 1 .. l /\ k < q /\ k < l /\ a = o + k /\ b = o + q
      BY <1>2, <1>7, <2>3
    <3>2. out'[a] = list[k] /\ out'[b] = list[q]
      BY <1>2, <3>1, Zenon
    <3>3. list[k].more
      BY <3>1, Zenon DEF SlotOK
    <3>4. list[k].n <= list[q].n
      BY <3>1, Zenon DEF SlotOK
    <3>5. list[k].n \in Nat /\ list[q].n \in Nat
      BY <1>5, <3>1, Zenon
    <3>6. list[k].n < list[q].n \/ list[k].n = list[q].n
      BY <3>4, <3>5
    <3> QED  BY <3>2, <3>3, <3>6, Zenon
  <2> QED  BY <1>2, <1>7, <2>1, <2>2, <2>3, Zenon
<1>8. InOrder'
  BY <1>7, Zenon DEF InOrder
<1> QED  BY <1>6, <1>8, Zenon

(* Slots are emptied, one of them passed up when it is ready, and the head *)
(* moves on to g, which no complete frame in another slot precedes: the    *)
(* order is kept and no frame is lost.  The three ways to release frames   *)
(* share this step.                                                        *)
LEMMA Released ==
    ASSUME HalfRange, Inv, Shapes, Kept, InOrder, NEW h \in Nat, OutOK(h),
           \A s \in Slots : SlotOK(h, s),
           NEW g \in Nat, h < g, NEW gone \in SUBSET Slots, NEW i \in gone,
           reorder' = [s \in Slots |-> IF s \in gone THEN <<>> ELSE reorder[s]],
           \/ /\ ieee80211_rx_reorder_ready(i) /\ out' = out \o reorder[i]
              /\ reorder[i][Len(reorder[i])].n < g
           \/ out' = out /\ Numbers(reorder[i]) \subseteq late',
           late \subseteq late', \A s \in gone \ {i} : Numbers(reorder[s]) \subseteq late',
           seen' = seen,
           \A s \in Slots \ gone : \A k \in 1 .. Len(reorder[s]) :
               ~reorder[s][k].more => reorder[s][k].n >= g
    PROVE  /\ InOrder' /\ OutOK(g)' /\ (\A s \in Slots : SlotOK(g, s))' /\ Kept'
           /\ Numbers(out') \subseteq Numbers(out) \cup Numbers(reorder[i])
           /\ \A n \in Numbers(out') : n < g
           /\ ~ieee80211_rx_reorder_ready(i) => out' = out
           /\ Stored' \subseteq Stored
           /\ \A s \in Slots : Numbers(reorder'[s]) \subseteq Numbers(reorder[s])
           /\ \A s \in Slots : ieee80211_rx_reorder_ready(s)' => ieee80211_rx_reorder_ready(s)
           /\ Numbers(out) \cup Stored \cup late \subseteq Numbers(out') \cup Stored' \cup late'
<1>0. i \in Slots /\ SlotOK(h, i) /\ BufSize \in Int /\ BufSize >= 1
  BY Positive
<1>1. out \in Seq(Skb) /\ reorder[i] \in Seq(Skb)
  BY <1>0, ReadyList, Zenon DEF Shapes, Lists
<1>2. \A a \in 1 .. Len(out) : out[a] \in Skb /\ out[a].n \in Nat /\ out[a].n <= h
  <2>1. \A a \in 1 .. Len(out) : out[a] \in Skb
    BY <1>1, ListElement, Zenon
  <2>2. \A f \in Skb : f.n \in Nat
    BY ReorderAssumption DEF Skb, Frames
  <2> QED  BY <2>1, <2>2 DEF OutOK
<1>3. \A s \in Slots : reorder'[s] = reorder[s] \/ reorder'[s] = <<>>
  BY Zenon
<1>4. \A s \in Slots : reorder'[s] # <<>> => s \notin gone /\ reorder'[s] = reorder[s]
  BY Zenon
<1>5. /\ InOrder' /\ (\A a \in 1 .. Len(out') : out'[a].n < g)
      /\ Numbers(out) \subseteq Numbers(out')
      /\ Numbers(reorder[i]) \subseteq Numbers(out') \cup late'
      /\ Numbers(out') \subseteq Numbers(out) \cup Numbers(reorder[i])
      /\ ~ieee80211_rx_reorder_ready(i) => out' = out
      /\ \A a \in 1 .. Len(out') : out'[a].more => out'[a].n \in Amsdus
  <2>1. CASE /\ ieee80211_rx_reorder_ready(i) /\ out' = out \o reorder[i]
             /\ reorder[i][Len(reorder[i])].n < g
    <3> DEFINE m == reorder[i][Len(reorder[i])].n
    <3>1. InOrder' /\ \A a \in 1 .. Len(out') : out'[a].n <= m
      BY <1>0, <2>1, GiveSlot, Zenon
    <3>2. m \in Nat
      BY <1>0, <2>1, LastOfSlot, Zenon
    <3>3. /\ Numbers(out') = Numbers(out) \cup Numbers(reorder[i]) /\ out' \in Seq(Skb)
          /\ \A a \in 1 .. Len(out') :
               \/ a \in 1 .. Len(out) /\ out'[a] = out[a]
               \/ a - Len(out) \in 1 .. Len(reorder[i]) /\ out'[a] = reorder[i][a - Len(out)]
      BY <1>1, <2>1, OutAppend, Zenon
    <3>4. \A a \in 1 .. Len(out') : out'[a].n \in Nat
      <4>1. \A a \in 1 .. Len(out') : out'[a] \in Skb
        BY <3>3, ListElement, Zenon
      <4>2. \A f \in Skb : f.n \in Nat
        BY ReorderAssumption DEF Skb, Frames
      <4> QED  BY <4>1, <4>2, Zenon
    <3>5. \A a \in 1 .. Len(out') : out'[a].n < g
      BY <2>1, <3>1, <3>2, <3>4
    <3>6. \A a \in 1 .. Len(out') : out'[a].more => out'[a].n \in Amsdus
      BY <1>0, <3>3, Zenon DEF Kept
    <3> QED  BY <2>1, <3>1, <3>3, <3>5, <3>6, Zenon
  <2>2. CASE out' = out /\ Numbers(reorder[i]) \subseteq late'
    <3>1. InOrder'
      BY <2>2, InOrderStays, Zenon
    <3>2. \A a \in 1 .. Len(out') : out'[a].n < g
      BY <1>2, <2>2
    <3> QED  BY <2>2, <3>1, <3>2, Zenon DEF Numbers, Kept
  <2> QED  BY <2>1, <2>2, Zenon
<1>6. OutOK(g)'
  BY <1>5, Zenon DEF OutOK
<1>7. \A n \in Numbers(out') : n < g
  BY <1>5, Zenon DEF Numbers
<1>8. ASSUME NEW s \in Slots PROVE SlotOK(g, s)'
  <2>1. CASE reorder'[s] = <<>>
    BY <2>1 DEF SlotOK
  <2>2. CASE reorder'[s] # <<>>
    <3>1. s \in Slots \ gone /\ reorder'[s] = reorder[s]
      BY <1>4, <2>2, Zenon
    <3>2. ASSUME NEW k \in 1 .. Len(reorder[s])
          PROVE  /\ Index(Sn(reorder[s][k].n)) = s
                 /\ reorder[s][k].n < g + BufSize
                 /\ k < Len(reorder[s]) => reorder[s][k].more
                 /\ ~reorder[s][k].more => reorder[s][k].n >= g
                 /\ \A m \in 1 .. Len(reorder[s]) : k < m => reorder[s][k].n <= reorder[s][m].n
      <4>1. reorder[s][k].n \in Nat
        BY ReadyList, Zenon
      <4>2. reorder[s][k].n < g + BufSize
        <5>1. reorder[s][k].n < h + BufSize
          BY Zenon DEF SlotOK
        <5> QED  BY <1>0, <4>1, <5>1
      <4>3. ~reorder[s][k].more => reorder[s][k].n >= g
        BY <3>1, Zenon
      <4> QED  BY <4>2, <4>3, Zenon DEF SlotOK
    <3> QED  BY <3>1, <3>2 DEF SlotOK
  <2> QED  BY <2>1, <2>2, Zenon
<1>9. \A s \in Slots : Numbers(reorder'[s]) \subseteq Numbers(reorder[s])
  BY <1>3 DEF Numbers
<1>10. Stored' \subseteq Stored
  BY <1>9, Zenon DEF Stored
<1>11. \A s \in Slots : ieee80211_rx_reorder_ready(s)' => ieee80211_rx_reorder_ready(s)
  BY <1>3, Zenon DEF ieee80211_rx_reorder_ready
<1>12. Kept'
  <2>1. Numbers(reorder[i]) \subseteq Stored
    BY <1>0, Zenon DEF Stored
  <2>2. (Numbers(out) \cup Stored)' \subseteq seen'
    BY <1>5, <1>10, <2>1, Zenon DEF Kept
  <2>3. \A s \in Slots : \A k \in 1 .. Len(reorder'[s]) :
          reorder'[s][k].more => reorder'[s][k].n \in Amsdus
    <3> TAKE s \in Slots
    <3>1. CASE reorder'[s] = reorder[s]
      BY <3>1, Zenon DEF Kept
    <3>2. CASE reorder'[s] = <<>>
      BY <3>2
    <3> QED  BY <1>3, <3>1, <3>2, Zenon
  <2> QED  BY <1>5, <2>2, <2>3, Zenon DEF Kept
<1>13. Numbers(out) \cup Stored \cup late \subseteq Numbers(out') \cup Stored' \cup late'
  <2>1. \A s \in Slots : Numbers(reorder[s]) \subseteq Numbers(out') \cup Stored' \cup late'
    <3> TAKE s \in Slots
    <3>1. CASE s = i
      BY <1>5, <3>1, Zenon
    <3>2. CASE s \in gone \ {i}
      BY <3>2, Zenon
    <3>3. CASE s \notin gone
      <4>1. reorder'[s] = reorder[s]
        BY <3>3, Zenon
      <4>2. Numbers(reorder[s]) = Numbers(reorder[s])'
        BY <4>1, Zenon DEF Numbers
      <4> QED  BY <4>2, Zenon DEF Stored
    <3> QED  BY <3>1, <3>2, <3>3, Zenon
  <2>2. Stored \subseteq Numbers(out') \cup Stored' \cup late'
    BY <2>1, Zenon DEF Stored
  <2> QED  BY <1>5, <2>2, Zenon
<1> QED  BY <1>5, <1>6, <1>7, <1>8, <1>9, <1>10, <1>11, <1>12, <1>13, Zenon

============================================================================
