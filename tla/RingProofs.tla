----------------------------- MODULE RingProofs -----------------------------
(***************************************************************************)
(* Proofs about the ring of bytes, for a ring of any size and requests of  *)
(* any length.  LoopBuffer: the variables keep their types, which says     *)
(* that no copy leaves the ring, and every call does what the byte queue   *)
(* ByteFifo would do.  SharedLoopBuffer: the bounds hold for every width   *)
(* of a word and any number of producers, too, until two producers write   *)
(* at once or Clear overlaps a Read, and again after a Clear alone.        *)
(***************************************************************************)
EXTENDS LoopBuffer, SharedLoopBufferHistory, SequenceTheorems, TLAPS

(* One wrap is all that an index ever needs: what % does to an offset less *)
(* than two rings long.                                                    *)
LEMMA WrapMod ==
  ASSUME NEW c \in Nat \ {0}, NEW x \in 0 .. 2 * c - 1
  PROVE  x % c = IF x < c THEN x ELSE x - c
  OBVIOUS

(* Two steps along the ring, the first of them wrapped, are one step.      *)
LEMMA ModStep ==
  ASSUME NEW c \in Nat \ {0}, NEW r \in 0 .. c - 1, NEW n \in 0 .. c,
         NEW i \in 1 .. c - n
  PROVE  (((r + n) % c) + i - 1) % c = (r + (n + i) - 1) % c
<1>1. r + n \in 0 .. 2 * c - 1 /\ r + n + i - 1 \in 0 .. 2 * c - 1
  OBVIOUS
<1>2. (r + n) % c = IF r + n < c THEN r + n ELSE r + n - c
  <2> DEFINE y == r + n
  <2>1. y \in 0 .. 2 * c - 1
    BY <1>1
  <2> HIDE DEF y
  <2>2. y % c = IF y < c THEN y ELSE y - c
    BY <2>1, WrapMod
  <2> QED
    BY <2>2 DEF y
<1>3. CASE r + n < c
  BY <1>2, <1>3
<1>4. CASE ~ (r + n < c)
  <2> DEFINE x == r + (n + i) - 1
  <2>1. ((r + n) % c) + i - 1 = x - c
    BY <1>2, <1>4
  <2>2. x \in 0 .. 2 * c - 1 /\ ~ (x < c) /\ x - c \in 0 .. 2 * c - 1 /\ x - c < c
    BY <1>4
  <2> HIDE DEF x
  <2>3. x % c = x - c
    BY <2>2, WrapMod
  <2>4. (x - c) % c = x - c
    BY <2>2, WrapMod
  <2> QED
    BY <2>1, <2>3, <2>4 DEF x
<1> QED
  BY <1>3, <1>4

(* Unread is a byte string as long as the counter says.                    *)
LEMMA UnreadIsSeq ==
  ASSUME RingTypeOK
  PROVE  /\ Unread \in Seq(Byte)
         /\ Len(Unread) = FWrited
         /\ \A i \in 1 .. FWrited : Unread[i] = FBuf[(FReadIdx + i - 1) % FCapcity]
<1>1. FWrited \in Nat /\ FReadIdx \in Nat /\ FCapcity \in Nat \ {0}
  BY RingAssumption, LoopBufferAssumption DEF RingTypeOK, Offsets
<1>2. \A i \in 1 .. FWrited : FBuf[(FReadIdx + i - 1) % FCapcity] \in Byte
  <2>1. SUFFICES ASSUME NEW i \in 1 .. FWrited
                 PROVE  (FReadIdx + i - 1) % FCapcity \in Offsets
    BY DEF RingTypeOK
  <2>2. FReadIdx + i - 1 \in Nat
    BY <1>1
  <2> QED
    BY <1>1, <2>2 DEF Offsets
<1>3. Unread \in [1 .. FWrited -> Byte]
  BY <1>2 DEF Unread
<1>4. Unread \in Seq(Byte) /\ Len(Unread) = FWrited
  BY <1>1, <1>3, IsASeq, LenProperties
<1> QED
  BY <1>4 DEF Unread

(* A copy out of the ring that ends inside it is a byte string.            *)
LEMMA BytesAtIsSeq ==
  ASSUME RingTypeOK, NEW offset \in Nat, NEW len \in Nat, offset + len <= FCapcity
  PROVE  /\ BytesAt(offset, len) \in Seq(Byte)
         /\ Len(BytesAt(offset, len)) = len
<1>1. \A i \in 1 .. len : offset + i - 1 \in Offsets
  BY RingAssumption, LoopBufferAssumption DEF Offsets
<1>2. BytesAt(offset, len) \in [1 .. len -> Byte]
  BY <1>1 DEF BytesAt, RingTypeOK
<1> QED
  BY <1>2, IsASeq, LenProperties

(* What Read copies out is the oldest part of the unread bytes, split copy *)
(* or not.                                                                 *)
LEMMA ReadBytes ==
  ASSUME RingTypeOK, NEW n \in 0 .. FWrited
  PROVE  (IF FReadIdx + n > FCapcity
            THEN BytesAt(FReadIdx, FCapcity - FReadIdx)
                   \o BytesAt(0, n - (FCapcity - FReadIdx))
            ELSE BytesAt(FReadIdx, n))
         = SubSeq(Unread, 1, n)
<1> DEFINE tail == FCapcity - FReadIdx
           idx(i) == (FReadIdx + i - 1) % FCapcity
<1>1. /\ FWrited \in 0 .. FCapcity /\ FReadIdx \in 0 .. FCapcity - 1
      /\ FCapcity \in Nat \ {0} /\ n \in Nat /\ tail \in 1 .. FCapcity
  BY RingAssumption, LoopBufferAssumption DEF RingTypeOK, Offsets
<1>2. SubSeq(Unread, 1, n) = [i \in 1 .. n |-> FBuf[idx(i)]]
  <2>1. SubSeq(Unread, 1, n) = [i \in 1 .. n |-> Unread[i]]
    BY <1>1, UnreadIsSeq
  <2>2. \A i \in 1 .. n : Unread[i] = FBuf[idx(i)]
    BY <1>1, UnreadIsSeq
  <2> QED
    BY <2>1, <2>2
<1>3. \A i \in 1 .. n : idx(i) = IF i <= tail THEN FReadIdx + i - 1 ELSE i - tail - 1
  <2> TAKE i \in 1 .. n
  <2> DEFINE x == FReadIdx + i - 1
  <2>1. x \in 0 .. 2 * FCapcity - 1 /\ x \in Int
    BY <1>1
  <2>2. x < FCapcity <=> i <= tail
    BY <1>1
  <2>3. x - FCapcity = i - tail - 1
    BY <1>1
  <2>4. idx(i) = x % FCapcity
    OBVIOUS
  <2> HIDE DEF x, idx
  <2>5. x % FCapcity = IF x < FCapcity THEN x ELSE x - FCapcity
    BY <1>1, <2>1, WrapMod
  <2>6. idx(i) = IF i <= tail THEN x ELSE i - tail - 1
    BY <2>2, <2>3, <2>4, <2>5
  <2> QED
    BY <2>6 DEF x
<1> HIDE DEF idx
<1>4. CASE FReadIdx + n > FCapcity
  <2> DEFINE a == BytesAt(FReadIdx, tail)
             b == BytesAt(0, n - tail)
  <2>1. a \in Seq(Byte) /\ Len(a) = tail /\ \A i \in 1 .. tail : a[i] = FBuf[FReadIdx + i - 1]
    <3>1. tail \in Nat /\ FReadIdx \in Nat /\ FReadIdx + tail <= FCapcity
      BY <1>1
    <3> HIDE DEF tail
    <3> QED
      BY <3>1, BytesAtIsSeq DEF BytesAt
  <2>2. b \in Seq(Byte) /\ Len(b) = n - tail /\ \A i \in 1 .. n - tail : b[i] = FBuf[i - 1]
    <3>1. n - tail \in Nat /\ 0 \in Nat /\ 0 + (n - tail) <= FCapcity
      BY <1>1, <1>4
    <3>2. b \in Seq(Byte) /\ Len(b) = n - tail
      BY <3>1, BytesAtIsSeq
    <3>3. \A i \in 1 .. n - tail : b[i] = FBuf[i - 1]
      BY <3>1 DEF BytesAt
    <3> QED
      BY <3>2, <3>3
  <2> HIDE DEF a, b
  <2>3. a \o b \in Seq(Byte) /\ Len(a \o b) = n
    <3>1. a \o b \in Seq(Byte) /\ Len(a \o b) = Len(a) + Len(b)
      BY <2>1, <2>2, ConcatProperties
    <3>2. tail + (n - tail) = n
      BY <1>1
    <3> QED
      BY <2>1, <2>2, <3>1, <3>2
  <2>4. \A i \in 1 .. n : (a \o b)[i] = IF i <= tail THEN a[i] ELSE b[i - tail]
    BY <1>1, <2>1, <2>2, ConcatProperties
  <2>5. \A i \in 1 .. n : (a \o b)[i] = FBuf[idx(i)]
    <3> TAKE i \in 1 .. n
    <3>1. CASE i <= tail
      BY <1>1, <1>3, <2>1, <2>4, <3>1
    <3>2. CASE ~ (i <= tail)
      <4>1. i - tail \in 1 .. n - tail
        BY <1>1, <3>2
      <4>2. b[i - tail] = FBuf[i - tail - 1]
        BY <2>2, <4>1
      <4> QED
        BY <1>3, <2>4, <3>2, <4>2
    <3> QED
      BY <3>1, <3>2
  <2>6. a \o b = [i \in 1 .. n |-> FBuf[idx(i)]]
    BY <2>3, <2>5, LenProperties
  <2> QED
    BY <1>2, <1>4, <2>6 DEF a, b
<1>5. CASE ~ (FReadIdx + n > FCapcity)
  BY <1>1, <1>2, <1>3, <1>5 DEF BytesAt
<1> QED
  BY <1>4, <1>5

(* The unread bytes after n of them have left.                             *)
LEMMA ReadLeaves ==
  ASSUME RingTypeOK, NEW n \in 0 .. FWrited,
         FBuf' = FBuf, FReadIdx' = (FReadIdx + n) % FCapcity, FWrited' = FWrited - n
  PROVE  Unread' = SubSeq(Unread, n + 1, FWrited)
<1>1. /\ FWrited \in 0 .. FCapcity /\ FReadIdx \in 0 .. FCapcity - 1
      /\ FCapcity \in Nat \ {0} /\ n \in Nat
  BY RingAssumption, LoopBufferAssumption DEF RingTypeOK, Offsets
<1>2. SubSeq(Unread, n + 1, FWrited) = [i \in 1 .. FWrited - n |-> Unread[n + i]]
  BY <1>1, UnreadIsSeq
<1>3. ASSUME NEW i \in 1 .. FWrited - n
      PROVE  Unread[n + i] = FBuf[(FReadIdx' + i - 1) % FCapcity]
  <2>1. Unread[n + i] = FBuf[(FReadIdx + (n + i) - 1) % FCapcity]
    BY <1>1, UnreadIsSeq
  <2>2. (((FReadIdx + n) % FCapcity) + i - 1) % FCapcity = (FReadIdx + (n + i) - 1) % FCapcity
    BY <1>1, ModStep
  <2> QED
    BY <2>1, <2>2
<1>4. Unread' = [i \in 1 .. FWrited - n |-> FBuf[(FReadIdx' + i - 1) % FCapcity]]
  BY DEF Unread
<1> QED
  BY <1>2, <1>3, <1>4

(* The ring after the bytes of data came in behind the unread ones: the    *)
(* split copy and the plain one leave the same bytes at the same offsets.  *)
LEMMA WriteCopies ==
  ASSUME RingTypeOK, NEW data \in Seq(Byte), NEW n \in 0 .. Len(data), NEW w \in Offsets,
         n <= FCapcity - FWrited,
         FBuf' = IF w + n > FCapcity
                   THEN CopyTo(CopyTo(FBuf, w, SubSeq(data, 1, FCapcity - w)),
                               0, SubSeq(data, FCapcity - w + 1, n))
                   ELSE CopyTo(FBuf, w, SubSeq(data, 1, n))
  PROVE  /\ FBuf' \in [Offsets -> Byte]
         /\ \A o \in Offsets :
              FBuf'[o] = IF w <= o /\ o < w + n THEN data[o - w + 1]
                         ELSE IF o < w + n - FCapcity THEN data[FCapcity - w + o + 1]
                         ELSE FBuf[o]
<1>1. /\ FCapcity \in Nat \ {0} /\ w \in 0 .. FCapcity - 1 /\ n \in Nat
      /\ n <= FCapcity /\ Len(data) \in Nat /\ \A k \in 1 .. n : data[k] \in Byte
  BY RingAssumption, LoopBufferAssumption DEF RingTypeOK, Offsets
<1>2. CASE w + n > FCapcity
  <2> DEFINE t == FCapcity - w
             hi == SubSeq(data, 1, t)
             lo == SubSeq(data, t + 1, n)
  <2>1. t \in 1 .. n
    BY <1>1, <1>2
  <2>2. Len(hi) = t /\ \A k \in 1 .. t : hi[k] = data[k]
    BY <1>1, <2>1
  <2>3. Len(lo) = n - t /\ \A k \in 1 .. n - t : lo[k] = data[t + k]
    BY <1>1, <2>1
  <2>4. FBuf' = CopyTo(CopyTo(FBuf, w, hi), 0, lo)
    BY <1>2
  <2> HIDE DEF hi, lo
  <2>5. \A o \in Offsets : FBuf'[o] = IF o < n - t THEN lo[o + 1]
                                       ELSE IF w <= o THEN hi[o - w + 1] ELSE FBuf[o]
    <3> DEFINE mid == CopyTo(FBuf, w, hi)
    <3>1. \A o \in Offsets : mid[o] = IF w <= o /\ o < w + t THEN hi[o - w + 1] ELSE FBuf[o]
      BY <2>2 DEF CopyTo
    <3>2. \A o \in Offsets : o < w + t
      BY <1>1 DEF Offsets
    <3>3. FBuf' = CopyTo(mid, 0, lo)
      BY <2>4
    <3> HIDE DEF mid
    <3>4. \A o \in Offsets : FBuf'[o] = IF 0 <= o /\ o < 0 + (n - t) THEN lo[o - 0 + 1] ELSE mid[o]
      BY <2>3, <3>3 DEF CopyTo
    <3> HIDE DEF t
    <3>5. \A o \in Offsets : FBuf'[o] = IF o < n - t THEN lo[o + 1] ELSE mid[o]
      <4> TAKE o \in Offsets
      <4>1. o \in Nat /\ 0 <= o /\ o - 0 + 1 = o + 1 /\ 0 + (n - t) = n - t
        BY <1>1, <2>1 DEF Offsets
      <4> QED
        BY <3>4, <4>1
    <3> QED
      BY <3>1, <3>2, <3>5
  <2>6. \A o \in Offsets : FBuf'[o] = IF o < n - t THEN data[t + o + 1]
                                       ELSE IF w <= o THEN data[o - w + 1] ELSE FBuf[o]
    <3> TAKE o \in Offsets
    <3>1. CASE o < n - t
      <4>1. o + 1 \in 1 .. n - t /\ t + (o + 1) = t + o + 1
        BY <1>1, <2>1, <3>1 DEF Offsets
      <4> QED
        BY <2>3, <2>5, <3>1, <4>1
    <3>2. CASE ~ (o < n - t) /\ w <= o
      <4>1. o - w + 1 \in 1 .. t
        BY <1>1, <3>2 DEF Offsets
      <4> QED
        BY <2>2, <2>5, <3>2, <4>1
    <3>3. CASE ~ (o < n - t) /\ ~ (w <= o)
      BY <2>5, <3>3
    <3> QED
      BY <3>1, <3>2, <3>3
  <2>7. \A o \in Offsets : FBuf'[o] = IF w <= o /\ o < w + n THEN data[o - w + 1]
                                       ELSE IF o < w + n - FCapcity THEN data[t + o + 1]
                                       ELSE FBuf[o]
    BY <1>1, <1>2, <2>1, <2>6 DEF Offsets
  <2>8. \A o \in Offsets : FBuf'[o] \in Byte
    <3> TAKE o \in Offsets
    <3>1. CASE o < n - t
      <4>1. t + o + 1 \in 1 .. n
        BY <1>1, <2>1, <3>1 DEF Offsets
      <4> QED
        BY <1>1, <2>6, <3>1, <4>1
    <3>2. CASE ~ (o < n - t) /\ w <= o
      <4>1. o - w + 1 \in 1 .. n
        BY <1>1, <1>2, <3>2 DEF Offsets
      <4> QED
        BY <1>1, <2>6, <3>2, <4>1
    <3>3. CASE ~ (o < n - t) /\ ~ (w <= o)
      BY <2>6, <3>3 DEF RingTypeOK
    <3> QED
      BY <3>1, <3>2, <3>3
  <2>9. FBuf' = [o \in Offsets |-> FBuf'[o]]
    BY <2>4 DEF CopyTo
  <2> QED
    BY <2>7, <2>8, <2>9
<1>3. CASE ~ (w + n > FCapcity)
  <2> DEFINE hi == SubSeq(data, 1, n)
  <2>1. Len(hi) = n /\ \A k \in 1 .. n : hi[k] = data[k]
    BY <1>1
  <2>2. FBuf' = CopyTo(FBuf, w, hi)
    BY <1>3
  <2> HIDE DEF hi
  <2>3. \A o \in Offsets : FBuf'[o] = IF w <= o /\ o < w + n THEN data[o - w + 1] ELSE FBuf[o]
    BY <1>1, <2>1, <2>2 DEF CopyTo, Offsets
  <2>4. \A o \in Offsets : ~ (o < w + n - FCapcity)
    BY <1>1, <1>3 DEF Offsets
  <2>5. \A o \in Offsets : FBuf'[o] \in Byte
    <3> TAKE o \in Offsets
    <3>1. CASE w <= o /\ o < w + n
      <4>1. o - w + 1 \in 1 .. n
        BY <1>1, <3>1 DEF Offsets
      <4> QED
        BY <1>1, <2>3, <3>1, <4>1
    <3>2. CASE ~ (w <= o /\ o < w + n)
      BY <2>3, <3>2 DEF RingTypeOK
    <3> QED
      BY <3>1, <3>2
  <2>6. FBuf' = [o \in Offsets |-> FBuf'[o]]
    BY <2>2 DEF CopyTo
  <2> QED
    BY <2>3, <2>4, <2>5, <2>6
<1> QED
  BY <1>2, <1>3

(* Write appends to the unread bytes what it says it took.                 *)
LEMMA WriteAppends ==
  ASSUME RingTypeOK, NEW data \in Seq(Byte), NEW n \in 0 .. Len(data),
         n <= FCapcity - FWrited, FReadIdx' = FReadIdx, FWrited' = FWrited + n,
         NEW w \in Offsets, w = (FReadIdx + FWrited) % FCapcity,
         \A o \in Offsets :
              FBuf'[o] = IF w <= o /\ o < w + n THEN data[o - w + 1]
                         ELSE IF o < w + n - FCapcity THEN data[FCapcity - w + o + 1]
                         ELSE FBuf[o]
  PROVE  Unread' = Unread \o SubSeq(data, 1, n)
<1> DEFINE idx(i) == (FReadIdx + i - 1) % FCapcity
           at(i) == IF FReadIdx + i - 1 < FCapcity THEN FReadIdx + i - 1
                                                   ELSE (FReadIdx + i - 1) - FCapcity
<1>1. /\ FWrited \in 0 .. FCapcity /\ FReadIdx \in 0 .. FCapcity - 1
      /\ FCapcity \in Nat \ {0} /\ n \in Nat /\ w \in 0 .. FCapcity - 1
  BY RingAssumption, LoopBufferAssumption DEF RingTypeOK, Offsets
<1>2. \A i \in 1 .. FCapcity : idx(i) = at(i) /\ at(i) \in Offsets
  <2> TAKE i \in 1 .. FCapcity
  <2> DEFINE x == FReadIdx + i - 1
  <2>1. x \in 0 .. 2 * FCapcity - 1
    BY <1>1
  <2>2. at(i) = IF x < FCapcity THEN x ELSE x - FCapcity
    OBVIOUS
  <2>3. idx(i) = x % FCapcity
    OBVIOUS
  <2> HIDE DEF x, idx, at
  <2>4. x % FCapcity = IF x < FCapcity THEN x ELSE x - FCapcity
    BY <1>1, <2>1, WrapMod
  <2> QED
    BY <1>1, <2>1, <2>2, <2>3, <2>4 DEF Offsets
<1>3. w = IF FReadIdx + FWrited < FCapcity THEN FReadIdx + FWrited
                                           ELSE (FReadIdx + FWrited) - FCapcity
  <2> DEFINE y == FReadIdx + FWrited
  <2>1. y \in 0 .. 2 * FCapcity - 1 /\ w = y % FCapcity
    BY <1>1
  <2> HIDE DEF y
  <2>2. w = IF y < FCapcity THEN y ELSE y - FCapcity
    BY <1>1, <2>1, WrapMod
  <2> QED
    BY <2>2 DEF y
<1> HIDE DEF idx
<1>4. \A i \in 1 .. FWrited : FBuf'[idx(i)] = FBuf[idx(i)]
  <2> TAKE i \in 1 .. FWrited
  <2>1. idx(i) = at(i) /\ at(i) \in Offsets
    <3>1. i \in 1 .. FCapcity
      BY <1>1
    <3> HIDE DEF at
    <3> QED
      BY <1>2, <3>1
  <2>2. ~ (w <= at(i) /\ at(i) < w + n) /\ ~ (at(i) < w + n - FCapcity)
    BY <1>1, <1>3
  <2> QED
    BY <2>1, <2>2
<1>5. \A j \in 1 .. n : FBuf'[idx(FWrited + j)] = data[j]
  <2> TAKE j \in 1 .. n
  <2>1. idx(FWrited + j) = at(FWrited + j) /\ at(FWrited + j) \in Offsets
    <3>1. FWrited + j \in 1 .. FCapcity
      BY <1>1
    <3> HIDE DEF at
    <3> QED
      BY <1>2, <3>1
  <2>2. CASE at(FWrited + j) = w + j - 1
    <3> HIDE DEF at
    <3>1. w <= at(FWrited + j) /\ at(FWrited + j) < w + n /\ at(FWrited + j) - w + 1 = j
      BY <1>1, <2>2
    <3> QED
      BY <2>1, <3>1
  <2>3. CASE at(FWrited + j) = w + j - 1 - FCapcity
    <3> HIDE DEF at
    <3>1. /\ ~ (w <= at(FWrited + j)) /\ at(FWrited + j) < w + n - FCapcity
          /\ FCapcity - w + at(FWrited + j) + 1 = j
      BY <1>1, <2>3
    <3> QED
      BY <2>1, <3>1
  <2>4. at(FWrited + j) = w + j - 1 \/ at(FWrited + j) = w + j - 1 - FCapcity
    <3>1. j \in Nat /\ FReadIdx \in Nat /\ FWrited \in Nat /\ FCapcity \in Nat
      BY <1>1
    <3>2. w = FReadIdx + FWrited \/ w = (FReadIdx + FWrited) - FCapcity
      BY <1>3
    <3>3. CASE w = FReadIdx + FWrited
      BY <3>1, <3>3
    <3>4. CASE w = (FReadIdx + FWrited) - FCapcity
      BY <1>1, <1>3, <3>1, <3>4
    <3> QED
      BY <3>2, <3>3, <3>4
  <2> QED
    BY <2>2, <2>3, <2>4
<1>6. Unread' = [i \in 1 .. FWrited + n |-> FBuf'[idx(i)]]
  BY DEF Unread, idx
<1>7. Unread \o SubSeq(data, 1, n)
        = [i \in 1 .. FWrited + n |-> IF i <= FWrited THEN FBuf[idx(i)] ELSE data[i - FWrited]]
  <2> DEFINE d == SubSeq(data, 1, n)
             u == Unread
  <2>1. u \in Seq(Byte) /\ Len(u) = FWrited /\ \A i \in 1 .. FWrited : u[i] = FBuf[idx(i)]
    BY UnreadIsSeq DEF idx
  <2>2. d \in Seq(Byte) /\ Len(d) = n /\ \A i \in 1 .. n : d[i] = data[i]
    <3>1. \A k \in 1 .. n : data[k] \in Byte
      BY <1>1
    <3>2. d = [i \in 1 .. n |-> data[i]]
      BY <1>1
    <3>3. d \in [1 .. n -> Byte]
      BY <3>1, <3>2
    <3> QED
      BY <1>1, <3>2, <3>3, IsASeq, LenProperties
  <2> HIDE DEF d, u
  <2>3. /\ u \o d \in Seq(Byte) /\ Len(u \o d) = FWrited + n
        /\ \A i \in 1 .. FWrited + n : (u \o d)[i] = IF i <= FWrited THEN u[i] ELSE d[i - FWrited]
    <3>1. u \in Seq(Byte) /\ d \in Seq(Byte) /\ Len(u) = FWrited /\ Len(d) = n
      BY <2>1, <2>2
    <3>2. /\ u \o d \in Seq(Byte) /\ Len(u \o d) = Len(u) + Len(d)
          /\ \A i \in 1 .. Len(u) + Len(d) :
               (u \o d)[i] = IF i <= Len(u) THEN u[i] ELSE d[i - Len(u)]
      BY <3>1, ConcatProperties
    <3> QED
      BY <3>1, <3>2
  <2>4. \A i \in 1 .. FWrited + n : (u \o d)[i] = IF i <= FWrited THEN FBuf[idx(i)] ELSE data[i - FWrited]
    <3> TAKE i \in 1 .. FWrited + n
    <3>1. CASE i <= FWrited
      BY <1>1, <2>1, <2>3, <3>1
    <3>2. CASE ~ (i <= FWrited)
      <4>1. i - FWrited \in 1 .. n
        BY <1>1, <3>2
      <4>2. (u \o d)[i] = d[i - FWrited] /\ d[i - FWrited] = data[i - FWrited]
        BY <2>2, <2>3, <3>2, <4>1
      <4> QED
        BY <3>2, <4>2
    <3> QED
      BY <3>1, <3>2
  <2>5. u \o d = [i \in 1 .. FWrited + n |-> (u \o d)[i]]
    BY <2>3, LenProperties
  <2> QED
    BY <2>4, <2>5 DEF u, d
<1>8. \A i \in 1 .. FWrited + n : FBuf'[idx(i)] = IF i <= FWrited THEN FBuf[idx(i)] ELSE data[i - FWrited]
  <2> TAKE i \in 1 .. FWrited + n
  <2>1. CASE i <= FWrited
    BY <1>1, <1>4, <2>1
  <2>2. CASE ~ (i <= FWrited)
    <3>1. i - FWrited \in 1 .. n /\ FWrited + (i - FWrited) = i
      BY <1>1, <2>2
    <3> QED
      BY <1>5, <2>2, <3>1
  <2> QED
    BY <2>1, <2>2
<1> QED
  BY <1>6, <1>7, <1>8

-----------------------------------------------------------------------------
(* No call makes the ring forget its bounds: the read index stays inside   *)
(* the buffer, the count of unread bytes never exceeds the capacity, and   *)
(* what Read and Write touch are bytes of the buffer.                      *)
THEOREM TypeCorrect == RingSpec => []RingTypeOK
<1>1. RingInit => RingTypeOK
  BY RingAssumption, LoopBufferAssumption, EmptySeq DEF RingInit, RingTypeOK, Offsets
<1>2. RingTypeOK /\ [RingNext]_ringVars => RingTypeOK'
  <2> SUFFICES ASSUME RingTypeOK, [RingNext]_ringVars PROVE RingTypeOK'
    OBVIOUS
  <2>1. /\ FWrited \in 0 .. FCapcity /\ FReadIdx \in 0 .. FCapcity - 1
        /\ FCapcity \in Nat \ {0}
    BY RingAssumption, LoopBufferAssumption DEF RingTypeOK, Offsets
  <2>2. ASSUME NEW count \in Counts, Read(count) PROVE RingTypeOK'
    <3> DEFINE n == Smaller(count, FWrited)
    <3>1. n \in 0 .. FWrited
      BY <2>1, RingAssumption, LoopBufferAssumption DEF Smaller
    <3>2. SubSeq(Unread, 1, n) \in Seq(Byte)
      BY <2>1, <3>1, UnreadIsSeq, SubSeqProperties
    <3>3. result' = [count |-> n, bytes |-> SubSeq(Unread, 1, n)]
      BY <2>2, <3>1, ReadBytes DEF Read
    <3>4. (FReadIdx + n) % FCapcity \in 0 .. FCapcity - 1 /\ FWrited - n \in 0 .. FCapcity
      BY <2>1, <3>1
    <3>5. FBuf' = FBuf /\ FReadIdx' = (FReadIdx + n) % FCapcity /\ FWrited' = FWrited - n
      BY <2>2 DEF Read
    <3> HIDE DEF n
    <3> QED
      BY <2>1, <3>1, <3>2, <3>3, <3>4, <3>5 DEF RingTypeOK, Offsets
  <2>3. ASSUME NEW data \in Inputs, Write(data) PROVE RingTypeOK'
    <3> DEFINE w == (FReadIdx + FWrited) % FCapcity
               n == Smaller(Len(data), FCapcity - FWrited)
    <3>1. data \in Seq(Byte) /\ Len(data) \in Nat
      BY RingAssumption, LoopBufferAssumption
    <3>2. n \in 0 .. Len(data) /\ n <= FCapcity - FWrited /\ w \in Offsets
      BY <2>1, <3>1 DEF Smaller, Offsets
    <3>3. FBuf' \in [Offsets -> Byte]
      BY <2>3, <3>1, <3>2, WriteCopies DEF Write
    <3>4. FWrited + n \in 0 .. FCapcity
      BY <2>1, <3>2
    <3>5. FWrited' = FWrited + n /\ FReadIdx' = FReadIdx /\ result' = [count |-> n, bytes |-> <<>>]
      BY <2>3 DEF Write
    <3> HIDE DEF n
    <3> QED
      BY <3>2, <3>3, <3>4, <3>5, EmptySeq DEF RingTypeOK
  <2>4. CASE Clear
    BY <2>1, <2>4, EmptySeq DEF Clear, RingTypeOK, Offsets
  <2>5. CASE UNCHANGED ringVars
    BY <2>5 DEF ringVars, RingTypeOK
  <2> QED
    BY <2>2, <2>3, <2>4, <2>5 DEF RingNext
<1> QED
  BY <1>1, <1>2, PTL DEF RingSpec

(* TLoopBuffer is a bounded byte queue, for every capacity and every       *)
(* sequence of calls: each call returns and leaves what ByteFifo does.     *)
THEOREM RingImplementsFifo == RingSpec => ImplementsFifo
<1>1. RingInit => Fifo!Init
  <2> SUFFICES ASSUME RingInit PROVE Fifo!Init
    OBVIOUS
  <2>1. Unread = <<>>
    BY DEF RingInit, Unread
  <2> QED
    BY <2>1 DEF RingInit, Fifo!Init
<1>2. RingTypeOK /\ [RingNext]_ringVars => [Fifo!Next]_Fifo!vars
  <2> SUFFICES ASSUME RingTypeOK, [RingNext]_ringVars PROVE [Fifo!Next]_Fifo!vars
    OBVIOUS
  <2>1. /\ FWrited \in 0 .. FCapcity /\ FReadIdx \in 0 .. FCapcity - 1
        /\ FCapcity \in Nat \ {0}
    BY RingAssumption, LoopBufferAssumption DEF RingTypeOK, Offsets
  <2>2. Len(Unread) = FWrited
    BY UnreadIsSeq
  <2>3. ASSUME NEW count \in Counts, Read(count) PROVE Fifo!Read(count)
    <3> DEFINE n == Smaller(count, FWrited)
    <3>1. n \in 0 .. FWrited
      BY <2>1, RingAssumption, LoopBufferAssumption DEF Smaller
    <3>2. result' = [count |-> n, bytes |-> SubSeq(Unread, 1, n)]
      BY <2>3, <3>1, ReadBytes DEF Read
    <3>3. Unread' = SubSeq(Unread, n + 1, FWrited)
      BY <2>3, <3>1, ReadLeaves DEF Read
    <3>4. Fifo!Smaller(count, Len(Unread)) = n
      BY <2>2 DEF Smaller, Fifo!Smaller
    <3> HIDE DEF n
    <3> QED
      BY <2>2, <3>2, <3>3, <3>4 DEF Fifo!Read
  <2>4. ASSUME NEW data \in Inputs, Write(data) PROVE Fifo!Write(data)
    <3> DEFINE w == (FReadIdx + FWrited) % FCapcity
               n == Smaller(Len(data), FCapcity - FWrited)
    <3>1. data \in Seq(Byte) /\ Len(data) \in Nat
      BY RingAssumption, LoopBufferAssumption
    <3>2. n \in 0 .. Len(data) /\ n <= FCapcity - FWrited /\ w \in Offsets
      BY <2>1, <3>1 DEF Smaller, Offsets
    <3>3. /\ FBuf' = IF w + n > FCapcity
                       THEN CopyTo(CopyTo(FBuf, w, SubSeq(data, 1, FCapcity - w)),
                                   0, SubSeq(data, FCapcity - w + 1, n))
                       ELSE CopyTo(FBuf, w, SubSeq(data, 1, n))
          /\ FReadIdx' = FReadIdx /\ FWrited' = FWrited + n
          /\ result' = [count |-> n, bytes |-> <<>>]
      BY <2>4 DEF Write
    <3>4. n = Fifo!Smaller(Len(data), FCapcity - Len(Unread))
      BY <2>2 DEF Smaller, Fifo!Smaller
    <3>5. w = (FReadIdx + FWrited) % FCapcity
      OBVIOUS
    <3> HIDE DEF n, w
    <3>6. \A o \in Offsets :
              FBuf'[o] = IF w <= o /\ o < w + n THEN data[o - w + 1]
                         ELSE IF o < w + n - FCapcity THEN data[FCapcity - w + o + 1]
                         ELSE FBuf[o]
      BY <3>1, <3>2, <3>3, WriteCopies
    <3>7. Unread' = Unread \o SubSeq(data, 1, n)
      BY <3>1, <3>2, <3>3, <3>5, <3>6, WriteAppends
    <3> QED
      BY <3>3, <3>4, <3>7 DEF Fifo!Write
  <2>5. CASE Clear
    <3>1. Unread' = <<>>
      BY <2>5 DEF Clear, Unread
    <3> QED
      BY <2>5, <3>1 DEF Clear, Fifo!Clear, Fifo!Next
  <2>6. CASE UNCHANGED ringVars
    <3>1. Unread' = Unread
      BY <2>6 DEF ringVars, Unread
    <3> QED
      BY <2>6, <3>1 DEF ringVars, Fifo!vars
  <2> QED
    BY <2>3, <2>4, <2>5, <2>6 DEF RingNext, Fifo!Next
<1> QED
  BY <1>1, <1>2, TypeCorrect, PTL DEF RingSpec, ImplementsFifo, Fifo!Spec

-----------------------------------------------------------------------------
(* SharedLoopBuffer.                                                       *)

Writing == [pc : {"idle", "index", "wrap", "fill", "store"},
            count : Words, room : Words, idx : Words, loaded : Words]

(* A writer between its two loads of FWrited, which is n, may rely on the  *)
(* room it saw, because meanwhile FWrited only falls.                      *)
RoomKept(w, n) ==
  /\ w.pc \in {"index", "wrap"} => n + w.room <= FCapcity
  /\ w.pc = "wrap" => w.idx <= FCapcity
  /\ w.pc = "fill" => n + w.count <= FCapcity /\ w.idx < FCapcity
  /\ w.pc = "store" => n <= w.loaded /\ w.loaded + w.count <= FCapcity

(* A reader may rely on the bytes it saw, because meanwhile FWrited only   *)
(* rises.                                                                  *)
BytesKept(n) ==
  /\ reader.pc \in {"copy", "advance", "take", "store"} => reader.count <= n
  /\ reader.pc = "store" => reader.count <= reader.loaded /\ reader.loaded <= n

(* What callback, producer and Clear may rely on as long as none of those  *)
(* that disturb each other are at work together.                           *)
Reliance ==
  /\ FWrited <= FCapcity
  /\ FReadIdx <= FCapcity
  /\ \A p \in Producer : RoomKept(writer[p], FWrited)
  /\ BytesKept(FWrited)
  /\ clearer.loaded <= FCapcity
  /\ ~ Collision

HistoryInv ==
  /\ SharedTypeOK
  /\ disturbed \in BOOLEAN
  /\ disturbed \/ Reliance

-----------------------------------------------------------------------------
(* Word arithmetic: a sum that fits is itself, and taking away what is     *)
(* there does not wrap.                                                    *)
LEMMA WordPlus ==
  ASSUME NEW c \in Nat \ {0}, NEW x \in 0 .. c - 1
  PROVE  x % c = x
  OBVIOUS

LEMMA WordMinus ==
  ASSUME NEW c \in Nat \ {0}, NEW a \in 0 .. c - 1, NEW b \in 0 .. a
  PROVE  (a + (c - b)) % c = a - b
<1>1. CASE b = 0
  BY <1>1
<1>2. CASE b # 0
  BY <1>2
<1> QED
  BY <1>1, <1>2

(* What the assumptions say of sizes, and what % makes of a number.        *)
LEMMA Sizes ==
  /\ FCapcity \in Nat \ {0} /\ Word \in Nat \ {0} /\ Word > 2 * FCapcity
  /\ ReadCounts \subseteq Words /\ WriteCounts \subseteq Words /\ 0 \in Words
  /\ Words \subseteq Nat /\ \A x \in Words : Word - x \in Nat
  BY RingAssumption, SharedLoopBufferAssumption DEF Words

LEMMA Remainders ==
  ASSUME NEW x \in Nat
  PROVE  x % Word \in Words /\ x % FCapcity \in 0 .. FCapcity - 1
         /\ (x % Word) % FCapcity \in 0 .. FCapcity - 1 /\ (x % Word) % FCapcity \in Words
<1>1. x % Word \in Words /\ x % Word \in Nat
  BY Sizes DEF Words
<1>2. \A y \in Nat : y % FCapcity \in 0 .. FCapcity - 1
  BY Sizes
<1>3. 0 .. FCapcity - 1 \subseteq Words
  BY Sizes DEF Words
<1> QED
  BY <1>1, <1>2, <1>3

(* A counter that falls leaves the writers their room, one that rises      *)
(* leaves the reader its bytes.                                            *)
LEMMA RoomStays ==
  ASSUME NEW w \in Writing, NEW n \in Nat, NEW m \in 0 .. n, RoomKept(w, n)
  PROVE  RoomKept(w, m)
  BY Sizes DEF RoomKept, Writing, Words

LEMMA BytesStay ==
  ASSUME SharedTypeOK, NEW n \in Nat, NEW m \in Nat, n <= m, BytesKept(n)
  PROVE  BytesKept(m)
  BY Sizes DEF BytesKept, SharedTypeOK, Words

(* A ring that nobody is in, as the constructor leaves it.                 *)
LEMMA FreshRelies == SharedInit => SharedTypeOK /\ Reliance
<1> SUFFICES ASSUME SharedInit PROVE SharedTypeOK /\ Reliance
  OBVIOUS
<1>1. SharedTypeOK
  BY Sizes DEF SharedInit, SharedTypeOK, NoRead, NoWrite, NoClear
<1>2. Reliance
  BY Sizes DEF SharedInit, Reliance, RoomKept, BytesKept, Collision, NoRead, NoWrite, NoClear
<1> QED
  BY <1>1, <1>2

LEMMA FreshReliesNext == SharedInit' => Reliance'
  BY Sizes DEF SharedInit, Reliance, RoomKept, BytesKept, Collision, NoRead, NoWrite, NoClear

-----------------------------------------------------------------------------
(* The types are kept, whatever collides with what.                        *)
LEMMA TypeStep ==
  ASSUME SharedTypeOK, [SharedNext]_sharedVars
  PROVE  SharedTypeOK'
<1>0. /\ reader.count \in Words /\ reader.loaded \in Words /\ reader.asked \in Words
      /\ FWrited \in Words /\ FReadIdx \in Words
      /\ reader.count \in Nat /\ reader.loaded \in Nat /\ FWrited \in Nat
  <2>1. /\ reader.count \in Words /\ reader.loaded \in Words /\ reader.asked \in Words
        /\ FWrited \in Words /\ FReadIdx \in Words
    BY DEF SharedTypeOK
  <2> QED
    BY <2>1, Sizes
<1>w. ASSUME NEW p \in Producer
      PROVE  /\ writer[p] \in Writing
             /\ writer[p].count \in Words /\ writer[p].room \in Words
             /\ writer[p].idx \in Words /\ writer[p].loaded \in Words
             /\ writer[p].count \in Nat /\ writer[p].idx \in Nat /\ writer[p].loaded \in Nat
  <2>1. writer[p] \in Writing
    BY <1>w DEF SharedTypeOK, Writing
  <2>2. /\ writer[p].count \in Words /\ writer[p].room \in Words
        /\ writer[p].idx \in Words /\ writer[p].loaded \in Words
    BY <2>1 DEF Writing
  <2> QED
    BY <2>1, <2>2, Sizes
<1>4. ASSUME NEW count \in ReadCounts, ReadCall(count) PROVE SharedTypeOK'
  <2>1. reader' = IF FWrited = 0 THEN NoRead
                  ELSE [pc |-> "clamp", asked |-> count, count |-> count, loaded |-> 0]
    BY <1>4 DEF ReadCall
  <2>2. count \in Words /\ 0 \in Words
    BY Sizes
  <2> QED
    BY <1>4, <2>1, <2>2 DEF ReadCall, SharedTypeOK, NoRead
<1>5. CASE ReadClamp
  BY <1>5 DEF ReadClamp, SharedTypeOK
<1>6. CASE ReadShrink
  BY <1>6 DEF ReadShrink, SharedTypeOK
<1>7. CASE ReadCopy
  BY <1>7, Sizes DEF ReadCopy, SharedTypeOK
<1>8. CASE ReadAdvance
  <2>1. reader.loaded + reader.count \in Nat
    BY <1>0
  <2>2. FReadIdx' \in Words
    BY <1>8, <2>1, Remainders DEF ReadAdvance
  <2> QED
    BY <1>8, <2>2, Sizes DEF ReadAdvance, SharedTypeOK
<1>9. CASE ReadTake
  BY <1>9 DEF ReadTake, SharedTypeOK
<1>10. CASE ReadStore
  <2>1. reader.loaded + (Word - reader.count) \in Nat
    BY <1>0, Sizes
  <2>2. FWrited' \in Words
    BY <1>10, <2>1, Remainders DEF ReadStore
  <2> QED
    BY <1>10, <2>2, Sizes DEF ReadStore, SharedTypeOK, NoRead
<1>11. ASSUME NEW p \in Producer, NEW w \in Writing, writer' = [writer EXCEPT ![p] = w],
              FWrited' \in Words, UNCHANGED <<FReadIdx, reader, clearer>>
       PROVE  SharedTypeOK'
  BY <1>11 DEF SharedTypeOK, Writing
<1>12. ASSUME NEW p \in Producer, NEW count \in WriteCounts, WriteCall(p, count)
       PROVE  SharedTypeOK'
  <2> DEFINE r == (FCapcity + (Word - FWrited)) % Word
             w == [pc |-> "index", count |-> count, room |-> r, idx |-> 0, loaded |-> 0]
  <2>1. FCapcity + (Word - FWrited) \in Nat
    BY <1>0, Sizes
  <2>2. r \in Words
    BY <2>1, Remainders
  <2>3. writer' = [writer EXCEPT ![p] = w]
    BY <1>12 DEF WriteCall
  <2> HIDE DEF r
  <2>4. w \in Writing
    BY <2>2, Sizes DEF Writing
  <2> HIDE DEF w
  <2> QED
    BY <1>0, <1>11, <1>12, <2>3, <2>4 DEF WriteCall
<1>13. ASSUME NEW p \in Producer, WriteStep(p) PROVE SharedTypeOK'
  <2>1. CASE WriteIndex(p)
    <3>1. writer' = [writer EXCEPT ![p] = [@ EXCEPT !.pc = "wrap", !.idx = FReadIdx]]
      BY <2>1 DEF WriteIndex, SharedTypeOK
    <3>2. [writer[p] EXCEPT !.pc = "wrap", !.idx = FReadIdx] \in Writing
      BY <1>0, <1>w DEF Writing
    <3> QED
      BY <1>0, <1>11, <2>1, <3>1, <3>2 DEF WriteIndex
  <2>2. CASE WriteWrap(p)
    <3> DEFINE i == ((writer[p].idx + FWrited) % Word) % FCapcity
               n == IF writer[p].count >= writer[p].room THEN writer[p].room ELSE writer[p].count
               w == IF writer[p].room = 0 THEN NoWrite
                    ELSE [writer[p] EXCEPT !.pc = "fill", !.idx = i, !.count = n, !.room = 0]
    <3>1. writer[p].idx + FWrited \in Nat
      BY <1>0, <1>w
    <3>2. i \in Words /\ n \in Words
      BY <1>w, <3>1, Remainders
    <3>3. writer' = [writer EXCEPT ![p] = w]
      BY <2>2 DEF WriteWrap
    <3> HIDE DEF i, n
    <3>4. w \in Writing
      BY <1>w, <3>2, Sizes DEF Writing, NoWrite
    <3> HIDE DEF w
    <3> QED
      BY <1>0, <1>11, <2>2, <3>3, <3>4 DEF WriteWrap
  <2>3. CASE WriteFill(p)
    <3>1. writer' = [writer EXCEPT ![p] = [@ EXCEPT !.pc = "store", !.idx = 0, !.loaded = FWrited]]
      BY <2>3 DEF WriteFill, SharedTypeOK
    <3>2. [writer[p] EXCEPT !.pc = "store", !.idx = 0, !.loaded = FWrited] \in Writing
      BY <1>0, <1>w, Sizes DEF Writing
    <3> QED
      BY <1>0, <1>11, <2>3, <3>1, <3>2 DEF WriteFill
  <2>4. CASE WriteStore(p)
    <3>1. writer[p].loaded + writer[p].count \in Nat
      BY <1>w
    <3>2. FWrited' \in Words
      BY <2>4, <3>1, Remainders DEF WriteStore
    <3>3. NoWrite \in Writing
      BY Sizes DEF NoWrite, Writing
    <3> QED
      BY <1>11, <2>4, <3>2, <3>3 DEF WriteStore
  <2> QED
    BY <1>13, <2>1, <2>2, <2>3, <2>4 DEF WriteStep
<1>15. CASE ClearCall
  BY <1>15, Sizes DEF ClearCall, SharedTypeOK
<1>16. CASE ClearReload
  BY <1>16 DEF ClearReload, SharedTypeOK
<1>17. CASE ClearReset
  BY <1>17, Sizes DEF ClearReset, SharedTypeOK, NoClear
<1>18. CASE UNCHANGED sharedVars
  BY <1>18 DEF sharedVars, SharedTypeOK
<1> QED
  BY <1>4, <1>5, <1>6, <1>7, <1>8, <1>9, <1>10, <1>12, <1>13, <1>15, <1>16, <1>17,
     <1>18 DEF SharedNext, ReadStep, ClearStep

-----------------------------------------------------------------------------
(* A step of the callback or of Clear leaves the writers where they are:   *)
(* they keep their room when the count does not rise.                      *)
LEMMA ReadersLeaveRoom ==
  ASSUME SharedTypeOK, Reliance, writer' = writer, FWrited' \in 0 .. FWrited
  PROVE  /\ FWrited' <= FCapcity
         /\ \A p \in Producer : RoomKept(writer'[p], FWrited')
<1>1. FWrited \in Nat /\ FWrited' \in Nat /\ FWrited' <= FCapcity
  BY Sizes DEF SharedTypeOK, Reliance
<1>2. ASSUME NEW p \in Producer PROVE RoomKept(writer'[p], FWrited')
  <2>1. writer[p] \in Writing /\ RoomKept(writer[p], FWrited)
    BY DEF SharedTypeOK, Reliance, Writing
  <2>2. RoomKept(writer[p], FWrited')
    BY <1>1, <2>1, RoomStays
  <2> QED
    BY <2>2
<1> QED
  BY <1>1, <1>2

LEMMA ReadRelies ==
  ASSUME SharedTypeOK, Reliance, ~ Collision',
         ReadStep \/ \E count \in ReadCounts : ReadCall(count)
  PROVE  Reliance'
<1>1. /\ FWrited \in Nat /\ FReadIdx \in Nat /\ reader.count \in Nat /\ reader.loaded \in Nat
      /\ FWrited <= FCapcity /\ FReadIdx <= FCapcity /\ clearer.loaded <= FCapcity
      /\ BytesKept(FWrited)
  BY Sizes DEF SharedTypeOK, Reliance
<1>2. writer' = writer /\ clearer' = clearer
  BY DEF ReadStep, ReadCall, ReadClamp, ReadShrink, ReadCopy, ReadAdvance, ReadTake, ReadStore
<1>3. SUFFICES /\ FWrited' \in 0 .. FWrited
               /\ FReadIdx' <= FCapcity
               /\ BytesKept(FWrited)'
  BY <1>1, <1>2, ReadersLeaveRoom DEF Reliance
<1>4. ASSUME NEW count \in ReadCounts, ReadCall(count) PROVE <1>3!1
  <2>1. FWrited' = FWrited /\ FReadIdx' = FReadIdx
    BY <1>4 DEF ReadCall
  <2>2. reader'.pc \in {"idle", "clamp"}
    BY <1>4 DEF ReadCall, NoRead
  <2> QED
    BY <1>1, <2>1, <2>2 DEF BytesKept
<1>5. CASE ReadClamp
  <2>1. FWrited' = FWrited /\ FReadIdx' = FReadIdx
    BY <1>5 DEF ReadClamp
  <2>2. /\ reader'.pc = IF reader.count > FWrited THEN "shrink" ELSE "copy"
        /\ reader'.count = reader.count
    BY <1>5 DEF ReadClamp, SharedTypeOK
  <2> QED
    BY <1>1, <2>1, <2>2 DEF BytesKept
<1>6. CASE ReadShrink
  <2>1. FWrited' = FWrited /\ FReadIdx' = FReadIdx
    BY <1>6 DEF ReadShrink
  <2>2. reader'.pc = "copy" /\ reader'.count = FWrited
    BY <1>6 DEF ReadShrink, SharedTypeOK
  <2> QED
    BY <1>1, <2>1, <2>2 DEF BytesKept
<1>7. CASE ReadCopy
  <2>1. FWrited' = FWrited /\ FReadIdx' = FReadIdx /\ reader.pc = "copy"
    BY <1>7 DEF ReadCopy
  <2>2. reader'.pc = "advance" /\ reader'.count = reader.count
    BY <1>7 DEF ReadCopy, SharedTypeOK
  <2> QED
    BY <1>1, <2>1, <2>2 DEF BytesKept
<1>8. CASE ReadAdvance
  <2>1. FWrited' = FWrited /\ reader.pc = "advance"
    BY <1>8 DEF ReadAdvance
  <2>2. FReadIdx' <= FCapcity
    <3>1. reader.loaded + reader.count \in Nat
      BY <1>1
    <3>2. FReadIdx' \in 0 .. FCapcity - 1
      BY <1>8, <3>1, Remainders DEF ReadAdvance
    <3> QED
      BY <3>2, Sizes
  <2>3. reader'.pc = "take" /\ reader'.count = reader.count
    BY <1>8 DEF ReadAdvance, SharedTypeOK
  <2> QED
    BY <1>1, <2>1, <2>2, <2>3 DEF BytesKept
<1>9. CASE ReadTake
  <2>1. FWrited' = FWrited /\ FReadIdx' = FReadIdx /\ reader.pc = "take"
    BY <1>9 DEF ReadTake
  <2>2. reader'.pc = "store" /\ reader'.count = reader.count /\ reader'.loaded = FWrited
    BY <1>9 DEF ReadTake, SharedTypeOK
  <2> QED
    BY <1>1, <2>1, <2>2 DEF BytesKept
<1>10. CASE ReadStore
  <2>1. reader.pc = "store" /\ FReadIdx' = FReadIdx /\ reader'.pc = "idle"
    BY <1>10 DEF ReadStore, NoRead
  <2>2. reader.count <= reader.loaded /\ reader.loaded <= FWrited
    BY <1>1, <2>1 DEF BytesKept
  <2>3. reader.loaded \in 0 .. Word - 1 /\ reader.count \in 0 .. reader.loaded
    BY <1>1, <2>2, Sizes DEF SharedTypeOK, Words
  <2>4. FWrited' = reader.loaded - reader.count
    BY <1>10, <2>3, Sizes, WordMinus DEF ReadStore
  <2> QED
    BY <1>1, <2>1, <2>2, <2>3, <2>4 DEF BytesKept
<1> QED
  BY <1>4, <1>5, <1>6, <1>7, <1>8, <1>9, <1>10 DEF ReadStep

LEMMA ClearRelies ==
  ASSUME SharedTypeOK, Reliance, ~ Collision', ClearCall \/ ClearStep
  PROVE  Reliance'
<1>1. /\ FWrited \in Nat /\ FReadIdx \in Nat
      /\ FWrited <= FCapcity /\ FReadIdx <= FCapcity /\ clearer.loaded <= FCapcity
      /\ clearer.loaded \in Nat /\ BytesKept(FWrited)
  BY Sizes DEF SharedTypeOK, Reliance
<1>2. writer' = writer /\ reader' = reader
  BY DEF ClearCall, ClearStep, ClearReload, ClearReset
<1>3. SUFFICES /\ FWrited' \in 0 .. FWrited
               /\ FReadIdx' <= FCapcity
               /\ clearer'.loaded <= FCapcity
               /\ BytesKept(FWrited)'
  BY <1>1, <1>2, ReadersLeaveRoom DEF Reliance
<1>4. CASE ClearCall
  <2>1. FWrited' = 0 /\ FReadIdx' = FReadIdx /\ clearer'.pc = "reload"
        /\ clearer'.loaded = clearer.loaded
    BY <1>4 DEF ClearCall, SharedTypeOK
  <2>2. reader'.pc = "idle"
    BY <2>1 DEF Collision
  <2> QED
    BY <1>1, <2>1, <2>2 DEF BytesKept
<1>5. CASE ClearReload
  BY <1>1, <1>2, <1>5 DEF ClearReload, BytesKept
<1>6. CASE ClearReset
  BY <1>1, <1>2, <1>6, Sizes DEF ClearReset, BytesKept, NoClear
<1> QED
  BY <1>4, <1>5, <1>6 DEF ClearStep

(* A producer that moves is the only one in Write.                         *)
LEMMA WriterMoves ==
  ASSUME SharedTypeOK, Reliance, ~ Collision',
         NEW p \in Producer, NEW w \in Writing, writer' = [writer EXCEPT ![p] = w],
         UNCHANGED <<FReadIdx, reader, clearer>>,
         FWrited' \in FWrited .. FCapcity,
         FWrited' = FWrited \/ writer[p].pc # "idle",
         RoomKept(w, FWrited')
  PROVE  Reliance'
<1>1. FWrited \in Nat /\ FWrited' \in Nat /\ FWrited <= FWrited' /\ BytesKept(FWrited)
  BY Sizes DEF SharedTypeOK, Reliance
<1>2. BytesKept(FWrited)'
  <2>1. BytesKept(FWrited')
    BY <1>1, BytesStay
  <2> QED
    BY <2>1 DEF BytesKept
<1>3. ASSUME NEW q \in Producer PROVE RoomKept(writer'[q], FWrited')
  <2>1. CASE q = p
    <3>1. writer'[q] = w
      BY <2>1 DEF SharedTypeOK
    <3> QED
      BY <3>1
  <2>2. CASE q # p
    <3>1. writer'[q] = writer[q] /\ RoomKept(writer[q], FWrited)
      BY <2>2 DEF SharedTypeOK, Reliance
    <3>2. CASE FWrited' = FWrited
      BY <3>1, <3>2
    <3>3. CASE writer[p].pc # "idle"
      <4>1. writer[q].pc = "idle"
        BY <2>2, <3>3 DEF Reliance, Collision
      <4> QED
        BY <3>1, <4>1 DEF RoomKept
    <3> QED
      BY <3>2, <3>3
  <2> QED
    BY <2>1, <2>2
<1>4. FWrited' <= FCapcity
  BY Sizes, <1>1
<1>5. FReadIdx' <= FCapcity /\ clearer'.loaded <= FCapcity
  BY DEF Reliance
<1> QED
  BY <1>2, <1>3, <1>4, <1>5 DEF Reliance

LEMMA WriteRelies ==
  ASSUME SharedTypeOK, Reliance, ~ Collision', NEW p \in Producer,
         WriteStep(p) \/ \E count \in WriteCounts : WriteCall(p, count)
  PROVE  Reliance'
<1>1. /\ FWrited \in Nat /\ FReadIdx \in Nat /\ FWrited <= FCapcity /\ FReadIdx <= FCapcity
      /\ FWrited \in Words /\ FReadIdx \in Words
      /\ writer[p] \in Writing /\ RoomKept(writer[p], FWrited)
      /\ writer[p].count \in Nat /\ writer[p].room \in Nat /\ writer[p].loaded \in Nat
      /\ writer[p].idx \in Nat /\ writer \in [Producer -> Writing]
  BY Sizes DEF SharedTypeOK, Reliance, Writing
<1>2. UNCHANGED <<FReadIdx, reader, clearer>>
  BY DEF WriteStep, WriteCall, WriteIndex, WriteWrap, WriteFill, WriteStore
<1>3. ASSUME NEW count \in WriteCounts, WriteCall(p, count) PROVE Reliance'
  <2> DEFINE w == [pc |-> "index", count |-> count, room |-> FCapcity - FWrited,
                   idx |-> 0, loaded |-> 0]
  <2>1. (FCapcity + (Word - FWrited)) % Word = FCapcity - FWrited
    <3>1. FCapcity \in 0 .. Word - 1 /\ FWrited \in 0 .. FCapcity /\ Word \in Nat \ {0}
      BY <1>1, Sizes
    <3> QED
      BY <3>1, WordMinus
  <2>2. writer' = [writer EXCEPT ![p] = w] /\ FWrited' = FWrited
    BY <1>3, <2>1 DEF WriteCall
  <2>3. FCapcity - FWrited \in Words /\ count \in Words /\ 0 \in Words
    BY <1>1, Sizes DEF Words
  <2>4. w \in Writing
    BY <2>3 DEF Writing
  <2>5. RoomKept(w, FWrited)
    BY <1>1, Sizes DEF RoomKept
  <2>6. FWrited' \in FWrited .. FCapcity
    BY <1>1, <2>2, Sizes
  <2> HIDE DEF w
  <2> QED
    BY <1>2, <2>2, <2>4, <2>5, <2>6, WriterMoves
<1>4. CASE WriteIndex(p)
  <2> DEFINE w == [writer[p] EXCEPT !.pc = "wrap", !.idx = FReadIdx]
  <2>1. writer' = [writer EXCEPT ![p] = w] /\ FWrited' = FWrited /\ writer[p].pc = "index"
    BY <1>1, <1>4 DEF WriteIndex
  <2>2. w \in Writing
    BY <1>1 DEF Writing
  <2>3. w.pc = "wrap" /\ w.room = writer[p].room /\ w.idx = FReadIdx
    BY <1>1 DEF Writing
  <2> HIDE DEF w
  <2>4. RoomKept(w, FWrited)
    BY <1>1, <2>1, <2>3 DEF RoomKept
  <2>5. FWrited' \in FWrited .. FCapcity
    BY <1>1, <2>1, Sizes
  <2> QED
    BY <1>2, <2>1, <2>2, <2>4, <2>5, WriterMoves
<1>5. CASE WriteWrap(p)
  <2> DEFINE i == ((writer[p].idx + FWrited) % Word) % FCapcity
             n == IF writer[p].count >= writer[p].room THEN writer[p].room ELSE writer[p].count
             w == IF writer[p].room = 0 THEN NoWrite
                  ELSE [writer[p] EXCEPT !.pc = "fill", !.idx = i, !.count = n, !.room = 0]
  <2>1. writer' = [writer EXCEPT ![p] = w] /\ FWrited' = FWrited /\ writer[p].pc = "wrap"
    BY <1>5 DEF WriteWrap
  <2>2. i \in 0 .. FCapcity - 1 /\ i \in Words
    <3>1. writer[p].idx + FWrited \in Nat
      BY <1>1
    <3> QED
      BY <3>1, Remainders
  <2>3. n \in Words /\ n \in Nat /\ n <= writer[p].room
    BY <1>1 DEF Writing
  <2> HIDE DEF i, n
  <2>4. w \in Writing
    BY <1>1, <2>2, <2>3, Sizes DEF Writing, NoWrite
  <2>5. w.pc = "idle" \/ (w.pc = "fill" /\ w.idx = i /\ w.count = n)
    BY <1>1 DEF Writing, NoWrite
  <2> HIDE DEF w
  <2>6. FWrited + writer[p].room <= FCapcity
    BY <1>1, <2>1 DEF RoomKept
  <2>7. FWrited + n <= FCapcity /\ i < FCapcity
    BY <1>1, <2>2, <2>3, <2>6, Sizes
  <2>8. RoomKept(w, FWrited)
    BY <2>5, <2>7 DEF RoomKept
  <2>9. FWrited' \in FWrited .. FCapcity
    BY <1>1, <2>1, Sizes
  <2> QED
    BY <1>2, <2>1, <2>4, <2>8, <2>9, WriterMoves
<1>6. CASE WriteFill(p)
  <2> DEFINE w == [writer[p] EXCEPT !.pc = "store", !.idx = 0, !.loaded = FWrited]
  <2>1. writer' = [writer EXCEPT ![p] = w] /\ FWrited' = FWrited /\ writer[p].pc = "fill"
    BY <1>1, <1>6 DEF WriteFill
  <2>2. w \in Writing
    BY <1>1, Sizes DEF Writing
  <2>3. w.pc = "store" /\ w.loaded = FWrited /\ w.count = writer[p].count
    BY <1>1 DEF Writing
  <2> HIDE DEF w
  <2>4. RoomKept(w, FWrited)
    BY <1>1, <2>1, <2>3 DEF RoomKept
  <2>5. FWrited' \in FWrited .. FCapcity
    BY <1>1, <2>1, Sizes
  <2> QED
    BY <1>2, <2>1, <2>2, <2>4, <2>5, WriterMoves
<1>7. CASE WriteStore(p)
  <2>1. writer' = [writer EXCEPT ![p] = NoWrite] /\ writer[p].pc = "store"
        /\ FWrited' = (writer[p].loaded + writer[p].count) % Word
    BY <1>7 DEF WriteStore
  <2>2. FWrited <= writer[p].loaded /\ writer[p].loaded + writer[p].count <= FCapcity
    BY <1>1, <2>1 DEF RoomKept
  <2>3. writer[p].loaded + writer[p].count \in 0 .. Word - 1
    BY <1>1, <2>2, Sizes
  <2>4. FWrited' = writer[p].loaded + writer[p].count
    BY <2>1, <2>3, Sizes, WordPlus
  <2>5. FWrited' \in FWrited .. FCapcity
    BY <1>1, <2>2, <2>4, Sizes
  <2>6. NoWrite \in Writing /\ RoomKept(NoWrite, FWrited')
    BY Sizes DEF NoWrite, Writing, RoomKept
  <2> QED
    BY <1>2, <2>1, <2>5, <2>6, WriterMoves
<1> QED
  BY <1>3, <1>4, <1>5, <1>6, <1>7 DEF WriteStep

-----------------------------------------------------------------------------
(* Until two producers write at once or Clear overlaps a Read, and again   *)
(* after a Clear alone, the ring keeps its bounds, for every capacity, any *)
(* width of a word, any number of producers and every request, whatever    *)
(* the order of their loads and stores.                                    *)
THEOREM BoundsKept == HistorySpec => [](SharedTypeOK /\ RingBounds)
<1>1. HistoryInit => HistoryInv
  BY FreshRelies DEF HistoryInit, HistoryInv
<1>2. ASSUME HistoryInv, [HistoryNext]_historyVars PROVE HistoryInv'
  <2>1. [SharedNext]_sharedVars
    BY <1>2 DEF HistoryNext, historyVars
  <2>2. SharedTypeOK'
    BY <1>2, <2>1, TypeStep DEF HistoryInv
  <2>3. CASE UNCHANGED historyVars
    <3>1. UNCHANGED <<FReadIdx, FWrited, reader, writer, clearer>> /\ disturbed' = disturbed
      BY <2>3 DEF historyVars, sharedVars
    <3>2. Reliance => Reliance'
      BY <3>1 DEF Reliance, RoomKept, BytesKept, Collision
    <3> QED
      BY <1>2, <2>2, <3>1, <3>2 DEF HistoryInv
  <2>4. CASE HistoryNext
    <3>1. disturbed' = ((disturbed \/ Collision') /\ ~ SharedInit')
      BY <2>4 DEF HistoryNext, Remember, Fresh
    <3>2. disturbed' \in BOOLEAN
      BY <3>1
    <3>3. CASE SharedInit'
      BY <2>2, <3>2, <3>3, FreshReliesNext DEF HistoryInv
    <3>4. CASE ~ disturbed /\ ~ Collision'
      <4>1. SharedTypeOK /\ Reliance /\ SharedNext
        BY <1>2, <2>4, <3>4 DEF HistoryInv, HistoryNext
      <4>2. Reliance'
        BY <3>4, <4>1, ReadRelies, WriteRelies, ClearRelies DEF SharedNext
      <4> QED
        BY <2>2, <3>2, <4>2 DEF HistoryInv
    <3>5. CASE disturbed'
      BY <2>2, <3>2, <3>5 DEF HistoryInv
    <3> QED
      BY <1>2, <3>1, <3>3, <3>4, <3>5 DEF HistoryInv
  <2> QED
    BY <1>2, <2>3, <2>4
<1>3. HistoryInv => SharedTypeOK /\ RingBounds
  <2> SUFFICES ASSUME HistoryInv, ~ disturbed PROVE RingBounds
    BY DEF HistoryInv, RingBounds
  <2>1. SharedTypeOK /\ Reliance
    BY DEF HistoryInv
  <2>2. FWrited \in Nat /\ reader.count \in Nat /\ FWrited <= FCapcity /\ FReadIdx <= FCapcity
    BY <2>1, Sizes DEF SharedTypeOK, Reliance
  <2>3. /\ reader.pc = "copy" => reader.count <= FCapcity
        /\ reader.pc = "store" => reader.count <= reader.loaded
    BY <2>1, <2>2, Sizes DEF Reliance, BytesKept
  <2>4. ASSUME NEW p \in Producer, writer[p].pc = "fill"
        PROVE  writer[p].idx < FCapcity /\ writer[p].count <= FCapcity
    <3>1. writer[p].count \in Nat /\ FWrited + writer[p].count <= FCapcity
          /\ writer[p].idx < FCapcity
      BY <2>1, <2>4, Sizes DEF SharedTypeOK, Reliance, RoomKept
    <3> QED
      BY <2>2, <3>1, Sizes
  <2> QED
    BY <2>2, <2>3, <2>4 DEF RingBounds
<1> QED
  BY <1>1, <1>2, <1>3, PTL DEF HistorySpec
=============================================================================
