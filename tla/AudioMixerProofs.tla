-------------------------- MODULE AudioMixerProofs --------------------------
(***************************************************************************)
(* For any number of players and radios: at most one player runs, the      *)
(* mixer hangs on the source it plays and on no other, no player it paused *)
(* is forgotten, what plays can be heard, and all that is the behaviour of *)
(* a stack of sources.                                                     *)
(***************************************************************************)
EXTENDS AudioMixer, SequenceTheorems, WellFoundedInduction, TLAPS

(* A set of numbers has a least one.                                       *)
LEMMA Least ==
  ASSUME NEW S \in SUBSET Nat, S # {}
  PROVE  \E n \in S : \A m \in S : n <= m
<1> DEFINE R == OpToRel(<, Nat)
<1>1. \E n \in S : \A m \in S : <<m, n>> \notin R
  <2>1. IsWellFoundedOn(R, Nat)
    BY NatLessThanWellFounded
  <2> HIDE DEF R
  <2> QED
    BY <2>1, WFMin
<1>2. \A m, n \in Nat : m < n => <<m, n>> \in R
  BY DEF OpToRel
<1> HIDE DEF R
<1>3. PICK n \in S : \A m \in S : <<m, n>> \notin R
  BY <1>1
<1>4. \A m \in S : ~ (m < n)
  BY <1>2, <1>3
<1> QED
  BY <1>4

(* The function that Picked goes through.                                  *)
IsPicking(f, seq, places, n) ==
  f = [i \in 0 .. n |-> IF i = 0 THEN <<>>
                        ELSE IF i \in places THEN Append(f[i - 1], seq[i]) ELSE f[i - 1]]

LEMMA PickingExists ==
  ASSUME NEW seq, NEW places, NEW n \in Nat
  PROVE  \E f : IsPicking(f, seq, places, n)
<1> DEFINE Bad == {k \in Nat : ~ \E f : IsPicking(f, seq, places, k)}
<1> SUFFICES ASSUME Bad # {} PROVE FALSE
  OBVIOUS
<1>1. PICK k \in Bad : \A m \in Bad : k <= m
  BY Least
<1>2. CASE k = 0
  <2>1. IsPicking([i \in 0 .. 0 |-> <<>>], seq, places, 0)
    BY DEF IsPicking
  <2> QED
    BY <1>1, <1>2, <2>1
<1>3. CASE k # 0
  <2>1. k - 1 \in Nat /\ k - 1 \notin Bad
    BY <1>1, <1>3
  <2>2. PICK f : IsPicking(f, seq, places, k - 1)
    BY <2>1
  <2> DEFINE g == [i \in 0 .. k |-> IF i < k THEN f[i]
                        ELSE IF k \in places THEN Append(f[k - 1], seq[k]) ELSE f[k - 1]]
  <2>3. \A i \in 0 .. k - 1 : g[i] = f[i]
    BY <2>1
  <2>4. ASSUME NEW i \in 0 .. k
        PROVE  g[i] = IF i = 0 THEN <<>>
                      ELSE IF i \in places THEN Append(g[i - 1], seq[i]) ELSE g[i - 1]
    <3>1. CASE i = k
      <4>1. g[k] = IF k \in places THEN Append(f[k - 1], seq[k]) ELSE f[k - 1]
        BY <2>1
      <4>2. g[k - 1] = f[k - 1]
        BY <2>1, <2>3
      <4> HIDE DEF g
      <4> QED
        BY <1>3, <3>1, <4>1, <4>2
    <3>2. CASE i # k
      <4>1. i \in 0 .. k - 1 /\ (i # 0 => i - 1 \in 0 .. k - 1)
        BY <2>1, <3>2
      <4>2. g[i] = f[i] /\ (i # 0 => g[i - 1] = f[i - 1])
        BY <2>3, <4>1
      <4>3. f[i] = IF i = 0 THEN <<>>
                   ELSE IF i \in places THEN Append(f[i - 1], seq[i]) ELSE f[i - 1]
        BY <2>2, <4>1 DEF IsPicking
      <4> HIDE DEF g
      <4> QED
        BY <4>2, <4>3
    <3> QED
      BY <3>1, <3>2
  <2>5. IsPicking(g, seq, places, k)
    <3>1. g = [i \in 0 .. k |-> g[i]]
      OBVIOUS
    <3> HIDE DEF g
    <3> QED
      BY <2>4, <3>1 DEF IsPicking
  <2> QED
    BY <1>1, <2>5
<1> QED
  BY <1>2, <1>3

LEMMA PickedIs ==
  ASSUME NEW S, NEW seq \in Seq(S), NEW places
  PROVE  \E f : IsPicking(f, seq, places, Len(seq)) /\ Picked(seq, places) = f[Len(seq)]
<1> DEFINE f == CHOOSE g : IsPicking(g, seq, places, Len(seq))
<1>1. IsPicking(f, seq, places, Len(seq))
  <2>1. Len(seq) \in Nat
    OBVIOUS
  <2> QED
    BY <2>1, PickingExists
<1>2. Picked(seq, places) = f[Len(seq)]
  BY DEF Picked, IsPicking
<1> QED
  BY <1>1, <1>2

(* Only what lies in the sequence counts.                                  *)
LEMMA PickingsAgree ==
  ASSUME NEW f, NEW seqf, NEW placesf, NEW n \in Nat, IsPicking(f, seqf, placesf, n),
         NEW g, NEW seqg, NEW placesg, NEW m \in Nat, IsPicking(g, seqg, placesg, m),
         NEW k \in Nat, k <= n, k <= m,
         \A i \in 1 .. k : seqf[i] = seqg[i] /\ (i \in placesf <=> i \in placesg)
  PROVE  f[k] = g[k]
<1> DEFINE Bad == {i \in 0 .. k : f[i] # g[i]}
<1> SUFFICES ASSUME Bad # {} PROVE FALSE
  OBVIOUS
<1>1. PICK i \in Bad : \A j \in Bad : i <= j
  <2>1. Bad \subseteq Nat
    OBVIOUS
  <2> HIDE DEF Bad
  <2> QED
    BY <2>1, Least
<1>2. i \in 0 .. k /\ i \in 0 .. n /\ i \in 0 .. m
  OBVIOUS
<1>3. /\ f[i] = IF i = 0 THEN <<>>
                ELSE IF i \in placesf THEN Append(f[i - 1], seqf[i]) ELSE f[i - 1]
      /\ g[i] = IF i = 0 THEN <<>>
                ELSE IF i \in placesg THEN Append(g[i - 1], seqg[i]) ELSE g[i - 1]
  BY <1>2 DEF IsPicking
<1>4. CASE i = 0
  BY <1>3, <1>4
<1>5. CASE i # 0
  <2>1. i - 1 \in 0 .. k /\ i - 1 \notin Bad /\ i \in 1 .. k
    BY <1>1, <1>5
  <2>2. f[i - 1] = g[i - 1]
    BY <2>1
  <2> QED
    BY <1>3, <1>5, <2>1, <2>2
<1> QED
  BY <1>4, <1>5

LEMMA PickedNone == ASSUME NEW places PROVE Picked(<<>>, places) = <<>>
<1>1. <<>> \in Seq({}) /\ Len(<<>>) = 0
  OBVIOUS
<1>2. PICK f : IsPicking(f, <<>>, places, 0) /\ Picked(<<>>, places) = f[0]
  BY <1>1, PickedIs
<1> QED
  BY <1>2 DEF IsPicking

(* One more at the end.                                                    *)
LEMMA PickedAppend ==
  ASSUME NEW S, NEW seq \in Seq(S), NEW x \in S, NEW places, NEW others,
         \A i \in 1 .. Len(seq) : i \in places <=> i \in others
  PROVE  Picked(Append(seq, x), places) =
           IF Len(seq) + 1 \in places THEN Append(Picked(seq, others), x) ELSE Picked(seq, others)
<1> DEFINE n == Len(seq)
<1>1. /\ Append(seq, x) \in Seq(S) /\ Len(Append(seq, x)) = n + 1 /\ n \in Nat
      /\ \A i \in 1 .. n : Append(seq, x)[i] = seq[i]
      /\ Append(seq, x)[n + 1] = x
  OBVIOUS
<1>2. PICK f : /\ IsPicking(f, Append(seq, x), places, n + 1)
               /\ Picked(Append(seq, x), places) = f[n + 1]
  BY <1>1, PickedIs
<1>3. PICK g : IsPicking(g, seq, others, n) /\ Picked(seq, others) = g[n]
  BY PickedIs
<1> DEFINE more == Append(seq, x)
<1>4. \A i \in 1 .. n : more[i] = seq[i] /\ (i \in places <=> i \in others)
  BY <1>1
<1> HIDE DEF n, more
<1>5. f[n] = g[n]
  <2>1. n + 1 \in Nat /\ n <= n + 1 /\ n <= n
    BY <1>1
  <2>2. IsPicking(f, more, places, n + 1)
    BY <1>2 DEF more
  <2> QED
    BY <1>1, <1>3, <1>4, <2>1, <2>2, PickingsAgree
<1>6. f[n + 1] = IF n + 1 \in places THEN Append(f[n], more[n + 1]) ELSE f[n]
  <2>1. n + 1 \in 0 .. n + 1 /\ n + 1 # 0 /\ (n + 1) - 1 = n
    BY <1>1
  <2> QED
    BY <1>2, <2>1 DEF IsPicking, more
<1> QED
  BY <1>1, <1>2, <1>3, <1>5, <1>6 DEF n, more

-----------------------------------------------------------------------------
LEMMA WithoutNone == ASSUME NEW s PROVE Without(<<>>, s) = <<>>
  BY PickedNone DEF Without

LEMMA WithoutAppend ==
  ASSUME NEW S, NEW seq \in Seq(S), NEW x \in S, NEW s
  PROVE  Without(Append(seq, x), s) =
           IF x = s THEN Without(seq, s) ELSE Append(Without(seq, s), x)
<1> DEFINE others == {i \in DOMAIN seq : seq[i] # s}
           places == {i \in DOMAIN Append(seq, x) : Append(seq, x)[i] # s}
<1>1. \A i \in 1 .. Len(seq) : i \in places <=> i \in others
  OBVIOUS
<1>2. Len(seq) + 1 \in places <=> x # s
  OBVIOUS
<1> HIDE DEF others, places
<1>3. Picked(Append(seq, x), places) =
        IF Len(seq) + 1 \in places THEN Append(Picked(seq, others), x) ELSE Picked(seq, others)
  BY <1>1, PickedAppend
<1> QED
  BY <1>2, <1>3 DEF Without, others, places

LEMMA OnceNone == Once(<<>>) = <<>>
  BY PickedNone DEF Once

LEMMA OnceAppend ==
  ASSUME NEW S, NEW seq \in Seq(S), NEW x \in S
  PROVE  Once(Append(seq, x)) =
           IF \E i \in DOMAIN seq : seq[i] = x THEN Once(seq) ELSE Append(Once(seq), x)
<1> DEFINE more == Append(seq, x)
           others == {i \in DOMAIN seq : \A j \in 1 .. i - 1 : seq[j] # seq[i]}
           places == {i \in DOMAIN more : \A j \in 1 .. i - 1 : more[j] # more[i]}
<1>1. /\ DOMAIN seq = 1 .. Len(seq) /\ DOMAIN more = 1 .. Len(seq) + 1 /\ Len(seq) \in Nat
      /\ \A i \in 1 .. Len(seq) : more[i] = seq[i]
      /\ more[Len(seq) + 1] = x
  OBVIOUS
<1> HIDE DEF more
<1>2. \A i \in 1 .. Len(seq) : i \in places <=> i \in others
  BY <1>1
<1>3. Len(seq) + 1 \in places <=> ~ \E i \in DOMAIN seq : seq[i] = x
  BY <1>1
<1> HIDE DEF others, places
<1>4. Picked(Append(seq, x), places) =
        IF Len(seq) + 1 \in places THEN Append(Picked(seq, others), x) ELSE Picked(seq, others)
  BY <1>2, PickedAppend
<1> QED
  BY <1>3, <1>4 DEF Once, others, places, more

(* Induction over sequences that grow at their end: G are those that are   *)
(* good.                                                                   *)
LEMMA SeqInduction ==
  ASSUME NEW S, NEW G, <<>> \in G,
         \A seq \in Seq(S), x \in S : seq \in G => Append(seq, x) \in G
  PROVE  \A seq \in Seq(S) : seq \in G
<1> DEFINE Bad == {seq \in Seq(S) : seq \notin G}
           L == {Len(b) : b \in Bad}
<1> SUFFICES ASSUME Bad # {} PROVE FALSE
  OBVIOUS
<1>1. L \in SUBSET Nat /\ L # {}
  <2>1. PICK b : b \in Bad
    OBVIOUS
  <2>2. Len(b) \in L
    BY <2>1
  <2>3. \A c \in Bad : Len(c) \in Nat
    OBVIOUS
  <2> QED
    BY <2>2, <2>3
<1>2. PICK n \in L : \A m \in L : n <= m
  <2> HIDE DEF L
  <2> QED
    BY <1>1, Least
<1>3. PICK b \in Bad : Len(b) = n
  OBVIOUS
<1>4. PICK seq \in Seq(S), x \in S : b = Append(seq, x)
  BY <1>3, SequenceEmptyOrAppend
<1>5. Len(b) = Len(seq) + 1 /\ Len(seq) \in Nat
  BY <1>4
<1>6. seq \notin Bad
  BY <1>2, <1>3, <1>5
<1> QED
  BY <1>3, <1>4, <1>6

InSeq(x, seq) == \E i \in DOMAIN seq : seq[i] = x

LEMMA InAppend ==
  ASSUME NEW S, NEW seq \in Seq(S), NEW y \in S, NEW x
  PROVE  InSeq(x, Append(seq, y)) <=> InSeq(x, seq) \/ x = y
<1>1. /\ DOMAIN seq = 1 .. Len(seq) /\ Len(seq) \in Nat
      /\ DOMAIN Append(seq, y) = 1 .. Len(seq) + 1
      /\ \A i \in 1 .. Len(seq) : Append(seq, y)[i] = seq[i]
      /\ Append(seq, y)[Len(seq) + 1] = y
  OBVIOUS
<1>2. ASSUME InSeq(x, Append(seq, y)) PROVE InSeq(x, seq) \/ x = y
  BY <1>1, <1>2 DEF InSeq
<1>3. ASSUME InSeq(x, seq) PROVE InSeq(x, Append(seq, y))
  <2>1. PICK i \in 1 .. Len(seq) : seq[i] = x
    BY <1>1, <1>3 DEF InSeq
  <2>2. i \in 1 .. Len(seq) + 1 /\ Append(seq, y)[i] = x
    BY <1>1, <2>1
  <2> QED
    BY <1>1, <2>2 DEF InSeq
<1>4. InSeq(y, Append(seq, y))
  <2>1. Len(seq) + 1 \in 1 .. Len(seq) + 1
    BY <1>1
  <2> QED
    BY <1>1, <2>1 DEF InSeq
<1> QED
  BY <1>2, <1>3, <1>4

(* A sequence with one more in front.                                      *)
LEMMA ConsAppend ==
  ASSUME NEW S, NEW x \in S, NEW seq \in Seq(S), NEW y \in S
  PROVE  /\ <<x>> \o seq \in Seq(S)
         /\ <<x>> \o Append(seq, y) = Append(<<x>> \o seq, y)
  OBVIOUS

LEMMA InCons ==
  ASSUME NEW S, NEW x \in S, NEW seq \in Seq(S), NEW y
  PROVE  InSeq(y, <<x>> \o seq) <=> y = x \/ InSeq(y, seq)
<1>1. /\ DOMAIN seq = 1 .. Len(seq) /\ Len(seq) \in Nat
      /\ DOMAIN (<<x>> \o seq) = 1 .. Len(seq) + 1
      /\ (<<x>> \o seq)[1] = x
      /\ \A i \in 1 .. Len(seq) : (<<x>> \o seq)[i + 1] = seq[i]
  OBVIOUS
<1> DEFINE c == <<x>> \o seq
<1> HIDE DEF c
<1>2. ASSUME InSeq(y, c) PROVE y = x \/ InSeq(y, seq)
  <2>1. PICK i \in 1 .. Len(seq) + 1 : c[i] = y
    BY <1>1, <1>2 DEF InSeq, c
  <2>2. CASE i = 1
    BY <1>1, <2>1, <2>2 DEF c
  <2>3. CASE i # 1
    <3>1. i - 1 \in 1 .. Len(seq) /\ (i - 1) + 1 = i
      BY <1>1, <2>3
    <3>2. seq[i - 1] = y
      BY <1>1, <2>1, <3>1 DEF c
    <3> QED
      BY <1>1, <3>1, <3>2 DEF InSeq
  <2> QED
    BY <2>2, <2>3
<1>3. InSeq(x, c)
  <2>1. 1 \in 1 .. Len(seq) + 1
    BY <1>1
  <2> QED
    BY <1>1, <2>1 DEF InSeq, c
<1>4. ASSUME InSeq(y, seq) PROVE InSeq(y, c)
  <2>1. PICK i \in 1 .. Len(seq) : seq[i] = y
    BY <1>1, <1>4 DEF InSeq
  <2>2. i + 1 \in 1 .. Len(seq) + 1 /\ c[i + 1] = y
    BY <1>1, <2>1 DEF c
  <2> QED
    BY <1>1, <2>2 DEF InSeq, c
<1> QED
  BY <1>2, <1>3, <1>4 DEF c

-----------------------------------------------------------------------------
LEMMA WithoutKeeps ==
  ASSUME NEW S, NEW s
  PROVE  \A seq \in Seq(S) :
           /\ Without(seq, s) \in Seq(S) /\ Len(Without(seq, s)) <= Len(seq)
           /\ \A x : InSeq(x, Without(seq, s)) <=> InSeq(x, seq) /\ x # s
<1> DEFINE Good(q) == /\ Without(q, s) \in Seq(S) /\ Len(Without(q, s)) <= Len(q)
                      /\ \A x : InSeq(x, Without(q, s)) <=> InSeq(x, q) /\ x # s
           G == {q \in Seq(S) : Good(q)}
<1>1. <<>> \in G
  <2>1. <<>> \in Seq(S) /\ Len(<<>>) = 0 /\ \A x : ~ InSeq(x, <<>>)
    BY DEF InSeq
  <2> DEFINE none == <<>>
  <2>2. Without(none, s) = none
    BY WithoutNone
  <2> HIDE DEF none
  <2>3. none \in Seq(S) /\ Len(none) = 0 /\ \A x : ~ InSeq(x, none)
    BY <2>1 DEF none
  <2>4. Good(none)
    BY <2>2, <2>3
  <2> HIDE DEF Good
  <2> QED
    BY <2>3, <2>4 DEF none
<1>2. ASSUME NEW q \in Seq(S), NEW y \in S, q \in G PROVE Append(q, y) \in G
  <2> DEFINE w == Without(q, s)
             a == Append(q, y)
  <2>1. w \in Seq(S) /\ Len(w) <= Len(q) /\ \A x : InSeq(x, w) <=> InSeq(x, q) /\ x # s
    BY <1>2
  <2>2. Without(a, s) = IF y = s THEN w ELSE Append(w, y)
    BY WithoutAppend
  <2>3. a \in Seq(S) /\ Len(a) = Len(q) + 1 /\ \A x : InSeq(x, a) <=> InSeq(x, q) \/ x = y
    BY InAppend
  <2> HIDE DEF w, a
  <2>4. /\ Append(w, y) \in Seq(S) /\ Len(Append(w, y)) = Len(w) + 1
        /\ \A x : InSeq(x, Append(w, y)) <=> InSeq(x, w) \/ x = y
    BY <2>1, InAppend
  <2>5. Len(w) \in Nat /\ Len(q) \in Nat
    BY <2>1
  <2>6. CASE y = s
    <3>1. Without(a, s) = w
      BY <2>2, <2>6
    <3>2. Len(w) <= Len(a)
      BY <2>1, <2>3, <2>5
    <3>3. Good(a)
      BY <2>1, <2>3, <2>6, <3>1, <3>2
    <3> HIDE DEF Good
    <3> QED
      BY <2>3, <3>3 DEF a
  <2>7. CASE y # s
    <3>1. Without(a, s) = Append(w, y)
      BY <2>2, <2>7
    <3>2. Len(Append(w, y)) <= Len(a)
      BY <2>1, <2>3, <2>4, <2>5
    <3>3. Good(a)
      BY <2>1, <2>3, <2>4, <2>7, <3>1, <3>2
    <3> HIDE DEF Good
    <3> QED
      BY <2>3, <3>3 DEF a
  <2> QED
    BY <2>6, <2>7
<1> HIDE DEF G
<1>3. \A q \in Seq(S) : q \in G
  BY <1>1, <1>2, SeqInduction
<1> QED
  BY <1>3 DEF G

LEMMA WithoutCons ==
  ASSUME NEW S, NEW x \in S, NEW s
  PROVE  \A seq \in Seq(S) :
           Without(<<x>> \o seq, s) =
             IF x = s THEN Without(seq, s) ELSE <<x>> \o Without(seq, s)
<1> DEFINE G == {q \in Seq(S) : Without(<<x>> \o q, s) =
                    IF x = s THEN Without(q, s) ELSE <<x>> \o Without(q, s)}
<1>1. <<>> \in G
  <2> DEFINE none == <<>>
  <2>1. none \in Seq(S) /\ <<x>> \o none = Append(none, x)
    OBVIOUS
  <2>2. Without(none, s) = none
    BY WithoutNone
  <2> HIDE DEF none
  <2>3. Without(Append(none, x), s) = IF x = s THEN none ELSE Append(none, x)
    BY <2>1, <2>2, WithoutAppend
  <2> QED
    BY <2>1, <2>2, <2>3 DEF none
<1>2. ASSUME NEW q \in Seq(S), NEW y \in S, q \in G PROVE Append(q, y) \in G
  <2> DEFINE c == <<x>> \o q
             w == Without(q, s)
             a == Append(q, y)
  <2>1. c \in Seq(S) /\ <<x>> \o a = Append(c, y)
    BY ConsAppend
  <2>2. w \in Seq(S)
    BY WithoutKeeps
  <2>3. Without(a, s) = IF y = s THEN w ELSE Append(w, y)
    BY WithoutAppend
  <2>4. Without(c, s) = IF x = s THEN w ELSE <<x>> \o w
    BY <1>2
  <2>5. a \in Seq(S)
    OBVIOUS
  <2> HIDE DEF c, w, a
  <2>6. Without(Append(c, y), s) = IF y = s THEN Without(c, s) ELSE Append(Without(c, s), y)
    BY <2>1, WithoutAppend
  <2>7. <<x>> \o Append(w, y) = Append(<<x>> \o w, y)
    BY <2>2, ConsAppend
  <2>8. Without(<<x>> \o a, s) = IF x = s THEN Without(a, s) ELSE <<x>> \o Without(a, s)
    BY <2>1, <2>3, <2>4, <2>6, <2>7
  <2> QED
    BY <2>5, <2>8 DEF a
<1> HIDE DEF G
<1>3. \A q \in Seq(S) : q \in G
  BY <1>1, <1>2, SeqInduction
<1> QED
  BY <1>3 DEF G

LEMMA OnceKeeps ==
  ASSUME NEW S
  PROVE  \A seq \in Seq(S) :
           Once(seq) \in Seq(S) /\ \A x : InSeq(x, Once(seq)) <=> InSeq(x, seq)
<1> DEFINE G == {q \in Seq(S) :
                   Once(q) \in Seq(S) /\ \A x : InSeq(x, Once(q)) <=> InSeq(x, q)}
<1>1. <<>> \in G
  <2>1. <<>> \in Seq(S)
    OBVIOUS
  <2> QED
    BY <2>1, OnceNone
<1>2. ASSUME NEW q \in Seq(S), NEW y \in S, q \in G PROVE Append(q, y) \in G
  <2> DEFINE o == Once(q)
             a == Append(q, y)
  <2>1. o \in Seq(S) /\ \A x : InSeq(x, o) <=> InSeq(x, q)
    BY <1>2
  <2>2. Once(a) = IF InSeq(y, q) THEN o ELSE Append(o, y)
    BY OnceAppend DEF InSeq
  <2>3. a \in Seq(S) /\ \A x : InSeq(x, a) <=> InSeq(x, q) \/ x = y
    BY InAppend
  <2> HIDE DEF o, a
  <2>4. Append(o, y) \in Seq(S) /\ \A x : InSeq(x, Append(o, y)) <=> InSeq(x, o) \/ x = y
    BY <2>1, InAppend
  <2>5. CASE InSeq(y, q)
    BY <2>1, <2>2, <2>3, <2>5 DEF a
  <2>6. CASE ~ InSeq(y, q)
    BY <2>1, <2>2, <2>3, <2>4, <2>6 DEF a
  <2> QED
    BY <2>5, <2>6
<1> HIDE DEF G
<1>3. \A q \in Seq(S) : q \in G
  BY <1>1, <1>2, SeqInduction
<1> QED
  BY <1>3 DEF G

LEMMA OnceWithout ==
  ASSUME NEW S, NEW s
  PROVE  \A seq \in Seq(S) : Once(Without(seq, s)) = Without(Once(seq), s)
<1> DEFINE G == {q \in Seq(S) : Once(Without(q, s)) = Without(Once(q), s)}
<1>1. <<>> \in G
  <2>1. <<>> \in Seq(S)
    OBVIOUS
  <2> QED
    BY <2>1, OnceNone, WithoutNone
<1>2. ASSUME NEW q \in Seq(S), NEW y \in S, q \in G PROVE Append(q, y) \in G
  <2> DEFINE w == Without(q, s)
             o == Once(q)
             a == Append(q, y)
  <2>1. w \in Seq(S) /\ (InSeq(y, w) <=> InSeq(y, q) /\ y # s)
    BY WithoutKeeps
  <2>2. o \in Seq(S)
    BY OnceKeeps
  <2>3. Without(a, s) = IF y = s THEN w ELSE Append(w, y)
    BY WithoutAppend
  <2>4. Once(a) = IF InSeq(y, q) THEN o ELSE Append(o, y)
    BY OnceAppend DEF InSeq
  <2>5. Once(w) = Without(o, s) /\ a \in Seq(S)
    BY <1>2
  <2> HIDE DEF w, o, a
  <2>6. Once(Append(w, y)) = IF InSeq(y, w) THEN Once(w) ELSE Append(Once(w), y)
    BY <2>1, OnceAppend DEF InSeq
  <2>7. Without(Append(o, y), s) = IF y = s THEN Without(o, s) ELSE Append(Without(o, s), y)
    BY <2>2, WithoutAppend
  <2>8. Once(Without(a, s)) = Without(Once(a), s)
    <3>1. CASE y = s
      BY <2>3, <2>4, <2>5, <2>7, <3>1
    <3>2. CASE y # s
      BY <2>1, <2>3, <2>4, <2>5, <2>6, <2>7, <3>2
    <3> QED
      BY <3>1, <3>2
  <2> QED
    BY <2>5, <2>8 DEF a
<1> HIDE DEF G
<1>3. \A q \in Seq(S) : q \in G
  BY <1>1, <1>2, SeqInduction
<1> QED
  BY <1>3 DEF G

LEMMA OnceCons ==
  ASSUME NEW S, NEW s \in S
  PROVE  \A seq \in Seq(S) : Once(<<s>> \o seq) = <<s>> \o Without(Once(seq), s)
<1> DEFINE G == {q \in Seq(S) : Once(<<s>> \o q) = <<s>> \o Without(Once(q), s)}
<1>1. <<>> \in G
  <2> DEFINE none == <<>>
  <2>1. none \in Seq(S) /\ <<s>> \o none = Append(none, s) /\ ~ InSeq(s, none)
    BY DEF InSeq
  <2>2. Without(none, s) = none /\ Once(none) = none
    BY WithoutNone, OnceNone
  <2> HIDE DEF none
  <2>3. Once(Append(none, s)) = Append(none, s)
    BY <2>1, <2>2, OnceAppend DEF InSeq
  <2> QED
    BY <2>1, <2>2, <2>3 DEF none
<1>2. ASSUME NEW q \in Seq(S), NEW y \in S, q \in G PROVE Append(q, y) \in G
  <2> DEFINE c == <<s>> \o q
             o == Once(q)
             w == Without(o, s)
             a == Append(q, y)
  <2>1. c \in Seq(S) /\ <<s>> \o a = Append(c, y)
    BY ConsAppend
  <2>2. InSeq(y, c) <=> y = s \/ InSeq(y, q)
    BY InCons
  <2>3. o \in Seq(S)
    BY OnceKeeps
  <2>4. Once(a) = IF InSeq(y, q) THEN o ELSE Append(o, y)
    BY OnceAppend DEF InSeq
  <2>5. Once(c) = <<s>> \o w /\ a \in Seq(S)
    BY <1>2
  <2> HIDE DEF c, a, o
  <2>6. w \in Seq(S)
    BY <2>3, WithoutKeeps
  <2>7. Once(Append(c, y)) = IF InSeq(y, c) THEN Once(c) ELSE Append(Once(c), y)
    BY <2>1, OnceAppend DEF InSeq
  <2>8. Without(Append(o, y), s) = IF y = s THEN w ELSE Append(w, y)
    BY <2>3, WithoutAppend
  <2> HIDE DEF w
  <2>9. <<s>> \o Append(w, y) = Append(<<s>> \o w, y)
    BY <2>6, ConsAppend
  <2>10. Once(<<s>> \o a) = <<s>> \o Without(Once(a), s)
    <3>1. CASE InSeq(y, q)
      BY <2>1, <2>2, <2>4, <2>5, <2>7, <3>1 DEF w
    <3>2. CASE ~ InSeq(y, q)
      BY <2>1, <2>2, <2>4, <2>5, <2>7, <2>8, <2>9, <3>2
    <3> QED
      BY <3>1, <3>2
  <2> QED
    BY <2>5, <2>10 DEF a
<1> HIDE DEF G
<1>3. \A q \in Seq(S) : q \in G
  BY <1>1, <1>2, SeqInduction
<1> QED
  BY <1>3 DEF G

-----------------------------------------------------------------------------
PlayerStates == {"STOPPED", "LOADING", "LOADED", "RUNNING", "PAUSED"}

(* The sources the mixer knows: the one it plays and those that wait.      *)
InMixer(s) == s = FRunningSource \/ InSeq(s, FPausedSources)

(* A player is known to the mixer when it runs or is paused; a radio that  *)
(* is known has been played and not been closed.                           *)
Entered ==
  /\ \A p \in Player : InMixer(p) <=> playing[p] \in {"RUNNING", "PAUSED"}
  /\ \A r \in Radio : InMixer(r) => recording[r] \in {"RUNNING", "PAUSED"}

(* Nobody waits for nobody.                                                *)
NoneWaits == FRunningSource = None => FPausedSources = <<>>

(* The player on top does not count as paused by the mixer.                *)
NotRaced == \A p \in Player : p = FRunningSource => ~ FPausedByRace[p]

(* As long as clients are considerate, a device that says it is open has a *)
(* ring, and a source that was opened keeps it open.                       *)
Ringed == considerate =>
  /\ FBuffer = (FState \notin {"UNKOWN", "CLOSED"})
  /\ \A p \in Player : playing[p] \in {"LOADED", "RUNNING", "PAUSED"} => FBuffer
  /\ \A r \in Radio : recording[r] \notin {"UNKOWN", "CLOSED"} => FBuffer

(* What concerns the sources, and what concerns the device.                *)
SourceInv ==
  /\ TypeOK /\ OnlyOneActive /\ Attachment /\ RacedWaits
  /\ Entered /\ NoneWaits /\ NotRaced

Inv == SourceInv /\ Ringed /\ Heard

LEMMA WaitsIs ==
  RacedWaits <=> \A p \in Player : playing[p] = "PAUSED" /\ FPausedByRace[p] => InSeq(p, FPausedSources)
  BY DEF RacedWaits, InSeq

(* What Add does, whether or not s is on top already.                      *)
LEMMA AddEffect ==
  ASSUME SourceInv, NEW s \in Source, NEW states \in [Player -> PlayerStates],
         Add(s, states), Roomy
  PROVE  /\ FRunningSource' = s
         /\ FPausedSources' \in Seq(Source) /\ Len(FPausedSources') <= MaxPaused
         /\ \A x : InSeq(x, FPausedSources') <=>
                    InSeq(x, FPausedSources) \/ (x = FRunningSource /\ x \notin {s, None})
         /\ sinks' = [x \in Source |-> IF x = s THEN 1 ELSE 0]
         /\ playing' = [p \in Player |->
                          IF p = FRunningSource /\ p # s /\ states[p] = "RUNNING"
                          THEN "PAUSED" ELSE states[p]]
         /\ FPausedByRace' = [p \in Player |->
                                \/ p = FRunningSource /\ p # s /\ states[p] = "RUNNING"
                                \/ FPausedByRace[p] /\ p # s]
<1> USE AudioMixerAssumption
<1>1. /\ FPausedSources \in Seq(Source) /\ Len(FPausedSources) <= MaxPaused
      /\ FRunningSource \in Source \cup {None} /\ None \notin Source
      /\ FPausedByRace \in [Player -> BOOLEAN] /\ sinks \in [Source -> Nat]
      /\ Player \subseteq Source
  BY DEF SourceInv, TypeOK, Source
<1>2. CASE s = FRunningSource
  <2>1. playing' = states /\ UNCHANGED <<FRunningSource, FPausedSources, FPausedByRace, sinks>>
    BY <1>2 DEF Add
  <2>2. FPausedByRace = [p \in Player |-> FPausedByRace[p] /\ p # s]
    BY <1>1, <1>2 DEF SourceInv, NotRaced
  <2>3. sinks = [x \in Source |-> IF x = s THEN 1 ELSE 0]
    BY <1>1, <1>2 DEF SourceInv, Attachment
  <2> QED
    BY <1>1, <1>2, <2>1, <2>2, <2>3
<1>3. CASE s # FRunningSource
  <2>1. /\ FRunningSource' = s
        /\ FPausedSources' = Displace(FRunningSource)
        /\ sinks' = Attach(s, Detach(FRunningSource, sinks))
    BY <1>3 DEF Add
  <2>2. sinks' = [x \in Source |-> IF x = s THEN 1 ELSE 0]
    <3>1. \A x \in Source : Detach(FRunningSource, sinks)[x] = 0
      BY <1>1 DEF Detach, SourceInv, Attachment
    <3> QED
      BY <2>1, <3>1 DEF Attach, Source
  <2>3. /\ playing' = [p \in Player |-> IF p = FRunningSource /\ states[p] = "RUNNING"
                                        THEN "PAUSED" ELSE states[p]]
        /\ FPausedByRace' = [p \in Player |-> IF p = FRunningSource /\ states[p] = "RUNNING"
                                              THEN TRUE ELSE FPausedByRace[p] /\ p # s]
    BY <1>3 DEF Add, Raced
  <2>4. /\ FPausedSources' \in Seq(Source) /\ Len(FPausedSources') <= MaxPaused
        /\ \A x : InSeq(x, FPausedSources') <=>
                   InSeq(x, FPausedSources) \/ (x = FRunningSource /\ x # None)
    <3>1. CASE FRunningSource = None
      BY <1>1, <2>1, <3>1 DEF Displace
    <3>2. CASE FRunningSource # None
      <4>1. FPausedSources' = <<FRunningSource>> \o FPausedSources
        BY <2>1, <3>2 DEF Displace
      <4>2. Len(FPausedSources) < MaxPaused /\ MaxPaused \in Nat
        BY DEF Roomy
      <4>3. \A x : InSeq(x, <<FRunningSource>> \o FPausedSources) <=>
                   x = FRunningSource \/ InSeq(x, FPausedSources)
        BY <1>1, <3>2, InCons
      <4> QED
        BY <1>1, <3>2, <4>1, <4>2, <4>3
    <3> QED
      BY <3>1, <3>2
  <2>5. /\ playing' = [p \in Player |->
                          IF p = FRunningSource /\ p # s /\ states[p] = "RUNNING"
                          THEN "PAUSED" ELSE states[p]]
        /\ FPausedByRace' = [p \in Player |->
                                \/ p = FRunningSource /\ p # s /\ states[p] = "RUNNING"
                                \/ FPausedByRace[p] /\ p # s]
    BY <1>1, <1>3, <2>3
  <2>6. \A x : (x = FRunningSource /\ x \notin {s, None}) <=> (x = FRunningSource /\ x # None)
    BY <1>3
  <2> QED
    BY <2>1, <2>2, <2>4, <2>5, <2>6
<1> QED
  BY <1>2, <1>3

(* What Remove does; heir is the source on top afterwards.                 *)
Removed(s, states, heir, resumed) ==
  /\ FRunningSource' = heir
  /\ heir # s
  /\ s # FRunningSource => heir = FRunningSource
  /\ s = FRunningSource /\ heir # None => InSeq(heir, FPausedSources)
  /\ heir = None => FPausedSources' = <<>> /\ \A x : InSeq(x, FPausedSources) => x = s
  /\ FPausedSources' \in Seq(Source) /\ Len(FPausedSources') <= MaxPaused
  /\ \A x : InSeq(x, FPausedSources') => InSeq(x, FPausedSources) /\ x # s
  /\ \A x : InSeq(x, FPausedSources) /\ x # s => InSeq(x, FPausedSources') \/ x = heir
  /\ sinks' = [x \in Source |-> IF x = heir THEN 1 ELSE 0]
  /\ resumed <=> /\ s = FRunningSource /\ heir \in Player
                 /\ FPausedByRace[heir] /\ states[heir] = "PAUSED"
  /\ playing' = [p \in Player |-> IF p = heir /\ resumed THEN "RUNNING" ELSE states[p]]
  /\ FPausedByRace' = [p \in Player |-> FPausedByRace[p] /\ p # heir]
  /\ IF heir = None THEN Close
     ELSE IF resumed THEN PauseDevice(FALSE) ELSE UNCHANGED device

LEMMA RemoveEffect ==
  ASSUME SourceInv, NEW s \in Source, NEW states \in [Player -> PlayerStates],
         Remove(s, states)
  PROVE  \E heir \in Source \cup {None}, resumed \in BOOLEAN : Removed(s, states, heir, resumed)
<1> USE AudioMixerAssumption
<1> DEFINE waiting == Without(FPausedSources, s)
           heir == IF s # FRunningSource THEN FRunningSource
                   ELSE IF waiting = <<>> THEN None ELSE Head(waiting)
           handOver == s = FRunningSource /\ heir # None
           resumed == handOver /\ heir \in Player /\ FPausedByRace[heir] /\ states[heir] = "PAUSED"
<1>1. /\ FPausedSources \in Seq(Source) /\ Len(FPausedSources) <= MaxPaused
      /\ FRunningSource \in Source \cup {None} /\ None \notin Source
      /\ FPausedByRace \in [Player -> BOOLEAN] /\ sinks \in [Source -> Nat]
      /\ Player \subseteq Source
  BY DEF SourceInv, TypeOK, Source
<1>2. /\ waiting \in Seq(Source) /\ Len(waiting) <= Len(FPausedSources)
      /\ \A x : InSeq(x, waiting) <=> InSeq(x, FPausedSources) /\ x # s
  BY <1>1, WithoutKeeps
<1>3. /\ FRunningSource' = heir
      /\ FPausedSources' = Pop(handOver, waiting)
      /\ sinks' = IF handOver THEN Attach(heir, Detach(s, sinks)) ELSE Detach(s, sinks)
      /\ playing' = [p \in Player |-> IF p = heir /\ resumed THEN "RUNNING" ELSE states[p]]
      /\ FPausedByRace' = [p \in Player |-> FPausedByRace[p] /\ ~ (p = heir /\ handOver)]
      /\ IF LeavesNone(heir, waiting) THEN Close
         ELSE IF resumed THEN PauseDevice(FALSE) ELSE UNCHANGED device
  BY DEF Remove
<1> HIDE DEF waiting
<1>4. waiting # <<>> =>
        /\ Head(waiting) \in Source /\ Tail(waiting) \in Seq(Source)
        /\ Len(Tail(waiting)) <= Len(waiting)
        /\ waiting = <<Head(waiting)>> \o Tail(waiting)
        /\ \A x : InSeq(x, waiting) <=> x = Head(waiting) \/ InSeq(x, Tail(waiting))
  <2> SUFFICES ASSUME waiting # <<>> PROVE
        /\ Head(waiting) \in Source /\ Tail(waiting) \in Seq(Source)
        /\ Len(Tail(waiting)) <= Len(waiting)
        /\ waiting = <<Head(waiting)>> \o Tail(waiting)
        /\ \A x : InSeq(x, waiting) <=> x = Head(waiting) \/ InSeq(x, Tail(waiting))
    OBVIOUS
  <2>1. /\ Head(waiting) \in Source /\ Tail(waiting) \in Seq(Source)
        /\ Len(Tail(waiting)) <= Len(waiting)
        /\ waiting = <<Head(waiting)>> \o Tail(waiting)
    BY <1>2
  <2> DEFINE h == Head(waiting)
             t == Tail(waiting)
  <2> HIDE DEF h, t
  <2>2. h \in Source /\ t \in Seq(Source)
    BY <2>1 DEF h, t
  <2>3. \A x : InSeq(x, <<h>> \o t) <=> x = h \/ InSeq(x, t)
    BY <2>2, InCons
  <2>4. waiting = <<h>> \o t
    BY <2>1 DEF h, t
  <2>5. \A x : InSeq(x, waiting) <=> x = h \/ InSeq(x, t)
    BY <2>3, <2>4
  <2> QED
    BY <2>1, <2>5 DEF h, t
<1>5. waiting = <<>> => \A x : ~ InSeq(x, waiting)
  BY DEF InSeq
<1>6. heir \in Source \cup {None} /\ heir # s
  <2>1. CASE s # FRunningSource
    BY <1>1, <2>1
  <2>2. CASE s = FRunningSource /\ waiting = <<>>
    BY <1>1, <2>2
  <2>3. CASE s = FRunningSource /\ waiting # <<>>
    <3>1. heir = Head(waiting) /\ InSeq(heir, waiting)
      BY <1>4, <2>3
    <3> QED
      BY <1>2, <1>4, <2>3, <3>1
  <2> QED
    BY <2>1, <2>2, <2>3
<1>7. handOver => waiting # <<>> /\ heir = Head(waiting) /\ FPausedSources' = Tail(waiting)
  BY <1>3 DEF Pop
<1>8. ~ handOver => FPausedSources' = waiting
  BY <1>3 DEF Pop
<1>9. heir = None => waiting = <<>>
  <2>1. CASE s # FRunningSource
    <3>1. heir = None => FPausedSources = <<>>
      BY <2>1 DEF SourceInv, NoneWaits
    <3> QED
      BY <3>1, WithoutNone DEF waiting
  <2>2. CASE s = FRunningSource
    BY <1>1, <1>4, <2>2
  <2> QED
    BY <2>1, <2>2
<1>10. s # FRunningSource => heir = FRunningSource
  OBVIOUS
<1>11. s = FRunningSource => (handOver <=> heir # None)
  OBVIOUS
<1>12. s # FRunningSource => ~ handOver
  OBVIOUS
<1>13. resumed <=> /\ s = FRunningSource /\ heir \in Player
                   /\ FPausedByRace[heir] /\ states[heir] = "PAUSED"
  BY <1>1
<1>14. resumed \in BOOLEAN
  OBVIOUS
<1> HIDE DEF heir, handOver, resumed
<1>15. sinks' = [x \in Source |-> IF x = heir THEN 1 ELSE 0]
  <2>1. CASE handOver
    <3>1. sinks' = Attach(heir, Detach(s, sinks)) /\ s = FRunningSource
      BY <1>3, <1>12, <2>1
    <3> QED
      BY <1>1, <3>1 DEF Attach, Detach, SourceInv, Attachment, Source
  <2>2. CASE ~ handOver
    <3>1. sinks' = Detach(s, sinks)
      BY <1>3, <2>2
    <3> QED
      BY <1>1, <1>6, <1>10, <1>11, <2>2, <3>1 DEF Detach, SourceInv, Attachment
  <2> QED
    BY <2>1, <2>2
<1>16. FPausedByRace' = [p \in Player |-> FPausedByRace[p] /\ p # heir]
  <2>1. CASE handOver
    BY <1>3, <2>1
  <2>2. CASE ~ handOver
    <3>1. heir = None \/ heir = FRunningSource
      BY <1>10, <1>11, <2>2
    <3>2. \A p \in Player : p = heir => ~ FPausedByRace[p]
      BY <1>1, <3>1 DEF SourceInv, NotRaced
    <3> QED
      BY <1>1, <1>3, <2>2, <3>2
  <2> QED
    BY <2>1, <2>2
<1>17. /\ FPausedSources' \in Seq(Source) /\ Len(FPausedSources') <= MaxPaused
       /\ \A x : InSeq(x, FPausedSources') => InSeq(x, waiting)
       /\ \A x : InSeq(x, waiting) => InSeq(x, FPausedSources') \/ x = heir
  <2>1. Len(waiting) \in Nat /\ Len(FPausedSources) \in Nat /\ MaxPaused \in Nat
    BY <1>1, <1>2
  <2>2. CASE handOver
    <3>1. FPausedSources' = Tail(waiting) /\ waiting # <<>> /\ heir = Head(waiting)
      BY <1>7, <2>2
    <3>2. Len(Tail(waiting)) \in Nat
      BY <1>4, <3>1
    <3> QED
      BY <1>1, <1>2, <1>4, <2>1, <3>1, <3>2
  <2>3. CASE ~ handOver
    BY <1>1, <1>2, <1>8, <2>1, <2>3
  <2> QED
    BY <2>2, <2>3
<1>18. heir = None => FPausedSources' = <<>> /\ \A x : InSeq(x, FPausedSources) => x = s
  BY <1>2, <1>5, <1>7, <1>8, <1>9
<1>19. s = FRunningSource /\ heir # None => InSeq(heir, FPausedSources)
  BY <1>2, <1>4, <1>7, <1>11
<1>20. IF heir = None THEN Close
       ELSE IF resumed THEN PauseDevice(FALSE) ELSE UNCHANGED device
  BY <1>3, <1>9 DEF LeavesNone
<1>21. /\ \A x : InSeq(x, FPausedSources') => InSeq(x, FPausedSources) /\ x # s
       /\ \A x : InSeq(x, FPausedSources) /\ x # s => InSeq(x, FPausedSources') \/ x = heir
  BY <1>2, <1>17
<1> QED
  BY <1>3, <1>6, <1>10, <1>13, <1>14, <1>15, <1>16, <1>17, <1>18, <1>19, <1>20, <1>21 DEF Removed

-----------------------------------------------------------------------------
LEMMA SourceInvInit == ASSUME Init PROVE Inv
<1> USE AudioMixerAssumption DEF Init
<1>1. <<>> \in Seq(Source) /\ Len(<<>>) = 0 /\ MaxPaused \in Nat /\ \A x : ~ InSeq(x, <<>>)
  BY DEF InSeq
<1>2. TypeOK
  <2>1. FPausedSources \in Seq(Source) /\ Len(FPausedSources) <= MaxPaused
    BY <1>1
  <2>2. sinks \in [Source -> Nat]
    OBVIOUS
  <2> QED
    BY <2>1, <2>2 DEF TypeOK, DevStates
<1>3. OnlyOneActive /\ Attachment /\ NoneWaits /\ NotRaced
  BY DEF OnlyOneActive, Attachment, NoneWaits, NotRaced, Source
<1>4. RacedWaits
  BY DEF RacedWaits
<1>5. Entered
  BY <1>1 DEF Entered, InMixer, Source
<1>6. Ringed
  BY DEF Ringed
<1>7. Heard
  BY DEF Heard, Active, Source
<1> QED
  BY <1>2, <1>3, <1>4, <1>5, <1>6, <1>7 DEF Inv, SourceInv

(* A source that is added plays from then on.                              *)
LEMMA AddSources ==
  ASSUME SourceInv, NEW s \in Source, NEW states \in [Player -> PlayerStates],
         Add(s, states), Roomy, recording' \in [Radio -> DevStates],
         FState' \in DevStates, FObtained' \in Params, FBuffer' \in BOOLEAN,
         considerate' \in BOOLEAN,
         \A p \in Player : states[p] = IF p = s THEN "RUNNING" ELSE playing[p],
         \A r \in Radio : recording'[r] = IF r = s THEN "RUNNING" ELSE recording[r]
  PROVE  SourceInv'
<1> USE AudioMixerAssumption
<1>1. /\ FPausedSources \in Seq(Source)
      /\ FRunningSource \in Source \cup {None} /\ None \notin Source
      /\ FPausedByRace \in [Player -> BOOLEAN]
      /\ Player \subseteq Source /\ Radio \subseteq Source
      /\ \A r \in Radio : r \notin Player
  BY DEF SourceInv, TypeOK, Source
<1>2. /\ FRunningSource' = s
      /\ FPausedSources' \in Seq(Source) /\ Len(FPausedSources') <= MaxPaused
      /\ \A x : InSeq(x, FPausedSources') <=>
                 InSeq(x, FPausedSources) \/ (x = FRunningSource /\ x \notin {s, None})
      /\ sinks' = [x \in Source |-> IF x = s THEN 1 ELSE 0]
      /\ playing' = [p \in Player |->
                       IF p = FRunningSource /\ p # s /\ states[p] = "RUNNING"
                       THEN "PAUSED" ELSE states[p]]
      /\ FPausedByRace' = [p \in Player |->
                             \/ p = FRunningSource /\ p # s /\ states[p] = "RUNNING"
                             \/ FPausedByRace[p] /\ p # s]
  BY AddEffect
<1>3. \A p \in Player :
        /\ playing'[p] = IF p = s THEN "RUNNING"
                         ELSE IF p = FRunningSource /\ playing[p] = "RUNNING" THEN "PAUSED"
                         ELSE playing[p]
        /\ FPausedByRace'[p] <=> \/ p = FRunningSource /\ p # s /\ playing[p] = "RUNNING"
                                 \/ FPausedByRace[p] /\ p # s
  BY <1>2
<1>4. TypeOK'
  <2>1. playing' \in [Player -> PlayerStates] /\ sinks' \in [Source -> Nat]
        /\ FPausedByRace' \in [Player -> BOOLEAN]
    BY <1>1, <1>2 DEF PlayerStates
  <2> QED
    BY <1>1, <1>2, <2>1 DEF TypeOK, PlayerStates
<1>5. OnlyOneActive'
  BY <1>2, <1>3 DEF SourceInv, OnlyOneActive
<1>6. Attachment'
  BY <1>2 DEF Attachment
<1>7. RacedWaits'
  <2>1. ASSUME NEW p \in Player, playing'[p] = "PAUSED", FPausedByRace'[p]
        PROVE  InSeq(p, FPausedSources')
    <3>1. CASE p = FRunningSource /\ p # s /\ playing[p] = "RUNNING"
      BY <1>1, <1>2, <3>1
    <3>2. CASE FPausedByRace[p] /\ p # s /\ ~ (p = FRunningSource /\ playing[p] = "RUNNING")
      <4>1. playing[p] = "PAUSED"
        BY <1>3, <2>1, <3>2
      <4> QED
        BY <1>2, <3>2, <4>1 DEF SourceInv, RacedWaits, InSeq
    <3> QED
      BY <1>3, <2>1, <3>1, <3>2
  <2> QED
    BY <2>1 DEF RacedWaits, InSeq
<1>8. Entered'
  <2>1. ASSUME NEW x \in Source
        PROVE  InMixer(x)' <=> InMixer(x) \/ x = s
    BY <1>1, <1>2, <2>1 DEF InMixer
  <2>2. ASSUME NEW p \in Player
        PROVE  InMixer(p)' <=> playing'[p] \in {"RUNNING", "PAUSED"}
    <3>1. InMixer(p) <=> playing[p] \in {"RUNNING", "PAUSED"}
      BY DEF SourceInv, Entered
    <3> QED
      BY <1>1, <1>3, <2>1, <3>1
  <2>3. ASSUME NEW r \in Radio, InMixer(r)'
        PROVE  recording'[r] \in {"RUNNING", "PAUSED"}
    <3>1. InMixer(r) => recording[r] \in {"RUNNING", "PAUSED"}
      BY DEF SourceInv, Entered
    <3> QED
      BY <1>1, <2>1, <2>3, <3>1
  <2> QED
    BY <2>2, <2>3 DEF Entered
<1>9. NoneWaits'
  BY <1>1, <1>2 DEF NoneWaits
<1>10. NotRaced'
  BY <1>2, <1>3 DEF NotRaced
<1> QED
  BY <1>4, <1>5, <1>6, <1>7, <1>8, <1>9, <1>10 DEF SourceInv

(* A source that is removed is out, and who is on top instead plays if it  *)
(* was the mixer that paused it.                                           *)
LEMMA RemoveSources ==
  ASSUME SourceInv, NEW s \in Source, NEW states \in [Player -> PlayerStates],
         Remove(s, states), recording' \in [Radio -> DevStates],
         FState' \in DevStates, FObtained' \in Params, FBuffer' \in BOOLEAN,
         considerate' \in BOOLEAN,
         \A p \in Player : states[p] = IF p = s THEN "STOPPED" ELSE playing[p],
         \A r \in Radio : recording'[r] = IF r = s THEN "CLOSED" ELSE recording[r]
  PROVE  SourceInv'
<1> USE AudioMixerAssumption
<1>1. /\ FPausedSources \in Seq(Source)
      /\ FRunningSource \in Source \cup {None} /\ None \notin Source
      /\ FPausedByRace \in [Player -> BOOLEAN]
      /\ Player \subseteq Source /\ Radio \subseteq Source
      /\ \A r \in Radio : r \notin Player
  BY DEF SourceInv, TypeOK, Source
<1>2. PICK heir \in Source \cup {None}, resumed \in BOOLEAN : Removed(s, states, heir, resumed)
  BY RemoveEffect
<1> USE DEF Removed
<1>3. \A p \in Player :
        /\ playing'[p] = IF p = heir /\ resumed THEN "RUNNING"
                         ELSE IF p = s THEN "STOPPED" ELSE playing[p]
        /\ FPausedByRace'[p] <=> FPausedByRace[p] /\ p # heir
  BY <1>2
<1>4. TypeOK'
  <2>1. playing' \in [Player -> PlayerStates] /\ sinks' \in [Source -> Nat]
        /\ FPausedByRace' \in [Player -> BOOLEAN]
    BY <1>1, <1>2 DEF PlayerStates
  <2> QED
    BY <1>1, <1>2, <2>1 DEF TypeOK, PlayerStates
<1>5. OnlyOneActive'
  <2> SUFFICES ASSUME NEW p \in Player, playing'[p] = "RUNNING" PROVE p = heir
    BY <1>2 DEF OnlyOneActive
  <2>1. CASE p = heir /\ resumed
    BY <2>1
  <2>2. CASE ~ (p = heir /\ resumed)
    <3>1. p # s /\ playing[p] = "RUNNING"
      BY <1>3, <2>2
    <3> QED
      BY <1>2, <3>1 DEF SourceInv, OnlyOneActive
  <2> QED
    BY <2>1, <2>2
<1>6. Attachment'
  BY <1>2 DEF Attachment
<1>7. RacedWaits'
  <2>1. ASSUME NEW p \in Player, playing'[p] = "PAUSED", FPausedByRace'[p]
        PROVE  InSeq(p, FPausedSources')
    <3>1. p # heir /\ p # s /\ playing[p] = "PAUSED" /\ FPausedByRace[p]
      BY <1>3, <2>1
    <3>2. InSeq(p, FPausedSources)
      BY <3>1 DEF SourceInv, RacedWaits, InSeq
    <3> QED
      BY <1>2, <3>1, <3>2
  <2> QED
    BY <2>1 DEF RacedWaits, InSeq
<1>8. Entered'
  <2>1. ASSUME NEW x \in Source
        PROVE  InMixer(x)' <=> InMixer(x) /\ x # s
    <3>1. ASSUME InMixer(x)' PROVE InMixer(x) /\ x # s
      BY <1>1, <1>2, <3>1 DEF InMixer
    <3>2. ASSUME InMixer(x), x # s PROVE InMixer(x)'
      BY <1>1, <1>2, <3>2 DEF InMixer
    <3> QED
      BY <3>1, <3>2
  <2>2. ASSUME NEW p \in Player
        PROVE  InMixer(p)' <=> playing'[p] \in {"RUNNING", "PAUSED"}
    <3>1. InMixer(p) <=> playing[p] \in {"RUNNING", "PAUSED"}
      BY DEF SourceInv, Entered
    <3>2. CASE p = heir /\ resumed
      <4>1. InMixer(p)'
        BY <1>2, <3>2 DEF InMixer
      <4> QED
        BY <1>3, <3>2, <4>1
    <3>3. CASE ~ (p = heir /\ resumed)
      BY <1>1, <1>3, <2>1, <3>1, <3>3
    <3> QED
      BY <3>2, <3>3
  <2>3. ASSUME NEW r \in Radio, InMixer(r)'
        PROVE  recording'[r] \in {"RUNNING", "PAUSED"}
    <3>1. InMixer(r) => recording[r] \in {"RUNNING", "PAUSED"}
      BY DEF SourceInv, Entered
    <3> QED
      BY <1>1, <2>1, <2>3, <3>1
  <2> QED
    BY <2>2, <2>3 DEF Entered
<1>9. NoneWaits'
  BY <1>2 DEF NoneWaits
<1>10. NotRaced'
  BY <1>2, <1>3 DEF NotRaced
<1> QED
  BY <1>4, <1>5, <1>6, <1>7, <1>8, <1>9, <1>10 DEF SourceInv

-----------------------------------------------------------------------------
(* The device's own variables keep their types.                            *)
LEMMA DeviceTypes ==
  ASSUME TypeOK, Next
  PROVE  /\ FState' \in DevStates /\ FObtained' \in Params /\ FBuffer' \in BOOLEAN
         /\ considerate' \in BOOLEAN /\ recording' \in [Radio -> DevStates]
<1> USE DEF TypeOK, DevStates, device
<1>1. ASSUME NEW params, Open(params)
      PROVE  FState' \in DevStates /\ FObtained' \in Params /\ FBuffer' \in BOOLEAN
  BY <1>1 DEF Open, OpenDevice
<1>2. ASSUME NEW enable, PauseDevice(enable) \/ UNCHANGED device \/ Close
      PROVE  FState' \in DevStates /\ FObtained' \in Params /\ FBuffer' \in BOOLEAN
  BY <1>2 DEF PauseDevice, Close
<1>3. ASSUME NEW s, NEW enable, PauseFor(s, enable)
      PROVE  FState' \in DevStates /\ FObtained' \in Params /\ FBuffer' \in BOOLEAN
  BY <1>2, <1>3 DEF PauseFor
<1>4. ASSUME NEW s, NEW states, Remove(s, states)
      PROVE  FState' \in DevStates /\ FObtained' \in Params /\ FBuffer' \in BOOLEAN
  <2>1. Close \/ PauseDevice(FALSE) \/ UNCHANGED device
    BY <1>4 DEF Remove
  <2> QED
    BY <1>2, <2>1
<1>5. CASE \E p \in Player, params \in Params : Load(p, params)
  BY <1>1, <1>2, <1>5 DEF Load, Heeds
<1>6. CASE \E p \in Player : Play(p)
  BY <1>2, <1>6 DEF Play
<1>7. CASE \E p \in Player : Pause(p)
  BY <1>3, <1>7 DEF Pause
<1>8. CASE \E p \in Player : Stop(p)
  BY <1>4, <1>8 DEF Stop, Heeds
<1>9. CASE \E r \in Radio, params \in Params : RadioOpen(r, params)
  BY <1>1, <1>9 DEF RadioOpen, Heeds
<1>10. CASE \E r \in Radio : RadioPlay(r)
  BY <1>2, <1>10 DEF RadioPlay
<1>11. CASE \E r \in Radio : RadioPause(r)
  BY <1>3, <1>11 DEF RadioPause
<1>12. CASE \E r \in Radio : RadioClose(r)
  BY <1>4, <1>12 DEF RadioClose, Heeds
<1> QED
  BY <1>5, <1>6, <1>7, <1>8, <1>9, <1>10, <1>11, <1>12 DEF Next

(* A step that leaves the mixer's list alone and neither starts nor forgets *)
(* a source.                                                               *)
LEMMA SameSources ==
  ASSUME SourceInv, Next,
         UNCHANGED <<FRunningSource, FPausedSources, FPausedByRace, sinks>>,
         playing' \in [Player -> PlayerStates],
         \A p \in Player :
           \/ playing'[p] = playing[p]
           \/ playing[p] = "RUNNING" /\ playing'[p] = "PAUSED"
           \/ playing[p] = "STOPPED" /\ playing'[p] \in {"LOADING", "LOADED"},
         \A r \in Radio : recording[r] \in {"RUNNING", "PAUSED"}
           => recording'[r] \in {"RUNNING", "PAUSED"}
  PROVE  SourceInv'
<1>1. TypeOK'
  BY DeviceTypes DEF SourceInv, TypeOK, PlayerStates
<1>2. OnlyOneActive'
  <2>1. \A p \in Player : playing'[p] = "RUNNING" => playing[p] = "RUNNING"
    OBVIOUS
  <2> QED
    BY <2>1 DEF SourceInv, OnlyOneActive
<1>3. Attachment' /\ NoneWaits' /\ NotRaced'
  BY DEF SourceInv, Attachment, NoneWaits, NotRaced
<1>4. RacedWaits'
  <2>1. ASSUME NEW p \in Player, playing'[p] = "PAUSED", FPausedByRace[p]
        PROVE  playing[p] = "PAUSED"
    BY <2>1 DEF SourceInv, OnlyOneActive, NotRaced
  <2> QED
    BY <2>1 DEF SourceInv, RacedWaits
<1>5. Entered'
  <2>1. \A x : InMixer(x)' <=> InMixer(x)
    BY DEF InMixer
  <2>2. \A p \in Player : playing'[p] \in {"RUNNING", "PAUSED"} <=> playing[p] \in {"RUNNING", "PAUSED"}
    OBVIOUS
  <2> QED
    BY <2>1, <2>2 DEF SourceInv, Entered
<1> QED
  BY <1>1, <1>2, <1>3, <1>4, <1>5 DEF SourceInv

LEMMA SourceStep == ASSUME SourceInv, [Next]_vars PROVE SourceInv'
<1> USE AudioMixerAssumption
<1>1. CASE UNCHANGED vars
  BY <1>1 DEF vars, device, sources, SourceInv, TypeOK, OnlyOneActive, Attachment, RacedWaits,
              Entered, InMixer, InSeq, NoneWaits, NotRaced
<1> SUFFICES ASSUME Next PROVE SourceInv'
  BY <1>1
<1>2. /\ FState' \in DevStates /\ FObtained' \in Params /\ FBuffer' \in BOOLEAN
      /\ considerate' \in BOOLEAN /\ recording' \in [Radio -> DevStates]
  BY DeviceTypes DEF SourceInv
<1>3. /\ playing \in [Player -> PlayerStates] /\ recording \in [Radio -> DevStates]
      /\ Player \subseteq Source /\ Radio \subseteq Source
      /\ \A r \in Radio : r \notin Player
  BY DEF SourceInv, TypeOK, PlayerStates, Source
<1>4. ASSUME NEW p \in Player, NEW params \in Params, Load(p, params) PROVE SourceInv'
  <2>1. /\ UNCHANGED <<FRunningSource, FPausedSources, FPausedByRace, recording, sinks>>
        /\ playing[p] = "STOPPED"
        /\ \/ playing' = [playing EXCEPT ![p] = "LOADED"]
           \/ playing' = [playing EXCEPT ![p] = "LOADING"]
    BY <1>4 DEF Load
  <2>2. playing' \in [Player -> PlayerStates]
    BY <1>3, <2>1 DEF PlayerStates
  <2>3. \A q \in Player :
           \/ playing'[q] = playing[q]
           \/ playing[q] = "STOPPED" /\ playing'[q] \in {"LOADING", "LOADED"}
    BY <1>3, <2>1
  <2> QED
    BY <2>1, <2>2, <2>3, SameSources
<1>5. ASSUME NEW p \in Player, Play(p) PROVE SourceInv'
  <2> DEFINE states == [playing EXCEPT ![p] = "RUNNING"]
  <2>1. Add(p, states) /\ Roomy /\ recording' = recording
    BY <1>5 DEF Play
  <2>2. states \in [Player -> PlayerStates]
        /\ \A q \in Player : states[q] = IF q = p THEN "RUNNING" ELSE playing[q]
    BY <1>3 DEF PlayerStates
  <2>3. \A r \in Radio : recording'[r] = IF r = p THEN "RUNNING" ELSE recording[r]
    BY <1>3, <2>1
  <2>4. p \in Source
    BY <1>3
  <2> HIDE DEF states
  <2> QED
    BY <1>2, <2>1, <2>2, <2>3, <2>4, AddSources
<1>6. ASSUME NEW p \in Player, Pause(p) PROVE SourceInv'
  <2>1. /\ UNCHANGED <<FRunningSource, FPausedSources, FPausedByRace, recording, sinks>>
        /\ playing[p] = "RUNNING"
        /\ playing' = [playing EXCEPT ![p] = "PAUSED"]
    BY <1>6 DEF Pause
  <2>2. playing' \in [Player -> PlayerStates]
    BY <1>3, <2>1 DEF PlayerStates
  <2>3. \A q \in Player :
           \/ playing'[q] = playing[q]
           \/ playing[q] = "RUNNING" /\ playing'[q] = "PAUSED"
    BY <1>3, <2>1
  <2> QED
    BY <2>1, <2>2, <2>3, SameSources
<1>7. ASSUME NEW p \in Player, Stop(p) PROVE SourceInv'
  <2> DEFINE states == [playing EXCEPT ![p] = "STOPPED"]
  <2>1. Remove(p, states) /\ recording' = recording
    BY <1>7 DEF Stop
  <2>2. states \in [Player -> PlayerStates]
        /\ \A q \in Player : states[q] = IF q = p THEN "STOPPED" ELSE playing[q]
    BY <1>3 DEF PlayerStates
  <2>3. \A r \in Radio : recording'[r] = IF r = p THEN "CLOSED" ELSE recording[r]
    BY <1>3, <2>1
  <2>4. p \in Source
    BY <1>3
  <2> HIDE DEF states
  <2> QED
    BY <1>2, <2>1, <2>2, <2>3, <2>4, RemoveSources
<1>8. ASSUME NEW r \in Radio, NEW params \in Params, RadioOpen(r, params) PROVE SourceInv'
  <2>1. /\ UNCHANGED <<FRunningSource, FPausedSources, playing, FPausedByRace, sinks>>
        /\ recording' = [recording EXCEPT ![r] = IF @ \in {"UNKOWN", "CLOSED"} THEN "OPEN" ELSE @]
    BY <1>8 DEF RadioOpen
  <2>2. \A x \in Radio : recording[x] \in {"RUNNING", "PAUSED"} => recording'[x] = recording[x]
    BY <1>3, <2>1
  <2> QED
    BY <1>3, <2>1, <2>2, SameSources
<1>9. ASSUME NEW r \in Radio, RadioPlay(r) PROVE SourceInv'
  <2>1. Add(r, playing) /\ Roomy /\ recording' = [recording EXCEPT ![r] = "RUNNING"]
    BY <1>9 DEF RadioPlay
  <2>2. \A q \in Player : playing[q] = IF q = r THEN "RUNNING" ELSE playing[q]
    BY <1>3
  <2>3. \A x \in Radio : recording'[x] = IF x = r THEN "RUNNING" ELSE recording[x]
    BY <1>3, <2>1
  <2>4. r \in Source
    BY <1>3
  <2> QED
    BY <1>2, <1>3, <2>1, <2>2, <2>3, <2>4, AddSources
<1>10. ASSUME NEW r \in Radio, RadioPause(r) PROVE SourceInv'
  <2>1. /\ UNCHANGED <<FRunningSource, FPausedSources, playing, FPausedByRace, sinks>>
        /\ recording' = [recording EXCEPT ![r] = "PAUSED"]
    BY <1>10 DEF RadioPause
  <2>2. \A x \in Radio : recording'[x] = recording[x] \/ recording'[x] = "PAUSED"
    BY <1>3, <2>1
  <2> QED
    BY <1>3, <2>1, <2>2, SameSources
<1>11. ASSUME NEW r \in Radio, RadioClose(r) PROVE SourceInv'
  <2>1. Remove(r, playing) /\ recording' = [recording EXCEPT ![r] = "CLOSED"]
    BY <1>11 DEF RadioClose
  <2>2. \A q \in Player : playing[q] = IF q = r THEN "STOPPED" ELSE playing[q]
    BY <1>3
  <2>3. \A x \in Radio : recording'[x] = IF x = r THEN "CLOSED" ELSE recording[x]
    BY <1>3, <2>1
  <2>4. r \in Source
    BY <1>3
  <2> QED
    BY <1>2, <1>3, <2>1, <2>2, <2>3, <2>4, RemoveSources
<1> QED
  BY <1>4, <1>5, <1>6, <1>7, <1>8, <1>9, <1>10, <1>11 DEF Next

-----------------------------------------------------------------------------
(* The device, for considerate clients.                                    *)

(* Opening for another format or anew leaves an open device.               *)
LEMMA OpenRings ==
  ASSUME TypeOK, Ringed, considerate, NEW params, Open(params)
  PROVE  FBuffer' /\ FState' \notin {"UNKOWN", "CLOSED"}
<1>1. CASE OpenDevice
  BY <1>1 DEF OpenDevice
<1>2. CASE InUse /\ UNCHANGED device
  BY <1>2 DEF InUse, device, Ringed
<1> QED
  BY <1>1, <1>2 DEF Open

(* ... and does not disturb what plays.                                    *)
LEMMA OpenHeard ==
  ASSUME Heard, considerate, Active, NEW params, Open(params), MayOpen(params)
  PROVE  FState' = "RUNNING" /\ FBuffer'
<1>1. FState = "RUNNING" /\ FBuffer
  BY DEF Heard
<1>2. UNCHANGED device
  BY <1>1 DEF InUse, MayOpen, Open
<1> QED
  BY <1>1, <1>2 DEF device

(* When a considerate client takes a source out, the device is closed only *)
(* with nothing left that was opened.                                      *)
LEMMA RemoveRings ==
  ASSUME Inv, NEW s \in Source, NEW states \in [Player -> PlayerStates], NEW paused,
         Remove(s, states), considerate, MayLeave(s, paused),
         \A p \in Player : states[p] = IF p = s THEN "STOPPED" ELSE playing[p],
         \A r \in Radio : recording'[r] = IF r = s THEN "CLOSED" ELSE recording[r]
  PROVE  Ringed'
<1> USE AudioMixerAssumption
<1>1. /\ FRunningSource \in Source \cup {None} /\ None \notin Source
      /\ Player \subseteq Source /\ Radio \subseteq Source
      /\ playing \in [Player -> PlayerStates]
  BY DEF Inv, SourceInv, TypeOK, Source, PlayerStates
<1>2. SourceInv /\ Ringed
  BY DEF Inv
<1>3. PICK heir \in Source \cup {None}, resumed \in BOOLEAN : Removed(s, states, heir, resumed)
  BY <1>2, RemoveEffect
<1> USE DEF Removed
<1>4. \A p \in Player :
        playing'[p] = IF p = heir /\ resumed THEN "RUNNING"
                      ELSE IF p = s THEN "STOPPED" ELSE playing[p]
  BY <1>3
<1>5. CASE heir = None
  <2>1. FState' = "CLOSED" /\ FBuffer' = FALSE
    BY <1>3, <1>5 DEF Close
  <2>2. FRunningSource \in {s, None} /\ \A x : InSeq(x, FPausedSources) => x = s
    BY <1>3, <1>5
  <2>3. Prepared \subseteq {s}
    BY <2>2 DEF MayLeave, InSeq
  <2>4. \A x \in Source : InMixer(x) => x = s
    BY <1>1, <2>2 DEF InMixer
  <2>5. ASSUME NEW p \in Player PROVE playing'[p] \notin {"LOADED", "RUNNING", "PAUSED"}
    <3>1. CASE p = s
      BY <1>3, <1>4, <3>1
    <3>2. CASE p # s
      <4>1. playing'[p] = playing[p]
        BY <1>1, <1>3, <1>4, <1>5, <3>2
      <4>2. playing[p] # "LOADED"
        BY <2>3, <3>2 DEF Prepared
      <4>3. playing[p] \notin {"RUNNING", "PAUSED"}
        BY <1>1, <1>2, <2>4, <3>2 DEF SourceInv, Entered
      <4> QED
        BY <4>1, <4>2, <4>3
    <3> QED
      BY <3>1, <3>2
  <2>6. ASSUME NEW r \in Radio PROVE recording'[r] \in {"UNKOWN", "CLOSED"}
    <3>1. CASE r = s
      BY <3>1
    <3>2. CASE r # s
      <4>1. r # FRunningSource
        BY <1>1, <2>2, <3>2
      <4>2. recording[r] \in {"UNKOWN", "CLOSED"}
        BY <2>3, <3>2, <4>1 DEF Prepared
      <4> QED
        BY <3>2, <4>2
    <3> QED
      BY <3>1, <3>2
  <2> QED
    BY <2>1, <2>5, <2>6 DEF Ringed
<1>6. CASE heir # None
  <2>1. ASSUME NEW p \in Player, playing'[p] \in {"LOADED", "RUNNING", "PAUSED"}
        PROVE  playing[p] \in {"LOADED", "RUNNING", "PAUSED"}
    BY <1>3, <1>4, <2>1
  <2>2. ASSUME NEW r \in Radio, recording'[r] \notin {"UNKOWN", "CLOSED"}
        PROVE  recording[r] \notin {"UNKOWN", "CLOSED"}
    BY <2>2
  <2>3. FBuffer' = FBuffer /\ FBuffer' = (FState' \notin {"UNKOWN", "CLOSED"})
    <3>1. CASE resumed
      <4>1. FState' = "RUNNING" /\ FBuffer' = FBuffer
        BY <1>3, <1>6, <3>1 DEF PauseDevice
      <4>2. heir \in Player /\ playing[heir] = "PAUSED"
        BY <1>3, <3>1
      <4>3. FBuffer = TRUE
        BY <1>2, <4>2 DEF Ringed, SourceInv, TypeOK
      <4> QED
        BY <4>1, <4>3
    <3>2. CASE ~ resumed
      BY <1>2, <1>3, <1>6, <3>2 DEF device, Ringed
    <3> QED
      BY <3>1, <3>2
  <2> QED
    BY <1>2, <2>1, <2>2, <2>3 DEF Ringed
<1> QED
  BY <1>5, <1>6

(* Who is on top after a considerate client took a source out is heard if  *)
(* it plays: it goes on, or it is a radio that waited, and the device ran  *)
(* for the source that left.                                               *)
LEMMA RemoveHeard ==
  ASSUME Inv, NEW s \in Source, NEW states \in [Player -> PlayerStates], NEW paused,
         Remove(s, states), considerate, MayLeave(s, paused),
         s = FRunningSource /\ ~ paused => Active,
         \A p \in Player : states[p] = IF p = s THEN "STOPPED" ELSE playing[p],
         \A r \in Radio : recording'[r] = IF r = s THEN "CLOSED" ELSE recording[r]
  PROVE  Heard'
<1> USE AudioMixerAssumption
<1>1. /\ FRunningSource \in Source \cup {None} /\ None \notin Source
      /\ \A r \in Radio : r \notin Player
      /\ playing \in [Player -> PlayerStates] /\ FBuffer \in BOOLEAN
  BY DEF Inv, SourceInv, TypeOK, Source, PlayerStates
<1>2. SourceInv /\ Ringed /\ Heard
  BY DEF Inv
<1>3. PICK heir \in Source \cup {None}, resumed \in BOOLEAN : Removed(s, states, heir, resumed)
  BY <1>2, RemoveEffect
<1> USE DEF Removed
<1>4. \A p \in Player :
        playing'[p] = IF p = heir /\ resumed THEN "RUNNING"
                      ELSE IF p = s THEN "STOPPED" ELSE playing[p]
  BY <1>3
<1> SUFFICES ASSUME Active' PROVE FState' = "RUNNING" /\ FBuffer'
  BY DEF Heard
<1>5. heir \in Source
  BY <1>1, <1>3 DEF Active, Source
<1>6. CASE resumed
  <2>1. FState' = "RUNNING" /\ FBuffer' = FBuffer
    BY <1>1, <1>3, <1>5, <1>6 DEF PauseDevice
  <2>2. heir \in Player /\ playing[heir] = "PAUSED"
    BY <1>3, <1>6
  <2>3. FBuffer
    BY <1>2, <2>2 DEF Ringed
  <2> QED
    BY <2>1, <2>3
<1>7. CASE ~ resumed
  <2>1. UNCHANGED device
    BY <1>1, <1>3, <1>5, <1>7
  <2>2. Active
    <3>1. CASE s # FRunningSource
      BY <1>1, <1>3, <1>4, <1>7, <3>1 DEF Active
    <3>2. CASE s = FRunningSource
      <4>1. ~ paused
        BY <3>2 DEF MayLeave
      <4> QED
        BY <3>2, <4>1
    <3> QED
      BY <3>1, <3>2
  <2> QED
    BY <1>2, <2>1, <2>2 DEF Heard, device
<1> QED
  BY <1>6, <1>7

LEMMA DeviceStep == ASSUME Inv, [Next]_vars PROVE Ringed' /\ Heard'
<1> USE AudioMixerAssumption
<1>1. CASE UNCHANGED vars
  BY <1>1 DEF vars, device, sources, Inv, Ringed, Heard, Active
<1> SUFFICES ASSUME Next PROVE Ringed' /\ Heard'
  BY <1>1
<1>2. /\ SourceInv /\ TypeOK /\ Ringed /\ Heard
      /\ playing \in [Player -> PlayerStates] /\ recording \in [Radio -> DevStates]
      /\ Player \subseteq Source /\ Radio \subseteq Source /\ None \notin Source
      /\ \A r \in Radio : r \notin Player
      /\ considerate \in BOOLEAN /\ FBuffer \in BOOLEAN
  BY DEF Inv, SourceInv, TypeOK, PlayerStates, Source
<1>3. CASE ~ considerate'
  BY <1>3 DEF Ringed, Heard
<1> SUFFICES ASSUME considerate' PROVE Ringed' /\ Heard'
  BY <1>3
<1>4. ASSUME NEW p \in Player, NEW params \in Params, Load(p, params) PROVE Ringed' /\ Heard'
  <2>1. /\ considerate /\ MayOpen(params) /\ playing[p] = "STOPPED"
        /\ FRunningSource' = FRunningSource /\ recording' = recording
        /\ \/ Open(params) /\ playing' = [playing EXCEPT ![p] = "LOADED"]
           \/ UNCHANGED device /\ playing' = [playing EXCEPT ![p] = "LOADING"]
    BY <1>4 DEF Load, Heeds
  <2>2. \A q \in Player : playing'[q] = "RUNNING" => playing[q] = "RUNNING"
    BY <1>2, <2>1
  <2>3. Active' => Active
    BY <2>1, <2>2 DEF Active
  <2>4. CASE Open(params)
    <3>1. FBuffer' /\ FState' \notin {"UNKOWN", "CLOSED"}
      BY <1>2, <2>1, <2>4, OpenRings
    <3>2. FBuffer' \in BOOLEAN
      BY <1>2, DeviceTypes
    <3>3. Ringed'
      BY <3>1, <3>2 DEF Ringed
    <3>4. Active' => FState' = "RUNNING" /\ FBuffer'
      BY <1>2, <2>1, <2>3, <2>4, OpenHeard
    <3> QED
      BY <3>3, <3>4 DEF Heard
  <2>5. CASE UNCHANGED device /\ playing' = [playing EXCEPT ![p] = "LOADING"]
    <3>1. \A q \in Player : playing'[q] \in {"LOADED", "RUNNING", "PAUSED"} => playing'[q] = playing[q]
      BY <1>2, <2>5
    <3>2. Ringed'
      BY <1>2, <2>1, <2>5, <3>1 DEF Ringed, device
    <3> QED
      BY <1>2, <2>1, <2>3, <2>5, <3>2 DEF Heard, device
  <2> QED
    BY <2>1, <2>4, <2>5
<1>5. ASSUME NEW p \in Player, Play(p) PROVE Ringed' /\ Heard'
  <2>1. /\ considerate /\ playing[p] \in {"LOADED", "PAUSED"}
        /\ FState' = "RUNNING" /\ FBuffer' = FBuffer
    BY <1>5 DEF Play, PauseDevice
  <2>2. FBuffer' = TRUE
    BY <1>2, <2>1 DEF Ringed
  <2> QED
    BY <2>1, <2>2 DEF Ringed, Heard
<1>6. ASSUME NEW p \in Player, Pause(p) PROVE Ringed' /\ Heard'
  <2>1. /\ considerate /\ playing[p] = "RUNNING" /\ playing' = [playing EXCEPT ![p] = "PAUSED"]
        /\ PauseFor(p, TRUE) /\ FRunningSource' = FRunningSource /\ recording' = recording
    BY <1>6 DEF Pause
  <2>2. FBuffer = TRUE
    BY <1>2, <2>1 DEF Ringed
  <2>3. FBuffer' = TRUE /\ FState' \notin {"UNKOWN", "CLOSED"}
    BY <1>2, <2>1, <2>2 DEF PauseFor, PauseDevice, device, Ringed
  <2>4. ASSUME Active' PROVE UNCHANGED device /\ Active
    <3>1. FRunningSource # p
      BY <1>2, <2>1, <2>4 DEF Active
    <3> QED
      BY <1>2, <2>1, <2>4, <3>1 DEF Active, PauseFor
  <2>5. Ringed'
    BY <2>3 DEF Ringed
  <2> QED
    BY <1>2, <2>1, <2>4, <2>5 DEF Heard, device
<1>7. ASSUME NEW p \in Player, Stop(p) PROVE Ringed' /\ Heard'
  <2> DEFINE states == [playing EXCEPT ![p] = "STOPPED"]
             paused == playing[p] = "PAUSED"
  <2>1. /\ considerate /\ MayLeave(p, paused) /\ Remove(p, states)
        /\ recording' = recording /\ playing[p] # "STOPPED"
    BY <1>7 DEF Stop, Heeds
  <2>2. /\ states \in [Player -> PlayerStates]
        /\ \A q \in Player : states[q] = IF q = p THEN "STOPPED" ELSE playing[q]
        /\ \A r \in Radio : recording'[r] = IF r = p THEN "CLOSED" ELSE recording[r]
    BY <1>2, <2>1 DEF PlayerStates
  <2>3. ASSUME p = FRunningSource, ~ paused PROVE Active
    <3>1. playing[p] \in {"RUNNING", "PAUSED"}
      BY <1>2, <2>3 DEF SourceInv, Entered, InMixer
    <3> QED
      BY <2>3, <3>1 DEF Active
  <2>4. p \in Source
    BY <1>2
  <2> HIDE DEF states, paused
  <2> QED
    BY <2>1, <2>2, <2>3, <2>4, RemoveRings, RemoveHeard
<1>8. ASSUME NEW r \in Radio, NEW params \in Params, RadioOpen(r, params) PROVE Ringed' /\ Heard'
  <2>1. /\ considerate /\ MayOpen(params) /\ Open(params)
        /\ FRunningSource' = FRunningSource /\ playing' = playing
        /\ recording' = [recording EXCEPT ![r] = IF @ \in {"UNKOWN", "CLOSED"} THEN "OPEN" ELSE @]
    BY <1>8 DEF RadioOpen, Heeds
  <2>2. \A x \in Radio : recording'[x] = "RUNNING" => recording[x] = "RUNNING"
    BY <1>2, <2>1
  <2>3. Active' => Active
    BY <2>1, <2>2 DEF Active
  <2>4. FBuffer' = TRUE /\ FState' \notin {"UNKOWN", "CLOSED"}
    BY <1>2, <2>1, OpenRings, DeviceTypes
  <2>5. Ringed'
    BY <2>4 DEF Ringed
  <2>6. Active' => FState' = "RUNNING" /\ FBuffer'
    BY <1>2, <2>1, <2>3, OpenHeard
  <2> QED
    BY <2>5, <2>6 DEF Heard
<1>9. ASSUME NEW r \in Radio, RadioPlay(r) PROVE Ringed' /\ Heard'
  <2>1. /\ considerate /\ recording[r] \notin {"UNKOWN", "CLOSED"}
        /\ FState' = "RUNNING" /\ FBuffer' = FBuffer
    BY <1>9 DEF RadioPlay, PauseDevice
  <2>2. FBuffer' = TRUE
    BY <1>2, <2>1 DEF Ringed
  <2> QED
    BY <2>1, <2>2 DEF Ringed, Heard
<1>10. ASSUME NEW r \in Radio, RadioPause(r) PROVE Ringed' /\ Heard'
  <2>1. /\ considerate /\ recording[r] \notin {"UNKOWN", "CLOSED"}
        /\ recording' = [recording EXCEPT ![r] = "PAUSED"]
        /\ PauseFor(r, TRUE) /\ FRunningSource' = FRunningSource /\ playing' = playing
    BY <1>10 DEF RadioPause
  <2>2. FBuffer = TRUE
    BY <1>2, <2>1 DEF Ringed
  <2>3. FBuffer' = TRUE /\ FState' \notin {"UNKOWN", "CLOSED"}
    BY <1>2, <2>1, <2>2 DEF PauseFor, PauseDevice, device, Ringed
  <2>4. ASSUME Active' PROVE UNCHANGED device /\ Active
    <3>1. FRunningSource # r
      BY <1>2, <2>1, <2>4 DEF Active
    <3> QED
      BY <1>2, <2>1, <2>4, <3>1 DEF Active, PauseFor
  <2>5. Ringed'
    BY <2>3 DEF Ringed
  <2> QED
    BY <1>2, <2>1, <2>4, <2>5 DEF Heard, device
<1>11. ASSUME NEW r \in Radio, RadioClose(r) PROVE Ringed' /\ Heard'
  <2> DEFINE paused == recording[r] = "PAUSED"
  <2>1. /\ considerate /\ MayLeave(r, paused) /\ Remove(r, playing)
        /\ recording' = [recording EXCEPT ![r] = "CLOSED"]
    BY <1>11 DEF RadioClose, Heeds
  <2>2. /\ \A q \in Player : playing[q] = IF q = r THEN "STOPPED" ELSE playing[q]
        /\ \A x \in Radio : recording'[x] = IF x = r THEN "CLOSED" ELSE recording[x]
    BY <1>2, <2>1
  <2>3. ASSUME r = FRunningSource, ~ paused PROVE Active
    <3>1. recording[r] \in {"RUNNING", "PAUSED"}
      BY <1>2, <2>3 DEF SourceInv, Entered, InMixer
    <3> QED
      BY <2>3, <3>1 DEF Active
  <2>4. r \in Source
    BY <1>2
  <2> HIDE DEF paused
  <2> QED
    BY <1>2, <2>1, <2>2, <2>3, <2>4, RemoveRings, RemoveHeard
<1> QED
  BY <1>4, <1>5, <1>6, <1>7, <1>8, <1>9, <1>10, <1>11 DEF Next

LEMMA MixerInvariant == Spec => []Inv
<1>1. Init => Inv
  BY SourceInvInit
<1>2. Inv /\ [Next]_vars => Inv'
  <2> SUFFICES ASSUME Inv, [Next]_vars PROVE Inv'
    OBVIOUS
  <2>1. SourceInv'
    BY SourceStep DEF Inv
  <2>2. Ringed' /\ Heard'
    BY DeviceStep
  <2> QED
    BY <2>1, <2>2 DEF Inv
<1> QED
  BY <1>1, <1>2, PTL DEF Spec

-----------------------------------------------------------------------------
(* Add puts a source in front of all others, whatever the mixer's list     *)
(* says of it already.                                                     *)
LEMMA AddIsAdd ==
  ASSUME SourceInv, NEW s \in Source, NEW states, Add(s, states)
  PROVE  Stack!Add(s) \/ UNCHANGED Order
<1> USE AudioMixerAssumption
<1>1. /\ FPausedSources \in Seq(Source) /\ s # None
      /\ FRunningSource \in Source \cup {None}
  BY DEF SourceInv, TypeOK, Source
<1>2. CASE s = FRunningSource
  BY <1>2 DEF Add, Order
<1>3. CASE s # FRunningSource
  <2> DEFINE others == Displace(FRunningSource)
  <2>1. FRunningSource' = s /\ FPausedSources' = others
    BY <1>3 DEF Add
  <2>2. others \in Seq(Source) /\ Once(others) = Order
    <3>1. CASE FRunningSource = None
      <4>1. FPausedSources = <<>>
        BY <3>1 DEF SourceInv, NoneWaits
      <4> QED
        BY <1>1, <3>1, <4>1, OnceNone DEF Displace, Order
    <3>2. CASE FRunningSource # None
      BY <1>1, <3>2 DEF Displace, Order
    <3> QED
      BY <3>1, <3>2
  <2> HIDE DEF others
  <2>3. Once(<<s>> \o others) = <<s>> \o Without(Order, s)
    BY <2>2, OnceCons
  <2>4. Order' = Once(<<s>> \o others)
    BY <1>1, <2>1 DEF Order
  <2>5. Stack!Without(Order, s) = Without(Order, s)
    BY DEF Stack!Without, Stack!Picked, Without, Picked
  <2> QED
    BY <2>3, <2>4, <2>5 DEF Stack!Add
<1> QED
  BY <1>2, <1>3

(* Remove takes it out from wherever it is.                                *)
LEMMA RemoveIsRemove ==
  ASSUME SourceInv, NEW s \in Source, NEW states, Remove(s, states)
  PROVE  Stack!Remove(s)
<1> USE AudioMixerAssumption
<1> DEFINE waiting == Without(FPausedSources, s)
<1>1. /\ FPausedSources \in Seq(Source) /\ s # None
      /\ FRunningSource \in Source \cup {None}
  BY DEF SourceInv, TypeOK, Source
<1>2. waiting \in Seq(Source)
  BY <1>1, WithoutKeeps
<1>3. /\ FRunningSource' = IF s # FRunningSource THEN FRunningSource
                           ELSE IF waiting = <<>> THEN None ELSE Head(waiting)
      /\ FPausedSources' = Pop(s = FRunningSource /\ FRunningSource' # None, waiting)
  BY DEF Remove
<1>4. FRunningSource # None =>
        /\ <<FRunningSource>> \o FPausedSources \in Seq(Source)
        /\ Without(<<FRunningSource>> \o FPausedSources, s) =
             IF FRunningSource = s THEN waiting ELSE <<FRunningSource>> \o waiting
  BY <1>1, WithoutCons
<1> HIDE DEF waiting
<1>5. Order' = Without(Order, s)
  <2>1. CASE FRunningSource = None
    <3>1. FPausedSources = <<>>
      BY <2>1 DEF SourceInv, NoneWaits
    <3> QED
      BY <1>1, <1>3, <2>1, WithoutNone DEF Order
  <2>2. CASE FRunningSource # None
    <3> DEFINE all == <<FRunningSource>> \o FPausedSources
    <3>1. all \in Seq(Source) /\ Order = Once(all)
      BY <1>4, <2>2 DEF Order
    <3>2. Without(all, s) = IF FRunningSource = s THEN waiting ELSE <<FRunningSource>> \o waiting
      BY <1>4, <2>2
    <3> HIDE DEF all
    <3>3. Without(Order, s) = Once(Without(all, s))
      BY <3>1, OnceWithout
    <3>4. CASE s # FRunningSource
      <4>1. FRunningSource' = FRunningSource /\ FPausedSources' = waiting
        BY <1>3, <3>4 DEF Pop
      <4> QED
        BY <2>2, <3>2, <3>3, <3>4, <4>1 DEF Order
    <3>5. CASE s = FRunningSource /\ waiting = <<>>
      <4>1. FRunningSource' = None
        BY <1>3, <3>5
      <4> QED
        BY <3>2, <3>3, <3>5, <4>1, OnceNone DEF Order
    <3>6. CASE s = FRunningSource /\ waiting # <<>>
      <4>1. FRunningSource' = Head(waiting) /\ Head(waiting) # None
        BY <1>1, <1>2, <1>3, <3>6 DEF Source
      <4>2. FPausedSources' = Tail(waiting)
        BY <1>3, <3>6, <4>1 DEF Pop
      <4>3. waiting = <<Head(waiting)>> \o Tail(waiting)
        BY <1>2, <3>6
      <4> QED
        BY <3>2, <3>3, <3>6, <4>1, <4>2, <4>3 DEF Order
    <3> QED
      BY <3>4, <3>5, <3>6
  <2> QED
    BY <2>1, <2>2
<1>6. Stack!Without(Order, s) = Without(Order, s)
  BY DEF Stack!Without, Stack!Picked, Without, Picked
<1> QED
  BY <1>5, <1>6 DEF Stack!Remove

-----------------------------------------------------------------------------
(* All that TypeOK says of the mixer and its sources, the bound on the list *)
(* of displaced sources among it, holds forever.                           *)
THEOREM MixerTypes == Spec => []TypeOK
<1>1. Inv => TypeOK
  BY DEF Inv, SourceInv
<1> QED
  BY <1>1, MixerInvariant, PTL

(* At every moment only the source the mixer plays can be a player that    *)
(* runs (src/audio_mixer.cpp:41-130, src/ff_audio.cpp:154-249).            *)
THEOREM OneActiveSource == Spec => []OnlyOneActive
<1>1. Inv => OnlyOneActive
  BY DEF Inv, SourceInv
<1> QED
  BY <1>1, MixerInvariant, PTL

(* That source alone has the mixer among its sinks, and has it once: its   *)
(* frames are mixed in, and nobody else's, after any Add that displaces    *)
(* and any Remove that hands over (src/audio_mixer.cpp:61-102).            *)
THEOREM AttachedIsActive == Spec => []Attachment
<1>1. Inv => Attachment
  BY DEF Inv, SourceInv
<1> QED
  BY <1>1, MixerInvariant, PTL

(* A player that was paused for another source is still in the list from   *)
(* which Remove resumes it.                                                *)
THEOREM NoneForgotten == Spec => []RacedWaits
<1>1. Inv => RacedWaits
  BY DEF Inv, SourceInv
<1> QED
  BY <1>1, MixerInvariant, PTL

(* Considerate clients are heard: the device runs and has its ring while a *)
(* source plays.                                                           *)
THEOREM ConsiderateAreHeard == Spec => []Heard
<1>1. Inv => Heard
  BY DEF Inv
<1> QED
  BY <1>1, MixerInvariant, PTL

(* The mixer's calls, Play, Stop and all others, are those of a stack of   *)
(* sources: duplicates in its list never change who plays next.            *)
THEOREM MixerIsStack == Spec => ImplementsStack
<1>1. Init => Stack!Init
  BY DEF Init, Stack!Init, Order
<1>2. Inv /\ [Next]_vars => [Stack!Next]_Order
  <2> SUFFICES ASSUME Inv, [Next]_vars PROVE Stack!Next \/ UNCHANGED Order
    BY DEF Stack!Next
  <2>1. ASSUME UNCHANGED <<FRunningSource, FPausedSources>> PROVE UNCHANGED Order
    BY <2>1 DEF Order
  <2>2. ASSUME NEW s \in Source, NEW states, Add(s, states) \/ Remove(s, states)
        PROVE  Stack!Next \/ UNCHANGED Order
    BY <2>2, AddIsAdd, RemoveIsRemove DEF Inv, Stack!Next
  <2>3. Player \subseteq Source /\ Radio \subseteq Source
    BY DEF Source
  <2>4. CASE UNCHANGED vars
    BY <2>1, <2>4 DEF vars
  <2>5. CASE \E p \in Player, params \in Params : Load(p, params)
    BY <2>1, <2>5 DEF Load
  <2>6. CASE \E p \in Player : Play(p)
    BY <2>2, <2>3, <2>6 DEF Play
  <2>7. CASE \E p \in Player : Pause(p)
    BY <2>1, <2>7 DEF Pause
  <2>8. CASE \E p \in Player : Stop(p)
    BY <2>2, <2>3, <2>8 DEF Stop
  <2>9. CASE \E r \in Radio, params \in Params : RadioOpen(r, params)
    BY <2>1, <2>9 DEF RadioOpen
  <2>10. CASE \E r \in Radio : RadioPlay(r)
    BY <2>2, <2>3, <2>10 DEF RadioPlay
  <2>11. CASE \E r \in Radio : RadioPause(r)
    BY <2>1, <2>11 DEF RadioPause
  <2>12. CASE \E r \in Radio : RadioClose(r)
    BY <2>2, <2>3, <2>12 DEF RadioClose
  <2> QED
    BY <2>4, <2>5, <2>6, <2>7, <2>8, <2>9, <2>10, <2>11, <2>12 DEF Next
<1> QED
  BY <1>1, <1>2, MixerInvariant, PTL DEF Spec, ImplementsStack, Stack!Spec
=============================================================================
