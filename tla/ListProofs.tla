----------------------------- MODULE ListProofs -----------------------------
(***************************************************************************)
(* For any items, values and calls: the list is a string of its items,     *)
(* from FEntry to the link FExtry points to, and so the sequence ValueList *)
(* promises; no item is lost or freed while listed, and an iterator stays  *)
(* on the string.  For any observers that do not delete themselves, Notify *)
(* tells each of them once.                                                *)
(***************************************************************************)
EXTENDS Observable, FiniteSetTheorems, WellFoundedInduction, TLAPS

(* A set of numbers has a least one.                                       *)
LEMMA Least ==
  ASSUME NEW S \in SUBSET Nat, S # {}
  PROVE  \E n \in S : \A m \in S : n <= m
<1> DEFINE R == OpToRel(<, Nat)
<1>1. \E n \in S : \A m \in S : <<m, n>> \notin R
  <2>1. IsWellFoundedOn(R, Nat)
    BY NatLessThanWellFounded
  <2> HIDE DEF R
  <2> QED
    BY <2>1, WFMin
<1>2. \A m, n \in Nat : m < n => <<m, n>> \in R
  BY DEF OpToRel
<1> HIDE DEF R
<1>3. PICK n \in S : \A m \in S : <<m, n>> \notin R
  BY <1>1
<1>4. \A m \in S : ~ (m < n)
  BY <1>2, <1>3
<1> QED
  BY <1>4

-----------------------------------------------------------------------------
(* The list is strung on the links l[0], which is FEntry, to l[n]; the     *)
(* items are l[1] to l[n].                                                 *)
Strung(l, n) ==
  /\ n \in Nat /\ l \in [0 .. n -> Link]
  /\ l[0] = Entry
  /\ \A i \in 1 .. n : l[i] \in Node
  /\ \A i, j \in 0 .. n : l[i] = l[j] => i = j
  /\ \A i \in 0 .. n : next[l[i]] = IF i < n THEN l[i + 1] ELSE NULL
  /\ FExtry = l[n]

(* It is no longer than there are items.                                   *)
LEMMA StrungBound ==
  ASSUME NEW l, NEW n, Strung(l, n)
  PROVE  n <= Cardinality(Node) /\ Cardinality(Node) \in Nat
<1> DEFINE f == [i \in 1 .. n |-> l[i]]
<1>1. n \in Nat /\ f \in [1 .. n -> Node] /\ \A i, j \in 1 .. n : f[i] = f[j] => i = j
  BY DEF Strung
<1>2. f \in Injection(1 .. n, Node)
  BY <1>1 DEF Injection, IsInjective
<1>3. IsFiniteSet(Node) /\ Cardinality(Node) \in Nat
  BY LinkedListAssumption, FS_CardinalityType
<1>4. Cardinality(1 .. n) <= Cardinality(Node)
  BY <1>2, <1>3, FS_Injection
<1>5. Cardinality(1 .. n) = n
  <2>1. 1 \in Int /\ n \in Int
    BY <1>1
  <2>2. Cardinality(1 .. n) = IF 1 > n THEN 0 ELSE n - 1 + 1
    BY <2>1, FS_Interval
  <2> QED
    BY <1>1, <2>2
<1> QED
  BY <1>3, <1>4, <1>5

(* The function that Chain walks with.                                     *)
IsWalk(f) ==
  f = [k \in 0 .. Cardinality(Node) |->
         IF k = 0 THEN next[Entry] ELSE IF f[k - 1] \in Node THEN next[f[k - 1]] ELSE NULL]

LEMMA WalkExists ==
  ASSUME NEW l, NEW n, Strung(l, n)
  PROVE  IsWalk([k \in 0 .. Cardinality(Node) |-> IF k < n THEN l[k + 1] ELSE NULL])
<1> DEFINE N == Cardinality(Node)
           f == [k \in 0 .. N |-> IF k < n THEN l[k + 1] ELSE NULL]
<1>1. N \in Nat /\ n \in Nat /\ n <= N
  BY StrungBound DEF Strung
<1>2. NULL \notin Node
  BY LinkedListAssumption
<1>3. \A k \in 0 .. N : f[k] = IF k < n THEN l[k + 1] ELSE NULL
  OBVIOUS
<1>4. f = [k \in 0 .. N |-> f[k]]
  OBVIOUS
<1> HIDE DEF f, N
<1>5. ASSUME NEW k \in 0 .. N
      PROVE  f[k] = IF k = 0 THEN next[Entry] ELSE IF f[k - 1] \in Node THEN next[f[k - 1]] ELSE NULL
  <2>1. CASE k = 0
    <3>1. next[Entry] = IF 0 < n THEN l[0 + 1] ELSE NULL
      BY <1>1 DEF Strung
    <3> QED
      BY <1>1, <1>3, <2>1, <3>1
  <2>2. CASE k # 0 /\ k <= n
    <3>1. k - 1 \in 0 .. N /\ k - 1 < n /\ (k - 1) + 1 = k /\ k \in 0 .. n /\ k \in 1 .. n
      BY <1>1, <2>2
    <3>2. f[k - 1] = l[k] /\ l[k] \in Node
      BY <1>3, <3>1 DEF Strung
    <3>3. next[l[k]] = IF k < n THEN l[k + 1] ELSE NULL
      BY <3>1 DEF Strung
    <3> QED
      BY <1>3, <2>2, <3>2, <3>3
  <2>3. CASE k > n
    <3>1. k - 1 \in 0 .. N /\ ~ (k - 1 < n) /\ k # 0 /\ ~ (k < n)
      BY <1>1, <2>3
    <3> QED
      BY <1>2, <1>3, <3>1
  <2> QED
    BY <1>1, <2>1, <2>2, <2>3
<1> QED
  BY <1>4, <1>5 DEF IsWalk, f, N

LEMMA WalksAgree ==
  ASSUME NEW f, NEW g, IsWalk(f), IsWalk(g), NEW k \in 0 .. Cardinality(Node)
  PROVE  f[k] = g[k]
<1> DEFINE N == Cardinality(Node)
           Bad == {i \in 0 .. N : f[i] # g[i]}
<1> SUFFICES ASSUME Bad # {} PROVE FALSE
  OBVIOUS
<1>1. N \in Nat
  BY LinkedListAssumption, FS_CardinalityType
<1>2. PICK i \in Bad : \A j \in Bad : i <= j
  <2>1. Bad \subseteq Nat
    OBVIOUS
  <2> HIDE DEF Bad
  <2> QED
    BY <2>1, Least
<1>3. /\ f[i] = IF i = 0 THEN next[Entry] ELSE IF f[i - 1] \in Node THEN next[f[i - 1]] ELSE NULL
      /\ g[i] = IF i = 0 THEN next[Entry] ELSE IF g[i - 1] \in Node THEN next[g[i - 1]] ELSE NULL
  <2>1. i \in 0 .. N
    OBVIOUS
  <2> QED
    BY <2>1 DEF IsWalk
<1>4. CASE i = 0
  BY <1>3, <1>4
<1>5. CASE i # 0
  <2>1. i - 1 \in 0 .. N /\ i - 1 \notin Bad
    BY <1>1, <1>2, <1>5
  <2> QED
    BY <1>3, <1>5, <2>1
<1> QED
  BY <1>4, <1>5

LEMMA ChainIs ==
  ASSUME NEW l, NEW n, Strung(l, n)
  PROVE  Chain = [k \in 1 .. n |-> l[k]]
<1> DEFINE N == Cardinality(Node)
           at == CHOOSE f : IsWalk(f)
           reached == {k \in 0 .. N - 1 : at[k] \in Node}
<1>1. Chain = [k \in 1 .. Cardinality(reached) |-> at[k - 1]]
  BY DEF Chain, IsWalk
<1>2. N \in Nat /\ n \in Nat /\ n <= N /\ NULL \notin Node
  BY StrungBound, LinkedListAssumption DEF Strung
<1> DEFINE f == [k \in 0 .. N |-> IF k < n THEN l[k + 1] ELSE NULL]
<1>3. IsWalk(f)
  BY WalkExists
<1>4. IsWalk(at)
  BY <1>3
<1> HIDE DEF at
<1>5. \A k \in 0 .. N : at[k] = IF k < n THEN l[k + 1] ELSE NULL
  BY <1>3, <1>4, WalksAgree
<1>6. reached = 0 .. n - 1
  <2>1. ASSUME NEW k \in 0 .. N - 1 PROVE at[k] \in Node <=> k < n
    <3>1. at[k] = IF k < n THEN l[k + 1] ELSE NULL
      BY <1>2, <1>5
    <3>2. k < n => l[k + 1] \in Node
      BY <1>2 DEF Strung
    <3> QED
      BY <1>2, <3>1, <3>2
  <2> QED
    BY <1>2, <2>1
<1> HIDE DEF reached
<1>7. Cardinality(reached) = n
  <2>1. Cardinality(0 .. n - 1) = IF 0 > n - 1 THEN 0 ELSE (n - 1) - 0 + 1
    BY <1>2, FS_Interval
  <2> QED
    BY <1>2, <1>6, <2>1
<1>8. \A k \in 1 .. n : at[k - 1] = l[k]
  <2> TAKE k \in 1 .. n
  <2>1. k - 1 \in 0 .. N /\ k - 1 < n /\ (k - 1) + 1 = k
    BY <1>2
  <2> QED
    BY <1>5, <2>1
<1> QED
  BY <1>1, <1>7, <1>8

(* What the walk finds are the items, and the iterator's tests are about   *)
(* places in it.                                                           *)
LEMMA StrungFacts ==
  ASSUME NEW l, NEW n, Strung(l, n)
  PROVE  /\ DOMAIN Chain = 1 .. n /\ Len(Chain) = n
         /\ \A i \in 1 .. n : Chain[i] = l[i]
         /\ Listed = {l[i] : i \in 1 .. n}
         /\ next[FExtry] = NULL
         /\ Entry \notin Listed /\ NULL \notin Listed /\ Listed \subseteq Node
         /\ \A i \in 0 .. n : AtEnd(l[i]) <=> i = n
<1>1. n \in Nat
  BY DEF Strung
<1>2. Chain = [k \in 1 .. n |-> l[k]]
  BY ChainIs
<1>3. DOMAIN Chain = 1 .. n /\ Len(Chain) = n /\ \A i \in 1 .. n : Chain[i] = l[i]
  BY <1>1, <1>2
<1>4. Listed = {l[i] : i \in 1 .. n}
  BY <1>3 DEF Listed
<1>5. next[FExtry] = NULL
  BY <1>1 DEF Strung
<1>6. Entry \notin Node /\ NULL \notin Node
  BY LinkedListAssumption
<1>7. Listed \subseteq Node
  BY <1>4 DEF Strung
<1>8. ASSUME NEW i \in 0 .. n PROVE AtEnd(l[i]) <=> i = n
  <2>1. next[l[i]] = IF i < n THEN l[i + 1] ELSE NULL
    BY DEF Strung
  <2>2. i < n => l[i + 1] \in Node
    BY <1>1 DEF Strung
  <2> QED
    BY <1>1, <1>5, <1>6, <2>1, <2>2 DEF AtEnd, ItemAt, End
<1> QED
  BY <1>3, <1>4, <1>5, <1>6, <1>7, <1>8

(* The same one step later.                                                *)
WalkFinds ==
  \A m, k : Strung(m, k) => Chain = [i \in 1 .. k |-> m[i]] /\ Listed = {m[i] : i \in 1 .. k}

LEMMA FindsNow == WalkFinds
  BY ChainIs, StrungFacts DEF WalkFinds

LEMMA FindsNext == WalkFinds'
  BY FindsNow, PTL

LEMMA ChainNext ==
  ASSUME NEW l, NEW n, Strung(l, n)'
  PROVE  Chain' = [k \in 1 .. n |-> l[k]] /\ Listed' = {l[i] : i \in 1 .. n}
  BY FindsNext DEF WalkFinds

(* The links after an item is put in front, at the back, or taken out.     *)
Fronted(l, n, x) ==
  [k \in 0 .. n + 1 |-> IF k = 0 THEN Entry ELSE IF k = 1 THEN x ELSE l[k - 1]]

Backed(l, n, x) == [k \in 0 .. n + 1 |-> IF k <= n THEN l[k] ELSE x]

Cut(l, n, j) == [k \in 0 .. n - 1 |-> IF k <= j THEN l[k] ELSE l[k + 1]]

Typed == next \in [Link -> Node \cup {NULL, Junk}]

LEMMA LinkFrontStrings ==
  ASSUME Typed, NEW l, NEW n, Strung(l, n), NEW x \in Node, \A i \in 1 .. n : l[i] # x,
         LinkFront(x)
  PROVE  Strung(Fronted(l, n, x), n + 1)'
<1> DEFINE m == Fronted(l, n, x)
<1>1. n \in Nat /\ l[0] = Entry /\ Entry \notin Node /\ Entry \in Link /\ x \in Link /\ NULL \notin Node
  BY LinkedListAssumption DEF Strung, Link
<1>2. /\ \A i \in 1 .. n : l[i] \in Node /\ l[i] # x /\ l[i] \in Link
      /\ \A i, j \in 0 .. n : l[i] = l[j] => i = j
      /\ \A i \in 0 .. n : next[l[i]] = IF i < n THEN l[i + 1] ELSE NULL
      /\ FExtry = l[n]
  BY DEF Strung, Link
<1>3. m \in [0 .. n + 1 -> Link]
  <2>1. ASSUME NEW k \in 0 .. n + 1, k # 0, k # 1 PROVE l[k - 1] \in Link
    <3>1. k - 1 \in 1 .. n
      BY <1>1, <2>1
    <3> QED
      BY <1>2, <3>1
  <2> QED
    BY <1>1, <2>1 DEF Fronted
<1>4. m[0] = Entry /\ m[1] = x /\ \A i \in 2 .. n + 1 : m[i] = l[i - 1] /\ i - 1 \in 1 .. n
  BY <1>1 DEF Fronted
<1> HIDE DEF m
<1>5. \A i \in 1 .. n + 1 : m[i] \in Node
  <2> TAKE i \in 1 .. n + 1
  <2>1. i = 1 \/ i \in 2 .. n + 1
    BY <1>1
  <2> QED
    BY <1>2, <1>4, <2>1
<1>6. ASSUME NEW i \in 0 .. n + 1, NEW j \in 0 .. n + 1, m[i] = m[j] PROVE i = j
  <2>1. i \in {0, 1} \/ i \in 2 .. n + 1
    BY <1>1
  <2>2. j \in {0, 1} \/ j \in 2 .. n + 1
    BY <1>1
  <2>3. CASE i \in 2 .. n + 1 /\ j \in 2 .. n + 1
    <3>1. l[i - 1] = l[j - 1] /\ i - 1 \in 1 .. n /\ j - 1 \in 1 .. n
      BY <1>4, <1>6, <2>3
    <3>2. i - 1 \in 0 .. n /\ j - 1 \in 0 .. n
      BY <3>1
    <3>3. i - 1 = j - 1
      BY <1>2, <3>1, <3>2
    <3> QED
      BY <2>3, <3>3
  <2> QED
    BY <1>1, <1>2, <1>4, <1>5, <1>6, <2>1, <2>2, <2>3
<1>7. next' = [next EXCEPT ![x] = next[Entry], ![Entry] = x]
  BY DEF LinkFront
<1>8. /\ next'[x] = next[Entry] /\ next'[Entry] = x
      /\ \A i \in 1 .. n : next'[l[i]] = next[l[i]]
  BY <1>1, <1>2, <1>7 DEF Typed
<1>9. next[Entry] = IF n > 0 THEN l[1] ELSE NULL
  <2>1. 0 \in 0 .. n
    BY <1>1
  <2>2. next[l[0]] = IF 0 < n THEN l[0 + 1] ELSE NULL
    BY <1>2, <2>1
  <2> QED
    BY <1>1, <2>2
<1>10. ASSUME NEW i \in 0 .. n + 1 PROVE next'[m[i]] = IF i < n + 1 THEN m[i + 1] ELSE NULL
  <2>1. CASE i = 0
    BY <1>1, <1>4, <1>8, <2>1
  <2>2. CASE i = 1 /\ n = 0
    BY <1>1, <1>4, <1>8, <1>9, <2>2
  <2>3. CASE i = 1 /\ n > 0
    <3>1. 2 \in 2 .. n + 1
      BY <1>1, <2>3
    <3>2. m[2] = l[1]
      BY <1>4, <3>1
    <3> QED
      BY <1>1, <1>4, <1>8, <1>9, <2>3, <3>2
  <2>4. CASE i \in 2 .. n + 1
    <3>1. m[i] = l[i - 1] /\ i - 1 \in 1 .. n /\ i - 1 \in 0 .. n
      BY <1>4, <2>4
    <3>2. next'[l[i - 1]] = IF i - 1 < n THEN l[(i - 1) + 1] ELSE NULL
      BY <1>2, <1>8, <3>1
    <3>3. i < n + 1 => i + 1 \in 2 .. n + 1
      BY <1>1, <2>4
    <3>4. i < n + 1 => m[i + 1] = l[(i + 1) - 1]
      BY <1>4, <3>3
    <3> QED
      BY <1>1, <2>4, <3>1, <3>2, <3>4
  <2> QED
    BY <1>1, <2>1, <2>2, <2>3, <2>4
<1>11. FExtry' = m[n + 1]
  <2>1. FExtry' = IF next[Entry] = NULL THEN x ELSE FExtry
    BY DEF LinkFront
  <2>2. CASE n = 0
    BY <1>4, <1>9, <2>1, <2>2
  <2>3. CASE n > 0
    <3>1. n + 1 \in 2 .. n + 1 /\ 1 \in 1 .. n
      BY <1>1, <2>3
    <3>2. m[n + 1] = l[(n + 1) - 1] /\ l[1] \in Node
      BY <1>2, <1>4, <3>1
    <3> QED
      BY <1>1, <1>2, <1>9, <2>1, <2>3, <3>2
  <2> QED
    BY <1>1, <2>2, <2>3
<1> QED
  BY <1>1, <1>3, <1>4, <1>5, <1>6, <1>10, <1>11 DEF Strung, m

LEMMA LinkBackStrings ==
  ASSUME Typed, NEW l, NEW n, Strung(l, n), NEW x \in Node, \A i \in 1 .. n : l[i] # x,
         LinkBack(x)
  PROVE  Strung(Backed(l, n, x), n + 1)'
<1> DEFINE m == Backed(l, n, x)
<1>1. n \in Nat /\ l[0] = Entry /\ Entry \notin Node /\ x \in Link
  BY LinkedListAssumption DEF Strung, Link
<1>2. /\ l \in [0 .. n -> Link]
      /\ \A i \in 0 .. n : l[i] \in Link /\ l[i] # x
      /\ \A i \in 1 .. n : l[i] \in Node
      /\ \A i, j \in 0 .. n : l[i] = l[j] => i = j
      /\ \A i \in 0 .. n : next[l[i]] = IF i < n THEN l[i + 1] ELSE NULL
      /\ FExtry = l[n]
  <2>1. ASSUME NEW i \in 0 .. n PROVE l[i] # x
    <3>1. i = 0 \/ i \in 1 .. n
      BY <1>1
    <3> QED
      BY <1>1, <3>1
  <2> QED
    BY <2>1 DEF Strung
<1>3. m \in [0 .. n + 1 -> Link]
  <2>1. \A k \in 0 .. n + 1 : k <= n => k \in 0 .. n
    BY <1>1
  <2> QED
    BY <1>1, <1>2, <2>1 DEF Backed
<1>4. m[n + 1] = x /\ \A i \in 0 .. n : m[i] = l[i]
  BY <1>1 DEF Backed
<1> HIDE DEF m
<1>5. \A i \in 0 .. n + 1 : i = n + 1 \/ i \in 0 .. n
  BY <1>1
<1>6. \A i \in 1 .. n + 1 : m[i] \in Node
  <2> TAKE i \in 1 .. n + 1
  <2>1. i = n + 1 \/ i \in 1 .. n
    BY <1>1
  <2>2. i \in 1 .. n => i \in 0 .. n
    BY <1>1
  <2> QED
    BY <1>2, <1>4, <2>1, <2>2
<1>7. \A i, j \in 0 .. n + 1 : m[i] = m[j] => i = j
  BY <1>2, <1>4, <1>5
<1>8. next' = [next EXCEPT ![x] = NULL, ![FExtry] = x]
  BY DEF LinkBack
<1>9. n \in 0 .. n
  BY <1>1
<1>10. /\ next'[x] = NULL /\ next'[l[n]] = x
       /\ \A i \in 0 .. n : i # n => next'[l[i]] = next[l[i]]
  BY <1>1, <1>2, <1>8, <1>9 DEF Typed
<1>11. ASSUME NEW i \in 0 .. n + 1 PROVE next'[m[i]] = IF i < n + 1 THEN m[i + 1] ELSE NULL
  <2>1. CASE i = n + 1
    BY <1>1, <1>4, <1>10, <2>1
  <2>2. CASE i = n
    BY <1>1, <1>4, <1>9, <1>10, <2>2
  <2>3. CASE i \in 0 .. n - 1
    <3>1. i \in 0 .. n /\ i + 1 \in 0 .. n /\ i < n /\ i # n /\ i < n + 1
      BY <1>1, <2>3
    <3> QED
      BY <1>2, <1>4, <1>10, <3>1
  <2> QED
    BY <1>1, <2>1, <2>2, <2>3
<1>12. FExtry' = m[n + 1]
  BY <1>4 DEF LinkBack
<1>13. m[0] = Entry
  <2>1. 0 \in 0 .. n
    BY <1>1
  <2> QED
    BY <1>1, <1>4, <2>1
<1> QED
  BY <1>1, <1>3, <1>6, <1>7, <1>11, <1>12, <1>13 DEF Strung, m

(* An item is taken out when the link before it leads past it.             *)
LEMMA CutStrings ==
  ASSUME Typed, NEW l, NEW n, Strung(l, n), NEW j \in 0 .. n - 1,
         next'[l[j]] = next[l[j + 1]],
         \A k \in 0 .. n : k \notin {j, j + 1} => next'[l[k]] = next[l[k]],
         FExtry' = IF j + 1 = n THEN l[j] ELSE FExtry
  PROVE  Strung(Cut(l, n, j), n - 1)'
<1> DEFINE m == Cut(l, n, j)
<1>1. n \in Nat /\ l[0] = Entry /\ j \in 0 .. n /\ j + 1 \in 0 .. n /\ n - 1 \in Nat
  BY DEF Strung
<1>2. /\ l \in [0 .. n -> Link]
      /\ \A i \in 1 .. n : l[i] \in Node
      /\ \A i, k \in 0 .. n : l[i] = l[k] => i = k
      /\ \A i \in 0 .. n : next[l[i]] = IF i < n THEN l[i + 1] ELSE NULL
      /\ FExtry = l[n]
  BY DEF Strung
<1>3. \A k \in 0 .. n - 1 : k \in 0 .. n /\ k + 1 \in 0 .. n /\ k + 1 \in 1 .. n
  BY <1>1
<1>4. \A k \in 0 .. n - 1 : m[k] = IF k <= j THEN l[k] ELSE l[k + 1]
  BY DEF Cut
<1>5. m \in [0 .. n - 1 -> Link]
  BY <1>2, <1>3 DEF Cut
<1> HIDE DEF m
<1>6. \A i \in 1 .. n - 1 : m[i] \in Node
  <2> TAKE i \in 1 .. n - 1
  <2>1. i \in 0 .. n - 1 /\ i \in 1 .. n /\ i + 1 \in 1 .. n
    BY <1>1
  <2> QED
    BY <1>2, <1>4, <2>1
<1>7. ASSUME NEW i \in 0 .. n - 1, NEW k \in 0 .. n - 1, m[i] = m[k] PROVE i = k
  <2>1. i \in 0 .. n /\ i + 1 \in 0 .. n /\ k \in 0 .. n /\ k + 1 \in 0 .. n
    BY <1>3
  <2>2. CASE i <= j /\ k <= j
    BY <1>2, <1>4, <1>7, <2>1, <2>2
  <2>3. CASE i <= j /\ ~ (k <= j)
    <3>1. l[i] = l[k + 1]
      BY <1>4, <1>7, <2>3
    <3>2. i = k + 1
      BY <1>2, <2>1, <3>1
    <3> QED
      BY <2>3, <3>2
  <2>4. CASE ~ (i <= j) /\ k <= j
    <3>1. l[i + 1] = l[k]
      BY <1>4, <1>7, <2>4
    <3>2. i + 1 = k
      BY <1>2, <2>1, <3>1
    <3> QED
      BY <2>4, <3>2
  <2>5. CASE ~ (i <= j) /\ ~ (k <= j)
    <3>1. l[i + 1] = l[k + 1]
      BY <1>4, <1>7, <2>5
    <3>2. i + 1 = k + 1
      BY <1>2, <2>1, <3>1
    <3> QED
      BY <3>2
  <2> QED
    BY <2>2, <2>3, <2>4, <2>5
<1>8. ASSUME NEW i \in 0 .. n - 1 PROVE next'[m[i]] = IF i < n - 1 THEN m[i + 1] ELSE NULL
  <2>1. CASE i < j
    <3>1. /\ i \in 0 .. n /\ i \notin {j, j + 1} /\ i < n /\ i < n - 1
          /\ i + 1 \in 0 .. n - 1 /\ i + 1 <= j /\ i <= j
      BY <1>1, <2>1
    <3>2. next'[l[i]] = l[i + 1]
      BY <1>2, <3>1
    <3> QED
      BY <1>4, <3>1, <3>2
  <2>2. CASE i = j
    <3>1. next'[l[j]] = IF j + 1 < n THEN l[(j + 1) + 1] ELSE NULL
      BY <1>1, <1>2
    <3>2. j + 1 < n => j + 1 \in 0 .. n - 1 /\ ~ (j + 1 <= j)
      BY <1>1
    <3>3. m[j] = l[j] /\ (j + 1 < n => m[j + 1] = l[(j + 1) + 1])
      BY <1>4, <3>2
    <3>4. i < n - 1 <=> j + 1 < n
      BY <1>1, <2>2
    <3> QED
      BY <2>2, <3>1, <3>3, <3>4
  <2>3. CASE i > j
    <3>1. /\ i + 1 \in 0 .. n /\ i + 1 \notin {j, j + 1} /\ ~ (i <= j)
          /\ (i + 1 < n <=> i < n - 1)
          /\ (i < n - 1 => i + 1 \in 0 .. n - 1 /\ ~ (i + 1 <= j))
      BY <1>1, <2>3
    <3>2. next'[l[i + 1]] = IF i + 1 < n THEN l[(i + 1) + 1] ELSE NULL
      BY <1>2, <3>1
    <3>3. m[i] = l[i + 1] /\ (i < n - 1 => m[i + 1] = l[(i + 1) + 1])
      BY <1>4, <3>1
    <3> QED
      BY <3>1, <3>2, <3>3
  <2> QED
    BY <2>1, <2>2, <2>3
<1>9. FExtry' = m[n - 1]
  <2>1. n - 1 \in 0 .. n - 1
    BY <1>1
  <2>2. CASE j + 1 = n
    <3>1. n - 1 = j
      BY <1>1, <2>2
    <3> QED
      BY <1>4, <2>1, <2>2, <3>1
  <2>3. CASE j + 1 # n
    <3>1. ~ (n - 1 <= j) /\ (n - 1) + 1 = n
      BY <1>1, <2>3
    <3> QED
      BY <1>2, <1>4, <2>1, <2>3, <3>1
  <2> QED
    BY <2>2, <2>3
<1>10. m[0] = Entry
  <2>1. 0 \in 0 .. n - 1 /\ 0 <= j
    BY <1>1
  <2> QED
    BY <1>1, <1>4, <2>1
<1> QED
  BY <1>1, <1>5, <1>6, <1>7, <1>8, <1>9, <1>10 DEF Strung, m

-----------------------------------------------------------------------------
(* The same for the list as a sequence of items.                           *)
WellStrung == \E l, n : Strung(l, n)

LEMMA ChainInSeq ==
  ASSUME WellStrung
  PROVE  Chain \in Seq(Node) /\ Listed \subseteq Node
<1>1. PICK l, n : Strung(l, n)
  BY DEF WellStrung
<1>2. n \in Nat /\ \A i \in 1 .. n : l[i] \in Node
  BY <1>1 DEF Strung
<1>3. Chain = [k \in 1 .. n |-> l[k]]
  BY <1>1, ChainIs
<1>4. Listed \subseteq Node
  BY <1>1, StrungFacts
<1> QED
  BY <1>2, <1>3, <1>4

LEMMA LinkEffect ==
  ASSUME Typed, WellStrung, NEW x \in Node, x \notin Listed, LinkFront(x) \/ LinkBack(x)
  PROVE  /\ WellStrung'
         /\ Listed' = Listed \cup {x}
         /\ LinkFront(x) => Chain' = <<x>> \o Chain
         /\ ~ LinkFront(x) => Chain' = Append(Chain, x)
         /\ Typed' /\ FExtry' \in Link
<1>1. PICK l, n : Strung(l, n)
  BY DEF WellStrung
<1>2. n \in Nat /\ l \in [0 .. n -> Link] /\ \A i \in 1 .. n : l[i] \in Node
  BY <1>1 DEF Strung
<1>3. /\ Chain \in Seq(Node) /\ DOMAIN Chain = 1 .. n /\ Len(Chain) = n
      /\ \A i \in 1 .. n : Chain[i] = l[i]
      /\ Listed = {l[i] : i \in 1 .. n}
  BY <1>1, StrungFacts, ChainInSeq
<1>4. \A i \in 1 .. n : l[i] # x
  BY <1>3
<1>5. Typed' /\ FExtry' \in Link
  <2>1. next[Entry] \in Node \cup {NULL, Junk} /\ FExtry \in Link
    BY <1>1, <1>2 DEF Typed, Link, Strung
  <2>2. CASE LinkFront(x)
    BY <2>1, <2>2 DEF LinkFront, Typed, Link
  <2>3. CASE LinkBack(x)
    BY <2>1, <2>3 DEF LinkBack, Typed, Link
  <2> QED
    BY <2>2, <2>3
<1>6. CASE LinkFront(x)
  <2> DEFINE m == Fronted(l, n, x)
  <2>1. Strung(m, n + 1)'
    BY <1>1, <1>4, <1>6, LinkFrontStrings
  <2>2. /\ \A i \in 1 .. n + 1 : m[i] = IF i = 1 THEN x ELSE l[i - 1]
    BY <1>2 DEF Fronted
  <2> HIDE DEF m
  <2>3. Chain' = [k \in 1 .. n + 1 |-> m[k]] /\ Listed' = {m[i] : i \in 1 .. n + 1}
    BY <2>1, ChainNext
  <2>4. Listed' = Listed \cup {x}
    <3>1. 1 \in 1 .. n + 1 /\ \A i \in 1 .. n : i + 1 \in 1 .. n + 1 /\ i + 1 # 1 /\ (i + 1) - 1 = i
      BY <1>2
    <3>2. \A i \in 1 .. n + 1 : i # 1 => i - 1 \in 1 .. n
      BY <1>2
    <3> QED
      BY <1>3, <2>2, <2>3, <3>1, <3>2
  <2>5. Chain' = <<x>> \o Chain
    <3>1. /\ DOMAIN (<<x>> \o Chain) = 1 .. n + 1 /\ <<x>> \o Chain \in Seq(Node)
          /\ (<<x>> \o Chain)[1] = x
          /\ \A i \in 1 .. n + 1 : i # 1 => (<<x>> \o Chain)[i] = Chain[i - 1]
      BY <1>3
    <3>2. \A i \in 1 .. n + 1 : i # 1 => i - 1 \in 1 .. n
      BY <1>2
    <3> DEFINE c == <<x>> \o Chain
    <3>3. c = [k \in 1 .. n + 1 |-> c[k]]
      <4>1. c \in Seq(Node) /\ DOMAIN c = 1 .. n + 1
        BY <3>1
      <4> HIDE DEF c
      <4> QED
        BY <4>1
    <3>4. \A k \in 1 .. n + 1 : c[k] = m[k]
      BY <1>3, <2>2, <3>1, <3>2
    <3> HIDE DEF c
    <3>5. Chain' = c
      BY <2>3, <3>3, <3>4
    <3> QED
      BY <3>5 DEF c
  <2> QED
    BY <1>5, <1>6, <2>1, <2>4, <2>5 DEF WellStrung
<1>7. CASE ~ LinkFront(x)
  <2> DEFINE m == Backed(l, n, x)
  <2>1. Strung(m, n + 1)'
    BY <1>1, <1>4, <1>7, LinkBackStrings
  <2>2. /\ m[n + 1] = x /\ \A i \in 1 .. n : m[i] = l[i]
    BY <1>2 DEF Backed
  <2> HIDE DEF m
  <2>3. Chain' = [k \in 1 .. n + 1 |-> m[k]] /\ Listed' = {m[i] : i \in 1 .. n + 1}
    BY <2>1, ChainNext
  <2>4. Listed' = Listed \cup {x}
    <3>1. n + 1 \in 1 .. n + 1 /\ \A i \in 1 .. n + 1 : i \in 1 .. n \/ i = n + 1
      BY <1>2
    <3>2. \A i \in 1 .. n : i \in 1 .. n + 1
      BY <1>2
    <3> QED
      BY <1>3, <2>2, <2>3, <3>1, <3>2
  <2>5. Chain' = Append(Chain, x)
    <3> DEFINE c == Append(Chain, x)
    <3>1. /\ c \in Seq(Node) /\ Len(c) = n + 1 /\ c[n + 1] = x
          /\ \A i \in 1 .. n : c[i] = Chain[i]
      BY <1>2, <1>3
    <3>2. \A i \in 1 .. n + 1 : i \in 1 .. n \/ i = n + 1
      BY <1>2
    <3> HIDE DEF c
    <3>3. \A k \in 1 .. n + 1 : c[k] = m[k]
      BY <1>3, <2>2, <3>1, <3>2
    <3>4. c = [k \in 1 .. n + 1 |-> c[k]]
      BY <1>2, <3>1
    <3>5. Chain' = c
      BY <2>3, <3>3, <3>4
    <3> QED
      BY <3>5 DEF c
  <2> QED
    BY <1>5, <1>7, <2>1, <2>4, <2>5 DEF WellStrung
<1> QED
  BY <1>6, <1>7

(* Taking out the item after the link l[j]: other links may be junk only   *)
(* where they are in no item of the list.                                  *)
LEMMA CutEffect ==
  ASSUME Typed, NEW l, NEW n, Strung(l, n), NEW j \in 0 .. n - 1,
         next'[l[j]] = next[l[j + 1]],
         \A k \in Link : k \notin {l[j], l[j + 1]} => next'[k] = next[k],
         FExtry' = IF j + 1 = n THEN l[j] ELSE FExtry
  PROVE  /\ WellStrung'
         /\ Listed' = Listed \ {l[j + 1]}
         /\ Chain' = [k \in 1 .. n - 1 |-> Chain[IF k < j + 1 THEN k ELSE k + 1]]
         /\ FExtry' \in Link
<1> DEFINE m == Cut(l, n, j)
<1>1. /\ n \in Nat /\ l \in [0 .. n -> Link] /\ j \in 0 .. n /\ j + 1 \in 0 .. n
      /\ \A i, k \in 0 .. n : l[i] = l[k] => i = k
      /\ FExtry = l[n]
  BY DEF Strung
<1>2. /\ DOMAIN Chain = 1 .. n /\ \A i \in 1 .. n : Chain[i] = l[i]
      /\ Listed = {l[i] : i \in 1 .. n}
  BY StrungFacts
<1>3. \A k \in 0 .. n : k \notin {j, j + 1} => next'[l[k]] = next[l[k]]
  BY <1>1
<1>4. Strung(m, n - 1)'
  BY <1>3, CutStrings
<1>5. \A k \in 1 .. n - 1 : m[k] = IF k < j + 1 THEN l[k] ELSE l[k + 1]
  <2> TAKE k \in 1 .. n - 1
  <2>1. k \in 0 .. n - 1 /\ (k <= j <=> k < j + 1)
    BY <1>1
  <2> QED
    BY <2>1 DEF Cut
<1> HIDE DEF m
<1>6. Chain' = [k \in 1 .. n - 1 |-> m[k]] /\ Listed' = {m[i] : i \in 1 .. n - 1}
  BY <1>4, ChainNext
<1>7. \A k \in 1 .. n - 1 : k \in 1 .. n /\ k + 1 \in 1 .. n
  BY <1>1
<1>8. \A k \in 1 .. n - 1 : m[k] = Chain[IF k < j + 1 THEN k ELSE k + 1]
  BY <1>2, <1>5, <1>7
<1>9. Listed' = Listed \ {l[j + 1]}
  <2>1. ASSUME NEW k \in 1 .. n - 1 PROVE m[k] \in Listed /\ m[k] # l[j + 1]
    <3>1. CASE k < j + 1
      <4>1. k \in 1 .. n /\ k \in 0 .. n /\ k # j + 1
        BY <1>1, <3>1
      <4> QED
        BY <1>1, <1>2, <1>5, <3>1, <4>1
    <3>2. CASE ~ (k < j + 1)
      <4>1. k + 1 \in 1 .. n /\ k + 1 \in 0 .. n /\ k + 1 # j + 1
        BY <1>1, <3>2
      <4> QED
        BY <1>1, <1>2, <1>5, <3>2, <4>1
    <3> QED
      BY <3>1, <3>2
  <2>2. ASSUME NEW i \in 1 .. n, l[i] # l[j + 1] PROVE \E k \in 1 .. n - 1 : m[k] = l[i]
    <3>1. i # j + 1
      BY <2>2
    <3>2. CASE i < j + 1
      <4>1. i \in 1 .. n - 1
        BY <1>1, <3>2
      <4> QED
        BY <1>5, <3>2, <4>1
    <3>3. CASE i > j + 1
      <4>1. i - 1 \in 1 .. n - 1 /\ ~ (i - 1 < j + 1) /\ (i - 1) + 1 = i
        BY <1>1, <3>3
      <4> QED
        BY <1>5, <4>1
    <3> QED
      BY <1>1, <3>1, <3>2, <3>3
  <2> QED
    BY <1>2, <1>6, <2>1, <2>2
<1>10. Chain' = [k \in 1 .. n - 1 |-> Chain[IF k < j + 1 THEN k ELSE k + 1]]
  BY <1>6, <1>8
<1>11. FExtry' \in Link
  BY <1>1
<1> QED
  BY <1>4, <1>9, <1>10, <1>11 DEF WellStrung

(* What an iterator in the list stands before.                             *)
LEMMA IteratorAt ==
  ASSUME NEW l, NEW n, Strung(l, n), NEW link \in Listed \cup {Entry}, ~ AtEnd(link)
  PROVE  \E j \in 0 .. n - 1 : link = l[j] /\ ItemAt(link) = l[j + 1]
<1>1. n \in Nat /\ l[0] = Entry /\ \A i \in 0 .. n : next[l[i]] = IF i < n THEN l[i + 1] ELSE NULL
  BY DEF Strung
<1>2. Listed = {l[i] : i \in 1 .. n} /\ \A i \in 0 .. n : AtEnd(l[i]) <=> i = n
  BY StrungFacts
<1>3. PICK j \in 0 .. n : link = l[j]
  <2>1. 0 \in 0 .. n /\ \A i \in 1 .. n : i \in 0 .. n
    BY <1>1
  <2> QED
    BY <1>1, <1>2, <2>1
<1>4. j # n
  BY <1>2, <1>3
<1>5. j \in 0 .. n - 1 /\ j < n
  BY <1>1, <1>4
<1> QED
  BY <1>1, <1>3, <1>5 DEF ItemAt

(* UnlinkAt, and UnlinkFirst for j = 0.                                    *)
LEMMA UnlinkEffect ==
  ASSUME Typed, NEW l, NEW n, Strung(l, n), NEW j \in 0 .. n - 1,
         UnlinkAt(l[j]) \/ (j = 0 /\ UnlinkFirst)
  PROVE  /\ next'[l[j]] = next[l[j + 1]]
         /\ \A k \in Link : k \notin {l[j], l[j + 1]} => next'[k] = next[k]
         /\ FExtry' = IF j + 1 = n THEN l[j] ELSE FExtry
         /\ Typed'
<1>1. /\ n \in Nat /\ l \in [0 .. n -> Link] /\ j \in 0 .. n /\ j + 1 \in 0 .. n /\ j < n
      /\ j + 1 \in 1 .. n
      /\ l[0] = Entry /\ FExtry = l[n] /\ Entry \in Link
      /\ \A i \in 1 .. n : l[i] \in Node
      /\ \A i, k \in 0 .. n : l[i] = l[k] => i = k
      /\ \A i \in 0 .. n : next[l[i]] = IF i < n THEN l[i + 1] ELSE NULL
  BY DEF Strung, Link
<1>2. next[l[j]] = l[j + 1] /\ l[j] \in Link /\ l[j + 1] \in Link
  BY <1>1
<1>3. next' = [next EXCEPT ![l[j]] = next[l[j + 1]]]
  BY <1>1, <1>2 DEF UnlinkAt, UnlinkFirst
<1>4. next'[l[j]] = next[l[j + 1]] /\ \A k \in Link : k # l[j] => next'[k] = next[k]
  BY <1>2, <1>3 DEF Typed
<1>5. Typed'
  BY <1>2, <1>3 DEF Typed
<1>6. next[l[j + 1]] = NULL <=> j + 1 = n
  <2>1. NULL \notin Node
    BY LinkedListAssumption
  <2>2. j + 1 < n => (j + 1) + 1 \in 1 .. n
    BY <1>1
  <2> QED
    BY <1>1, <2>1, <2>2
<1>7. FExtry = l[j + 1] <=> j + 1 = n
  BY <1>1
<1>8. next'[Entry] = NULL <=> j = 0 /\ n = 1
  <2>1. CASE j = 0
    BY <1>1, <1>4, <1>6, <2>1
  <2>2. CASE j # 0
    <3>1. 0 \in 0 .. n /\ 1 \in 1 .. n /\ 0 < n
      BY <1>1, <2>2
    <3>2. Entry # l[j] /\ next[Entry] = l[1] /\ l[1] # NULL
      <4>1. next[l[0]] = l[0 + 1] /\ l[1] \in Node
        BY <1>1, <3>1
      <4>2. l[0] # l[j]
        BY <1>1, <2>2, <3>1
      <4> QED
        BY <1>1, <4>1, <4>2, LinkedListAssumption
    <3> QED
      BY <1>1, <1>4, <2>2, <3>2
  <2> QED
    BY <2>1, <2>2
<1>9. FExtry' = IF j + 1 = n THEN l[j] ELSE FExtry
  <2>1. CASE UnlinkAt(l[j])
    <3>1. FExtry' = IF next'[Entry] = NULL THEN Entry ELSE IF FExtry = l[j + 1] THEN l[j] ELSE FExtry
      BY <1>2, <2>1 DEF UnlinkAt
    <3> QED
      BY <1>1, <1>7, <1>8, <3>1
  <2>2. CASE j = 0 /\ UnlinkFirst
    <3>1. FExtry' = IF next[next[Entry]] = NULL THEN Entry ELSE FExtry
      BY <2>2 DEF UnlinkFirst
    <3> QED
      BY <1>1, <1>2, <1>6, <2>2, <3>1
  <2> QED
    BY <2>1, <2>2
<1> QED
  BY <1>4, <1>5, <1>9

-----------------------------------------------------------------------------
(* The values in the list.                                                 *)
LEMMA ValuesAre ==
  ASSUME WellStrung, \A x \in Listed : element[x] \in Value
  PROVE  /\ Values \in Seq(Value) /\ Len(Values) = Len(Chain) /\ Len(Chain) \in Nat
         /\ DOMAIN Chain = 1 .. Len(Chain)
         /\ \A i \in 1 .. Len(Chain) :
              Chain[i] \in Listed /\ Values[i] = element[Chain[i]] /\ Values[i] \in Value
<1> DEFINE n == Len(Chain)
<1>1. n \in Nat /\ DOMAIN Chain = 1 .. n
  BY ChainInSeq
<1>2. \A i \in 1 .. n : Chain[i] \in Listed
  BY <1>1 DEF Listed
<1> HIDE DEF n
<1>3. Values = [i \in 1 .. n |-> element[Chain[i]]]
  BY <1>1 DEF Values
<1> QED
  BY <1>1, <1>2, <1>3 DEF n

(* A sequence with one more in front.                                      *)
LEMMA InFront ==
  ASSUME NEW S, NEW x \in S, NEW seq \in Seq(S)
  PROVE  /\ <<x>> \o seq \in Seq(S) /\ DOMAIN (<<x>> \o seq) = 1 .. Len(seq) + 1
         /\ (<<x>> \o seq)[1] = x
         /\ \A i \in 1 .. Len(seq) + 1 : i # 1 => (<<x>> \o seq)[i] = seq[i - 1]
  OBVIOUS

LEMMA ValuesFront ==
  ASSUME WellStrung, \A y \in Listed : element[y] \in Value,
         NEW x \in Node, Chain' = <<x>> \o Chain, element'[x] \in Value,
         \A y \in Listed : element'[y] = element[y]
  PROVE  Values' = <<element'[x]>> \o Values
<1> DEFINE n == Len(Chain)
           v == element'[x]
           e == element'
           old == Values
           c == <<x>> \o Chain
           w == <<v>> \o old
<1>1. /\ old \in Seq(Value) /\ Len(old) = n /\ n \in Nat
      /\ \A i \in 1 .. n : Chain[i] \in Listed /\ old[i] = element[Chain[i]]
  BY ValuesAre
<1>2. Chain \in Seq(Node)
  BY ChainInSeq
<1>3. /\ c \in Seq(Node) /\ DOMAIN c = 1 .. n + 1 /\ c[1] = x
      /\ \A i \in 1 .. n + 1 : i # 1 => c[i] = Chain[i - 1]
  BY <1>2
<1>4. Values' = [i \in DOMAIN c |-> e[c[i]]]
  BY DEF Values
<1>5. \A y \in Listed : e[y] = element[y]
  OBVIOUS
<1> HIDE DEF c, n, e, old
<1>6. v \in Value /\ v = e[x]
  BY DEF e
<1> HIDE DEF v
<1>7. /\ w \in Seq(Value) /\ DOMAIN w = 1 .. n + 1 /\ w[1] = v
      /\ \A i \in 1 .. n + 1 : i # 1 => w[i] = old[i - 1]
  BY <1>1, <1>6, InFront
<1> HIDE DEF w
<1>8. w = [i \in 1 .. n + 1 |-> w[i]]
  BY <1>7
<1>9. ASSUME NEW i \in 1 .. n + 1 PROVE w[i] = e[c[i]]
  <2>1. CASE i = 1
    BY <1>3, <1>6, <1>7, <2>1
  <2>2. CASE i # 1
    <3>1. i - 1 \in 1 .. n
      BY <1>1, <2>2
    <3>2. c[i] = Chain[i - 1] /\ w[i] = old[i - 1]
      BY <1>3, <1>7, <2>2
    <3>3. e[Chain[i - 1]] = old[i - 1]
      BY <1>1, <1>5, <3>1
    <3> QED
      BY <3>2, <3>3
  <2> QED
    BY <2>1, <2>2
<1>10. Values' = w
  BY <1>3, <1>4, <1>8, <1>9
<1> QED
  BY <1>10 DEF w, v, old

LEMMA ValuesBack ==
  ASSUME WellStrung, \A y \in Listed : element[y] \in Value,
         NEW x \in Node, Chain' = Append(Chain, x), element'[x] \in Value,
         \A y \in Listed : element'[y] = element[y]
  PROVE  Values' = Append(Values, element'[x])
<1> DEFINE n == Len(Chain)
           v == element'[x]
           e == element'
           old == Values
           c == Append(Chain, x)
           w == Append(old, v)
<1>1. /\ old \in Seq(Value) /\ Len(old) = n /\ n \in Nat
      /\ \A i \in 1 .. n : Chain[i] \in Listed /\ old[i] = element[Chain[i]]
  BY ValuesAre
<1>2. Chain \in Seq(Node)
  BY ChainInSeq
<1>3. /\ c \in Seq(Node) /\ DOMAIN c = 1 .. n + 1 /\ c[n + 1] = x
      /\ \A i \in 1 .. n : c[i] = Chain[i]
  BY <1>1, <1>2
<1>4. Values' = [i \in DOMAIN c |-> e[c[i]]]
  BY DEF Values
<1>5. \A y \in Listed : e[y] = element[y]
  OBVIOUS
<1> HIDE DEF c, n, e, old
<1>6. v \in Value /\ v = e[x]
  BY DEF e
<1> HIDE DEF v
<1>7. /\ w \in Seq(Value) /\ DOMAIN w = 1 .. n + 1 /\ w[n + 1] = v
      /\ \A i \in 1 .. n : w[i] = old[i]
  BY <1>1, <1>6
<1> HIDE DEF w
<1>8. w = [i \in 1 .. n + 1 |-> w[i]]
  BY <1>7
<1>9. ASSUME NEW i \in 1 .. n + 1 PROVE w[i] = e[c[i]]
  <2>1. CASE i = n + 1
    BY <1>3, <1>6, <1>7, <2>1
  <2>2. CASE i # n + 1
    <3>1. i \in 1 .. n
      BY <1>1, <2>2
    <3> QED
      BY <1>1, <1>3, <1>5, <1>7, <3>1
  <2> QED
    BY <2>1, <2>2
<1>10. Values' = w
  BY <1>3, <1>4, <1>8, <1>9
<1> QED
  BY <1>10 DEF w, v, old

LEMMA ValuesCut ==
  ASSUME WellStrung, \A y \in Listed : element[y] \in Value,
         NEW j \in 1 .. Len(Chain),
         Chain' = [k \in 1 .. Len(Chain) - 1 |-> Chain[IF k < j THEN k ELSE k + 1]],
         \A k \in 1 .. Len(Chain) : k # j => element'[Chain[k]] = element[Chain[k]]
  PROVE  j \in 1 .. Len(Values) /\ List!RemoveOne(j)
<1> DEFINE n == Len(Chain)
           e == element'
           c == Chain'
<1>1. /\ Len(Values) = n /\ n \in Nat
      /\ \A i \in 1 .. n : Values[i] = element[Chain[i]]
  BY ValuesAre
<1>2. c = [k \in 1 .. n - 1 |-> Chain[IF k < j THEN k ELSE k + 1]]
  OBVIOUS
<1>3. DOMAIN c = 1 .. n - 1
  BY <1>2
<1>4. Values' = [i \in DOMAIN c |-> e[c[i]]]
  BY DEF Values
<1>5. \A k \in 1 .. n : k # j => e[Chain[k]] = element[Chain[k]]
  OBVIOUS
<1>6. j \in 1 .. n
  OBVIOUS
<1> HIDE DEF c, n, e
<1>7. ASSUME NEW k \in 1 .. n - 1
      PROVE  e[c[k]] = Values[IF k < j THEN k ELSE k + 1]
  <2> DEFINE i == IF k < j THEN k ELSE k + 1
  <2>1. i \in 1 .. n /\ i # j
    BY <1>1, <1>6
  <2>2. c[k] = Chain[i]
    BY <1>2
  <2> HIDE DEF i
  <2>3. e[c[k]] = Values[i]
    BY <1>1, <1>5, <2>1, <2>2
  <2> QED
    BY <2>3 DEF i
<1>8. Values' = [k \in 1 .. n - 1 |-> Values[IF k < j THEN k ELSE k + 1]]
  BY <1>3, <1>4, <1>7
<1> QED
  BY <1>1, <1>6, <1>8 DEF List!RemoveOne

-----------------------------------------------------------------------------
(* Nothing a client can get hold of is without a value.                    *)
Valued == \A x \in allocated : element[x] \in Value

Inv == ListTypeOK /\ WellStrung /\ Accounted /\ IteratorInList /\ Valued

(* What is not allocated or in a client's hands is not in the list.        *)
LEMMA InvFacts ==
  ASSUME Inv
  PROVE  /\ Typed /\ WellStrung /\ Listed \subseteq allocated /\ allocated \subseteq Node
         /\ \A y \in Listed : element[y] \in Value /\ y \notin held
         /\ Entry \in Link /\ Node \subseteq Link /\ Entry \notin Node /\ NULL \notin Node
<1>1. ListTypeOK /\ WellStrung /\ Accounted /\ Valued
  BY DEF Inv
<1>2. Typed /\ allocated \subseteq Node
  BY <1>1 DEF ListTypeOK, Typed
<1>3. /\ Listed \subseteq allocated
      /\ \A y \in Listed : element[y] \in Value /\ y \notin held
  BY <1>1 DEF Accounted, Valued
<1> QED
  BY <1>1, <1>2, <1>3, LinkedListAssumption DEF Link

(* Puts an item into the list that was in a client's hands or is new.      *)
LEMMA PushStep ==
  ASSUME Inv, NEW x \in Node, x \notin Listed, LinkFront(x) \/ LinkBack(x),
         allocated' = allocated \cup {x}, held' = held \ {x},
         element' \in [Node -> Value \cup {Junk}], element'[x] \in Value,
         \A y \in allocated : y # x => element'[y] = element[y],
         it' = it
  PROVE  Inv' /\ List!Next
<1>1. /\ Typed /\ WellStrung /\ Listed \subseteq allocated /\ allocated \subseteq Node
      /\ \A y \in Listed : element[y] \in Value /\ y \notin held
  BY InvFacts
<1>2. /\ WellStrung' /\ Listed' = Listed \cup {x}
      /\ LinkFront(x) => Chain' = <<x>> \o Chain
      /\ ~ LinkFront(x) => Chain' = Append(Chain, x)
      /\ Typed' /\ FExtry' \in Link
  BY <1>1, LinkEffect
<1>3. FCount' \in -MaxCount .. MaxCount
  BY DEF LinkFront, LinkBack, Counted
<1>4. ListTypeOK'
  <2>1. allocated' \subseteq Node /\ held' \subseteq allocated' /\ it' \in Link \cup {NULL}
    BY <1>1 DEF Inv, ListTypeOK
  <2> QED
    BY <1>2, <1>3, <2>1 DEF ListTypeOK, Typed
<1>5. Accounted'
  <2>1. allocated = Listed \cup held /\ Listed \cap held = {}
    BY DEF Inv, Accounted
  <2> QED
    BY <1>2, <2>1 DEF Accounted
<1>6. IteratorInList'
  BY <1>2 DEF Inv, IteratorInList
<1>7. Valued'
  BY DEF Inv, Valued
<1>8. \A y \in Listed : element'[y] = element[y]
  BY <1>1
<1>9. Values' = <<element'[x]>> \o Values \/ Values' = Append(Values, element'[x])
  BY <1>1, <1>2, <1>8, ValuesFront, ValuesBack
<1> QED
  BY <1>2, <1>4, <1>5, <1>6, <1>7, <1>9 DEF Inv, List!Next, List!PushFront, List!PushBack

(* Takes the item after l[j] out, into a client's hands or out of the      *)
(* world.                                                                  *)
LEMMA CutStep ==
  ASSUME Inv, NEW l, NEW n, Strung(l, n), NEW j \in 0 .. n - 1,
         next'[l[j]] = next[l[j + 1]],
         \A k \in Link : k \notin {l[j], l[j + 1]} => next'[k] = next[k],
         FExtry' = IF j + 1 = n THEN l[j] ELSE FExtry,
         Typed',
         \/ allocated' = allocated /\ held' = held \cup {l[j + 1]}
         \/ allocated' = allocated \ {l[j + 1]} /\ held' = held,
         element' \in [Node -> Value \cup {Junk}],
         \A y \in allocated' : element'[y] = element[y],
         FCount' \in -MaxCount .. MaxCount,
         it' = it, it # l[j + 1]
  PROVE  Inv' /\ List!Next
<1>1. /\ Typed /\ WellStrung /\ Listed \subseteq allocated /\ allocated \subseteq Node
      /\ \A y \in Listed : element[y] \in Value /\ y \notin held
  BY InvFacts
<1>2. /\ WellStrung' /\ Listed' = Listed \ {l[j + 1]}
      /\ Chain' = [k \in 1 .. n - 1 |-> Chain[IF k < j + 1 THEN k ELSE k + 1]]
      /\ FExtry' \in Link
  BY <1>1, CutEffect
<1>3. /\ n \in Nat /\ Len(Chain) = n /\ \A i \in 1 .. n : Chain[i] = l[i]
      /\ Listed = {l[i] : i \in 1 .. n}
      /\ \A i, k \in 0 .. n : l[i] = l[k] => i = k
  BY StrungFacts DEF Strung
<1>4. j + 1 \in 1 .. n /\ j + 1 \in 0 .. n
  BY <1>3
<1>5. l[j + 1] \in Listed
  BY <1>3, <1>4
<1>6. ListTypeOK'
  <2>1. allocated' \subseteq Node /\ held' \subseteq allocated' /\ it' \in Link \cup {NULL}
    BY <1>1, <1>5 DEF Inv, ListTypeOK
  <2> QED
    BY <1>2, <2>1 DEF ListTypeOK, Typed
<1>7. Accounted'
  <2>1. allocated = Listed \cup held /\ Listed \cap held = {}
    BY DEF Inv, Accounted
  <2> QED
    BY <1>2, <1>5, <2>1 DEF Accounted
<1>8. IteratorInList'
  BY <1>2 DEF Inv, IteratorInList
<1>9. Valued'
  BY DEF Inv, Valued
<1>10. \A k \in 1 .. n : k # j + 1 => element'[Chain[k]] = element[Chain[k]]
  <2> TAKE k \in 1 .. n
  <2> HAVE k # j + 1
  <2>1. l[k] # l[j + 1] /\ l[k] \in Listed
    <3>1. k \in 0 .. n
      BY <1>3
    <3> QED
      BY <1>3, <1>4, <3>1
  <2>2. l[k] \in allocated'
    BY <1>1, <2>1
  <2> QED
    BY <1>3, <2>2
<1>11. j + 1 \in 1 .. Len(Values) /\ List!RemoveOne(j + 1)
  BY <1>1, <1>2, <1>3, <1>4, <1>10, ValuesCut
<1> QED
  BY <1>2, <1>6, <1>7, <1>8, <1>9, <1>11 DEF Inv, List!Next

(* What happens to links and values of items that are not in the list does *)
(* not concern it.                                                         *)
LEMMA StillStrung ==
  ASSUME WellStrung, \A k \in Listed \cup {Entry} : next'[k] = next[k], FExtry' = FExtry
  PROVE  WellStrung' /\ Chain' = Chain /\ Listed' = Listed
<1>1. PICK l, n : Strung(l, n)
  BY DEF WellStrung
<1>2. n \in Nat /\ l[0] = Entry /\ Listed = {l[i] : i \in 1 .. n}
  BY <1>1, StrungFacts DEF Strung
<1>3. \A i \in 0 .. n : next'[l[i]] = next[l[i]]
  <2>1. \A i \in 0 .. n : i = 0 \/ i \in 1 .. n
    BY <1>2
  <2> QED
    BY <1>2, <2>1
<1>4. Strung(l, n)'
  BY <1>1, <1>3 DEF Strung
<1>5. Chain' = [k \in 1 .. n |-> l[k]] /\ Listed' = {l[i] : i \in 1 .. n}
  BY <1>4, ChainNext
<1>6. Chain = [k \in 1 .. n |-> l[k]]
  BY <1>1, ChainIs
<1> QED
  BY <1>2, <1>4, <1>5, <1>6 DEF WellStrung

LEMMA QuietStep ==
  ASSUME Inv, Typed', \A k \in Listed \cup {Entry} : next'[k] = next[k],
         UNCHANGED <<FExtry, FCount>>,
         element' \in [Node -> Value \cup {Junk}],
         \A y \in Listed : element'[y] = element[y],
         allocated' \subseteq Node, allocated' = Listed \cup held', Listed \cap held' = {},
         IteratorInList', Valued'
  PROVE  Inv' /\ UNCHANGED Values
<1>1. WellStrung /\ Listed \subseteq allocated /\ DOMAIN Chain = 1 .. Len(Chain)
      /\ \A y \in Listed : element[y] \in Value
  BY InvFacts, ChainInSeq
<1>2. WellStrung' /\ Chain' = Chain /\ Listed' = Listed
  BY <1>1, StillStrung
<1>3. \A i \in DOMAIN Chain : Chain[i] \in Listed
  BY DEF Listed
<1>4. Values' = Values
  BY <1>2, <1>3 DEF Values
<1>5. it' \in Link \cup {NULL}
  BY <1>1, <1>2, InvFacts DEF IteratorInList
<1>6. ListTypeOK'
  BY <1>5 DEF Inv, ListTypeOK, Typed
<1>7. Accounted'
  BY <1>2 DEF Accounted
<1> QED
  BY <1>2, <1>4, <1>6, <1>7 DEF Inv

LEMMA InvInit == ASSUME ListInit PROVE Inv /\ Values = <<>>
<1> DEFINE l == [k \in 0 .. 0 |-> Entry]
<1>1. l \in [0 .. 0 -> Link] /\ l[0] = Entry /\ \A i \in 0 .. 0 : i = 0 /\ l[i] = Entry
  BY DEF Link
<1> HIDE DEF l
<1>2. next[Entry] = NULL /\ FExtry = Entry
  BY DEF ListInit, Link
<1>3. Strung(l, 0)
  <2>1. 1 .. 0 = {} /\ 0 \in Nat
    OBVIOUS
  <2>2. \A i, j \in 0 .. 0 : l[i] = l[j] => i = j
    BY <1>1
  <2>3. \A i \in 0 .. 0 : next[l[i]] = NULL /\ ~ (i < 0)
    BY <1>1, <1>2
  <2> QED
    BY <1>1, <1>2, <2>1, <2>2, <2>3 DEF Strung
<1>4. Listed = {} /\ DOMAIN Chain = {}
  BY <1>3, StrungFacts
<1>5. ListTypeOK
  BY LinkedListAssumption DEF ListInit, ListTypeOK, Link
<1>6. Values = <<>>
  <2>1. Values = [i \in {} |-> element[Chain[i]]]
    BY <1>4 DEF Values
  <2> QED
    BY <2>1
<1>7. Accounted /\ IteratorInList /\ Valued
  BY <1>4 DEF ListInit, Accounted, IteratorInList, Valued
<1> QED
  BY <1>3, <1>5, <1>6, <1>7 DEF Inv, WellStrung

LEMMA ClearStep == ASSUME Inv, ClearList PROVE Inv' /\ List!Next
<1>1. /\ Typed /\ WellStrung /\ Listed \subseteq allocated /\ allocated \subseteq Node
      /\ Entry \in Link /\ Node \subseteq Link /\ Entry \notin Node /\ NULL \notin Node
      /\ \A y \in Listed : y \notin held
  BY InvFacts
<1>2. /\ it \notin Listed /\ it' = it /\ held' = held
      /\ next' = [k \in Link |-> IF k = Entry THEN NULL ELSE IF k \in Listed THEN Junk ELSE next[k]]
      /\ FExtry' = IF Listed = {} THEN FExtry ELSE Entry
      /\ element' = [n \in Node |-> IF n \in Listed THEN Junk ELSE element[n]]
      /\ allocated' = allocated \ Listed
      /\ FCount' \in -MaxCount .. MaxCount
  BY DEF ClearList, Counted
<1>3. FExtry' = Entry
  <2>1. PICK l, n : Strung(l, n)
    BY <1>1 DEF WellStrung
  <2>2. n \in Nat /\ Listed = {l[i] : i \in 1 .. n} /\ FExtry = l[n] /\ l[0] = Entry
    BY <2>1, StrungFacts DEF Strung
  <2>3. CASE n = 0
    BY <1>2, <2>2, <2>3
  <2>4. CASE n # 0
    <3>1. l[n] \in Listed
      BY <2>2, <2>4
    <3> QED
      BY <1>2, <3>1
  <2> QED
    BY <2>3, <2>4
<1> DEFINE l == [k \in 0 .. 0 |-> Entry]
<1>4. l \in [0 .. 0 -> Link] /\ l[0] = Entry /\ \A i \in 0 .. 0 : i = 0 /\ l[i] = Entry
  BY DEF Link
<1> HIDE DEF l
<1>5. Strung(l, 0)'
  <2>1. 1 .. 0 = {} /\ 0 \in Nat
    OBVIOUS
  <2>2. \A i, j \in 0 .. 0 : l[i] = l[j] => i = j
    BY <1>4
  <2>3. next'[Entry] = NULL
    BY <1>1, <1>2
  <2>4. \A i \in 0 .. 0 : next'[l[i]] = NULL /\ ~ (i < 0)
    BY <1>4, <2>3
  <2> QED
    BY <1>3, <1>4, <2>1, <2>2, <2>4 DEF Strung
<1>6. Chain' = [k \in 1 .. 0 |-> l[k]] /\ Listed' = {}
  <2>1. 1 .. 0 = {}
    OBVIOUS
  <2> QED
    BY <1>5, <2>1, ChainNext
<1>7. Values' = <<>>
  <2>1. DOMAIN Chain' = {}
    BY <1>6
  <2>2. Values' = [i \in {} |-> element'[Chain'[i]]]
    BY <2>1 DEF Values
  <2> QED
    BY <2>2
<1>8. ListTypeOK'
  <2>1. next' \in [Link -> Node \cup {NULL, Junk}]
    BY <1>2, <1>1 DEF Typed
  <2>2. element' \in [Node -> Value \cup {Junk}]
    BY <1>2 DEF Inv, ListTypeOK
  <2>3. allocated' \subseteq Node /\ held' \subseteq allocated' /\ it' \in Link \cup {NULL}
    BY <1>1, <1>2 DEF Inv, ListTypeOK
  <2> QED
    BY <1>1, <1>2, <1>3, <2>1, <2>2, <2>3 DEF ListTypeOK
<1>9. Accounted'
  <2>1. allocated = Listed \cup held /\ Listed \cap held = {}
    BY DEF Inv, Accounted
  <2> QED
    BY <1>2, <1>6, <2>1 DEF Accounted
<1>10. IteratorInList'
  BY <1>2, <1>6 DEF Inv, IteratorInList
<1>11. Valued'
  BY <1>1, <1>2 DEF Inv, Valued
<1> QED
  BY <1>5, <1>7, <1>8, <1>9, <1>10, <1>11 DEF Inv, WellStrung, List!Next, List!Clear

(* Every call keeps the invariant, and is one of the value list's or       *)
(* leaves the values as they are.                                          *)
LEMMA ListStep == ASSUME Inv, [ListNext]_listVars PROVE Inv' /\ [List!Next]_Values
<1>1. /\ Typed /\ WellStrung /\ Listed \subseteq allocated /\ allocated \subseteq Node
      /\ \A y \in Listed : element[y] \in Value /\ y \notin held
      /\ Entry \in Link /\ Node \subseteq Link /\ Entry \notin Node /\ NULL \notin Node
  BY InvFacts
<1>2. /\ ListTypeOK /\ Valued /\ IteratorInList
      /\ allocated = Listed \cup held /\ Listed \cap held = {}
      /\ element \in [Node -> Value \cup {Junk}] /\ held \subseteq allocated
  BY DEF Inv, Accounted, ListTypeOK
<1>3. CASE UNCHANGED <<next, element, allocated, held, FExtry, FCount>> /\ it' \in Listed \cup {Entry, NULL}
  <2>1. WellStrung' /\ Listed' = Listed
    BY <1>1, <1>3, StillStrung
  <2>2. IteratorInList'
    BY <1>3, <2>1 DEF IteratorInList
  <2>3. Typed' /\ Valued'
    BY <1>1, <1>2, <1>3 DEF Typed, Valued
  <2> QED
    BY <1>1, <1>2, <1>3, <2>2, <2>3, QuietStep
<1>4. CASE UNCHANGED listVars
  BY <1>2, <1>3, <1>4 DEF listVars, IteratorInList
<1>5. ASSUME NEW n \in Node, NEW v \in Value, Allocate(n, v) PROVE Inv' /\ [List!Next]_Values
  <2>1. /\ n \notin allocated /\ allocated' = allocated \cup {n} /\ held' = held \cup {n}
        /\ element' = [element EXCEPT ![n] = v]
        /\ UNCHANGED <<next, FExtry, FCount, it>>
    BY <1>5 DEF Allocate
  <2>2. element' \in [Node -> Value \cup {Junk}] /\ element'[n] = v
        /\ \A y \in Node : y # n => element'[y] = element[y]
    BY <1>2, <2>1
  <2>3. WellStrung' /\ Listed' = Listed
    BY <1>1, <2>1, StillStrung
  <2>4. IteratorInList' /\ Typed' /\ Valued'
    BY <1>1, <1>2, <2>1, <2>2, <2>3 DEF IteratorInList, Typed, Valued
  <2>5. \A y \in Listed : element'[y] = element[y]
    BY <1>1, <2>1, <2>2
  <2>6. allocated' \subseteq Node /\ allocated' = Listed \cup held' /\ Listed \cap held' = {}
    BY <1>1, <1>2, <2>1
  <2> QED
    BY <2>1, <2>2, <2>4, <2>5, <2>6, QuietStep
<1>6. ASSUME NEW n \in Node, Release(n) PROVE Inv' /\ [List!Next]_Values
  <2>1. /\ n \in held /\ allocated' = allocated \ {n} /\ held' = held \ {n}
        /\ next' = [next EXCEPT ![n] = Junk]
        /\ element' = [element EXCEPT ![n] = Junk]
        /\ UNCHANGED <<FExtry, FCount, it>>
    BY <1>6 DEF Release
  <2>2. element' \in [Node -> Value \cup {Junk}]
        /\ \A y \in Node : y # n => element'[y] = element[y]
    BY <1>2, <2>1
  <2>3. \A k \in Link : k # n => next'[k] = next[k]
    BY <1>1, <2>1 DEF Typed
  <2>4. \A k \in Listed \cup {Entry} : next'[k] = next[k]
    BY <1>1, <2>1, <2>3
  <2>5. WellStrung' /\ Listed' = Listed
    BY <1>1, <2>1, <2>4, StillStrung
  <2>6. IteratorInList' /\ Typed' /\ Valued'
    BY <1>1, <1>2, <2>1, <2>2, <2>5 DEF IteratorInList, Typed, Valued
  <2>7. \A y \in Listed : element'[y] = element[y]
    BY <1>1, <2>1, <2>2
  <2>8. allocated' \subseteq Node /\ allocated' = Listed \cup held' /\ Listed \cap held' = {}
    BY <1>1, <1>2, <2>1
  <2> QED
    BY <2>1, <2>2, <2>4, <2>6, <2>7, <2>8, QuietStep
<1>7. ASSUME NEW n \in Node, PushItem(n) PROVE Inv' /\ [List!Next]_Values
  <2>1. /\ n \in held /\ held' = held \ {n} /\ (LinkFront(n) \/ LinkBack(n))
        /\ UNCHANGED <<element, allocated, it>>
    BY <1>7 DEF PushItem
  <2>2. n \notin Listed /\ allocated' = allocated \cup {n} /\ element'[n] \in Value
    BY <1>1, <1>2, <2>1 DEF Valued
  <2> QED
    BY <1>2, <2>1, <2>2, PushStep
<1>8. ASSUME NEW n \in Node, NEW v \in Value, PushValue(n, v) PROVE Inv' /\ [List!Next]_Values
  <2>1. /\ n \notin allocated /\ held' = held /\ (LinkFront(n) \/ LinkBack(n))
        /\ allocated' = allocated \cup {n}
        /\ element' = [element EXCEPT ![n] = v] /\ it' = it
    BY <1>8 DEF PushValue
  <2>2. n \notin Listed /\ held' = held \ {n}
    BY <1>1, <1>2, <2>1
  <2>3. element' \in [Node -> Value \cup {Junk}] /\ element'[n] = v
        /\ \A y \in allocated : y # n => element'[y] = element[y]
    BY <1>1, <1>2, <2>1
  <2> QED
    BY <2>1, <2>2, <2>3, PushStep
<1>9. PICK l, n : Strung(l, n)
  BY <1>1 DEF WellStrung
<1>10. /\ n \in Nat /\ l[0] = Entry /\ \A i \in 1 .. n : l[i] \in Node /\ l[i] \in Listed
       /\ \A i \in 0 .. n : next[l[i]] = IF i < n THEN l[i + 1] ELSE NULL
       /\ \A i, k \in 0 .. n : l[i] = l[k] => i = k
  <2>1. \A i \in 1 .. n : l[i] \in Listed
    BY <1>9, StrungFacts
  <2>2. /\ n \in Nat /\ l[0] = Entry /\ \A i \in 1 .. n : l[i] \in Node
        /\ \A i \in 0 .. n : next[l[i]] = IF i < n THEN l[i + 1] ELSE NULL
        /\ \A i, k \in 0 .. n : l[i] = l[k] => i = k
    BY <1>9 DEF Strung
  <2> QED
    BY <2>1, <2>2
<1>11. ASSUME MayPop
       PROVE  0 \in 0 .. n - 1 /\ next[Entry] = l[0 + 1] /\ l[1] \in Listed /\ it # l[1]
  <2>1. next[Entry] = IF 0 < n THEN l[0 + 1] ELSE NULL
    BY <1>10
  <2>2. next[Entry] # NULL /\ next[Entry] # it
    BY <1>11 DEF MayPop
  <2> QED
    BY <1>10, <2>1, <2>2
<1>12. CASE PopItem
  <2>1. /\ 0 \in 0 .. n - 1 /\ next[Entry] = l[0 + 1] /\ it # l[0 + 1]
        /\ UnlinkFirst /\ held' = held \cup {next[Entry]}
        /\ UNCHANGED <<element, allocated, it>>
        /\ FCount' \in -MaxCount .. MaxCount
    BY <1>11, <1>12 DEF PopItem, Counted
  <2>2. /\ next'[l[0]] = next[l[0 + 1]]
        /\ \A k \in Link : k \notin {l[0], l[0 + 1]} => next'[k] = next[k]
        /\ FExtry' = IF 0 + 1 = n THEN l[0] ELSE FExtry
        /\ Typed'
    BY <1>1, <1>9, <2>1, UnlinkEffect
  <2> QED
    BY <1>2, <1>9, <2>1, <2>2, CutStep
<1>13. CASE PopValue
  <2> DEFINE x == l[0 + 1]
  <2> HIDE DEF x
  <2>0. 0 \in 0 .. n - 1 /\ next[Entry] = x /\ it # x /\ x \in Listed
    BY <1>11, <1>13 DEF PopValue, x
  <2>1. /\ next' = [next EXCEPT ![Entry] = next[x], ![x] = Junk]
        /\ FExtry' = IF next[x] = NULL THEN Entry ELSE FExtry
        /\ element' = [element EXCEPT ![x] = Junk]
        /\ allocated' = allocated \ {x} /\ held' = held /\ it' = it
        /\ FCount' \in -MaxCount .. MaxCount
    BY <2>0, <1>13 DEF PopValue, Counted
  <2>2. x \in Node /\ x # Entry
    BY <1>1, <2>0
  <2>3. next[x] = NULL <=> 0 + 1 = n
    <3>1. next[x] = IF 1 < n THEN l[1 + 1] ELSE NULL
      BY <1>10, <2>0 DEF x
    <3>2. 1 < n => l[1 + 1] \in Node
      BY <1>10
    <3> QED
      BY <1>1, <1>10, <2>0, <3>1, <3>2
  <2>4. /\ next'[Entry] = next[x] /\ \A k \in Link : k \notin {Entry, x} => next'[k] = next[k]
        /\ Typed'
    BY <1>1, <2>1, <2>2 DEF Typed
  <2>5. /\ element' \in [Node -> Value \cup {Junk}]
        /\ \A y \in allocated' : element'[y] = element[y]
    BY <1>1, <1>2, <2>1, <2>2
  <2>6. FExtry' = IF 0 + 1 = n THEN l[0] ELSE FExtry
    BY <1>10, <2>1, <2>3
  <2>7. next'[l[0]] = next[l[0 + 1]] /\ \A k \in Link : k \notin {l[0], l[0 + 1]} => next'[k] = next[k]
    BY <1>10, <2>4 DEF x
  <2>8. /\ allocated' = allocated \ {l[0 + 1]} /\ held' = held
        /\ it' = it /\ it # l[0 + 1]
    BY <2>0, <2>1 DEF x
  <2>9. FCount' \in -MaxCount .. MaxCount
    BY <2>1
  <2> QED
    BY <1>9, <2>0, <2>4, <2>5, <2>6, <2>7, <2>8, <2>9, CutStep
<1>14. CASE ClearList
  BY <1>14, ClearStep
<1>15. CASE Begin
  BY <1>3, <1>15 DEF Begin
<1>16. ASSUME it # NULL, ~ AtEnd(it)
       PROVE  \E j \in 0 .. n - 1 : it = l[j] /\ ItemAt(it) = l[j + 1] /\ l[j + 1] \in Listed /\ l[j + 1] # it
  <2>1. it \in Listed \cup {Entry}
    BY <1>2, <1>16 DEF IteratorInList
  <2>2. PICK j \in 0 .. n - 1 : it = l[j] /\ ItemAt(it) = l[j + 1]
    BY <1>9, <1>16, <2>1, IteratorAt
  <2>3. j + 1 \in 1 .. n /\ j + 1 \in 0 .. n /\ j \in 0 .. n /\ j # j + 1
    BY <1>10
  <2> QED
    BY <1>10, <2>2, <2>3
<1>17. CASE Advance
  <2>1. it' \in Listed
    BY <1>16, <1>17 DEF Advance
  <2> QED
    BY <1>3, <1>17, <2>1 DEF Advance
<1>18. CASE Extract
  <2>1. PICK j \in 0 .. n - 1 : it = l[j] /\ ItemAt(it) = l[j + 1] /\ l[j + 1] # it
    BY <1>16, <1>18 DEF Extract
  <2>2. UnlinkAt(l[j]) /\ held' = held \cup {l[j + 1]}
        /\ UNCHANGED <<element, allocated, FCount, it>>
    BY <1>18, <2>1 DEF Extract
  <2>3. /\ next'[l[j]] = next[l[j + 1]]
        /\ \A k \in Link : k \notin {l[j], l[j + 1]} => next'[k] = next[k]
        /\ FExtry' = IF j + 1 = n THEN l[j] ELSE FExtry
        /\ Typed'
    BY <1>1, <1>9, <2>2, UnlinkEffect
  <2>4. FCount' \in -MaxCount .. MaxCount
    BY <1>2, <2>2 DEF ListTypeOK
  <2> QED
    BY <1>2, <1>9, <2>1, <2>2, <2>3, <2>4, CutStep
<1> QED
  BY <1>4, <1>5, <1>6, <1>7, <1>8, <1>12, <1>13, <1>14, <1>15, <1>17, <1>18 DEF ListNext

LEMMA ListInvariant == ListSpec => []Inv
<1>1. ListInit => Inv
  BY InvInit
<1>2. Inv /\ [ListNext]_listVars => Inv'
  BY ListStep
<1> QED
  BY <1>1, <1>2, PTL DEF ListSpec

-----------------------------------------------------------------------------
(* Whatever was pushed, popped, extracted or cleared before, an allocated  *)
(* item is in the list or in a client's hands, and never in both           *)
(* (include/hc_list.h:135-225).                                            *)
THEOREM NoItemForgotten == ListSpec => []Accounted
<1>1. Inv => Accounted
  BY DEF Inv
<1> QED
  BY <1>1, ListInvariant, PTL

(* An iterator stands on a link of the list, also after pushes, after pops *)
(* of other items and after the Extract it was used for                    *)
(* (include/hc_list.h:27-92, 209-225).                                     *)
THEOREM IteratorsStay == ListSpec => []IteratorInList
<1>1. Inv => IteratorInList
  BY DEF Inv
<1> QED
  BY <1>1, ListInvariant, PTL

(* Every call changes the sequence of the values as ValueList says: a push *)
(* adds one at an end, Pop and Extract remove the one they return, Clear   *)
(* all (include/hc_list.h:135-225).                                        *)
THEOREM ListIsSequence == ListSpec => ImplementsList
<1>1. ListInit => List!Init
  BY InvInit DEF List!Init
<1>2. Inv /\ [ListNext]_listVars => [List!Next]_Values
  BY ListStep
<1> QED
  BY <1>1, <1>2, ListInvariant, PTL DEF ListSpec, ImplementsList, List!Spec

-----------------------------------------------------------------------------
(* The list of observers while Notify walks it: it stands before l[j]      *)
(* while that item's Update runs and on l[j] between two of them.  It has  *)
(* told none of the items after l[j], and what it has not told it will.    *)
Place(l, n, j) ==
  /\ Strung(l, n) /\ j \in 0 .. n
  /\ current # NULL => j >= 1 /\ l[j] = current /\ it # NULL /\ next[it] = current
  /\ current = NULL /\ it # NULL => it = l[j]
  /\ it # NULL => /\ \A i \in j + 1 .. n : l[i] \notin told
                  /\ owed \subseteq told \cup {l[i] : i \in j + 1 .. n}

(* Items are only added to allocated, so none told is told as a new one.   *)
Registered ==
  /\ Typed
  /\ allocated \subseteq Node /\ Listed \subseteq allocated /\ told \subseteq allocated
  /\ it \in allocated \cup {Entry, NULL}

ObservableInv == Registered /\ \E l, n, j : Place(l, n, j)

LEMMA ObservableStarts == ASSUME ObservableInit PROVE ObservableInv
<1> DEFINE l == [k \in 0 .. 0 |-> Entry]
<1>1. Typed /\ next[Entry] = NULL /\ FExtry = Entry /\ Entry \in Link
  BY DEF ObservableInit, ListInit, Typed, Link
<1>2. l \in [0 .. 0 -> Link] /\ l[0] = Entry /\ \A i \in 0 .. 0 : i = 0
  BY <1>1
<1> HIDE DEF l
<1>3. Strung(l, 0)
  BY <1>1, <1>2 DEF Strung
<1>4. Place(l, 0, 0)
  BY <1>3 DEF Place, ObservableInit, ListInit
<1>5. Listed = {}
  BY <1>3, StrungFacts
<1>6. Registered
  BY <1>1, <1>5 DEF Registered, ObservableInit, ListInit
<1> QED
  BY <1>4, <1>6 DEF ObservableInv

LEMMA AddObserverStep ==
  ASSUME ObservableInv, NEW x \in Node, NEW o \in Observer, AddObserver(x, o)
  PROVE  ObservableInv'
<1>1. PICK l, n, j : Place(l, n, j)
  BY DEF ObservableInv
<1>2. Registered /\ LinkBack(x) /\ x \notin allocated /\ allocated' = allocated \cup {x}
  BY DEF ObservableInv, AddObserver
<1>3. it' = it /\ current' = current /\ told' = told /\ owed' = owed
  BY DEF AddObserver
<1>4. Strung(l, n) /\ n \in Nat /\ j \in 0 .. n /\ Listed = {l[i] : i \in 1 .. n}
  BY <1>1, StrungFacts DEF Place, Strung
<1>5. x \notin Listed /\ \A i \in 1 .. n : l[i] # x
  BY <1>2, <1>4 DEF Registered
<1> DEFINE m == Backed(l, n, x)
<1>6. Strung(m, n + 1)'
  BY <1>2, <1>4, <1>5, LinkBackStrings DEF Registered
<1>7. m[n + 1] = x /\ \A i \in 0 .. n : m[i] = l[i]
  BY <1>4 DEF Backed
<1> HIDE DEF m
<1>8. Typed' /\ Listed' = Listed \cup {x}
  BY <1>2, <1>4, <1>5, LinkEffect DEF Registered, WellStrung
<1>9. Registered'
  BY <1>2, <1>3, <1>8 DEF Registered
<1>10. ASSUME current # NULL PROVE it # NULL /\ next'[it] = current
  <2>1. it # NULL /\ next[it] = current /\ next[FExtry] = NULL
    BY <1>1, <1>4, <1>10, StrungFacts DEF Place
  <2>2. it # x /\ it # FExtry /\ it \in Link
    BY <1>2, <1>10, <2>1, LinkedListAssumption DEF Registered, Link
  <2> QED
    BY <1>2, <2>1, <2>2 DEF LinkBack, Registered, Typed
<1>11. \A i \in j + 1 .. n + 1 : i \in j + 1 .. n \/ i = n + 1
  BY <1>4
<1>12. j \in 0 .. n + 1 /\ \A i \in j + 1 .. n : i \in 0 .. n /\ i \in j + 1 .. n + 1
  BY <1>4
<1>13. it # NULL => /\ \A i \in j + 1 .. n + 1 : m[i] \notin told
                    /\ owed \subseteq told \cup {m[i] : i \in j + 1 .. n + 1}
  <2> HAVE it # NULL
  <2>1. \A i \in j + 1 .. n : m[i] = l[i] /\ m[i] \notin told
    BY <1>1, <1>7, <1>12 DEF Place
  <2>2. x \notin told
    BY <1>2 DEF Registered
  <2>3. owed \subseteq told \cup {l[i] : i \in j + 1 .. n}
    BY <1>1 DEF Place
  <2> QED
    BY <1>7, <1>11, <1>12, <2>1, <2>2, <2>3
<1>14. Place(m, n + 1, j)'
  BY <1>1, <1>3, <1>6, <1>7, <1>10, <1>12, <1>13 DEF Place
<1> QED
  BY <1>9, <1>14 DEF ObservableInv

(* DeleteObserver takes out the observer's first item.                     *)
LEMMA FirstHeld ==
  ASSUME NEW l, NEW n, Strung(l, n), NEW o, Holds(o) # {}
  PROVE  \E d \in 1 .. n : d = First(o) /\ Chain[d] = l[d] /\ LinkTo(d) = l[d - 1]
<1>1. n \in Nat /\ l[0] = Entry /\ DOMAIN Chain = 1 .. n /\ \A i \in 1 .. n : Chain[i] = l[i]
  BY StrungFacts DEF Strung
<1>2. Holds(o) \subseteq 1 .. n
  BY <1>1 DEF Holds
<1>3. \E i \in Holds(o) : \A k \in Holds(o) : i <= k
  <2>1. Holds(o) \in SUBSET Nat
    BY <1>2
  <2> QED
    BY <2>1, Least
<1>4. First(o) \in Holds(o)
  BY <1>3 DEF First
<1> DEFINE d == First(o)
<1> HIDE DEF d
<1>5. d \in 1 .. n
  BY <1>2, <1>4 DEF d
<1>6. LinkTo(d) = l[d - 1]
  <2>1. d = 1 \/ d - 1 \in 1 .. n
    BY <1>1, <1>5
  <2> QED
    BY <1>1, <2>1 DEF LinkTo
<1> QED
  BY <1>1, <1>5, <1>6 DEF d

LEMMA DeleteObserverStep ==
  ASSUME ~ SelfDelete, ObservableInv, NEW o \in Observer, DeleteObserver(o)
  PROVE  ObservableInv'
<1>1. PICK l, n, j : Place(l, n, j)
  BY DEF ObservableInv
<1>2. Registered /\ Holds(o) # {} /\ (it = NULL \/ current # NULL)
  BY DEF ObservableInv, DeleteObserver, MayCall
<1>3. Strung(l, n) /\ n \in Nat /\ j \in 0 .. n
  BY <1>1 DEF Place, Strung
<1>4. PICK d \in 1 .. n : d = First(o) /\ Chain[d] = l[d] /\ LinkTo(d) = l[d - 1]
  BY <1>2, <1>3, FirstHeld
<1>5. l[d] # current /\ UnlinkAt(l[d - 1]) /\ owed' = owed \ {l[d]}
  BY <1>4 DEF DeleteObserver
<1>6. it' = it /\ current' = current /\ told' = told /\ allocated' = allocated
  BY DEF DeleteObserver
<1> DEFINE m == Cut(l, n, d - 1)
<1>7. d - 1 \in 0 .. n - 1 /\ (d - 1) + 1 = d /\ d \in 0 .. n /\ d - 1 \in 0 .. n
  BY <1>3
<1>8. /\ next'[l[d - 1]] = next[l[d]]
      /\ \A k \in Link : k \notin {l[d - 1], l[d]} => next'[k] = next[k]
      /\ FExtry' = IF d = n THEN l[d - 1] ELSE FExtry
      /\ Typed'
  <2>1. UnlinkAt(l[d - 1]) \/ (d - 1 = 0 /\ UnlinkFirst)
    BY <1>5
  <2> DEFINE e == d - 1
  <2>2. e \in 0 .. n - 1 /\ Typed /\ e + 1 = d /\ (UnlinkAt(l[e]) \/ (e = 0 /\ UnlinkFirst))
    BY <1>2, <1>7, <2>1 DEF Registered
  <2> HIDE DEF e
  <2>3. /\ next'[l[e]] = next[l[e + 1]]
        /\ \A k \in Link : k \notin {l[e], l[e + 1]} => next'[k] = next[k]
        /\ FExtry' = IF e + 1 = n THEN l[e] ELSE FExtry
        /\ Typed'
    BY <1>3, <2>2, UnlinkEffect
  <2> QED
    BY <2>2, <2>3 DEF e
<1>9. /\ Strung(m, n - 1)'
      /\ Listed' = Listed \ {l[d]}
  <2> DEFINE e == d - 1
  <2>1. e \in 0 .. n - 1 /\ Typed /\ e + 1 = d
    BY <1>2, <1>7 DEF Registered
  <2>2. l[e] \in Link /\ \A k \in 0 .. n : l[k] \in Link
    BY <1>3, <1>7 DEF Strung
  <2>3. \A k \in 0 .. n : k \notin {e, e + 1} => l[k] \notin {l[e], l[e + 1]}
    BY <1>3, <1>7, <2>1 DEF Strung
  <2>4. /\ next'[l[e]] = next[l[e + 1]]
        /\ \A k \in Link : k \notin {l[e], l[e + 1]} => next'[k] = next[k]
        /\ FExtry' = IF e + 1 = n THEN l[e] ELSE FExtry
    BY <1>8, <2>1
  <2> HIDE DEF e
  <2>5. \A k \in 0 .. n : k \notin {e, e + 1} => next'[l[k]] = next[l[k]]
    BY <2>2, <2>3, <2>4
  <2>6. Strung(Cut(l, n, e), n - 1)'
    BY <1>3, <2>1, <2>4, <2>5, CutStrings
  <2>7. Listed' = Listed \ {l[e + 1]}
    BY <1>3, <2>1, <2>4, CutEffect
  <2>8. e = d - 1
    BY DEF e
  <2> QED
    BY <2>1, <2>6, <2>7, <2>8
<1>10. \A k \in 0 .. n - 1 : m[k] = IF k < d THEN l[k] ELSE l[k + 1]
  <2> TAKE k \in 0 .. n - 1
  <2>1. k <= d - 1 <=> k < d
    BY <1>3
  <2> QED
    BY <2>1 DEF Cut
<1> HIDE DEF m
<1>11. Registered'
  BY <1>2, <1>6, <1>8, <1>9 DEF Registered
<1>12. CASE it = NULL
  <2>1. current = NULL
    BY <1>1, <1>12 DEF Place
  <2>2. 0 \in 0 .. n - 1
    BY <1>3, <1>7
  <2>3. Place(m, n - 1, 0)'
    BY <1>6, <1>9, <1>12, <2>1, <2>2 DEF Place
  <2> QED
    BY <1>11, <2>3 DEF ObservableInv
<1>13. CASE it # NULL
  <2>1. /\ current # NULL /\ j >= 1 /\ l[j] = current /\ next[it] = current
        /\ \A i \in j + 1 .. n : l[i] \notin told
        /\ owed \subseteq told \cup {l[i] : i \in j + 1 .. n}
    BY <1>1, <1>2, <1>13 DEF Place
  <2>2. d # j /\ (d < j \/ d > j)
    BY <1>3, <1>5, <2>1
  <2>3. next'[it] = current
    <3>1. it \in Link /\ l[d - 1] \in Link
      BY <1>2, <1>3, <1>7, <1>13 DEF Registered, Link, Strung
    <3>2. next[l[d - 1]] = l[d]
      <4>1. next[l[d - 1]] = IF d - 1 < n THEN l[(d - 1) + 1] ELSE NULL
        BY <1>3, <1>7 DEF Strung
      <4> QED
        BY <1>3, <1>7, <4>1
    <3>3. it # l[d - 1]
      BY <1>5, <2>1, <3>2
    <3> QED
      BY <1>2, <1>5, <2>1, <3>1, <3>3 DEF UnlinkAt, Registered, Typed
  <2>4. CASE d < j
    <3>1. j - 1 \in 0 .. n - 1 /\ (j - 1) + 1 = j /\ j - 1 >= 1 /\ ~ (j - 1 < d)
      BY <1>3, <2>4
    <3>2. m[j - 1] = current
      BY <1>10, <2>1, <3>1
    <3>3. \A i \in j .. n - 1 : m[i] = l[i + 1] /\ i + 1 \in j + 1 .. n
      <4> TAKE i \in j .. n - 1
      <4>1. i \in 0 .. n - 1 /\ ~ (i < d) /\ i + 1 \in j + 1 .. n
        BY <1>3, <2>4
      <4> QED
        BY <1>10, <4>1
    <3>4. \A i \in j + 1 .. n : i - 1 \in j .. n - 1 /\ (i - 1) + 1 = i
      BY <1>3
    <3>5. \A i \in j + 1 .. n : \E k \in j .. n - 1 : m[k] = l[i]
      BY <3>3, <3>4
    <3>6. \A i \in j .. n - 1 : m[i] \notin told
      BY <2>1, <3>3
    <3>7. owed' \subseteq told \cup {m[i] : i \in j .. n - 1}
      BY <1>5, <2>1, <3>5
    <3> DEFINE p == j - 1
    <3>8. /\ p \in 0 .. n - 1 /\ p >= 1 /\ m[p] = current
          /\ \A i \in p + 1 .. n - 1 : m[i] \notin told
          /\ owed' \subseteq told \cup {m[i] : i \in p + 1 .. n - 1}
      BY <3>1, <3>2, <3>6, <3>7
    <3> HIDE DEF p
    <3>9. Place(m, n - 1, p)'
      BY <1>6, <1>9, <1>13, <2>1, <2>3, <3>8 DEF Place
    <3> QED
      BY <1>11, <3>9 DEF ObservableInv
  <2>5. CASE d > j
    <3>1. j \in 0 .. n - 1 /\ j < d
      BY <1>3, <2>5
    <3>2. m[j] = current
      BY <1>10, <2>1, <3>1
    <3>3. \A i \in j + 1 .. n - 1 : \E k \in j + 1 .. n : m[i] = l[k]
      <4> TAKE i \in j + 1 .. n - 1
      <4>1. i \in 0 .. n - 1 /\ i \in j + 1 .. n /\ i + 1 \in j + 1 .. n
        BY <1>3
      <4> QED
        BY <1>10, <4>1
    <3>4. \A i \in j + 1 .. n : i = d \/ \E k \in j + 1 .. n - 1 : m[k] = l[i]
      <4> TAKE i \in j + 1 .. n
      <4>1. CASE i < d
        <5>1. i \in j + 1 .. n - 1 /\ i \in 0 .. n - 1
          BY <1>3, <4>1
        <5> QED
          BY <1>10, <4>1, <5>1
      <4>2. CASE i > d
        <5>1. i - 1 \in j + 1 .. n - 1 /\ i - 1 \in 0 .. n - 1 /\ ~ (i - 1 < d) /\ (i - 1) + 1 = i
          BY <1>3, <2>5, <4>2
        <5>2. m[i - 1] = l[i]
          BY <1>10, <5>1
        <5> QED
          BY <5>1, <5>2
      <4> QED
        BY <1>3, <4>1, <4>2
    <3>5. \A i \in j + 1 .. n - 1 : m[i] \notin told
      BY <2>1, <3>3
    <3>6. owed' \subseteq told \cup {m[i] : i \in j + 1 .. n - 1}
      BY <1>5, <2>1, <3>4
    <3>7. Place(m, n - 1, j)'
      BY <1>6, <1>9, <1>13, <2>1, <2>3, <3>1, <3>2, <3>5, <3>6 DEF Place
    <3> QED
      BY <1>11, <3>7 DEF ObservableInv
  <2> QED
    BY <2>2, <2>4, <2>5
<1> QED
  BY <1>12, <1>13

(* The steps of Notify leave the list alone.                               *)
LEMMA ListStays ==
  ASSUME UNCHANGED list
  PROVE  /\ Listed' = Listed /\ Typed' = Typed /\ allocated' = allocated
         /\ \A l, n : Strung(l, n)' = Strung(l, n)
<1>1. next' = next /\ FExtry' = FExtry /\ allocated' = allocated
  BY DEF list
<1>2. Chain' = Chain
  BY <1>1 DEF Chain
<1> QED
  BY <1>1, <1>2 DEF Listed, Typed, Strung

LEMMA NotifyStep ==
  ASSUME ObservableInv, Notify PROVE ObservableInv'
<1>1. PICK l, n, j : Place(l, n, j)
  BY DEF ObservableInv
<1>2. UNCHANGED list /\ current' = current /\ it = NULL
  BY DEF Notify
<1>3. Registered /\ current = NULL
  BY <1>1, <1>2 DEF ObservableInv, Place
<1>4. Strung(l, n) /\ n \in Nat /\ l[0] = Entry /\ Listed = {l[i] : i \in 1 .. n}
  BY <1>1, StrungFacts DEF Place, Strung
<1>5. Strung(l, n)' /\ Listed' = Listed /\ Typed' /\ allocated' = allocated
  BY <1>2, <1>3, <1>4, ListStays DEF Registered
<1>6. CASE it' = it /\ told' = told /\ owed' = owed
  <2>1. Registered' /\ Place(l, n, j)'
    BY <1>1, <1>2, <1>3, <1>5, <1>6 DEF Registered, Place
  <2> QED
    BY <2>1 DEF ObservableInv
<1>7. CASE it' = Entry /\ told' = {} /\ owed' = Listed
  <2>1. Registered'
    BY <1>3, <1>5, <1>7 DEF Registered
  <2>2. 0 \in 0 .. n /\ 0 + 1 = 1
    BY <1>4
  <2>3. Place(l, n, 0)'
    BY <1>2, <1>3, <1>4, <1>5, <1>7, <2>2 DEF Place
  <2> QED
    BY <2>1, <2>3 DEF ObservableInv
<1> QED
  BY <1>6, <1>7 DEF Notify

LEMMA UpdateStep ==
  ASSUME ObservableInv, Update
  PROVE  ObservableInv' /\ current' \in Listed \ told /\ current' # NULL /\ it # NULL
<1>1. PICK l, n, j : Place(l, n, j)
  BY DEF ObservableInv
<1>2. /\ UNCHANGED list /\ it' = it /\ owed' = owed
      /\ it \in Link /\ current = NULL /\ ~ AtEnd(it)
      /\ current' = next[it] /\ told' = told \cup {current'}
  BY DEF Update, ItemAt
<1>3. it # NULL
  BY <1>2, LinkedListAssumption DEF Link, Entry, NULL
<1>4. /\ Strung(l, n) /\ n \in Nat /\ j \in 0 .. n /\ it = l[j]
      /\ \A i \in j + 1 .. n : l[i] \notin told
      /\ owed \subseteq told \cup {l[i] : i \in j + 1 .. n}
  BY <1>1, <1>2, <1>3 DEF Place, Strung
<1>5. j < n /\ j + 1 \in 1 .. n /\ j + 1 \in j + 1 .. n /\ j + 1 \in 0 .. n
  <2>1. j # n
    BY <1>2, <1>4, StrungFacts
  <2> QED
    BY <1>4, <2>1
<1>6. current' = l[j + 1]
  BY <1>2, <1>4, <1>5 DEF Strung
<1>7. /\ Listed = {l[i] : i \in 1 .. n} /\ Listed \subseteq Node /\ NULL \notin Node
      /\ Registered
  BY <1>4, StrungFacts, LinkedListAssumption DEF ObservableInv
<1>8. current' \in Listed \ told /\ current' # NULL
  BY <1>4, <1>5, <1>6, <1>7
<1>9. Strung(l, n)' /\ Listed' = Listed /\ Typed' /\ allocated' = allocated
  BY <1>2, <1>4, <1>7, ListStays DEF Registered
<1>10. Registered'
  BY <1>2, <1>7, <1>8, <1>9 DEF Registered
<1> DEFINE p == j + 1
<1>11. \A i \in p + 1 .. n : l[i] \notin told'
  <2> TAKE i \in p + 1 .. n
  <2>1. i \in j + 1 .. n /\ i \in 0 .. n /\ i # j + 1
    BY <1>4
  <2> QED
    BY <1>2, <1>4, <1>5, <1>6, <2>1 DEF Strung
<1>12. owed \subseteq told' \cup {l[i] : i \in p + 1 .. n}
  <2>1. \A i \in j + 1 .. n : i = j + 1 \/ i \in p + 1 .. n
    BY <1>4
  <2> QED
    BY <1>2, <1>4, <1>6, <2>1
<1>13. p \in 0 .. n /\ p >= 1 /\ l[p] = current' /\ next'[it] = current'
  BY <1>2, <1>4, <1>5, <1>6 DEF list
<1> HIDE DEF p
<1>14. Place(l, n, p)'
  BY <1>2, <1>3, <1>8, <1>9, <1>11, <1>12, <1>13 DEF Place
<1> QED
  BY <1>3, <1>8, <1>10, <1>14 DEF ObservableInv

LEMMA UpdateReturnsStep ==
  ASSUME ObservableInv, UpdateReturns PROVE ObservableInv' /\ it' # NULL
<1>1. PICK l, n, j : Place(l, n, j)
  BY DEF ObservableInv
<1>2. /\ UNCHANGED list /\ told' = told /\ owed' = owed /\ current' = NULL /\ current # NULL
      /\ it' = IF next[it] \in Node THEN next[it] ELSE Junk
  BY DEF UpdateReturns, ItemAt
<1>3. /\ Strung(l, n) /\ n \in Nat /\ j \in 1 .. n /\ it # NULL
      /\ l[j] = current /\ next[it] = current
  BY <1>1, <1>2 DEF Place, Strung
<1>4. Listed = {l[i] : i \in 1 .. n} /\ Listed \subseteq Node /\ NULL \notin Node
  BY <1>3, StrungFacts, LinkedListAssumption
<1>5. it' = l[j] /\ it' \in Listed /\ it' # NULL
  BY <1>2, <1>3, <1>4
<1>6. Registered
  BY DEF ObservableInv
<1>7. Strung(l, n)' /\ Listed' = Listed /\ Typed' /\ allocated' = allocated
  BY <1>2, <1>3, <1>6, ListStays DEF Registered
<1>8. Registered'
  BY <1>2, <1>5, <1>6, <1>7 DEF Registered
<1>9. Place(l, n, j)'
  BY <1>1, <1>2, <1>3, <1>5, <1>7 DEF Place
<1> QED
  BY <1>5, <1>8, <1>9 DEF ObservableInv

LEMMA NotifyEndsStep ==
  ASSUME ObservableInv, NotifyEnds PROVE ObservableInv' /\ current' = NULL /\ owed \subseteq told
<1>1. PICK l, n, j : Place(l, n, j)
  BY DEF ObservableInv
<1>2. /\ UNCHANGED list /\ told' = told /\ owed' = owed /\ current' = NULL /\ current = NULL
      /\ it' = NULL /\ it \in Link /\ AtEnd(it)
  BY DEF NotifyEnds
<1>3. it # NULL
  BY <1>2, LinkedListAssumption DEF Link, Entry, NULL
<1>4. /\ Strung(l, n) /\ n \in Nat /\ j \in 0 .. n /\ it = l[j]
      /\ owed \subseteq told \cup {l[i] : i \in j + 1 .. n}
  BY <1>1, <1>2, <1>3 DEF Place, Strung
<1>5. j = n
  BY <1>2, <1>4, StrungFacts
<1>6. owed \subseteq told
  <2>1. j + 1 .. n = {}
    BY <1>4, <1>5
  <2> QED
    BY <1>4, <2>1
<1>7. Registered
  BY DEF ObservableInv
<1>8. Strung(l, n)' /\ Listed' = Listed /\ Typed' /\ allocated' = allocated
  BY <1>2, <1>4, <1>7, ListStays DEF Registered
<1>9. Registered' /\ Place(l, n, j)'
  BY <1>2, <1>4, <1>7, <1>8 DEF Registered, Place
<1> QED
  BY <1>2, <1>6, <1>9 DEF ObservableInv

(* What a step of Notify and of the observers may do, ToldOnce's body.     *)
Tells ==
  /\ current = NULL /\ current' # NULL => current' \in Listed \ told
  /\ it # NULL /\ it' = NULL => owed \subseteq told

LEMMA ObservableStep ==
  ASSUME ~ SelfDelete, ObservableInv, [ObservableNext]_observableVars
  PROVE  ObservableInv' /\ Tells
<1>1. CASE UNCHANGED observableVars
  <2>1. UNCHANGED list /\ it' = it /\ current' = current /\ told' = told /\ owed' = owed
    BY <1>1 DEF observableVars
  <2>2. PICK l, n, j : Place(l, n, j)
    BY DEF ObservableInv
  <2>3. next' = next
    BY <2>1 DEF list
  <2>4. Place(l, n, j)' /\ Registered'
    <3>1. Strung(l, n)' = Strung(l, n) /\ Listed' = Listed /\ Typed' = Typed /\ allocated' = allocated
      BY <2>1, ListStays
    <3> QED
      BY <2>1, <2>2, <2>3, <3>1 DEF Place, Registered, ObservableInv
  <2> QED
    BY <2>1, <2>4 DEF ObservableInv, Tells
<1>2. ASSUME NEW n \in Node, NEW o \in Observer, AddObserver(n, o) PROVE ObservableInv' /\ Tells
  <2>1. it' = it /\ current' = current
    BY <1>2 DEF AddObserver
  <2> QED
    BY <1>2, <2>1, AddObserverStep DEF Tells
<1>3. ASSUME NEW o \in Observer, DeleteObserver(o) PROVE ObservableInv' /\ Tells
  <2>1. it' = it /\ current' = current
    BY <1>3 DEF DeleteObserver
  <2> QED
    BY <1>3, <2>1, DeleteObserverStep DEF Tells
<1>4. CASE Notify
  <2>1. it = NULL /\ current' = current
    BY <1>4 DEF Notify
  <2> QED
    BY <1>4, <2>1, NotifyStep DEF Tells
<1>5. CASE Update
  <2>1. it' = it
    BY <1>5 DEF Update
  <2> QED
    BY <1>5, <2>1, UpdateStep DEF Tells
<1>6. CASE UpdateReturns
  <2>1. current' = NULL
    BY <1>6 DEF UpdateReturns
  <2> QED
    BY <1>6, <2>1, UpdateReturnsStep DEF Tells
<1>7. CASE NotifyEnds
  BY <1>7, NotifyEndsStep DEF Tells
<1> QED
  BY <1>1, <1>2, <1>3, <1>4, <1>5, <1>6, <1>7 DEF ObservableNext

LEMMA ObservableInvariant ==
  ASSUME ~ SelfDelete
  PROVE  ObservableSpec => []ObservableInv /\ [][Tells]_observableVars
<1>1. ObservableInit => ObservableInv
  BY ObservableStarts
<1>2. ObservableInv /\ [ObservableNext]_observableVars => ObservableInv' /\ [Tells]_observableVars
  BY ObservableStep
<1> QED
  BY <1>1, <1>2, PTL DEF ObservableSpec

(* Whatever observers add and delete from Update, as long as none deletes  *)
(* the registration it is called for: Notify's iterator leads to the item  *)
(* it is at until it moves on, through a link of a deleted item if need be *)
(* (include/hc_observer.h:30-42, 45-53).                                   *)
THEOREM NotifyIsSafe ==
  ASSUME ~ SelfDelete
  PROVE  ObservableSpec => []NotifySafe
<1>1. ObservableInv => NotifySafe
  <2> SUFFICES ASSUME ObservableInv PROVE NotifySafe
    OBVIOUS
  <2>1. it # Junk
    BY LinkedListAssumption DEF ObservableInv, Registered, Entry, NULL, Junk
  <2>2. current # NULL => next[it] = current
    BY DEF ObservableInv, Place
  <2> QED
    BY <2>1, <2>2 DEF NotifySafe
<1> QED
  BY <1>1, ObservableInvariant, PTL

(* Under the same condition a Notify updates an item once at most, never   *)
(* one that has been deleted, and each that was registered all the while   *)
(* (include/hc_observer.h:45-53).                                          *)
THEOREM EachToldOnce ==
  ASSUME ~ SelfDelete
  PROVE  ObservableSpec => ToldOnce
  BY ObservableInvariant, PTL DEF ToldOnce, Tells
=============================================================================
