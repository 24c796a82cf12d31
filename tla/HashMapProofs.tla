--------------------------- MODULE HashMapProofs ----------------------------
(* Theorems about HashMap, for every hash function, every comparison by    *)
(* prefix, every smallest size and maps of every length.  First the chains *)
(* one behind the other, then what becomes of a chain, of a map, and of    *)
(* the dictionary a map stands for.                                        *)
EXTENDS HashMap, Foundations

-----------------------------------------------------------------------------
Lists(n, E, L) == n \in Nat \ {0} /\ L \in [0 .. (n - 1) -> Seq(E)]

Joined(n, L) == FlattenSeq([b \in 1 .. n |-> L[b - 1]])

(* The first chains of a list one behind the other, by how many they are.  *)
Flat(n, E, L, f) ==
  /\ f \in [1 .. n -> Seq(E)]
  /\ f[1] = L[0]
  /\ \A i \in 2 .. n : f[i] = f[i - 1] \o L[i - 1]

LEMMA FlatIs ==
  ASSUME NEW n, NEW E, NEW L, Lists(n, E, L)
  PROVE  \E f : Flat(n, E, L, f) /\ Joined(n, L) = f[n]
<1> n \in Nat \ {0} /\ L \in [0 .. (n - 1) -> Seq(E)]
  BY DEF Lists
<1> DEFINE s == [b \in 1 .. n |-> L[b - 1]]
           step == [i \in 1 .. n |-> [x \in Seq(E) |-> x \o s[i]]]
           Fits(f) == f = [i \in 1 .. n |-> IF i = 1 THEN s[i] ELSE f[i - 1] \o s[i]]
           flatten == CHOOSE f : Fits(f)
<1>1. s \in Seq(Seq(E)) /\ Len(s) = n /\ \A i \in 1 .. n : s[i] = L[i - 1] /\ s[i] \in Seq(E)
  OBVIOUS
<1>2. step \in [1 .. n -> [Seq(E) -> Seq(E)]]
  BY <1>1, ConcatProperties
<1>3. \A i \in 1 .. n, x \in Seq(E) : step[i][x] = x \o s[i]
  OBVIOUS
<1>4. 1 \in Nat /\ n \in Nat /\ 1 <= n /\ 1 \in 1 .. n /\ s[1] \in Seq(E)
  BY <1>1
<1>5. FlattenSeq(s) = flatten[n]
  BY <1>1, Zenon DEF FlattenSeq
<1> HIDE DEF s, step
<1>6. PICK f : Unrolled(1, n, Seq(E), s[1], step, f)
  <2>1. Step(1, n, Seq(E), s[1], step)
    BY <1>2, <1>4 DEF Step
  <2> QED
    BY <2>1, Recursion
<1>7. \A i \in 1 .. n : i # 1 => i - 1 \in 1 .. n
  OBVIOUS
<1>8. \A i \in 1 .. n : i # 1 => f[i] = f[i - 1] \o s[i]
  BY <1>3, <1>6, <1>7 DEF Unrolled
<1>9. Fits(f)
  <2>1. \A i \in 1 .. n : f[i] = IF i = 1 THEN s[i] ELSE f[i - 1] \o s[i]
    BY <1>6, <1>8, Zenon DEF Unrolled
  <2> QED
    BY <1>6, <2>1, Zenon DEF Unrolled
<1>10. flatten = [i \in 1 .. n |-> IF i = 1 THEN s[i] ELSE flatten[i - 1] \o s[i]]
  BY <1>9, Zenon
<1> HIDE DEF flatten
<1>11. flatten[1] = s[1] /\ \A i \in 1 .. n : i # 1 => flatten[i] = flatten[i - 1] \o s[i]
  BY <1>4, <1>10, Zenon
<1>12. ASSUME NEW i \in 1 .. n, i # 1, flatten[i - 1] \in Seq(E)
       PROVE  flatten[i] \in Seq(E)
  <2>1. s[i] \in Seq(E) /\ flatten[i] = flatten[i - 1] \o s[i]
    BY <1>1, <1>11, <1>12, Zenon
  <2>2. flatten[i - 1] \o s[i] \in Seq(E)
    BY <1>12, <2>1, ConcatProperties
  <2> QED
    BY <2>1, <2>2, Zenon
<1>13. flatten \in [1 .. n -> Seq(E)]
  <2> DEFINE Bad == {i \in 1 .. n : flatten[i] \notin Seq(E)}
  <2>1. SUFFICES ASSUME Bad # {} PROVE FALSE
    BY <1>10, <2>1
  <2>2. PICK i \in Bad : \A j \in Bad : i <= j
    <3>1. Bad \subseteq Nat
      OBVIOUS
    <3> HIDE DEF Bad
    <3> QED
      BY <2>1, <3>1, Least
  <2>3. i # 1
    BY <1>4, <1>11, <2>2
  <2>4. i - 1 \in 1 .. n /\ i - 1 \notin Bad
    BY <2>2, <2>3
  <2> QED
    BY <1>12, <2>2, <2>3, <2>4
<1>14. \A i \in 2 .. n : i \in 1 .. n /\ i # 1 /\ s[i] = L[i - 1]
  BY <1>1
<1>15. \A i \in 2 .. n : flatten[i] = flatten[i - 1] \o L[i - 1]
  BY <1>11, <1>14, Zenon
<1>16. flatten[1] = L[0]
  BY <1>1, <1>4, <1>11
<1>17. Joined(n, L) = flatten[n]
  BY <1>5 DEF s, Joined
<1> QED
  BY <1>13, <1>15, <1>16, <1>17, Zenon DEF Flat

(* They hold what the chains hold. *)
LEMMA FlatRange ==
  ASSUME NEW n, NEW E, NEW L, Lists(n, E, L), NEW f, Flat(n, E, L, f)
  PROVE  Range(f[n]) = UNION {Range(L[b]) : b \in 0 .. (n - 1)}
<1> n \in Nat \ {0} /\ L \in [0 .. (n - 1) -> Seq(E)]
  BY DEF Lists
<1> DEFINE First(i) == {b \in 0 .. (n - 1) : b < i}
           Before(i) == UNION {Range(L[b]) : b \in First(i)}
           Bad == {i \in 1 .. n : Range(f[i]) # Before(i)}
<1>1. \A i \in 1 .. n : f[i] \in Seq(E) /\ L[i - 1] \in Seq(E)
  BY DEF Flat
<1>2. Range(f[1]) = Before(1)
  <2>1. First(1) = {0}
    OBVIOUS
  <2>2. Before(1) = Range(L[0])
    BY <2>1, Zenon
  <2> QED
    BY <2>2, Zenon DEF Flat
<1>3. ASSUME NEW i \in 2 .. n, Range(f[i - 1]) = Before(i - 1)
      PROVE  Range(f[i]) = Before(i)
  <2>1. f[i] = f[i - 1] \o L[i - 1]
    BY DEF Flat
  <2>2. i - 1 \in 1 .. n /\ i \in 1 .. n
    OBVIOUS
  <2>3. f[i - 1] \in Seq(E) /\ L[i - 1] \in Seq(E)
    BY <1>1, <2>2
  <2>4. Range(f[i]) = Range(f[i - 1]) \cup Range(L[i - 1])
    BY <2>1, <2>3, RangeConcatenation
  <2>5. First(i) = First(i - 1) \cup {i - 1}
    OBVIOUS
  <2> HIDE DEF First
  <2>6. Before(i) = Before(i - 1) \cup Range(L[i - 1])
    BY <2>5, Zenon
  <2> QED
    BY <1>3, <2>4, <2>6, Zenon
<1>4. Bad = {}
  <2>1. SUFFICES ASSUME Bad # {} PROVE FALSE
    OBVIOUS
  <2>2. PICK i \in Bad : \A j \in Bad : i <= j
    <3>1. Bad \subseteq Nat
      OBVIOUS
    <3> HIDE DEF Bad
    <3> QED
      BY <2>1, <3>1, Least
  <2> HIDE DEF Before
  <2>3. i \in 1 .. n /\ Range(f[i]) # Before(i)
    BY <2>2
  <2>4. i # 1
    BY <1>2, <2>3
  <2>5. i \in 2 .. n /\ i - 1 \in 1 .. n /\ ~ (i <= i - 1)
    BY <2>3, <2>4
  <2>6. i - 1 \notin Bad
    BY <2>2, <2>5
  <2> QED
    BY <1>3, <2>3, <2>5, <2>6
<1>5. n \in 1 .. n /\ First(n) = 0 .. (n - 1)
  OBVIOUS
<1>6. Range(f[n]) = Before(n)
  <2> HIDE DEF Before
  <2> QED
    BY <1>4, <1>5
<1> QED
  BY <1>5, <1>6, Zenon

(* What has been shown of them, without the function they come from. *)
LEMMA JoinedIs ==
  ASSUME NEW n, NEW E, NEW L, Lists(n, E, L)
  PROVE  /\ Joined(n, L) \in Seq(E)
         /\ Range(Joined(n, L)) = UNION {Range(L[b]) : b \in 0 .. (n - 1)}
<1>1. PICK f : Flat(n, E, L, f) /\ Joined(n, L) = f[n]
  BY FlatIs
<1>2. Range(f[n]) = UNION {Range(L[b]) : b \in 0 .. (n - 1)}
  BY <1>1, FlatRange
<1>3. f[n] \in Seq(E)
  BY <1>1 DEF Flat, Lists
<1> QED
  BY <1>1, <1>2, <1>3, Zenon

(* Lists that differ in the chain of c only. *)
ButFor(n, K, L, c) ==
  c \in 0 .. (n - 1) /\ \A b \in 0 .. (n - 1) : b # c => K[b] = L[b]

(* One chain that grows or shrinks makes them longer or shorter by as much. *)
LEMMA JoinedLen ==
  ASSUME NEW n, NEW E, NEW L, Lists(n, E, L), NEW K, Lists(n, E, K),
         NEW c, ButFor(n, K, L, c)
  PROVE  Len(Joined(n, K)) = Len(Joined(n, L)) + (Len(K[c]) - Len(L[c]))
<1> PICK f : Flat(n, E, L, f) /\ Joined(n, L) = f[n]
  BY FlatIs
<1> PICK h : Flat(n, E, K, h) /\ Joined(n, K) = h[n]
  BY FlatIs
<1> /\ n \in Nat \ {0} /\ L \in [0 .. (n - 1) -> Seq(E)]
    /\ K \in [0 .. (n - 1) -> Seq(E)]
    /\ c \in 0 .. (n - 1) /\ \A b \in 0 .. (n - 1) : b # c => K[b] = L[b]
  BY DEF Lists, ButFor
<1> DEFINE F(i) == Len(f[i])
           H(i) == Len(h[i])
           l(i) == Len(L[i])
           k(i) == Len(K[i])
           d == k(c) - l(c)
           Good(i) == (c < i => H(i) = F(i) + d) /\ (~ (c < i) => H(i) = F(i))
           Bad == {i \in 1 .. n : ~ Good(i)}
<1>1. \A i \in 1 .. n : /\ F(i) \in Nat /\ l(i - 1) \in Nat
                       /\ H(i) \in Nat /\ k(i - 1) \in Nat
  <2>1. \A i \in 1 .. n : /\ f[i] \in Seq(E) /\ L[i - 1] \in Seq(E)
                         /\ h[i] \in Seq(E) /\ K[i - 1] \in Seq(E)
    BY DEF Flat
  <2> QED
    BY <2>1, LenProperties
<1>2. ASSUME NEW i \in 2 .. n
      PROVE  F(i) = F(i - 1) + l(i - 1) /\ H(i) = H(i - 1) + k(i - 1)
  <2>1. f[i] = f[i - 1] \o L[i - 1] /\ h[i] = h[i - 1] \o K[i - 1]
    BY DEF Flat
  <2>2. /\ f[i - 1] \in Seq(E) /\ L[i - 1] \in Seq(E)
        /\ h[i - 1] \in Seq(E) /\ K[i - 1] \in Seq(E)
    BY DEF Flat
  <2>3. F(i) = F(i - 1) + l(i - 1)
    BY <2>1, <2>2, ConcatProperties
  <2>4. H(i) = H(i - 1) + k(i - 1)
    BY <2>1, <2>2, ConcatProperties
  <2> QED
    BY <2>3, <2>4
<1>3. k(c) \in Nat /\ l(c) \in Nat /\ d \in Int /\ c \in Nat
  BY LenProperties
<1>4. F(1) = l(0) /\ H(1) = k(0)
  BY DEF Flat
<1>5. \A b \in 0 .. (n - 1) : b # c => k(b) = l(b)
  OBVIOUS
<1>6. Len(h[n]) = H(n) /\ Len(f[n]) = F(n) /\ d = Len(K[c]) - Len(L[c])
  OBVIOUS
<1>7. d = k(c) - l(c)
  OBVIOUS
<1> HIDE DEF F, H, l, k, d
<1>8. Good(1)
  <2>1. CASE c = 0
    BY <1>1, <1>3, <1>4, <1>7, <2>1
  <2>2. CASE c # 0
    BY <1>1, <1>3, <1>4, <1>5, <2>2
  <2> QED
    BY <2>1, <2>2
<1>9. ASSUME NEW i \in 2 .. n, Good(i - 1) PROVE Good(i)
  <2>1. i - 1 \in 1 .. n /\ i \in 1 .. n /\ i - 1 \in 0 .. (n - 1) /\ i \in Nat
    OBVIOUS
  <2>2. /\ F(i) \in Nat /\ H(i) \in Nat /\ l(i - 1) \in Nat
        /\ F(i - 1) \in Nat /\ H(i - 1) \in Nat /\ k(i - 1) \in Nat
    BY <1>1, <2>1
  <2>3. F(i) = F(i - 1) + l(i - 1) /\ H(i) = H(i - 1) + k(i - 1)
    BY <1>2
  <2>4. CASE c = i - 1
    <3>1. ~ (c < i - 1) /\ c < i
      BY <2>1, <2>4
    <3>2. H(i - 1) = F(i - 1) /\ d = k(i - 1) - l(i - 1)
      BY <1>7, <1>9, <2>4, <3>1
    <3>3. H(i) = F(i) + d
      BY <2>2, <2>3, <3>2
    <3> QED
      BY <3>1, <3>3
  <2>5. CASE c # i - 1
    <3>1. k(i - 1) = l(i - 1) /\ (c < i - 1 <=> c < i)
      BY <1>3, <1>5, <2>1, <2>5
    <3>2. H(i) = H(i - 1) + l(i - 1)
      BY <2>3, <3>1
    <3>3. c < i => H(i) = F(i) + d
      <4>1. c < i => H(i - 1) = F(i - 1) + d
        BY <1>9, <3>1
      <4> QED
        BY <1>3, <2>2, <2>3, <3>2, <4>1
    <3>4. ~ (c < i) => H(i) = F(i)
      <4>1. ~ (c < i) => H(i - 1) = F(i - 1)
        BY <1>9, <3>1
      <4> QED
        BY <2>3, <3>2, <4>1
    <3> QED
      BY <3>3, <3>4
  <2> QED
    BY <2>4, <2>5
<1> HIDE DEF Good
<1>10. Bad = {}
  <2>1. SUFFICES ASSUME Bad # {} PROVE FALSE
    OBVIOUS
  <2>2. PICK i \in Bad : \A j \in Bad : i <= j
    <3>1. Bad \subseteq Nat
      OBVIOUS
    <3> HIDE DEF Bad
    <3> QED
      BY <2>1, <3>1, Least
  <2>3. i \in 1 .. n /\ ~ Good(i)
    BY <2>2
  <2>4. i # 1
    BY <1>8, <2>3
  <2>5. i \in 2 .. n /\ i - 1 \in 1 .. n /\ ~ (i <= i - 1)
    BY <2>3, <2>4
  <2>6. i - 1 \notin Bad
    BY <2>2, <2>5
  <2> QED
    BY <1>9, <2>3, <2>5, <2>6
<1>11. n \in 1 .. n /\ c < n
  OBVIOUS
<1>12. Good(n)
  BY <1>10, <1>11
<1>13. H(n) = F(n) + d
  BY <1>11, <1>12 DEF Good
<1> QED
  BY <1>6, <1>13

-----------------------------------------------------------------------------
Entry == [key : Keys, value : Values]

In(c, x) == \E j \in 1 .. Len(c) : c[j] = x

(* A chain holds keys of its own bucket, no two of them equal. *)
Chain(c, b, n) ==
  /\ c \in Seq(Entry)
  /\ \A i \in 1 .. Len(c) : hash[c[i].key] % n = b
  /\ \A i, j \in 1 .. Len(c) : defaultEqual(c[i].key, c[j].key) => i = j

(* A map with a list of n chains, as the table keeps it. *)
IsMap(m, n) ==
  /\ m = [size |-> m.size, listSize |-> n, list |-> m.list]
  /\ m.list \in [0 .. (n - 1) -> Seq(Entry)]
  /\ \A b \in 0 .. (n - 1) : Chain(m.list[b], b, n)
  /\ m.size = Len(Chained(m))

Sane == hash \in [Keys -> Nat]

LEMMA MapLists ==
  ASSUME NEW n \in Nat \ {0}, NEW m, IsMap(m, n)
  PROVE  /\ m.listSize = n /\ Lists(n, Entry, m.list) /\ Chained(m) = Joined(n, m.list)
         /\ DOMAIN m.list = 0 .. (n - 1)
<1>1. m.listSize = n /\ m.list \in [0 .. (n - 1) -> Seq(Entry)]
  BY DEF IsMap
<1> QED
  BY <1>1 DEF Lists, Chained, Joined

LEMMA MapFields ==
  ASSUME NEW n \in Nat \ {0}, NEW m, IsMap(m, n)
  PROVE  m.size \in Nat /\ Chained(m) \in Seq(Entry)
<1>1. Chained(m) \in Seq(Entry)
  BY MapLists, JoinedIs
<1> QED
  BY <1>1, LenProperties DEF IsMap

LEMMA StoredIs ==
  ASSUME NEW n \in Nat \ {0}, NEW m, IsMap(m, n)
  PROVE  /\ Range(Chained(m)) = Stored(m)
         /\ \A x : x \in Stored(m) <=> \E b \in 0 .. (n - 1) : In(m.list[b], x)
<1>1. m.listSize = n /\ m.list \in [0 .. (n - 1) -> Seq(Entry)] /\ DOMAIN m.list = 0 .. (n - 1)
  BY MapLists DEF IsMap
<1>2. Range(Chained(m)) = UNION {Range(m.list[b]) : b \in 0 .. (n - 1)}
  BY MapLists, JoinedIs
<1>3. \A b \in 0 .. (n - 1) : DOMAIN m.list[b] = 1 .. Len(m.list[b])
  BY <1>1, LenProperties
<1>4. Stored(m) = UNION {Range(m.list[b]) : b \in 0 .. (n - 1)}
  BY <1>1, Zenon DEF Stored, Range
<1>5. \A x : x \in Stored(m) <=>
        \E b \in 0 .. (n - 1) : \E i \in DOMAIN m.list[b] : m.list[b][i] = x
  <2>1. Stored(m) = UNION {{m.list[b][i] : i \in DOMAIN m.list[b]} : b \in 0 .. (n - 1)}
    BY <1>1, Zenon DEF Stored
  <2> QED
    BY <2>1
<1>6. \A x : x \in Stored(m) <=> \E b \in 0 .. (n - 1) : In(m.list[b], x)
  BY <1>3, <1>5, Zenon DEF In
<1> QED
  BY <1>2, <1>4, <1>6, Zenon

(* Find is the place of the entry with an equal key, if there is one. *)
LEMMA FindIs ==
  ASSUME NEW n \in Nat \ {0}, NEW m, IsMap(m, n), Sane, NEW k \in Keys
  PROVE  LET b == hash[k] % n
             c == m.list[b]
         IN  /\ b \in 0 .. (n - 1) /\ hashCode(m, k) = b
             /\ Chain(c, b, n) /\ Len(c) \in Nat
             /\ Find(m, k) \in 0 .. Len(c)
             /\ Find(m, k) # 0 => defaultEqual(c[Find(m, k)].key, k)
             /\ Find(m, k) = 0 => ~ \E i \in 1 .. Len(c) : defaultEqual(c[i].key, k)
<1> DEFINE b == hash[k] % n
           c == m.list[b]
           I == {i \in 1 .. Len(c) : defaultEqual(c[i].key, k)}
<1>1. m.listSize = n /\ hash[k] \in Nat /\ b \in 0 .. (n - 1)
  BY DEF Sane, IsMap
<1>2. hashCode(m, k) = b
  BY <1>1 DEF hashCode
<1>3. Chain(c, b, n) /\ Len(c) \in Nat
  BY <1>1, LenProperties DEF IsMap, Chain
<1>4. Find(m, k) = IF I # {} THEN Min(I) ELSE 0
  BY <1>2, Zenon DEF Find, SelectInSeq
<1> HIDE DEF b, c
<1>5. CASE I = {}
  <2>1. Find(m, k) = 0 /\ Find(m, k) \in 0 .. Len(c)
    BY <1>3, <1>4, <1>5
  <2>2. \A i \in 1 .. Len(c) : ~ defaultEqual(c[i].key, k)
    BY <1>5
  <2> QED
    BY <1>1, <1>2, <1>3, <2>1, <2>2 DEF b, c
<1>6. CASE I # {}
  <2>1. I \subseteq Nat
    OBVIOUS
  <2> HIDE DEF I
  <2>2. \E i \in I : \A j \in I : i <= j
    BY <1>6, <2>1, Least
  <2>3. Min(I) \in I
    BY <2>2, Zenon DEF Min
  <2>4. Find(m, k) \in 1 .. Len(c) /\ defaultEqual(c[Find(m, k)].key, k)
    BY <1>4, <1>6, <2>3 DEF I
  <2> QED
    BY <1>1, <1>2, <1>3, <2>4 DEF b, c
<1> QED
  BY <1>5, <1>6
-----------------------------------------------------------------------------
(* What becomes of a chain. *)

(* k is the chain c with y, which has the key and the value of e, in place *)
(* of what has an equal key.                                               *)
Gains(c, b, n, e, k, y) ==
  /\ Chain(k, b, n)
  /\ y \in Entry /\ defaultEqual(y.key, e.key) /\ y.value = e.value
  /\ \A x : In(k, x) <=> (In(c, x) /\ ~ defaultEqual(x.key, e.key)) \/ x = y

Replaced(c, i, e) == [c EXCEPT ![i].value = e.value]

LEMMA ReplaceChain ==
  ASSUME NEW c, NEW b, NEW n, Chain(c, b, n), NEW e \in Entry,
         NEW i \in 1 .. Len(c), defaultEqual(c[i].key, e.key),
         NEW k, k = Replaced(c, i, e)
  PROVE  Len(k) = Len(c) /\ \E y : Gains(c, b, n, e, k, y)
<1> DEFINE y == [key |-> c[i].key, value |-> e.value]
<1>1. c \in Seq(Entry) /\ Len(c) \in Nat /\ c[i] \in Entry
  BY DEF Chain
<1>2. y \in Entry /\ [c[i] EXCEPT !.value = e.value] = y
  <2>1. c[i] = [key |-> c[i].key, value |-> c[i].value] /\ c[i].key \in Keys
    BY <1>1 DEF Entry
  <2>2. y \in Entry
    BY <2>1 DEF Entry
  <2>3. [c[i] EXCEPT !.value = e.value] = y
    BY <2>1
  <2> QED
    BY <2>2, <2>3
<1>3. k = [c EXCEPT ![i] = y]
  BY <1>1, <1>2 DEF Replaced
<1>4. k \in Seq(Entry) /\ Len(k) = Len(c)
  BY <1>1, <1>2, <1>3
<1>5. \A j \in 1 .. Len(c) : k[j] = IF j = i THEN y ELSE c[j]
  BY <1>1, <1>3
<1>6. \A j \in 1 .. Len(c) : k[j].key = c[j].key
  BY <1>5
<1>7. Chain(k, b, n)
  BY <1>4, <1>6 DEF Chain
<1>8. \A j \in 1 .. Len(c) : j # i => ~ defaultEqual(c[j].key, e.key)
  BY DEF Chain, defaultEqual
<1>9. ASSUME NEW x PROVE In(k, x) <=> (In(c, x) /\ ~ defaultEqual(x.key, e.key)) \/ x = y
  BY <1>4, <1>5, <1>8 DEF In
<1>10. defaultEqual(y.key, e.key) /\ y.value = e.value
  OBVIOUS
<1> HIDE DEF y
<1>11. Gains(c, b, n, e, k, y)
  BY <1>2, <1>7, <1>9, <1>10, Zenon DEF Gains
<1> QED
  BY <1>4, <1>11

(* k is c with e put at place p. *)
Longer(c, k, p, e) ==
  /\ p \in 1 .. (Len(c) + 1) /\ k \in Seq(Entry) /\ Len(k) = Len(c) + 1
  /\ \A j \in 1 .. (p - 1) : k[j] = c[j]
  /\ k[p] = e
  /\ \A j \in (p + 1) .. Len(k) : k[j] = c[j - 1]

LEMMA InsertSecond ==
  ASSUME NEW c \in Seq(Entry), NEW e \in Entry, c # <<>>, NEW k, k = InsertAt(c, 2, e)
  PROVE  Longer(c, k, 2, e)
<1> DEFINE h == SubSeq(c, 1, 1)
           t == SubSeq(c, 2, Len(c))
           g == h \o <<e>>
<1>1. Len(c) \in Nat /\ Len(c) >= 1 /\ \A j \in 1 .. Len(c) : c[j] \in Entry
  OBVIOUS
<1>2. h \in Seq(Entry) /\ Len(h) = 1 /\ h[1] = c[1]
  <2>1. \A j \in 1 .. 1 : c[j] \in Entry
    BY <1>1
  <2>2. /\ h \in Seq(Entry) /\ Len(h) = IF 1 <= 1 THEN 1 - 1 + 1 ELSE 0
        /\ \A j \in 1 .. 1 - 1 + 1 : h[j] = c[1 + j - 1]
    BY <2>1, SubSeqProperties
  <2> QED
    BY <2>2
<1>3. t \in Seq(Entry) /\ Len(t) = Len(c) - 1 /\ \A j \in 1 .. (Len(c) - 1) : t[j] = c[j + 1]
  <2>1. \A j \in 2 .. Len(c) : c[j] \in Entry
    BY <1>1
  <2>2. /\ t \in Seq(Entry) /\ Len(t) = IF 2 <= Len(c) THEN Len(c) - 2 + 1 ELSE 0
        /\ \A j \in 1 .. Len(c) - 2 + 1 : t[j] = c[2 + j - 1]
    BY <1>1, <2>1, SubSeqProperties
  <2>3. Len(t) = Len(c) - 1
    <3>1. CASE 2 <= Len(c)
      BY <1>1, <2>2, <3>1
    <3>2. CASE ~ (2 <= Len(c))
      <4>1. \A q \in Nat : q >= 1 /\ ~ (2 <= q) => q = 1
        OBVIOUS
      <4> HIDE DEF t, h, g
      <4>2. Len(c) = 1
        BY <1>1, <3>2, <4>1, Zenon
      <4>3. Len(t) = 0
        BY <2>2, <3>2, Zenon
      <4> QED
        BY <4>2, <4>3
    <3> QED
      BY <3>1, <3>2
  <2>4. \A j \in 1 .. (Len(c) - 1) : 2 + j - 1 = j + 1 /\ j \in 1 .. Len(c) - 2 + 1
    BY <1>1
  <2> QED
    BY <2>2, <2>3, <2>4
<1>4. k = g \o t
  BY DEF InsertAt
<1>5. <<e>> \in Seq(Entry) /\ Len(<<e>>) = 1 /\ <<e>>[1] = e
  OBVIOUS
<1> HIDE DEF h, t
<1>6. /\ g \in Seq(Entry) /\ Len(g) = Len(h) + Len(<<e>>)
      /\ \A j \in 1 .. Len(h) + Len(<<e>>) :
           g[j] = IF j <= Len(h) THEN h[j] ELSE <<e>>[j - Len(h)]
  <2>1. h \in Seq(Entry)
    BY <1>2
  <2> QED
    BY <1>5, <2>1, ConcatProperties
<1>7. g \in Seq(Entry) /\ Len(g) = 2 /\ g[1] = c[1] /\ g[2] = e
  BY <1>2, <1>5, <1>6
<1> HIDE DEF g
<1>8. /\ k \in Seq(Entry) /\ Len(k) = Len(g) + Len(t)
      /\ \A j \in 1 .. Len(g) + Len(t) : k[j] = IF j <= Len(g) THEN g[j] ELSE t[j - Len(g)]
  <2>1. g \in Seq(Entry) /\ t \in Seq(Entry)
    BY <1>3, <1>7
  <2> QED
    BY <1>4, <2>1, ConcatProperties, ZenonT(60)
<1>9. Len(k) = Len(c) + 1
  BY <1>1, <1>3, <1>7, <1>8
<1>10. k[1] = c[1] /\ k[2] = e
  <2>1. /\ 1 \in 1 .. Len(g) + Len(t) /\ 1 <= Len(g)
        /\ 2 \in 1 .. Len(g) + Len(t) /\ 2 <= Len(g)
    BY <1>1, <1>3, <1>7
  <2> QED
    BY <1>7, <1>8, <2>1
<1>11. ASSUME NEW j \in 3 .. Len(k) PROVE k[j] = c[j - 1]
  <2>1. j \in 1 .. Len(g) + Len(t) /\ ~ (j <= Len(g))
    BY <1>1, <1>3, <1>7, <1>9
  <2>2. k[j] = t[j - 2]
    BY <1>7, <1>8, <2>1
  <2>3. j - 2 \in 1 .. (Len(c) - 1) /\ (j - 2) + 1 = j - 1
    BY <1>1, <1>9
  <2> QED
    BY <1>3, <2>2, <2>3
<1> QED
  BY <1>1, <1>8, <1>9, <1>10, <1>11 DEF Longer

LEMMA LongerChain ==
  ASSUME NEW c, NEW b, NEW n, Chain(c, b, n), NEW e \in Entry, hash[e.key] % n = b,
         ~ \E j \in 1 .. Len(c) : defaultEqual(c[j].key, e.key),
         NEW p, NEW k, Longer(c, k, p, e)
  PROVE  Gains(c, b, n, e, k, e)
<1> DEFINE at(j) == IF j < p THEN j ELSE j - 1
<1>1. /\ Len(c) \in Nat /\ c \in Seq(Entry) /\ Len(k) \in Nat
      /\ p \in 1 .. (Len(c) + 1) /\ k \in Seq(Entry) /\ Len(k) = Len(c) + 1
  BY DEF Chain, Longer
<1>2. \A j \in 1 .. Len(k) : j # p => at(j) \in 1 .. Len(c) /\ k[j] = c[at(j)]
  BY <1>1 DEF Longer
<1>3. k[p] = e /\ p \in 1 .. Len(k)
  BY <1>1 DEF Longer
<1>4. \A i, j \in 1 .. Len(k) : i # p /\ j # p /\ at(i) = at(j) => i = j
  BY <1>1
<1>5. \A j \in 1 .. Len(c) : \E i \in 1 .. Len(k) : i # p /\ at(i) = j
  <2> SUFFICES ASSUME NEW j \in 1 .. Len(c) PROVE \E i \in 1 .. Len(k) : i # p /\ at(i) = j
    OBVIOUS
  <2>1. CASE j < p
    BY <1>1, <2>1
  <2>2. CASE ~ (j < p)
    <3>1. j + 1 \in 1 .. Len(k) /\ j + 1 # p /\ at(j + 1) = j
      BY <1>1, <2>2
    <3> QED
      BY <3>1
  <2> QED
    BY <2>1, <2>2
<1> HIDE DEF at
<1>6. \A j \in 1 .. Len(k) : hash[k[j].key] % n = b
  BY <1>2, <1>3 DEF Chain
<1>7. \A i, j \in 1 .. Len(k) : defaultEqual(k[i].key, k[j].key) => i = j
  <2> SUFFICES ASSUME NEW i \in 1 .. Len(k), NEW j \in 1 .. Len(k),
                      defaultEqual(k[i].key, k[j].key)
               PROVE  i = j
    OBVIOUS
  <2>1. CASE i # p /\ j # p
    BY <1>2, <1>4, <2>1 DEF Chain
  <2>2. CASE i = p /\ j # p
    BY <1>2, <1>3, <2>2 DEF defaultEqual
  <2>3. CASE i # p /\ j = p
    BY <1>2, <1>3, <2>3 DEF defaultEqual
  <2> QED
    BY <2>1, <2>2, <2>3
<1>8. Chain(k, b, n)
  BY <1>1, <1>6, <1>7 DEF Chain
<1>9. \A x : In(k, x) <=> In(c, x) \/ x = e
  BY <1>2, <1>3, <1>5 DEF In
<1>10. \A x : In(c, x) => ~ defaultEqual(x.key, e.key)
  BY DEF In
<1>11. defaultEqual(e.key, e.key)
  BY DEF defaultEqual
<1> QED
  BY <1>8, <1>9, <1>10, <1>11 DEF Gains

LEMMA ShorterChain ==
  ASSUME NEW c, NEW b, NEW n, Chain(c, b, n), NEW i \in 1 .. Len(c),
         NEW k, k = RemoveAt(c, i)
  PROVE  /\ Chain(k, b, n) /\ Len(k) = Len(c) - 1
         /\ \A x : In(k, x) <=> In(c, x) /\ ~ defaultEqual(x.key, c[i].key)
<1> DEFINE at(j) == IF j < i THEN j ELSE j + 1
           l == SubSeq(c, 1, i - 1)
           r == SubSeq(c, i + 1, Len(c))
<1>1. Len(c) \in Nat /\ c \in Seq(Entry)
  BY DEF Chain
<1>2. l \in Seq(Entry) /\ Len(l) = i - 1 /\ \A j \in 1 .. (i - 1) : l[j] = c[j]
  <2>1. \A j \in 1 .. (i - 1) : c[j] \in Entry
    BY <1>1
  <2>2. /\ l \in Seq(Entry) /\ Len(l) = IF 1 <= i - 1 THEN (i - 1) - 1 + 1 ELSE 0
        /\ \A j \in 1 .. (i - 1) - 1 + 1 : l[j] = c[1 + j - 1]
    BY <2>1, SubSeqProperties
  <2> QED
    BY <2>2
<1>3. r \in Seq(Entry) /\ Len(r) = Len(c) - i /\ \A j \in 1 .. (Len(c) - i) : r[j] = c[i + j]
  <2>1. \A j \in (i + 1) .. Len(c) : c[j] \in Entry
    BY <1>1
  <2>2. /\ r \in Seq(Entry) /\ Len(r) = IF i + 1 <= Len(c) THEN Len(c) - (i + 1) + 1 ELSE 0
        /\ \A j \in 1 .. Len(c) - (i + 1) + 1 : r[j] = c[(i + 1) + j - 1]
    BY <1>1, <2>1, SubSeqProperties
  <2>3. \A j \in 1 .. (Len(c) - i) : (i + 1) + j - 1 = i + j /\ j \in 1 .. Len(c) - (i + 1) + 1
    BY <1>1
  <2> QED
    BY <1>1, <2>2, <2>3
<1>4. k = l \o r
  BY DEF RemoveAt
<1> HIDE DEF l, r
<1>5. /\ k \in Seq(Entry) /\ Len(k) = Len(l) + Len(r)
      /\ \A j \in 1 .. Len(l) + Len(r) : k[j] = IF j <= Len(l) THEN l[j] ELSE r[j - Len(l)]
  <2>1. l \in Seq(Entry) /\ r \in Seq(Entry)
    BY <1>2, <1>3
  <2> QED
    BY <1>4, <2>1, ConcatProperties, ZenonT(60)
<1>6. Len(k) = Len(c) - 1
  BY <1>1, <1>2, <1>3, <1>5
<1>7. \A j \in 1 .. Len(k) : at(j) \in 1 .. Len(c) /\ at(j) # i /\ k[j] = c[at(j)]
  <2> SUFFICES ASSUME NEW j \in 1 .. Len(k)
               PROVE  at(j) \in 1 .. Len(c) /\ at(j) # i /\ k[j] = c[at(j)]
    OBVIOUS
  <2>1. CASE j < i
    <3>1. k[j] = l[j] /\ l[j] = c[j]
      BY <1>1, <1>2, <1>5, <1>6, <2>1
    <3> QED
      BY <1>1, <1>6, <2>1, <3>1
  <2>2. CASE ~ (j < i)
    <3>1. k[j] = r[j - (i - 1)] /\ j - (i - 1) \in 1 .. (Len(c) - i) /\ i + (j - (i - 1)) = j + 1
      BY <1>1, <1>2, <1>5, <1>6, <2>2
    <3>2. k[j] = c[j + 1]
      BY <1>3, <3>1
    <3> QED
      BY <1>1, <1>6, <2>2, <3>2
  <2> QED
    BY <2>1, <2>2
<1>8. \A j, h \in 1 .. Len(k) : at(j) = at(h) => j = h
  BY <1>1, <1>6
<1>9. \A j \in 1 .. Len(c) : j # i => \E h \in 1 .. Len(k) : at(h) = j
  <2> SUFFICES ASSUME NEW j \in 1 .. Len(c), j # i PROVE \E h \in 1 .. Len(k) : at(h) = j
    OBVIOUS
  <2>1. CASE j < i
    BY <1>1, <1>6, <2>1
  <2>2. CASE ~ (j < i)
    <3>1. j - 1 \in 1 .. Len(k) /\ at(j - 1) = j
      BY <1>1, <1>6, <2>2
    <3> QED
      BY <3>1
  <2> QED
    BY <2>1, <2>2
<1> HIDE DEF at
<1>10. Chain(k, b, n)
  <2>1. \A j \in 1 .. Len(k) : hash[k[j].key] % n = b
    BY <1>7 DEF Chain
  <2>2. \A j, h \in 1 .. Len(k) : defaultEqual(k[j].key, k[h].key) => j = h
    <3>1. \A j, h \in 1 .. Len(c) : defaultEqual(c[j].key, c[h].key) => j = h
      BY DEF Chain
    <3> QED
      BY <1>7, <1>8, <3>1
  <2> QED
    BY <1>5, <2>1, <2>2 DEF Chain
<1>11. \A j \in 1 .. Len(c) : j # i => ~ defaultEqual(c[j].key, c[i].key)
  BY DEF Chain
<1>12. ASSUME NEW x PROVE In(k, x) <=> In(c, x) /\ ~ defaultEqual(x.key, c[i].key)
  <2>1. In(k, x) => In(c, x) /\ ~ defaultEqual(x.key, c[i].key)
    BY <1>7, <1>11 DEF In
  <2>2. In(c, x) /\ ~ defaultEqual(x.key, c[i].key) => In(k, x)
    <3>1. defaultEqual(c[i].key, c[i].key)
      BY DEF defaultEqual
    <3> QED
      BY <1>7, <1>9, <3>1 DEF In
  <2> QED
    BY <2>1, <2>2
<1> QED
  BY <1>6, <1>10, <1>12
-----------------------------------------------------------------------------
(* What becomes of a map. *)
Rechained(m, n, b, k) ==
  [size |-> m.size + (Len(k) - Len(m.list[b])), listSize |-> n,
   list |-> [m.list EXCEPT ![b] = k]]

(* One chain that is changed adds what it got longer to the size. *)
LEMMA ChangedSize ==
  ASSUME NEW n \in Nat \ {0}, NEW m, IsMap(m, n), NEW c \in 0 .. (n - 1),
         NEW k, Chain(k, c, n), NEW x, x = Rechained(m, n, c, k)
  PROVE  Len(Chained(x)) = x.size
<1> /\ k \in Seq(Entry) /\ x.listSize = n /\ x.list = [m.list EXCEPT ![c] = k]
    /\ x.size = m.size + (Len(k) - Len(m.list[c]))
  BY DEF Chain, Rechained
<1> DEFINE L == m.list
           K == x.list
<1>1. Lists(n, Entry, L) /\ L \in [0 .. (n - 1) -> Seq(Entry)] /\ Chained(m) = Joined(n, L)
  BY MapLists DEF IsMap
<1>2. K \in [0 .. (n - 1) -> Seq(Entry)] /\ K[c] = k /\ \A b \in 0 .. (n - 1) : b # c => K[b] = L[b]
  BY <1>1
<1>3. Chained(x) = Joined(n, K)
  BY DEF Chained, Joined
<1> HIDE DEF L, K
<1>4. Lists(n, Entry, K) /\ ButFor(n, K, L, c)
  BY <1>2 DEF Lists, ButFor
<1>5. Len(Joined(n, K)) = Len(Joined(n, L)) + (Len(K[c]) - Len(L[c]))
  <2>1. Lists(n, Entry, L)
    BY <1>1
  <2>2. Lists(n, Entry, K)
    BY <1>4
  <2>3. ButFor(n, K, L, c)
    BY <1>4
  <2> QED
    BY ONLY <2>1, <2>2, <2>3, JoinedLen
<1> QED
  BY <1>1, <1>2, <1>3, <1>5 DEF IsMap, L

LEMMA RechainedMap ==
  ASSUME NEW n \in Nat \ {0}, NEW m, IsMap(m, n), NEW b \in 0 .. (n - 1),
         NEW k, Chain(k, b, n), NEW x, x = Rechained(m, n, b, k)
  PROVE  /\ IsMap(x, n)
         /\ \A e : In(m.list[b], e) <=> e \in Stored(m) /\ hash[e.key] % n = b
         /\ \A e : e \in Stored(x) <=> (e \in Stored(m) /\ hash[e.key] % n # b) \/ In(k, e)
<1>1. /\ m.list \in [0 .. (n - 1) -> Seq(Entry)] /\ k \in Seq(Entry)
      /\ \A a \in 0 .. (n - 1) : Chain(m.list[a], a, n)
  BY DEF IsMap, Chain
<1>2. /\ x.size = m.size + (Len(k) - Len(m.list[b])) /\ x.listSize = n
      /\ x.list = [m.list EXCEPT ![b] = k]
      /\ x = [size |-> x.size, listSize |-> n, list |-> x.list]
  BY DEF Rechained
<1>3. /\ x.list \in [0 .. (n - 1) -> Seq(Entry)]
      /\ \A a \in 0 .. (n - 1) : x.list[a] = IF a = b THEN k ELSE m.list[a]
  BY <1>1, <1>2
<1>4. x.size = Len(Chained(x))
  BY ChangedSize
<1>5. \A a \in 0 .. (n - 1) : Chain(x.list[a], a, n)
  BY <1>1, <1>3
<1>6. IsMap(x, n)
  BY <1>2, <1>3, <1>4, <1>5 DEF IsMap
<1>7. \A e : e \in Stored(m) <=> \E a \in 0 .. (n - 1) : In(m.list[a], e)
  BY StoredIs
<1>8. \A e : e \in Stored(x) <=> \E a \in 0 .. (n - 1) : In(x.list[a], e)
  BY <1>6, StoredIs
<1>9. \A a \in 0 .. (n - 1) : \A e : In(m.list[a], e) => hash[e.key] % n = a
  BY <1>1 DEF Chain, In
<1> HIDE DEF In
<1>10. ASSUME NEW e PROVE In(m.list[b], e) <=> e \in Stored(m) /\ hash[e.key] % n = b
  BY <1>7, <1>9
<1>11. ASSUME NEW e
       PROVE  e \in Stored(x) <=> (e \in Stored(m) /\ hash[e.key] % n # b) \/ In(k, e)
  <2>1. e \in Stored(x) <=> In(k, e) \/ \E a \in 0 .. (n - 1) : a # b /\ In(m.list[a], e)
    BY <1>3, <1>8
  <2>2. (\E a \in 0 .. (n - 1) : a # b /\ In(m.list[a], e))
        <=> e \in Stored(m) /\ hash[e.key] % n # b
    BY <1>7, <1>9
  <2> QED
    BY <2>1, <2>2
<1> QED
  BY <1>6, <1>10, <1>11

LEMMA DistinctKeys ==
  ASSUME Distinct, NEW k1 \in Keys, NEW k2 \in Keys
  PROVE  defaultEqual(k1, k2) <=> k1 = k2
  BY DEF Distinct, defaultEqual

LEMMA MapEntries ==
  ASSUME NEW n \in Nat \ {0}, NEW m, IsMap(m, n), NEW e \in Stored(m)
  PROVE  e \in Entry
<1>1. \A a \in 0 .. (n - 1) : m.list[a] \in Seq(Entry)
  BY DEF IsMap
<1>2. PICK a \in 0 .. (n - 1) : \E i \in 1 .. Len(m.list[a]) : m.list[a][i] = e
  BY StoredIs DEF In
<1>3. PICK i \in 1 .. Len(m.list[a]) : m.list[a][i] = e
  BY <1>2
<1> QED
  BY <1>1, <1>3, ElementOfSeq

(* What the assignments to a map amount to. *)
Fields(m, s, n, L) == m = [size |-> s, listSize |-> n, list |-> L]

LEMMA SetSize ==
  ASSUME NEW s, NEW n, NEW L, NEW v, NEW m, Fields(m, s, n, L)
  PROVE Fields([m EXCEPT !.size = v], v, n, L)
<1> USE DEF Fields
<1> DEFINE x == [m EXCEPT !.size = v]
           y == [size |-> v, listSize |-> n, list |-> L]
<1>1. y = [f \in {"size", "list", "listSize"} |-> IF f = "size" THEN v
                                                  ELSE IF f = "list" THEN L ELSE n]
  OBVIOUS
<1>2. x = [f \in {"size", "list", "listSize"} |-> IF f = "size" THEN v
                                                  ELSE IF f = "list" THEN L ELSE n]
  OBVIOUS
<1> QED
  BY <1>1, <1>2

LEMMA SetList ==
  ASSUME NEW s, NEW n, NEW L, NEW v, NEW m, Fields(m, s, n, L)
  PROVE Fields([m EXCEPT !.list = v], s, n, v)
<1> USE DEF Fields
<1> DEFINE x == [m EXCEPT !.list = v]
           y == [size |-> s, listSize |-> n, list |-> v]
<1>1. y = [f \in {"size", "list", "listSize"} |-> IF f = "size" THEN s
                                                  ELSE IF f = "list" THEN v ELSE n]
  OBVIOUS
<1>2. x = [f \in {"size", "list", "listSize"} |-> IF f = "size" THEN s
                                                  ELSE IF f = "list" THEN v ELSE n]
  OBVIOUS
<1> QED
  BY <1>1, <1>2

LEMMA SetBoth ==
  ASSUME NEW s, NEW n, NEW L, NEW v, NEW w, NEW m, Fields(m, s, n, L)
  PROVE Fields([m EXCEPT !.size = v, !.list = w], v, n, w)
<1>1. [m EXCEPT !.size = v, !.list = w] = [[m EXCEPT !.size = v] EXCEPT !.list = w]
  BY Zenon
<1>2. Fields([m EXCEPT !.size = v], v, n, L)
  BY SetSize, Zenon
<1>3. Fields([[m EXCEPT !.size = v] EXCEPT !.list = w], v, n, w)
  BY <1>2, SetList, Zenon
<1> QED
  BY <1>1, <1>3, Zenon

LEMMA Assigned ==
  ASSUME NEW s, NEW n, NEW L, NEW b, NEW k, NEW v,
         NEW m, Fields(m, s, n, L),
         NEW i
  PROVE  /\ Fields([m EXCEPT !.size = @ + 1, !.list[b] = k], s + 1, n, [L EXCEPT ![b] = k])
         /\ Fields([m EXCEPT !.size = @ - 1, !.list[b] = k], s - 1, n, [L EXCEPT ![b] = k])
         /\ Fields([m EXCEPT !.list[b][i].value = v], s, n,
                   [L EXCEPT ![b] = [L[b] EXCEPT ![i].value = v]])
<1>1. m.size = s /\ m.list = L
  BY DEF Fields
<1>2. [m EXCEPT !.size = @ + 1, !.list[b] = k] =
       [m EXCEPT !.size = s + 1, !.list = [L EXCEPT ![b] = k]]
  BY <1>1, Zenon
<1>3. [m EXCEPT !.size = @ - 1, !.list[b] = k] =
       [m EXCEPT !.size = s - 1, !.list = [L EXCEPT ![b] = k]]
  BY <1>1, Zenon
<1>4. [m EXCEPT !.list[b][i].value = v] =
       [m EXCEPT !.list = [L EXCEPT ![b] = [L[b] EXCEPT ![i].value = v]]]
  BY <1>1, Zenon
<1>5. Fields([m EXCEPT !.size = s + 1, !.list = [L EXCEPT ![b] = k]], s + 1, n, [L EXCEPT ![b] = k])
  BY SetBoth, Zenon
<1>6. Fields([m EXCEPT !.size = s - 1, !.list = [L EXCEPT ![b] = k]], s - 1, n, [L EXCEPT ![b] = k])
  BY SetBoth, Zenon
<1>7. Fields([m EXCEPT !.list = [L EXCEPT ![b] = [L[b] EXCEPT ![i].value = v]]], s, n,
             [L EXCEPT ![b] = [L[b] EXCEPT ![i].value = v]])
  BY SetList, Zenon
<1> QED
  BY <1>2, <1>3, <1>4, <1>5, <1>6, <1>7, Zenon

(* A chain with one more entry, or another value. *)
LEMMA InsertOne ==
  ASSUME NEW n \in Nat \ {0}, NEW m, IsMap(m, n), Sane, NEW e \in Entry,
         NEW b, b = hash[e.key] % n, NEW c, c = m.list[b]
  PROVE  /\ b \in 0 .. (n - 1) /\ Len(c) \in Nat
         /\ \E k, y : /\ Gains(c, b, n, e, k, y)
                      /\ Len(k) \in {Len(c), Len(c) + 1}
                      /\ Insert(m, e) = Rechained(m, n, b, k)
<1> DEFINE i == Find(m, e.key)
<1>1. e.key \in Keys /\ e.value \in Values /\ e = [key |-> e.key, value |-> e.value]
  BY DEF Entry
<1>2. /\ b \in 0 .. (n - 1) /\ hashCode(m, e.key) = b
      /\ Chain(c, b, n) /\ Len(c) \in Nat
      /\ i \in 0 .. Len(c)
      /\ i # 0 => defaultEqual(c[i].key, e.key)
      /\ i = 0 => ~ \E j \in 1 .. Len(c) : defaultEqual(c[j].key, e.key)
  BY <1>1, FindIs
<1>3. Fields(m, m.size, n, m.list) /\ m.size \in Nat
  BY MapFields DEF IsMap, Fields
<1>4. CASE i # 0
  <2> DEFINE k == Replaced(c, i, e)
  <2>1. Insert(m, e) = [m EXCEPT !.list[b][i].value = e.value]
    <3>1. hashCode(m, e.key) = b
      BY <1>2
    <3> QED
      BY <1>4, <3>1, Zenon DEF Insert
  <2>2. i \in 1 .. Len(c) /\ defaultEqual(c[i].key, e.key)
    <3>1. i \in 0 .. Len(c) /\ defaultEqual(c[i].key, e.key)
      BY <1>2, <1>4, Zenon
    <3>2. Len(c) \in Nat
      BY <1>2
    <3> HIDE DEF i
    <3> QED
      BY <1>4, <3>1, <3>2
  <2> HIDE DEF i
  <2>3. Fields([m EXCEPT !.list[b][i].value = e.value], m.size, n, [m.list EXCEPT ![b] = k])
    BY <1>3, Assigned, Zenon DEF Replaced
  <2>4. Len(k) = Len(c) /\ \E y : Gains(c, b, n, e, k, y)
    <3>1. Chain(c, b, n)
      BY <1>2
    <3>2. i \in 1 .. Len(c)
      BY <2>2
    <3>3. defaultEqual(c[i].key, e.key)
      BY <2>2
    <3>4. e \in Entry
      OBVIOUS
    <3> HIDE DEF k
    <3>5. k = Replaced(c, i, e)
      BY DEF k
    <3> QED
      BY ONLY <3>1, <3>2, <3>3, <3>4, <3>5, ReplaceChain
  <2> HIDE DEF k
  <2>5. m.size = m.size + (Len(k) - Len(m.list[b]))
    <3>1. m.size \in Nat /\ Len(c) \in Nat /\ Len(k) = Len(m.list[b]) /\ Len(k) = Len(c)
      BY <1>2, <1>3, <2>4, Zenon
    <3> QED
      BY <3>1
  <2>6. Insert(m, e) = Rechained(m, n, b, k)
    BY <2>1, <2>3, <2>5, Zenon DEF Rechained, Fields
  <2> QED
    BY <1>2, <2>4, <2>6
<1>5. CASE i = 0
  <2> DEFINE k == IF c = <<>> THEN <<e>> ELSE InsertAt(c, 2, e)
             p == IF c = <<>> THEN 1 ELSE 2
  <2>1. Insert(m, e) = [m EXCEPT !.size = @ + 1, !.list[b] = k]
    BY <1>2, <1>5 DEF Insert
  <2>2. Longer(c, k, p, e)
    <3>1. c \in Seq(Entry)
      BY <1>2 DEF Chain
    <3>2. CASE c = <<>>
      BY <3>2 DEF Longer
    <3>3. CASE c # <<>>
      BY <3>1, <3>3, InsertSecond
    <3> QED
      BY <3>2, <3>3
  <2> HIDE DEF k, p, i
  <2>3. Fields([m EXCEPT !.size = @ + 1, !.list[b] = k], m.size + 1, n, [m.list EXCEPT ![b] = k])
    BY <1>3, Assigned, Zenon
  <2>4. Gains(c, b, n, e, k, e)
    BY <1>2, <1>5, <2>2, LongerChain
  <2>5. Len(k) = Len(c) + 1
    BY <2>2 DEF Longer
  <2>6. m.size + 1 = m.size + (Len(k) - Len(m.list[b]))
    <3>1. c \in Seq(Entry) /\ m.list[b] = c
      BY <1>2, Zenon DEF Chain
    <3>2. Len(c) \in Nat /\ m.size \in Nat
      BY <1>3, <3>1
    <3>3. \A x, y \in Nat : x + 1 = x + ((y + 1) - y)
      OBVIOUS
    <3> QED
      BY <2>5, <3>1, <3>2, <3>3, Zenon
  <2>7. Insert(m, e) = Rechained(m, n, b, k)
    BY <2>1, <2>3, <2>6, Zenon DEF Rechained, Fields
  <2> QED
    BY <1>2, <2>4, <2>5, <2>7
<1> QED
  BY <1>4, <1>5

(* Insert keeps a map a map and, when the prefixes tell the keys apart,    *)
(* gives the key the value, and leaves the others.                         *)
LEMMA InsertMap ==
  ASSUME NEW n \in Nat \ {0}, NEW m, IsMap(m, n), Sane, NEW e \in Entry
  PROVE  /\ IsMap(Insert(m, e), n)
         /\ Insert(m, e).size \in {m.size, m.size + 1}
         /\ Distinct => \A x : x \in Stored(Insert(m, e))
                               <=> (x \in Stored(m) /\ x.key # e.key) \/ x = e
<1> DEFINE b == hash[e.key] % n
           c == m.list[b]
<1>1. PICK k, y : /\ b \in 0 .. (n - 1) /\ Len(c) \in Nat
                  /\ Gains(c, b, n, e, k, y)
                  /\ Len(k) \in {Len(c), Len(c) + 1}
                  /\ Insert(m, e) = Rechained(m, n, b, k)
  BY InsertOne
<1> DEFINE X == Insert(m, e)
<1>2. X = Rechained(m, n, b, k) /\ X.size = m.size + (Len(k) - Len(c)) /\ m.size \in Nat
  BY <1>1, MapFields DEF Rechained
<1> HIDE DEF X, b
<1>3. b \in 0 .. (n - 1) /\ Chain(k, b, n)
  BY <1>1 DEF Gains
<1>4. /\ IsMap(X, n)
      /\ \A x : In(c, x) <=> x \in Stored(m) /\ hash[x.key] % n = b
      /\ \A x : x \in Stored(X) <=> (x \in Stored(m) /\ hash[x.key] % n # b) \/ In(k, x)
  BY <1>2, <1>3, RechainedMap
<1>5. X.size \in {m.size, m.size + 1}
  BY <1>1, <1>2
<1>6. ASSUME Distinct, NEW x
      PROVE  x \in Stored(X) <=> (x \in Stored(m) /\ x.key # e.key) \/ x = e
  <2>1. e.key \in Keys /\ e = [key |-> e.key, value |-> e.value] /\ b = hash[e.key] % n
    BY DEF Entry, b
  <2>2. y = e
    <3>1. y.key \in Keys /\ y = [key |-> y.key, value |-> y.value] /\ y.value = e.value
      BY <1>1 DEF Gains, Entry
    <3>2. y.key = e.key
      BY <1>1, <1>6, <2>1, <3>1, DistinctKeys DEF Gains
    <3> QED
      BY <2>1, <3>1, <3>2
  <2>3. In(k, x) <=> (In(c, x) /\ ~ defaultEqual(x.key, e.key)) \/ x = e
    BY <1>1, <2>2 DEF Gains
  <2>4. x \in Stored(m) => (defaultEqual(x.key, e.key) <=> x.key = e.key)
    <3>1. ASSUME x \in Stored(m) PROVE defaultEqual(x.key, e.key) <=> x.key = e.key
      <4>1. x.key \in Keys
        BY <3>1, MapEntries DEF Entry
      <4> QED
        BY <1>6, <2>1, <4>1, DistinctKeys
    <3> QED
      BY <3>1
  <2> QED
    BY <1>4, <2>1, <2>3, <2>4
<1> QED
  BY <1>4, <1>5, <1>6 DEF X

(* What Find says of the stored entries. *)
LEMMA FoundEntry ==
  ASSUME NEW n \in Nat \ {0}, NEW m, IsMap(m, n), Sane, NEW k \in Keys
  PROVE  LET f == m.list[hashCode(m, k)][Find(m, k)]
         IN  /\ Find(m, k) # 0 => f \in Stored(m) /\ defaultEqual(f.key, k)
             /\ Distinct => (Find(m, k) = 0 <=> ~ \E e \in Stored(m) : e.key = k)
<1> DEFINE b == hash[k] % n
           c == m.list[b]
           i == Find(m, k)
<1>1. /\ b \in 0 .. (n - 1) /\ hashCode(m, k) = b
      /\ i \in 0 .. Len(c) /\ Len(c) \in Nat
      /\ i # 0 => defaultEqual(c[i].key, k)
      /\ i = 0 => ~ \E j \in 1 .. Len(c) : defaultEqual(c[j].key, k)
  BY FindIs
<1>2. \A x : x \in Stored(m) <=> \E a \in 0 .. (n - 1) : In(m.list[a], x)
  BY StoredIs
<1>3. i # 0 => c[i] \in Stored(m)
  BY <1>1, <1>2 DEF In
<1>4. i = 0 => ~ \E e \in Stored(m) : e.key = k
  <2>1. SUFFICES ASSUME i = 0, NEW e \in Stored(m), e.key = k PROVE FALSE
    OBVIOUS
  <2>2. PICK a \in 0 .. (n - 1) : \E j \in 1 .. Len(m.list[a]) : m.list[a][j] = e
    BY <1>2 DEF In
  <2>3. a = b
    BY <2>1, <2>2 DEF IsMap, Chain
  <2> QED
    BY <1>1, <2>1, <2>2, <2>3 DEF defaultEqual
<1>5. Distinct /\ i # 0 => \E e \in Stored(m) : e.key = k
  <2>1. SUFFICES ASSUME Distinct, i # 0 PROVE c[i].key = k
    BY <1>3
  <2>2. c[i].key \in Keys
    BY <1>3, <2>1, MapEntries DEF Entry
  <2> QED
    BY <1>1, <2>1, <2>2, DistinctKeys
<1> QED
  BY <1>1, <1>3, <1>4, <1>5

(* Without keeps a map a map and takes the entry with an equal key out. *)
LEMMA WithoutMap ==
  ASSUME NEW n \in Nat \ {0}, NEW m, IsMap(m, n), Sane, NEW k \in Keys, Find(m, k) # 0
  PROVE  /\ IsMap(Without(m, k), n)
         /\ Without(m, k).size = m.size - 1 /\ m.size \in Nat
         /\ Distinct => \A x : x \in Stored(Without(m, k)) <=> x \in Stored(m) /\ x.key # k
<1> DEFINE b == hash[k] % n
           c == m.list[b]
           i == Find(m, k)
           r == RemoveAt(c, i)
           X == Without(m, k)
<1>1. /\ b \in 0 .. (n - 1) /\ hashCode(m, k) = b
      /\ Chain(c, b, n) /\ Len(c) \in Nat
      /\ i \in 1 .. Len(c) /\ defaultEqual(c[i].key, k)
  BY FindIs
<1>2. X = [m EXCEPT !.size = @ - 1, !.list[b] = r]
  BY <1>1 DEF Without
<1>3. Fields(m, m.size, n, m.list) /\ m.size \in Nat
  BY MapFields DEF IsMap, Fields
<1> HIDE DEF i, r, X
<1>4. Fields([m EXCEPT !.size = @ - 1, !.list[b] = r], m.size - 1, n, [m.list EXCEPT ![b] = r])
  BY <1>3, Assigned, Zenon
<1>5. /\ Chain(r, b, n) /\ Len(r) = Len(c) - 1
      /\ \A x : In(r, x) <=> In(c, x) /\ ~ defaultEqual(x.key, c[i].key)
  <2>1. r = RemoveAt(c, i)
    BY DEF r
  <2> HIDE DEF c, b
  <2> QED
    BY <1>1, <2>1, ShorterChain
<1>6. m.size - 1 = m.size + (Len(r) - Len(m.list[b]))
  <2>1. \A x, y \in Nat : x - 1 = x + ((y - 1) - y)
    OBVIOUS
  <2> QED
    BY <1>1, <1>3, <1>5, <2>1, Zenon
<1>7. X = Rechained(m, n, b, r) /\ X.size = m.size - 1
  <2>1. X = Rechained(m, n, b, r)
    BY <1>2, <1>4, <1>6, Zenon DEF Rechained, Fields
  <2>2. X.size = m.size + (Len(r) - Len(m.list[b]))
    BY <2>1 DEF Rechained
  <2> QED
    BY <1>6, <2>1, <2>2
<1>8. /\ IsMap(X, n)
      /\ \A x : In(c, x) <=> x \in Stored(m) /\ hash[x.key] % n = b
      /\ \A x : x \in Stored(X) <=> (x \in Stored(m) /\ hash[x.key] % n # b) \/ In(r, x)
  BY <1>1, <1>5, <1>7, RechainedMap
<1>9. ASSUME Distinct, NEW x PROVE x \in Stored(X) <=> x \in Stored(m) /\ x.key # k
  <2>1. c[i].key = k
    <3>1. c[i].key \in Keys
      <4>1. c \in Seq(Entry) /\ i \in 1 .. Len(c)
        BY <1>1, Zenon DEF Chain
      <4>2. c[i] \in Entry
        BY <4>1, ElementOfSeq
      <4> QED
        BY <4>2 DEF Entry
    <3> QED
      BY <1>1, <1>9, <3>1, DistinctKeys
  <2>2. x \in Stored(m) => (defaultEqual(x.key, k) <=> x.key = k)
    <3>1. ASSUME x \in Stored(m) PROVE defaultEqual(x.key, k) <=> x.key = k
      <4>1. x.key \in Keys
        BY <3>1, MapEntries DEF Entry
      <4> QED
        BY <1>9, <4>1, DistinctKeys
    <3> QED
      BY <3>1
  <2> QED
    BY <1>5, <1>8, <2>1, <2>2
<1> QED
  BY <1>3, <1>7, <1>8, <1>9 DEF X

(* A new list of n empty chains. *)
LEMMA EmptyMap ==
  ASSUME NEW n \in Nat \ {0}
  PROVE  IsMap(Empty(n), n) /\ Empty(n).size = 0 /\ Stored(Empty(n)) = {}
<1> DEFINE m == Empty(n)
<1>1. m = [size |-> 0, listSize |-> n, list |-> m.list]
  BY DEF Empty
<1>2. /\ m.list \in [0 .. (n - 1) -> Seq(Entry)]
      /\ m.size = 0 /\ m.listSize = n
      /\ \A b \in 0 .. (n - 1) : m.list[b] = <<>>
  BY DEF Empty
<1> HIDE DEF m
<1>3. Lists(n, Entry, m.list) /\ Chained(m) = Joined(n, m.list)
  BY <1>2 DEF Lists, Chained, Joined
<1>4. /\ Joined(n, m.list) \in Seq(Entry)
      /\ Range(Joined(n, m.list)) = UNION {Range(m.list[b]) : b \in 0 .. (n - 1)}
  BY <1>3, JoinedIs
<1>5. \A b \in 0 .. (n - 1) : Range(m.list[b]) = {}
  BY <1>2 DEF Range
<1>6. Len(Chained(m)) = 0
  <2>1. Range(Joined(n, m.list)) = {}
    BY <1>4, <1>5
  <2>2. \A j \in 1 .. Len(Joined(n, m.list)) : Joined(n, m.list)[j] \in Range(Joined(n, m.list))
    BY <1>4 DEF Range
  <2>3. Len(Joined(n, m.list)) \in Nat
    BY <1>4
  <2> QED
    BY <1>3, <2>1, <2>2, <2>3
<1>7. \A b \in 0 .. (n - 1) : Chain(m.list[b], b, n)
  BY <1>2 DEF Chain
<1>8. IsMap(m, n)
  BY <1>1, <1>2, <1>6, <1>7 DEF IsMap
<1>9. Stored(m) = {}
  BY <1>2, <1>8, StoredIs DEF In
<1> QED
  BY <1>2, <1>8, <1>9 DEF m

(* No two of a map's entries have the same key. *)
LEMMA OneEntry ==
  ASSUME NEW n \in Nat \ {0}, NEW m, IsMap(m, n),
         NEW e1 \in Stored(m), NEW e2 \in Stored(m), e1.key = e2.key
  PROVE  e1 = e2
<1>1. \A x : x \in Stored(m) <=> \E a \in 0 .. (n - 1) : In(m.list[a], x)
  BY StoredIs
<1>2. PICK a \in 0 .. (n - 1) : \E j \in 1 .. Len(m.list[a]) : m.list[a][j] = e1
  BY <1>1 DEF In
<1>3. PICK b \in 0 .. (n - 1) : \E j \in 1 .. Len(m.list[b]) : m.list[b][j] = e2
  BY <1>1 DEF In
<1>4. a = b
  <2>1. \A d \in 0 .. (n - 1) : Chain(m.list[d], d, n)
    BY DEF IsMap
  <2>2. hash[e1.key] % n = a
    BY <1>2, <2>1 DEF Chain
  <2>3. hash[e2.key] % n = b
    BY <1>3, <2>1 DEF Chain
  <2> QED
    BY <2>2, <2>3
<1>5. Chain(m.list[a], a, n) /\ defaultEqual(e1.key, e2.key)
  BY DEF IsMap, defaultEqual
<1> QED
  BY <1>2, <1>3, <1>4, <1>5 DEF Chain

(* Entries that tell one story: no key with two values. *)
Consistent(s) ==
  /\ s \in Seq(Entry)
  /\ \A i, j \in 1 .. Len(s) : s[i].key = s[j].key => s[i] = s[j]

(* A map of n chains after the first k puts of s. *)
After(m, n, s, k) ==
  /\ IsMap(m, n) /\ m.size <= k
  /\ Distinct => \A x : x \in Stored(m) <=> \E i \in 1 .. k : s[i] = x

LEMMA PutsAre ==
  ASSUME NEW n \in Nat \ {0}, Sane, NEW s, Consistent(s)
  PROVE  After(Puts(n, s)[Len(s)], n, s, Len(s))
<1> s \in Seq(Entry) /\ Len(s) \in Nat
  BY DEF Consistent
<1> DEFINE N == Len(s)
           D == {m \in [size : Nat, listSize : {n}, list : [0 .. (n - 1) -> Seq(Entry)]] :
                   IsMap(m, n)}
           g == [k \in 0 .. N |-> [m \in D |-> IF k = 0 THEN m ELSE Insert(m, s[k])]]
           Fits(f) == f = [k \in 0 .. Len(s) |->
                             IF k = 0 THEN Empty(n) ELSE Insert(f[k - 1], s[k])]
           put == CHOOSE f : Fits(f)
<1>1. Puts(n, s) = put
  BY Zenon DEF Puts
<1>2. \A m : IsMap(m, n) => m \in D
  BY MapFields DEF IsMap
<1>3. \A m \in D : IsMap(m, n)
  OBVIOUS
<1>4. \A k \in 0 .. N : k # 0 => k \in 1 .. N /\ k - 1 \in 0 .. N /\ s[k] \in Entry
  OBVIOUS
<1> HIDE DEF D
<1>5. \A k \in 0 .. N : k # 0 => \A m \in D : Insert(m, s[k]) \in D
  BY <1>2, <1>3, <1>4, InsertMap
<1>6. g \in [0 .. N -> [D -> D]]
  BY <1>5
<1>7. \A k \in 0 .. N : k # 0 => \A m \in D : g[k][m] = Insert(m, s[k])
  OBVIOUS
<1>8. Empty(n) \in D /\ 0 \in 0 .. N
  BY <1>2, EmptyMap
<1> HIDE DEF g
<1>9. PICK f : Unrolled(0, N, D, Empty(n), g, f)
  <2>1. Step(0, N, D, Empty(n), g)
    BY <1>6, <1>8 DEF Step
  <2> QED
    BY <2>1, Recursion
<1>10. \A k \in 0 .. N : k # 0 => f[k] = Insert(f[k - 1], s[k])
  BY <1>4, <1>7, <1>9 DEF Unrolled
<1>11. Fits(f)
  <2>1. \A k \in 0 .. N : f[k] = IF k = 0 THEN Empty(n) ELSE Insert(f[k - 1], s[k])
    BY <1>9, <1>10, Zenon DEF Unrolled
  <2> QED
    BY <1>9, <2>1, Zenon DEF Unrolled
<1>12. put = [k \in 0 .. N |-> IF k = 0 THEN Empty(n) ELSE Insert(put[k - 1], s[k])]
  BY <1>11, Zenon
<1> HIDE DEF put
<1>13. put[0] = Empty(n) /\ \A k \in 0 .. N : k # 0 => put[k] = Insert(put[k - 1], s[k])
  BY <1>8, <1>12, Zenon
<1>14. After(put[0], n, s, 0)
  BY <1>13, EmptyMap DEF After
<1>15. ASSUME NEW k \in 1 .. N, After(put[k - 1], n, s, k - 1)
       PROVE  After(put[k], n, s, k)
  <2> DEFINE m == put[k - 1]
             X == put[k]
  <2>1. k \in 0 .. N /\ k # 0 /\ s[k] \in Entry /\ k \in Nat
    OBVIOUS
  <2>2. X = Insert(m, s[k]) /\ IsMap(m, n) /\ m.size <= k - 1
    BY <1>13, <1>15, <2>1 DEF After
  <2>3. m.size \in Nat
    BY <2>2, MapFields
  <2> HIDE DEF m, X
  <2>4. /\ IsMap(X, n) /\ X.size \in {m.size, m.size + 1}
        /\ Distinct => \A x : x \in Stored(X)
                              <=> (x \in Stored(m) /\ x.key # s[k].key) \/ x = s[k]
    BY <2>1, <2>2, InsertMap
  <2>5. X.size <= k
    BY <2>1, <2>2, <2>3, <2>4
  <2>6. ASSUME Distinct, NEW x
        PROVE  x \in Stored(X) <=> \E i \in 1 .. k : s[i] = x
    <3>1. x \in Stored(m) <=> \E i \in 1 .. (k - 1) : s[i] = x
      BY <1>15, <2>6 DEF After, m
    <3>2. (\E i \in 1 .. k : s[i] = x) <=> (\E i \in 1 .. (k - 1) : s[i] = x) \/ s[k] = x
      OBVIOUS
    <3>3. (\E i \in 1 .. (k - 1) : s[i] = x) /\ x.key = s[k].key => x = s[k]
      BY DEF Consistent
    <3> QED
      BY <2>4, <2>6, <3>1, <3>2, <3>3
  <2> QED
    BY <2>4, <2>5, <2>6 DEF After, X
<1> DEFINE Good(k) == After(put[k], n, s, k)
           Bad == {k \in 0 .. N : ~ Good(k)}
<1> HIDE DEF Good
<1>16. Bad = {}
  <2>1. SUFFICES ASSUME Bad # {} PROVE FALSE
    OBVIOUS
  <2>2. PICK k \in Bad : \A j \in Bad : k <= j
    <3>1. Bad \subseteq Nat
      OBVIOUS
    <3> HIDE DEF Bad
    <3> QED
      BY <2>1, <3>1, Least
  <2>3. k \in 0 .. N /\ ~ Good(k)
    BY <2>2
  <2>4. k # 0
    BY <1>14, <2>3 DEF Good
  <2>5. k \in 1 .. N /\ k - 1 \in 0 .. N /\ ~ (k <= k - 1)
    BY <2>3, <2>4
  <2>6. k - 1 \notin Bad
    BY <2>2, <2>5
  <2>7. Good(k - 1)
    BY <2>5, <2>6
  <2> QED
    BY <1>15, <2>3, <2>5, <2>7 DEF Good
<1>17. Good(N)
  BY <1>16
<1> QED
  BY <1>1, <1>17 DEF Good

(* Putting the entries again into another list changes none of them. *)
LEMMA ResetMap ==
  ASSUME NEW n \in Nat \ {0}, NEW m, IsMap(m, n), Sane,
         NEW q \in Nat, q >= MinSize, NEW r, r = resetHashMap(m, q)
  PROVE  IsMap(r, q) /\ r.size <= m.size /\ (Distinct => Stored(r) = Stored(m))
<1>1. q \in Nat \ {0} /\ ~ (q < MinSize)
  BY HashMapAssumption
<1> DEFINE s == Chained(m)
<1>2. s \in Seq(Entry) /\ m.size = Len(s) /\ Len(s) \in Nat /\ Range(s) = Stored(m)
  BY MapFields, StoredIs DEF IsMap
<1>3. Entries(m) = s
  <2>1. SubSeq(s, 1, Len(s)) = s
    BY <1>2, SubSeqFull
  <2> HIDE DEF s
  <2>2. ~ (m.size < Len(s))
    BY <1>2
  <2> QED
    BY <2>1, <2>2, Zenon DEF Entries, s
<1> HIDE DEF s
<1>4. \A x : x \in Stored(m) <=> \E i \in 1 .. Len(s) : s[i] = x
  BY <1>2, RangeEquality
<1>5. Consistent(s)
  <2>1. \A i, j \in 1 .. Len(s) : s[i].key = s[j].key => s[i] = s[j]
    BY <1>4, OneEntry
  <2> QED
    BY <1>2, <2>1 DEF Consistent
<1>6. r = Puts(q, s)[Len(s)]
  BY <1>1, <1>3, Zenon DEF resetHashMap
<1>7. After(r, q, s, Len(s))
  BY <1>1, <1>5, <1>6, PutsAre
<1> QED
  BY <1>2, <1>4, <1>7 DEF After

(* A table at rest: a list of at least MinSize places, one for each entry. *)
Kept(m) ==
  /\ m.listSize \in Nat /\ m.listSize >= MinSize
  /\ IsMap(m, m.listSize)
  /\ m.size <= m.listSize

LEMMA GrownMap ==
  ASSUME Sane, NEW m, Kept(m), NEW r, r = Grown(m)
  PROVE  /\ Kept(r) /\ r.size < r.listSize
         /\ Distinct => Stored(r) = Stored(m)
<1> DEFINE n == m.listSize
<1>1. n \in Nat \ {0} /\ n >= MinSize /\ IsMap(m, n) /\ m.size <= n /\ m.size \in Nat
  BY HashMapAssumption, MapFields DEF Kept
<1>2. CASE m.size >= n
  <2>1. r = resetHashMap(m, n * 2)
    BY <1>2 DEF Grown, Grows
  <2>2. n * 2 \in Nat /\ n * 2 >= MinSize /\ n < n * 2
    BY <1>1, HashMapAssumption
  <2>3. IsMap(r, n * 2) /\ r.size <= m.size /\ (Distinct => Stored(r) = Stored(m))
    BY <1>1, <2>1, <2>2, ResetMap
  <2>4. r.listSize = n * 2 /\ r.size \in Nat
    BY <1>1, <2>3, MapLists, MapFields
  <2> QED
    BY <1>1, <2>2, <2>3, <2>4 DEF Kept
<1>3. CASE ~ (m.size >= n)
  <2>1. r = m
    BY <1>3 DEF Grown, Grows
  <2> QED
    BY <1>1, <1>3, <2>1 DEF Kept
<1> QED
  BY <1>2, <1>3

LEMMA ShrunkMap ==
  ASSUME Sane, NEW m, Kept(m), NEW r, r = Shrunk(m)
  PROVE  Kept(r) /\ (Distinct => Stored(r) = Stored(m))
<1> DEFINE n == m.listSize
           h == n \div 2
<1>1. n \in Nat \ {0} /\ IsMap(m, n) /\ m.size <= n /\ m.size \in Nat /\ h \in Nat
  BY HashMapAssumption, MapFields DEF Kept
<1>2. CASE m.size < h /\ h >= MinSize
  <2>1. r = resetHashMap(m, h)
    BY <1>2 DEF Shrunk, Shrinks
  <2> HIDE DEF h
  <2>2. IsMap(r, h) /\ r.size <= m.size /\ (Distinct => Stored(r) = Stored(m))
    BY <1>1, <1>2, <2>1, ResetMap
  <2>3. h \in Nat \ {0}
    BY <1>1, <1>2, HashMapAssumption
  <2>4. r.listSize = h /\ r.size \in Nat
    BY <2>2, <2>3, MapLists, MapFields
  <2> QED
    BY <1>1, <1>2, <2>2, <2>4 DEF Kept
<1>3. CASE ~ (m.size < h /\ h >= MinSize)
  <2>1. r = m
    BY <1>1, <1>3, HashMapAssumption DEF Shrunk, Shrinks, resetHashMap
  <2> QED
    BY <2>1
<1> QED
  BY <1>2, <1>3

-----------------------------------------------------------------------------
HInv == Sane /\ Kept(hashMap) /\ alive \in BOOLEAN

(* hash and prefix never change, so a map that was kept is a kept map. *)
LEMMA KeptLater ==
  ASSUME HInv, hash' = hash, prefix' = prefix,
         NEW X, hashMap' = X, Kept(X), alive' \in BOOLEAN
  PROVE  HInv'
  BY DEF HInv, Sane, Kept, IsMap, Chain, defaultEqual

LEMMA SurvivesIs ==
  ASSUME NEW m, NEW n, NEW b PROVE Survives(m, n, b) \subseteq BOOLEAN
  BY DEF Survives

(* defaultPut on a kept map. *)
LEMMA PutMap ==
  ASSUME Sane, NEW m, Kept(m), NEW e \in Entry, NEW r, r = defaultPut(m, e)
  PROVE  /\ Kept(r)
         /\ Distinct => \A x : x \in Stored(r) <=> (x \in Stored(m) /\ x.key # e.key) \/ x = e
<1> DEFINE g == Grown(m)
<1>1. Kept(g) /\ g.size < g.listSize /\ (Distinct => Stored(g) = Stored(m))
  BY GrownMap
<1>2. r = Insert(g, e)
  BY DEF defaultPut
<1> HIDE DEF g
<1> DEFINE n == g.listSize
<1>3. n \in Nat \ {0} /\ n >= MinSize /\ IsMap(g, n) /\ g.size \in Nat /\ g.size < n
  BY <1>1, HashMapAssumption, MapFields DEF Kept
<1> HIDE DEF n
<1>4. /\ IsMap(r, n) /\ r.size \in {g.size, g.size + 1}
      /\ Distinct => \A x : x \in Stored(r) <=> (x \in Stored(g) /\ x.key # e.key) \/ x = e
  BY <1>2, <1>3, InsertMap
<1>5. r.listSize = n /\ r.size <= n
  BY <1>3, <1>4, MapLists
<1> QED
  BY <1>1, <1>3, <1>4, <1>5 DEF Kept

(* Remove of a key that is there: taken out, and the list perhaps halved. *)
LEMMA RemoveMap ==
  ASSUME Sane, NEW m, Kept(m), NEW k \in Keys, defaultExists(m, k),
         NEW r, r = Shrunk(Without(m, k))
  PROVE  /\ Kept(r)
         /\ Distinct => \A x : x \in Stored(r) <=> x \in Stored(m) /\ x.key # k
<1> DEFINE w == Without(m, k)
           n == m.listSize
<1>1. n \in Nat \ {0} /\ n >= MinSize /\ IsMap(m, n) /\ m.size <= n
  BY HashMapAssumption DEF Kept
<1>2. Find(m, k) # 0
  BY DEF defaultExists
<1>3. /\ IsMap(w, n) /\ w.size = m.size - 1 /\ m.size \in Nat
      /\ Distinct => \A x : x \in Stored(w) <=> x \in Stored(m) /\ x.key # k
  BY <1>1, <1>2, WithoutMap
<1> HIDE DEF w, n
<1>4. w.listSize = n /\ w.size <= n
  BY <1>1, <1>3, MapLists
<1>5. Kept(w)
  BY <1>1, <1>3, <1>4 DEF Kept
<1>6. r = Shrunk(w)
  BY DEF w
<1>7. Kept(r) /\ (Distinct => Stored(r) = Stored(w))
  BY <1>5, <1>6, ShrunkMap
<1> QED
  BY <1>3, <1>7

LEMMA HInvInit == Init => HInv
<1>1. SUFFICES ASSUME Init PROVE HInv
  OBVIOUS
<1>2. Sane
  BY <1>1, HashMapAssumption DEF Init, Sane
<1>3. MinSize \in Nat \ {0} /\ hashMap = Empty(MinSize)
  BY <1>1, HashMapAssumption DEF Init
<1>4. IsMap(hashMap, MinSize) /\ hashMap.size = 0
  BY <1>3, EmptyMap
<1>5. hashMap.listSize = MinSize
  BY <1>3, <1>4, MapLists
<1>6. alive \in BOOLEAN
  BY <1>1 DEF Init
<1> QED
  BY <1>2, <1>3, <1>4, <1>5, <1>6 DEF HInv, Kept

LEMMA HInvStep == HInv /\ [Next]_vars => HInv'
<1> SUFFICES ASSUME HInv, [Next]_vars PROVE HInv'
  OBVIOUS
<1> USE DEF HInv
<1>1. ASSUME NEW k \in Keys, Lookup(k) PROVE HInv'
  BY <1>1, KeptLater DEF Lookup
<1>2. ASSUME NEW k \in Keys, RemoveMissing(k) PROVE HInv'
  BY <1>2, KeptLater DEF RemoveMissing
<1>3. ASSUME NEW k \in Keys, RemoveEntry(k) PROVE HInv'
  <2>1. Kept(Shrunk(Without(hashMap, k)))
    BY <1>3, RemoveMap DEF RemoveEntry
  <2>2. alive' \in BOOLEAN
    BY <1>3, SurvivesIs DEF RemoveEntry
  <2> QED
    BY <1>3, <2>1, <2>2, KeptLater DEF RemoveEntry
<1>4. ASSUME NEW k \in Keys, NEW v \in Values, Put(k, v) PROVE HInv'
  <2>1. [key |-> k, value |-> v] \in Entry
    BY DEF Entry
  <2>2. Kept(defaultPut(hashMap, [key |-> k, value |-> v]))
    BY <2>1, PutMap
  <2>3. alive' \in BOOLEAN
    BY <1>4, SurvivesIs DEF Put
  <2> QED
    BY <1>4, <2>2, <2>3, KeptLater DEF Put
<1>5. CASE UNCHANGED vars
  BY <1>5, KeptLater DEF vars
<1>6. CASE Dead
  BY <1>5, <1>6 DEF Dead
<1> QED
  BY <1>1, <1>2, <1>3, <1>4, <1>5, <1>6 DEF Next

LEMMA Kepts == Spec => []HInv
  BY HInvInit, HInvStep, PTL DEF Spec

(* Through every sequence of puts and removals, whatever the hash function *)
(* and however often the list grows and shrinks, each entry is in the      *)
(* bucket of its hash, none twice, and size counts them (hashmap.c).       *)
THEOREM StaysWellFormed == Spec => []WellFormed
<1>1. HInv => WellFormed
  <2> SUFFICES ASSUME HInv PROVE WellFormed
    OBVIOUS
  <2> DEFINE m == hashMap
             n == m.listSize
  <2>1. n \in Nat \ {0} /\ n >= MinSize /\ IsMap(m, n) /\ m.size <= n
    BY HashMapAssumption DEF HInv, Kept
  <2>2. DOMAIN m.list = 0 .. (n - 1) /\ m.size = Len(Chained(m))
    BY <2>1, MapLists DEF IsMap
  <2>3. ASSUME NEW b \in 0 .. (n - 1)
        PROVE  /\ \A i \in DOMAIN m.list[b] : /\ m.list[b][i] \in [key : Keys, value : Values]
                                             /\ hashCode(m, m.list[b][i].key) = b
               /\ \A i, j \in DOMAIN m.list[b] :
                    defaultEqual(m.list[b][i].key, m.list[b][j].key) => i = j
    <3> DEFINE c == m.list[b]
    <3>1. Chain(c, b, n)
      BY <2>1 DEF IsMap
    <3> HIDE DEF c
    <3>2. DOMAIN c = 1 .. Len(c) /\ \A i \in 1 .. Len(c) : c[i] \in Entry
      BY <3>1, ElementOfSeq DEF Chain
    <3>3. \A i \in DOMAIN c : c[i] \in [key : Keys, value : Values]
      BY <3>2 DEF Entry
    <3>4. \A i \in DOMAIN c : hashCode(m, c[i].key) = b
      BY <3>1, <3>2 DEF Chain, hashCode
    <3>5. \A i, j \in DOMAIN c : defaultEqual(c[i].key, c[j].key) => i = j
      BY <3>1, <3>2 DEF Chain
    <3> QED
      BY <3>3, <3>4, <3>5 DEF c
  <2> QED
    BY <2>1, <2>2, <2>3 DEF WellFormed
<1> QED
  BY <1>1, Kepts, PTL

-----------------------------------------------------------------------------
(* What a map says of each key. *)
DictOf(m) ==
  [k \in Keys |-> IF \E e \in Stored(m) : e.key = k
                 THEN (CHOOSE e \in Stored(m) : e.key = k).value
                 ELSE NoValue]

LEMMA DictIs ==
  ASSUME NEW m, Kept(m), NEW k \in Keys
  PROVE  /\ \A e \in Stored(m) : e.key = k => DictOf(m)[k] = e.value
         /\ ~ (\E e \in Stored(m) : e.key = k) => DictOf(m)[k] = NoValue
<1> DEFINE n == m.listSize
<1>1. n \in Nat \ {0} /\ IsMap(m, n)
  BY HashMapAssumption DEF Kept
<1> HIDE DEF n
<1>2. ASSUME NEW e \in Stored(m), e.key = k PROVE DictOf(m)[k] = e.value
  <2> DEFINE c == CHOOSE f \in Stored(m) : f.key = k
  <2>1. c \in Stored(m) /\ c.key = k
    BY <1>2
  <2>2. DictOf(m)[k] = c.value
    BY <1>2 DEF DictOf
  <2> HIDE DEF c
  <2>3. c = e
    BY <1>1, <1>2, <2>1, OneEntry
  <2> QED
    BY <2>2, <2>3
<1>3. ~ (\E e \in Stored(m) : e.key = k) => DictOf(m)[k] = NoValue
  BY DEF DictOf
<1> QED
  BY <1>2, <1>3

(* A map that gains an entry, or loses one, is a dictionary changed there. *)
LEMMA PutDict ==
  ASSUME NEW m, Kept(m), NEW r, Kept(r), NEW k \in Keys, NEW v,
         NEW e, e = [key |-> k, value |-> v],
         \A x : x \in Stored(r) <=> (x \in Stored(m) /\ x.key # e.key) \/ x = e
  PROVE  DictOf(r) = [DictOf(m) EXCEPT ![k] = v]
<1>1. e.key = k /\ e.value = v /\ e \in Stored(r)
  OBVIOUS
<1>2. ASSUME NEW h \in Keys PROVE DictOf(r)[h] = IF h = k THEN v ELSE DictOf(m)[h]
  <2>1. CASE h = k
    BY <1>1, <2>1, DictIs
  <2>2. CASE h # k /\ \E x \in Stored(m) : x.key = h
    <3>1. PICK x \in Stored(m) : x.key = h
      BY <2>2
    <3>2. x \in Stored(r)
      BY <1>1, <2>2, <3>1
    <3> QED
      BY <2>2, <3>1, <3>2, DictIs
  <2>3. CASE h # k /\ ~ \E x \in Stored(m) : x.key = h
    <3>1. ~ \E x \in Stored(r) : x.key = h
      BY <1>1, <2>3
    <3> QED
      BY <2>3, <3>1, DictIs
  <2> QED
    BY <2>1, <2>2, <2>3
<1> QED
  BY <1>2 DEF DictOf

LEMMA RemoveDict ==
  ASSUME NEW m, Kept(m), NEW r, Kept(r), NEW k \in Keys,
         \A x : x \in Stored(r) <=> x \in Stored(m) /\ x.key # k
  PROVE  DictOf(r) = [DictOf(m) EXCEPT ![k] = NoValue]
<1>1. ASSUME NEW h \in Keys PROVE DictOf(r)[h] = IF h = k THEN NoValue ELSE DictOf(m)[h]
  <2>1. CASE h = k
    BY <2>1, DictIs
  <2>2. CASE h # k /\ \E x \in Stored(m) : x.key = h
    <3>1. PICK x \in Stored(m) : x.key = h
      BY <2>2
    <3>2. x \in Stored(r)
      BY <2>2, <3>1
    <3> QED
      BY <2>2, <3>1, <3>2, DictIs
  <2>3. CASE h # k /\ ~ \E x \in Stored(m) : x.key = h
    BY <2>3, DictIs
  <2> QED
    BY <2>1, <2>2, <2>3
<1> QED
  BY <1>1 DEF DictOf

(* A lookup answers what the dictionary says. *)
LEMMA GetDict ==
  ASSUME Sane, Distinct, NEW m, Kept(m), NEW k \in Keys
  PROVE  DictOf(m)[k] = IF defaultExists(m, k) THEN defaultGet(m, k) ELSE NoValue
<1> DEFINE n == m.listSize
           f == m.list[hashCode(m, k)][Find(m, k)]
<1>1. n \in Nat \ {0} /\ IsMap(m, n)
  BY HashMapAssumption DEF Kept
<1> HIDE DEF n
<1>2. /\ Find(m, k) # 0 => f \in Stored(m) /\ defaultEqual(f.key, k)
      /\ Find(m, k) = 0 <=> ~ \E e \in Stored(m) : e.key = k
  BY <1>1, FoundEntry
<1>3. defaultGet(m, k) = f.value
  BY DEF defaultGet
<1> HIDE DEF f
<1>4. CASE Find(m, k) # 0
  <2>1. f.key \in Keys
    BY <1>1, <1>2, <1>4, MapEntries DEF Entry
  <2>2. f.key = k
    BY <1>2, <1>4, <2>1, DistinctKeys
  <2>3. DictOf(m)[k] = f.value
    BY <1>2, <1>4, <2>2, DictIs
  <2> QED
    BY <1>3, <1>4, <2>3 DEF defaultExists
<1>5. CASE Find(m, k) = 0
  BY <1>2, <1>5, DictIs DEF defaultExists
<1> QED
  BY <1>4, <1>5

(* With prefixes that tell the keys apart, host_ip_map is the dictionary   *)
(* its users take it for: whatever grows, shrinks or chains in between, a  *)
(* lookup answers what was put last for that key (hashmap.c).              *)
THEOREM BehavesAsDictionary == Spec => IsDictionary
<1> DEFINE dict == DictOf(hashMap)
<1>1. Init => (Distinct => Hosts!Init)
  <2> SUFFICES ASSUME Init PROVE Hosts!Init
    OBVIOUS
  <2>1. Stored(hashMap) = {}
    BY EmptyMap, HashMapAssumption DEF Init
  <2> QED
    BY <2>1 DEF Init, Hosts!Init
<1>2. HInv /\ [Next]_vars => [Distinct => Hosts!Next \/ UNCHANGED Hosts!vars]_vars
  <2> SUFFICES ASSUME HInv, Next, Distinct
               PROVE  Hosts!Next \/ UNCHANGED Hosts!vars
    OBVIOUS
  <2>1. Sane /\ Kept(hashMap) /\ alive \in BOOLEAN
    BY DEF HInv
  <2>2. ASSUME NEW k \in Keys, Lookup(k) PROVE alive /\ Hosts!Lookup(k)
    <3>1. answer' = dict[k]
      BY <2>1, <2>2, GetDict DEF Lookup
    <3>2. dict' = dict /\ alive' = alive /\ alive
      BY <2>2 DEF Lookup, DictOf
    <3> QED
      BY <3>1, <3>2 DEF Hosts!Lookup, DictOf
  <2>3. ASSUME NEW k \in Keys, RemoveMissing(k) PROVE alive /\ Hosts!Remove(k)
    <3>1. dict[k] = NoValue
      BY <2>1, <2>3, GetDict DEF RemoveMissing
    <3>2. dict' = dict /\ answer' = NoValue /\ alive' = alive /\ alive
      BY <2>3 DEF RemoveMissing, DictOf, Forget
    <3>3. dict' = [dict EXCEPT ![k] = NoValue]
      BY <3>1, <3>2 DEF DictOf
    <3> QED
      BY <3>2, <3>3 DEF Hosts!Remove, DictOf
  <2>4. ASSUME NEW k \in Keys, RemoveEntry(k)
        PROVE  (alive /\ Hosts!Remove(k)) \/ Hosts!Die
    <3> DEFINE r == Shrunk(Without(hashMap, k))
    <3>1. Kept(r) /\ \A x : x \in Stored(r) <=> x \in Stored(hashMap) /\ x.key # k
      BY <2>1, <2>4, RemoveMap DEF RemoveEntry
    <3>2. hashMap' = r /\ answer' = NoValue /\ alive' \in BOOLEAN /\ alive
      BY <2>4, SurvivesIs DEF RemoveEntry, Forget
    <3> HIDE DEF r
    <3>3. DictOf(r) = [dict EXCEPT ![k] = NoValue]
      BY <2>1, <3>1, RemoveDict
    <3>4. dict' = DictOf(r)
      BY <3>2 DEF DictOf
    <3> QED
      BY <2>1, <3>2, <3>3, <3>4 DEF Hosts!Remove, Hosts!Die, DictOf
  <2>5. ASSUME NEW k \in Keys, NEW v \in Values, Put(k, v)
        PROVE  (alive /\ Hosts!Put(k, v)) \/ Hosts!Die
    <3> DEFINE e == [key |-> k, value |-> v]
               r == defaultPut(hashMap, e)
    <3>1. e \in Entry
      BY DEF Entry
    <3>2. hashMap' = r /\ answer' = NoValue /\ alive' \in BOOLEAN /\ alive
      BY <2>5, SurvivesIs DEF Put, Forget
    <3> HIDE DEF r
    <3>3. Kept(r) /\ \A x : x \in Stored(r) <=> (x \in Stored(hashMap) /\ x.key # e.key) \/ x = e
      BY <2>1, <3>1, PutMap DEF r
    <3>4. DictOf(r) = [dict EXCEPT ![k] = v]
      <4>1. Kept(hashMap) /\ e = [key |-> k, value |-> v]
        BY <2>1
      <4> HIDE DEF e
      <4> QED
        BY <3>3, <4>1, PutDict
    <3>5. dict' = DictOf(r)
      BY <3>2 DEF DictOf
    <3> QED
      BY <2>1, <3>2, <3>4, <3>5 DEF Hosts!Put, Hosts!Die, DictOf
  <2>6. CASE Dead
    BY <2>6 DEF Dead, vars, Hosts!vars
  <2> QED
    BY <2>2, <2>3, <2>4, <2>5, <2>6 DEF Next, Hosts!Next
<1> QED
  BY <1>1, <1>2, Kepts, PTL DEF Spec, IsDictionary
=============================================================================
