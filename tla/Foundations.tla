---------------------------- MODULE Foundations ----------------------------
(***************************************************************************)
(* What the proofs rest on about recursive functions and about strings.    *)
(* There is no rule of induction here that takes a predicate: what is      *)
(* shown for every number is shown by looking at the least counterexample. *)
(***************************************************************************)
EXTENDS Text, WellFoundedInduction, SequenceTheorems, TLAPS

(* Among natural numbers there is a least one. *)
LEMMA Least ==
  ASSUME NEW T, T \subseteq Nat, T # {}
  PROVE  \E x \in T : \A y \in T : x <= y
<1> DEFINE R == {p \in Nat \X Nat : p[1] < p[2]}
<1>1. IsWellFoundedOn(R, Nat)
  BY NatLessThanWellFounded DEF OpToRel
<1>2. PICK x \in T : \A y \in T : ~ (<<y, x>> \in R)
  <2> HIDE DEF R
  <2> QED
    BY <1>1, WFMin
<1>3. ASSUME NEW y \in T PROVE x <= y
  <2>1. x \in Nat /\ y \in Nat /\ (y < x => <<y, x>> \in R)
    OBVIOUS
  <2> QED
    BY <1>2, <2>1
<1> QED
  BY <1>3

(* The values at b .. n of a recursion that begins with a and computes each *)
(* of the others from the one before by g.                                 *)
Step(b, n, D, a, g) ==
  b \in Nat /\ n \in Nat /\ b <= n /\ a \in D /\ g \in [b .. n -> [D -> D]]

Unrolled(b, n, D, a, g, f) ==
  /\ f \in [b .. n -> D]
  /\ f[b] = a
  /\ \A k \in b .. n : k # b => f[k] = g[k][f[k - 1]]

(* Such a function exists. *)
LEMMA Recursion ==
  ASSUME NEW b, NEW n, NEW D, NEW a, NEW g, Step(b, n, D, a, g)
  PROVE  \E f : Unrolled(b, n, D, a, g, f)
<1> USE DEF Step
<1> DEFINE Short(f, m) == /\ f \in [b .. m -> D] /\ f[b] = a
                          /\ \A k \in b .. m : k # b => f[k] = g[k][f[k - 1]]
           Bad == {m \in b .. n : ~ \E f : Short(f, m)}
<1>1. SUFFICES ASSUME Bad # {} PROVE FALSE
  <2>1. n \in b .. n
    OBVIOUS
  <2>2. \A f : Short(f, n) => Unrolled(b, n, D, a, g, f)
    BY DEF Unrolled
  <2> HIDE DEF Short
  <2> QED
    BY <1>1, <2>1, <2>2, Zenon
<1>2. PICK m \in Bad : \A y \in Bad : m <= y
  <2>1. Bad \subseteq Nat
    OBVIOUS
  <2> HIDE DEF Bad
  <2> QED
    BY <1>1, <2>1, Least
<1>3. m \in b .. n /\ ~ \E f : Short(f, m)
  BY <1>2
<1> b \in Nat /\ n \in Nat /\ m \in b .. n
  BY <1>3
<1>4. CASE m = b
  <2> DEFINE f == [k \in b .. m |-> a]
  <2>1. f \in [b .. m -> D]
    OBVIOUS
  <2>2. \A k \in b .. m : k = b
    BY <1>4
  <2>3. Short(f, m)
    BY <1>4, <2>1, <2>2
  <2> QED
    BY <1>3, <2>3
<1>5. CASE m # b
  <2>1. m - 1 \in b .. n /\ ~ (m <= m - 1)
    BY <1>5
  <2>2. m - 1 \notin Bad
    BY <1>2, <2>1
  <2>3. PICK f : Short(f, m - 1)
    BY <2>1, <2>2, Zenon
  <2>4. m \in b .. n /\ f[m - 1] \in D /\ g[m][f[m - 1]] \in D
    BY <1>3, <2>1, <2>3
  <2> DEFINE h == [k \in b .. m |-> IF k = m THEN g[m][f[m - 1]] ELSE f[k]]
  <2>5. h \in [b .. m -> D]
    BY <2>3, <2>4
  <2>6. h[m] = g[m][f[m - 1]] /\ \A k \in b .. (m - 1) : h[k] = f[k]
    BY <2>4
  <2> HIDE DEF h
  <2>7. h[b] = a
    BY <1>5, <2>3, <2>4, <2>6
  <2>8. ASSUME NEW k \in b .. m, k # b PROVE h[k] = g[k][h[k - 1]]
    <3>1. k - 1 \in b .. (m - 1) /\ (k # m => k \in b .. (m - 1))
      BY <2>4, <2>8
    <3> QED
      BY <2>3, <2>6, <2>8, <3>1
  <2>9. Short(h, m)
    BY <2>5, <2>7, <2>8
  <2> HIDE DEF Short
  <2> QED
    BY <1>3, <2>9
<1> QED
  BY <1>4, <1>5

-----------------------------------------------------------------------------
(* Induction over a set of numbers in place of a predicate. *)
LEMMA Upward ==
  ASSUME NEW n \in Nat, NEW T, 1 \in T, \A k \in 1 .. (n - 1) : k \in T => k + 1 \in T
  PROVE  1 .. n \subseteq T
<1> DEFINE Bad == {m \in 1 .. n : m \notin T}
<1>1. SUFFICES ASSUME Bad # {} PROVE FALSE
  OBVIOUS
<1>2. PICK m \in Bad : \A y \in Bad : m <= y
  <2>1. Bad \subseteq Nat
    OBVIOUS
  <2> HIDE DEF Bad
  <2> QED
    BY <1>1, <2>1, Least
<1>3. m \in 1 .. n /\ m \notin T /\ m # 1
  BY <1>2
<1>4. m - 1 \in 1 .. (n - 1) /\ ~ (m <= m - 1) /\ (m - 1) + 1 = m
  BY <1>3
<1>5. m - 1 \in T
  BY <1>2, <1>4
<1> QED
  BY <1>3, <1>4, <1>5

(* The same downward, when a number owes its membership to a later one. *)
LEMMA Downward ==
  ASSUME NEW n \in Nat, NEW T, n + 1 \in T, NEW j,
         \A k \in 1 .. n : j[k] \in (k + 1) .. (n + 1) /\ (j[k] \in T => k \in T)
  PROVE  1 .. (n + 1) \subseteq T
<1> DEFINE Bad == {d \in 0 .. n : (n + 1) - d \notin T}
<1>1. SUFFICES ASSUME Bad # {} PROVE FALSE
  <2>1. \A k \in 1 .. (n + 1) : (n + 1) - k \in 0 .. n /\ (n + 1) - ((n + 1) - k) = k
    OBVIOUS
  <2>2. ASSUME NEW k \in 1 .. (n + 1) PROVE k \in T
    <3>1. (n + 1) - k \notin Bad
      BY <1>1
    <3> QED
      BY <2>1, <3>1
  <2> QED
    BY <2>2
<1>2. PICK d \in Bad : \A y \in Bad : d <= y
  <2>1. Bad \subseteq Nat
    OBVIOUS
  <2> HIDE DEF Bad
  <2> QED
    BY <1>1, <2>1, Least
<1> DEFINE k == (n + 1) - d
<1>3. d \in 0 .. n /\ k \notin T /\ d # 0
  BY <1>2
<1>4. k \in 1 .. n
  BY <1>3
<1>5. j[k] \in (k + 1) .. (n + 1) /\ j[k] \notin T
  BY <1>3, <1>4
<1> DEFINE e == (n + 1) - j[k]
<1>6. j[k] \in Nat /\ k + 1 <= j[k] /\ j[k] <= n + 1
  BY <1>4, <1>5
<1>7. e \in 0 .. n /\ (n + 1) - e = j[k] /\ ~ (d <= e)
  BY <1>3, <1>6
<1> QED
  BY <1>2, <1>5, <1>7

(* The values at 1 .. n + 1 of a recursion that begins with a at n + 1 and *)
(* computes each of the others from a later one by g.                      *)
Leaps(n, D, a, j, g) ==
  /\ n \in Nat /\ a \in D /\ g \in [1 .. n -> [D -> D]]
  /\ \A k \in 1 .. n : j[k] \in (k + 1) .. (n + 1)

Landed(n, D, a, j, g, f) ==
  /\ f \in [1 .. (n + 1) -> D]
  /\ f[n + 1] = a
  /\ \A k \in 1 .. n : f[k] = g[k][f[j[k]]]

LEMMA LeapingRecursion ==
  ASSUME NEW n, NEW D, NEW a, NEW j, NEW g, Leaps(n, D, a, j, g)
  PROVE  \E f : Landed(n, D, a, j, g, f)
<1> USE DEF Leaps
<1> DEFINE Part(f, m) == /\ f \in [m .. (n + 1) -> D] /\ f[n + 1] = a
                         /\ \A k \in m .. n : f[k] = g[k][f[j[k]]]
           T == {m \in 1 .. (n + 1) : \E f : Part(f, m)}
           next == [k \in 1 .. n |-> k + 1]
<1>1. n + 1 \in T
  <2> DEFINE f == [k \in (n + 1) .. (n + 1) |-> a]
  <2>1. Part(f, n + 1)
    OBVIOUS
  <2> HIDE DEF Part
  <2> QED
    BY <2>1
<1>2. ASSUME NEW m \in 1 .. n, m + 1 \in T PROVE m \in T
  <2>1. PICK f : Part(f, m + 1)
    BY <1>2
  <2>2. j[m] \in (m + 1) .. (n + 1) /\ g[m] \in [D -> D]
    OBVIOUS
  <2>3. f[j[m]] \in D /\ g[m][f[j[m]]] \in D
    BY <2>1, <2>2
  <2> DEFINE h == [k \in m .. (n + 1) |-> IF k = m THEN g[m][f[j[m]]] ELSE f[k]]
  <2>4. h \in [m .. (n + 1) -> D]
    BY <2>1, <2>3
  <2>5. h[m] = g[m][f[j[m]]] /\ \A k \in (m + 1) .. (n + 1) : h[k] = f[k]
    OBVIOUS
  <2> HIDE DEF h
  <2>6. h[n + 1] = a
    BY <2>1, <2>5
  <2>7. ASSUME NEW k \in m .. n PROVE h[k] = g[k][h[j[k]]]
    <3>1. j[k] \in (k + 1) .. (n + 1)
      OBVIOUS
    <3>2. j[k] \in (m + 1) .. (n + 1)
      BY <3>1
    <3>3. CASE k = m
      BY <2>5, <3>2, <3>3
    <3>4. CASE k # m
      <4>1. k \in (m + 1) .. n /\ k \in (m + 1) .. (n + 1)
        BY <3>4
      <4> QED
        BY <2>1, <2>5, <3>2, <4>1
    <3> QED
      BY <3>3, <3>4
  <2>8. Part(h, m)
    BY <2>4, <2>6, <2>7
  <2> HIDE DEF Part
  <2> QED
    BY <2>8
<1>3. \A k \in 1 .. n : next[k] \in (k + 1) .. (n + 1) /\ (next[k] \in T => k \in T)
  <2>1. \A k \in 1 .. n : next[k] = k + 1 /\ k + 1 \in (k + 1) .. (n + 1)
    OBVIOUS
  <2> HIDE DEF T, next
  <2> QED
    BY <1>2, <2>1
<1> HIDE DEF T, next
<1>4. 1 .. (n + 1) \subseteq T
  BY <1>1, <1>3, Downward
<1>5. 1 \in T
  BY <1>4
<1>6. PICK f : Part(f, 1)
  <2> HIDE DEF Part
  <2> QED
    BY <1>5 DEF T
<1> QED
  BY <1>6 DEF Landed

-----------------------------------------------------------------------------
(* What is about the characters of a string rests on the meaning of        *)
(* strings: STRING is the set of all sequences of characters.              *)
StringsAreSequences == \E C : STRING = Seq(C)

(* A set of small numbers has a greatest and a least one. *)
LEMMA Extremes ==
  ASSUME NEW n \in Nat, NEW P, P \subseteq 0 .. n, P # {}
  PROVE  /\ Max(P) \in P /\ \A k \in P : k <= Max(P)
         /\ Min(P) \in P /\ \A k \in P : Min(P) <= k
<1>1. P \subseteq Nat
  OBVIOUS
<1>2. \E x \in P : \A y \in P : x <= y
  BY <1>1, Least
<1>3. Min(P) \in P /\ \A y \in P : Min(P) =< y
  BY <1>2, Zenon DEF Min
<1> DEFINE Q == {k \in 0 .. n : n - k \in P}
<1>4. Q \subseteq Nat /\ Q # {}
  <2>1. PICK p \in P : TRUE
    OBVIOUS
  <2>2. p \in 0 .. n
    BY <2>1
  <2>3. n - p \in 0 .. n /\ n - (n - p) = p
    BY <2>2
  <2>4. n - p \in Q
    BY <2>3
  <2>5. Q \subseteq 0 .. n
    OBVIOUS
  <2> HIDE DEF Q
  <2> QED
    BY <2>4, <2>5
<1>5. PICK x \in Q : \A y \in Q : x <= y
  <2> HIDE DEF Q
  <2> QED
    BY <1>4, Least
<1>6. n - x \in P
  BY <1>5
<1>7. \A y \in P : n - x >= y
  <2> TAKE y \in P
  <2>1. n - y \in Q /\ y \in 0 .. n /\ x \in 0 .. n
    OBVIOUS
  <2>2. x <= n - y
    BY <1>5, <2>1
  <2> QED
    BY <2>2, <2>1
<1>8. Max(P) \in P /\ \A y \in P : Max(P) >= y
  BY <1>6, <1>7, Zenon DEF Max
<1>9. \A y \in P : y <= Max(P)
  BY <1>1, <1>8
<1> QED
  BY <1>3, <1>9, <1>8
(* Parts of a text and their characters. *)
LEMMA UpToIs ==
  ASSUME NEW C, NEW s \in Seq(C), NEW k \in 0 .. Len(s)
  PROVE  /\ SubSeq(s, 1, k) \in Seq(C) /\ Len(SubSeq(s, 1, k)) = k
         /\ \A i \in 1 .. k : SubSeq(s, 1, k)[i] = s[i]
  BY SubSeqProperties

LEMMA CharIs ==
  ASSUME NEW C, NEW s \in Seq(C), NEW k \in 1 .. Len(s)
  PROVE  Char(s, k) \in Seq(C) /\ Len(Char(s, k)) = 1 /\ Char(s, k)[1] = s[k]
<1>1. SubSeq(s, k, k) = [i \in 1 .. 1 |-> s[i + k - 1]]
  BY SubSeqProperties
<1> QED
  BY <1>1, SubSeqProperties DEF Char

(* Two texts have the same character at a place. *)
LEMMA CharSame ==
  ASSUME NEW C, NEW s \in Seq(C), NEW t \in Seq(C),
         NEW i \in 1 .. Len(s), NEW j \in 1 .. Len(t)
  PROVE  Char(s, i) = Char(t, j) <=> s[i] = t[j]
<1>1. /\ Char(s, i) \in Seq(C) /\ Len(Char(s, i)) = 1 /\ Char(s, i)[1] = s[i]
      /\ Char(t, j) \in Seq(C) /\ Len(Char(t, j)) = 1 /\ Char(t, j)[1] = t[j]
  BY CharIs
<1>2. s[i] = t[j] => Char(s, i) = Char(t, j)
  <2> SUFFICES ASSUME s[i] = t[j] PROVE Char(s, i) = Char(t, j)
    OBVIOUS
  <2>1. \A k \in 1 .. Len(Char(s, i)) : Char(s, i)[k] = Char(t, j)[k]
    BY <1>1
  <2> QED
    BY <1>1, <2>1, SeqEqual
<1> QED
  BY <1>1, <1>2

LEMMA PartIs ==
  ASSUME NEW C, NEW s \in Seq(C), NEW a \in 1 .. (Len(s) + 1), NEW b \in (a - 1) .. Len(s)
  PROVE  /\ SubSeq(s, a, b) \in Seq(C) /\ Len(SubSeq(s, a, b)) = b - a + 1
         /\ \A k \in 1 .. (b - a + 1) :
              SubSeq(s, a, b)[k] = s[a + k - 1] /\ Char(SubSeq(s, a, b), k) = Char(s, a + k - 1)
<1> DEFINE t == SubSeq(s, a, b)
<1>1. t \in Seq(C) /\ Len(t) = b - a + 1 /\ \A k \in 1 .. (b - a + 1) : t[k] = s[a + k - 1]
  BY SubSeqProperties
<1> HIDE DEF t
<1>2. ASSUME NEW k \in 1 .. (b - a + 1) PROVE Char(t, k) = Char(s, a + k - 1)
  <2>1. k \in 1 .. Len(t) /\ a + k - 1 \in 1 .. Len(s)
    BY <1>1
  <2> QED
    BY <1>1, <2>1, CharSame
<1> QED
  BY <1>1, <1>2 DEF t

LEMMA PartOfPart ==
  ASSUME NEW C, NEW s \in Seq(C), NEW a \in 1 .. (Len(s) + 1), NEW b \in (a - 1) .. Len(s),
         NEW c \in 1 .. (b - a + 2), NEW d \in (c - 1) .. (b - a + 1)
  PROVE  SubSeq(SubSeq(s, a, b), c, d) = SubSeq(s, a + c - 1, a + d - 1)
<1> DEFINE t == SubSeq(s, a, b)
<1>1. t \in Seq(C) /\ Len(t) = b - a + 1 /\ \A k \in 1 .. (b - a + 1) : t[k] = s[a + k - 1]
  BY PartIs
<1> HIDE DEF t
<1> DEFINE u == SubSeq(t, c, d)
           v == SubSeq(s, a + c - 1, a + d - 1)
<1>2. c \in 1 .. (Len(t) + 1) /\ d \in (c - 1) .. Len(t)
  BY <1>1
<1>3. u \in Seq(C) /\ Len(u) = d - c + 1 /\ \A k \in 1 .. (d - c + 1) : u[k] = t[c + k - 1]
  BY <1>1, <1>2, PartIs
<1>4. /\ a + c - 1 \in 1 .. (Len(s) + 1) /\ a + d - 1 \in (a + c - 1 - 1) .. Len(s)
      /\ (a + d - 1) - (a + c - 1) + 1 = d - c + 1
  OBVIOUS
<1>5. v \in Seq(C) /\ Len(v) = d - c + 1 /\ \A k \in 1 .. (d - c + 1) : v[k] = s[(a + c - 1) + k - 1]
  BY <1>4, PartIs
<1> HIDE DEF u, v
<1>6. ASSUME NEW k \in 1 .. Len(u) PROVE u[k] = v[k]
  <2>1. k \in 1 .. (d - c + 1) /\ c + k - 1 \in 1 .. (b - a + 1)
        /\ a + (c + k - 1) - 1 = (a + c - 1) + k - 1
    BY <1>3
  <2> QED
    BY <1>1, <1>3, <1>5, <2>1
<1>7. u = v
  BY <1>3, <1>5, <1>6, SeqEqual
<1> QED
  BY <1>7 DEF t, u, v

LEMMA FromIs ==
  ASSUME NEW C, NEW s \in Seq(C), NEW k \in 0 .. Len(s)
  PROVE  /\ From(s, k) \in Seq(C) /\ Len(From(s, k)) = Len(s) - k
         /\ \A i \in 1 .. (Len(s) - k) : From(s, k)[i] = s[k + i]
<1>1. k + 1 \in 1 .. (Len(s) + 1) 
  OBVIOUS
<1> QED
  BY <1>1, SubSeqProperties DEF From

LEMMA PrefixIs ==
  ASSUME NEW C, NEW s \in Seq(C), NEW t \in Seq(C)
  PROVE  IsPrefix(s, t) <=> Len(s) <= Len(t) /\ \A i \in 1 .. Len(s) : s[i] = t[i]
<1>1. SubSeq(s, 1, Len(s)) = s
  BY SubSeqFull
<1>2. ASSUME Len(s) <= Len(t)
      PROVE  SubSeq(s, 1, Len(s)) = SubSeq(t, 1, Len(s)) <=> \A i \in 1 .. Len(s) : s[i] = t[i]
  <2>1. Len(s) \in 0 .. Len(t)
    BY <1>2
  <2>2. /\ SubSeq(t, 1, Len(s)) \in Seq(C) /\ Len(SubSeq(t, 1, Len(s))) = Len(s)
        /\ \A i \in 1 .. Len(s) : SubSeq(t, 1, Len(s))[i] = t[i]
    BY <2>1, UpToIs
  <2>3. (\A i \in 1 .. Len(s) : s[i] = t[i]) => s = SubSeq(t, 1, Len(s))
    <3> DEFINE u == SubSeq(t, 1, Len(s))
    <3> HIDE DEF u
    <3>1. u \in Seq(C) /\ Len(u) = Len(s) /\ \A i \in 1 .. Len(s) : u[i] = t[i]
      BY <2>2 DEF u
    <3>2. (\A i \in 1 .. Len(s) : s[i] = t[i]) => s = u
      BY <3>1, SeqEqual
    <3> QED
      BY <3>2 DEF u
  <2>4. s = SubSeq(t, 1, Len(s)) => \A i \in 1 .. Len(s) : s[i] = t[i]
    BY <2>2
  <2> QED
    BY <1>1, <2>3, <2>4
<1> QED
  BY <1>2 DEF IsPrefix

LEMMA LetterAt ==
  ASSUME NEW C, NEW s \in Seq(C), NEW c \in Seq(C), Len(c) = 1, NEW i \in 1 .. Len(s)
  PROVE  Char(s, i) = c <=> s[i] = c[1]
<1>1. Char(s, i) \in Seq(C) /\ Len(Char(s, i)) = 1 /\ Char(s, i)[1] = s[i]
  BY CharIs
<1>2. s[i] = c[1] => \A k \in 1 .. Len(Char(s, i)) : Char(s, i)[k] = c[k]
  BY <1>1
<1>3. s[i] = c[1] => Char(s, i) = c
  BY <1>1, <1>2, SeqEqual
<1> QED
  BY <1>1, <1>3

-----------------------------------------------------------------------------
(* The number that atoi reads is one. *)
LEMMA FromSeq ==
  ASSUME NEW C, NEW s \in Seq(C), NEW k \in Nat
  PROVE  From(s, k) \in Seq(C)
<1>1. \A i \in (k + 1) .. Len(s) : s[i] \in C
  OBVIOUS
<1> QED
  BY <1>1, SubSeqProperties DEF From

LEMMA NatOfNat ==
  ASSUME NEW C, NEW s \in Seq(C)
  PROVE  NatOf(s) \in Nat
<1> DEFINE Digit(k) == CHOOSE d \in 0 .. 9 : Char(s, k) = ToString(d)
           P == {m \in 0 .. Len(s) : \A k \in 1 .. m : \E d \in 0 .. 9 : Char(s, k) = ToString(d)}
           n == DigitsOf(s)
           Fits(f) == f = [k \in 0 .. n |-> IF k = 0 THEN 0 ELSE 10 * f[k - 1] + Digit(k)]
           value == CHOOSE f : Fits(f)
           g == [k \in 0 .. n |-> [v \in Nat |-> IF k = 0 THEN 0 ELSE 10 * v + Digit(k)]]
<1>1. NatOf(s) = value[n]
  BY Zenon DEF NatOf
<1>2. n \in P
  <2>1. P \subseteq 0 .. Len(s) /\ 0 \in P /\ Len(s) \in Nat
    OBVIOUS
  <2>2. n = Max(P)
    BY Zenon DEF DigitsOf
  <2> HIDE DEF P, n
  <2> QED
    BY <2>1, <2>2, Extremes
<1>3. n \in Nat /\ \A k \in 1 .. n : \E d \in 0 .. 9 : Char(s, k) = ToString(d)
  BY <1>2
<1>4. \A k \in 1 .. n : Digit(k) \in 0 .. 9
  BY <1>3, Zenon
<1> HIDE DEF n, Digit
<1>5. Step(0, n, Nat, 0, g)
  <2>1. ASSUME NEW k \in 0 .. n PROVE [v \in Nat |-> IF k = 0 THEN 0 ELSE 10 * v + Digit(k)] \in [Nat -> Nat]
    <3>1. k # 0 => Digit(k) \in Nat
      BY <1>3, <1>4
    <3>2. \A v \in Nat : (IF k = 0 THEN 0 ELSE 10 * v + Digit(k)) \in Nat
      BY <3>1
    <3> QED
      BY <3>2
  <2>2. g \in [0 .. n -> [Nat -> Nat]]
    BY <2>1, Zenon
  <2>3. 0 \in Nat /\ n \in Nat /\ 0 <= n
    BY <1>3
  <2> HIDE DEF g
  <2> QED
    BY <2>2, <2>3, Zenon DEF Step
<1>6. PICK f : Unrolled(0, n, Nat, 0, g, f)
  BY <1>5, Recursion
<1>7. \A k \in 0 .. n : k # 0 => k - 1 \in 0 .. n
  BY <1>3
<1>8. Fits(f)
  <2>1. \A k \in 0 .. n : k # 0 => f[k] = 10 * f[k - 1] + Digit(k)
    <3> SUFFICES ASSUME NEW k \in 0 .. n, k # 0 PROVE f[k] = 10 * f[k - 1] + Digit(k)
      OBVIOUS
    <3>1. f[k] = g[k][f[k - 1]] /\ f[k - 1] \in Nat
      BY <1>6, <1>7 DEF Unrolled
    <3> QED
      BY <3>1
  <2>2. \A k \in 0 .. n : f[k] = IF k = 0 THEN 0 ELSE 10 * f[k - 1] + Digit(k)
    BY <1>6, <2>1 DEF Unrolled
  <2> QED
    BY <1>6, <2>2, Zenon DEF Unrolled
<1>9. Fits(value)
  <2> HIDE DEF Fits
  <2> QED
    BY <1>8, Zenon
<1> HIDE DEF value
<1>10. value = [k \in 0 .. n |-> value[k]]
  BY <1>9, Zenon
<1> DEFINE T == {k \in 1 .. (n + 1) : value[k - 1] \in Nat}
<1>11. 1 \in T
  BY <1>3, <1>9
<1>12. ASSUME NEW k \in 1 .. ((n + 1) - 1), k \in T PROVE k + 1 \in T
  <2>1. k \in 1 .. n /\ k \in 0 .. n /\ k # 0 /\ k + 1 \in 1 .. (n + 1) /\ (k + 1) - 1 = k
    BY <1>3
  <2>2. value[k] = 10 * value[k - 1] + Digit(k)
    BY <1>9, <2>1, Zenon
  <2>3. value[k - 1] \in Nat /\ Digit(k) \in Nat
    BY <1>4, <1>12, <2>1
  <2> QED
    BY <2>1, <2>2, <2>3
<1>13. n + 1 \in T
  <2>1. n + 1 \in Nat /\ n + 1 \in 1 .. (n + 1)
    BY <1>3
  <2> HIDE DEF T
  <2> QED
    BY <1>11, <1>12, <2>1, Upward
<1> QED
  BY <1>1, <1>3, <1>13

LEMMA AtoiInt ==
  ASSUME NEW C, NEW s \in Seq(C)
  PROVE  atoi(s) \in Int
<1>1. NatOf(s) \in Nat /\ NatOf(From(s, 1)) \in Nat
  BY FromSeq, NatOfNat
<1>2. atoi(s) \in {0 - NatOf(From(s, 1)), NatOf(From(s, 1)), NatOf(s)}
  <2>1. atoi(s) = CASE IsPrefix("-", s) -> 0 - NatOf(From(s, 1))
                    [] IsPrefix("+", s) -> NatOf(From(s, 1))
                    [] OTHER -> NatOf(s)
    BY Zenon DEF atoi
  <2> DEFINE m == IsPrefix("-", s)
             p == IsPrefix("+", s)
  <2> HIDE DEF m, p
  <2>2. atoi(s) = CASE m -> 0 - NatOf(From(s, 1))
                    [] p -> NatOf(From(s, 1))
                    [] OTHER -> NatOf(s)
    BY <2>1, Zenon DEF m, p
  <2> QED
    BY <2>2
<1> QED
  BY <1>1, <1>2
=============================================================================
