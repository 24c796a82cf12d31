--------------------------- MODULE ResponseProofs ---------------------------
(* Theorems about Response, for every answer, every way to cut it into     *)
(* reads and every size of the buffer.                                     *)
EXTENDS Response, Foundations, FiniteSetTheorems

USE ResponseAssumption

Byte == STRING \cup {Nul}

-----------------------------------------------------------------------------
(* A set of natural numbers has a least one. *)
LEMMA HasMin ==
  ASSUME NEW T, T \subseteq Nat, T # {}
  PROVE  Min(T) \in T /\ \A y \in T : Min(T) <= y
<1> DEFINE R == StrictSubsetOrdering(Nat)
           Q == {1 .. n : n \in T}
<1>1. IsWellFoundedOn(R, FiniteSubsetsOf(Nat))
  BY FS_StrictSubsetOrderingWellFounded
<1>2. Q \subseteq FiniteSubsetsOf(Nat) /\ Q # {}
  <2>1. \A n \in T : 1 .. n \in FiniteSubsetsOf(Nat)
    BY FS_Interval DEF FiniteSubsetsOf
  <2> QED
    BY <2>1, ZenonT(60)
<1>3. PICK X \in Q : \A Y \in Q : ~ (<<Y, X>> \in R)
  <2> HIDE DEF R, Q
  <2> QED
    BY <1>1, <1>2, WFMin
<1>4. PICK x \in T : X = 1 .. x
  OBVIOUS
<1>5. ASSUME NEW y \in T PROVE x <= y
  <2>1. <<1 .. y, 1 .. x>> \notin R
    BY <1>3, <1>4
  <2>2. y < x => 1 .. y \subseteq 1 .. x /\ x \in 1 .. x /\ x \notin 1 .. y
    BY <1>4
  <2>3. y < x => <<1 .. y, 1 .. x>> \in R
    BY <2>2 DEF StrictSubsetOrdering
  <2> QED
    BY <2>1, <2>3, <1>4
<1> QED
  BY <1>4, <1>5 DEF Min

LEMMA MinIs ==
  ASSUME NEW T, T \subseteq Nat, NEW x \in T, \A y \in T : x <= y
  PROVE  Min(T) = x
<1>1. Min(T) \in T /\ Min(T) <= x /\ x <= Min(T)
  BY HasMin
<1>2. Min(T) \in Nat /\ x \in Nat
  BY <1>1
<1> QED
  BY <1>1, <1>2

LEMMA Cut ==
  ASSUME NEW s \in Seq(Byte), NEW m \in Nat \ {0}, NEW n \in Nat, m <= n + 1, n <= Len(s)
  PROVE  /\ SubSeq(s, m, n) \in Seq(Byte) /\ Len(SubSeq(s, m, n)) = n - m + 1
         /\ \A i \in 1 .. n - m + 1 : SubSeq(s, m, n)[i] = s[m + i - 1]
<1>1. \A i \in m .. n : s[i] \in Byte
  OBVIOUS
<1>2. /\ SubSeq(s, m, n) \in Seq(Byte)
      /\ Len(SubSeq(s, m, n)) = IF m <= n THEN n - m + 1 ELSE 0
      /\ \A i \in 1 .. n - m + 1 : SubSeq(s, m, n)[i] = s[m + i - 1]
  BY <1>1, SubSeqProperties
<1> QED
  BY <1>2

-----------------------------------------------------------------------------
(* The text of a buffer ends at its first NUL. *)
LEMMA TextEnds ==
  ASSUME NEW s \in Seq(Byte)
  PROVE  /\ CText(s) \in Seq(Byte) /\ Len(CText(s)) <= Len(s)
         /\ \A k \in 1 .. Len(CText(s)) : CText(s)[k] = s[k] /\ s[k] # Nul
         /\ Len(CText(s)) < Len(s) => s[Len(CText(s)) + 1] = Nul
         /\ Len(CText(s)) = Len(s) => CText(s) = s
<1> DEFINE nuls == {k \in DOMAIN s : s[k] = Nul}
<1>1. CASE nuls = {}
  <2>1. CText(s) = s
    BY <1>1 DEF CText
  <2> QED
    BY <1>1, <2>1
<1>2. CASE nuls # {}
  <2>1. nuls \subseteq Nat
    OBVIOUS
  <2> DEFINE e == Min(nuls)
  <2>2. e \in nuls /\ \A y \in nuls : e <= y
    <3> HIDE DEF nuls
    <3> QED
      BY <1>2, <2>1, HasMin
  <2>3. CText(s) = SubSeq(s, 1, e - 1)
    BY <1>2 DEF CText
  <2> HIDE DEF e
  <2>4. e \in 1 .. Len(s) /\ s[e] = Nul /\ \A k \in 1 .. e - 1 : s[k] # Nul
    BY <2>2
  <2>5. /\ CText(s) \in Seq(Byte) /\ Len(CText(s)) = e - 1
        /\ \A k \in 1 .. e - 1 : CText(s)[k] = s[k]
    <3>1. /\ SubSeq(s, 1, e - 1) \in Seq(Byte) /\ Len(SubSeq(s, 1, e - 1)) = (e - 1) - 1 + 1
          /\ \A i \in 1 .. (e - 1) - 1 + 1 : SubSeq(s, 1, e - 1)[i] = s[1 + i - 1]
      BY <2>4, Cut
    <3> QED
      BY <2>3, <2>4, <3>1
  <2> QED
    BY <2>4, <2>5
<1> QED
  BY <1>1, <1>2

LEMMA NoNul ==
  ASSUME NEW s \in Seq(Byte), Nul \notin Range(s)
  PROVE  CText(s) = s
<1>1. \A k \in 1 .. Len(s) : s[k] # Nul
  BY DEF Range
<1> QED
  BY <1>1, TextEnds

(* Where the empty line is, byte by byte. *)
EmptyLineAt(s, k) == s[k] = CR /\ s[k + 1] = LF /\ s[k + 2] = CR /\ s[k + 3] = LF

LEMMA HeadEndsAre ==
  ASSUME NEW s \in Seq(Byte)
  PROVE  HeadEnds(CText(s)) = {k \in 1 .. (Len(CText(s)) - 3) : EmptyLineAt(s, k)}
<1> DEFINE c == CText(s)
<1>1. Len(c) \in Nat /\ \A k \in 1 .. Len(c) : c[k] = s[k]
  BY TextEnds
<1> HIDE DEF c
<1>2. ASSUME NEW k \in Nat
      PROVE  k \in HeadEnds(c) <=> k \in 1 .. (Len(c) - 3) /\ EmptyLineAt(s, k)
  BY <1>1, SMTT(30) DEF HeadEnds, LineEnds, EmptyLineAt
<1>3. HeadEnds(c) \subseteq Nat
  BY <1>1 DEF HeadEnds, LineEnds
<1> QED
  BY <1>1, <1>2, <1>3 DEF c

LEMMA HeadMin ==
  ASSUME NEW s \in Seq(Byte), HeadEnds(CText(s)) # {}
  PROVE  LET k == Min(HeadEnds(CText(s)))
         IN  /\ k \in Nat \ {0} /\ k + 3 <= Len(CText(s)) /\ k + 3 <= Len(s)
             /\ EmptyLineAt(s, k)
             /\ \A j \in 1 .. (k - 1) : ~EmptyLineAt(s, j)
<1> DEFINE H == HeadEnds(CText(s))
<1>1. H = {k \in 1 .. (Len(CText(s)) - 3) : EmptyLineAt(s, k)}
  BY HeadEndsAre
<1>2. Len(CText(s)) \in Nat /\ Len(CText(s)) <= Len(s) /\ Len(s) \in Nat
  BY TextEnds
<1>3. H \subseteq Nat /\ H # {}
  BY <1>1
<1> HIDE DEF H
<1>4. Min(H) \in H /\ \A y \in H : Min(H) <= y
  BY <1>3, HasMin
<1> DEFINE k == Min(H)
<1>5. k \in 1 .. (Len(CText(s)) - 3) /\ EmptyLineAt(s, k)
  BY <1>1, <1>4
<1>6. ASSUME NEW j \in 1 .. (k - 1) PROVE ~EmptyLineAt(s, j)
  <2>1. j \notin H /\ j \in 1 .. (Len(CText(s)) - 3)
    BY <1>2, <1>4, <1>5
  <2> QED
    BY <1>1, <2>1
<1> QED
  BY <1>2, <1>5, <1>6 DEF H

(* The first empty line stays the first one, whatever arrives behind it. *)
LEMMA HeadStable ==
  ASSUME NEW q \in Seq(Byte), NEW m \in 0 .. Len(q), HeadEnds(CText(SubSeq(q, 1, m))) # {}
  PROVE  /\ HeadEnds(CText(q)) # {}
         /\ Min(HeadEnds(CText(q))) = Min(HeadEnds(CText(SubSeq(q, 1, m))))
         /\ HeadOf(q) = HeadOf(SubSeq(q, 1, m))
<1> DEFINE p == SubSeq(q, 1, m)
<1>1. p \in Seq(Byte) /\ Len(p) = m /\ \A i \in 1 .. m : p[i] = q[i]
  BY Cut
<1> HIDE DEF p
<1> DEFINE k == Min(HeadEnds(CText(p)))
<1>2. /\ k \in Nat \ {0} /\ k + 3 <= Len(CText(p)) /\ k + 3 <= m
      /\ EmptyLineAt(p, k)
      /\ \A j \in 1 .. (k - 1) : ~EmptyLineAt(p, j)
  BY <1>1, HeadMin DEF p
<1> HIDE DEF k
<1>3. EmptyLineAt(q, k) /\ \A j \in 1 .. (k - 1) : ~EmptyLineAt(q, j)
  BY <1>1, <1>2 DEF EmptyLineAt
<1>4. k + 3 <= Len(CText(q))
  <2>1. /\ Len(CText(p)) \in Nat /\ \A i \in 1 .. Len(CText(p)) : p[i] # Nul
    BY <1>1, TextEnds
  <2>2. /\ Len(CText(q)) \in Nat /\ Len(CText(q)) <= Len(q)
        /\ Len(CText(q)) < Len(q) => q[Len(CText(q)) + 1] = Nul
    BY TextEnds
  <2>3. \A i \in 1 .. k + 3 : q[i] # Nul
    BY <1>1, <1>2, <2>1
  <2> QED
    BY <1>2, <2>2, <2>3
<1>5. HeadEnds(CText(q)) = {j \in 1 .. (Len(CText(q)) - 3) : EmptyLineAt(q, j)}
  BY HeadEndsAre
<1>6. Len(CText(q)) \in Nat
  BY TextEnds
<1>7. k \in HeadEnds(CText(q)) /\ HeadEnds(CText(q)) \subseteq Nat
  BY <1>2, <1>3, <1>4, <1>5, <1>6
<1>8. \A j \in HeadEnds(CText(q)) : k <= j
  BY <1>2, <1>3, <1>5, <1>6
<1>9. Min(HeadEnds(CText(q))) = k
  BY <1>7, <1>8, MinIs
<1>10. HeadOf(q) = HeadOf(p)
  <2>1. SubSeq(q, 1, k + 1) = SubSeq(p, 1, k + 1)
    <3>1. /\ SubSeq(q, 1, k + 1) \in Seq(Byte) /\ Len(SubSeq(q, 1, k + 1)) = (k + 1) - 1 + 1
          /\ \A i \in 1 .. (k + 1) - 1 + 1 : SubSeq(q, 1, k + 1)[i] = q[1 + i - 1]
      BY <1>2, Cut
    <3>2. /\ SubSeq(p, 1, k + 1) \in Seq(Byte) /\ Len(SubSeq(p, 1, k + 1)) = (k + 1) - 1 + 1
          /\ \A i \in 1 .. (k + 1) - 1 + 1 : SubSeq(p, 1, k + 1)[i] = p[1 + i - 1]
      BY <1>1, <1>2, Cut
    <3>3. \A i \in 1 .. k + 1 : SubSeq(q, 1, k + 1)[i] = SubSeq(p, 1, k + 1)[i]
      BY <1>1, <1>2, <3>1, <3>2
    <3> QED
      BY <1>2, <3>1, <3>2, <3>3, SeqEqual
  <2> QED
    BY <1>9, <2>1 DEF HeadOf, k
<1> QED
  BY <1>7, <1>9, <1>10 DEF p, k

LEMMA CutJoins ==
  ASSUME NEW s \in Seq(Byte), NEW a \in Nat \ {0}, NEW b \in Nat, NEW c \in Nat,
         a <= b + 1, b <= c, c <= Len(s)
  PROVE  SubSeq(s, a, c) = SubSeq(s, a, b) \o SubSeq(s, b + 1, c)
<1> DEFINE l == SubSeq(s, a, b)
           r == SubSeq(s, b + 1, c)
           w == SubSeq(s, a, c)
<1>1. /\ l \in Seq(Byte) /\ Len(l) = b - a + 1 /\ \A i \in 1 .. b - a + 1 : l[i] = s[a + i - 1]
  BY Cut
<1>2. /\ r \in Seq(Byte) /\ Len(r) = c - (b + 1) + 1
      /\ \A i \in 1 .. c - (b + 1) + 1 : r[i] = s[(b + 1) + i - 1]
  BY Cut
<1>3. /\ w \in Seq(Byte) /\ Len(w) = c - a + 1 /\ \A i \in 1 .. c - a + 1 : w[i] = s[a + i - 1]
  BY Cut
<1> HIDE DEF l, r, w
<1>4. /\ l \o r \in Seq(Byte) /\ Len(l \o r) = Len(l) + Len(r)
      /\ \A i \in 1 .. Len(l) + Len(r) : (l \o r)[i] = IF i <= Len(l) THEN l[i] ELSE r[i - Len(l)]
  BY <1>1, <1>2, ConcatProperties, ZenonT(60)
<1>5. Len(l) + Len(r) = Len(w) /\ Len(w) \in Nat
  BY <1>1, <1>2, <1>3
<1>6. ASSUME NEW i \in 1 .. Len(w) PROVE w[i] = (l \o r)[i]
  <2>1. CASE i <= Len(l)
    BY <1>1, <1>3, <1>4, <1>5, <2>1
  <2>2. CASE i > Len(l)
    <3>1. /\ i - Len(l) \in 1 .. c - (b + 1) + 1
          /\ (b + 1) + (i - Len(l)) - 1 = a + i - 1
      BY <1>1, <1>3, <2>2
    <3>2. r[i - Len(l)] = s[a + i - 1]
      BY <1>2, <3>1
    <3>3. (l \o r)[i] = r[i - Len(l)]
      BY <1>1, <1>4, <1>5, <2>2, SMTT(30)
    <3> QED
      BY <1>3, <3>2, <3>3
  <2>3. i <= Len(l) \/ i > Len(l)
    BY <1>1, <1>3
  <2> QED
    BY <2>1, <2>2, <2>3, Zenon
<1>7. w = l \o r
  BY <1>3, <1>4, <1>5, <1>6, SeqEqual
<1> QED
  BY <1>7 DEF w, l, r

LEMMA CutOfCut ==
  ASSUME NEW s \in Seq(Byte), NEW b \in 0 .. Len(s), NEW a \in Nat \ {0}, NEW c \in Nat,
         a <= c + 1, c <= b
  PROVE  SubSeq(SubSeq(s, 1, b), a, c) = SubSeq(s, a, c)
<1> DEFINE p == SubSeq(s, 1, b)
<1>1. p \in Seq(Byte) /\ Len(p) = b /\ \A i \in 1 .. b : p[i] = s[i]
  BY Cut
<1> HIDE DEF p
<1>2. /\ SubSeq(p, a, c) \in Seq(Byte) /\ Len(SubSeq(p, a, c)) = c - a + 1
      /\ \A i \in 1 .. c - a + 1 : SubSeq(p, a, c)[i] = p[a + i - 1]
  BY <1>1, Cut
<1>3. /\ SubSeq(s, a, c) \in Seq(Byte) /\ Len(SubSeq(s, a, c)) = c - a + 1
      /\ \A i \in 1 .. c - a + 1 : SubSeq(s, a, c)[i] = s[a + i - 1]
  BY Cut
<1>4. \A i \in 1 .. c - a + 1 : a + i - 1 \in 1 .. b
  OBVIOUS
<1>5. SubSeq(p, a, c) = SubSeq(s, a, c)
  BY <1>1, <1>2, <1>3, <1>4, SeqEqual
<1> QED
  BY <1>5 DEF p

LEMMA AfterGrows ==
  ASSUME NEW q \in Seq(Byte), NEW m \in 0 .. Len(q), HeadEnds(CText(SubSeq(q, 1, m))) # {}
  PROVE  AfterHead(q) = AfterHead(SubSeq(q, 1, m)) \o SubSeq(q, m + 1, Len(q))
<1> DEFINE p == SubSeq(q, 1, m)
           k == Min(HeadEnds(CText(p)))
<1>1. p \in Seq(Byte) /\ Len(p) = m
  BY Cut
<1>2. Min(HeadEnds(CText(q))) = k
  BY HeadStable
<1> HIDE DEF p
<1>3. k \in Nat \ {0} /\ k + 3 <= m
  BY <1>1, HeadMin DEF p
<1>4. AfterHead(q) = SubSeq(q, k + 4, Len(q)) /\ AfterHead(p) = SubSeq(p, k + 4, m)
  BY <1>1, <1>2 DEF AfterHead
<1> HIDE DEF k
<1>5. SubSeq(p, k + 4, m) = SubSeq(q, k + 4, m)
  BY <1>3, CutOfCut DEF p
<1>6. SubSeq(q, k + 4, Len(q)) = SubSeq(q, k + 4, m) \o SubSeq(q, m + 1, Len(q))
  <2>1. k + 4 \in Nat \ {0} /\ m \in Nat /\ Len(q) \in Nat /\ k + 4 <= m + 1
        /\ m <= Len(q) /\ Len(q) <= Len(q)
    BY <1>3
  <2> DEFINE a == k + 4
  <2> HIDE DEF a
  <2>2. a \in Nat \ {0} /\ a <= m + 1
    BY <2>1 DEF a
  <2>3. \A u, v, w \in Nat : u # 0 /\ u <= v + 1 /\ v <= w /\ w <= Len(q)
           => SubSeq(q, u, w) = SubSeq(q, u, v) \o SubSeq(q, v + 1, w)
    <3> TAKE u, v, w \in Nat
    <3> HAVE u # 0 /\ u <= v + 1 /\ v <= w /\ w <= Len(q)
    <3>1. u \in Nat \ {0}
      OBVIOUS
    <3> QED
      BY ONLY q \in Seq(Byte), u \in Nat \ {0}, v \in Nat, w \in Nat,
              u <= v + 1, v <= w, w <= Len(q), CutJoins, Zenon
  <2>4. a \in Nat /\ a # 0
    BY <2>2
  <2>5. SubSeq(q, a, Len(q)) = SubSeq(q, a, m) \o SubSeq(q, m + 1, Len(q))
    <3>1. m \in Nat /\ Len(q) \in Nat /\ m <= Len(q) /\ Len(q) <= Len(q)
      BY <2>1
    <3> QED
      BY ONLY <2>2, <2>3, <2>4, <3>1, Zenon
  <2> QED
    BY <2>5 DEF a
<1> QED
  BY <1>4, <1>5, <1>6 DEF p

(* What is behind the header is part of what arrived. *)
LEMMA AfterIsPart ==
  ASSUME NEW s \in Seq(Byte), HeadEnds(CText(s)) # {}
  PROVE  /\ AfterHead(s) \in Seq(Byte) /\ Len(AfterHead(s)) <= Len(s)
         /\ Nul \notin Range(s) => Nul \notin Range(AfterHead(s))
<1> DEFINE k == Min(HeadEnds(CText(s)))
<1>1. k \in Nat \ {0} /\ k + 3 <= Len(s)
  BY HeadMin
<1>2. AfterHead(s) = SubSeq(s, k + 4, Len(s))
  BY DEF AfterHead
<1> HIDE DEF k
<1>3. /\ AfterHead(s) \in Seq(Byte) /\ Len(AfterHead(s)) = Len(s) - (k + 4) + 1
      /\ \A i \in 1 .. Len(s) - (k + 4) + 1 : AfterHead(s)[i] = s[(k + 4) + i - 1]
  BY <1>1, <1>2, Cut
<1>4. Len(AfterHead(s)) <= Len(s)
  BY <1>1, <1>3
<1>5. ASSUME Nul \notin Range(s) PROVE Nul \notin Range(AfterHead(s))
  <2>1. \A i \in 1 .. Len(s) : s[i] # Nul
    BY <1>5 DEF Range
  <2>2. \A i \in 1 .. Len(AfterHead(s)) : AfterHead(s)[i] # Nul
    <3> SUFFICES ASSUME NEW i \in 1 .. Len(AfterHead(s)) PROVE AfterHead(s)[i] # Nul
      OBVIOUS
    <3>1. (k + 4) + i - 1 \in 1 .. Len(s) /\ i \in 1 .. Len(s) - (k + 4) + 1
      BY <1>1, <1>3
    <3> QED
      BY <1>3, <2>1, <3>1
  <2> QED
    BY <1>3, <2>2 DEF Range
<1> QED
  BY <1>3, <1>4, <1>5

LEMMA PrefixRange ==
  ASSUME NEW q \in Seq(Byte), NEW m \in 0 .. Len(q), Nul \notin Range(q)
  PROVE  Nul \notin Range(SubSeq(q, 1, m))
<1>1. /\ SubSeq(q, 1, m) \in Seq(Byte) /\ Len(SubSeq(q, 1, m)) = m
      /\ \A i \in 1 .. m : SubSeq(q, 1, m)[i] = q[i]
  BY Cut
<1> QED
  BY <1>1 DEF Range

-----------------------------------------------------------------------------
Basics ==
  /\ stream \in Streams /\ got \in 0 .. Len(stream)
  /\ body \in Seq(Byte) /\ Len(body) <= got
  /\ trunc_head \in BOOLEAN

HeadFound == HeadEnds(CText(Arrived)) # {}

ReadInv ==
  pc # "undefined" =>
    /\ ~HeadFound => header = Null /\ ~trunc_head /\ body = Arrived
    /\ HeadFound =>
         /\ header = parse_header(HeadOf(Arrived))
         /\ pc = "read" => trunc_head
         /\ trunc_head /\ Nul \notin Range(Arrived) => body = AfterHead(Arrived)

LEMMA ArrivedIs ==
  ASSUME Basics
  PROVE  stream \in Seq(Byte) /\ Arrived \in Seq(Byte) /\ Len(Arrived) = got
<1>1. stream \in Seq(Byte) /\ got \in Nat /\ got <= Len(stream)
  BY DEF Basics, Byte, ResponseAssumption
<1> QED
  BY <1>1, Cut DEF Arrived

(* What a read does to what has arrived. *)
LEMMA ReadGrows ==
  ASSUME Basics, NEW n \in 1 .. READ_MAX, Read(n)
  PROVE  /\ stream' = stream /\ got' = got + n /\ got' \in 0 .. Len(stream)
         /\ Arrived' \in Seq(Byte) /\ Len(Arrived') = got'
         /\ SubSeq(Arrived', 1, got) = Arrived
         /\ Arrived' = Arrived \o SubSeq(stream, got + 1, got + n)
         /\ SubSeq(Arrived', got + 1, got') = SubSeq(stream, got + 1, got + n)
         /\ With(n) \in Seq(Byte) /\ Len(With(n)) = Len(body) + n
<1>1. /\ stream \in Seq(Byte) /\ got \in Nat /\ n \in Nat \ {0} /\ got + n <= Len(stream)
      /\ got' = got + n /\ stream' = stream /\ pc = "read"
  BY ArrivedIs DEF Basics, Read, ResponseAssumption
<1>2. Arrived' = SubSeq(stream, 1, got + n)
  BY <1>1 DEF Arrived
<1>3. SubSeq(stream, 1, got + n) \in Seq(Byte) /\ Len(SubSeq(stream, 1, got + n)) = got + n
  BY <1>1, Cut
<1>4. SubSeq(SubSeq(stream, 1, got + n), 1, got) = SubSeq(stream, 1, got)
  BY <1>1, CutOfCut
<1>5. SubSeq(stream, 1, got + n) = SubSeq(stream, 1, got) \o SubSeq(stream, got + 1, got + n)
  BY <1>1, CutJoins
<1>6. SubSeq(SubSeq(stream, 1, got + n), got + 1, got + n) = SubSeq(stream, got + 1, got + n)
  BY <1>1, CutOfCut
<1>7. With(n) \in Seq(Byte) /\ Len(With(n)) = Len(body) + n
  <2>1. /\ SubSeq(stream, got + 1, got + n) \in Seq(Byte)
        /\ Len(SubSeq(stream, got + 1, got + n)) = n
    BY <1>1, Cut
  <2> QED
    BY <2>1, ConcatProperties DEF With, Basics
<1> QED
  BY <1>1, <1>2, <1>3, <1>4, <1>5, <1>6, <1>7 DEF Arrived

LEMMA ReadKeepsBasics ==
  ASSUME Basics, NEW n \in 1 .. READ_MAX, Read(n), body' = body, trunc_head' \in BOOLEAN
  PROVE  Basics'
<1>1. stream' = stream /\ got' = got + n /\ got' \in 0 .. Len(stream)
  BY ReadGrows
<1>2. got \in Nat /\ n \in Nat /\ Len(body) \in Nat /\ Len(body) <= got
  BY DEF Basics, ResponseAssumption
<1>3. Len(body) <= got'
  BY <1>1, <1>2
<1> QED
  BY <1>1, <1>3 DEF Basics

(* Until the header is there, the buffer is what has arrived. *)
LEMMA BufferIsArrived ==
  ASSUME Basics, NEW n \in 1 .. READ_MAX, Read(n), body = Arrived
  PROVE  With(n) = Arrived'
  BY ReadGrows DEF With

LEMMA HeaderArrives ==
  ASSUME Basics, ReadInv, NEW n \in 1 .. READ_MAX, EndsHeader(n)
  PROVE  With(n) = Arrived' /\ HeadFound'
<1>1. Read(n) /\ ~trunc_head /\ HeadEnds(CText(With(n))) # {} /\ pc = "read"
  BY DEF EndsHeader, Read
<1>2. body = Arrived
  BY <1>1 DEF ReadInv
<1>3. With(n) = Arrived'
  BY <1>1, <1>2, BufferIsArrived
<1> QED
  BY <1>1, <1>3 DEF HeadFound

LEMMA ReadMoreStep ==
  ASSUME Basics, ReadInv, NEW n \in 1 .. READ_MAX, ReadMore(n)
  PROVE  Basics' /\ ReadInv'
<1>1. /\ Read(n) /\ pc = "read" /\ pc' = pc /\ body' = With(n) /\ UNCHANGED <<trunc_head, header>>
      /\ trunc_head \/ HeadEnds(CText(With(n))) = {}
  BY DEF ReadMore, Read
<1>2. Basics'
  BY <1>1, ReadGrows DEF Basics
<1>3. CASE trunc_head
  <2>1. HeadFound /\ header = parse_header(HeadOf(Arrived))
    BY <1>1, <1>3 DEF ReadInv
  <2>2. /\ Arrived' \in Seq(Byte) /\ got \in 0 .. Len(Arrived') /\ Len(Arrived') = got'
        /\ SubSeq(Arrived', 1, got) = Arrived
        /\ SubSeq(Arrived', got + 1, got') = SubSeq(stream, got + 1, got + n)
    BY <1>1, ReadGrows, SMTT(30) DEF Basics
  <2>3. HeadFound' /\ HeadOf(Arrived') = HeadOf(Arrived)
    <3>1. HeadEnds(CText(SubSeq(Arrived', 1, got))) # {}
      BY <2>1, <2>2 DEF HeadFound
    <3>2. HeadEnds(CText(Arrived')) # {} /\ HeadOf(Arrived') = HeadOf(SubSeq(Arrived', 1, got))
      BY <2>2, <3>1, HeadStable
    <3> QED
      BY <2>2, <3>2 DEF HeadFound
  <2>4. ASSUME Nul \notin Range(Arrived')
        PROVE  body' = AfterHead(Arrived')
    <3>1. Nul \notin Range(Arrived)
      BY <1>1, <2>2, <2>4, PrefixRange
    <3>2. body = AfterHead(Arrived)
      BY <1>1, <1>3, <2>1, <3>1 DEF ReadInv
    <3>3. AfterHead(Arrived') = AfterHead(Arrived) \o SubSeq(Arrived', got + 1, got')
      <4>1. HeadEnds(CText(SubSeq(Arrived', 1, got))) # {}
        BY <2>1, <2>2 DEF HeadFound
      <4> QED
        BY <2>2, <4>1, AfterGrows
    <3> QED
      BY <1>1, <2>2, <3>2, <3>3 DEF With
  <2> QED
    BY <1>1, <1>2, <1>3, <2>1, <2>3, <2>4 DEF ReadInv
<1>4. CASE ~trunc_head
  <2>1. ~HeadFound /\ body = Arrived /\ header = Null
    BY <1>1, <1>4 DEF ReadInv
  <2>2. With(n) = Arrived'
    BY <1>1, <2>1, BufferIsArrived
  <2>3. ~HeadFound'
    BY <1>1, <1>4, <2>2 DEF HeadFound
  <2> QED
    BY <1>1, <1>2, <1>4, <2>1, <2>2, <2>3 DEF ReadInv
<1> QED
  BY <1>3, <1>4

LEMMA ReadHeaderStep ==
  ASSUME Basics, ReadInv, NEW n \in 1 .. READ_MAX, ReadHeader(n)
  PROVE  Basics' /\ ReadInv'
<1>1. /\ EndsHeader(n) /\ Read(n) /\ header' = parse_header(HeadOf(With(n))) /\ trunc_head' = TRUE
      /\ body' = CText(AfterHead(With(n)))
  BY DEF ReadHeader, EndsHeader
<1>2. With(n) = Arrived' /\ HeadFound'
  BY <1>1, HeaderArrives
<1>3. /\ stream' = stream /\ got' \in 0 .. Len(stream)
      /\ Arrived' \in Seq(Byte) /\ Len(Arrived') = got'
  BY <1>1, ReadGrows
<1> DEFINE a == AfterHead(Arrived')
<1>4. a \in Seq(Byte) /\ Len(a) <= got' /\ (Nul \notin Range(Arrived') => Nul \notin Range(a))
  <2>1. HeadEnds(CText(Arrived')) # {}
    BY <1>2 DEF HeadFound
  <2> QED
    BY <1>3, <2>1, AfterIsPart
<1>5. body' = CText(a)
  BY <1>1, <1>2
<1>6. header' = parse_header(HeadOf(Arrived'))
  BY <1>1, <1>2
<1> HIDE DEF a
<1>7. CText(a) \in Seq(Byte) /\ Len(CText(a)) <= Len(a)
  BY <1>4, TextEnds
<1>8. Basics'
  <2>1. Len(CText(a)) \in Nat /\ Len(a) \in Nat /\ got' \in Nat
    BY <1>3, <1>4, <1>7
  <2> QED
    BY <1>1, <1>3, <1>4, <1>5, <1>7, <2>1 DEF Basics
<1>9. Nul \notin Range(Arrived') => body' = AfterHead(Arrived')
  BY <1>4, <1>5, NoNul DEF a
<1> QED
  BY <1>1, <1>2, <1>6, <1>8, <1>9 DEF ReadInv

LEMMA ReadRejectedStep ==
  ASSUME Basics, ReadInv, NEW n \in 1 .. READ_MAX, ReadRejected(n)
  PROVE  Basics' /\ ReadInv'
<1>1. /\ EndsHeader(n) /\ Read(n) /\ header' = parse_header(HeadOf(With(n)))
      /\ pc' = "leave" /\ trunc_head' = FALSE /\ body' = body
  BY DEF ReadRejected, EndsHeader, Basics
<1>2. With(n) = Arrived' /\ HeadFound'
  BY <1>1, HeaderArrives
<1>3. Basics'
  BY <1>1, ReadKeepsBasics
<1> QED
  BY <1>1, <1>2, <1>3 DEF ReadInv

LEMMA ReadOverrunsStep ==
  ASSUME Basics, ReadInv, NEW n \in 1 .. READ_MAX, ReadOverruns(n)
  PROVE  Basics' /\ ReadInv' /\ got' >= HTML_MAXLEN
<1>1. Read(n) /\ pc' = "undefined" /\ UNCHANGED <<body, trunc_head>> /\ Len(With(n)) >= HTML_MAXLEN
  BY DEF ReadOverruns
<1>2. Basics'
  BY <1>1, ReadKeepsBasics DEF Basics
<1>3. got' >= HTML_MAXLEN
  <2>1. Len(With(n)) = Len(body) + n /\ got' = got + n /\ Len(body) <= got
    BY <1>1, ReadGrows DEF Basics
  <2>2. Len(body) \in Nat /\ got \in Nat /\ n \in Nat /\ HTML_MAXLEN \in Nat
    BY DEF Basics, ResponseAssumption
  <2> QED
    BY <1>1, <2>1, <2>2
<1> QED
  BY <1>1, <1>2, <1>3 DEF ReadInv

(* The steps behind the reading. *)
LEMMA ReadOverStep ==
  ASSUME Basics, ReadInv, UNCHANGED <<stream, readVars>>, pc # "undefined", pc' = "read" => pc = "read"
  PROVE  Basics' /\ ReadInv'
<1>1. UNCHANGED <<stream, got, body, trunc_head, header>>
  BY DEF readVars
<1>2. Arrived' = Arrived
  BY <1>1 DEF Arrived
<1>3. HeadFound' = HeadFound
  BY <1>2 DEF HeadFound
<1> QED
  BY <1>1, <1>2, <1>3 DEF Basics, ReadInv

-----------------------------------------------------------------------------
(* What savehtml has written, and why the process may be gone. *)
SaveInv ==
  /\ pc = "read" => ~fd /\ file = Null
  /\ pc \in {"save", "write"} => "savehtml" \in modules /\ (HeadFound => trunc_head)
  /\ pc = "save" => ~fd /\ file = Null
  /\ pc = "write" =>
       /\ fd /\ HeadFound
       /\ file \in Seq(Byte) /\ left \in 0 .. Len(body) /\ Len(file) = Len(body) - left
       /\ ~short => (left = Len(body) /\ file = <<>>) \/ (left = 0 /\ file = body)
  /\ pc \in {"leave", "end", "crashed"} => ~fd
  /\ pc \in {"leave", "end", "crashed"} /\ file # Null =>
       /\ HeadFound /\ trunc_head
       /\ Len(file) = Len(body)
       /\ ~short => file = body
  /\ pc = "undefined" => ~fd /\ file = Null
  /\ pc \in {"read", "save", "write", "leave", "end", "crashed", "undefined"}

LEMMA SaveRead ==
  ASSUME SaveInv, pc = "read", pc' \in {"read", "leave", "undefined"}, UNCHANGED <<modules, saveVars>>
  PROVE  SaveInv'
  BY DEF SaveInv, saveVars

(* Of a step that reads nothing. *)
LEMMA FoundSame ==
  ASSUME UNCHANGED <<stream, readVars>>
  PROVE  /\ HeadFound' = HeadFound /\ Arrived' = Arrived
         /\ UNCHANGED <<body, got, trunc_head, header>>
<1>1. UNCHANGED <<body, got, trunc_head, header>>
  BY DEF readVars
<1>2. Arrived' = Arrived
  BY <1>1 DEF Arrived
<1> QED
  BY <1>1, <1>2 DEF HeadFound

LEMMA WriteStep ==
  ASSUME Basics, SaveInv, NEW n \in 1 .. HTML_MAXLEN, Write(n)
  PROVE  SaveInv'
<1>1. /\ pc = "write" /\ n <= left /\ file' = file \o SubSeq(body, 1, n) /\ left' = left - n
      /\ short' = (short \/ n < left)
      /\ UNCHANGED <<modules, stream, pc, readVars, fd>>
  BY DEF Write
<1>2. HeadFound' = HeadFound /\ UNCHANGED <<body, trunc_head>>
  BY <1>1, FoundSame
<1>3. /\ fd /\ HeadFound /\ "savehtml" \in modules /\ trunc_head
      /\ file \in Seq(Byte) /\ left \in 0 .. Len(body) /\ Len(file) = Len(body) - left
      /\ ~short => (left = Len(body) /\ file = <<>>) \/ (left = 0 /\ file = body)
  BY <1>1 DEF SaveInv
<1>4. n \in Nat \ {0} /\ body \in Seq(Byte) /\ Len(body) \in Nat
  BY DEF Basics, ResponseAssumption
<1>5. /\ SubSeq(body, 1, n) \in Seq(Byte) /\ Len(SubSeq(body, 1, n)) = n
      /\ \A i \in 1 .. n : SubSeq(body, 1, n)[i] = body[i]
  BY <1>1, <1>3, <1>4, Cut
<1>6. file' \in Seq(Byte) /\ Len(file') = Len(file) + n
  <2> DEFINE piece == SubSeq(body, 1, n)
  <2>1. piece \in Seq(Byte) /\ Len(piece) = n /\ file' = file \o piece /\ file \in Seq(Byte)
    BY <1>1, <1>3, <1>5
  <2> HIDE DEF piece
  <2>2. file \o piece \in Seq(Byte) /\ Len(file \o piece) = Len(file) + Len(piece)
    BY <2>1, ConcatProperties
  <2> QED
    BY <2>1, <2>2
<1>a. left \in Nat /\ left <= Len(body) /\ Len(body) \in Nat /\ n \in Nat /\ n <= left
  <2>1. left \in 0 .. Len(body) /\ n <= left
    BY <1>1, <1>3
  <2> QED
    BY <1>4, <2>1
<1>7. left' \in 0 .. Len(body) /\ Len(file') = Len(body) - left'
  <2>1. left' = left - n /\ Len(file') = Len(file) + n /\ Len(file) = Len(body) - left
    BY <1>1, <1>3, <1>6
  <2> QED
    BY <1>a, <2>1
<1>8. ASSUME ~short' PROVE left' = 0 /\ file' = body
  <2>1. ~short /\ n = left
    <3>1. ~(short \/ n < left)
      BY <1>1, <1>8, Zenon
    <3>2. ~(n < left)
      BY <3>1
    <3>3. n = left
      BY <1>a, <3>2
    <3> QED
      BY <3>1, <3>3
  <2>2. left = Len(body) /\ file = <<>> /\ n = Len(body)
    <3>1. left # 0
      BY <1>4, <2>1
    <3>2. left = Len(body) /\ file = <<>>
      BY <1>3, <2>1, <3>1
    <3> QED
      BY <2>1, <3>2
  <2>3. SubSeq(body, 1, n) = body
    BY <1>4, <1>5, <2>2, SeqEqual
  <2>4. file' = SubSeq(body, 1, n)
    BY <1>1, <1>5, <2>2, ConcatEmptySeq
  <2> QED
    BY <1>1, <1>4, <2>1, <2>3, <2>4
<1> QED
  BY <1>1, <1>2, <1>3, <1>6, <1>7, <1>8 DEF SaveInv

LEMMA OpenStep ==
  ASSUME Basics, ReadInv, SaveInv, Open
  PROVE  SaveInv'
<1>1. /\ pc = "save" /\ pc' = "write" /\ HasType /\ fd' = TRUE /\ file' = <<>> /\ left' = Len(body)
      /\ UNCHANGED <<modules, stream, readVars>>
  BY DEF Open
<1>2. HeadFound' = HeadFound /\ UNCHANGED <<body, trunc_head>>
  BY <1>1, FoundSame
<1>3. HeadFound
  BY <1>1 DEF HasType, ReadInv
<1>4. Len(body) \in Nat /\ <<>> \in Seq(Byte) /\ Len(<<>>) = 0
  BY EmptySeq DEF Basics
<1>5. file' \in Seq(Byte) /\ left' \in 0 .. Len(body) /\ Len(file') = Len(body) - left'
  BY <1>1, <1>4
<1> QED
  BY <1>1, <1>2, <1>3, <1>5 DEF SaveInv

LEMMA SaveStep ==
  ASSUME Basics, ReadInv, SaveInv, Next
  PROVE  SaveInv'
<1>1. ASSUME NEW n \in 1 .. READ_MAX,
             ReadOverruns(n) \/ ReadMore(n) \/ ReadHeader(n) \/ ReadRejected(n)
      PROVE  SaveInv'
  <2>1. pc = "read" /\ UNCHANGED <<modules, saveVars>> /\ pc' \in {"read", "leave", "undefined"}
    BY <1>1 DEF ReadOverruns, ReadMore, ReadHeader, ReadRejected, EndsHeader, Read
  <2> QED
    BY <2>1, SaveRead
<1>2. CASE ReadFails
  BY <1>2, SaveRead DEF ReadFails
<1>3. CASE Eof
  <2>1. /\ pc = "read" /\ UNCHANGED <<modules, fd, file, left, short>>
        /\ pc' = IF "savehtml" \in modules THEN "save" ELSE "leave"
    BY <1>3 DEF Eof, saveVars
  <2>2. HeadFound' = HeadFound /\ trunc_head' = trunc_head
    BY <1>3, FoundSame DEF Eof
  <2>3. HeadFound => trunc_head
    BY <2>1 DEF ReadInv
  <2> QED
    BY <2>1, <2>2, <2>3 DEF SaveInv
<1>4. CASE SaveCrashes \/ NotSaved
  BY <1>4 DEF SaveCrashes, NotSaved, SaveInv, saveVars
<1>5. CASE Open
  BY <1>5, OpenStep
<1>6. ASSUME NEW n \in 1 .. HTML_MAXLEN, Write(n) PROVE SaveInv'
  BY <1>6, WriteStep
<1>7. CASE WriteFails
  BY <1>7 DEF WriteFails, SaveInv
<1>8. CASE Close
  <2>1. /\ pc = "write" /\ pc' = "leave" /\ left = 0 /\ fd' = FALSE
        /\ UNCHANGED <<modules, stream, file, left, short>>
    BY <1>8 DEF Close
  <2>2. HeadFound' = HeadFound /\ UNCHANGED <<body, trunc_head>>
    BY <1>8, FoundSame DEF Close
  <2>3. /\ HeadFound /\ trunc_head /\ Len(file) = Len(body)
        /\ ~short => file = body
    <3>1. body = <<>> \/ Len(body) # 0
      BY EmptySeq DEF Basics
    <3>2. Len(body) \in Nat
      BY DEF Basics
    <3> QED
      BY <2>1, <3>1, <3>2 DEF SaveInv
  <2> QED
    BY <2>1, <2>2, <2>3 DEF SaveInv
<1>9. CASE Leave
  <2>1. HeadFound' = HeadFound /\ UNCHANGED <<body, trunc_head>>
    BY <1>9, FoundSame DEF Leave
  <2> QED
    BY <1>9, <2>1 DEF Leave, SaveInv, saveVars
<1> QED
  BY <1>1, <1>2, <1>3, <1>4, <1>5, <1>6, <1>7, <1>8, <1>9 DEF Next

-----------------------------------------------------------------------------
IInv == Basics /\ ReadInv /\ SaveInv

LEMMA InitIInv == Init => IInv
<1> SUFFICES ASSUME Init PROVE IInv
  OBVIOUS
<1>1. stream \in Seq(Byte) /\ Len(stream) \in Nat /\ <<>> \in Seq(Byte) /\ Len(<<>>) = 0
  BY EmptySeq DEF Init, ResponseAssumption, Byte
<1>2. Basics
  <2>1. stream \in Streams /\ got = 0 /\ body = <<>> /\ trunc_head = FALSE
    BY DEF Init
  <2>2. got \in 0 .. Len(stream) /\ body \in Seq(Byte) /\ Len(body) <= got
    BY <1>1, <2>1
  <2> QED
    BY <2>1, <2>2 DEF Basics
<1>3. Arrived = <<>>
  <2>1. Arrived \in Seq(Byte) /\ Len(Arrived) = 0
    BY <1>2, ArrivedIs DEF Init
  <2> QED
    BY <2>1, EmptySeq
<1>4. ~HeadFound
  <2> SUFFICES ASSUME HeadFound PROVE FALSE
    OBVIOUS
  <2>1. Min(HeadEnds(CText(Arrived))) \in Nat \ {0} /\ Min(HeadEnds(CText(Arrived))) + 3 <= 0
    BY <1>1, <1>3, HeadMin DEF HeadFound
  <2> QED
    BY <2>1
<1>5. ReadInv
  BY <1>3, <1>4 DEF Init, ReadInv
<1>6. SaveInv
  BY DEF Init, SaveInv
<1> QED
  BY <1>2, <1>5, <1>6 DEF IInv

LEMMA ReadStep ==
  ASSUME Basics, ReadInv, Next
  PROVE  Basics' /\ ReadInv'
<1>1. ASSUME NEW n \in 1 .. READ_MAX,
             ReadOverruns(n) \/ ReadMore(n) \/ ReadHeader(n) \/ ReadRejected(n)
      PROVE  Basics' /\ ReadInv'
  BY <1>1, ReadOverrunsStep, ReadMoreStep, ReadHeaderStep, ReadRejectedStep
<1>2. ASSUME ReadFails \/ Eof \/ SaveCrashes \/ NotSaved \/ Open \/ WriteFails \/ Close \/ Leave
      PROVE  Basics' /\ ReadInv'
  <2>1. UNCHANGED <<stream, readVars>> /\ pc # "undefined" /\ pc' # "read"
    BY <1>2 DEF ReadFails, Eof, SaveCrashes, NotSaved, Open, WriteFails, Close, Leave
  <2> QED
    BY <2>1, ReadOverStep
<1>3. ASSUME NEW n \in 1 .. HTML_MAXLEN, Write(n)
      PROVE  Basics' /\ ReadInv'
  <2>1. UNCHANGED <<stream, readVars>> /\ pc # "undefined" /\ pc' = pc
    BY <1>3 DEF Write
  <2> QED
    BY <2>1, ReadOverStep
<1> QED
  BY <1>1, <1>2, <1>3 DEF Next

LEMMA Invariant == Spec => []IInv
<1>1. IInv /\ Next => IInv'
  BY ReadStep, SaveStep DEF IInv
<1>2. IInv /\ UNCHANGED vars => IInv'
  <2> SUFFICES ASSUME IInv, UNCHANGED vars PROVE IInv'
    OBVIOUS
  <2>1. /\ UNCHANGED <<stream, readVars, modules, pc, saveVars>>
        /\ UNCHANGED <<got, body, trunc_head, header, fd, file, left, short>>
    BY DEF vars, readVars, saveVars
  <2>2. HeadFound' = HeadFound /\ Arrived' = Arrived
    BY <2>1, FoundSame
  <2> QED
    BY <2>1, <2>2 DEF IInv, Basics, ReadInv, SaveInv
<1> QED
  BY <1>1, <1>2, InitIInv, PTL DEF Spec

(* ChunksAgree, of the read loop: what is taken for the header and the     *)
(* body depends on the bytes that came and not on how read cut them.       *)
THEOREM ChunkingIsInvisible == Spec => []ChunksAgree
<1>1. IInv => ChunksAgree
  <2> SUFFICES ASSUME IInv, pc # "undefined", Nul \notin Range(Arrived) PROVE
        IF HeadEnds(Arrived) = {}
        THEN header = Null /\ ~trunc_head /\ body = Arrived
        ELSE /\ header = parse_header(HeadOf(Arrived))
             /\ trunc_head => body = AfterHead(Arrived)
             /\ pc = "read" => trunc_head
    BY DEF ChunksAgree
  <2>1. CText(Arrived) = Arrived
    BY ArrivedIs, NoNul DEF IInv
  <2>2. HeadFound <=> HeadEnds(Arrived) # {}
    BY <2>1 DEF HeadFound
  <2> QED
    BY <2>2 DEF IInv, ReadInv
<1> QED
  BY <1>1, Invariant, PTL

(* FileWhole, of savehtml: what is on disk is as long as the body, and is  *)
(* the server's body when no write was short and no NUL came.              *)
THEOREM FilesWhole == Spec => []FileWhole
<1>1. IInv => FileWhole
  <2> SUFFICES ASSUME IInv, ~fd, file # Null
               PROVE  /\ Len(file) = Len(body)
                      /\ ~short /\ Nul \notin Range(Arrived) => file = AfterHead(Arrived)
    BY DEF FileWhole
  <2>1. pc \in {"leave", "end", "crashed"}
    BY DEF IInv, SaveInv
  <2> QED
    BY <2>1 DEF IInv, SaveInv, ReadInv
<1> QED
  BY <1>1, Invariant, PTL

-----------------------------------------------------------------------------
(* What parse_header makes of text: a number and a text again.             *)
Empty == ""

LEMMA JoinTyped ==
  ASSUME NEW C, Empty \in Seq(C), NEW s \in Seq(Seq(C))
  PROVE  StringOf(s) \in Seq(C)
<1> DEFINE n == Len(s)
           Fits(f) == f = [k \in 0 .. n |-> IF k = 0 THEN Empty ELSE f[k - 1] \o s[k]]
           upTo == CHOOSE f : Fits(f)
           g == [k \in 0 .. n |-> [v \in Seq(C) |-> IF k = 0 THEN v ELSE v \o s[k]]]
<1>1. StringOf(s) = upTo[n]
  BY Zenon DEF StringOf, Empty
<1>2. n \in Nat /\ \A k \in 1 .. n : s[k] \in Seq(C)
  OBVIOUS
<1> HIDE DEF n
<1>3. Step(0, n, Seq(C), Empty, g)
  <2>1. ASSUME NEW k \in 0 .. n
        PROVE  [v \in Seq(C) |-> IF k = 0 THEN v ELSE v \o s[k]] \in [Seq(C) -> Seq(C)]
    <3>1. k # 0 => s[k] \in Seq(C)
      BY <1>2
    <3>2. \A v \in Seq(C) : (IF k = 0 THEN v ELSE v \o s[k]) \in Seq(C)
      BY <3>1, ConcatProperties
    <3> QED
      BY <3>2
  <2>2. g \in [0 .. n -> [Seq(C) -> Seq(C)]]
    BY <2>1, Zenon
  <2> HIDE DEF g
  <2> QED
    BY <1>2, <2>2 DEF Step
<1>4. PICK f : Unrolled(0, n, Seq(C), Empty, g, f)
  BY <1>3, Recursion
<1>5. \A k \in 0 .. n : k # 0 => k - 1 \in 0 .. n
  BY <1>2
<1>6. Fits(f)
  <2>1. \A k \in 0 .. n : k # 0 => f[k] = f[k - 1] \o s[k]
    <3> SUFFICES ASSUME NEW k \in 0 .. n, k # 0 PROVE f[k] = f[k - 1] \o s[k]
      OBVIOUS
    <3>1. f[k] = g[k][f[k - 1]] /\ f[k - 1] \in Seq(C)
      BY <1>4, <1>5 DEF Unrolled
    <3> QED
      BY <3>1
  <2>2. \A k \in 0 .. n : f[k] = IF k = 0 THEN Empty ELSE f[k - 1] \o s[k]
    BY <1>4, <2>1, Zenon DEF Unrolled
  <2> QED
    BY <1>4, <2>2, Zenon DEF Unrolled
<1>7. Fits(upTo)
  <2> HIDE DEF Fits
  <2> QED
    BY <1>6, Zenon
<1> HIDE DEF upTo
<1>8. \A k \in 0 .. n : upTo[k] = IF k = 0 THEN Empty ELSE upTo[k - 1] \o s[k]
  BY <1>7, Zenon
<1> DEFINE T == {k \in 1 .. (n + 1) : upTo[k - 1] \in Seq(C)}
<1>9. 1 \in T
  <2>1. 0 \in 0 .. n /\ 1 \in 1 .. (n + 1) /\ 1 - 1 = 0
    BY <1>2
  <2>2. upTo[0] = Empty
    BY <1>8, <2>1
  <2> QED
    BY <2>1, <2>2
<1>10. ASSUME NEW k \in 1 .. ((n + 1) - 1), k \in T PROVE k + 1 \in T
  <2>1. k \in 1 .. n /\ k \in 0 .. n /\ k # 0 /\ k + 1 \in 1 .. (n + 1) /\ (k + 1) - 1 = k
    BY <1>2
  <2>2. upTo[k - 1] \in Seq(C) /\ s[k] \in Seq(C)
    BY <1>2, <1>10, <2>1
  <2>3. upTo[k] = upTo[k - 1] \o s[k]
    BY <1>8, <2>1
  <2>4. upTo[k] \in Seq(C)
    BY <2>2, <2>3, ConcatProperties
  <2> QED
    BY <2>1, <2>4
<1>11. n + 1 \in T
  <2>1. n + 1 \in Nat /\ n + 1 \in 1 .. (n + 1)
    BY <1>2
  <2> HIDE DEF T
  <2> QED
    BY <1>9, <1>10, <2>1, Upward
<1>12. upTo[n] \in Seq(C)
  BY <1>2, <1>11
<1> QED
  BY <1>1, <1>12

(* Any part of a text that does not reach beyond its ends. *)
LEMMA SpanTyped ==
  ASSUME NEW C, NEW s \in Seq(C), NEW a \in Nat \ {0}, NEW b \in Int, b <= Len(s)
  PROVE  SubSeq(s, a, b) \in Seq(C)
<1>1. \A k \in a .. b : s[k] \in C
  OBVIOUS
<1> QED
  BY <1>1, SubSeqProperties

(* A word between two blanks, the text behind a colon. *)
LEMMA PlacesWithin ==
  ASSUME NEW C, NEW s \in Seq(C), NEW c, Places(s, c) # {}
  PROVE  /\ Min(Places(s, c)) \in 1 .. Len(s)
         /\ Max(Places(s, c)) \in 1 .. Len(s)
<1>1. Len(s) \in Nat /\ Places(s, c) \subseteq 1 .. Len(s)
  BY DEF Places
<1>2. Places(s, c) \subseteq 0 .. Len(s)
  BY <1>1
<1>3. Min(Places(s, c)) \in Places(s, c) /\ Max(Places(s, c)) \in Places(s, c)
  BY <1>1, <1>2, Extremes
<1> QED
  BY <1>1, <1>3

LEMMA Several ==
  ASSUME NEW s, NEW c, NEW n \in {2, 3}, Pieces(s, c) = n
  PROVE  Places(s, c) # {}
<1> SUFFICES ASSUME Places(s, c) = {} PROVE FALSE
  OBVIOUS
<1>1. Cardinality(Places(s, c)) = 0
  BY FS_EmptySet
<1>2. Pieces(s, c) = 0 \/ Pieces(s, c) = Cardinality(Places(s, c)) + 1
  BY Zenon DEF Pieces
<1> QED
  BY <1>1, <1>2

LEMMA StatusTyped ==
  ASSUME NEW C, NEW s \in Seq(C)
  PROVE  Status(s) \in Int
<1> DEFINE blank == " "
           sp == Places(s, blank)
           Three == Pieces(s, blank) = 3
           word == SubSeq(s, Min(sp) + 1, Max(sp) - 1)
<1>1. Status(s) = IF Three THEN atoi(word) ELSE 600
  BY Zenon DEF Status
<1> HIDE DEF blank
<1>2. Three => sp # {}
  BY Several
<1>3. Three => atoi(word) \in Int
  <2> SUFFICES ASSUME sp # {} PROVE atoi(word) \in Int
    BY <1>2
  <2>1. Min(sp) \in 1 .. Len(s) /\ Max(sp) \in 1 .. Len(s) /\ Len(s) \in Nat
    BY PlacesWithin
  <2> HIDE DEF sp
  <2>2. Min(sp) + 1 \in Nat \ {0} /\ Max(sp) - 1 \in Int /\ Max(sp) - 1 <= Len(s)
    BY <2>1
  <2>3. word \in Seq(C)
    BY <2>2, SpanTyped
  <2> QED
    BY <2>3, AtoiInt
<1> HIDE DEF Three, word
<1> QED
  BY <1>1, <1>3

LEMMA TypeTyped ==
  ASSUME NEW C, NEW s \in Seq(C), IsType(s)
  PROVE  TypeIn(s) \in Seq(C)
<1> DEFINE p == Places(s, ":")
<1>1. p # {}
  <2>1. Pieces(s, ":") = 2
    BY Zenon DEF IsType
  <2> QED
    BY <2>1, Several
<1>2. Min(p) \in 1 .. Len(s) /\ Len(s) \in Nat
  BY <1>1, PlacesWithin
<1>3. TypeIn(s) = SubSeq(s, Min(p) + 1, Len(s))
  BY Zenon DEF TypeIn, From
<1> HIDE DEF p
<1>4. Min(p) + 1 \in Nat \ {0} /\ Len(s) \in Int /\ Len(s) <= Len(s)
  BY <1>2
<1> QED
  BY <1>3, <1>4, SpanTyped

(* The lines of a header are strings, so its fields are what they should be. *)
LEMMA ParseTyped ==
  ASSUME NEW C, STRING = Seq(C), NEW t \in Seq(STRING), LineEnds(t) # {}
  PROVE  parse_header(t) \in Headers
<1> DEFINE ends == LineEnds(t)
           before(e) == {d + 2 : d \in {c \in ends : c < e}} \cup {1}
           line(e) == StringOf(SubSeq(t, Max(before(e)), e - 1))
           types == {e \in ends \ {Min(ends)} : IsType(line(e))}
           D == STRING
<1>1. Len(t) \in Nat /\ ends \subseteq 1 .. Len(t) /\ ends \subseteq 0 .. Len(t) /\ ends # {}
  BY DEF LineEnds
<1>2. parse_header(t) = [status_code |-> Status(line(Min(ends))),
                         content_type |-> IF types = {} THEN Null ELSE TypeIn(line(Max(types)))]
  BY Zenon DEF parse_header
<1>3. D = Seq(C) /\ t \in Seq(D)
  OBVIOUS
<1>4. Empty \in Seq(C)
  <2>1. Empty \in STRING
    BY HeaderAssumption, Zenon DEF Empty
  <2> QED
    BY <2>1, Zenon
<1> HIDE DEF ends, D
<1>5. ASSUME NEW e \in ends PROVE line(e) \in Seq(C)
  <2>1. e \in 1 .. Len(t)
    BY <1>1
  <2>2. before(e) \subseteq 0 .. (Len(t) + 2) /\ 1 \in before(e) /\ Len(t) + 2 \in Nat
    BY <1>1
  <2> DEFINE b == before(e)
  <2> HIDE DEF b
  <2>3. Max(b) \in b /\ 1 <= Max(b)
    <3>1. b \subseteq 0 .. (Len(t) + 2) /\ 1 \in b
      BY <2>2 DEF b
    <3> QED
      BY <2>2, <3>1, Extremes
  <2>4. Max(b) \in Nat \ {0} /\ e - 1 \in Int /\ e - 1 <= Len(t)
    <3>1. Max(b) \in 0 .. (Len(t) + 2)
      BY <2>2, <2>3 DEF b
    <3> QED
      BY <1>1, <2>1, <2>3, <3>1
  <2>5. SubSeq(t, Max(b), e - 1) \in Seq(D)
    BY <1>3, <2>4, SpanTyped
  <2>6. SubSeq(t, Max(b), e - 1) \in Seq(Seq(C))
    BY <1>3, <2>5
  <2> QED
    BY <1>4, <2>6, JoinTyped DEF b
<1> HIDE DEF line
<1>6. Status(line(Min(ends))) \in Int
  <2>1. Min(ends) \in ends
    BY <1>1, Extremes
  <2> QED
    BY <1>5, <2>1, StatusTyped
<1>7. types # {} => TypeIn(line(Max(types))) \in Seq(C)
  <2> SUFFICES ASSUME types # {} PROVE TypeIn(line(Max(types))) \in Seq(C)
    OBVIOUS
  <2>1. types \subseteq 0 .. Len(t)
    BY <1>1
  <2>2. Max(types) \in types
    <3> HIDE DEF types
    <3> QED
      BY <1>1, <2>1, Extremes
  <2>3. Max(types) \in ends /\ IsType(line(Max(types)))
    <3> DEFINE m == Max(types)
    <3> HIDE DEF m
    <3>1. m \in types
      BY <2>2 DEF m
    <3>2. m \in ends /\ IsType(line(m))
      BY <3>1
    <3> QED
      BY <3>2 DEF m
  <2> HIDE DEF types
  <2> QED
    BY <1>5, <2>3, TypeTyped
<1> HIDE DEF types
<1>8. (IF types = {} THEN Null ELSE TypeIn(line(Max(types)))) \in STRING \cup {Null}
  BY <1>7, Zenon
<1>9. \A u \in Int, v \in STRING \cup {Null} : [status_code |-> u, content_type |-> v] \in Headers
  BY DEF Headers
<1> QED
  BY <1>2, <1>6, <1>8, <1>9, Zenon

(* A complete header is parsed to a Header. *)
Parsing ==
  \A s \in Streams :
    HeadEnds(CText(s)) # {} => parse_header(HeadOf(s)) \in Headers \ {Null}

LEMMA HeadersParse == StringsAreSequences => Parsing
<1> SUFFICES ASSUME NEW C, STRING = Seq(C), NEW s \in Streams, HeadEnds(CText(s)) # {}
             PROVE  parse_header(HeadOf(s)) \in Headers \ {Null}
  BY DEF Parsing, StringsAreSequences
<1> DEFINE x == CText(s)
           m == Min(HeadEnds(x))
           t == SubSeq(s, 1, m + 1)
           D == STRING
<1>1. s \in Seq(Byte)
  BY DEF Byte
<1>2. /\ x \in Seq(Byte) /\ Len(x) <= Len(s)
      /\ \A k \in 1 .. Len(x) : x[k] = s[k] /\ s[k] # Nul
  BY <1>1, TextEnds
<1>3. HeadOf(s) = t
  BY DEF HeadOf
<1> HIDE DEF x
<1>4. m \in LineEnds(x)
  <2>1. HeadEnds(x) \subseteq Nat /\ HeadEnds(x) # {}
    BY DEF HeadEnds, LineEnds, x
  <2>2. m \in HeadEnds(x)
    BY <2>1, HasMin
  <2> QED
    BY <2>2 DEF HeadEnds
<1> HIDE DEF m
<1>5. /\ m \in 1 .. (Len(x) - 1) /\ x[m] = CR /\ x[m + 1] = LF
      /\ Len(x) \in Nat /\ Len(s) \in Nat
  BY <1>1, <1>2, <1>4 DEF LineEnds
<1>6. m \in Nat /\ m + 1 \in Int /\ \A k \in 1 .. (m + 1) : k \in 1 .. Len(x) /\ k \in 1 .. Len(s)
  BY <1>2, <1>5
<1>7. \A k \in 1 .. (m + 1) : s[k] \in D
  <2> TAKE k \in 1 .. (m + 1)
  <2>1. s[k] \in Byte /\ s[k] # Nul
    BY <1>1, <1>2, <1>6
  <2> QED
    BY <2>1 DEF Byte
<1> HIDE DEF D
<1>8. t \in Seq(D) /\ Len(t) = m + 1 /\ \A k \in 1 .. (m + 1) : t[k] = s[k]
  <2>1. /\ t \in Seq(D)
        /\ Len(t) = IF 1 <= m + 1 THEN (m + 1) - 1 + 1 ELSE 0
        /\ \A k \in 1 .. (m + 1) - 1 + 1 : t[k] = s[1 + k - 1]
    BY <1>6, <1>7, SubSeqProperties
  <2> HIDE DEF t
  <2> QED
    BY <1>6, <2>1
<1> HIDE DEF t
<1>9. m \in LineEnds(t)
  <2>1. m \in 1 .. (m + 1) /\ m + 1 \in 1 .. (m + 1) /\ m \in 1 .. ((m + 1) - 1)
    BY <1>5
  <2>2. t[m] = CR /\ t[m + 1] = LF
    BY <1>2, <1>5, <1>6, <1>8, <2>1
  <2> QED
    BY <1>8, <2>1, <2>2 DEF LineEnds
<1>10. parse_header(t) \in Headers
  <2>1. t \in Seq(STRING) /\ LineEnds(t) # {}
    BY <1>8, <1>9 DEF D
  <2> QED
    BY <2>1, ParseTyped
<1> QED
  BY <1>3, <1>10, HeaderAssumption

-----------------------------------------------------------------------------
(* Why the process may be gone. *)
DeathInv ==
  /\ pc = "crashed" => ~HeadFound \/ ("savehtml" \in modules /\ header.content_type = Null)
  /\ pc = "undefined" => got >= HTML_MAXLEN

(* A header that has arrived is parsed to a Header, as the whole answer's. *)
LEMMA PrefixParsed ==
  ASSUME Parsing, NEW q \in Streams, NEW m \in 0 .. Len(q), HeadEnds(CText(SubSeq(q, 1, m))) # {}
  PROVE  parse_header(HeadOf(SubSeq(q, 1, m))) \in Headers \ {Null}
<1>1. q \in Seq(Byte)
  BY DEF Byte
<1>2. HeadEnds(CText(q)) # {} /\ HeadOf(q) = HeadOf(SubSeq(q, 1, m))
  BY <1>1, HeadStable
<1> QED
  BY <1>2 DEF Parsing

LEMMA HeaderParsed ==
  ASSUME Parsing, Basics, HeadFound
  PROVE  parse_header(HeadOf(Arrived)) \in Headers \ {Null}
  BY PrefixParsed DEF Basics, HeadFound, Arrived

LEMMA DeathStep ==
  ASSUME Parsing, IInv, DeathInv, Next
  PROVE  DeathInv'
<1>1. ASSUME NEW n \in 1 .. READ_MAX, ReadOverruns(n) PROVE DeathInv'
  BY <1>1, ReadOverrunsStep DEF IInv, ReadOverruns, DeathInv
<1>2. ASSUME NEW n \in 1 .. READ_MAX, ReadMore(n) \/ ReadHeader(n) \/ ReadRejected(n)
      PROVE  DeathInv'
  <2>1. pc' \notin {"crashed", "undefined"}
    BY <1>2 DEF ReadMore, ReadHeader, ReadRejected, EndsHeader, Read
  <2> QED
    BY <2>1 DEF DeathInv
<1>3. CASE SaveCrashes
  <2>1. HeadFound' = HeadFound /\ header' = header
    BY <1>3, FoundSame DEF SaveCrashes
  <2>2. ~HeadFound \/ header # Null
    BY <1>3, HeaderParsed DEF SaveCrashes, IInv, ReadInv
  <2>3. ~HeadFound \/ header.content_type = Null
    BY <1>3, <2>2 DEF SaveCrashes, HasType
  <2> QED
    BY <1>3, <2>1, <2>3 DEF SaveCrashes, DeathInv, IInv, SaveInv
<1>4. CASE Leave
  <2>1. HeadFound' = HeadFound
    BY <1>4, FoundSame DEF Leave
  <2>2. HeadFound => header # Null
    BY <1>4, HeaderParsed DEF Leave, IInv, ReadInv
  <2> QED
    BY <1>4, <2>1, <2>2 DEF Leave, DeathInv
<1>5. ASSUME ReadFails \/ Eof \/ NotSaved \/ Open \/ WriteFails \/ Close
             \/ \E n \in 1 .. HTML_MAXLEN : Write(n)
      PROVE  DeathInv'
  <2>1. pc' \notin {"crashed", "undefined"}
    BY <1>5 DEF ReadFails, Eof, NotSaved, Open, WriteFails, Close, Write
  <2> QED
    BY <2>1 DEF DeathInv
<1> QED
  BY <1>1, <1>2, <1>3, <1>4, <1>5 DEF Next

(* DeathCauses, of recv_response: an answer kills the process only with a  *)
(* header that is not complete, or that names no type for savehtml.        *)
THEOREM Deaths == StringsAreSequences => (Spec => []DeathCauses)
<1> SUFFICES ASSUME Parsing PROVE Spec => []DeathCauses
  BY HeadersParse
<1>1. Init => DeathInv
  BY DEF Init, DeathInv
<1>2. IInv /\ DeathInv /\ Next => DeathInv'
  BY DeathStep
<1>3. DeathInv /\ UNCHANGED vars => DeathInv'
  <2> SUFFICES ASSUME DeathInv, UNCHANGED vars PROVE DeathInv'
    OBVIOUS
  <2>1. UNCHANGED <<stream, readVars, modules, pc>> /\ UNCHANGED <<got, header>>
    BY DEF vars, readVars
  <2> QED
    BY <2>1, FoundSame DEF DeathInv
<1>4. DeathInv => DeathCauses
  BY DEF DeathInv, DeathCauses, HeadFound
<1> QED
  BY <1>1, <1>2, <1>3, <1>4, Invariant, PTL DEF Spec

-----------------------------------------------------------------------------
(* The types of what a receiver keeps, and what the filter lets through:   *)
(* links are looked for, and a file is opened, only behind the test.       *)
TypeInv ==
  /\ modules \in Modules /\ header \in Headers \cup {Null}
  /\ searched \in Seq(Byte) \cup {Null} /\ file \in Seq(Byte) \cup {Null}
  /\ fd \in BOOLEAN /\ short \in BOOLEAN
  /\ left \in 0 .. Len(body) /\ (pc = "read" => left = 0)

FilterInv ==
  /\ trunc_head => header_postcheck(header)
  /\ pc \in {"read", "undefined"} => searched = Null
  /\ searched # Null => (HeadFound => trunc_head)

LEMMA ReadKeepsTypes ==
  ASSUME IInv, IInv', TypeInv, pc = "read", UNCHANGED <<modules, searched, saveVars>>,
         header' \in Headers \cup {Null}
  PROVE  TypeInv'
<1>1. UNCHANGED <<fd, file, left, short>> /\ left = 0
  BY DEF saveVars, TypeInv
<1>2. left' \in 0 .. Len(body')
  BY <1>1 DEF IInv, Basics
<1> QED
  BY <1>1, <1>2 DEF TypeInv

LEMMA LaterKeepsTypes ==
  ASSUME TypeInv, UNCHANGED <<modules, body, header, searched>>, pc' # "read",
         file' \in Seq(Byte) \cup {Null}, fd' \in BOOLEAN, short' \in BOOLEAN,
         left' \in 0 .. Len(body)
  PROVE  TypeInv'
  BY DEF TypeInv

LEMMA TypeStep ==
  ASSUME Parsing, IInv, IInv', TypeInv, Next
  PROVE  TypeInv'
<1>1. ASSUME NEW n \in 1 .. READ_MAX, ReadOverruns(n) \/ ReadMore(n)
      PROVE  TypeInv'
  <2>1. pc = "read" /\ UNCHANGED <<modules, searched, saveVars>> /\ header' = header
    BY <1>1 DEF ReadOverruns, ReadMore, Read
  <2> QED
    BY <2>1, ReadKeepsTypes DEF TypeInv
<1>2. ASSUME NEW n \in 1 .. READ_MAX, ReadHeader(n) \/ ReadRejected(n)
      PROVE  TypeInv'
  <2>1. /\ EndsHeader(n) /\ pc = "read" /\ UNCHANGED <<modules, searched, saveVars>>
        /\ header' = parse_header(HeadOf(With(n)))
    BY <1>2 DEF ReadHeader, ReadRejected, EndsHeader, Read
  <2>2. With(n) = Arrived' /\ HeadFound'
    BY <2>1, HeaderArrives DEF IInv
  <2>3. parse_header(HeadOf(Arrived')) \in Headers
    <3>1. stream' \in Streams /\ got' \in 0 .. Len(stream') /\ Arrived' = SubSeq(stream', 1, got')
      BY DEF IInv, Basics, Arrived
    <3>2. HeadEnds(CText(Arrived')) # {}
      BY <2>2 DEF HeadFound
    <3> QED
      BY <3>1, <3>2, PrefixParsed
  <2> QED
    BY <2>1, <2>2, <2>3, ReadKeepsTypes
<1>3. CASE ReadFails
  BY <1>3 DEF ReadFails, TypeInv, readVars, saveVars
<1>4. CASE Eof
  <2>1. UNCHANGED <<modules, body, header, fd, file, left, short>> /\ pc' # "read"
    BY <1>4 DEF Eof, readVars, saveVars
  <2>2. searched' \in Seq(Byte) \cup {Null}
    BY <1>4, TextEnds DEF Eof, IInv, Basics
  <2> QED
    BY <2>1, <2>2 DEF TypeInv
<1>5. CASE SaveCrashes \/ NotSaved \/ Leave
  BY <1>5 DEF SaveCrashes, NotSaved, Leave, TypeInv, readVars, saveVars
<1>6. CASE Open
  <2>1. /\ UNCHANGED <<modules, body, header, searched, short>> /\ pc' # "read"
        /\ fd' = TRUE /\ file' = <<>> /\ left' = Len(body)
    BY <1>6 DEF Open, readVars
  <2>2. Len(body) \in Nat /\ <<>> \in Seq(Byte)
    BY EmptySeq DEF IInv, Basics
  <2> QED
    BY <2>1, <2>2, LaterKeepsTypes DEF TypeInv
<1>7. ASSUME NEW n \in 1 .. HTML_MAXLEN, Write(n) PROVE TypeInv'
  <2>1. /\ UNCHANGED <<modules, body, header, searched, fd>> /\ pc = "write" /\ pc' = "write"
        /\ short' = (short \/ n < left)
    BY <1>7 DEF Write, readVars
  <2>2. file' \in Seq(Byte) /\ left' \in 0 .. Len(body)
    BY <2>1 DEF IInv, SaveInv
  <2>3. short' \in BOOLEAN
    BY <2>1, ZenonT(30) DEF TypeInv
  <2> QED
    BY <2>1, <2>2, <2>3, LaterKeepsTypes DEF TypeInv
<1>8. CASE WriteFails \/ Close
  <2>1. /\ UNCHANGED <<modules, body, header, searched, left, short>> /\ pc' # "read"
        /\ fd' = FALSE /\ file' \in {file, Null}
    BY <1>8 DEF WriteFails, Close, readVars
  <2> QED
    BY <2>1, LaterKeepsTypes DEF TypeInv
<1> QED
  BY <1>1, <1>2, <1>3, <1>4, <1>5, <1>6, <1>7, <1>8 DEF Next

LEMMA FilterStep ==
  ASSUME IInv, FilterInv, Next
  PROVE  FilterInv'
<1>1. ASSUME NEW n \in 1 .. READ_MAX, ReadOverruns(n) \/ ReadMore(n) \/ ReadRejected(n)
      PROVE  FilterInv'
  <2>1. /\ pc = "read" /\ UNCHANGED <<modules, searched, trunc_head>>
        /\ trunc_head => header' = header
    BY <1>1 DEF ReadOverruns, ReadMore, ReadRejected, EndsHeader, Read
  <2> QED
    BY <2>1 DEF FilterInv, header_postcheck, headerfilter
<1>2. ASSUME NEW n \in 1 .. READ_MAX, ReadHeader(n)
      PROVE  FilterInv'
  <2>1. /\ pc = "read" /\ UNCHANGED <<modules, searched>>
        /\ header_postcheck(header')
    BY <1>2 DEF ReadHeader, EndsHeader, Read
  <2> QED
    BY <2>1 DEF FilterInv, header_postcheck, headerfilter
<1>3. CASE Eof
  <2>1. /\ pc = "read" /\ pc' \in {"save", "leave"}
        /\ UNCHANGED <<modules, stream, readVars>>
    BY <1>3 DEF Eof
  <2>2. HeadFound' = HeadFound /\ UNCHANGED <<header, trunc_head>>
    BY <2>1, FoundSame
  <2>3. HeadFound => trunc_head
    BY <2>1 DEF IInv, ReadInv
  <2> QED
    BY <2>1, <2>2, <2>3 DEF FilterInv, header_postcheck, headerfilter
<1>4. ASSUME ReadFails \/ SaveCrashes \/ NotSaved \/ Open \/ WriteFails \/ Close \/ Leave
             \/ \E n \in 1 .. HTML_MAXLEN : Write(n)
      PROVE  FilterInv'
  <2>1. UNCHANGED <<modules, stream, readVars, searched>> /\ pc' \notin {"read", "undefined"}
    BY <1>4 DEF ReadFails, SaveCrashes, NotSaved, Open, Write, WriteFails, Close, Leave
  <2>2. HeadFound' = HeadFound /\ UNCHANGED <<header, trunc_head>>
    BY <2>1, FoundSame
  <2> QED
    BY <2>1, <2>2 DEF FilterInv, header_postcheck, headerfilter
<1> QED
  BY <1>1, <1>2, <1>3, <1>4 DEF Next

LEMMA Later ==
  ASSUME Parsing
  PROVE  Spec => [](IInv /\ TypeInv /\ FilterInv)
<1>1. Init => TypeInv /\ FilterInv
  <2> SUFFICES ASSUME Init PROVE TypeInv /\ FilterInv
    OBVIOUS
  <2>1. left \in 0 .. Len(body)
    BY EmptySeq DEF Init
  <2>2. /\ modules \in Modules /\ header = Null /\ searched = Null /\ file = Null
        /\ fd = FALSE /\ short = FALSE /\ left = 0 /\ trunc_head = FALSE
    BY DEF Init
  <2> QED
    BY <2>1, <2>2 DEF TypeInv, FilterInv
<1>2. IInv /\ IInv' /\ TypeInv /\ FilterInv /\ Next => TypeInv' /\ FilterInv'
  BY TypeStep, FilterStep
<1>3. TypeInv /\ FilterInv /\ UNCHANGED vars => TypeInv' /\ FilterInv'
  <2> SUFFICES ASSUME TypeInv, FilterInv, UNCHANGED vars PROVE TypeInv' /\ FilterInv'
    OBVIOUS
  <2>1. /\ UNCHANGED <<stream, readVars, modules, pc, searched, saveVars>>
        /\ UNCHANGED <<body, header, trunc_head, fd, file, left, short>>
    BY DEF vars, readVars, saveVars
  <2>2. HeadFound' = HeadFound
    BY <2>1, FoundSame
  <2> QED
    BY <2>1, <2>2 DEF TypeInv, FilterInv, header_postcheck, headerfilter
<1> QED
  BY <1>1, <1>2, <1>3, Invariant, PTL DEF Spec

(* TypeOK, of the receiver's variables and of the Header it keeps.         *)
THEOREM TypeCorrect == StringsAreSequences => (Spec => []TypeOK)
<1> SUFFICES ASSUME Parsing PROVE Spec => []TypeOK
  BY HeadersParse
<1>1. IInv /\ TypeInv => TypeOK
  BY DEF IInv, Basics, SaveInv, TypeInv, TypeOK, Bytes, Byte
<1> QED
  BY <1>1, Later, PTL

(* FilterHolds, of header_postcheck with headerfilter loaded: no links are *)
(* taken from, and nothing is saved of, an answer the filter refuses.      *)
THEOREM FilterPassed == StringsAreSequences => (Spec => []FilterHolds)
<1> SUFFICES ASSUME Parsing PROVE Spec => []FilterHolds
  BY HeadersParse
<1>1. IInv /\ FilterInv => FilterHolds
  <2> SUFFICES ASSUME IInv, FilterInv, "headerfilter" \in modules,
                      searched # Null \/ file # Null, HeadFound
               PROVE  Wanted(parse_header(HeadOf(Arrived)))
    BY DEF FilterHolds, HeadFound
  <2> DEFINE h == parse_header(HeadOf(Arrived))
  <2>1. trunc_head
    BY DEF IInv, SaveInv, FilterInv
  <2>2. pc # "undefined"
    BY DEF IInv, SaveInv, FilterInv
  <2>3. header = h
    BY <2>2 DEF IInv, ReadInv
  <2>4. h \in Headers
    BY HeaderParsed DEF IInv
  <2>5. headerfilter(h)
    BY <2>1, <2>3 DEF FilterInv, header_postcheck
  <2> HIDE DEF h
  <2>6. h.status_code \in Int
    BY <2>4 DEF Headers
  <2>7. h.status_code >= 200 /\ h.status_code < 300
    BY <2>5, Zenon DEF headerfilter
  <2>8. h.status_code \in 200 .. 299
    <3>1. \A c \in Int : c >= 200 /\ c < 300 => c \in 200 .. 299
      OBVIOUS
    <3> QED
      BY <2>6, <2>7, <3>1, Zenon
  <2>9. h.content_type = Null \/ \E t \in accept_types \cup {"text/html"} : strstr(h.content_type, t)
    BY <2>5, Zenon DEF headerfilter
  <2> QED
    BY <2>8, <2>9 DEF Wanted, h
<1> QED
  BY <1>1, Later, PTL
=============================================================================
