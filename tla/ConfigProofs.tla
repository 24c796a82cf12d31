---------------------------- MODULE ConfigProofs ----------------------------
(* Theorems about CString, for every file, any chunk size, any number of   *)
(* places and any preallocation; as loading a configuration uses the       *)
(* strings so, the same while options are set as well; and that the        *)
(* options are what the lines of the file say.                             *)
EXTENDS Config, Foundations, FiniteSetTheorems
-----------------------------------------------------------------------------
(* What a line says, read by cssplitargs and by the reference of ConfExact. *)
(* The literals are hidden behind names: see Foundations.                  *)
Empty == ""
Hash == "#"

Letters(C) ==
  /\ Empty \in Seq(C) /\ Len(Empty) = 0
  /\ Hash \in Seq(C) /\ Len(Hash) = 1
  /\ Directives \subseteq Seq(C)

LEMMA LettersSpelt ==
  ASSUME NEW C, STRING = Seq(C)
  PROVE  Letters(C)
<1>1. /\ Empty \in Seq(C) /\ Len(Empty) = 0
  BY DirectivesAssumption, Zenon DEF Empty
<1>2. Hash \in Seq(C) /\ Len(Hash) = 1
  BY DirectivesAssumption, Zenon DEF Hash
<1>3. Directives \subseteq Seq(C)
  BY DirectivesAssumption, Zenon
<1> QED
  BY <1>1, <1>2, <1>3, Zenon DEF Letters

LEMMA Marks ==
  /\ Blanks \subseteq Spaces /\ Blanks \subseteq Stops
  /\ Blanks \cap Quotes = {} /\ Spaces \cap Quotes = {}
  /\ Hash \notin Spaces /\ Sep \in Blanks
  BY FilesAssumption DEF Spaces, Stops, Quotes, Hash

(* The first character from p on that is no space, or is a stop.           *)
FirstText(s, p) == Min({Len(s) + 1} \cup {k \in p .. Len(s) : Char(s, k) \notin Spaces})
FirstStop(s, p) == Min({Len(s) + 1} \cup {k \in p .. Len(s) : Char(s, k) \in Stops})

LEMMA TextIs ==
  ASSUME NEW C, NEW s \in Seq(C), NEW p \in Nat \ {0}
  PROVE  /\ FirstText(s, p) \in 1 .. (Len(s) + 1)
         /\ p <= Len(s) + 1 => p <= FirstText(s, p)
         /\ FirstText(s, p) <= Len(s) => p <= FirstText(s, p) /\ Char(s, FirstText(s, p)) \notin Spaces
         /\ \A k \in p .. Len(s) : k < FirstText(s, p) => Char(s, k) \in Spaces
<1> DEFINE P == {Len(s) + 1} \cup {k \in p .. Len(s) : Char(s, k) \notin Spaces}
<1>1. Len(s) \in Nat
  OBVIOUS
<1>2. P \subseteq 1 .. (Len(s) + 1) /\ P \subseteq 0 .. (Len(s) + 1) /\ P # {} /\ Len(s) + 1 \in Nat
  BY <1>1
<1>3. Min(P) \in P /\ \A k \in P : Min(P) <= k
  <2> HIDE DEF P
  <2> QED
    BY <1>2, Extremes
<1>4. \A k \in p .. Len(s) : k < Min(P) => Char(s, k) \in Spaces
  <2> TAKE k \in p .. Len(s)
  <2>1. Char(s, k) \notin Spaces => k \in P
    OBVIOUS
  <2>2. k \in Nat /\ Min(P) \in Nat
    BY <1>2, <1>3
  <2> HIDE DEF P
  <2> QED
    BY <1>3, <2>1, <2>2
<1>5. Min(P) \in 1 .. (Len(s) + 1)
  BY <1>2, <1>3
<1>6. Min(P) = Len(s) + 1 \/ (Min(P) \in p .. Len(s) /\ Char(s, Min(P)) \notin Spaces)
  BY <1>3
<1>7. FirstText(s, p) = Min(P)
  BY Zenon DEF FirstText
<1> HIDE DEF P
<1> QED
  BY <1>1, <1>4, <1>5, <1>6, <1>7

LEMMA StopIs ==
  ASSUME NEW C, NEW s \in Seq(C), NEW p \in Nat \ {0}
  PROVE  /\ FirstStop(s, p) \in 1 .. (Len(s) + 1)
         /\ p <= Len(s) + 1 => p <= FirstStop(s, p)
         /\ FirstStop(s, p) <= Len(s) => p <= FirstStop(s, p) /\ Char(s, FirstStop(s, p)) \in Stops
         /\ \A k \in p .. Len(s) : k < FirstStop(s, p) => Char(s, k) \notin Stops
<1> DEFINE P == {Len(s) + 1} \cup {k \in p .. Len(s) : Char(s, k) \in Stops}
<1>1. Len(s) \in Nat
  OBVIOUS
<1>2. P \subseteq 1 .. (Len(s) + 1) /\ P \subseteq 0 .. (Len(s) + 1) /\ P # {} /\ Len(s) + 1 \in Nat
  BY <1>1
<1>3. Min(P) \in P /\ \A k \in P : Min(P) <= k
  <2> HIDE DEF P
  <2> QED
    BY <1>2, Extremes
<1>4. \A k \in p .. Len(s) : k < Min(P) => Char(s, k) \notin Stops
  <2> TAKE k \in p .. Len(s)
  <2>1. Char(s, k) \in Stops => k \in P
    OBVIOUS
  <2>2. k \in Nat /\ Min(P) \in Nat
    BY <1>2, <1>3
  <2> HIDE DEF P
  <2> QED
    BY <1>3, <2>1, <2>2
<1>5. Min(P) \in 1 .. (Len(s) + 1)
  BY <1>2, <1>3
<1>6. Min(P) = Len(s) + 1 \/ (Min(P) \in p .. Len(s) /\ Char(s, Min(P)) \in Stops)
  BY <1>3
<1>7. FirstStop(s, p) = Min(P)
  BY Zenon DEF FirstStop
<1> HIDE DEF P
<1> QED
  BY <1>1, <1>4, <1>5, <1>6, <1>7

(* A place with that property is that place. *)
LEMMA TextAt ==
  ASSUME NEW C, NEW s \in Seq(C), NEW p \in 1 .. (Len(s) + 1), NEW b \in p .. (Len(s) + 1),
         b <= Len(s) => Char(s, b) \notin Spaces,
         \A k \in p .. (b - 1) : Char(s, k) \in Spaces
  PROVE  FirstText(s, p) = b
<1> DEFINE t == FirstText(s, p)
<1>1. /\ t \in p .. (Len(s) + 1) /\ (t <= Len(s) => Char(s, t) \notin Spaces)
      /\ \A k \in p .. Len(s) : k < t => Char(s, k) \in Spaces
  <2>1. p \in Nat \ {0} /\ Len(s) \in Nat
    OBVIOUS
  <2> QED
    BY <2>1, TextIs
<1> HIDE DEF t
<1>2. ~ (t < b)
  <2> SUFFICES ASSUME t < b PROVE FALSE
    OBVIOUS
  <2>1. t \in p .. (b - 1) /\ t <= Len(s)
    BY <1>1
  <2> QED
    BY <1>1, <2>1
<1>3. ~ (b < t)
  <2> SUFFICES ASSUME b < t PROVE FALSE
    OBVIOUS
  <2>1. b \in p .. Len(s) /\ b <= Len(s)
    BY <1>1
  <2> QED
    BY <1>1, <2>1
<1>4. t = b
  BY <1>1, <1>2, <1>3
<1> QED
  BY <1>4 DEF t

LEMMA StopAt ==
  ASSUME NEW C, NEW s \in Seq(C), NEW p \in 1 .. (Len(s) + 1), NEW b \in p .. (Len(s) + 1),
         b <= Len(s) => Char(s, b) \in Stops,
         \A k \in p .. (b - 1) : Char(s, k) \notin Stops
  PROVE  FirstStop(s, p) = b
<1> DEFINE t == FirstStop(s, p)
<1>1. /\ t \in p .. (Len(s) + 1) /\ (t <= Len(s) => Char(s, t) \in Stops)
      /\ \A k \in p .. Len(s) : k < t => Char(s, k) \notin Stops
  <2>1. p \in Nat \ {0} /\ Len(s) \in Nat
    OBVIOUS
  <2> QED
    BY <2>1, StopIs
<1> HIDE DEF t
<1>2. ~ (t < b)
  <2> SUFFICES ASSUME t < b PROVE FALSE
    OBVIOUS
  <2>1. t \in p .. (b - 1) /\ t <= Len(s)
    BY <1>1
  <2> QED
    BY <1>1, <2>1
<1>3. ~ (b < t)
  <2> SUFFICES ASSUME b < t PROVE FALSE
    OBVIOUS
  <2>1. b \in p .. Len(s) /\ b <= Len(s)
    BY <1>1
  <2> QED
    BY <1>1, <2>1
<1>4. t = b
  BY <1>1, <1>2, <1>3
<1> QED
  BY <1>4 DEF t

-----------------------------------------------------------------------------
(* The recursion of cssplitargs. *)
Args(s, args) ==
  /\ args \in [1 .. (Len(s) + 2) -> Seq(STRING)]
  /\ \A p \in 1 .. (Len(s) + 2) :
       args[p] = LET b == FirstText(s, p)
                     e == FirstStop(s, b)
                 IN  IF b > Len(s) THEN <<>> ELSE <<SubSeq(s, b, e - 1)>> \o args[e + 1]

LEMMA ArgsIs ==
  ASSUME NEW C, STRING = Seq(C), NEW s \in Seq(C)
  PROVE  \E args : Args(s, args) /\ cssplitargs(s) = args[1]
<1> DEFINE n == Len(s)
           D == Seq(Seq(C))
           b(p) == FirstText(s, p)
           e(p) == FirstStop(s, b(p))
           g == [p \in 1 .. (n + 1) |-> [x \in D |->
                   IF b(p) > n THEN <<>> ELSE <<SubSeq(s, b(p), e(p) - 1)>> \o x]]
           leap == [p \in 1 .. (n + 1) |-> IF b(p) > n THEN p + 1 ELSE e(p) + 1]
           rhs(f, p) == IF b(p) > n THEN <<>> ELSE <<SubSeq(s, b(p), e(p) - 1)>> \o f[e(p) + 1]
<1>1. n \in Nat
  OBVIOUS
<1>2. ASSUME NEW p \in 1 .. (n + 2)
      PROVE  /\ b(p) \in 1 .. (n + 1)
             /\ p <= n + 1 => p <= b(p)
             /\ p = n + 2 => b(p) > n
             /\ b(p) <= n => /\ p <= b(p)
                             /\ e(p) \in b(p) .. (n + 1)
                             /\ SubSeq(s, b(p), e(p) - 1) \in Seq(C)
  <2>1. p \in Nat \ {0}
    BY <1>1
  <2>2. /\ b(p) \in 1 .. (n + 1) /\ (p <= n + 1 => p <= b(p)) /\ (b(p) <= n => p <= b(p))
    BY <2>1, TextIs
  <2>3. b(p) \in Nat \ {0} /\ (b(p) <= n => b(p) <= n + 1)
    BY <1>1, <2>2
  <2>4. b(p) <= n => e(p) \in b(p) .. (n + 1)
    <3> HIDE DEF b
    <3>1. e(p) \in 1 .. (n + 1) /\ (b(p) <= n + 1 => b(p) <= e(p))
      BY <2>3, StopIs
    <3> HIDE DEF e
    <3> QED
      BY <1>1, <2>3, <3>1
  <2>5. b(p) <= n => SubSeq(s, b(p), e(p) - 1) \in Seq(C)
    <3> HIDE DEF b, e
    <3> SUFFICES ASSUME b(p) <= n PROVE SubSeq(s, b(p), e(p) - 1) \in Seq(C)
      OBVIOUS
    <3>1. b(p) \in 1 .. (n + 1) /\ e(p) - 1 \in (b(p) - 1) .. n
      BY <1>1, <2>2, <2>4
    <3> QED
      BY <3>1, PartIs
  <2> HIDE DEF b, e
  <2> QED
    BY <1>1, <2>2, <2>4, <2>5
<1> HIDE DEF b, e
<1>3. Leaps(n + 1, D, <<>>, leap, g)
  <2>1. <<>> \in D
    OBVIOUS
  <2>2. ASSUME NEW p \in 1 .. (n + 1), NEW x \in D
        PROVE  (IF b(p) > n THEN <<>> ELSE <<SubSeq(s, b(p), e(p) - 1)>> \o x) \in D
    <3>1. p \in 1 .. (n + 2) /\ (~ (b(p) > n) => b(p) <= n)
      BY <1>1, <1>2
    <3>2. ~ (b(p) > n) => <<SubSeq(s, b(p), e(p) - 1)>> \in D
      BY <1>2, <3>1
    <3>3. ~ (b(p) > n) => <<SubSeq(s, b(p), e(p) - 1)>> \o x \in D
      BY <3>2, ConcatProperties
    <3> QED
      BY <2>1, <3>3
  <2>3. g \in [1 .. (n + 1) -> [D -> D]]
    <3> HIDE DEF D
    <3> QED
      BY <2>2
  <2>4. ASSUME NEW p \in 1 .. (n + 1) PROVE leap[p] \in (p + 1) .. ((n + 1) + 1)
    <3>1. p \in 1 .. (n + 2) /\ (~ (b(p) > n) => b(p) <= n)
      BY <1>1, <1>2
    <3> QED
      BY <1>1, <1>2, <3>1
  <2> HIDE DEF D, g, leap
  <2> QED
    BY <1>1, <2>1, <2>3, <2>4 DEF Leaps
<1>4. PICK f : Landed(n + 1, D, <<>>, leap, g, f)
  <2> HIDE DEF D, g, leap
  <2> QED
    BY <1>3, LeapingRecursion
<1>5. f \in [1 .. (n + 2) -> D] /\ f[n + 2] = <<>>
  <2> HIDE DEF D, g, leap
  <2>1. (n + 1) + 1 = n + 2
    BY <1>1
  <2> QED
    BY <1>4, <2>1 DEF Landed
<1>6. ASSUME NEW p \in 1 .. (n + 2) PROVE f[p] = rhs(f, p)
  <2>1. CASE p = n + 2
    BY <1>2, <1>5, <2>1
  <2>2. CASE p # n + 2
    <3>1. p \in 1 .. (n + 1)
      BY <1>1, <2>2
    <3>2. f[p] = g[p][f[leap[p]]]
      <4> HIDE DEF D, g, leap
      <4> QED
        BY <1>4, <3>1 DEF Landed
    <3>3. leap[p] = IF b(p) > n THEN p + 1 ELSE e(p) + 1
      BY <3>1
    <3>4. leap[p] \in 1 .. (n + 2)
      <4>1. ~ (b(p) > n) => b(p) <= n
        BY <1>1, <1>2
      <4> QED
        BY <1>1, <1>2, <3>1, <3>3, <4>1
    <3>5. f[leap[p]] \in D
      BY <1>5, <3>4
    <3>6. g[p][f[leap[p]]] = IF b(p) > n THEN <<>> ELSE <<SubSeq(s, b(p), e(p) - 1)>> \o f[leap[p]]
      <4> HIDE DEF D, leap
      <4> QED
        BY <3>1, <3>5
    <3> QED
      BY <3>2, <3>3, <3>6
  <2> QED
    BY <2>1, <2>2
<1> DEFINE args[p \in 1 .. (n + 2)] == rhs(args, p)
<1>7. f = [p \in 1 .. (n + 2) |-> rhs(f, p)]
  <2> HIDE DEF rhs, D
  <2> QED
    BY <1>5, <1>6
<1>8. args = [p \in 1 .. (n + 2) |-> rhs(args, p)]
  <2>1. args = CHOOSE h : h = [p \in 1 .. (n + 2) |-> rhs(h, p)]
    OBVIOUS
  <2> HIDE DEF args, rhs
  <2> QED
    BY <1>7, <2>1, Zenon
<1>9. cssplitargs(s) = args[1]
  BY Zenon DEF cssplitargs, b, e, FirstText, FirstStop
<1>10. \A p \in 1 .. (n + 2) : args[p] = rhs(args, p)
  <2> HIDE DEF args, rhs
  <2> QED
    BY <1>8
<1> HIDE DEF args
<1> DEFINE T == {p \in 1 .. (n + 2) : args[p] = f[p]}
<1>11. (n + 1) + 1 \in T
  <2>1. n + 2 \in 1 .. (n + 2) /\ (n + 1) + 1 = n + 2
    BY <1>1
  <2>2. args[n + 2] = <<>> /\ f[n + 2] = <<>>
    BY <1>2, <1>6, <1>10, <2>1
  <2> QED
    BY <2>1, <2>2
<1>12. ASSUME NEW p \in 1 .. (n + 1)
       PROVE  leap[p] \in (p + 1) .. ((n + 1) + 1) /\ (leap[p] \in T => p \in T)
  <2>1. p \in 1 .. (n + 2) /\ (~ (b(p) > n) => b(p) <= n)
    BY <1>1, <1>2
  <2>2. leap[p] = IF b(p) > n THEN p + 1 ELSE e(p) + 1
    OBVIOUS
  <2>3. leap[p] \in (p + 1) .. ((n + 1) + 1)
    BY <1>1, <1>2, <2>1, <2>2
  <2>4. args[p] = rhs(args, p) /\ f[p] = rhs(f, p)
    BY <1>6, <1>10, <2>1
  <2>5. leap[p] \in T => args[p] = f[p]
    <3>1. ~ (b(p) > n) => leap[p] = e(p) + 1
      BY <2>2
    <3>2. leap[p] \in T => args[leap[p]] = f[leap[p]]
      OBVIOUS
    <3> HIDE DEF leap, T
    <3> QED
      BY <2>4, <3>1, <3>2
  <2> QED
    BY <2>1, <2>3, <2>5
<1>13. 1 .. (n + 2) \subseteq T
  <2>1. n + 1 \in Nat /\ (n + 1) + 1 = n + 2
    BY <1>1
  <2> HIDE DEF T, leap
  <2>2. 1 .. ((n + 1) + 1) \subseteq T
    BY <1>11, <1>12, <2>1, Downward
  <2> QED
    BY <2>1, <2>2
<1>14. \A p \in 1 .. (n + 2) : args[p] = f[p] /\ 1 \in 1 .. (n + 2)
  BY <1>1, <1>13
<1>15. Args(s, f)
  <2>1. f \in [1 .. (n + 2) -> Seq(STRING)]
    BY <1>5
  <2>2. \A p \in 1 .. (n + 2) :
          f[p] = LET b1 == FirstText(s, p)
                     e1 == FirstStop(s, b1)
                 IN  IF b1 > Len(s) THEN <<>> ELSE <<SubSeq(s, b1, e1 - 1)>> \o f[e1 + 1]
    BY <1>6, Zenon DEF b, e
  <2> HIDE DEF n
  <2> QED
    BY <2>1, <2>2, Zenon DEF Args, n
<1>16. 1 \in 1 .. (n + 2)
  BY <1>1
<1>17. cssplitargs(s) = f[1]
  BY <1>9, <1>14, <1>16
<1> QED
  BY <1>15, <1>17

LEMMA StopBehind ==
  ASSUME NEW C, NEW s \in Seq(C), NEW p \in Nat \ {0}, FirstText(s, p) <= Len(s)
  PROVE  LET b == FirstText(s, p)
             e == FirstStop(s, b)
         IN  /\ b \in 1 .. Len(s) /\ b >= p
             /\ e \in b .. (Len(s) + 1) /\ e + 1 \in Nat \ {0} /\ e + 1 \in 1 .. (Len(s) + 2)
             /\ SubSeq(s, b, e - 1) \in Seq(C) /\ Len(SubSeq(s, b, e - 1)) = e - b
<1> DEFINE b == FirstText(s, p)
           e == FirstStop(s, b)
<1>1. Len(s) \in Nat
  OBVIOUS
<1>2. b \in 1 .. Len(s) /\ b >= p
  BY <1>1, TextIs
<1>3. b \in Nat \ {0} /\ b <= Len(s) + 1
  BY <1>1, <1>2
<1> HIDE DEF b
<1>4. e \in 1 .. (Len(s) + 1) /\ b <= e
  BY <1>3, StopIs
<1> HIDE DEF e
<1>5. e \in b .. (Len(s) + 1) /\ e + 1 \in Nat \ {0} /\ e + 1 \in 1 .. (Len(s) + 2)
  BY <1>1, <1>3, <1>4
<1>6. b \in 1 .. (Len(s) + 1) /\ e - 1 \in (b - 1) .. Len(s) /\ (e - 1) - b + 1 = e - b
  BY <1>1, <1>2, <1>5
<1>7. SubSeq(s, b, e - 1) \in Seq(C) /\ Len(SubSeq(s, b, e - 1)) = e - b
  BY <1>6, PartIs
<1> QED
  BY <1>2, <1>5, <1>7 DEF b, e

LEMMA OnTop ==
  ASSUME NEW D, NEW x \in D, NEW w \in Seq(D)
  PROVE  /\ <<x>> \o w \in Seq(D) /\ Len(<<x>> \o w) = Len(w) + 1
         /\ (<<x>> \o w)[1] = x
         /\ \A k \in 1 .. Len(w) : (<<x>> \o w)[k + 1] = w[k]
<1>1. <<x>> \in Seq(D) /\ Len(<<x>>) = 1 /\ <<x>>[1] = x
  OBVIOUS
<1>2. /\ <<x>> \o w \in Seq(D) /\ Len(<<x>> \o w) = 1 + Len(w)
      /\ \A r \in 1 .. 1 + Len(w) : (<<x>> \o w)[r] = IF r <= 1 THEN x ELSE w[r - 1]
  BY <1>1, ConcatProperties
<1>3. 1 \in 1 .. 1 + Len(w) /\ Len(w) \in Nat
  OBVIOUS
<1>4. ASSUME NEW k \in 1 .. Len(w)
      PROVE  k + 1 \in 1 .. 1 + Len(w) /\ ~ (k + 1 <= 1) /\ (k + 1) - 1 = k
  OBVIOUS
<1> QED
  BY <1>2, <1>3, <1>4

(* A line of two arguments. *)
Pair(s, u, v) ==
  LET n == Len(s)
      name == FirstText(s, 1)
      stop == FirstStop(s, name)
      value == FirstText(s, stop + 1)
      end == FirstStop(s, value)
  IN  /\ name <= n /\ value <= n /\ FirstText(s, end + 1) > n
      /\ u = SubSeq(s, name, stop - 1)
      /\ v = SubSeq(s, value, end - 1)

LEMMA ArgsPair ==
  ASSUME NEW C, STRING = Seq(C), NEW s \in Seq(C)
  PROVE  /\ cssplitargs(s) \in Seq(STRING)
         /\ cssplitargs(s) = <<>> <=> FirstText(s, 1) > Len(s)
         /\ Len(cssplitargs(s)) = 2 => Pair(s, cssplitargs(s)[1], cssplitargs(s)[2])
         /\ \A u, v : Pair(s, u, v) => cssplitargs(s) = <<u, v>>
<1> DEFINE n == Len(s)
           name == FirstText(s, 1)
           stop == FirstStop(s, name)
           value == FirstText(s, stop + 1)
           end == FirstStop(s, value)
           last == FirstText(s, end + 1)
           A == SubSeq(s, name, stop - 1)
           B == SubSeq(s, value, end - 1)
           Z == SubSeq(s, last, FirstStop(s, last) - 1)
<1>1. PICK args : Args(s, args) /\ cssplitargs(s) = args[1]
  BY ArgsIs
<1>2. args \in [1 .. (n + 2) -> Seq(Seq(C))]
  BY <1>1 DEF Args
<1>3. \A p \in 1 .. (n + 2) :
        /\ FirstText(s, p) > n => args[p] = <<>>
        /\ ~ (FirstText(s, p) > n) =>
             args[p] = <<SubSeq(s, FirstText(s, p), FirstStop(s, FirstText(s, p)) - 1)>>
                         \o args[FirstStop(s, FirstText(s, p)) + 1]
  BY <1>1, Zenon DEF Args
<1>4. /\ name \in Int /\ n \in Nat /\ 1 \in 1 .. (n + 2) /\ 1 \in Nat \ {0} /\ args[1] \in Seq(Seq(C))
  <2>1. name \in 1 .. (n + 1) /\ n \in Nat
    BY TextIs
  <2> HIDE DEF name
  <2> QED
    BY <1>2, <2>1
<1>5. CASE name > n
  <2>1. args[1] = <<>>
    BY <1>3, <1>4, <1>5
  <2>2. \A u, v : ~ Pair(s, u, v)
    <3>1. ~ (name <= n)
      BY <1>4, <1>5
    <3> QED
      BY <3>1, Zenon DEF Pair
  <2>3. Len(<<>>) # 2
    OBVIOUS
  <2> QED
    BY <1>1, <1>4, <1>5, <2>1, <2>2, <2>3
<1>6. CASE ~ (name > n)
  <2>1. /\ name <= n
        /\ stop + 1 \in Nat \ {0} /\ stop + 1 \in 1 .. (n + 2) /\ A \in Seq(C)
    <3>1. FirstText(s, 1) <= Len(s)
      BY <1>4, <1>6
    <3> QED
      BY <1>4, <3>1, StopBehind
  <2>2. args[1] = <<A>> \o args[stop + 1] /\ args[stop + 1] \in Seq(Seq(C))
    <3>1. args[1] = <<A>> \o args[stop + 1]
      BY <1>3, <1>4, <1>6
    <3> HIDE DEF stop, A
    <3> QED
      BY <1>2, <2>1, <3>1
  <2> DEFINE w == args[stop + 1]
  <2>3. args[1] # <<>> /\ Len(args[1]) = Len(w) + 1 /\ args[1][1] = A
        /\ \A k \in 1 .. Len(w) : args[1][k + 1] = w[k]
    <3> HIDE DEF w, A, name
    <3>1. /\ Len(<<A>> \o w) = Len(w) + 1 /\ (<<A>> \o w)[1] = A
          /\ \A k \in 1 .. Len(w) : (<<A>> \o w)[k + 1] = w[k]
      <4>1. A \in Seq(C) /\ w \in Seq(Seq(C))
        BY <2>1, <2>2, Zenon DEF w
      <4> QED
        BY ONLY <4>1, OnTop
    <3>2. args[1] = <<A>> \o w /\ w \in Seq(Seq(C))
      BY <2>2 DEF w
    <3>3. Len(w) + 1 # 0 /\ Len(<<>>) = 0
      BY <3>2
    <3> QED
      BY ONLY <3>1, <3>2, <3>3
  <2>4. value \in Int
    <3>1. value \in 1 .. (n + 1)
      BY <2>1, TextIs
    <3> HIDE DEF value
    <3> QED
      BY <3>1
  <2>5. CASE value > n
    <3>1. w = <<>>
      BY <1>3, <2>1, <2>5
    <3>2. \A u, v : ~ Pair(s, u, v)
      <4>1. ~ (value <= n)
        BY <1>4, <2>4, <2>5
      <4> QED
        BY <4>1, Zenon DEF Pair
    <3>3. Len(args[1]) # 2
      <4>1. Len(<<>>) = 0
        OBVIOUS
      <4> HIDE DEF w
      <4> QED
        BY <2>3, <3>1, <4>1
    <3> QED
      BY <1>1, <1>4, <1>6, <2>3, <3>2, <3>3
  <2>6. CASE ~ (value > n)
    <3>1. /\ value <= n
          /\ end + 1 \in Nat \ {0} /\ end + 1 \in 1 .. (n + 2) /\ B \in Seq(C)
      <4>1. FirstText(s, stop + 1) <= Len(s)
        BY <1>4, <2>4, <2>6
      <4> QED
        BY <2>1, <4>1, StopBehind
    <3> DEFINE x == args[end + 1]
    <3>2. w = <<B>> \o x /\ x \in Seq(Seq(C))
      <4>1. w = <<B>> \o x
        BY <1>3, <2>1, <2>6
      <4> HIDE DEF end, B, w
      <4> QED
        BY <1>2, <3>1, <4>1
    <3>3. w \in Seq(Seq(C)) /\ Len(w) = Len(x) + 1 /\ w[1] = B
      <4> HIDE DEF x, B
      <4>1. (<<B>> \o x \in Seq(Seq(C))) /\ Len(<<B>> \o x) = Len(x) + 1 /\ (<<B>> \o x)[1] = B
        BY <3>1, <3>2, OnTop
      <4> HIDE DEF w
      <4> QED
        BY <3>2, <4>1
    <3>4. last \in Int
      <4>1. last \in 1 .. (n + 1)
        BY <3>1, TextIs
      <4> HIDE DEF last
      <4> QED
        BY <4>1
    <3>5. /\ Len(w) \in Nat /\ Len(args[1]) = Len(w) + 1 /\ args[1][1] = A /\ Len(x) \in Nat
          /\ args[1][2] = B
      <4> HIDE DEF w, x, A, B
      <4>1. Len(w) \in Nat /\ Len(x) \in Nat /\ 1 \in 1 .. Len(w) /\ 1 + 1 = 2
        BY <3>2, <3>3
      <4> QED
        BY <2>3, <3>3, <4>1
    <3>6. CASE last > n
      <4>1. x = <<>> /\ Len(x) = 0
        <5>1. x = <<>>
          BY <1>3, <3>1, <3>6
        <5> HIDE DEF x
        <5> QED
          BY <5>1
      <4>2. args[1] = <<A, B>>
        <5> HIDE DEF w, x, A, B
        <5>1. /\ args[1] \in Seq(Seq(C)) /\ Len(args[1]) = 2 /\ args[1][1] = A /\ args[1][2] = B
          BY <1>4, <3>3, <3>5, <4>1
        <5> QED
          BY <5>1
      <4>3. \A u, v : Pair(s, u, v) => u = A /\ v = B
        BY Zenon DEF Pair
      <4>4. Pair(s, A, B)
        BY <2>1, <3>1, <3>6, Zenon DEF Pair
      <4>5. <<A, B>>[1] = A /\ <<A, B>>[2] = B
        OBVIOUS
      <4> HIDE DEF A, B, name, stop, value, end, last
      <4>6. cssplitargs(s) = <<A, B>>
        BY <1>1, <4>2
      <4> QED
        BY <1>1, <1>4, <1>6, <2>3, <4>3, <4>4, <4>5, <4>6 DEF name
    <3>7. CASE ~ (last > n)
      <4>1. Len(x) # 0
        <5>1. /\ FirstStop(s, last) + 1 \in 1 .. (n + 2) /\ Z \in Seq(C)
          <6>1. FirstText(s, end + 1) <= Len(s)
            BY <1>4, <3>4, <3>7
          <6> QED
            BY <3>1, <6>1, StopBehind
        <5> DEFINE y == args[FirstStop(s, last) + 1]
        <5>2. x = <<Z>> \o y
          BY <1>3, <3>1, <3>7
        <5>3. y \in Seq(Seq(C))
          BY <1>2, <5>1
        <5> HIDE DEF y, Z
        <5>4. Len(<<Z>> \o y) = Len(y) + 1 /\ Len(y) \in Nat
          BY <5>1, <5>3, OnTop
        <5> HIDE DEF x
        <5> QED
          BY <5>2, <5>4
      <4>2. Len(args[1]) # 2
        <5> HIDE DEF w, x, A, B
        <5> QED
          BY <3>3, <3>5, <4>1
      <4>3. \A u, v : ~ Pair(s, u, v)
        BY <3>7, Zenon DEF Pair
      <4> QED
        BY <1>1, <1>4, <1>6, <2>3, <4>2, <4>3
    <3> QED
      BY <3>6, <3>7
  <2> QED
    BY <2>5, <2>6
<1> QED
  BY <1>5, <1>6

(* No directive holds a stop or the mark of a comment. *)
LEMMA Unstopped ==
  ASSUME NEW C, NEW u \in Seq(C), NEW d \in Directives, strcasecmp(u, d)
  PROVE  /\ Len(u) = Len(d) /\ Len(d) > 0
         /\ \A k \in 1 .. Len(u) : Char(u, k) \notin Stops /\ Char(u, k) # Hash
<1>1. Len(u) = Len(d) /\ \A k \in 1 .. Len(u) : tolower(Char(u, k)) = tolower(Char(d, k))
  BY Zenon DEF strcasecmp
<1>2. /\ Len(d) > 0
      /\ \A k \in 1 .. Len(d), c \in Stops \cup {Hash} : tolower(Char(d, k)) # tolower(c)
  BY DirectivesAssumption, Zenon DEF Hash
<1>3. ASSUME NEW k \in 1 .. Len(u) PROVE Char(u, k) \notin Stops \cup {Hash}
  BY <1>1, <1>2, <1>3, Zenon
<1> QED
  BY <1>1, <1>2, <1>3

LEMMA SpacesLeft ==
  ASSUME NEW C, NEW s \in Seq(C), NEW k \in 1 .. (Len(s) + 1)
  PROVE  /\ k <= Len(s) => (AllSpaces(From(s, k)) <=> FirstText(s, k + 1) > Len(s))
         /\ k = Len(s) + 1 => FirstText(s, k + 1) > Len(s)
<1>1. Len(s) \in Nat /\ k + 1 \in Nat \ {0}
  OBVIOUS
<1>2. /\ FirstText(s, k + 1) \in 1 .. (Len(s) + 1)
      /\ FirstText(s, k + 1) <= Len(s) =>
           k + 1 <= FirstText(s, k + 1) /\ Char(s, FirstText(s, k + 1)) \notin Spaces
      /\ \A q \in (k + 1) .. Len(s) : q < FirstText(s, k + 1) => Char(s, q) \in Spaces
  BY <1>1, TextIs
<1> DEFINE t == FirstText(s, k + 1)
<1> HIDE DEF t
<1>3. CASE k = Len(s) + 1
  <2>1. ~ (t <= Len(s)) /\ t \in Int
    BY <1>1, <1>2, <1>3 DEF t
  <2> QED
    BY <1>1, <1>3, <2>1 DEF t
<1>4. CASE k <= Len(s)
  <2> DEFINE rest == From(s, k)
  <2>1. Len(rest) = Len(s) - k /\ \A q \in 1 .. (Len(s) - k) : Char(rest, q) = Char(s, k + q)
    <3>1. k + 1 \in 1 .. (Len(s) + 1) /\ Len(s) \in ((k + 1) - 1) .. Len(s)
          /\ Len(s) - (k + 1) + 1 = Len(s) - k
      BY <1>1, <1>4
    <3>2. \A q \in 1 .. (Len(s) - k) : (k + 1) + q - 1 = k + q
      OBVIOUS
    <3>3. rest = SubSeq(s, k + 1, Len(s))
      BY DEF From
    <3> HIDE DEF rest
    <3>4. /\ Len(rest) = Len(s) - (k + 1) + 1
          /\ \A q \in 1 .. (Len(s) - (k + 1) + 1) : Char(rest, q) = Char(s, (k + 1) + q - 1)
      BY <3>1, <3>3, PartIs
    <3> QED
      BY <3>1, <3>2, <3>4
  <2> HIDE DEF rest
  <2>2. ASSUME AllSpaces(rest) PROVE t > Len(s)
    <3> SUFFICES ASSUME t <= Len(s) PROVE FALSE
      BY <1>1, <1>2 DEF t
    <3>1. t - k \in 1 .. (Len(s) - k) /\ k + (t - k) = t
      BY <1>1, <1>2 DEF t
    <3>2. Char(s, t) = Char(rest, t - k)
      BY <2>1, <3>1
    <3>3. Char(rest, t - k) \in Spaces
      BY <2>1, <2>2, <3>1 DEF AllSpaces
    <3> QED
      BY <1>2, <3>2, <3>3 DEF t
  <2>3. ASSUME t > Len(s) PROVE AllSpaces(rest)
    <3>1. ASSUME NEW q \in 1 .. Len(rest) PROVE Char(rest, q) \in Spaces
      <4>1. k + q \in (k + 1) .. Len(s) /\ q \in 1 .. (Len(s) - k) /\ k + q < t
        BY <1>1, <1>2, <2>1, <2>3 DEF t
      <4> QED
        BY <1>2, <2>1, <4>1 DEF t
    <3> QED
      BY <3>1 DEF AllSpaces
  <2> QED
    BY <1>1, <1>4, <2>2, <2>3 DEF t, rest
<1> QED
  BY <1>1, <1>3, <1>4

(* The reference gives a directive the second argument when the line has   *)
(* two and the first is the directive.                                     *)
LEMMA ValuesPair ==
  ASSUME NEW C, STRING = Seq(C), NEW s \in Seq(C), NEW d \in Directives
  PROVE  \A v : v \in ValuesOf(s, d) <=> \E u : Pair(s, u, v) /\ strcasecmp(u, d)
<1> DEFINE n == Len(s)
           name == FirstText(s, 1)
           sep == name + Len(d)
           value == FirstText(s, sep + 1)
           Ends == {k \in value .. (n + 1) :
                      /\ \A q \in value .. (k - 1) : ~ (Char(s, q) \in Stops)
                      /\ k <= n => Char(s, k) \in Stops /\ AllSpaces(From(s, k))}
<1>1. ValuesOf(s, d) =
        IF value > n \/ ~strcasecmp(SubSeq(s, name, sep - 1), d) \/ ~ (Char(s, sep) \in Stops) THEN {}
        ELSE {SubSeq(s, value, e - 1) : e \in Ends}
  BY Zenon DEF ValuesOf, FirstText
<1>2. /\ n \in Nat /\ 1 \in Nat \ {0} /\ name \in 1 .. (n + 1) /\ name \in Nat \ {0}
      /\ Len(d) \in Nat /\ sep + 1 \in Nat \ {0} /\ sep \in Nat
  <2>1. name \in 1 .. (n + 1) /\ n \in Nat
    BY TextIs
  <2>2. Len(d) \in Nat
    BY LettersSpelt DEF Letters
  <2> HIDE DEF name
  <2> QED
    BY <2>1, <2>2
<1>3. value \in 1 .. (n + 1) /\ (value <= n => sep + 1 <= value)
  BY <1>2, TextIs
<1> HIDE DEF value, Ends
<1>4. ASSUME NEW v \in ValuesOf(s, d) PROVE \E u : Pair(s, u, v) /\ strcasecmp(u, d)
  <2> DEFINE u == SubSeq(s, name, sep - 1)
  <2>1. ~ (value > n) /\ strcasecmp(u, d) /\ Char(s, sep) \in Stops
        /\ \E e \in Ends : v = SubSeq(s, value, e - 1)
    BY <1>1, <1>4
  <2>2. PICK e \in Ends : v = SubSeq(s, value, e - 1)
    BY <2>1
  <2> HIDE DEF name
  <2>3. value <= n /\ sep + 1 <= value /\ name <= n /\ sep \in name .. n
    BY <1>2, <1>3, <2>1
  <2>4. /\ u \in Seq(C) /\ Len(u) = Len(d)
        /\ \A k \in 1 .. Len(d) : Char(u, k) = Char(s, name + k - 1)
    <3>1. name \in 1 .. (Len(s) + 1) /\ sep - 1 \in (name - 1) .. Len(s)
          /\ (sep - 1) - name + 1 = Len(d)
      BY <1>2, <2>3
    <3>2. s \in Seq(C)
      OBVIOUS
    <3> DEFINE q == sep - 1
    <3> HIDE DEF q
    <3>3. name \in 1 .. (Len(s) + 1) /\ q \in (name - 1) .. Len(s) /\ q - name + 1 = Len(d)
      BY <3>1 DEF q
    <3>4. /\ SubSeq(s, name, q) \in Seq(C) /\ Len(SubSeq(s, name, q)) = q - name + 1
          /\ \A k \in 1 .. (q - name + 1) : Char(SubSeq(s, name, q), k) = Char(s, name + k - 1)
      BY ONLY <3>2, <3>3, PartIs
    <3>5. u = SubSeq(s, name, q)
      BY DEF q
    <3> QED
      BY <3>3, <3>4, <3>5, Zenon
  <2>5. FirstStop(s, name) = sep
    <3>1. ASSUME NEW k \in name .. (sep - 1) PROVE Char(s, k) \notin Stops
      <4>1. k - name + 1 \in 1 .. Len(d) /\ name + (k - name + 1) - 1 = k
        BY <1>2
      <4>2. Char(u, k - name + 1) \notin Stops
        <5> HIDE DEF u
        <5> QED
          BY <2>1, <2>4, <4>1, Unstopped
      <4> QED
        BY <2>4, <4>1, <4>2
    <3>2. name \in 1 .. (Len(s) + 1) /\ sep \in name .. (Len(s) + 1)
      BY <1>2, <2>3
    <3> QED
      BY <2>1, <3>1, <3>2, StopAt
  <2>6. FirstStop(s, value) = e
    <3>1. value \in 1 .. (Len(s) + 1) /\ e \in value .. (Len(s) + 1)
          /\ (e <= Len(s) => Char(s, e) \in Stops)
          /\ \A q \in value .. (e - 1) : Char(s, q) \notin Stops
      BY <1>3 DEF Ends
    <3> QED
      BY <3>1, StopAt
  <2>7. FirstText(s, e + 1) > n
    <3>1. e \in value .. (n + 1) /\ (e <= n => AllSpaces(From(s, e)))
      BY DEF Ends
    <3>2. e \in 1 .. (Len(s) + 1) /\ (e <= Len(s) \/ e = Len(s) + 1)
      BY <1>2, <1>3, <3>1
    <3> QED
      BY <3>1, <3>2, SpacesLeft
  <2>8. FirstText(s, FirstStop(s, FirstText(s, 1)) + 1) = value /\ FirstText(s, 1) = name
    BY <2>5 DEF value, name
  <2>9. Pair(s, u, v)
    <3> HIDE DEF sep
    <3>1. u = SubSeq(s, name, sep - 1)
      OBVIOUS
    <3> HIDE DEF u
    <3> QED
      BY <2>2, <2>3, <2>5, <2>6, <2>7, <2>8, <3>1, Zenon DEF Pair
  <2> QED
    BY <2>1, <2>9
<1>5. ASSUME NEW u, NEW v, Pair(s, u, v), strcasecmp(u, d) PROVE v \in ValuesOf(s, d)
  <2> DEFINE stop == FirstStop(s, name)
             val == FirstText(s, stop + 1)
             end == FirstStop(s, val)
  <2>1. /\ name <= n /\ val <= n /\ FirstText(s, end + 1) > n
        /\ u = SubSeq(s, name, stop - 1) /\ v = SubSeq(s, val, end - 1)
    BY <1>5, Zenon DEF Pair
  <2>2. /\ stop \in name .. (n + 1) /\ stop + 1 \in Nat \ {0}
        /\ u \in Seq(C) /\ Len(u) = stop - name
    <3>1. FirstText(s, 1) <= Len(s)
      BY <2>1
    <3> QED
      BY <1>2, <2>1, <3>1, StopBehind
  <2>3. sep = stop
    <3>1. Len(u) = Len(d)
      BY <1>5, <2>2, Unstopped
    <3> HIDE DEF name, stop
    <3> QED
      BY <1>2, <2>2, <3>1
  <2>4. value = val
    BY <2>3 DEF value
  <2> HIDE DEF name
  <2>5. stop <= n /\ Char(s, stop) \in Stops
    <3>1. stop <= n
      BY <1>2, <1>3, <2>1, <2>2, <2>3, <2>4
    <3> QED
      BY <1>2, <3>1, StopIs
  <2>6. /\ end \in val .. (n + 1)
        /\ end <= n => Char(s, end) \in Stops
        /\ \A k \in val .. n : k < end => Char(s, k) \notin Stops
    <3>1. val \in Nat \ {0} /\ val <= Len(s) + 1
      BY <1>3, <2>4
    <3> HIDE DEF val
    <3>2. /\ end \in 1 .. (Len(s) + 1) /\ val <= end
          /\ end <= Len(s) => Char(s, end) \in Stops
          /\ \A k \in val .. n : k < end => Char(s, k) \notin Stops
      BY <3>1, StopIs
    <3> HIDE DEF end
    <3> QED
      BY <1>2, <3>1, <3>2
  <2>7. end <= n => AllSpaces(From(s, end))
    <3>1. val \in 1 .. (n + 1)
      BY <1>3, <2>4
    <3> HIDE DEF val, end
    <3>2. end \in 1 .. (Len(s) + 1)
      BY <1>2, <2>6, <3>1
    <3> QED
      BY <2>1, <3>2, SpacesLeft
  <2>8. end \in Ends
    <3>1. val \in 1 .. (n + 1)
      BY <1>3, <2>4
    <3> HIDE DEF val, end
    <3>2. \A q \in val .. (end - 1) : Char(s, q) \notin Stops
      <4> TAKE q \in val .. (end - 1)
      <4>1. q \in val .. n /\ q < end
        BY <1>2, <2>6, <3>1
      <4> QED
        BY <2>6, <4>1
    <3> QED
      BY <2>4, <2>6, <2>7, <3>2 DEF Ends
  <2>9. v \in {SubSeq(s, value, e - 1) : e \in Ends}
    <3> HIDE DEF val, end
    <3> QED
      BY <2>1, <2>4, <2>8
  <2>10. ~ (value > n) /\ strcasecmp(SubSeq(s, name, sep - 1), d) /\ Char(s, sep) \in Stops
    <3> HIDE DEF stop, val
    <3>1. ~ (value > n)
      BY <1>2, <1>3, <2>1, <2>4
    <3> HIDE DEF sep
    <3> QED
      BY <1>5, <2>1, <2>3, <2>5, <3>1
  <2> QED
    BY <1>1, <2>9, <2>10
<1> QED
  BY <1>4, <1>5

(* A line and what csstrim leaves of it: t, from x + 1 to y.               *)
Trims(l, x, y, t) ==
  /\ t = SubSeq(l, x + 1, y)
  /\ x \in 0 .. Len(l) /\ y \in x .. Len(l)
  /\ \A k \in 1 .. x : Char(l, k) \in Blanks
  /\ \A k \in (y + 1) .. Len(l) : Char(l, k) \in Blanks
  /\ x < y => Char(l, x + 1) \notin Blanks

LEMMA TrimIs ==
  ASSUME NEW C, NEW l \in Seq(C), NEW x, NEW y, NEW t, Trims(l, x, y, t)
  PROVE  /\ x \in Nat /\ y \in Nat /\ x <= y /\ y <= Len(l)
         /\ t \in Seq(C) /\ Len(t) = y - x
         /\ \A k \in 1 .. Len(t) : Char(t, k) = Char(l, x + k)
<1>1. /\ x + 1 \in 1 .. (Len(l) + 1) /\ y \in ((x + 1) - 1) .. Len(l) /\ y - (x + 1) + 1 = y - x
      /\ x \in Nat /\ y \in Nat /\ x <= y /\ y <= Len(l) /\ t = SubSeq(l, x + 1, y)
  BY DEF Trims
<1>2. /\ t \in Seq(C) /\ Len(t) = y - (x + 1) + 1
      /\ \A k \in 1 .. (y - (x + 1) + 1) : Char(t, k) = Char(l, (x + 1) + k - 1)
  BY <1>1, PartIs
<1>3. \A k \in 1 .. Len(t) : (x + 1) + k - 1 = x + k
  BY <1>1
<1>4. \A k \in 1 .. Len(t) : Char(t, k) = Char(l, x + k)
  BY <1>1, <1>2, <1>3
<1> QED
  BY <1>1, <1>2, <1>4

(* Text and stops of the trimmed line are those of the line, x places on.  *)
LEMMA TextShift ==
  ASSUME NEW C, NEW l \in Seq(C), NEW x, NEW y, NEW t, Trims(l, x, y, t), NEW p \in 1 .. (Len(t) + 2)
  PROVE  /\ FirstText(t, p) <= Len(t) => FirstText(l, x + p) = x + FirstText(t, p) /\ FirstText(l, x + p) <= Len(l)
         /\ FirstText(t, p) > Len(t) => FirstText(l, x + p) > Len(l)
         /\ FirstText(t, p) \in Int
<1>1. /\ x \in Nat /\ y \in Nat /\ x <= y /\ y <= Len(l) /\ Len(l) \in Nat
      /\ t \in Seq(C) /\ Len(t) = y - x
      /\ \A k \in 1 .. Len(t) : Char(t, k) = Char(l, x + k)
  BY TrimIs
<1> DEFINE b == FirstText(t, p)
<1>2. /\ b \in 1 .. (Len(t) + 1)
      /\ b <= Len(t) => p <= b /\ Char(t, b) \notin Spaces
      /\ \A k \in p .. Len(t) : k < b => Char(t, k) \in Spaces
  <2>1. p \in Nat \ {0}
    BY <1>1
  <2> QED
    BY <1>1, <2>1, TextIs
<1> HIDE DEF b
<1>3. ASSUME NEW k \in (x + p) .. Len(l), k < x + b \/ b = Len(t) + 1 PROVE Char(l, k) \in Spaces
  <2>1. CASE k > y
    <3>1. k \in (y + 1) .. Len(l)
      BY <1>1, <2>1
    <3> QED
      BY <3>1, Marks DEF Trims
  <2>2. CASE k <= y
    <3>1. k - x \in p .. Len(t) /\ k - x \in 1 .. Len(t) /\ k - x < b /\ x + (k - x) = k
      BY <1>1, <1>2, <1>3, <2>2
    <3> QED
      BY <1>1, <1>2, <3>1
  <2> QED
    BY <1>1, <2>1, <2>2
<1>4. b \in Int
  BY <1>1, <1>2
<1>5. CASE b <= Len(t)
  <2>1. /\ x + p \in 1 .. (Len(l) + 1) /\ x + b \in (x + p) .. (Len(l) + 1) /\ b \in 1 .. Len(t)
        /\ x + b <= Len(l) /\ ~ (b > Len(t))
    BY <1>1, <1>2, <1>5
  <2>2. Char(l, x + b) \notin Spaces
    BY <1>1, <1>2, <1>5, <2>1
  <2>3. \A k \in (x + p) .. ((x + b) - 1) : Char(l, k) \in Spaces
    <3> TAKE k \in (x + p) .. ((x + b) - 1)
    <3>1. k \in (x + p) .. Len(l) /\ k < x + b
      BY <1>1, <1>2, <2>1
    <3> QED
      BY <1>3, <3>1
  <2>4. FirstText(l, x + p) = x + b
    BY <2>1, <2>2, <2>3, TextAt
  <2> QED
    BY <2>1, <2>4, <1>4 DEF b
<1>6. CASE b > Len(t)
  <2>1. b = Len(t) + 1 /\ ~ (b <= Len(t)) /\ x + p \in Nat \ {0}
    BY <1>1, <1>2, <1>6
  <2> DEFINE c == FirstText(l, x + p)
  <2>2. /\ c \in 1 .. (Len(l) + 1)
        /\ c <= Len(l) => x + p <= c /\ Char(l, c) \notin Spaces
    BY <2>1, TextIs
  <2> HIDE DEF c
  <2>3. c <= Len(l) => c \in (x + p) .. Len(l)
    BY <1>1, <2>2
  <2>4. ~ (c <= Len(l))
    BY <1>3, <2>1, <2>2, <2>3
  <2>5. c > Len(l)
    BY <1>1, <2>2, <2>4
  <2> QED
    BY <2>1, <2>5, <1>4 DEF b, c
<1> QED
  BY <1>1, <1>4, <1>5, <1>6

LEMMA StopShift ==
  ASSUME NEW C, NEW l \in Seq(C), NEW x, NEW y, NEW t, Trims(l, x, y, t), NEW p \in 1 .. Len(t)
  PROVE  FirstStop(l, x + p) = x + FirstStop(t, p)
<1>1. /\ x \in Nat /\ y \in Nat /\ x <= y /\ y <= Len(l) /\ Len(l) \in Nat
      /\ t \in Seq(C) /\ Len(t) = y - x
      /\ \A k \in 1 .. Len(t) : Char(t, k) = Char(l, x + k)
  BY TrimIs
<1> DEFINE b == FirstStop(t, p)
<1>2. /\ b \in p .. (Len(t) + 1)
      /\ b <= Len(t) => Char(t, b) \in Stops
      /\ \A k \in p .. Len(t) : k < b => Char(t, k) \notin Stops
  <2>1. p \in Nat \ {0} /\ p <= Len(t) + 1
    BY <1>1
  <2>2. /\ b \in 1 .. (Len(t) + 1) /\ p <= b
        /\ b <= Len(t) => Char(t, b) \in Stops
        /\ \A k \in p .. Len(t) : k < b => Char(t, k) \notin Stops
    BY <1>1, <2>1, StopIs
  <2> HIDE DEF b
  <2> QED
    BY <1>1, <2>1, <2>2
<1> HIDE DEF b
<1>3. ASSUME NEW k \in (x + p) .. ((x + b) - 1) PROVE Char(l, k) \notin Stops
  <2>1. k - x \in p .. Len(t) /\ k - x \in 1 .. Len(t) /\ k - x < b /\ x + (k - x) = k
    BY <1>1, <1>2
  <2> QED
    BY <1>1, <1>2, <2>1
<1>4. x + p \in 1 .. (Len(l) + 1) /\ x + b \in (x + p) .. (Len(l) + 1)
  BY <1>1, <1>2
<1>5. x + b <= Len(l) => Char(l, x + b) \in Stops
  <2>1. CASE b <= Len(t)
    <3>1. b \in 1 .. Len(t)
      BY <1>1, <1>2, <2>1
    <3> QED
      BY <1>1, <1>2, <2>1, <3>1
  <2>2. CASE b = Len(t) + 1
    <3>1. x + b <= Len(l) => x + b \in (y + 1) .. Len(l)
      BY <1>1, <2>2
    <3> QED
      BY <3>1, Marks DEF Trims
  <2> QED
    BY <1>1, <1>2, <2>1, <2>2
<1>6. FirstStop(l, x + p) = x + b
  BY <1>3, <1>4, <1>5, StopAt
<1> QED
  BY <1>6 DEF b

Part(s, a, b) == SubSeq(s, a, b)

LEMMA PartShift ==
  ASSUME NEW C, NEW l \in Seq(C), NEW x, NEW y, NEW t, Trims(l, x, y, t)
  PROVE  \A a \in 1 .. (Len(t) + 1) : \A b \in 0 .. Len(t) :
           a <= b + 1 => Part(t, a, b) = Part(l, x + a, x + b)
<1> TAKE a \in 1 .. (Len(t) + 1)
<1> TAKE b \in 0 .. Len(t)
<1> HAVE a <= b + 1
<1>1. x \in Nat /\ y \in Nat /\ x <= y /\ y <= Len(l) /\ Len(l) \in Nat /\ Len(t) = y - x
  BY TrimIs
<1> DEFINE z == x + 1
<1>2. /\ z \in 1 .. (Len(l) + 1) /\ y \in (z - 1) .. Len(l)
      /\ a \in 1 .. (y - z + 2) /\ b \in (a - 1) .. (y - z + 1)
      /\ z + a - 1 = x + a /\ z + b - 1 = x + b
  BY <1>1
<1>3. t = SubSeq(l, z, y)
  BY DEF Trims
<1> HIDE DEF z
<1>4. SubSeq(SubSeq(l, z, y), a, b) = SubSeq(l, z + a - 1, z + b - 1)
  BY <1>2, PartOfPart
<1> QED
  BY <1>2, <1>3, <1>4 DEF Part

(* Trimming changes neither of two arguments. *)
LEMMA PairTrim ==
  ASSUME NEW C, NEW l \in Seq(C), NEW x, NEW y, NEW t, Trims(l, x, y, t)
  PROVE  /\ FirstText(t, 1) <= Len(t) => FirstText(l, 1) = x + FirstText(t, 1) /\ FirstText(l, 1) <= Len(l)
         /\ FirstText(t, 1) > Len(t) => FirstText(l, 1) > Len(l)
         /\ \A u, v : Pair(t, u, v) <=> Pair(l, u, v)
<1> DEFINE n == Len(t)
           m == Len(l)
           name == FirstText(t, 1)
           stop == FirstStop(t, name)
           value == FirstText(t, stop + 1)
           end == FirstStop(t, value)
           last == FirstText(t, end + 1)
           nameL == FirstText(l, 1)
           stopL == FirstStop(l, nameL)
           valueL == FirstText(l, stopL + 1)
           endL == FirstStop(l, valueL)
           lastL == FirstText(l, endL + 1)
<1>1. /\ x \in Nat /\ y \in Nat /\ x <= y /\ y <= m /\ m \in Nat
      /\ t \in Seq(C) /\ n = y - x /\ n \in Nat
  BY TrimIs
<1>2. \A p \in 1 .. (n + 2) :
        /\ FirstText(t, p) <= n => FirstText(l, x + p) = x + FirstText(t, p) /\ FirstText(l, x + p) <= m
        /\ FirstText(t, p) > n => FirstText(l, x + p) > m
        /\ FirstText(t, p) \in Int
  <2> TAKE p \in 1 .. (n + 2)
  <2> QED
    BY TextShift
<1>3. \A p \in 1 .. n : FirstStop(l, x + p) = x + FirstStop(t, p)
  <2> TAKE p \in 1 .. n
  <2> QED
    BY StopShift
<1>4. \A a \in 1 .. (n + 1) : \A b \in 0 .. n : a <= b + 1 => Part(t, a, b) = Part(l, x + a, x + b)
  BY PartShift
<1>5. \A p \in 1 .. (n + 2) : FirstText(t, p) <= n =>
        /\ FirstText(t, p) \in 1 .. n /\ FirstText(t, p) >= p
        /\ FirstStop(t, FirstText(t, p)) \in FirstText(t, p) .. (n + 1)
        /\ FirstStop(t, FirstText(t, p)) + 1 \in 1 .. (n + 2)
  <2> TAKE p \in 1 .. (n + 2)
  <2>1. p \in Nat \ {0}
    BY <1>1
  <2> QED
    BY <1>1, <2>1, StopBehind
<1>6. \A p \in Nat \ {0} : FirstText(l, p) \in 1 .. (m + 1)
  BY TextIs
<1>7. 1 \in 1 .. (n + 2) /\ 1 \in Nat \ {0} /\ x + 1 \in Nat \ {0}
  BY <1>1
(* Before the trimmed line there are only blanks. *)
<1>8. nameL = FirstText(l, x + 1)
  <2> DEFINE F == FirstText(l, x + 1)
  <2>1. /\ F \in 1 .. (m + 1) /\ x + 1 <= F
        /\ F <= m => Char(l, F) \notin Spaces
        /\ \A k \in (x + 1) .. m : k < F => Char(l, k) \in Spaces
    <3>1. x + 1 \in Nat \ {0} /\ x + 1 <= Len(l) + 1
      BY <1>1
    <3> QED
      BY <3>1, TextIs
  <2> HIDE DEF F
  <2>2. \A k \in 1 .. (F - 1) : Char(l, k) \in Spaces
    <3> TAKE k \in 1 .. (F - 1)
    <3>1. CASE k <= x
      <4>1. k \in 1 .. x
        BY <1>1, <3>1
      <4> QED
        BY <4>1, Marks DEF Trims
    <3>2. CASE k > x
      <4>1. k \in (x + 1) .. m /\ k < F
        BY <1>1, <2>1, <3>2
      <4> QED
        BY <2>1, <4>1
    <3> QED
      BY <1>1, <3>1, <3>2
  <2>3. 1 \in 1 .. (Len(l) + 1) /\ F \in 1 .. (Len(l) + 1)
    BY <1>1, <2>1
  <2>4. FirstText(l, 1) = F
    BY <2>1, <2>2, <2>3, TextAt
  <2> QED
    BY <2>4 DEF F
<1>9. \A u, v :
        /\ Pair(t, u, v) <=> /\ name <= n /\ value <= n /\ last > n
                             /\ u = SubSeq(t, name, stop - 1) /\ v = SubSeq(t, value, end - 1)
        /\ Pair(l, u, v) <=> /\ nameL <= m /\ valueL <= m /\ lastL > m
                             /\ u = SubSeq(l, nameL, stopL - 1) /\ v = SubSeq(l, valueL, endL - 1)
  BY Zenon DEF Pair
<1> HIDE DEF n, m
<1>10. /\ name <= n => nameL = x + name /\ nameL <= m
       /\ name > n => nameL > m
       /\ name \in Int /\ nameL \in Int
  <2>1. /\ name <= n => FirstText(l, x + 1) = x + name /\ FirstText(l, x + 1) <= m
        /\ name > n => FirstText(l, x + 1) > m
        /\ name \in Int
    BY <1>2, <1>7
  <2>2. nameL \in 1 .. (m + 1)
    BY <1>6, <1>7
  <2>3. nameL \in Int
    <3> HIDE DEF nameL
    <3> QED
      BY <2>2
  <2> QED
    BY <1>8, <2>1, <2>3
<1>11. CASE name > n
  <2>1. ~ (name <= n) /\ ~ (nameL <= m)
    <3> HIDE DEF name, nameL
    <3> QED
      BY <1>1, <1>10, <1>11
  <2>2. \A u, v : ~ Pair(t, u, v) /\ ~ Pair(l, u, v)
    BY <1>9, <2>1, Zenon
  <2> QED
    BY <1>10, <1>11, <2>1, <2>2, Zenon DEF n, m
<1>12. CASE name <= n
  <2>1. nameL = x + name /\ name \in 1 .. n /\ nameL <= m
        /\ stop \in name .. (n + 1) /\ stop + 1 \in 1 .. (n + 2)
    BY <1>5, <1>7, <1>10, <1>12
  <2>2. stopL = x + stop
    <3> HIDE DEF name, nameL
    <3> QED
      BY <1>3, <2>1
  <2> HIDE DEF name, nameL
  <2>3. /\ stop \in Int /\ stopL + 1 = x + (stop + 1) /\ stopL + 1 \in Nat \ {0}
        /\ stop - 1 \in 0 .. n /\ name <= (stop - 1) + 1 /\ stopL - 1 = x + (stop - 1)
        /\ name \in 1 .. (n + 1)
    <3> HIDE DEF stop, stopL
    <3> QED
      BY <1>1, <2>1, <2>2
  <2>4. SubSeq(t, name, stop - 1) = SubSeq(l, nameL, stopL - 1)
    <3> HIDE DEF stop, stopL
    <3>1. Part(t, name, stop - 1) = Part(l, x + name, x + (stop - 1))
      BY <1>4, <2>3
    <3> QED
      BY <2>1, <2>3, <3>1 DEF Part
  <2> HIDE DEF stop, stopL
  <2>5. /\ value <= n => valueL = x + value /\ valueL <= m
        /\ value > n => valueL > m
        /\ value \in Int /\ valueL \in 1 .. (m + 1)
    <3>1. /\ value <= n => FirstText(l, x + (stop + 1)) = x + value /\ FirstText(l, x + (stop + 1)) <= m
          /\ value > n => FirstText(l, x + (stop + 1)) > m
          /\ value \in Int
      BY <1>2, <2>1
    <3>2. valueL \in 1 .. (m + 1)
      BY <1>6, <2>3
    <3> QED
      BY <2>3, <3>1, <3>2
  <2>6. CASE value > n
    <3>1. ~ (value <= n) /\ ~ (valueL <= m)
      <4> HIDE DEF value, valueL
      <4> QED
        BY <1>1, <2>5, <2>6
    <3>2. \A u, v : ~ Pair(t, u, v) /\ ~ Pair(l, u, v)
      BY <1>9, <3>1, Zenon DEF name, nameL, stop, stopL
    <3>3. ~ (name > n)
      BY <1>1, <2>1
    <3> QED
      BY <2>1, <3>2, <3>3, Zenon DEF n, m, name, nameL
  <2>7. CASE value <= n
    <3>1. /\ value \in 1 .. n /\ end \in value .. (n + 1) /\ end + 1 \in 1 .. (n + 2)
      BY <1>5, <2>1, <2>7
    <3>2. valueL = x + value /\ valueL <= m
      BY <2>5, <2>7
    <3> HIDE DEF value, valueL
    <3>3. endL = x + end
      BY <1>3, <3>1, <3>2
    <3>4. /\ endL + 1 = x + (end + 1) /\ endL + 1 \in Nat \ {0}
          /\ end - 1 \in 0 .. n /\ value <= (end - 1) + 1 /\ endL - 1 = x + (end - 1)
          /\ value \in 1 .. (n + 1)
      <4> HIDE DEF end, endL
      <4> QED
        BY <1>1, <3>1, <3>3
    <3>5. SubSeq(t, value, end - 1) = SubSeq(l, valueL, endL - 1)
      <4> HIDE DEF end, endL
      <4>1. Part(t, value, end - 1) = Part(l, x + value, x + (end - 1))
        BY <1>4, <3>4
      <4> QED
        BY <3>2, <3>4, <4>1 DEF Part
    <3> HIDE DEF end, endL
    <3>6. last > n <=> lastL > m
      <4>1. /\ last <= n => FirstText(l, x + (end + 1)) <= m
            /\ last > n => FirstText(l, x + (end + 1)) > m
            /\ last \in Int
        BY <1>2, <3>1
      <4>2. lastL \in 1 .. (m + 1)
        BY <1>6, <3>4
      <4>3. lastL = FirstText(l, x + (end + 1))
        BY <3>4
      <4> HIDE DEF last, lastL
      <4> QED
        BY <1>1, <4>1, <4>2, <4>3
    <3> HIDE DEF last, lastL
    <3>7. name <= n /\ value <= n /\ nameL <= m /\ valueL <= m
      BY <1>12, <2>1, <2>7, <3>2
    <3>8. \A u, v :
            /\ Pair(t, u, v) <=> /\ last > n
                                 /\ u = SubSeq(t, name, stop - 1) /\ v = SubSeq(t, value, end - 1)
            /\ Pair(l, u, v) <=> /\ lastL > m
                                 /\ u = SubSeq(l, nameL, stopL - 1) /\ v = SubSeq(l, valueL, endL - 1)
      BY <1>9, <3>7, Zenon DEF last, lastL, end, endL, value, valueL, stop, stopL, name, nameL
    <3>9. \A u, v : Pair(t, u, v) <=> Pair(l, u, v)
      BY <2>4, <3>5, <3>6, <3>8, Zenon
    <3>10. ~ (name > n)
      BY <1>1, <2>1
    <3> QED
      BY <2>1, <3>9, <3>10, Zenon DEF n, m, name, nameL
  <2> QED
    BY <1>1, <2>5, <2>6, <2>7
<1>13. name <= n \/ name > n
  BY <1>1, <1>10
<1> QED
  BY <1>11, <1>12, <1>13

LEMMA CommentIs ==
  ASSUME NEW C, STRING = Seq(C), NEW t \in Seq(C)
  PROVE  Comment(t) <=> Len(t) = 0 \/ (Len(t) >= 1 /\ Char(t, 1) = Hash)
<1>1. Letters(C)
  BY LettersSpelt
<1>2. Comment(t) <=> t = Empty \/ IsPrefix(Hash, t)
  BY Zenon DEF Comment, Empty, Hash
<1>3. t = Empty <=> Len(t) = 0
  <2>1. Len(t) = 0 => t = Empty
    BY <1>1, SeqEqual DEF Letters
  <2> QED
    BY <1>1, <2>1 DEF Letters
<1>4. IsPrefix(Hash, t) <=> Len(t) >= 1 /\ Char(t, 1) = Hash
  <2>1. Hash \in Seq(C) /\ Len(Hash) = 1
    BY <1>1 DEF Letters
  <2>2. IsPrefix(Hash, t) <=> Len(Hash) <= Len(t) /\ \A r \in 1 .. Len(Hash) : Hash[r] = t[r]
    BY <2>1, PrefixIs
  <2>3. IsPrefix(Hash, t) <=> Len(t) >= 1 /\ Hash[1] = t[1]
    BY <2>1, <2>2
  <2>4. Len(t) >= 1 => (Char(t, 1) = Hash <=> t[1] = Hash[1])
    <3> SUFFICES ASSUME Len(t) >= 1 PROVE Char(t, 1) = Hash <=> t[1] = Hash[1]
      OBVIOUS
    <3>1. 1 \in 1 .. Len(t)
      OBVIOUS
    <3> QED
      BY <2>1, <3>1, LetterAt
  <2> QED
    BY <2>3, <2>4
<1> QED
  BY <1>2, <1>3, <1>4

(* The cases of a line are those of its trimmed form. *)
LEMMA SaysIs ==
  ASSUME NEW C, STRING = Seq(C), NEW l \in Seq(C), NEW x, NEW y, NEW t, Trims(l, x, y, t)
  PROVE  /\ Comment(t) => Says(l) = "nothing"
         /\ ~Comment(t) /\ Quoted(t) => Says(l) = "quote"
         /\ ~Comment(t) /\ ~Quoted(t) /\ cssplitargs(t) = <<>> => Says(l) = "nothing"
         /\ ~Comment(t) /\ ~Quoted(t) /\ cssplitargs(t) # <<>> => Says(l) = "something"
<1> DEFINE name == FirstText(l, 1)
           b == FirstText(t, 1)
           hash == Char(l, name) = Hash /\ \A k \in 1 .. (name - 1) : Char(l, k) \in Blanks
<1>1. /\ x \in Nat /\ y \in Nat /\ x <= y /\ y <= Len(l) /\ Len(l) \in Nat
      /\ t \in Seq(C) /\ Len(t) = y - x
      /\ \A k \in 1 .. Len(t) : Char(t, k) = Char(l, x + k)
  BY TrimIs
<1>2. /\ b <= Len(t) => name = x + b /\ name <= Len(l)
      /\ b > Len(t) => name > Len(l)
  BY PairTrim
<1>3. /\ b \in 1 .. (Len(t) + 1)
      /\ b <= Len(t) => Char(t, b) \notin Spaces
      /\ \A k \in 1 .. Len(t) : k < b => Char(t, k) \in Spaces
  <2>1. 1 \in Nat \ {0}
    OBVIOUS
  <2> QED
    BY <1>1, <2>1, TextIs
<1>4. Says(l) = IF name > Len(l) \/ hash THEN "nothing" ELSE IF Quoted(l) THEN "quote" ELSE "something"
  BY Zenon DEF Says, FirstText, Hash
<1>5. cssplitargs(t) = <<>> <=> b > Len(t)
  BY <1>1, ArgsPair
<1>6. Comment(t) <=> Len(t) = 0 \/ (Len(t) >= 1 /\ Char(t, 1) = Hash)
  BY <1>1, CommentIs
<1> HIDE DEF name, b
<1>7. Comment(t) => name > Len(l) \/ hash
  <2>1. CASE Len(t) = 0
    BY <1>1, <1>2, <1>3, <2>1
  <2>2. CASE Len(t) >= 1 /\ Char(t, 1) = Hash
    <3>1. 1 \in 1 .. Len(t)
      BY <1>1, <2>2
    <3>2. b = 1
      <4>1. Char(t, 1) \notin Spaces
        BY <2>2, Marks
      <4>2. ~ (1 < b)
        BY <1>3, <3>1, <4>1
      <4> QED
        BY <1>1, <1>3, <4>2
    <3>3. name = x + 1 /\ Char(l, name) = Hash
      BY <1>1, <1>2, <2>2, <3>1, <3>2
    <3>4. \A k \in 1 .. (name - 1) : Char(l, k) \in Blanks
      <4>1. name - 1 = x
        BY <1>1, <3>3
      <4> QED
        BY <4>1 DEF Trims
    <3> QED
      BY <3>3, <3>4
  <2> QED
    BY <1>6, <2>1, <2>2
<1>8. ASSUME ~Comment(t), b <= Len(t) PROVE ~ (name > Len(l) \/ hash)
  <2>1. name = x + b /\ name <= Len(l) /\ b \in 1 .. Len(t)
    BY <1>1, <1>2, <1>3, <1>8
  <2>2. ASSUME hash PROVE FALSE
    <3>1. Char(t, b) = Hash
      BY <1>1, <2>1, <2>2
    <3>2. b # 1
      BY <1>1, <1>6, <1>8, <2>1, <3>1
    <3>3. x + 1 \in 1 .. (name - 1)
      BY <1>1, <2>1, <3>2
    <3>4. Char(l, x + 1) \in Blanks
      BY <2>2, <3>3
    <3>5. x < y
      BY <1>1, <2>1
    <3> QED
      BY <3>4, <3>5 DEF Trims
  <2>3. ~ (name > Len(l))
    BY <1>1, <2>1
  <2> QED
    BY <2>2, <2>3
<1>9. Quoted(t) => b <= Len(t)
  <2> SUFFICES ASSUME Quoted(t), ~ (b <= Len(t)) PROVE FALSE
    OBVIOUS
  <2>1. PICK q \in Quotes, k \in 1 .. Len(t) : Char(t, k) = q
    BY DEF Quoted, Places
  <2>2. k < b
    BY <1>1, <1>3
  <2>3. q \in Spaces
    BY <1>3, <2>1, <2>2
  <2> QED
    BY <2>3, Marks
<1>10. Quoted(t) <=> Quoted(l)
  <2>1. ASSUME Quoted(t) PROVE Quoted(l)
    <3>1. PICK q \in Quotes, k \in 1 .. Len(t) : Char(t, k) = q
      BY <2>1 DEF Quoted, Places
    <3>2. x + k \in 1 .. Len(l) /\ Char(l, x + k) = q
      BY <1>1, <3>1
    <3>3. Places(l, q) # {}
      BY <3>2 DEF Places
    <3> QED
      BY <3>3 DEF Quoted
  <2>2. ASSUME Quoted(l) PROVE Quoted(t)
    <3>1. PICK q \in Quotes, k \in 1 .. Len(l) : Char(l, k) = q
      BY <2>2 DEF Quoted, Places
    <3>2. q \notin Blanks
      BY Marks
    <3>3. ~ (k \in 1 .. x) /\ ~ (k \in (y + 1) .. Len(l))
      BY <3>1, <3>2 DEF Trims
    <3>4. k - x \in 1 .. Len(t) /\ x + (k - x) = k
      BY <1>1, <3>3
    <3>5. Char(t, k - x) = q
      BY <1>1, <3>1, <3>4
    <3>6. Places(t, q) # {}
      BY <3>4, <3>5 DEF Places
    <3> QED
      BY <3>6 DEF Quoted
  <2> QED
    BY <2>1, <2>2
<1>11. b <= Len(t) \/ b > Len(t)
  BY <1>1, <1>3
<1>12. ~ (b <= Len(t) /\ b > Len(t))
  BY <1>1, <1>3
<1> HIDE DEF hash
<1> QED
  BY <1>2, <1>4, <1>5, <1>7, <1>8, <1>9, <1>10, <1>11, <1>12, Zenon

LEMMA NothingSaid ==
  ASSUME NEW C, STRING = Seq(C), NEW l \in Seq(C), Says(l) = "nothing", NEW d \in Directives
  PROVE  ValuesOf(l, d) = {}
<1> DEFINE name == FirstText(l, 1)
           hash == Char(l, name) = Hash
<1>1. Says(l) = IF name > Len(l) \/ (hash /\ \A k \in 1 .. (name - 1) : Char(l, k) \in Blanks) THEN "nothing"
                ELSE IF Quoted(l) THEN "quote" ELSE "something"
  BY Zenon DEF Says, FirstText, Hash
<1>2. name > Len(l) \/ hash
  <2> HIDE DEF name, hash
  <2>1. "quote" # "nothing" /\ "something" # "nothing"
    OBVIOUS
  <2> QED
    BY <1>1, <2>1
<1>3. SUFFICES ASSUME NEW v, NEW u, Pair(l, u, v), strcasecmp(u, d) PROVE FALSE
  BY ValuesPair
<1>4. name <= Len(l) /\ u = SubSeq(l, name, FirstStop(l, name) - 1)
  BY <1>3, Zenon DEF Pair
<1>5. /\ name \in 1 .. Len(l) /\ FirstStop(l, name) \in name .. (Len(l) + 1)
      /\ u \in Seq(C) /\ Len(u) = FirstStop(l, name) - name
  <2>1. FirstText(l, 1) <= Len(l) /\ 1 \in Nat \ {0}
    BY <1>4
  <2> QED
    BY <1>4, <2>1, StopBehind
<1>6. Len(u) > 0 /\ \A k \in 1 .. Len(u) : Char(u, k) # Hash
  <2>1. Len(u) = Len(d) /\ Len(d) > 0
    BY <1>3, <1>5, Unstopped
  <2>2. \A k \in 1 .. Len(u) : Char(u, k) # Hash
    BY <1>3, <1>5, Unstopped
  <2> QED
    BY <2>1, <2>2
<1> DEFINE s == FirstStop(l, name)
<1> HIDE DEF s, name
<1>7. Char(u, 1) = Char(l, name) /\ 1 \in 1 .. Len(u)
  <2>1. name \in 1 .. (Len(l) + 1) /\ s - 1 \in (name - 1) .. Len(l)
        /\ 1 \in 1 .. ((s - 1) - name + 1) /\ name + 1 - 1 = name /\ 1 \in 1 .. Len(u)
    BY <1>5, <1>6 DEF s
  <2>2. Char(SubSeq(l, name, s - 1), 1) = Char(l, name + 1 - 1)
    BY <2>1, PartIs
  <2> QED
    BY <1>4, <2>1, <2>2 DEF s
<1>8. ~ (name > Len(l))
  BY <1>5
<1> QED
  BY <1>2, <1>6, <1>7, <1>8

(* What a line sets is what the arguments of its trimmed form set. *)
LEMMA ValuesTrim ==
  ASSUME NEW C, STRING = Seq(C), NEW l \in Seq(C), NEW x, NEW y, NEW t, Trims(l, x, y, t),
         NEW d \in Directives
  PROVE  /\ ValuesOf(l, d) # {} <=> Len(cssplitargs(t)) = 2 /\ strcasecmp(cssplitargs(t)[1], d)
         /\ ValuesOf(l, d) # {} => ValuesOf(l, d) = {cssplitargs(t)[2]}
<1> DEFINE a == cssplitargs(t)
<1>1. \A v : v \in ValuesOf(l, d) <=> \E u : Pair(l, u, v) /\ strcasecmp(u, d)
  BY ValuesPair
<1>2. \A u, v : Pair(t, u, v) <=> Pair(l, u, v)
  BY PairTrim
<1>3. t \in Seq(C)
  BY TrimIs
<1>4. /\ Len(a) = 2 => Pair(t, a[1], a[2])
      /\ \A u, v : Pair(t, u, v) => a = <<u, v>>
  BY <1>3, ArgsPair
<1> HIDE DEF a
<1>5. ASSUME Len(a) = 2, strcasecmp(a[1], d) PROVE a[2] \in ValuesOf(l, d)
  BY <1>1, <1>2, <1>4, <1>5
<1>6. ASSUME NEW v \in ValuesOf(l, d) PROVE Len(a) = 2 /\ strcasecmp(a[1], d) /\ v = a[2]
  <2>1. PICK u : Pair(l, u, v) /\ strcasecmp(u, d)
    BY <1>1, <1>6
  <2>2. a = <<u, v>>
    BY <1>2, <1>4, <2>1
  <2>3. Len(<<u, v>>) = 2 /\ <<u, v>>[1] = u /\ <<u, v>>[2] = v
    OBVIOUS
  <2> QED
    BY <2>1, <2>2, <2>3
<1>7. ValuesOf(l, d) # {} => ValuesOf(l, d) = {a[2]}
  BY <1>6
<1>8. ValuesOf(l, d) # {} <=> Len(a) = 2 /\ strcasecmp(a[1], d)
  BY <1>5, <1>6
<1> QED
  BY <1>7, <1>8 DEF a

LEMMA OneDirective ==
  ASSUME NEW u, NEW d \in Directives, NEW e \in Directives, strcasecmp(u, d), strcasecmp(u, e)
  PROVE  d = e
<1>1. strcasecmp(d, e)
  BY Zenon DEF strcasecmp
<1> QED
  BY <1>1, DirectivesAssumption, Zenon

-----------------------------------------------------------------------------
(* The lines of a file, whose k-th is from B[k] + 1 to E[k].               *)
Lined(n, B, E) ==
  LET m == Len(file)
  IN  /\ n \in Nat \ {0} /\ B \in [1 .. n -> 0 .. m] /\ E \in [1 .. n -> 0 .. m]
      /\ B[1] = 0 /\ E[n] = m
      /\ \A k \in 1 .. n : B[k] <= E[k]
      /\ \A k \in 1 .. (n - 1) : B[k + 1] = E[k] + 1 /\ Char(file, E[k] + 1) = Sep
      /\ \A k \in 1 .. n : \A p \in (B[k] + 1) .. E[k] : Char(file, p) # Sep

LEMMA LinesOrdered ==
  ASSUME NEW C, file \in Seq(C), NEW n, NEW B, NEW E, Lined(n, B, E)
  PROVE  \A k \in 1 .. n : \A h \in 1 .. (k - 1) : E[h] < B[k] /\ B[h] < B[k]
<1> DEFINE T == {k \in 1 .. n : \A h \in 1 .. (k - 1) : E[h] < B[k] /\ B[h] < B[k]}
           m == Len(file)
<1>1. /\ n \in Nat /\ 1 \in 1 .. n /\ m \in Nat
      /\ \A k \in 1 .. n : B[k] \in 0 .. m /\ E[k] \in 0 .. m /\ B[k] <= E[k]
      /\ \A k \in 1 .. (n - 1) : B[k + 1] = E[k] + 1
  BY DEF Lined
<1>2. 1 \in T
  BY <1>1
<1>3. ASSUME NEW k \in 1 .. (n - 1), k \in T PROVE k + 1 \in T
  <2>1. k \in 1 .. n /\ k + 1 \in 1 .. n /\ B[k + 1] = E[k] + 1
    BY <1>1
  <2>2. ASSUME NEW h \in 1 .. ((k + 1) - 1) PROVE E[h] < B[k + 1] /\ B[h] < B[k + 1]
    <3>1. h \in 1 .. n
      BY <1>1
    <3>2. CASE h = k
      BY <1>1, <2>1, <3>2
    <3>3. CASE h # k
      <4>1. h \in 1 .. (k - 1)
        BY <3>3
      <4>2. E[h] < B[k] /\ B[h] < B[k]
        BY <1>3, <4>1
      <4> QED
        BY <1>1, <2>1, <3>1, <4>2
    <3> QED
      BY <3>2, <3>3
  <2> QED
    BY <2>1, <2>2
<1> HIDE DEF T
<1>4. 1 .. n \subseteq T
  BY <1>1, <1>2, <1>3, Upward
<1> QED
  BY <1>4 DEF T

(* The places where lines start are those that B lists. *)
LEMMA StartsAre ==
  ASSUME NEW C, file \in Seq(C), file # Empty, NEW n, NEW B, NEW E, Lined(n, B, E)
  PROVE  LineStarts = {B[k] : k \in 1 .. n}
<1> DEFINE m == Len(file)
<1>1. /\ n \in Nat /\ 1 \in 1 .. n /\ n \in 1 .. n /\ m \in Nat /\ B[1] = 0 /\ E[n] = m
      /\ \A k \in 1 .. n : B[k] \in 0 .. m /\ E[k] \in 0 .. m /\ B[k] <= E[k]
      /\ \A k \in 1 .. (n - 1) : B[k + 1] = E[k] + 1 /\ Char(file, E[k] + 1) = Sep
      /\ \A k \in 1 .. n : \A p \in (B[k] + 1) .. E[k] : Char(file, p) # Sep
  BY DEF Lined
<1>2. LineStarts = {0} \cup {p \in 1 .. m : Char(file, p) = Sep}
  BY Zenon DEF LineStarts, Places, Empty
<1>3. ASSUME NEW s \in LineStarts PROVE \E k \in 1 .. n : s = B[k]
  <2>1. CASE s = 0
    BY <1>1, <2>1
  <2>2. CASE s # 0
    <3>1. s \in 1 .. m /\ Char(file, s) = Sep
      BY <1>2, <2>2
    <3> DEFINE P == {k \in 1 .. n : B[k] <= s - 1}
    <3>2. P \subseteq 0 .. n /\ 1 \in P
      BY <1>1, <3>1
    <3>3. PICK k \in P : \A h \in P : h <= k
      <4> HIDE DEF P
      <4>1. P # {}
        BY <3>2
      <4>2. Max(P) \in P /\ \A h \in P : h <= Max(P)
        BY <1>1, <3>2, <4>1, Extremes
      <4> QED
        BY <4>2
    <3>4. k \in 1 .. n /\ B[k] <= s - 1
      OBVIOUS
    <3>5. s - 1 <= E[k]
      <4> SUFFICES ASSUME ~ (s - 1 <= E[k]) PROVE FALSE
        OBVIOUS
      <4>1. k # n
        BY <1>1, <3>1
      <4>2. k \in 1 .. (n - 1) /\ k + 1 \in 1 .. n /\ ~ (k + 1 <= k)
        BY <1>1, <3>4, <4>1
      <4>3. k + 1 \in P
        BY <1>1, <3>1, <4>2
      <4> HIDE DEF P
      <4> QED
        BY <3>3, <4>2, <4>3
    <3>6. s - 1 = E[k]
      <4> SUFFICES ASSUME s - 1 # E[k] PROVE FALSE
        OBVIOUS
      <4>1. s \in (B[k] + 1) .. E[k]
        BY <1>1, <3>1, <3>4, <3>5
      <4> QED
        BY <1>1, <3>1, <3>4, <4>1
    <3>7. k \in 1 .. (n - 1) /\ k + 1 \in 1 .. n
      BY <1>1, <3>1, <3>4, <3>6
    <3>8. B[k + 1] = s
      BY <1>1, <3>1, <3>6, <3>7
    <3> QED
      BY <3>7, <3>8
  <2> QED
    BY <2>1, <2>2
<1>4. ASSUME NEW k \in 1 .. n PROVE B[k] \in LineStarts
  <2>1. CASE k = 1
    BY <1>1, <1>2, <2>1
  <2>2. CASE k # 1
    <3>1. k - 1 \in 1 .. (n - 1) /\ (k - 1) + 1 = k /\ k - 1 \in 1 .. n
      BY <1>1, <2>2
    <3>2. B[k] = E[k - 1] + 1 /\ Char(file, E[k - 1] + 1) = Sep
      BY <1>1, <3>1
    <3>3. B[k] \in 1 .. m /\ Char(file, B[k]) = Sep
      BY <1>1, <3>1, <3>2
    <3> QED
      BY <1>2, <3>3
  <2> QED
    BY <2>1, <2>2
<1> QED
  BY <1>3, <1>4

(* The k-th start has number k. *)
LEMMA NumbersAre ==
  ASSUME NEW C, file \in Seq(C), file # Empty, NEW n, NEW B, NEW E, Lined(n, B, E)
  PROVE  \A k \in 1 .. n : Number(B[k]) = k
<1> DEFINE Below(s) == {t \in LineStarts : t <= s}
           T == {k \in 1 .. n : IsFiniteSet(Below(B[k])) /\ Cardinality(Below(B[k])) = k}
<1>1. /\ n \in Nat /\ 1 \in 1 .. n /\ B[1] = 0
      /\ \A k \in 1 .. n : B[k] \in Nat
  BY DEF Lined
<1>2. LineStarts = {B[k] : k \in 1 .. n}
  BY StartsAre
<1>3. \A k \in 1 .. n : \A h \in 1 .. (k - 1) : B[h] < B[k]
  BY LinesOrdered
<1>4. \A k \in 1 .. n : \A h \in 1 .. n : B[h] <= B[k] <=> h <= k
  <2> TAKE k \in 1 .. n
  <2> TAKE h \in 1 .. n
  <2>1. CASE h < k
    <3>1. h \in 1 .. (k - 1)
      BY <2>1
    <3> QED
      BY <1>1, <1>3, <2>1, <3>1
  <2>2. CASE h = k
    BY <1>1, <2>2
  <2>3. CASE h > k
    <3>1. k \in 1 .. (h - 1)
      BY <2>3
    <3> QED
      BY <1>1, <1>3, <2>3, <3>1
  <2> QED
    BY <1>1, <2>1, <2>2, <2>3
<1>5. \A k \in 1 .. n : Below(B[k]) = {B[h] : h \in 1 .. k}
  <2> TAKE k \in 1 .. n
  <2>1. 1 .. k \subseteq 1 .. n
    BY <1>1
  <2>2. \A h \in 1 .. n : B[h] <= B[k] <=> h \in 1 .. k
    BY <1>1, <1>4
  <2> QED
    BY <1>2, <2>1, <2>2
<1>6. 1 \in T
  <2>1. Below(B[1]) = {B[1]}
    <3>1. 1 .. 1 = {1}
      OBVIOUS
    <3> QED
      BY <1>1, <1>5, <3>1
  <2>2. IsFiniteSet({B[1]}) /\ Cardinality({B[1]}) = 1
    BY ONLY FS_Singleton, Zenon
  <2> HIDE DEF Below
  <2> QED
    BY <1>1, <2>1, <2>2, Zenon
<1>7. ASSUME NEW k \in 1 .. (n - 1), k \in T PROVE k + 1 \in T
  <2>1. k \in 1 .. n /\ k + 1 \in 1 .. n
    BY <1>1
  <2>2. Below(B[k + 1]) = Below(B[k]) \cup {B[k + 1]}
    <3>1. 1 .. (k + 1) = (1 .. k) \cup {k + 1}
      BY <2>1
    <3>2. /\ Below(B[k]) = {B[h] : h \in 1 .. k}
          /\ Below(B[k + 1]) = {B[h] : h \in 1 .. (k + 1)}
      BY <1>5, <2>1
    <3> HIDE DEF Below
    <3> QED
      BY <3>1, <3>2
  <2>3. B[k + 1] \notin Below(B[k])
    <3>1. ~ (B[k + 1] <= B[k])
      <4>1. ~ (k + 1 <= k)
        BY <2>1
      <4> QED
        BY <1>4, <2>1, <4>1
    <3> QED
      BY <3>1
  <2> HIDE DEF Below
  <2>4. IsFiniteSet(Below(B[k])) /\ Cardinality(Below(B[k])) = k
    BY <1>7
  <2>5. /\ IsFiniteSet(Below(B[k]) \cup {B[k + 1]})
        /\ Cardinality(Below(B[k]) \cup {B[k + 1]}) = k + 1
    BY <2>3, <2>4, FS_AddElement
  <2> QED
    BY <2>1, <2>2, <2>5
<1> HIDE DEF T
<1>8. 1 .. n \subseteq T
  BY <1>1, <1>6, <1>7, Upward
<1>9. ASSUME NEW k \in 1 .. n PROVE Number(B[k]) = k
  <2>1. Cardinality({t \in LineStarts : t <= B[k]}) = k
    BY <1>8 DEF T
  <2> QED
    BY <2>1 DEF Number
<1> QED
  BY <1>9

(* The line that starts at B[k] ends at E[k]. *)
LEMMA LineFromIs ==
  ASSUME NEW C, file \in Seq(C), file # Empty, NEW n, NEW B, NEW E, Lined(n, B, E)
  PROVE  \A k \in 1 .. n : LineFrom(B[k]) = SubSeq(file, B[k] + 1, E[k])
<1> DEFINE m == Len(file)
<1>1. /\ n \in Nat /\ m \in Nat /\ E[n] = m
      /\ \A k \in 1 .. n : B[k] \in 0 .. m /\ E[k] \in 0 .. m /\ B[k] <= E[k]
      /\ \A k \in 1 .. (n - 1) : B[k + 1] = E[k] + 1
  BY DEF Lined
<1>2. LineStarts = {B[k] : k \in 1 .. n}
  BY StartsAre
<1>3. \A k \in 1 .. n : \A h \in 1 .. (k - 1) : E[h] < B[k] /\ B[h] < B[k]
  BY LinesOrdered
<1> TAKE k \in 1 .. n
<1> DEFINE P == {t - 1 : t \in {u \in LineStarts : u > B[k]}} \cup {m}
<1>4. ASSUME NEW t \in LineStarts, t > B[k] PROVE t - 1 \in 0 .. m /\ E[k] <= t - 1
  <2>1. PICK h \in 1 .. n : t = B[h]
    BY <1>2
  <2>2. ~ (h \in 1 .. (k - 1)) /\ h # k
    BY <1>1, <1>3, <1>4, <2>1
  <2>3. k \in 1 .. (h - 1)
    BY <2>2
  <2>4. E[k] < B[h]
    BY <1>3, <2>3
  <2> QED
    BY <1>1, <2>1, <2>4
<1>5. P \subseteq 0 .. m /\ \A p \in P : E[k] <= p
  BY <1>1, <1>4
<1>6. E[k] \in P
  <2>1. CASE k = n
    BY <1>1, <2>1
  <2>2. CASE k # n
    <3>1. k \in 1 .. (n - 1) /\ k + 1 \in 1 .. n /\ k \in 1 .. ((k + 1) - 1)
      BY <1>1, <2>2
    <3>2. B[k + 1] \in LineStarts
      BY <1>2, <3>1
    <3>3. B[k + 1] > B[k] /\ B[k + 1] - 1 = E[k]
      BY <1>1, <3>1
    <3>4. B[k + 1] \in {u \in LineStarts : u > B[k]}
      BY <3>2, <3>3
    <3>5. E[k] = B[k + 1] - 1
      BY <3>3
    <3> QED
      BY <3>4, <3>5
  <2> QED
    BY <2>1, <2>2
<1>7. Min(P) = E[k]
  <2> HIDE DEF P
  <2>1. Min(P) \in P /\ \A p \in P : Min(P) <= p
    BY <1>1, <1>5, <1>6, Extremes
  <2>2. Min(P) <= E[k] /\ E[k] <= Min(P)
    BY <1>5, <1>6, <2>1
  <2>3. Min(P) \in 0 .. m /\ E[k] \in 0 .. m
    BY <1>5, <1>6, <2>1, Zenon
  <2> QED
    BY <2>2, <2>3
<1>8. LineFrom(B[k]) = SubSeq(file, B[k] + 1, Min(P))
  BY Zenon DEF LineFrom
<1> QED
  BY <1>7, <1>8

-----------------------------------------------------------------------------
(* A text put together from its characters.                                *)
LEMMA StringOfIs ==
  ASSUME NEW C, Letters(C), NEW w \in Seq(C)
  PROVE  StringOf(Chopped(w)) = w
<1> DEFINE m == Len(w)
           s == Chopped(w)
           Fits(f) == f = [n \in 0 .. m |-> IF n = 0 THEN Empty ELSE f[n - 1] \o s[n]]
           upTo == CHOOSE f : Fits(f)
           whole == [n \in 0 .. m |-> SubSeq(w, 1, n)]
<1>1. /\ m \in Nat /\ Len(s) = m /\ \A n \in 1 .. m : s[n] = Char(w, n)
      /\ Empty \in Seq(C) /\ Len(Empty) = 0
  BY DEF Chopped, Letters
<1>2. StringOf(s) = upTo[m]
  <2>1. StringOf(s) = (CHOOSE f : f = [n \in 0 .. Len(s) |->
                          IF n = 0 THEN Empty ELSE f[n - 1] \o s[n]])[Len(s)]
    BY Zenon DEF StringOf, Empty
  <2> HIDE DEF s, m
  <2> QED
    BY <1>1, <2>1, Zenon
<1>3. \A n \in 0 .. m : whole[n] \in Seq(C) /\ Len(whole[n]) = n /\ \A k \in 1 .. n : whole[n][k] = w[k]
  <2> TAKE n \in 0 .. m
  <2>1. whole[n] = SubSeq(w, 1, n)
    OBVIOUS
  <2> HIDE DEF whole
  <2> QED
    BY <2>1, UpToIs
<1>4. whole \in [0 .. m -> Seq(C)] /\ whole = [n \in 0 .. m |-> whole[n]]
  <2>1. \A n \in 0 .. m : SubSeq(w, 1, n) \in Seq(C)
    BY UpToIs
  <2> QED
    BY <2>1
<1>5. whole[0] = Empty
  <2> HIDE DEF whole
  <2>1. 0 \in 0 .. m
    BY <1>1
  <2>2. whole[0] \in Seq(C) /\ Len(whole[0]) = 0
    BY <1>3, <2>1
  <2>3. \A k \in 1 .. Len(whole[0]) : whole[0][k] = Empty[k]
    BY <2>2
  <2> QED
    BY <1>1, <2>2, <2>3, SeqEqual
<1> HIDE DEF whole, s
<1>6. ASSUME NEW n \in 1 .. m PROVE whole[n] = whole[n - 1] \o s[n]
  <2>1. n \in 0 .. m /\ n - 1 \in 0 .. m /\ n \in 1 .. Len(w)
    BY <1>1
  <2>2. /\ whole[n - 1] \in Seq(C) /\ Len(whole[n - 1]) = n - 1
        /\ \A k \in 1 .. (n - 1) : whole[n - 1][k] = w[k]
    BY <1>3, <2>1
  <2>3. s[n] \in Seq(C) /\ Len(s[n]) = 1 /\ s[n][1] = w[n]
    BY <1>1, <2>1, CharIs
  <2> DEFINE u == whole[n - 1]
             c == s[n]
  <2> HIDE DEF u, c
  <2>4. /\ u \o c \in Seq(C) /\ Len(u \o c) = n
        /\ \A k \in 1 .. n : (u \o c)[k] = IF k <= n - 1 THEN u[k] ELSE c[k - (n - 1)]
    <3>1. Len(u) = n - 1 /\ Len(c) = 1 /\ u \in Seq(C) /\ c \in Seq(C)
      BY <2>2, <2>3 DEF u, c
    <3>2. /\ u \o c \in Seq(C) /\ Len(u \o c) = Len(u) + Len(c)
          /\ \A k \in 1 .. Len(u) + Len(c) : (u \o c)[k] = IF k <= Len(u) THEN u[k] ELSE c[k - Len(u)]
      BY <3>1, ConcatProperties
    <3>3. Len(u) + Len(c) = n
      BY <1>1, <3>1
    <3> QED
      BY <3>1, <3>2, <3>3
  <2>5. \A k \in 1 .. n : (u \o c)[k] = w[k]
    <3> TAKE k \in 1 .. n
    <3>1. CASE k <= n - 1
      <4>1. k \in 1 .. (n - 1)
        BY <3>1
      <4> QED
        BY <2>2, <2>4, <3>1, <4>1 DEF u
    <3>2. CASE ~ (k <= n - 1)
      <4>1. k = n /\ k - (n - 1) = 1
        BY <3>2
      <4> QED
        BY <2>3, <2>4, <3>2, <4>1 DEF c
    <3> QED
      BY <3>1, <3>2
  <2>6. whole[n] \in Seq(C) /\ Len(whole[n]) = n /\ \A k \in 1 .. n : whole[n][k] = w[k]
    BY <1>3, <2>1
  <2> DEFINE v == whole[n]
             z == u \o c
  <2>7. v = z
    <3>1. v \in Seq(C) /\ Len(v) = n /\ z \in Seq(C) /\ Len(z) = n
      BY <2>4, <2>6
    <3>2. \A k \in 1 .. Len(v) : v[k] = z[k]
      BY <2>5, <2>6
    <3> HIDE DEF v, z
    <3> QED
      BY <3>1, <3>2, SeqEqual
  <2> QED
    BY <2>7 DEF u, c
<1>7. Fits(whole)
  <2>1. \A n \in 0 .. m : whole[n] = IF n = 0 THEN Empty ELSE whole[n - 1] \o s[n]
    <3> TAKE n \in 0 .. m
    <3>1. n # 0 => n \in 1 .. m
      BY <1>1
    <3> QED
      BY <1>5, <1>6, <3>1
  <2>2. whole = [n \in 0 .. m |-> whole[n]]
    BY <1>4
  <2> QED
    BY <2>1, <2>2, Zenon
<1>8. Fits(upTo)
  <2> HIDE DEF Fits
  <2> QED
    BY <1>7, Zenon
<1> HIDE DEF upTo
<1>9. \A n \in 0 .. m : upTo[n] = IF n = 0 THEN Empty ELSE upTo[n - 1] \o s[n]
  BY <1>8, Zenon
<1> DEFINE T == {n \in 1 .. (m + 1) : upTo[n - 1] = whole[n - 1]}
<1>10. 1 \in T
  <2>1. 0 \in 0 .. m /\ 1 \in 1 .. (m + 1) /\ 1 - 1 = 0
    BY <1>1
  <2>2. upTo[0] = Empty
    BY <1>9, <2>1
  <2> QED
    BY <1>5, <2>1, <2>2
<1>11. ASSUME NEW n \in 1 .. ((m + 1) - 1), n \in T PROVE n + 1 \in T
  <2>1. n \in 1 .. m /\ n \in 0 .. m /\ n # 0 /\ n + 1 \in 1 .. (m + 1) /\ (n + 1) - 1 = n
    BY <1>1
  <2>2. upTo[n - 1] = whole[n - 1]
    BY <1>11
  <2>3. upTo[n] = upTo[n - 1] \o s[n]
    BY <1>9, <2>1
  <2>4. upTo[n] = whole[n]
    BY <1>6, <2>1, <2>2, <2>3
  <2> QED
    BY <2>1, <2>4
<1>12. m + 1 \in T
  <2>1. m + 1 \in Nat /\ m + 1 \in 1 .. (m + 1)
    BY <1>1
  <2> HIDE DEF T
  <2> QED
    BY <1>10, <1>11, <2>1, Upward
<1>13. upTo[m] = whole[m] /\ m \in 0 .. m
  BY <1>1, <1>12
<1>14. whole[m] = w
  <2> DEFINE v == whole[m]
  <2>1. v \in Seq(C) /\ Len(v) = m /\ \A k \in 1 .. m : v[k] = w[k]
    BY <1>3, <1>13
  <2> HIDE DEF v
  <2>2. v = w
    BY <2>1, SeqEqual
  <2> QED
    BY <2>2 DEF v
<1> QED
  BY <1>2, <1>13, <1>14 DEF s

(* A part of a chopped text is the chopped part. *)
LEMMA PartChopped ==
  ASSUME NEW C, NEW f \in Seq(C), NEW a \in 0 .. Len(f), NEW b \in a .. Len(f)
  PROVE  SubSeq(Chopped(f), a + 1, b) = Chopped(SubSeq(f, a + 1, b))
<1> DEFINE w == SubSeq(f, a + 1, b)
           c == Chopped(f)
           v == SubSeq(c, a + 1, b)
           z == Chopped(w)
<1>1. /\ a + 1 \in 1 .. (Len(f) + 1) /\ b \in ((a + 1) - 1) .. Len(f) /\ Len(f) \in Nat
      /\ b - (a + 1) + 1 = b - a /\ b - a \in Nat /\ Len(f) + 1 = Len(f) + 1
  OBVIOUS
<1>2. w \in Seq(C) /\ Len(w) = b - a /\ \A k \in 1 .. (b - a) : Char(w, k) = Char(f, (a + 1) + k - 1)
  BY <1>1, PartIs
<1> HIDE DEF w
<1>3. c \in Seq(Seq(C)) /\ Len(c) = Len(f) /\ \A k \in 1 .. Len(f) : c[k] = Char(f, k)
  <2>1. \A k \in 1 .. Len(f) : Char(f, k) \in Seq(C)
    BY CharIs
  <2> QED
    BY <2>1 DEF Chopped
<1>4. z \in Seq(Seq(C)) /\ Len(z) = b - a /\ \A k \in 1 .. (b - a) : z[k] = Char(w, k)
  <2>1. \A k \in 1 .. Len(w) : Char(w, k) \in Seq(C)
    BY <1>2, CharIs
  <2> QED
    BY <1>1, <1>2, <2>1 DEF Chopped
<1> HIDE DEF c, z
<1> DEFINE D == Seq(C)
<1> HIDE DEF D
<1>5. /\ v \in Seq(D) /\ Len(v) = b - a
      /\ \A k \in 1 .. (b - a) : v[k] = c[(a + 1) + k - 1]
  <2>1. c \in Seq(D)
    BY <1>3 DEF D
  <2>2. a + 1 \in 1 .. (Len(c) + 1) /\ b \in ((a + 1) - 1) .. Len(c)
    BY <1>1, <1>3
  <2>3. /\ v \in Seq(D) /\ Len(v) = b - (a + 1) + 1
        /\ \A k \in 1 .. (b - (a + 1) + 1) : v[k] = c[(a + 1) + k - 1]
    BY <2>1, <2>2, PartIs
  <2> HIDE DEF v
  <2> QED
    BY <1>1, <2>3
<1> HIDE DEF v
<1>6. ASSUME NEW k \in 1 .. Len(v) PROVE v[k] = z[k]
  <2>1. k \in 1 .. (b - a) /\ (a + 1) + k - 1 \in 1 .. Len(f)
    BY <1>1, <1>5
  <2> QED
    BY <1>2, <1>3, <1>4, <1>5, <2>1
<1>7. v = z
  <2>1. z \in Seq(D)
    BY <1>4 DEF D
  <2> QED
    BY <1>4, <1>5, <1>6, <2>1, SeqEqual
<1> QED
  BY <1>7 DEF v, z, w, c

-----------------------------------------------------------------------------
USE CStringAssumption

PlacesIn(k) == tokens[k].from .. (tokens[k].to - 1)

(* Each token lies within the file and holds no newline, and there is one  *)
(* newline between two neighbours.                                         *)
InFile ==
  \A k \in 1 .. Len(tokens) :
    /\ tokens[k].from <= tokens[k].to /\ tokens[k].to <= Len(text)
    /\ \A p \in PlacesIn(k) : At(p) # Sep

Apart(k) ==
  \E q \in tokens[k].to .. (tokens[k + 1].from - 1) :
    At(q) = Sep /\ Cut(tokens[k].to, q) /\ Cut(q + 1, tokens[k + 1].from)

Neighbours == \A k \in 1 .. (Len(tokens) - 1) : Apart(k)

FirstCut == Len(tokens) > 0 => Cut(0, tokens[1].from)

Reading == pc \in {"read", "eof"} => tokens = <<>> /\ start = 0 /\ j = 0

(* The last token ends at the newline before `start', and there is none    *)
(* from there to j.                                                        *)
Splitting ==
  pc = "split" =>
    /\ start <= j /\ j <= Len(text)
    /\ \A p \in start .. (j - 1) : At(p) # Sep
    /\ Len(tokens) = 0 => start = 0
    /\ Len(tokens) > 0 =>
         /\ tokens[Len(tokens)].to + 1 = start
         /\ At(tokens[Len(tokens)].to) = Sep

LastCut ==
  pc \in {"lines", "left", "right", "done"} =>
    /\ Len(tokens) = 0 => text = <<>>
    /\ Len(tokens) > 0 => Cut(tokens[Len(tokens)].to, Len(text))

(* csstrim's pointers have only passed blanks of the line.                 *)
Trimming ==
  pc \in {"left", "right"} =>
    /\ i < Len(tokens)
    /\ tokens[i + 1].from <= sp /\ sp <= tokens[i + 1].to
    /\ tokens[i + 1].from - 1 <= ep /\ ep <= tokens[i + 1].to - 1
    /\ \A p \in tokens[i + 1].from .. (sp - 1) : At(p) \in Blanks
    /\ \A p \in (ep + 1) .. (tokens[i + 1].to - 1) : At(p) \in Blanks

Shape == InFile /\ Neighbours /\ FirstCut /\ Reading /\ Splitting /\ LastCut /\ Trimming

Sizes == TypeOK /\ RoomKept /\ SlotFree

-----------------------------------------------------------------------------
(* cscatlen makes enough room for what it appends, and accounts for it.    *)
LEMMA CatAccounted ==
  ASSUME NEW c \in Header, NEW n \in Nat, NEW m \in Nat, Accounted(c, m)
  PROVE  cscatlen(c, n) \in Header /\ Accounted(cscatlen(c, n), m + n)
<1> DEFINE r == csMakeRoomFor(c, n)
<1>1. /\ c.len = m /\ c.free \in Nat /\ c.size = m + c.free + 1
  BY DEF Header, Accounted
<1>2. /\ r \in Header /\ r.len = m /\ r.free >= n /\ r.size = m + r.free + 1
  <2>1. CASE c.free > n
    BY <1>1, <2>1 DEF csMakeRoomFor, Header
  <2>2. CASE ~(c.free > n)
    <3> DEFINE newlen == IF m + n < CS_MAX_PREALLOC THEN 2 * (m + n)
                         ELSE m + n + CS_MAX_PREALLOC
    <3>1. newlen \in Nat /\ newlen - m >= n /\ newlen - m \in Nat
      BY <1>1
    <3>2. r = [c EXCEPT !.free = newlen - m, !.size = newlen + 1]
      BY <1>1, <2>2 DEF csMakeRoomFor
    <3>3. r = [len |-> m, free |-> newlen - m, size |-> newlen + 1]
      BY <1>1, <3>2 DEF Header
    <3> HIDE DEF newlen, r
    <3> QED
      BY <3>1, <3>3 DEF Header
  <2> QED
    BY <2>1, <2>2
<1>3. cscatlen(c, n) = [len |-> m + n, free |-> r.free - n, size |-> r.size]
  <2> HIDE DEF r
  <2>1. cscatlen(c, n) = [r EXCEPT !.len = @ + n, !.free = @ - n]
    BY DEF cscatlen, r
  <2> QED
    BY <2>1, <1>2 DEF Header
<1> HIDE DEF r
<1> QED
  BY <1>2, <1>3 DEF Header, Accounted

(* csstrim gives back what it takes off. *)
LEMMA TrimAccounted ==
  ASSUME NEW c \in Header, NEW m \in Nat, Accounted(c, m), NEW n \in 0 .. m
  PROVE  Trimmed(c, n) \in Header /\ Accounted(Trimmed(c, n), n)
<1>1. /\ c.len = m /\ c.free \in Nat /\ c.size = m + c.free + 1
  BY DEF Header, Accounted
<1>2. Trimmed(c, n) = [len |-> n, free |-> c.free + (m - n), size |-> c.size]
  <2>1. c = [len |-> m, free |-> c.free, size |-> c.size]
    BY <1>1 DEF Header
  <2>2. Trimmed(c, n) = [c EXCEPT !.free = c.free + (m - n), !.len = n]
    BY <1>1, <2>1 DEF Trimmed
  <2> QED
    BY <2>1, <2>2
<1>3. n \in Nat /\ c.free + (m - n) \in Nat /\ c.size \in Nat
  BY <1>1
<1>4. Trimmed(c, n) \in Header
  BY <1>2, <1>3 DEF Header
<1>5. n + (c.free + (m - n)) + 1 = c.size
  BY <1>1
<1> QED
  BY <1>2, <1>4, <1>5 DEF Accounted

LEMMA NewAccounted ==
  ASSUME NEW from \in Nat, NEW to \in Nat, from <= to
  PROVE  /\ Token(from, to) \in [from : Nat, to : Nat, cs : Header]
         /\ Token(from, to).from = from /\ Token(from, to).to = to
         /\ Accounted(Token(from, to).cs, to - from)
  BY DEF Token, csnewlen, Header, Accounted

LEMMA ChunkSeq ==
  ASSUME NEW t \in Chunks
  PROVE  t \in Seq(Chars) /\ Len(t) > 0
<1>1. PICK n \in 1 .. CONFIGLINE_MAX : t \in [1 .. n -> Chars]
  BY DEF Chunks
<1>2. t \in Seq(Chars) /\ Len(t) = n
  BY <1>1
<1> QED
  BY <1>2

-----------------------------------------------------------------------------
TokenSet == [from : Nat, to : Nat, cs : Header]

LEMMA TokenTyped ==
  ASSUME TypeOK, NEW k \in 1 .. Len(tokens)
  PROVE  tokens[k] \in TokenSet /\ tokens[k].from \in Nat /\ tokens[k].to \in Nat
<1>1. tokens \in Seq(TokenSet)
  BY DEF TypeOK, TokenSet
<1>2. tokens[k] \in TokenSet
  BY <1>1, ElementOfSeq
<1> QED
  BY <1>2 DEF TokenSet

LEMMA SizesInit == Init => Sizes
  BY DEF Init, Sizes, TypeOK, RoomKept, SlotFree, Accounted, csnewlen, Header

LEMMA ShapeInit == Init => Shape
  BY DEF Init, Shape, InFile, Neighbours, FirstCut, Reading, Splitting, LastCut, Trimming

LEMMA SizesStep ==
  ASSUME Sizes, Shape, Next
  PROVE  Sizes'
<1> USE DEF Sizes
<1>1. ASSUME NEW t \in Chunks, Read(t) PROVE Sizes'
  <2>1. t \in Seq(Chars) /\ Len(t) \in Nat
    BY ChunkSeq
  <2>2. text' \in Seq(Chars) /\ Len(text') = Len(text) + Len(t)
    BY <1>1, <2>1, ConcatProperties DEF Read, TypeOK
  <2>3. conf' \in Header /\ Accounted(conf', Len(text'))
    BY <1>1, <2>1, <2>2, CatAccounted DEF Read, TypeOK, RoomKept
  <2>4. pc' \in {"read", "eof"} /\ UNCHANGED <<splitVars, trimVars>>
    BY <1>1 DEF Read
  <2> QED
    BY <2>2, <2>3, <2>4 DEF TypeOK, RoomKept, SlotFree, splitVars, trimVars
<1>2. CASE BeginSplit
  BY <1>2 DEF BeginSplit, TypeOK, RoomKept, SlotFree, Shape, Reading, fileVars,
              splitVars, trimVars
<1>3. ASSUME slots' \in Nat \ {0}, Len(tokens) < slots', start <= j,
             tokens' = Append(tokens, Token(start, j)),
             start' \in Nat, j' \in Nat, Len(tokens) + 1 < slots' \/ pc' = "lines",
             pc' \in {"split", "lines"}, UNCHANGED <<fileVars, trimVars>>
      PROVE  Sizes'
  <2>1. /\ Token(start, j) \in [from : Nat, to : Nat, cs : Header]
        /\ Accounted(Token(start, j).cs, Token(start, j).to - Token(start, j).from)
    BY <1>3, NewAccounted DEF TypeOK
  <2>2. /\ tokens' \in Seq([from : Nat, to : Nat, cs : Header])
        /\ Len(tokens') = Len(tokens) + 1
        /\ \A k \in DOMAIN tokens' :
             tokens'[k] = IF k = Len(tokens) + 1 THEN Token(start, j) ELSE tokens[k]
        /\ \A k \in DOMAIN tokens' : k # Len(tokens) + 1 => k \in DOMAIN tokens
    BY <1>3, <2>1, AppendProperties DEF TypeOK
  <2>3. RoomKept'
    BY <1>3, <2>1, <2>2, SMTT(30) DEF RoomKept, Accounted, fileVars
  <2> QED
    BY <1>3, <2>2, <2>3 DEF TypeOK, SlotFree, fileVars, trimVars
<1>4. CASE SplitChar
  <2>1. slots' \in Nat \ {0} /\ Len(tokens) + 1 < slots'
    BY <1>4 DEF SplitChar, TypeOK, SlotFree
  <2>2. start <= j /\ start \in Nat /\ j' = j + 1 /\ j \in Nat /\ pc' = "split"
    BY <1>4 DEF SplitChar, Shape, Splitting, TypeOK
  <2>3. CASE At(j) = Sep
    <3>1. /\ tokens' = Append(tokens, Token(start, j)) /\ start' = j + 1
          /\ UNCHANGED <<fileVars, trimVars>>
      BY <1>4, <2>3 DEF SplitChar
    <3>2. start' \in Nat /\ j' \in Nat /\ Len(tokens) < slots'
      BY <2>1, <2>2, <3>1 DEF TypeOK
    <3> QED
      BY <2>1, <2>2, <3>1, <3>2, <1>3
  <2>4. CASE At(j) # Sep
    <3>1. UNCHANGED <<pc, tokens, start, fileVars, trimVars>>
      BY <1>4, <2>4 DEF SplitChar
    <3> QED
      BY <2>1, <2>2, <3>1 DEF TypeOK, RoomKept, SlotFree, fileVars, trimVars
  <2> QED
    BY <2>3, <2>4
<1>5. CASE SplitLast
  <2>1. start <= j /\ Len(tokens) < slots
    BY <1>5 DEF SplitLast, Shape, Splitting, SlotFree
  <2>2. /\ tokens' = Append(tokens, Token(start, j)) /\ pc' = "lines"
        /\ UNCHANGED <<slots, start, j, fileVars, trimVars>>
    BY <1>5 DEF SplitLast
  <2>3. slots' \in Nat \ {0} /\ start' \in Nat /\ j' \in Nat
    BY <2>2 DEF TypeOK
  <2> QED
    BY <2>1, <2>2, <2>3, <1>3
<1>6. CASE BeginTrim
  <2>1. i + 1 \in 1 .. Len(tokens)
    BY <1>6 DEF BeginTrim, TypeOK
  <2>2. tokens[i + 1].from \in Nat /\ tokens[i + 1].to \in Nat
    BY <2>1, TokenTyped
  <2>3. sp' \in Nat /\ ep' \in Int
    BY <1>6, <2>2 DEF BeginTrim
  <2>4. UNCHANGED <<text, conf, tokens, slots, start, j, i>> /\ pc' = "left"
    BY <1>6 DEF BeginTrim, fileVars, splitVars
  <2> QED
    BY <2>3, <2>4 DEF TypeOK, RoomKept, SlotFree
<1>7. CASE TrimLeft \/ TrimRight
  <2>1. sp' \in Nat /\ ep' \in Int /\ pc' \in {"left", "right"}
    BY <1>7 DEF TrimLeft, TrimRight, TypeOK
  <2>2. UNCHANGED <<text, conf, tokens, slots, start, j, i>>
    BY <1>7 DEF TrimLeft, TrimRight, fileVars, splitVars
  <2> QED
    BY <2>1, <2>2 DEF TypeOK, RoomKept, SlotFree
<1>8. CASE TrimDone
  <2> DEFINE tok == tokens[i + 1]
             len == IF sp > ep THEN 0 ELSE ep - sp + 1
             new == [from |-> sp, to |-> sp + len, cs |-> Trimmed(tok.cs, len)]
  <2>0. i + 1 \in 1 .. Len(tokens)
    BY <1>8 DEF TrimDone, TypeOK, Shape, Trimming
  <2>1. i + 1 \in DOMAIN tokens /\ tok \in [from : Nat, to : Nat, cs : Header]
    BY <2>0, TokenTyped DEF TokenSet, TypeOK
  <2>2. tok.to - tok.from \in Nat /\ len \in 0 .. (tok.to - tok.from)
    <3>1. tok.from <= sp /\ sp <= tok.to /\ ep <= tok.to - 1
      BY <1>8 DEF TrimDone, Shape, Trimming
    <3>2. tok.from \in Nat /\ tok.to \in Nat /\ sp \in Nat /\ ep \in Int
      BY <2>1 DEF TypeOK
    <3> HIDE DEF tok
    <3> QED
      BY <3>1, <3>2
  <2>3. Trimmed(tok.cs, len) \in Header /\ Accounted(Trimmed(tok.cs, len), len)
    BY <2>1, <2>2, TrimAccounted DEF RoomKept
  <2>4. new \in [from : Nat, to : Nat, cs : Header] /\ new.to - new.from = len
    BY <2>2, <2>3 DEF TypeOK
  <2>5. tokens' = [tokens EXCEPT ![i + 1] = new]
    BY <1>8 DEF TrimDone
  <2>6. /\ tokens' \in Seq([from : Nat, to : Nat, cs : Header])
        /\ Len(tokens') = Len(tokens) /\ DOMAIN tokens' = DOMAIN tokens
        /\ \A k \in DOMAIN tokens : tokens'[k] = IF k = i + 1 THEN new ELSE tokens[k]
    BY <2>1, <2>4, <2>5, ExceptSeq DEF TypeOK
  <2>7. RoomKept'
    BY <1>8, <2>3, <2>4, <2>6 DEF RoomKept, TrimDone, fileVars
  <2> QED
    BY <1>8, <2>6, <2>7 DEF TrimDone, TypeOK, SlotFree, fileVars
<1>9. CASE Finish \/ Done
  BY <1>9 DEF Finish, Done, vars, TypeOK, RoomKept, SlotFree, fileVars, splitVars,
              trimVars
<1> QED
  BY <1>1, <1>2, <1>4, <1>5, <1>6, <1>7, <1>8, <1>9 DEF Next
-----------------------------------------------------------------------------
(* A token that ends where no newline was met since the last one.          *)
LEMMA AppendShape ==
  ASSUME TypeOK, Shape, pc = "split", tokens' = Append(tokens, Token(start, j)),
         UNCHANGED text
  PROVE  /\ InFile' /\ Neighbours' /\ FirstCut'
         /\ Len(tokens') = Len(tokens) + 1
         /\ tokens'[Len(tokens')].to = j
<1> DEFINE n == Len(tokens)
<1>1. /\ n \in Nat /\ start \in Nat /\ j \in Nat /\ Len(text) \in Nat
      /\ start <= j /\ j <= Len(text)
      /\ \A p \in start .. (j - 1) : At(p) # Sep
  BY DEF TypeOK, Shape, Splitting
<1>2. /\ Token(start, j) \in TokenSet
      /\ Token(start, j).from = start /\ Token(start, j).to = j
  BY <1>1, NewAccounted DEF TokenSet
<1>3. /\ Len(tokens') = n + 1 /\ tokens'[n + 1] = Token(start, j)
      /\ \A k \in 1 .. n : tokens'[k] = tokens[k]
  BY <1>2, AppendProperties DEF TypeOK, TokenSet
<1>4. InFile'
  BY <1>1, <1>2, <1>3 DEF Shape, InFile, PlacesIn, At
<1>5. Neighbours'
  <2>1. SUFFICES ASSUME NEW k \in 1 .. n PROVE Apart(k)'
    BY <1>1, <1>3 DEF Neighbours
  <2>2. CASE k \in 1 .. (n - 1)
    <3>1. Apart(k)
      BY <2>2 DEF Shape, Neighbours
    <3>2. tokens'[k] = tokens[k] /\ tokens'[k + 1] = tokens[k + 1]
      BY <1>1, <1>3, <2>2
    <3> QED
      BY <3>1, <3>2 DEF Apart, Cut, At
  <2>3. CASE k = n
    <3>1. PICK q \in Nat : q = tokens[n].to /\ q + 1 = start /\ At(q) = Sep
      BY <1>1, <2>3, TokenTyped DEF Shape, Splitting
    <3>2. tokens'[k].to = q /\ tokens'[k + 1].from = start
      BY <1>2, <1>3, <2>3, <3>1
    <3>3. q \in q .. (start - 1) /\ text'[q + 1] = Sep
      BY <1>1, <3>1 DEF At
    <3>4. q .. (q - 1) = {} /\ (q + 1) .. (start - 1) = {}
      BY <1>1, <3>1
    <3> QED
      BY <3>2, <3>3, <3>4 DEF Apart, Cut, At
  <2> QED
    BY <1>1, <2>2, <2>3
<1>6. FirstCut'
  <2>1. CASE n = 0
    BY <1>1, <1>2, <1>3, <2>1 DEF FirstCut, Cut, Shape, Splitting
  <2>2. CASE n > 0
    BY <1>1, <1>3, <2>2 DEF FirstCut, Cut, At, Shape
  <2> QED
    BY <1>1, <2>1, <2>2
<1> QED
  BY <1>2, <1>3, <1>4, <1>5, <1>6

(* The line that csstrim shortened loses blanks at its ends only.          *)
LEMMA TrimShape ==
  ASSUME TypeOK, Shape, TrimDone
  PROVE  Shape'
<1> DEFINE n == Len(tokens)
           m == i + 1
           old == tokens[m]
           len == IF sp > ep THEN 0 ELSE ep - sp + 1
           new == [from |-> sp, to |-> sp + len, cs |-> Trimmed(old.cs, len)]
<1>1. /\ m \in 1 .. n /\ n \in Nat /\ i \in Nat /\ sp \in Nat /\ ep \in Int
      /\ old.from \in Nat /\ old.to \in Nat
  BY TokenTyped DEF TrimDone, TypeOK, Shape, Trimming
<1>2. /\ old.from <= sp /\ sp <= old.to /\ ep <= old.to - 1
      /\ \A p \in old.from .. (sp - 1) : At(p) \in Blanks
      /\ \A p \in (ep + 1) .. (old.to - 1) : At(p) \in Blanks
      /\ old.to <= Len(text) /\ \A p \in old.from .. (old.to - 1) : At(p) # Sep
  BY <1>1 DEF TrimDone, Shape, Trimming, InFile, PlacesIn
<1>3. /\ len \in Nat /\ sp + len <= old.to
      /\ \A p \in (sp + len) .. (old.to - 1) : At(p) \in Blanks
  BY <1>1, <1>2
<1>4. Cut(old.from, sp) /\ Cut(sp + len, old.to)
  BY <1>1, <1>2, <1>3 DEF Cut
<1>5. /\ tokens' = [tokens EXCEPT ![m] = new]
      /\ i' = i + 1 /\ pc' = "lines" /\ text' = text
  BY DEF TrimDone, fileVars
<1>6. /\ Len(tokens') = n
      /\ \A k \in 1 .. n : tokens'[k] = IF k = m THEN new ELSE tokens[k]
  BY <1>1, <1>5 DEF TypeOK
<1>7. new.from = sp /\ new.to = sp + len
  OBVIOUS
<1> HIDE DEF new, len, old, m
<1>8. /\ tokens'[m].from = sp /\ tokens'[m].to = sp + len
      /\ \A k \in 1 .. n : k # m => tokens'[k] = tokens[k]
  BY <1>1, <1>6, <1>7
<1>9. \A a, b : Cut(a, b)' <=> Cut(a, b)
  BY <1>5 DEF Cut, At
<1>10. InFile'
  BY <1>1, <1>2, <1>3, <1>5, <1>6, <1>8, SMTT(30) DEF Shape, InFile, PlacesIn, At, old
<1>11. Neighbours'
  <2>1. SUFFICES ASSUME NEW k \in 1 .. (n - 1) PROVE Apart(k)'
    BY <1>6 DEF Neighbours
  <2>2. PICK q \in tokens[k].to .. (tokens[k + 1].from - 1) :
          At(q) = Sep /\ Cut(tokens[k].to, q) /\ Cut(q + 1, tokens[k + 1].from)
    BY DEF Shape, Neighbours, Apart
  <2>3. /\ k \in 1 .. n /\ k + 1 \in 1 .. n /\ q \in Int /\ k # k + 1
        /\ tokens[k].to \in Nat /\ tokens[k + 1].from \in Nat
    BY <1>1, TokenTyped
  <2>4. tokens'[k].to <= tokens[k].to /\ tokens'[k].to \in Nat /\ Cut(tokens'[k].to, q)
    <3>1. CASE k = m
      BY <1>1, <1>3, <1>4, <1>8, <2>2, <2>3, <3>1 DEF Cut, old
    <3>2. CASE k # m
      BY <1>8, <2>2, <2>3, <3>2
    <3> QED
      BY <3>1, <3>2
  <2>5. /\ tokens'[k + 1].from >= tokens[k + 1].from /\ tokens'[k + 1].from \in Nat
        /\ Cut(q + 1, tokens'[k + 1].from)
    <3>1. CASE k + 1 = m
      <4>1. tokens[k + 1].from = old.from /\ tokens'[k + 1].from = sp
        BY <1>8, <3>1 DEF old
      <4>2. Cut(q + 1, old.from)
        BY <2>2, <4>1
      <4>3. Cut(q + 1, sp)
        BY <1>1, <1>2, <1>4, <2>3, <4>2 DEF Cut
      <4> QED
        BY <1>1, <1>2, <4>1, <4>3
    <3>2. CASE k + 1 # m
      BY <1>8, <2>2, <2>3, <3>2
    <3> QED
      BY <3>1, <3>2
  <2>6. q \in tokens'[k].to .. (tokens'[k + 1].from - 1)
    <3>1. ASSUME NEW a \in Nat, NEW b \in Nat, NEW c \in Nat, NEW d \in Nat,
                 NEW p \in a .. (b - 1), c <= a, d >= b
          PROVE  p \in c .. (d - 1)
      BY <3>1
    <3> QED
      BY <2>2, <2>3, <2>4, <2>5, <3>1
  <2>7. text'[q + 1] = Sep
    BY <1>5, <2>2 DEF At
  <2>8. \A p \in tokens'[k].to .. (q - 1) : text'[p + 1] \in Blanks \ {Sep}
    <3>1. Cut(tokens'[k].to, q) /\ text' = text
      BY <1>5, <2>4
    <3> QED
      BY <3>1 DEF Cut, At
  <2>9. \A p \in (q + 1) .. (tokens'[k + 1].from - 1) :
          text'[p + 1] \in Blanks \ {Sep}
    <3>1. Cut(q + 1, tokens'[k + 1].from) /\ text' = text
      BY <1>5, <2>5
    <3> QED
      BY <3>1 DEF Cut, At
  <2> QED
    BY <2>6, <2>7, <2>8, <2>9 DEF Apart, Cut, At
<1>12. FirstCut'
  <2>1. Cut(0, tokens[1].from) /\ 1 \in 1 .. n
    BY <1>1 DEF Shape, FirstCut
  <2>2. Cut(0, tokens'[1].from)
    <3>1. CASE m = 1
      BY <1>1, <1>2, <1>4, <1>8, <2>1, <3>1 DEF Cut, old
    <3>2. CASE m # 1
      BY <1>8, <2>1, <3>2
    <3> QED
      BY <3>1, <3>2
  <2> QED
    BY <1>5, <2>2 DEF FirstCut, Cut, At
<1>13. LastCut'
  <2>0. Len(text) \in Nat /\ Cut(tokens[n].to, Len(text))
    BY <1>1 DEF TypeOK, Shape, LastCut, TrimDone
  <2>1. Cut(tokens'[n].to, Len(text))
    <3>1. CASE m = n
      <4>1. tokens[n].to = old.to /\ tokens'[n].to = sp + len
        BY <1>8, <3>1 DEF old
      <4> QED
        BY <1>1, <1>3, <1>4, <2>0, <4>1 DEF Cut
    <3>2. CASE m # n
      BY <1>1, <1>8, <2>0, <3>2
    <3> QED
      BY <3>1, <3>2
  <2>2. Cut(tokens'[Len(tokens')].to, Len(text))
    BY <1>6, <2>1
  <2>3. Cut(tokens[Len(tokens)].to, Len(text))'
    BY <1>5, <2>2 DEF Cut, At
  <2>4. Len(tokens') > 0
    BY <1>1, <1>6
  <2> HIDE DEF m, n
  <2> QED
    BY <2>3, <2>4 DEF LastCut
<1> QED
  BY <1>5, <1>10, <1>11, <1>12, <1>13 DEF Shape, Reading, Splitting, Trimming

(* The steps that leave the tokens alone. *)
LEMMA SameTokens ==
  ASSUME Shape, UNCHANGED <<text, tokens>>
  PROVE  InFile' /\ Neighbours' /\ FirstCut'
  BY DEF Shape, InFile, Neighbours, FirstCut, Apart, Cut, PlacesIn, At

LEMMA ShapeStep ==
  ASSUME TypeOK, Shape, Next
  PROVE  Shape'
<1>1. ASSUME NEW t \in Chunks, Read(t) PROVE Shape'
  BY <1>1 DEF Read, splitVars, Shape, InFile, Neighbours, FirstCut, Reading, Splitting,
              LastCut, Trimming
<1>2. CASE BeginSplit
  <2>1. tokens = <<>> /\ tokens' = <<>> /\ start' = 0 /\ j' = 0 /\ text' = text
    BY <1>2 DEF BeginSplit, Shape, Reading, fileVars, splitVars
  <2>2. (pc' = "lines" /\ text = <<>>) \/ pc' = "split"
    BY <1>2 DEF BeginSplit
  <2>3. Len(text) \in Nat
    BY DEF TypeOK
  <2> QED
    BY <2>1, <2>2, <2>3 DEF Shape, InFile, Neighbours, FirstCut, Reading, Splitting,
              LastCut, Trimming
<1>3. CASE SplitChar
  <2>1. /\ pc = "split" /\ pc' = "split" /\ text' = text /\ j' = j + 1
        /\ j < Len(text) /\ j \in Nat /\ start \in Nat /\ Len(text) \in Nat
        /\ start <= j /\ \A p \in start .. (j - 1) : At(p) # Sep
    BY <1>3 DEF SplitChar, fileVars, TypeOK, Shape, Splitting
  <2>2. CASE At(j) = Sep
    <3>1. tokens' = Append(tokens, Token(start, j)) /\ start' = j + 1
      BY <1>3, <2>2 DEF SplitChar
    <3>2. /\ InFile' /\ Neighbours' /\ FirstCut'
          /\ Len(tokens') = Len(tokens) + 1 /\ tokens'[Len(tokens')].to = j
      BY <2>1, <3>1, AppendShape
    <3>3. Splitting'
      BY <2>1, <2>2, <3>1, <3>2 DEF Splitting, At, TypeOK
    <3> QED
      BY <2>1, <3>2, <3>3 DEF Shape, Reading, LastCut, Trimming
  <2>3. CASE At(j) # Sep
    <3>1. tokens' = tokens /\ start' = start
      BY <1>3, <2>3 DEF SplitChar
    <3>2. Splitting'
      BY <2>1, <2>3, <3>1 DEF Shape, Splitting, At
    <3> QED
      BY <2>1, <3>1, <3>2, SameTokens DEF Shape, Reading, LastCut, Trimming
  <2> QED
    BY <2>2, <2>3
<1>4. CASE SplitLast
  <2>1. /\ pc = "split" /\ pc' = "lines" /\ text' = text /\ j = Len(text)
        /\ tokens' = Append(tokens, Token(start, j))
    BY <1>4 DEF SplitLast, fileVars
  <2>2. /\ InFile' /\ Neighbours' /\ FirstCut'
        /\ Len(tokens') = Len(tokens) + 1 /\ tokens'[Len(tokens')].to = j
    BY <2>1, AppendShape
  <2>3. Len(tokens) \in Nat /\ Len(text) \in Nat
    BY DEF TypeOK
  <2>4. LastCut'
    BY <2>1, <2>2, <2>3 DEF LastCut, Cut
  <2> QED
    BY <2>1, <2>2, <2>4 DEF Shape, Reading, Splitting, Trimming
<1>5. CASE BeginTrim \/ TrimLeft \/ TrimRight
  <2>1. /\ UNCHANGED <<text, tokens, i>> /\ pc \in {"lines", "left", "right"}
        /\ pc' \in {"left", "right"} /\ i \in Nat /\ sp \in Nat /\ ep \in Int
    BY <1>5 DEF BeginTrim, TrimLeft, TrimRight, fileVars, splitVars, TypeOK
  <2>2. i + 1 \in 1 .. Len(tokens)
    BY <1>5, <2>1 DEF BeginTrim, TrimLeft, TrimRight, Shape, Trimming, TypeOK
  <2>3. /\ tokens[i + 1].from \in Nat /\ tokens[i + 1].to \in Nat
        /\ tokens[i + 1].from <= tokens[i + 1].to
    BY <2>2, TokenTyped DEF Shape, InFile
  <2>4. LastCut'
    BY <2>1 DEF Shape, LastCut, Cut, At
  <2>5. Trimming'
    <3>1. CASE BeginTrim
      <4>1. sp' = tokens[i + 1].from /\ ep' = tokens[i + 1].to - 1
        BY <3>1 DEF BeginTrim
      <4>2. /\ tokens[i + 1].from .. (sp' - 1) = {}
            /\ (ep' + 1) .. (tokens[i + 1].to - 1) = {}
        BY <2>3, <4>1
      <4> QED
        BY <2>1, <2>2, <2>3, <4>1, <4>2 DEF Trimming
    <3>2. CASE TrimLeft
      <4>1. pc = "left" /\ ep' = ep
        BY <3>2 DEF TrimLeft
      <4>2. CASE sp < tokens[i + 1].to /\ At(sp) \in Blanks
        <5>1. sp' = sp + 1
          BY <3>2, <4>2 DEF TrimLeft
        <5>2. /\ tokens[i + 1].from <= sp
              /\ \A p \in tokens[i + 1].from .. (sp - 1) : At(p) \in Blanks
              /\ tokens[i + 1].from - 1 <= ep /\ ep <= tokens[i + 1].to - 1
              /\ \A p \in (ep + 1) .. (tokens[i + 1].to - 1) : At(p) \in Blanks
          BY <4>1 DEF Shape, Trimming
        <5>3. tokens[i + 1].from <= sp' /\ sp' <= tokens[i + 1].to
          BY <2>1, <2>3, <4>2, <5>1, <5>2
        <5>4. \A p \in tokens[i + 1].from .. (sp' - 1) : At(p) \in Blanks
          BY <2>1, <2>3, <4>2, <5>1, <5>2
        <5>5. i < Len(tokens)
          BY <2>1, <2>2
        <5> QED
          BY <2>1, <4>1, <5>2, <5>3, <5>4, <5>5 DEF Trimming, At
      <4>3. CASE ~(sp < tokens[i + 1].to /\ At(sp) \in Blanks)
        <5>1. sp' = sp
          BY <3>2, <4>3 DEF TrimLeft
        <5>2. Trimming
          BY DEF Shape
        <5> QED
          BY <2>1, <4>1, <5>1, <5>2 DEF Trimming, At
      <4> QED
        BY <4>2, <4>3
    <3>3. CASE TrimRight
      <4>1. /\ pc = "right" /\ ep >= tokens[i + 1].from /\ At(ep) \in Blanks
            /\ ep' = ep - 1 /\ sp' = sp
        BY <3>3 DEF TrimRight
      <4>2. /\ tokens[i + 1].from <= sp /\ sp <= tokens[i + 1].to
            /\ \A p \in tokens[i + 1].from .. (sp - 1) : At(p) \in Blanks
            /\ ep <= tokens[i + 1].to - 1
            /\ \A p \in (ep + 1) .. (tokens[i + 1].to - 1) : At(p) \in Blanks
        BY <4>1 DEF Shape, Trimming
      <4>3. tokens[i + 1].from - 1 <= ep' /\ ep' <= tokens[i + 1].to - 1
        BY <2>1, <2>3, <4>1, <4>2
      <4>4. \A p \in (ep' + 1) .. (tokens[i + 1].to - 1) : At(p) \in Blanks
        BY <2>1, <2>3, <4>1, <4>2
      <4>5. i < Len(tokens)
        BY <2>1, <2>2
      <4> QED
        BY <2>1, <4>1, <4>2, <4>3, <4>4, <4>5 DEF Trimming, At
    <3> QED
      BY <1>5, <3>1, <3>2, <3>3
  <2> QED
    BY <2>1, <2>4, <2>5, SameTokens DEF Shape, Reading, Splitting
<1>6. CASE TrimDone
  BY <1>6, TrimShape
<1>7. CASE Finish \/ Done
  <2>1. /\ UNCHANGED <<text, tokens, start, j>> /\ pc' = "done"
        /\ pc \in {"lines", "done"}
    BY <1>7 DEF Finish, Done, vars, fileVars, splitVars
  <2>2. LastCut'
    BY <2>1 DEF Shape, LastCut, Cut, At
  <2> QED
    BY <2>1, <2>2, SameTokens DEF Shape, Reading, Splitting, Trimming
<1> QED
  BY <1>1, <1>2, <1>3, <1>4, <1>5, <1>6, <1>7 DEF Next

LEMMA Inductive == Sizes /\ Shape /\ [Next]_vars => Sizes' /\ Shape'
<1> SUFFICES ASSUME Sizes, Shape, [Next]_vars PROVE Sizes' /\ Shape'
  OBVIOUS
<1>1. CASE Next
  BY <1>1, SizesStep, ShapeStep DEF Sizes
<1>2. CASE UNCHANGED vars
  <2> USE <1>2 DEF vars, fileVars, splitVars, trimVars
  <2>1. Sizes'
    BY DEF Sizes, TypeOK, RoomKept, SlotFree
  <2>2. LastCut' /\ Trimming'
    BY DEF Shape, LastCut, Trimming, Cut, At
  <2>3. Reading' /\ Splitting'
    BY DEF Shape, Reading, Splitting, At
  <2> QED
    BY <2>1, <2>2, <2>3, SameTokens DEF Shape
<1> QED
  BY <1>1, <1>2

LEMMA Always == Spec => [](Sizes /\ Shape)
  BY SizesInit, ShapeInit, Inductive, PTL DEF Spec

-----------------------------------------------------------------------------
(* The variables keep their types, and no header's free falls below zero.  *)
THEOREM StringTypes == Spec => []TypeOK
<1>1. Sizes => TypeOK
  BY DEF Sizes
<1> QED
  BY Always, <1>1, PTL

(* Appending, preallocating, splitting and trimming account for every byte *)
(* of the allocations, for any chunk size and any preallocation.           *)
THEOREM Rooms == Spec => []RoomKept
<1>1. Sizes => RoomKept
  BY DEF Sizes
<1> QED
  BY Always, <1>1, PTL

(* cssplitlen never stores a token behind the places it allocated.         *)
THEOREM Slots == Spec => []SlotFree
<1>1. Sizes => SlotFree
  BY DEF Sizes
<1> QED
  BY Always, <1>1, PTL

(* Splitting and trimming lose nothing of the file but blanks, and token k *)
(* comes from line k.                                                      *)
THEOREM Lines == Spec => []LinesKept
<1>1. TypeOK /\ Shape => LinesKept
  BY DEF TypeOK, Shape, LinesKept, InFile, Neighbours, FirstCut, LastCut, Apart, PlacesIn
<1>2. Sizes => TypeOK
  BY DEF Sizes
<1> QED
  BY Always, <1>1, <1>2, PTL

-----------------------------------------------------------------------------
(* While options are set. *)
USE ConfigAssumption

-----------------------------------------------------------------------------
(* What is read stays within the file. *)
FileOK == file \in Files /\ Len(text) <= Len(Chopped(file))

LEMMA PartIsChunk ==
  ASSUME NEW f \in Seq(Chars), NEW m \in Nat, NEW n \in 1 .. CONFIGLINE_MAX,
         m + n <= Len(f),
         \A k \in 1 .. (n - 1) : SubSeq(f, m + 1, m + n)[k] # Sep
  PROVE  /\ SubSeq(f, m + 1, m + n) \in Chunks
         /\ SubSeq(f, m + 1, m + n) \in Seq(Chars)
         /\ Len(SubSeq(f, m + 1, m + n)) = n
<1> DEFINE t == SubSeq(f, m + 1, m + n)
<1>1. n \in Nat /\ m + 1 \in Int /\ m + n \in Int
  BY CStringAssumption
<1>2. \A k \in (m + 1) .. (m + n) : f[k] \in Chars
  BY <1>1, ElementOfSeq
<1>3. t \in Seq(Chars) /\ Len(t) = n
  <2>1. /\ t \in Seq(Chars)
        /\ Len(t) = IF m + 1 <= m + n THEN m + n - (m + 1) + 1 ELSE 0
    BY <1>1, <1>2, SubSeqProperties
  <2> QED
    BY <1>1, <2>1
<1> HIDE DEF t
<1>4. t \in [1 .. n -> Chars]
  BY <1>3
<1>5. \A k \in 1 .. (n - 1) : t[k] # Sep
  BY DEF t
<1>6. t \in Chunks
  BY <1>4, <1>5 DEF Chunks
<1> QED
  BY <1>3, <1>6 DEF t

(* Each chunk of fgets is one of those CString lets come. *)
LEMMA FgetsReads ==
  ASSUME TypeOK, FileOK, Fgets
  PROVE  /\ \E t \in Chunks : Read(t)
         /\ Len(text') <= Len(Chopped(file))
<1>1. PICK n \in 1 .. CONFIGLINE_MAX :
        /\ Len(text) + n <= Len(Chopped(file))
        /\ \A k \in 1 .. (n - 1) :
             SubSeq(Chopped(file), Len(text) + 1, Len(text) + n)[k] # Sep
        /\ Read(SubSeq(Chopped(file), Len(text) + 1, Len(text) + n))
  BY DEF Fgets
<1> DEFINE t == SubSeq(Chopped(file), Len(text) + 1, Len(text) + n)
<1>2. Chopped(file) \in Seq(Chars) /\ Len(text) \in Nat /\ text \in Seq(Chars)
  BY DEF FileOK, TypeOK
<1>3. t \in Chunks /\ t \in Seq(Chars) /\ Len(t) = n
  <2> DEFINE f == Chopped(file)
             m == Len(text)
  <2> HIDE DEF f, m
  <2>1. /\ f \in Seq(Chars) /\ m \in Nat /\ m + n <= Len(f)
        /\ \A k \in 1 .. (n - 1) : SubSeq(f, m + 1, m + n)[k] # Sep
    BY <1>1, <1>2, Zenon DEF f, m
  <2>2. /\ SubSeq(f, m + 1, m + n) \in Chunks /\ SubSeq(f, m + 1, m + n) \in Seq(Chars)
        /\ Len(SubSeq(f, m + 1, m + n)) = n
    BY <2>1, PartIsChunk, Zenon
  <2> QED
    BY <2>2, Zenon DEF f, m
<1>4. Read(t)
  BY <1>1
<1> HIDE DEF t
<1>5. text' = text \o t
  BY <1>4 DEF Read
<1>6. Len(text') = Len(text) + n
  BY <1>2, <1>3, <1>5, ConcatProperties
<1> QED
  BY <1>1, <1>3, <1>4, <1>6

(* Every step of ConfigNext is a step of CString or none. *)
LEMMA StepImplements ==
  ASSUME TypeOK, FileOK, ConfigNext
  PROVE  [Next]_vars /\ FileOK'
<1>1. CASE Fgets /\ UNCHANGED confVars
  <2>1. Next
    BY <1>1, FgetsReads DEF Next
  <2> QED
    BY <1>1, <2>1, FgetsReads DEF FileOK, confVars
<1>2. CASE /\ \/ Eof \/ SplitChar \/ SplitLast \/ BeginTrim
               \/ TrimLeft \/ TrimRight \/ TrimDone \/ Finish
           /\ UNCHANGED confVars
  <2>1. Next
    BY <1>2 DEF Next, Eof
  <2>2. UNCHANGED <<file, text>>
    BY <1>2 DEF confVars, fileVars, Eof, BeginSplit, SplitChar, SplitLast, BeginTrim,
                TrimLeft, TrimRight, TrimDone, Finish
  <2> QED
    BY <2>1, <2>2 DEF FileOK
<1>3. CASE SkipComment \/ Hang \/ SplitArgs \/ SkipBlank \/ SetOption \/ BadLine
  <2>1. UNCHANGED vars /\ UNCHANGED file
    BY <1>3 DEF SkipComment, Hang, SplitArgs, SkipBlank, SetOption, BadLine
  <2> QED
    BY <2>1 DEF FileOK, vars, fileVars
<1> QED
  BY <1>1, <1>2, <1>3 DEF ConfigNext, StringStep

(* The same of whole behaviours, without fairness. *)
LEMMA ReadingImplements ==
  ConfigInit /\ [][ConfigNext]_<<vars, confVars>> => Spec
<1>1. ConfigInit => Init /\ FileOK /\ TypeOK
  <2>1. ConfigInit => Init /\ file \in Files /\ text = <<>>
    BY DEF ConfigInit, Init
  <2> QED
    BY <2>1, SizesInit DEF Sizes, FileOK
<1>2. TypeOK /\ FileOK /\ [ConfigNext]_<<vars, confVars>> => [Next]_vars /\ FileOK'
  <2> SUFFICES ASSUME TypeOK, FileOK, [ConfigNext]_<<vars, confVars>>
               PROVE  [Next]_vars /\ FileOK'
    OBVIOUS
  <2>1. CASE UNCHANGED <<vars, confVars>>
    BY <2>1 DEF FileOK, vars, fileVars, confVars
  <2> QED
    BY <2>1, StepImplements
<1>3. Sizes /\ Shape /\ [Next]_vars => Sizes' /\ Shape'
  BY Inductive
<1>4. Init => Sizes /\ Shape
  BY SizesInit, ShapeInit
<1>5. Sizes => TypeOK
  BY DEF Sizes
<1> QED
  BY <1>1, <1>2, <1>3, <1>4, <1>5, PTL DEF Spec

(* Loading a configuration implements CString: reading and trimming go on  *)
(* as described there whatever options the lines set in between.           *)
THEOREM ConfigReads == ConfigSpec => Spec
  BY ReadingImplements, PTL DEF ConfigSpec

(* No line of a configuration is lost, joined or shifted on its way to the *)
(* options, for any file and any size of fgets's buffer.                   *)
THEOREM ConfigLines == ConfigSpec => []LinesKept
  BY ConfigReads, Lines, PTL

(* No append, split or trim leaves its allocation while a configuration is *)
(* loaded.                                                                 *)
THEOREM ConfigRooms == ConfigSpec => [](RoomKept /\ SlotFree)
  BY ConfigReads, Rooms, Slots, PTL

-----------------------------------------------------------------------------
(* A trimmed line begins with no blank, and only a file with characters is *)
(* split.                                                                  *)
Tight ==
  /\ i <= Len(tokens)
  /\ \A k \in 1 .. i : tokens[k].from < tokens[k].to => At(tokens[k].from) \notin Blanks
  /\ pc = "right" => ~ (sp < tokens[i + 1].to /\ At(sp) \in Blanks)
  /\ pc \in {"read", "eof"} => tokens = <<>>
  /\ pc \in {"read", "eof", "split"} => i = 0
  /\ pc = "split" \/ tokens # <<>> => text # <<>>

LEMMA TightStep ==
  ASSUME TypeOK, Shape, Tight, Next
  PROVE  Tight'
<1>1. /\ i \in Nat /\ Len(tokens) \in Nat /\ i <= Len(tokens)
      /\ \A k \in 1 .. i : tokens[k].from < tokens[k].to => At(tokens[k].from) \notin Blanks
  <2>1. i \in Nat /\ Len(tokens) \in Nat
    BY DEF TypeOK
  <2> QED
    BY <2>1, Zenon DEF Tight
<1>2. ASSUME NEW t \in Chunks, Read(t) PROVE Tight'
  <2>1. /\ tokens = <<>> /\ i = 0 /\ pc' \in {"read", "eof"} /\ tokens' = tokens /\ i' = i
    BY <1>2 DEF Read, Tight, splitVars, trimVars
  <2> QED
    BY <2>1 DEF Tight
<1>3. CASE BeginSplit
  <2>1. /\ pc \in {"read", "eof"} /\ pc' = IF text = <<>> THEN "lines" ELSE "split"
        /\ UNCHANGED <<fileVars, splitVars, trimVars>>
    BY <1>3 DEF BeginSplit
  <2>2. tokens' = tokens /\ i' = i /\ text' = text
    BY <2>1 DEF fileVars, splitVars, trimVars
  <2>3. tokens = <<>> /\ i = 0
    BY <2>1 DEF Tight
  <2>4. CASE text = <<>>
    BY <2>1, <2>2, <2>3, <2>4 DEF Tight
  <2>5. CASE text # <<>>
    BY <2>1, <2>2, <2>3, <2>5 DEF Tight
  <2> QED
    BY <2>4, <2>5
<1>4. CASE SplitChar \/ SplitLast
  <2>1. /\ i = 0 /\ i' = i /\ text # <<>> /\ text' = text /\ pc' \in {"split", "lines"}
    BY <1>4 DEF SplitChar, SplitLast, Tight, fileVars, trimVars
  <2>2. Len(tokens') \in Nat
    <3>1. tokens' = tokens \/ tokens' = Append(tokens, Token(start, j))
      BY <1>4 DEF SplitChar, SplitLast
    <3>2. start \in Nat /\ j \in Nat /\ start <= j
      BY <1>4 DEF SplitChar, SplitLast, TypeOK, Shape, Splitting
    <3>3. tokens \in Seq(TokenSet) /\ Token(start, j) \in TokenSet
      BY <3>2, NewAccounted DEF TypeOK, TokenSet
    <3>4. tokens' \in Seq(TokenSet)
      BY <3>1, <3>3, AppendProperties
    <3> QED
      BY <3>4
  <2> QED
    BY <2>1, <2>2 DEF Tight
<1>5. CASE BeginTrim \/ TrimLeft \/ TrimRight
  <2>1. UNCHANGED <<text, tokens, i>> /\ pc' \in {"left", "right"}
    BY <1>5 DEF BeginTrim, TrimLeft, TrimRight, fileVars, splitVars
  <2>2. pc' = "right" => ~ (sp' < tokens[i + 1].to /\ At(sp') \in Blanks)
    <3>1. CASE BeginTrim
      BY <3>1 DEF BeginTrim
    <3>2. CASE TrimLeft
      BY <3>2 DEF TrimLeft
    <3>3. CASE TrimRight
      BY <3>3 DEF TrimRight, Tight
    <3> QED
      BY <1>5, <3>1, <3>2, <3>3
  <2> QED
    BY <1>1, <2>1, <2>2 DEF Tight, At
<1>6. CASE TrimDone
  <2> DEFINE m == i + 1
             len == IF sp > ep THEN 0 ELSE ep - sp + 1
             new == [from |-> sp, to |-> sp + len, cs |-> Trimmed(tokens[m].cs, len)]
  <2>1. /\ m \in 1 .. Len(tokens) /\ sp \in Nat /\ ep \in Int
        /\ sp <= tokens[m].to /\ ep <= tokens[m].to - 1
        /\ tokens[m].to \in Nat
        /\ ~ (sp < tokens[m].to /\ At(sp) \in Blanks)
    BY <1>1, <1>6, TokenTyped DEF TrimDone, TypeOK, Shape, Trimming, Tight
  <2>2. /\ tokens' = [tokens EXCEPT ![m] = new]
        /\ i' = i + 1 /\ pc' = "lines" /\ text' = text
    BY <1>6 DEF TrimDone, fileVars
  <2>3. new.from = sp /\ new.to = sp + len
    OBVIOUS
  <2>4. sp < sp + len => At(sp) \notin Blanks
    BY <2>1
  <2> HIDE DEF new, len
  <2>5. /\ Len(tokens') = Len(tokens)
        /\ \A k \in 1 .. Len(tokens) : tokens'[k] = IF k = m THEN new ELSE tokens[k]
    BY <2>1, <2>2 DEF TypeOK
  <2>6. ASSUME NEW k \in 1 .. m, tokens'[k].from < tokens'[k].to
        PROVE  At(tokens'[k].from) \notin Blanks
    <3>1. CASE k = m
      BY <2>1, <2>3, <2>4, <2>5, <2>6, <3>1
    <3>2. CASE k # m
      <4>1. k \in 1 .. i /\ tokens'[k] = tokens[k]
        BY <1>1, <2>1, <2>5, <3>2
      <4> QED
        BY <1>1, <2>6, <4>1
    <3> QED
      BY <3>1, <3>2
  <2>7. text # <<>>
    <3>1. tokens # <<>>
      BY <1>1, <2>1
    <3> QED
      BY <3>1 DEF Tight
  <2>8. \A k \in 1 .. m : tokens'[k].from < tokens'[k].to => text'[tokens'[k].from + 1] \notin Blanks
    BY <2>2, <2>6 DEF At
  <2> QED
    BY <1>1, <2>1, <2>2, <2>5, <2>7, <2>8 DEF Tight, At
<1>7. CASE Finish \/ Done
  <2>1. UNCHANGED <<text, tokens, i>> /\ pc' = "done"
    BY <1>7 DEF Finish, Done, vars, fileVars, splitVars, trimVars
  <2> QED
    BY <1>1, <2>1 DEF Tight, At
<1> QED
  BY <1>2, <1>3, <1>4, <1>5, <1>6, <1>7 DEF Next

LEMMA TightSame == Tight /\ UNCHANGED vars => Tight'
<1> SUFFICES ASSUME Tight, UNCHANGED vars PROVE Tight'
  OBVIOUS
<1>1. UNCHANGED <<text, tokens, i, sp, pc>>
  BY DEF vars, fileVars, splitVars, trimVars
<1> QED
  BY <1>1 DEF Tight, At

LEMMA TightInit == Init => Tight
  BY DEF Init, Tight

(* Once the file is split, its lines are those of the reference, and each  *)
(* trimmed one is the line of the file without blanks around it.           *)
Lying(B, E) ==
  /\ Lined(Len(tokens), B, E)
  /\ \A k \in 1 .. i : \E x, y : Trims(LineFrom(B[k]), x, y, LineText(k))

LEMMA FileLined ==
  ASSUME NEW C, Letters(C), file \in Seq(C), file # Empty, text = Chopped(file),
         TypeOK, Shape, Tight, Len(tokens) > 0, pc \in {"lines", "left", "right", "done"}
  PROVE  \E B, E : Lying(B, E)
<1> DEFINE n == Len(tokens)
           m == Len(file)
           from(k) == tokens[k].from
           to(k) == tokens[k].to
           Between(k, q) == /\ q \in to(k) .. (from(k + 1) - 1) /\ At(q) = Sep
                            /\ Cut(to(k), q) /\ Cut(q + 1, from(k + 1))
           Q(k) == CHOOSE q : Between(k, q)
           B == [k \in 1 .. n |-> IF k = 1 THEN 0 ELSE Q(k - 1) + 1]
           E == [k \in 1 .. n |-> IF k = n THEN m ELSE Q(k)]
<1>1. /\ n \in Nat /\ 1 \in 1 .. n /\ n \in 1 .. n /\ m \in Nat /\ Len(text) = m
      /\ i \in Nat /\ i <= n
      /\ \A p \in 0 .. (m - 1) : At(p) = Char(file, p + 1)
  BY DEF TypeOK, Chopped, At, Tight
<1>2. \A k \in 1 .. n : /\ from(k) \in Nat /\ to(k) \in Nat
                        /\ from(k) <= to(k) /\ to(k) <= m
                        /\ \A p \in from(k) .. (to(k) - 1) : At(p) # Sep
  <2> TAKE k \in 1 .. n
  <2>1. from(k) \in Nat /\ to(k) \in Nat
    BY TokenTyped
  <2>2. /\ from(k) <= to(k) /\ to(k) <= m
        /\ \A p \in from(k) .. (to(k) - 1) : At(p) # Sep
    BY <1>1 DEF Shape, InFile, PlacesIn
  <2> QED
    BY <2>1, <2>2
<1>3. \A k \in 1 .. (n - 1) : Between(k, Q(k))
  <2> TAKE k \in 1 .. (n - 1)
  <2>1. \E q : Between(k, q)
    BY DEF Shape, Neighbours, Apart
  <2> HIDE DEF Between
  <2> QED
    BY <2>1, Zenon
<1> HIDE DEF Q
<1>4. Cut(0, from(1)) /\ Cut(to(n), m)
  BY <1>1 DEF Shape, FirstCut, LastCut
<1> HIDE DEF from, to, n, m
<1>5. \A k \in 1 .. (n - 1) : k \in 1 .. n /\ k + 1 \in 1 .. n /\ k # n /\ k + 1 # 1 /\ (k + 1) - 1 = k
  BY <1>1
<1>6. \A k \in 1 .. (n - 1) : /\ Q(k) \in Nat /\ to(k) <= Q(k) /\ Q(k) + 1 <= from(k + 1)
                              /\ Q(k) <= m - 1
  <2> TAKE k \in 1 .. (n - 1)
  <2>1. /\ to(k) \in Nat /\ from(k + 1) \in Nat /\ from(k + 1) <= m
    BY <1>1, <1>2, <1>5
  <2>2. Q(k) \in to(k) .. (from(k + 1) - 1)
    BY <1>3
  <2> QED
    BY <1>1, <2>1, <2>2
<1>7. /\ B[1] = 0 /\ E[n] = m
      /\ \A k \in 1 .. (n - 1) : B[k + 1] = Q(k) + 1 /\ E[k] = Q(k)
  BY <1>1, <1>5
<1> HIDE DEF B, E
<1>8. \A k \in 1 .. n : /\ B[k] \in Nat /\ B[k] <= from(k) /\ Cut(B[k], from(k))
  <2> TAKE k \in 1 .. n
  <2>1. CASE k = 1
    <3>1. 0 .. (from(1) - 1) = 0 .. (from(1) - 1) /\ from(1) \in Nat
      BY <1>1, <1>2
    <3> QED
      BY <1>4, <1>7, <2>1, <3>1
  <2>2. CASE k # 1
    <3>1. k - 1 \in 1 .. (n - 1) /\ (k - 1) + 1 = k
      BY <1>1, <2>2
    <3>2. B[k] = Q(k - 1) + 1
      BY <1>7, <3>1
    <3>3. Q(k - 1) \in Nat /\ Q(k - 1) + 1 <= from(k)
      BY <1>6, <3>1
    <3>4. Cut(Q(k - 1) + 1, from(k))
      BY <1>3, <3>1
    <3> QED
      BY <3>2, <3>3, <3>4
  <2> QED
    BY <2>1, <2>2
<1>9. \A k \in 1 .. n : /\ E[k] \in Nat /\ to(k) <= E[k] /\ E[k] <= m /\ Cut(to(k), E[k])
  <2> TAKE k \in 1 .. n
  <2>1. CASE k = n
    BY <1>1, <1>2, <1>4, <1>7, <2>1
  <2>2. CASE k # n
    <3>1. k \in 1 .. (n - 1)
      BY <1>1, <2>2
    <3>2. E[k] = Q(k) /\ Cut(to(k), Q(k))
      BY <1>3, <1>7, <3>1
    <3> QED
      BY <1>1, <1>6, <3>1, <3>2
  <2> QED
    BY <2>1, <2>2
<1>10. \A k \in 1 .. n : /\ B[k] \in 0 .. m /\ E[k] \in 0 .. m /\ B[k] <= E[k]
                         /\ \A p \in (B[k] + 1) .. E[k] : Char(file, p) # Sep
  <2> TAKE k \in 1 .. n
  <2>1. /\ B[k] \in Nat /\ B[k] <= from(k) /\ from(k) \in Nat /\ from(k) <= to(k) /\ to(k) \in Nat
        /\ to(k) <= E[k] /\ E[k] <= m /\ E[k] \in Nat /\ m \in Nat
        /\ Cut(B[k], from(k)) /\ Cut(to(k), E[k])
        /\ \A p \in from(k) .. (to(k) - 1) : At(p) # Sep
    BY <1>1, <1>2, <1>8, <1>9
  <2>2. ASSUME NEW p \in (B[k] + 1) .. E[k] PROVE Char(file, p) # Sep
    <3>1. p - 1 \in 0 .. (m - 1) /\ (p - 1) + 1 = p
      BY <2>1
    <3>2. At(p - 1) = Char(file, p)
      BY <1>1, <3>1
    <3>3. \/ p - 1 \in B[k] .. (from(k) - 1)
          \/ p - 1 \in from(k) .. (to(k) - 1)
          \/ p - 1 \in to(k) .. (E[k] - 1)
      BY <2>1
    <3>4. At(p - 1) # Sep
      BY <2>1, <3>3 DEF Cut
    <3> QED
      BY <3>2, <3>4
  <2> QED
    BY <2>1, <2>2
<1>11. Lined(n, B, E)
  <2>1. \A k \in 1 .. (n - 1) : B[k + 1] = E[k] + 1 /\ Char(file, E[k] + 1) = Sep
    <3> TAKE k \in 1 .. (n - 1)
    <3>1. B[k + 1] = E[k] + 1 /\ E[k] = Q(k) /\ At(Q(k)) = Sep
      BY <1>3, <1>7
    <3>2. Q(k) \in 0 .. (m - 1)
      BY <1>1, <1>6
    <3> QED
      BY <1>1, <3>1, <3>2
  <2>2. B \in [1 .. n -> 0 .. m] /\ E \in [1 .. n -> 0 .. m]
    BY <1>10 DEF B, E
  <2>3. n \in Nat \ {0}
    BY <1>1
  <2> QED
    BY <1>7, <1>10, <2>1, <2>2, <2>3, Zenon DEF Lined, m
<1>12. \A k \in 1 .. n : LineFrom(B[k]) = SubSeq(file, B[k] + 1, E[k])
  BY <1>11, LineFromIs
<1>13. ASSUME NEW k \in 1 .. i PROVE \E x, y : Trims(LineFrom(B[k]), x, y, LineText(k))
  <2> DEFINE x == from(k) - B[k]
             y == to(k) - B[k]
             l == SubSeq(file, B[k] + 1, E[k])
             t == LineText(k)
             b == B[k]
             e == E[k]
             f == from(k)
             g == to(k)
  <2>1. k \in 1 .. n
    BY <1>1
  <2>2. /\ b \in Nat /\ b <= f /\ f \in Nat /\ f <= g /\ g \in Nat
        /\ g <= e /\ e <= m /\ e \in Nat /\ m \in Nat
        /\ Cut(b, f) /\ Cut(g, e)
    BY <1>1, <1>2, <1>8, <1>9, <2>1
  <2>3. t = SubSeq(file, f + 1, g)
    <3>1. f \in 0 .. m /\ g \in f .. m
      BY <2>2
    <3>2. f \in 0 .. Len(file) /\ g \in f .. Len(file)
      BY <3>1 DEF m
    <3>3. SubSeq(text, f + 1, g) = Chopped(SubSeq(file, f + 1, g))
      <4> HIDE DEF f, g
      <4> QED
        BY <3>2, PartChopped
    <3>4. SubSeq(file, f + 1, g) \in Seq(C)
      <4>1. f + 1 \in 1 .. (Len(file) + 1) /\ g \in ((f + 1) - 1) .. Len(file)
        BY <2>2 DEF m
      <4> HIDE DEF f, g
      <4> QED
        BY <4>1, PartIs
    <3>5. StringOf(Chopped(SubSeq(file, f + 1, g))) = SubSeq(file, f + 1, g)
      BY <3>4, StringOfIs
    <3>6. t = StringOf(SubSeq(text, f + 1, g))
      BY Zenon DEF LineText, from, to
    <3> QED
      BY <3>3, <3>5, <3>6
  <2> HIDE DEF b, e, f, g
  <2>4. /\ b + 1 \in 1 .. (Len(file) + 1) /\ e \in ((b + 1) - 1) .. Len(file)
        /\ e - (b + 1) + 1 = e - b /\ e - (b + 1) + 2 = (e - b) + 1
        /\ (f - b) + 1 \in 1 .. (e - (b + 1) + 2)
        /\ g - b \in (((f - b) + 1) - 1) .. (e - (b + 1) + 1)
        /\ (b + 1) + ((f - b) + 1) - 1 = f + 1 /\ (b + 1) + (g - b) - 1 = g
    BY <2>2 DEF m
  <2> DEFINE w == SubSeq(file, b + 1, e)
  <2>5. /\ w \in Seq(C) /\ Len(w) = e - b
        /\ \A q \in 1 .. (e - b) : Char(w, q) = Char(file, (b + 1) + q - 1)
    <3> DEFINE p == b + 1
    <3>1. p \in 1 .. (Len(file) + 1) /\ e \in (p - 1) .. Len(file) /\ e - p + 1 = e - b
      BY <2>4
    <3> HIDE DEF p
    <3>2. /\ SubSeq(file, p, e) \in Seq(C) /\ Len(SubSeq(file, p, e)) = e - p + 1
          /\ \A q \in 1 .. (e - p + 1) : Char(SubSeq(file, p, e), q) = Char(file, p + q - 1)
      <4>1. file \in Seq(C)
        OBVIOUS
      <4> QED
        BY ONLY <3>1, <4>1, PartIs
    <3>3. /\ SubSeq(file, p, e) \in Seq(C) /\ Len(SubSeq(file, p, e)) = e - b
          /\ \A q \in 1 .. (e - b) : Char(SubSeq(file, p, e), q) = Char(file, p + q - 1)
      BY <3>1, <3>2, Zenon
    <3> QED
      BY <3>3, Zenon DEF p
  <2>6. SubSeq(w, (f - b) + 1, g - b) = SubSeq(file, f + 1, g)
    <3> DEFINE p == b + 1
               c == (f - b) + 1
               d == g - b
    <3>1. /\ p \in 1 .. (Len(file) + 1) /\ e \in (p - 1) .. Len(file)
          /\ c \in 1 .. (e - p + 2) /\ d \in (c - 1) .. (e - p + 1)
          /\ p + c - 1 = f + 1 /\ p + d - 1 = g
      BY <2>4
    <3> HIDE DEF p, c, d
    <3>2. SubSeq(SubSeq(file, p, e), c, d) = SubSeq(file, p + c - 1, p + d - 1)
      BY <3>1, PartOfPart
    <3>3. SubSeq(SubSeq(file, p, e), c, d) = SubSeq(file, f + 1, g)
      BY <3>1, <3>2
    <3> QED
      BY <3>3 DEF p, c, d
  <2> HIDE DEF w
  <2>7. \A q \in 1 .. (e - b) : Char(w, q) = At(b + q - 1)
    <3> TAKE q \in 1 .. (e - b)
    <3>1. b + q - 1 \in 0 .. (m - 1) /\ (b + 1) + q - 1 = (b + q - 1) + 1
      BY <2>2
    <3>2. At(b + q - 1) = Char(file, (b + q - 1) + 1)
      BY <1>1, <3>1
    <3> QED
      BY <2>5, <3>1, <3>2
  <2>8. \A q \in 1 .. (f - b) : Char(w, q) \in Blanks
    <3> TAKE q \in 1 .. (f - b)
    <3>1. q \in 1 .. (e - b) /\ b + q - 1 \in b .. (f - 1)
      BY <2>2
    <3> QED
      BY <2>2, <2>7, <3>1 DEF Cut
  <2>9. \A q \in ((g - b) + 1) .. Len(w) : Char(w, q) \in Blanks
    <3> TAKE q \in ((g - b) + 1) .. Len(w)
    <3>1. q \in 1 .. (e - b) /\ b + q - 1 \in g .. (e - 1)
      BY <2>2, <2>5
    <3> QED
      BY <2>2, <2>7, <3>1 DEF Cut
  <2>10. f - b < g - b => Char(w, (f - b) + 1) \notin Blanks
    <3> SUFFICES ASSUME f < g PROVE Char(w, (f - b) + 1) \notin Blanks
      BY <2>2
    <3>1. (f - b) + 1 \in 1 .. (e - b) /\ b + ((f - b) + 1) - 1 = f
      BY <2>2
    <3>2. At(f) \notin Blanks
      BY DEF Tight, f, g, from, to
    <3> QED
      BY <2>7, <3>1, <3>2
  <2>11. f - b \in 0 .. Len(w) /\ g - b \in (f - b) .. Len(w)
    BY <2>2, <2>5
  <2>12. Trims(w, f - b, g - b, t)
    <3> HIDE DEF t
    <3> QED
      BY <2>3, <2>6, <2>8, <2>9, <2>10, <2>11, Zenon DEF Trims
  <2>13. LineFrom(B[k]) = w
    BY <1>12, <2>1 DEF w, b, e
  <2> HIDE DEF t
  <2>14. \E x1, y1 : Trims(LineFrom(B[k]), x1, y1, t)
    BY <2>12, <2>13
  <2> QED
    BY <2>14 DEF t
<1>14. Lying(B, E)
  BY <1>11, <1>13 DEF Lying, n
<1> QED
  BY <1>14

(* The lines of the file have numbers in their order.                      *)
Numbered(n) ==
  /\ n \in Nat
  /\ LineStarts \subseteq 0 .. Len(file)
  /\ \A s \in LineStarts : Number(s) \in 1 .. n
  /\ \A s, t \in LineStarts : s <= t <=> Number(s) <= Number(t)
  /\ \A k \in 1 .. n : \E s \in LineStarts : Number(s) = k

LEMMA LinesNumbered ==
  ASSUME NEW C, Letters(C), file \in Seq(C), text = Chopped(file),
         TypeOK, Shape, Tight, pc \in {"lines", "left", "right", "done"}
  PROVE  /\ Numbered(Len(tokens))
         /\ \A s \in LineStarts : Number(s) <= i =>
              \E x, y : Trims(LineFrom(s), x, y, LineText(Number(s)))
<1>1. /\ Len(tokens) \in Nat /\ i \in Nat /\ i <= Len(tokens) /\ Len(file) \in Nat
      /\ Len(text) = Len(file) /\ Empty \in Seq(C) /\ Len(Empty) = 0
  BY DEF TypeOK, Tight, Chopped, Letters
<1>2. CASE Len(tokens) = 0
  <2>1. Len(file) = 0
    <3>1. text = <<>>
      BY <1>2 DEF Shape, LastCut
    <3> QED
      BY <1>1, <3>1
  <2>2. file = Empty
    BY <1>1, <2>1, SeqEqual
  <2>3. LineStarts = {}
    BY <2>2, Zenon DEF LineStarts, Empty
  <2> QED
    BY <1>1, <1>2, <2>3 DEF Numbered
<1>3. CASE Len(tokens) > 0
  <2>1. file # Empty
    <3>1. text # <<>>
      <4>1. tokens # <<>>
        BY <1>3
      <4> QED
        BY <4>1 DEF Tight
    <3>2. Len(text) > 0
      <4>1. text \in Seq(Chars)
        BY DEF TypeOK
      <4> QED
        BY <3>1, <4>1
    <3> QED
      BY <1>1, <3>2
  <2> DEFINE n == Len(tokens)
  <2>2. PICK B, E : Lying(B, E)
    BY <1>3, <2>1, FileLined
  <2>3. Lined(n, B, E)
    BY <2>2 DEF Lying
  <2>4. \A k \in 1 .. n : B[k] \in 0 .. Len(file)
    BY <2>3 DEF Lined
  <2>5. LineStarts = {B[k] : k \in 1 .. n}
    BY <2>1, <2>3, StartsAre
  <2>6. \A k \in 1 .. n : Number(B[k]) = k
    BY <2>1, <2>3, NumbersAre
  <2>7. \A k \in 1 .. n : \A h \in 1 .. (k - 1) : B[h] < B[k]
    BY <2>3, LinesOrdered
  <2> HIDE DEF n
  <2>8. n \in Nat
    BY <1>1 DEF n
  <2>9. \A k, h \in 1 .. n : B[h] <= B[k] <=> h <= k
    <3> TAKE k, h \in 1 .. n
    <3>1. B[k] \in Nat /\ B[h] \in Nat
      BY <2>4
    <3>2. CASE h < k
      <4>1. h \in 1 .. (k - 1)
        BY <3>2
      <4> QED
        BY <2>7, <3>1, <3>2, <4>1
    <3>3. CASE h = k
      BY <3>1, <3>3
    <3>4. CASE h > k
      <4>1. k \in 1 .. (h - 1)
        BY <3>4
      <4> QED
        BY <2>7, <3>1, <3>4, <4>1
    <3> QED
      BY <3>2, <3>3, <3>4
  <2>10. \A s \in LineStarts : Number(s) \in 1 .. n /\ s = B[Number(s)]
    <3> TAKE s \in LineStarts
    <3>1. PICK k \in 1 .. n : s = B[k]
      BY <2>5
    <3> QED
      BY <2>6, <3>1
  <2>11. \A s, t \in LineStarts : s <= t <=> Number(s) <= Number(t)
    BY <2>9, <2>10
  <2>12. \A k \in 1 .. n : \E s \in LineStarts : Number(s) = k
    <3> TAKE k \in 1 .. n
    <3>1. B[k] \in LineStarts
      BY <2>5
    <3> QED
      BY <2>6, <3>1
  <2>13. LineStarts \subseteq 0 .. Len(file)
    BY <2>4, <2>5
  <2>14. Numbered(n)
    BY <2>8, <2>10, <2>11, <2>12, <2>13, Zenon DEF Numbered
  <2>15. ASSUME NEW s \in LineStarts, Number(s) <= i
         PROVE  \E x, y : Trims(LineFrom(s), x, y, LineText(Number(s)))
    <3> DEFINE k == Number(s)
    <3>1. k \in 1 .. i /\ s = B[k]
      BY <1>1, <2>8, <2>10, <2>15
    <3> HIDE DEF k
    <3>2. \E x, y : Trims(LineFrom(B[k]), x, y, LineText(k))
      BY <2>2, <3>1 DEF Lying
    <3>3. \E x, y : Trims(LineFrom(s), x, y, LineText(k))
      BY <3>1, <3>2
    <3> QED
      BY <3>3 DEF k
  <2> QED
    BY <2>14, <2>15 DEF n
<1> QED
  BY <1>1, <1>2, <1>3

-----------------------------------------------------------------------------
(* The lines up to number p, and those of them that give d a value.        *)
Before(p) == {s \in LineStarts : Number(s) <= p}
Gives(s, d) == ValuesOf(LineFrom(s), d) # {}
Setting(p, d) == {s \in Before(p) : Gives(s, d)}

LEMMA NextLine ==
  ASSUME NEW n, Numbered(n), NEW p \in Nat, p + 1 <= n
  PROVE  \E s \in LineStarts :
           /\ Number(s) = p + 1
           /\ Before(p + 1) = Before(p) \cup {s}
           /\ \A t \in Before(p) : t < s
           /\ s \in 0 .. Len(file) /\ Before(p) \subseteq 0 .. Len(file)
<1>1. /\ n \in Nat /\ LineStarts \subseteq 0 .. Len(file)
      /\ \A s \in LineStarts : Number(s) \in 1 .. n
      /\ \A s, t \in LineStarts : s <= t <=> Number(s) <= Number(t)
      /\ \A k \in 1 .. n : \E s \in LineStarts : Number(s) = k
  BY DEF Numbered
<1>2. p + 1 \in 1 .. n
  BY <1>1
<1>3. PICK s \in LineStarts : Number(s) = p + 1
  BY <1>1, <1>2
<1>4. \A t \in LineStarts : Number(t) <= p + 1 <=> t = s \/ Number(t) <= p
  <2> TAKE t \in LineStarts
  <2>1. Number(t) \in Int
    BY <1>1
  <2>2. Number(t) = p + 1 => t = s
    <3>1. Number(t) = p + 1 => t <= s /\ s <= t
      BY <1>1, <1>3
    <3>2. t \in 0 .. Len(file) /\ s \in 0 .. Len(file)
      BY <1>1
    <3> QED
      BY <3>1, <3>2
  <2> QED
    BY <1>3, <2>1, <2>2
<1>5. Before(p + 1) = Before(p) \cup {s}
  BY <1>3, <1>4 DEF Before
<1>6. \A t \in Before(p) : t < s
  <2> TAKE t \in Before(p)
  <2>1. t \in LineStarts /\ Number(t) <= p
    BY DEF Before
  <2>2. ~ (s <= t)
    <3>1. Number(t) \in Int
      BY <1>1, <2>1
    <3> QED
      BY <1>1, <1>3, <2>1, <3>1
  <2>3. t \in 0 .. Len(file) /\ s \in 0 .. Len(file)
    BY <1>1, <2>1
  <2> QED
    BY <2>2, <2>3
<1>7. s \in 0 .. Len(file) /\ Before(p) \subseteq 0 .. Len(file)
  BY <1>1 DEF Before
<1> QED
  BY <1>3, <1>5, <1>6, <1>7

Upto(S, u) == {t \in S : t <= u}

Tops(S, s) ==
  /\ Max(S \cup {s}) = s
  /\ Cardinality(S) \in Nat /\ Cardinality(S \cup {s}) = Cardinality(S) + 1
  /\ Upto(S \cup {s}, s) = S \cup {s}
  /\ \A u \in S : /\ Upto(S \cup {s}, u) = Upto(S, u)
                  /\ Cardinality(Upto(S, u)) \in 1 .. Cardinality(S)

(* A set of numbers and a greater one. *)
LEMMA Greater ==
  ASSUME NEW m \in Nat, NEW S, S \subseteq 0 .. m, NEW s \in 0 .. m, \A t \in S : t < s
  PROVE  Tops(S, s)
<1>1. IsFiniteSet(S) /\ Cardinality(S) \in Nat
  <2>1. IsFiniteSet(0 .. m)
    BY FS_Interval
  <2>2. IsFiniteSet(S)
    BY <2>1, FS_Subset
  <2> QED
    BY <2>2, FS_CardinalityType
<1>2. s \notin S /\ \A t \in S : t <= s /\ ~ (s <= t) /\ t \in Int
  OBVIOUS
<1>3. Cardinality(S \cup {s}) = Cardinality(S) + 1
  BY <1>1, <1>2, FS_AddElement
<1>4. Max(S \cup {s}) = s
  <2> DEFINE P == S \cup {s}
  <2>1. P \subseteq 0 .. m /\ P # {} /\ s \in P /\ \A t \in P : t <= s
    BY <1>2
  <2> HIDE DEF P
  <2>2. Max(P) \in P /\ \A t \in P : t <= Max(P)
    BY <2>1, Extremes
  <2>3. Max(P) <= s /\ s <= Max(P)
    BY <2>1, <2>2
  <2>4. Max(P) \in 0 .. m
    BY <2>1, <2>2, Zenon
  <2>5. Max(P) = s
    BY <2>3, <2>4
  <2> QED
    BY <2>5 DEF P
<1>5. Upto(S \cup {s}, s) = S \cup {s}
  <2>1. \A t \in S \cup {s} : t <= s
    BY <1>2
  <2> QED
    BY <2>1, Zenon DEF Upto
<1>6. ASSUME NEW u \in S
      PROVE  /\ Upto(S \cup {s}, u) = Upto(S, u)
             /\ Cardinality(Upto(S, u)) \in 1 .. Cardinality(S)
  <2> DEFINE T == Upto(S, u)
  <2>1. Upto(S \cup {s}, u) = T
    BY <1>2 DEF Upto
  <2>2. T \subseteq S /\ u \in T
    BY <1>2 DEF Upto
  <2> HIDE DEF T
  <2>3. IsFiniteSet(T) /\ Cardinality(T) <= Cardinality(S)
    BY <1>1, <2>2, FS_Subset
  <2>4. Cardinality(T) \in Nat /\ Cardinality(T) # 0
    BY <2>2, <2>3, FS_CardinalityType, FS_EmptySet
  <2>5. Cardinality(T) \in 1 .. Cardinality(S)
    BY <1>1, <2>3, <2>4
  <2> QED
    BY <2>1, <2>5 DEF T
<1>7. \A u \in S : /\ Upto(S \cup {s}, u) = Upto(S, u)
                  /\ Cardinality(Upto(S, u)) \in 1 .. Cardinality(S)
  BY <1>6, Zenon
<1> QED
  BY <1>1, <1>3, <1>4, <1>5, <1>7, Zenon DEF Tops

LEMMA StartsWithin ==
  ASSUME NEW C, file \in Seq(C)
  PROVE  LineStarts \subseteq 0 .. Len(file)
<1>1. Len(file) \in Nat
  OBVIOUS
<1>2. LineStarts \subseteq {0} \cup {p \in 1 .. Len(file) : Char(file, p) = Sep}
  BY Zenon DEF LineStarts, Places
<1> QED
  BY <1>1, <1>2

LEMMA LineFromSeq ==
  ASSUME NEW C, file \in Seq(C), NEW s \in LineStarts
  PROVE  LineFrom(s) \in Seq(C)
<1> DEFINE m == Len(file)
           P == {t - 1 : t \in {u \in LineStarts : u > s}} \cup {m}
<1>1. m \in Nat /\ LineStarts \subseteq 0 .. m /\ s \in 0 .. m
  BY StartsWithin
<1> HIDE DEF m
<1>2. ASSUME NEW t \in LineStarts, t > s PROVE t - 1 \in s .. m
  BY <1>1, <1>2
<1>3. P \subseteq s .. m /\ m \in P
  BY <1>1, <1>2
<1>4. P \subseteq 0 .. m /\ P # {}
  BY <1>1, <1>3
<1> HIDE DEF P
<1>5. Min(P) \in s .. m
  BY <1>1, <1>3, <1>4, Extremes
<1>6. s + 1 \in 1 .. (Len(file) + 1) /\ Min(P) \in ((s + 1) - 1) .. Len(file)
  BY <1>1, <1>5 DEF m
<1>7. SubSeq(file, s + 1, Min(P)) \in Seq(C)
  BY <1>6, PartIs
<1>8. LineFrom(s) = SubSeq(file, s + 1, Min(P))
  BY Zenon DEF LineFrom, P, m
<1> QED
  BY <1>7, <1>8

LEMMA NoneBefore ==
  ASSUME NEW C, file \in Seq(C)
  PROVE  Before(0) = {}
<1>1. ASSUME NEW s \in LineStarts PROVE ~ (Number(s) <= 0)
  <2> DEFINE T == {t \in LineStarts : t <= s}
  <2>1. Len(file) \in Nat /\ LineStarts \subseteq 0 .. Len(file)
    BY StartsWithin
  <2>2. T \subseteq 0 .. Len(file) /\ s \in T
    <3>1. s \in 0 .. Len(file)
      BY <2>1
    <3>2. s <= s
      BY <3>1
    <3> QED
      BY <2>1, <3>2
  <2> HIDE DEF T
  <2>3. IsFiniteSet(0 .. Len(file))
    BY <2>1, FS_Interval
  <2>4. IsFiniteSet(T)
    BY <2>2, <2>3, FS_Subset
  <2>5. Cardinality(T) \in Nat /\ Cardinality(T) # 0
    BY <2>2, <2>4, FS_CardinalityType, FS_EmptySet
  <2>6. Number(s) = Cardinality(T)
    BY DEF Number, T
  <2> QED
    BY <2>5, <2>6
<1> QED
  BY <1>1 DEF Before

-----------------------------------------------------------------------------
(* What the options g are when the lines up to number p have been dealt    *)
(* with, read off the file.                                                *)
Good(s) ==
  \/ Says(LineFrom(s)) = "nothing"
  \/ Says(LineFrom(s)) = "something" /\ \E d \in Directives : Gives(s, d)

Val(s, d) == CHOOSE v \in ValuesOf(LineFrom(s), d) : TRUE

LastOf(g, p, d) ==
  g[d] = IF Setting(p, d) = {} THEN initConfig[d] ELSE Value(d, Val(Max(Setting(p, d)), d))

AllOf(g, p, d) ==
  /\ g[d] \in Seq(STRING)
  /\ Len(g[d]) = Cardinality(Setting(p, d))
  /\ \A s \in Setting(p, d) : g[d][Cardinality(Upto(Setting(p, d), s))] = Val(s, d)

Answers(g, p) ==
  /\ \A s \in Before(p) : Good(s)
  /\ DOMAIN g = Directives /\ g = [d \in Directives |-> g[d]]
  /\ \A d \in Directives \ Lists : LastOf(g, p, d)
  /\ \A d \in Lists : AllOf(g, p, d)

LEMMA AnswersNone ==
  ASSUME NEW C, file \in Seq(C)
  PROVE  Answers(initConfig, 0)
<1>1. Before(0) = {}
  BY NoneBefore
<1>2. \A d : Setting(0, d) = {}
  BY <1>1 DEF Setting
<1>3. DOMAIN initConfig = Directives /\ initConfig = [d \in Directives |-> initConfig[d]]
  <2> DEFINE opt(d) == CASE d = "max_job_num" -> 10
                         [] d = "max_depth" -> INF
                         [] d \in {"log_level", "stat_interval", "make_hostdir"} -> 0
                         [] d \in Texts -> Null
                         [] d \in Lists -> <<>>
  <2>1. initConfig = [d \in Directives |-> opt(d)]
    BY Zenon DEF initConfig
  <2> HIDE DEF opt
  <2> QED
    BY <2>1
<1>4. \A d \in Lists : initConfig[d] = <<>>
  <2>1. initConfig["load_module"] = <<>> /\ initConfig["accept_types"] = <<>>
    BY DEF initConfig, Directives, Lists, Texts, Numbers
  <2> QED
    BY <2>1 DEF Lists
<1>5. \A d \in Lists : AllOf(initConfig, 0, d)
  <2> TAKE d \in Lists
  <2>1. initConfig[d] = <<>> /\ Setting(0, d) = {} /\ Cardinality({}) = 0
    BY <1>2, <1>4, FS_EmptySet
  <2>2. Len(<<>>) = 0 /\ <<>> \in Seq(STRING)
    OBVIOUS
  <2> QED
    BY <2>1, <2>2 DEF AllOf
<1>6. \A d \in Directives \ Lists : LastOf(initConfig, 0, d)
  BY <1>2, Zenon DEF LastOf
<1> QED
  BY <1>1, <1>3, <1>5, <1>6 DEF Answers

(* A line that says nothing changes nothing. *)
LEMMA AnswersSame ==
  ASSUME NEW C, STRING = Seq(C), file \in Seq(C), NEW n, Numbered(n), NEW p \in Nat, p + 1 <= n,
         NEW g, Answers(g, p),
         \A s \in LineStarts : Number(s) = p + 1 => Says(LineFrom(s)) = "nothing"
  PROVE  Answers(g, p + 1)
<1>1. PICK s \in LineStarts : Number(s) = p + 1 /\ Before(p + 1) = Before(p) \cup {s}
  BY NextLine
<1>2. Says(LineFrom(s)) = "nothing" /\ LineFrom(s) \in Seq(C)
  BY <1>1, LineFromSeq
<1>3. \A d \in Directives : ~ Gives(s, d)
  <2> TAKE d \in Directives
  <2>1. ValuesOf(LineFrom(s), d) = {}
    BY <1>2, NothingSaid
  <2> QED
    BY <2>1 DEF Gives
<1>4. \A d \in Directives : Setting(p + 1, d) = Setting(p, d)
  BY <1>1, <1>3 DEF Setting
<1>5. \A d \in Directives \ Lists : LastOf(g, p + 1, d)
  <2> TAKE d \in Directives \ Lists
  <2>1. LastOf(g, p, d) /\ Setting(p + 1, d) = Setting(p, d)
    BY <1>4 DEF Answers
  <2> QED
    BY <2>1, Zenon DEF LastOf
<1>6. \A d \in Lists : AllOf(g, p + 1, d)
  <2> TAKE d \in Lists
  <2>1. d \in Directives
    BY DEF Directives
  <2>2. AllOf(g, p, d) /\ Setting(p + 1, d) = Setting(p, d)
    BY <1>4, <2>1 DEF Answers
  <2> QED
    BY <2>2, Zenon DEF AllOf
<1>7. \A t \in Before(p + 1) : Good(t)
  BY <1>1, <1>2 DEF Answers, Good
<1>8. DOMAIN g = Directives /\ g = [d \in Directives |-> g[d]]
  BY Zenon DEF Answers
<1> QED
  BY <1>5, <1>6, <1>7, <1>8, Zenon DEF Answers

LEMMA Appended ==
  ASSUME NEW D, NEW l \in Seq(D), NEW v \in D
  PROVE  /\ Append(l, v) \in Seq(D) /\ Len(Append(l, v)) = Len(l) + 1
         /\ \A k \in 1 .. Len(l) : Append(l, v)[k] = l[k]
         /\ Append(l, v)[Len(l) + 1] = v
  BY AppendProperties

(* A line that gives one directive a value sets that one. *)
LEMMA AnswersMore ==
  ASSUME NEW C, STRING = Seq(C), file \in Seq(C), NEW n, Numbered(n), NEW p \in Nat, p + 1 <= n,
         NEW g, Answers(g, p), NEW e \in Directives, NEW v \in STRING,
         \A s \in LineStarts : Number(s) = p + 1 =>
           /\ Good(s)
           /\ \A d \in Directives : Gives(s, d) <=> d = e
           /\ Val(s, e) = v
  PROVE  Answers([g EXCEPT ![e] = IF e \in Lists THEN Append(@, v) ELSE Value(e, v)], p + 1)
<1> DEFINE m == Len(file)
           w == IF e \in Lists THEN Append(g[e], v) ELSE Value(e, v)
           h == [g EXCEPT ![e] = w]
<1>1. PICK s \in LineStarts :
        /\ Number(s) = p + 1 /\ Before(p + 1) = Before(p) \cup {s}
        /\ \A t \in Before(p) : t < s
        /\ s \in 0 .. m /\ Before(p) \subseteq 0 .. m
  BY NextLine
<1>2. Good(s) /\ (\A d \in Directives : Gives(s, d) <=> d = e) /\ Val(s, e) = v
  BY <1>1
<1>3. \A d \in Directives : d # e => Setting(p + 1, d) = Setting(p, d)
  BY <1>1, <1>2 DEF Setting
<1>4. Setting(p + 1, e) = Setting(p, e) \cup {s}
  BY <1>1, <1>2 DEF Setting
<1> DEFINE S == Setting(p, e)
<1>5. m \in Nat /\ S \subseteq 0 .. m /\ \A t \in S : t < s
  BY <1>1 DEF Setting
<1> HIDE DEF m, S
<1>6. /\ Max(S \cup {s}) = s
      /\ Cardinality(S) \in Nat /\ Cardinality(S \cup {s}) = Cardinality(S) + 1
      /\ Upto(S \cup {s}, s) = S \cup {s}
      /\ \A u \in S : /\ Upto(S \cup {s}, u) = Upto(S, u)
                      /\ Cardinality(Upto(S, u)) \in 1 .. Cardinality(S)
  <2>1. Tops(S, s)
    BY <1>1, <1>5, Greater
  <2> QED
    BY <2>1, Zenon DEF Tops
<1>7. DOMAIN g = Directives /\ g = [d \in Directives |-> g[d]]
  BY Zenon DEF Answers
<1>8. /\ DOMAIN h = Directives /\ h = [d \in Directives |-> h[d]]
      /\ h[e] = w /\ \A d \in Directives : d # e => h[d] = g[d]
  <2> HIDE DEF w
  <2> QED
    BY <1>7
<1> HIDE DEF h
<1>9. ASSUME NEW d \in Directives \ Lists PROVE LastOf(h, p + 1, d)
  <2>1. CASE d = e
    <3>1. h[d] = Value(e, v)
      BY <1>8, <1>9, <2>1
    <3>2. Setting(p + 1, d) = S \cup {s}
      BY <1>4, <2>1 DEF S
    <3>3. Setting(p + 1, d) # {} /\ Max(Setting(p + 1, d)) = s
      BY <1>6, <3>2
    <3> QED
      BY <1>2, <2>1, <3>1, <3>3, Zenon DEF LastOf
  <2>2. CASE d # e
    <3>1. LastOf(g, p, d) /\ Setting(p + 1, d) = Setting(p, d) /\ h[d] = g[d]
      BY <1>3, <1>8, <2>2 DEF Answers
    <3> QED
      BY <3>1, Zenon DEF LastOf
  <2> QED
    BY <2>1, <2>2
<1>10. ASSUME NEW d \in Lists PROVE AllOf(h, p + 1, d)
  <2>0. d \in Directives /\ AllOf(g, p, d)
    BY DEF Directives, Answers
  <2>1. CASE d = e
    <3> DEFINE l == g[e]
    <3>0. AllOf(g, p, e)
      BY <2>0, <2>1
    <3>1. l \in Seq(STRING) /\ Len(l) = Cardinality(S)
          /\ \A u \in S : l[Cardinality(Upto(S, u))] = Val(u, e)
      BY <3>0, Zenon DEF AllOf, S
    <3>2. h[d] = Append(l, v) /\ Setting(p + 1, d) = S \cup {s}
      BY <1>4, <1>8, <1>10, <2>1 DEF S
    <3> HIDE DEF l
    <3>3. /\ Append(l, v) \in Seq(STRING) /\ Len(Append(l, v)) = Len(l) + 1
          /\ \A k \in 1 .. Len(l) : Append(l, v)[k] = l[k]
          /\ Append(l, v)[Len(l) + 1] = v
      <4> DEFINE D == STRING
      <4>1. l \in Seq(D) /\ v \in D
        BY <3>1, Zenon
      <4> HIDE DEF D
      <4>2. /\ Append(l, v) \in Seq(D) /\ Len(Append(l, v)) = Len(l) + 1
            /\ \A k \in 1 .. Len(l) : Append(l, v)[k] = l[k]
            /\ Append(l, v)[Len(l) + 1] = v
        BY ONLY <4>1, Appended, Zenon
      <4> QED
        BY <4>2 DEF D
    <3>4. \A u \in S \cup {s} : Append(l, v)[Cardinality(Upto(S \cup {s}, u))] = Val(u, e)
      <4> TAKE u \in S \cup {s}
      <4>1. CASE u = s
        BY <1>2, <1>6, <3>1, <3>3, <4>1
      <4>2. CASE u \in S
        <5>1. Upto(S \cup {s}, u) = Upto(S, u)
          BY <1>6, <4>2
        <5>2. Cardinality(Upto(S, u)) \in 1 .. Len(l)
          BY <1>6, <3>1, <4>2
        <5>3. l[Cardinality(Upto(S, u))] = Val(u, e)
          BY <3>1, <4>2
        <5> DEFINE k == Cardinality(Upto(S, u))
        <5>4. Append(l, v)[k] = l[k]
          <6> HIDE DEF k
          <6>1. k \in 1 .. Len(l)
            BY <5>2 DEF k
          <6> QED
            BY <3>3, <6>1
        <5> QED
          BY <5>1, <5>3, <5>4
      <4> QED
        BY <4>1, <4>2
    <3>5. Len(Append(l, v)) = Cardinality(S \cup {s})
      BY <1>6, <3>1, <3>3
    <3> QED
      BY <2>1, <3>2, <3>3, <3>4, <3>5, Zenon DEF AllOf
  <2>2. CASE d # e
    <3>1. Setting(p + 1, d) = Setting(p, d) /\ h[d] = g[d]
      BY <1>3, <1>8, <2>0, <2>2
    <3> QED
      BY <2>0, <3>1, Zenon DEF AllOf
  <2> QED
    BY <2>1, <2>2
<1>11. \A t \in Before(p + 1) : Good(t)
  BY <1>1, <1>2 DEF Answers
<1>12. Answers(h, p + 1)
  BY <1>8, <1>9, <1>10, <1>11, Zenon DEF Answers
<1> QED
  BY <1>12 DEF h

-----------------------------------------------------------------------------
(* The string is what was read of the file: all of it before it is split.  *)
SoFar ==
  /\ file \in Files
  /\ Len(text) <= Len(Chopped(file)) /\ text = SubSeq(Chopped(file), 1, Len(text))
  /\ pc \notin {"read", "eof"} => text = Chopped(file)

(* A line is dealt with before the next one is trimmed. *)
Pacing ==
  /\ parsed \in Nat
  /\ pc # "lines" => parsed = i
  /\ pc = "lines" => parsed = i \/ parsed + 1 = i
  /\ pc = "done" => i = Len(tokens)

AtLine == pc = "lines" /\ parsed + 1 = i

(* argv is of the line trimmed last, and so is what stopped the process.   *)
Handling ==
  /\ argv # Null => /\ AtLine /\ ~Comment(LineText(i)) /\ ~Quoted(LineText(i))
                    /\ argv = cssplitargs(LineText(i))
  /\ state \in {"on", "exit", "hang"}
  /\ state = "hang" => AtLine /\ ~Comment(LineText(i)) /\ Quoted(LineText(i))
  /\ state = "exit" => argv # Null /\ argv # <<>> /\ ~Sets(argv)

Underway == SoFar /\ Pacing /\ Handling

LEMMA UnderwayInit == ConfigInit => Underway
<1> SUFFICES ASSUME ConfigInit PROVE Underway
  OBVIOUS
<1>1. /\ pc = "read" /\ text = <<>> /\ i = 0 /\ parsed = 0 /\ argv = Null /\ state = "on"
      /\ file \in Files
  BY DEF ConfigInit, Init
<1> DEFINE F == Chopped(file)
<1>2. F \in Seq(Chars)
  BY <1>1
<1> HIDE DEF F
<1>3. /\ SubSeq(F, 1, 0) \in Seq(Chars) /\ Len(SubSeq(F, 1, 0)) = 0
  <2>1. 0 \in 0 .. Len(F)
    BY <1>2
  <2> QED
    BY <1>2, <2>1, UpToIs
<1>4. text = SubSeq(F, 1, Len(text)) /\ Len(text) <= Len(F)
  <2> DEFINE u == SubSeq(F, 1, 0)
  <2> HIDE DEF u
  <2>1. u = <<>>
    BY <1>3 DEF u
  <2> QED
    BY <1>1, <1>2, <2>1 DEF u
<1>5. SoFar
  BY <1>1, <1>4, Zenon DEF SoFar, F
<1> QED
  BY <1>1, <1>5 DEF Underway, Pacing, Handling

LEMMA FgetsMore ==
  ASSUME NEW f \in Seq(Chars), NEW n \in Nat, text = SubSeq(f, 1, Len(text)),
         Len(text) \in Nat, Len(text) + n <= Len(f)
  PROVE  /\ text \o SubSeq(f, Len(text) + 1, Len(text) + n) = SubSeq(f, 1, Len(text) + n)
         /\ Len(SubSeq(f, 1, Len(text) + n)) = Len(text) + n
<1> DEFINE k == Len(text)
           m == k + n
<1>1. 1 \in 1 .. (Len(f) + 1) /\ k \in (1 - 1) .. Len(f) /\ m \in k .. Len(f) /\ m \in 0 .. Len(f)
  OBVIOUS
<1> HIDE DEF k, m
<1>2. SubSeq(f, 1, k) \o SubSeq(f, k + 1, m) = SubSeq(f, 1, m)
  BY <1>1, ConcatAdjacentSubSeq
<1>3. Len(SubSeq(f, 1, m)) = m
  BY <1>1, UpToIs
<1> QED
  BY <1>2, <1>3 DEF k, m

LEMMA SoFarStep ==
  ASSUME TypeOK, SoFar, Handling, ConfigNext
  PROVE  SoFar'
<1> DEFINE F == Chopped(file)
<1>1. F \in Seq(Chars) /\ file \in Files /\ Len(text) \in Nat
  BY DEF SoFar, TypeOK
<1>2. file' = file
  BY DEF ConfigNext, StringStep, confVars, SkipComment, Hang, SplitArgs, SkipBlank, SetOption, BadLine
<1>3. CASE Fgets
  <2>1. PICK n \in 1 .. CONFIGLINE_MAX :
          Len(text) + n <= Len(F) /\ Read(SubSeq(F, Len(text) + 1, Len(text) + n))
    BY <1>3 DEF Fgets
  <2>2. text' = text \o SubSeq(F, Len(text) + 1, Len(text) + n) /\ pc' \in {"read", "eof"}
    BY <2>1 DEF Read
  <2>3. n \in Nat /\ text = SubSeq(F, 1, Len(text))
    BY <2>1 DEF SoFar
  <2> HIDE DEF F
  <2>4. text' = SubSeq(F, 1, Len(text) + n) /\ Len(text') = Len(text) + n
    BY <1>1, <2>1, <2>2, <2>3, FgetsMore
  <2>5. Len(text') <= Len(F) /\ text' = SubSeq(F, 1, Len(text'))
    BY <2>1, <2>4
  <2> QED
    BY <1>1, <1>2, <2>2, <2>5 DEF SoFar, F
<1>4. CASE Eof
  <2>1. Len(text) = Len(F) /\ text' = text /\ text = SubSeq(F, 1, Len(text))
    BY <1>4 DEF Eof, BeginSplit, fileVars, SoFar
  <2> HIDE DEF F
  <2>2. SubSeq(F, 1, Len(F)) = F
    BY <1>1, SubSeqFull
  <2>3. text' = F /\ Len(text') <= Len(F) /\ text' = SubSeq(F, 1, Len(text'))
    BY <1>1, <2>1, <2>2
  <2> QED
    BY <1>1, <1>2, <2>3 DEF SoFar, F
<1>5. CASE ~Fgets /\ ~Eof
  <2>1. CASE StringStep
    <3>1. text' = text /\ pc \notin {"read", "eof"}
      BY <1>5, <2>1 DEF StringStep, SplitChar, SplitLast, BeginTrim, TrimLeft, TrimRight,
                        TrimDone, Finish, fileVars
    <3> QED
      BY <1>2, <3>1 DEF SoFar
  <2>2. CASE SkipComment \/ Hang \/ SplitArgs \/ SkipBlank \/ SetOption \/ BadLine
    <3>1. UNCHANGED vars /\ (LineReady \/ LineSplit)
      BY <2>2 DEF SkipComment, Hang, SplitArgs, SkipBlank, SetOption, BadLine
    <3>2. text' = text /\ pc = "lines"
      BY <3>1 DEF LineReady, LineSplit, Handling, AtLine, vars, fileVars
    <3> QED
      BY <1>2, <3>2 DEF SoFar
  <2> QED
    BY <2>1, <2>2 DEF ConfigNext
<1> QED
  BY <1>3, <1>4, <1>5

LEMMA HandlingSame ==
  ASSUME Handling, argv = Null, state = "on", UNCHANGED confVars
  PROVE  Handling'
  BY DEF Handling, confVars

LEMMA PacingStep ==
  ASSUME TypeOK, Tight, Pacing, Handling, ConfigNext
  PROVE  Pacing'
<1>1. i \in Nat /\ parsed \in Nat
  BY DEF TypeOK, Pacing
<1>2. CASE StringStep
  <2>1. parsed' = parsed
    BY <1>2 DEF StringStep, confVars
  <2>2. CASE Fgets \/ Eof \/ SplitChar \/ SplitLast
    <3>1. i' = i /\ pc' \in {"read", "eof", "split", "lines"} /\ pc \in {"read", "eof", "split"}
      BY <2>2 DEF Fgets, Read, Eof, BeginSplit, SplitChar, SplitLast, trimVars
    <3> QED
      BY <1>1, <2>1, <3>1 DEF Pacing
  <2>3. CASE parsed = i /\ BeginTrim
    <3>1. i' = i /\ pc' = "left"
      BY <2>3 DEF BeginTrim
    <3> QED
      BY <1>1, <2>1, <2>3, <3>1 DEF Pacing
  <2>4. CASE TrimLeft \/ TrimRight
    <3>1. i' = i /\ pc' \in {"left", "right"} /\ pc \in {"left", "right"}
      BY <2>4 DEF TrimLeft, TrimRight
    <3> QED
      BY <1>1, <2>1, <3>1 DEF Pacing
  <2>5. CASE TrimDone
    <3>1. i' = i + 1 /\ pc' = "lines" /\ pc = "right"
      BY <2>5 DEF TrimDone
    <3> QED
      BY <1>1, <2>1, <3>1 DEF Pacing
  <2>6. CASE parsed = i /\ Finish
    <3>1. i' = i /\ pc' = "done" /\ i = Len(tokens) /\ tokens' = tokens
      BY <2>6 DEF Finish, splitVars, trimVars
    <3> QED
      BY <1>1, <2>1, <2>6, <3>1 DEF Pacing
  <2> QED
    BY <1>2, <2>2, <2>3, <2>4, <2>5, <2>6 DEF StringStep
<1>3. CASE SkipComment \/ Hang \/ SplitArgs \/ SkipBlank \/ SetOption \/ BadLine
  <2>1. UNCHANGED vars /\ (LineReady \/ LineSplit) /\ (parsed' = parsed \/ parsed' = i)
    BY <1>3 DEF SkipComment, Hang, SplitArgs, SkipBlank, SetOption, BadLine
  <2>2. i' = i /\ pc' = pc /\ pc = "lines"
    BY <2>1 DEF LineReady, LineSplit, Handling, AtLine, vars, trimVars
  <2> QED
    BY <1>1, <2>1, <2>2 DEF Pacing
<1> QED
  BY <1>2, <1>3 DEF ConfigNext

LEMMA HandlingStep ==
  ASSUME TypeOK, Pacing, Handling, ConfigNext
  PROVE  Handling'
<1>1. i \in Nat /\ parsed \in Nat
  BY DEF TypeOK, Pacing
<1>2. CASE StringStep
  <2>1. state = "on" /\ UNCHANGED confVars
    BY <1>2 DEF StringStep
  <2>2. pc # "lines" \/ parsed = i
    BY <1>2 DEF StringStep, Fgets, Read, Eof, BeginSplit, SplitChar, SplitLast, TrimLeft,
                TrimRight, TrimDone
  <2>3. ~ AtLine
    BY <1>1, <2>2 DEF AtLine
  <2>4. argv = Null
    BY <2>3 DEF Handling
  <2> QED
    BY <2>1, <2>4, HandlingSame
<1>3. ASSUME LineReady, UNCHANGED vars PROVE AtLine /\ argv = Null /\ state = "on"
  BY <1>1, <1>3 DEF LineReady, Pacing, AtLine
<1>4. ASSUME UNCHANGED vars PROVE /\ pc' = pc /\ i' = i
                                  /\ LineText(i)' = LineText(i)
  BY <1>4 DEF LineText, vars, fileVars, splitVars, trimVars
<1>5. CASE SkipComment
  <2>1. argv' = Null /\ state' = "on"
    BY <1>5, <1>3 DEF SkipComment
  <2> QED
    BY <2>1 DEF Handling
<1>6. CASE Hang
  <2>1. /\ AtLine /\ argv' = Null /\ state' = "hang" /\ parsed' = parsed /\ UNCHANGED vars
        /\ ~Comment(LineText(i)) /\ Quoted(LineText(i))
    BY <1>6, <1>3 DEF Hang
  <2>2. pc' = pc /\ i' = i /\ LineText(i)' = LineText(i)
    BY <1>4, <2>1
  <2> QED
    BY <2>1, <2>2 DEF Handling, AtLine
<1>7. CASE SplitArgs
  <2>1. /\ AtLine /\ state' = "on" /\ parsed' = parsed /\ UNCHANGED vars
        /\ ~Comment(LineText(i)) /\ ~Quoted(LineText(i)) /\ argv' = cssplitargs(LineText(i))
    BY <1>7, <1>3 DEF SplitArgs
  <2>2. pc' = pc /\ i' = i /\ LineText(i)' = LineText(i)
    BY <1>4, <2>1
  <2> QED
    BY <2>1, <2>2 DEF Handling, AtLine
<1>8. CASE SkipBlank \/ SetOption
  <2>1. argv' = Null /\ state' = "on"
    BY <1>8 DEF SkipBlank, SetOption, LineSplit
  <2> QED
    BY <2>1 DEF Handling
<1>9. CASE BadLine
  <2>1. /\ state' = "exit" /\ argv' = argv /\ parsed' = parsed /\ UNCHANGED vars
        /\ argv # Null /\ argv # <<>> /\ ~Sets(argv)
    BY <1>9 DEF BadLine, LineSplit
  <2>2. pc' = pc /\ i' = i /\ LineText(i)' = LineText(i)
    BY <1>4, <2>1
  <2> QED
    BY <2>1, <2>2 DEF Handling, AtLine
<1> QED
  BY <1>2, <1>5, <1>6, <1>7, <1>8, <1>9 DEF ConfigNext

LEMMA AnswersFile ==
  ASSUME file' = file, NEW g, NEW p
  PROVE  Answers(g, p)' <=> Answers(g, p)
<1>1. LineStarts' = LineStarts
  BY DEF LineStarts
<1>2. \A s : LineFrom(s)' = LineFrom(s) /\ Number(s)' = Number(s)
  BY <1>1 DEF LineFrom, Number
<1>3. Before(p)' = Before(p)
  BY <1>1, <1>2 DEF Before
<1>4. \A s, d : (Gives(s, d)' <=> Gives(s, d)) /\ Val(s, d)' = Val(s, d)
  BY <1>2 DEF Gives, Val
<1>5. \A d : Setting(p, d)' = Setting(p, d)
  BY <1>3, <1>4 DEF Setting
<1>6. \A s : Good(s)' <=> Good(s)
  BY <1>2, <1>4 DEF Good
<1>7. \A d : LastOf(g, p, d)' <=> LastOf(g, p, d)
  BY <1>4, <1>5 DEF LastOf
<1>8. \A d : AllOf(g, p, d)' <=> AllOf(g, p, d)
  BY <1>4, <1>5 DEF AllOf
<1> QED
  BY <1>3, <1>6, <1>7, <1>8 DEF Answers

(* The line that has been trimmed last, in the file. *)
LEMMA LineMeans ==
  ASSUME NEW C, STRING = Seq(C), TypeOK, Shape, Tight, Underway,
         pc \in {"lines", "left", "right", "done"}
  PROVE  /\ file \in Seq(C) /\ Numbered(Len(tokens))
         /\ \A s \in LineStarts : LineFrom(s) \in Seq(C)
         /\ \A s \in LineStarts : Number(s) = i =>
              \E x, y : Trims(LineFrom(s), x, y, LineText(i))
<1>1. file \in Seq(C)
  <2>1. file \in STRING
    BY FilesAssumption, Zenon DEF Underway, SoFar
  <2> QED
    BY <2>1, Zenon
<1>2. Letters(C)
  BY LettersSpelt
<1>3. text = Chopped(file) /\ i \in Nat
  BY DEF Underway, SoFar, TypeOK
<1>4. /\ Numbered(Len(tokens))
      /\ \A s \in LineStarts : Number(s) <= i =>
           \E x, y : Trims(LineFrom(s), x, y, LineText(Number(s)))
  BY <1>1, <1>2, <1>3, LinesNumbered
<1>5. \A s \in LineStarts : LineFrom(s) \in Seq(C)
  BY <1>1, LineFromSeq
<1>6. ASSUME NEW s \in LineStarts, Number(s) = i
      PROVE  \E x, y : Trims(LineFrom(s), x, y, LineText(i))
  <2>1. Number(s) <= i
    BY <1>3, <1>6
  <2> QED
    BY <1>4, <1>6, <2>1
<1> QED
  BY <1>1, <1>4, <1>5, <1>6

LEMMA AnswersStep ==
  ASSUME NEW C, STRING = Seq(C), TypeOK, Shape, Tight, Underway, Answers(g_conf, parsed),
         ConfigNext
  PROVE  Answers(g_conf, parsed)'
<1>1. file' = file
  BY DEF ConfigNext, StringStep, confVars, SkipComment, Hang, SplitArgs, SkipBlank, SetOption,
         BadLine
<1>2. SUFFICES Answers(g_conf', parsed')
  BY <1>1, AnswersFile
<1>3. CASE UNCHANGED <<g_conf, parsed>>
  BY <1>3
<1>4. ASSUME pc = "lines", parsed < i
      PROVE  /\ parsed + 1 = i /\ parsed \in Nat /\ parsed + 1 <= Len(tokens)
             /\ file \in Seq(C) /\ Numbered(Len(tokens))
             /\ \A s \in LineStarts : LineFrom(s) \in Seq(C)
             /\ \A s \in LineStarts : Number(s) = parsed + 1 =>
                  \E x, y : Trims(LineFrom(s), x, y, LineText(i))
  <2>1. parsed + 1 = i /\ parsed \in Nat /\ i \in Nat /\ i <= Len(tokens)
    BY <1>4 DEF Underway, Pacing, Tight, TypeOK
  <2>2. /\ file \in Seq(C) /\ Numbered(Len(tokens))
        /\ \A s \in LineStarts : LineFrom(s) \in Seq(C)
        /\ \A s \in LineStarts : Number(s) = i =>
             \E x, y : Trims(LineFrom(s), x, y, LineText(i))
    BY <1>4, LineMeans
  <2> QED
    BY <2>1, <2>2
<1>5. CASE SkipComment
  <2>1. /\ pc = "lines" /\ parsed < i /\ Comment(LineText(i))
        /\ parsed' = i /\ g_conf' = g_conf
    BY <1>5 DEF SkipComment, LineReady
  <2>2. ASSUME NEW s \in LineStarts, Number(s) = parsed + 1
        PROVE  Says(LineFrom(s)) = "nothing"
    <3>1. PICK x, y : Trims(LineFrom(s), x, y, LineText(i))
      BY <1>4, <2>1, <2>2
    <3>2. LineFrom(s) \in Seq(C)
      BY <1>4, <2>1
    <3> QED
      BY <2>1, <3>1, <3>2, SaysIs
  <2>3. Answers(g_conf, parsed + 1)
    BY <1>4, <2>1, <2>2, AnswersSame
  <2> QED
    BY <1>4, <2>1, <2>3
<1>6. ASSUME argv # Null
      PROVE  /\ pc = "lines" /\ parsed < i
             /\ ~Comment(LineText(i)) /\ ~Quoted(LineText(i)) /\ argv = cssplitargs(LineText(i))
  BY <1>6 DEF Underway, Handling, AtLine, Pacing, TypeOK
<1>7. CASE SkipBlank
  <2>1. argv # Null /\ argv = <<>> /\ parsed' = i /\ g_conf' = g_conf
    BY <1>7 DEF SkipBlank, LineSplit
  <2>2. ASSUME NEW s \in LineStarts, Number(s) = parsed + 1
        PROVE  Says(LineFrom(s)) = "nothing"
    <3>1. PICK x, y : Trims(LineFrom(s), x, y, LineText(i))
      BY <1>4, <1>6, <2>1, <2>2
    <3>2. LineFrom(s) \in Seq(C)
      BY <1>4, <1>6, <2>1
    <3>3. cssplitargs(LineText(i)) = <<>> /\ ~Comment(LineText(i)) /\ ~Quoted(LineText(i))
      BY <1>6, <2>1
    <3> QED
      BY <3>1, <3>2, <3>3, SaysIs
  <2>3. Answers(g_conf, parsed + 1)
    BY <1>4, <1>6, <2>1, <2>2, AnswersSame
  <2> QED
    BY <1>4, <1>6, <2>1, <2>3
<1>8. CASE SetOption
  <2>1. argv # Null /\ Sets(argv) /\ parsed' = i
    BY <1>8 DEF SetOption, LineSplit
  <2>2. PICK e \in Directives :
          /\ strcasecmp(argv[1], e)
          /\ g_conf' = [g_conf EXCEPT ![e] =
                          IF e \in Lists THEN Append(@, argv[2]) ELSE Value(e, argv[2])]
    BY <1>8 DEF SetOption
  <2> DEFINE t == LineText(i)
  <2>3. /\ Len(argv) = 2 /\ argv = cssplitargs(t) /\ argv # <<>>
        /\ ~Comment(t) /\ ~Quoted(t)
    <3>1. Len(argv) = 2
      BY <2>1, Zenon DEF Sets
    <3>2. argv # <<>>
      <4>1. Len(<<>>) = 0
        BY ONLY TRUE
      <4> QED
        BY ONLY <3>1, <4>1
    <3> QED
      BY <1>6, <2>1, <3>1, <3>2
  <2>4. ASSUME NEW s \in LineStarts, Number(s) = parsed + 1
        PROVE  /\ Good(s)
               /\ \A d \in Directives : Gives(s, d) <=> d = e
               /\ Val(s, e) = argv[2] /\ argv[2] \in STRING
    <3>1. PICK x, y : Trims(LineFrom(s), x, y, t)
      BY <1>4, <1>6, <2>1, <2>4
    <3>2. LineFrom(s) \in Seq(C)
      BY <1>4, <1>6, <2>1
    <3> HIDE DEF t
    <3> DEFINE l == LineFrom(s)
    <3> HIDE DEF l
    <3>3. Says(l) = "something"
      BY <2>3, <3>1, <3>2, SaysIs DEF l
    <3>4. \A d \in Directives :
            /\ ValuesOf(l, d) # {} <=> strcasecmp(argv[1], d)
            /\ ValuesOf(l, d) # {} => ValuesOf(l, d) = {argv[2]}
      <4> TAKE d \in Directives
      <4>1. /\ ValuesOf(l, d) # {} <=> Len(cssplitargs(t)) = 2 /\ strcasecmp(cssplitargs(t)[1], d)
            /\ ValuesOf(l, d) # {} => ValuesOf(l, d) = {cssplitargs(t)[2]}
        BY <3>1, <3>2, ValuesTrim DEF l
      <4> QED
        BY <2>3, <4>1
    <3>5. \A d \in Directives : strcasecmp(argv[1], d) <=> d = e
      BY <2>2, OneDirective
    <3>6. \A d \in Directives : Gives(s, d) <=> d = e
      BY <3>4, <3>5 DEF Gives, l
    <3>7. Val(s, e) = argv[2]
      <4>1. ValuesOf(l, e) = {argv[2]}
        BY <3>4, <3>5
      <4> QED
        BY <4>1 DEF Val, l
    <3>8. Good(s)
      BY <3>3, <3>6 DEF Good, l
    <3>9. argv[2] \in STRING
      <4>1. t \in Seq(C)
        BY <3>1, <3>2, TrimIs
      <4>2. cssplitargs(t) \in Seq(STRING)
        BY <4>1, ArgsPair
      <4> DEFINE D == STRING
      <4> HIDE DEF D
      <4>3. argv \in Seq(D) /\ Len(argv) = 2
        BY <2>3, <4>2 DEF D
      <4>4. 2 \in 1 .. Len(argv)
        BY <4>3
      <4>5. argv[2] \in D
        BY <4>3, <4>4, ElementOfSeq
      <4> QED
        BY <4>5 DEF D
    <3> QED
      BY <3>6, <3>7, <3>8, <3>9
  <2>5. \E s \in LineStarts : Number(s) = parsed + 1
    BY <1>4, <1>6, <2>1, NextLine
  <2> DEFINE v == argv[2]
  <2>6. v \in STRING
    BY <2>4, <2>5
  <2>7. \A s \in LineStarts : Number(s) = parsed + 1 =>
          Good(s) /\ (\A d \in Directives : Gives(s, d) <=> d = e) /\ Val(s, e) = v
    BY <2>4
  <2> HIDE DEF v
  <2>8. Answers([g_conf EXCEPT ![e] = IF e \in Lists THEN Append(@, v) ELSE Value(e, v)], parsed + 1)
    BY <1>4, <1>6, <2>1, <2>6, <2>7, AnswersMore
  <2> QED
    BY <1>4, <1>6, <2>1, <2>2, <2>8 DEF v
<1>9. CASE StringStep \/ Hang \/ SplitArgs \/ BadLine
  BY <1>3, <1>9 DEF StringStep, confVars, Hang, SplitArgs, BadLine
<1> QED
  BY <1>5, <1>7, <1>8, <1>9 DEF ConfigNext

(* What the steps keep says what ConfExact says. *)
LEMMA ExactIs ==
  ASSUME NEW C, STRING = Seq(C), TypeOK, Shape, Tight, Underway, Answers(g_conf, parsed)
  PROVE  ConfExact
<1> SUFFICES ASSUME pc = "done" \/ state # "on" PROVE ConfExact
  BY DEF ConfExact
<1>1. /\ parsed \in Nat /\ i \in Nat /\ Len(tokens) \in Nat /\ state \in {"on", "exit", "hang"}
      /\ pc = "done" => parsed = i /\ i = Len(tokens)
      /\ state = "hang" => AtLine /\ ~Comment(LineText(i)) /\ Quoted(LineText(i))
      /\ state = "exit" => /\ argv # <<>> /\ ~Sets(argv) /\ AtLine /\ ~Comment(LineText(i))
                           /\ ~Quoted(LineText(i)) /\ argv = cssplitargs(LineText(i))
  BY DEF Underway, Pacing, Handling, TypeOK
<1>2. pc \in {"lines", "done"} /\ (pc = "done" \/ (AtLine /\ state # "on"))
  BY <1>1 DEF AtLine
<1>3. /\ Numbered(Len(tokens))
      /\ \A s \in LineStarts : LineFrom(s) \in Seq(C)
      /\ \A s \in LineStarts : Number(s) = i =>
           \E x, y : Trims(LineFrom(s), x, y, LineText(i))
  BY <1>2, LineMeans
<1>4. ASSUME NEW s \in LineStarts, Number(s) = parsed + 1
      PROVE  IF state = "hang" THEN Says(LineFrom(s)) = "quote"
             ELSE state = "exit" /\ Says(LineFrom(s)) = "something" /\ ~Good(s)
  <2>1. pc # "done"
    <3>1. Number(s) \in 1 .. Len(tokens)
      BY <1>3 DEF Numbered
    <3> QED
      BY <1>1, <1>4, <3>1
  <2>2. AtLine /\ state # "on" /\ Number(s) = i
    BY <1>2, <1>4, <2>1 DEF AtLine
  <2> DEFINE l == LineFrom(s)
             t == LineText(i)
  <2>3. PICK x, y : Trims(l, x, y, t)
    BY <1>3, <2>2
  <2>4. l \in Seq(C)
    BY <1>3
  <2>5. CASE state = "hang"
    <3>1. ~Comment(t) /\ Quoted(t)
      BY <1>1, <2>5
    <3> HIDE DEF l, t
    <3>2. Says(l) = "quote"
      BY <2>3, <2>4, <3>1, SaysIs
    <3> QED
      BY <2>5, <3>2 DEF l
  <2>6. CASE state = "exit"
    <3>1. ~Comment(t) /\ ~Quoted(t) /\ cssplitargs(t) # <<>> /\ ~Sets(cssplitargs(t))
      BY <1>1, <2>6
    <3> HIDE DEF l, t
    <3>2. Says(l) = "something"
      BY <2>3, <2>4, <3>1, SaysIs
    <3>3. \A d \in Directives : ValuesOf(l, d) = {}
      <4> TAKE d \in Directives
      <4>1. ValuesOf(l, d) # {} => Len(cssplitargs(t)) = 2 /\ strcasecmp(cssplitargs(t)[1], d)
        BY <2>3, <2>4, ValuesTrim
      <4>2. ~ (Len(cssplitargs(t)) = 2 /\ strcasecmp(cssplitargs(t)[1], d))
        BY <3>1, Zenon DEF Sets
      <4> QED
        BY <4>1, <4>2
    <3>4. ~Good(s)
      BY <3>2, <3>3 DEF Good, Gives, l
    <3> QED
      BY <2>6, <3>2, <3>4 DEF l
  <2> QED
    BY <1>1, <2>2, <2>5, <2>6
<1>5. \A s \in Before(parsed) : Good(s)
  BY DEF Answers
<1>6. \A d \in Directives \ Lists : LastOf(g_conf, parsed, d)
  BY DEF Answers
<1>7. \A d \in Lists : AllOf(g_conf, parsed, d)
  BY DEF Answers
<1>8. \A d \in Directives \ Lists :
        g_conf[d] = IF Setting(parsed, d) = {} THEN initConfig[d]
                    ELSE Value(d, Val(Max(Setting(parsed, d)), d))
  BY <1>6, Zenon DEF LastOf
<1>9. \A d \in Lists :
        /\ Len(g_conf[d]) = Cardinality(Setting(parsed, d))
        /\ \A s \in Setting(parsed, d) :
             g_conf[d][Cardinality({t \in Setting(parsed, d) : t <= s})] = Val(s, d)
  BY <1>7, Zenon DEF AllOf, Upto
<1>10. \A s \in LineStarts : Number(s) = parsed + 1 =>
         IF state = "hang" THEN Says(LineFrom(s)) = "quote"
         ELSE state = "exit" /\ Says(LineFrom(s)) = "something" /\ ~Good(s)
  BY <1>4
<1> QED
  BY <1>5, <1>8, <1>9, <1>10, Zenon DEF ConfExact, Good, Val, Setting, Gives, Before

-----------------------------------------------------------------------------
(* All of it together: an inductive invariant that says ConfExact.         *)
Exact == Sizes /\ Shape /\ Tight /\ Underway /\ Answers(g_conf, parsed)

LEMMA ExactInit ==
  ASSUME NEW C, STRING = Seq(C), ConfigInit
  PROVE  Exact
<1>1. Init /\ file \in Files /\ g_conf = initConfig /\ parsed = 0
  BY DEF ConfigInit
<1>2. Sizes /\ Shape /\ Tight
  BY <1>1, SizesInit, ShapeInit, TightInit
<1>3. Underway
  BY UnderwayInit
<1>4. file \in Seq(C)
  <2>1. file \in STRING
    BY <1>1, FilesAssumption, Zenon
  <2> QED
    BY <2>1, Zenon
<1>5. Answers(initConfig, 0)
  BY <1>4, AnswersNone
<1> QED
  BY <1>1, <1>2, <1>3, <1>5 DEF Exact

LEMMA ExactStep ==
  ASSUME NEW C, STRING = Seq(C), Exact, [ConfigNext]_<<vars, confVars>>
  PROVE  Exact'
<1>1. Sizes /\ TypeOK /\ Shape /\ Tight /\ Underway /\ Answers(g_conf, parsed)
  BY DEF Exact, Sizes
<1>2. CASE ConfigNext
  <2>1. FileOK
    BY <1>1 DEF Underway, SoFar, FileOK
  <2>2. [Next]_vars
    BY <1>1, <1>2, <2>1, StepImplements
  <2>3. Sizes' /\ Shape'
    BY <1>1, <2>2, Inductive
  <2>4. Tight'
    BY <1>1, <2>2, TightStep, TightSame
  <2>5. SoFar' /\ Pacing' /\ Handling'
    BY <1>1, <1>2, SoFarStep, PacingStep, HandlingStep DEF Underway
  <2>6. Answers(g_conf, parsed)'
    BY <1>1, <1>2, AnswersStep
  <2> QED
    BY <2>3, <2>4, <2>5, <2>6 DEF Exact, Underway
<1>3. CASE UNCHANGED <<vars, confVars>>
  <2>1. UNCHANGED vars /\ UNCHANGED <<file, parsed, argv, g_conf, state, text, tokens, i, pc>>
    BY <1>3 DEF vars, confVars, fileVars, splitVars, trimVars
  <2>2. Sizes' /\ Shape'
    BY <1>1, <2>1, Inductive
  <2>3. Tight'
    BY <1>1, <2>1, TightSame
  <2>4. LineText(i)' = LineText(i)
    BY <2>1 DEF LineText
  <2>5. Underway'
    BY <1>1, <2>1, <2>4 DEF Underway, SoFar, Pacing, Handling, AtLine
  <2>6. Answers(g_conf, parsed)'
    <3>1. Answers(g_conf', parsed')
      BY <1>1, <2>1
    <3> QED
      BY <2>1, <3>1, AnswersFile
  <2> QED
    BY <2>2, <2>3, <2>5, <2>6 DEF Exact
<1> QED
  BY <1>2, <1>3

LEMMA ReadingExact ==
  StringsAreSequences => (ConfigInit /\ [][ConfigNext]_<<vars, confVars>> => []ConfExact)
<1> SUFFICES ASSUME NEW C, STRING = Seq(C)
             PROVE  ConfigInit /\ [][ConfigNext]_<<vars, confVars>> => []ConfExact
  BY DEF StringsAreSequences
<1>1. ConfigInit => Exact
  BY ExactInit
<1>2. Exact /\ [ConfigNext]_<<vars, confVars>> => Exact'
  BY ExactStep
<1>3. Exact => ConfExact
  BY ExactIs DEF Exact, Sizes
<1> QED
  BY <1>1, <1>2, <1>3, PTL

(* ConfExact, of loadConfig: for every file and any size of fgets's buffer  *)
(* the options are what the lines before the first bad one say, the modules *)
(* and types in their order, and loading ends in that line and in no other. *)
THEOREM ConfigExact == StringsAreSequences => (ConfigSpec => []ConfExact)
  BY ReadingExact, PTL DEF ConfigSpec
=============================================================================
