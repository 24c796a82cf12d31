-------------------------------- MODULE Text --------------------------------
(***************************************************************************)
(* The functions of the C library that the spider applies to text.  A      *)
(* char * is the string up to its terminator.                              *)
(***************************************************************************)
EXTENDS Integers, Sequences, SequencesExt

Char(s, k) == SubSeq(s, k, k)

Places(s, c) == {k \in 1 .. Len(s) : Char(s, k) = c}

(* The text after the first k characters. *)
From(s, k) == SubSeq(s, k + 1, Len(s))

(* Strings one after the other. *)
StringOf(s) ==
  LET upTo[n \in 0 .. Len(s)] == IF n = 0 THEN "" ELSE upTo[n - 1] \o s[n]
  IN  upTo[Len(s)]

(* Whether strstr finds t in s. *)
strstr(s, t) == \E k \in 1 .. (Len(s) - Len(t) + 1) : SubSeq(s, k, k + Len(t) - 1) = t

(* isspace, but for the vertical tab. *)
Spaces == {" ", "\t", "\n", "\f", "\r"}

Upper == "ABCDEFGHIJKLMNOPQRSTUVWXYZ"

tolower(c) ==
  LET at == Places(Upper, c)
  IN  IF at = {} THEN c ELSE Char("abcdefghijklmnopqrstuvwxyz", Max(at))

(* Whether strcasecmp calls s and t equal. *)
strcasecmp(s, t) ==
  Len(s) = Len(t) /\ \A k \in 1 .. Len(s) : tolower(Char(s, k)) = tolower(Char(t, k))

DigitsOf(s) ==
  Max({n \in 0 .. Len(s) :
         \A k \in 1 .. n : \E d \in 0 .. 9 : Char(s, k) = ToString(d)})

NatOf(s) ==
  LET value[n \in 0 .. DigitsOf(s)] ==
        IF n = 0 THEN 0
        ELSE 10 * value[n - 1] + (CHOOSE d \in 0 .. 9 : Char(s, n) = ToString(d))
  IN  value[DigitsOf(s)]

(* Of text that does not begin with a space. *)
atoi(s) ==
  CASE IsPrefix("-", s) -> 0 - NatOf(From(s, 1))
    [] IsPrefix("+", s) -> NatOf(From(s, 1))
    [] OTHER -> NatOf(s)
=============================================================================
