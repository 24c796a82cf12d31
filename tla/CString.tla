------------------------------ MODULE CString ------------------------------
(***************************************************************************)
(* cstring.c as loadConfig uses it: the configuration file is appended     *)
(* chunk by chunk to one string (cscat), split into lines (cssplitlen with *)
(* a separator of one character, as everywhere in the spider), and each    *)
(* line is trimmed (csstrim).  A string is what its header says, len and   *)
(* free, and the bytes allocated for buf; its characters are `text'.       *)
(* What loadConfigFromString does with a trimmed line is left out, and so  *)
(* is an allocation that fails.                                            *)
(***************************************************************************)
EXTENDS Integers, Sequences

CONSTANTS
  Chars,
  Sep,              \* the newline that ends a line
  Blanks,           \* what csstrim removes
  CONFIGLINE_MAX,   \* the most characters fgets returns
  CS_MAX_PREALLOC,
  FirstSlots,       \* places for tokens at first: 5
  MaxFile           \* bound on the length of the file

ASSUME CStringAssumption ==
  /\ Sep \in Chars /\ Blanks \subseteq Chars
  /\ CONFIGLINE_MAX \in Nat \ {0} /\ CS_MAX_PREALLOC \in Nat \ {0}
  /\ FirstSlots \in Nat \ {0} /\ MaxFile \in Nat

VARIABLES
  pc,
  text, conf,         \* the characters and the header of the string conf
  tokens, slots,      \* the result of cssplitlen and the places allocated
  start, j,           \* its locals
  i, sp, ep           \* the line being trimmed, csstrim's pointers

fileVars == <<text, conf>>
splitVars == <<tokens, slots, start, j>>
trimVars == <<i, sp, ep>>
vars == <<pc, fileVars, splitVars, trimVars>>

-----------------------------------------------------------------------------
csnewlen(n) == [len |-> n, free |-> 0, size |-> n + 1]

(* Mutant: the new length counts as free. *)
csMakeRoomForAll(c, n) ==
  IF c.free > n THEN c
  ELSE LET len == c.len + n
           newlen == IF len < CS_MAX_PREALLOC THEN 2 * len ELSE len + CS_MAX_PREALLOC
       IN  [c EXCEPT !.free = newlen, !.size = newlen + 1]

csMakeRoomFor(c, n) ==
  IF c.free > n THEN c
  ELSE LET len == c.len + n
           newlen == IF len < CS_MAX_PREALLOC THEN 2 * len ELSE len + CS_MAX_PREALLOC
       IN  [c EXCEPT !.free = newlen - c.len, !.size = newlen + 1]

(* Mutant: no room is made. *)
cscatlenNoRoom(c, n) == [c EXCEPT !.len = @ + n, !.free = @ - n]

cscatlen(c, n) ==
  LET r == csMakeRoomFor(c, n)
  IN  [r EXCEPT !.len = @ + n, !.free = @ - n]

(* The header of a string that keeps n of its characters.                  *)
Trimmed(c, n) == [c EXCEPT !.free = @ + (c.len - n), !.len = n]

(* A token: the places in text it holds, from `from' to before `to'.       *)
Token(from, to) == [from |-> from, to |-> to, cs |-> csnewlen(to - from)]

At(p) == text[p + 1]

-----------------------------------------------------------------------------
(* loadConfig: csempty, then a chunk per fgets.                            *)
Init ==
  /\ pc = "read"
  /\ text = <<>> /\ conf = csnewlen(0)
  /\ tokens = <<>> /\ slots = FirstSlots
  /\ start = 0 /\ j = 0
  /\ i = 0 /\ sp = 0 /\ ep = 0

(* fgets stops behind a newline. *)
Chunks ==
  UNION {{t \in [1 .. n -> Chars] : \A k \in 1 .. (n - 1) : t[k] # Sep} :
           n \in 1 .. CONFIGLINE_MAX}

(* A chunk that is neither full nor a line was cut off by the end of file. *)
Read(t) ==
  /\ pc = "read" /\ Len(text) + Len(t) <= MaxFile
  /\ text' = text \o t
  /\ conf' = cscatlen(conf, Len(t))
  /\ pc' = IF Len(t) < CONFIGLINE_MAX /\ t[Len(t)] # Sep THEN "eof" ELSE "read"
  /\ UNCHANGED <<splitVars, trimVars>>

(* cssplitlen begins; an empty string has no tokens.                       *)
BeginSplit ==
  /\ pc \in {"read", "eof"}
  /\ pc' = IF text = <<>> THEN "lines" ELSE "split"
  /\ UNCHANGED <<fileVars, splitVars, trimVars>>

(* Mutant: only the next token gets a place. *)
SplitCharNoSpare ==
  /\ pc = "split" /\ j < Len(text)
  /\ slots' = IF slots < Len(tokens) + 1 THEN slots * 2 ELSE slots
  /\ IF At(j) = Sep
     THEN /\ tokens' = Append(tokens, Token(start, j))
          /\ start' = j + 1
     ELSE UNCHANGED <<tokens, start>>
  /\ j' = j + 1
  /\ UNCHANGED <<pc, fileVars, trimVars>>

(* One round of the loop. *)
SplitChar ==
  /\ pc = "split" /\ j < Len(text)
  /\ slots' = IF slots < Len(tokens) + 2 THEN slots * 2 ELSE slots
  /\ IF At(j) = Sep
     THEN /\ tokens' = Append(tokens, Token(start, j))
          /\ start' = j + 1
     ELSE UNCHANGED <<tokens, start>>
  /\ j' = j + 1
  /\ UNCHANGED <<pc, fileVars, trimVars>>

(* What is behind the last separator. *)
SplitLast ==
  /\ pc = "split" /\ j = Len(text)
  /\ tokens' = Append(tokens, Token(start, j))
  /\ pc' = "lines"
  /\ UNCHANGED <<fileVars, slots, start, j, trimVars>>

(* csstrim of the next line. *)
BeginTrim ==
  /\ pc = "lines" /\ i < Len(tokens)
  /\ sp' = tokens[i + 1].from
  /\ ep' = tokens[i + 1].to - 1
  /\ pc' = "left"
  /\ UNCHANGED <<fileVars, splitVars, i>>

(* Mutant: the pointer stays at a blank. *)
TrimLeftStays ==
  /\ pc = "left" /\ ~(sp < tokens[i + 1].to /\ At(sp) \in Blanks)
  /\ pc' = "right"
  /\ UNCHANGED <<fileVars, splitVars, i, sp, ep>>

TrimLeft ==
  /\ pc = "left"
  /\ IF sp < tokens[i + 1].to /\ At(sp) \in Blanks
     THEN sp' = sp + 1 /\ UNCHANGED pc
     ELSE pc' = "right" /\ UNCHANGED sp
  /\ UNCHANGED <<fileVars, splitVars, i, ep>>

TrimRight ==
  /\ pc = "right" /\ ep >= tokens[i + 1].from /\ At(ep) \in Blanks
  /\ ep' = ep - 1
  /\ UNCHANGED <<pc, fileVars, splitVars, i, sp>>

(* Mutant: one character less is kept. *)
TrimDoneShort ==
  /\ pc = "right" /\ ~(ep >= tokens[i + 1].from /\ At(ep) \in Blanks)
  /\ LET len == IF sp >= ep THEN 0 ELSE ep - sp
     IN  tokens' = [tokens EXCEPT ![i + 1] =
                      [from |-> sp, to |-> sp + len, cs |-> Trimmed(@.cs, len)]]
  /\ i' = i + 1
  /\ pc' = "lines"
  /\ UNCHANGED <<fileVars, slots, start, j, sp, ep>>

TrimDone ==
  /\ pc = "right" /\ ~(ep >= tokens[i + 1].from /\ At(ep) \in Blanks)
  /\ LET len == IF sp > ep THEN 0 ELSE ep - sp + 1
     IN  tokens' = [tokens EXCEPT ![i + 1] =
                      [from |-> sp, to |-> sp + len, cs |-> Trimmed(@.cs, len)]]
  /\ i' = i + 1
  /\ pc' = "lines"
  /\ UNCHANGED <<fileVars, slots, start, j, sp, ep>>

Finish ==
  /\ pc = "lines" /\ i = Len(tokens)
  /\ pc' = "done"
  /\ UNCHANGED <<fileVars, splitVars, trimVars>>

Done == pc = "done" /\ UNCHANGED vars

Next ==
  \/ \E t \in Chunks : Read(t)
  \/ BeginSplit \/ SplitChar \/ SplitLast
  \/ BeginTrim \/ TrimLeft \/ TrimRight \/ TrimDone
  \/ Finish \/ Done

Spec == Init /\ [][Next]_vars

-----------------------------------------------------------------------------
Header == [len : Nat, free : Nat, size : Nat]

(* The variables have their types; no header's free falls below zero.      *)
TypeOK ==
  /\ pc \in {"read", "eof", "split", "lines", "left", "right", "done"}
  /\ text \in Seq(Chars)
  /\ conf \in Header
  /\ tokens \in Seq([from : Nat, to : Nat, cs : Header])
  /\ slots \in Nat \ {0}
  /\ start \in Nat /\ j \in Nat /\ i \in Nat
  /\ sp \in Nat /\ ep \in Int

(* What a header calls free is there: with len and the terminator it makes *)
(* up the allocation, after any appends, preallocations and trims, for the *)
(* file as for every line; so no memcpy of cscatlen leaves its buffer.     *)
Accounted(c, n) == c.len = n /\ c.len + c.free + 1 = c.size

RoomKept ==
  /\ Accounted(conf, Len(text))
  /\ \A k \in DOMAIN tokens :
       Accounted(tokens[k].cs, tokens[k].to - tokens[k].from)

(* cssplitlen stores a token, the last one behind the loop included, in a  *)
(* place it has allocated.                                                 *)
SlotFree ==
  /\ pc = "split" => Len(tokens) < slots
  /\ Len(tokens) <= slots

(* The places between two offsets hold nothing but trimmed characters.     *)
Cut(from, to) == \A p \in from .. (to - 1) : At(p) \in Blanks \ {Sep}

(* Line k of the file is token k and nothing but blanks is lost from it:   *)
(* no token holds a newline, two neighbours have exactly one between them. *)
LinesKept ==
  pc \in {"lines", "left", "right", "done"} =>
    LET n == Len(tokens)
    IN  /\ n = 0 => text = <<>>
        /\ \A k \in 1 .. n :
             \A p \in tokens[k].from .. (tokens[k].to - 1) : At(p) # Sep
        /\ n > 0 => Cut(0, tokens[1].from) /\ Cut(tokens[n].to, Len(text))
        /\ \A k \in 1 .. (n - 1) :
             \E q \in tokens[k].to .. (tokens[k + 1].from - 1) :
               /\ At(q) = Sep
               /\ Cut(tokens[k].to, q) /\ Cut(q + 1, tokens[k + 1].from)
=============================================================================
