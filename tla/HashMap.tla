------------------------------ MODULE HashMap ------------------------------
(***************************************************************************)
(* hashmap.c, the chained hash table behind host_ip_map.  A map is a       *)
(* record of its size, its listSize and its list of buckets, each the      *)
(* sequence of entries that starts in the list and goes on in the chain.   *)
(* Two keys are equal when their first four bytes are, so a key is         *)
(* reduced to its hash value and its prefix, both chosen in Init.  Only    *)
(* the urlparser uses host_ip_map, so an operation is one step; remove is  *)
(* part of the interface although the spider never calls it.               *)
(***************************************************************************)
EXTENDS Integers, Sequences, SequencesExt

CONSTANTS
  Keys, Values, NoKey, NoValue,
  MinSize,    \* the listSize of a new map, and the smallest one: 8
  HashCodes,  \* what defaultHashCode may compute before its %
  FirstBytes  \* what the keys may begin with: functions of the key

ASSUME HashMapAssumption ==
  /\ NoKey \notin Keys /\ NoValue \notin Values
  /\ MinSize \in Nat \ {0}
  /\ HashCodes \subseteq [Keys -> Nat]
  /\ \A f \in FirstBytes : DOMAIN f = Keys

VARIABLES
  hash, prefix,  \* of every key, never changed
  hashMap,
  asked, answer, \* key and result of the last lookup, if nothing came since
  alive          \* FALSE after a fatal signal

vars == <<hash, prefix, hashMap, asked, answer, alive>>

Empty(n) == [size |-> 0, listSize |-> n, list |-> [b \in 0 .. (n - 1) |-> <<>>]]

hashCode(m, k) == hash[k] % m.listSize

defaultEqual(k1, k2) == prefix[k1] = prefix[k2]

(* The place of the first entry of the key's bucket equal to k, 0 if none. *)
Find(m, k) ==
  SelectInSeq(m.list[hashCode(m, k)], LAMBDA e : defaultEqual(e.key, k))

defaultExists(m, k) == Find(m, k) # 0
defaultGet(m, k) == m.list[hashCode(m, k)][Find(m, k)].value

(* Mutant: the chain is not searched for an equal key. *)
InsertAlways(m, e) ==
  LET b == hashCode(m, e.key)
      bucket == m.list[b]
  IN  [m EXCEPT !.size = @ + 1,
                !.list[b] = IF bucket = <<>> THEN <<e>> ELSE InsertAt(bucket, 2, e)]

(* defaultPut after its test for growth: an equal key keeps its entry and  *)
(* gets the new value; a new entry goes behind the first of its bucket.    *)
Insert(m, e) ==
  LET b == hashCode(m, e.key)
      i == Find(m, e.key)
      bucket == m.list[b]
  IN  IF i # 0
      THEN [m EXCEPT !.list[b][i].value = e.value]
      ELSE [m EXCEPT !.size = @ + 1,
                     !.list[b] = IF bucket = <<>> THEN <<e>>
                                 ELSE InsertAt(bucket, 2, e)]

(* Bucket after bucket. *)
Chained(m) == FlattenSeq([b \in 1 .. m.listSize |-> m.list[b - 1]])

(* What the iterator visits: at most size entries.                         *)
Entries(m) ==
  SubSeq(Chained(m), 1, IF m.size < Len(Chained(m)) THEN m.size ELSE Len(Chained(m)))

(* Mutant: the buckets are kept, as if the hash did not depend on listSize *)
ResetKeepsBuckets(m, n) ==
  IF n < MinSize THEN m
  ELSE [m EXCEPT !.listSize = n,
                 !.list = [b \in 0 .. (n - 1) |->
                             IF b < m.listSize THEN m.list[b] ELSE <<>>]]

(* The map after each of the puts of s into a new list of n places.  They  *)
(* cannot grow the map: the n places are more than the entries.            *)
Puts(n, s) ==
  LET put[k \in 0 .. Len(s)] == IF k = 0 THEN Empty(n) ELSE Insert(put[k - 1], s[k])
  IN  put

(* Nothing below the smallest size; else every entry is put again. *)
resetHashMap(m, n) ==
  IF n < MinSize THEN m ELSE Puts(n, Entries(m))[Len(Entries(m))]

(* resetHashMap clears a chain by freeing the node after the next one and  *)
(* then reads that node's next: undefined from two chained nodes on.       *)
ResetReadsFreed(m, n) ==
  /\ n >= MinSize
  /\ \E b \in DOMAIN m.list : Len(m.list[b]) > 2

Grows(m) == m.size >= m.listSize

Grown(m) == IF Grows(m) THEN resetHashMap(m, m.listSize * 2) ELSE m

defaultPut(m, e) == Insert(Grown(m), e)

Without(m, k) ==
  LET b == hashCode(m, k)
  IN  [m EXCEPT !.size = @ - 1, !.list[b] = RemoveAt(@, Find(m, k))]

Shrinks(m) == m.size < m.listSize \div 2

(* Less than half full: half the list is given back. *)
Shrunk(m) == IF Shrinks(m) THEN resetHashMap(m, m.listSize \div 2) ELSE m

-----------------------------------------------------------------------------
Init ==
  /\ hash \in HashCodes
  /\ prefix \in FirstBytes
  /\ hashMap = Empty(MinSize)
  /\ asked = NoKey /\ answer = NoValue
  /\ alive = TRUE

(* As the urlparser does it: get only what exists. *)
Lookup(k) ==
  /\ alive
  /\ asked' = k
  /\ answer' = IF defaultExists(hashMap, k) THEN defaultGet(hashMap, k) ELSE NoValue
  /\ UNCHANGED <<hash, prefix, hashMap, alive>>

(* Reading freed memory may kill the process or go unnoticed.              *)
Survives(m, n, reset) == IF reset /\ ResetReadsFreed(m, n) THEN BOOLEAN ELSE {TRUE}

Forget == asked' = NoKey /\ answer' = NoValue

Put(k, v) ==
  /\ alive
  /\ hashMap' = defaultPut(hashMap, [key |-> k, value |-> v])
  /\ alive' \in Survives(hashMap, hashMap.listSize * 2, Grows(hashMap))
  /\ Forget
  /\ UNCHANGED <<hash, prefix>>

RemoveMissing(k) ==
  /\ alive /\ ~defaultExists(hashMap, k)
  /\ Forget
  /\ UNCHANGED <<hash, prefix, hashMap, alive>>

RemoveEntry(k) ==
  /\ alive /\ defaultExists(hashMap, k)
  /\ LET m == Without(hashMap, k)
     IN  /\ hashMap' = Shrunk(m)
         /\ alive' \in Survives(m, m.listSize \div 2, Shrinks(m))
  /\ Forget
  /\ UNCHANGED <<hash, prefix>>

Dead == ~alive /\ UNCHANGED vars

Next ==
  \/ \E k \in Keys : Lookup(k) \/ RemoveMissing(k) \/ RemoveEntry(k)
  \/ \E k \in Keys, v \in Values : Put(k, v)
  \/ Dead

Spec == Init /\ [][Next]_vars

-----------------------------------------------------------------------------
Stored(m) == UNION {{m.list[b][i] : i \in DOMAIN m.list[b]} : b \in DOMAIN m.list}

(* Every entry is in the bucket that its hash gives at the current         *)
(* listSize, no two entries of a bucket are equal, size counts the         *)
(* entries through growing, shrinking and overwriting, and the list has a  *)
(* place for each of them.                                                 *)
WellFormed ==
  /\ hashMap.listSize \in Nat /\ hashMap.listSize >= MinSize
  /\ DOMAIN hashMap.list = 0 .. (hashMap.listSize - 1)
  /\ \A b \in DOMAIN hashMap.list :
       LET bucket == hashMap.list[b]
       IN  /\ \A i \in DOMAIN bucket : /\ bucket[i] \in [key : Keys, value : Values]
                                       /\ hashCode(hashMap, bucket[i].key) = b
           /\ \A i, j \in DOMAIN bucket :
                defaultEqual(bucket[i].key, bucket[j].key) => i = j
  /\ hashMap.size = Len(Chained(hashMap))
  /\ hashMap.size <= hashMap.listSize

(* With prefixes that tell the keys apart the table is a dictionary: no    *)
(* growing, shrinking or chaining loses an entry or answers with another   *)
(* key's.                                                                  *)
Hosts == INSTANCE Dictionary WITH
  dict <- [k \in Keys |->
             IF \E e \in Stored(hashMap) : e.key = k
             THEN (CHOOSE e \in Stored(hashMap) : e.key = k).value
             ELSE NoValue]

Distinct == \A k1, k2 \in Keys : defaultEqual(k1, k2) => k1 = k2

IsDictionary ==
  /\ Distinct => Hosts!Init
  /\ [][Distinct => Hosts!Next \/ UNCHANGED Hosts!vars]_vars

(* hashmap.h calls equal the test whether two keys are equal, and the      *)
(* urlparser connects to the address it is given: an address the map       *)
(* answers was put for the host that was asked for.                        *)
OwnAddress ==
  answer # NoValue => \E e \in Stored(hashMap) : e = [key |-> asked, value |-> answer]
=============================================================================
