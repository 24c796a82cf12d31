------------------------- MODULE BloomFilterProofs -------------------------
(* search implements SeenSet, for any number of threads, urls and hash     *)
(* functions and any size of the table.                                    *)
EXTENDS BloomFilter, TLAPS

USE BloomAssumption DEF Rounds

(* The bits a search has been through, and its count: res stays equal to i *)
(* as long as every one of them belongs to the urls called new.            *)
Passed(t) == {BitOf(url[t], n) : n \in 0 .. (i[t] - 1)}

LockInv == \A t \in Threads : pc[t] \in InSearch <=> bt_lock = t

PassInv ==
  \A t \in Threads : pc[t] \in InSearch =>
    /\ bloom_table = Cover \cup Passed(t)
    /\ res[t] <= i[t]
    /\ res[t] = i[t] <=> Passed(t) \subseteq Cover

Position ==
  \A t \in Threads :
    /\ pc[t] # "idle" => url[t] \in Keys
    /\ pc[t] = "loop" => i[t] \in Rounds
    /\ pc[t] = "unlock" => i[t] = HASH_FUNC_NUM

BloomInv == TypeOK /\ LockInv /\ PassInv /\ Position /\ TableExact

LEMMA BloomInit == Init => BloomInv
  BY DEF Init, BloomInv, TypeOK, LockInv, PassInv, Position, TableExact, Cover,
         InSearch

LEMMA LimitPositive == LIMIT \in Nat \ {0}
  BY DEF LIMIT

LEMMA StepSearch ==
  ASSUME BloomInv, NEW t \in Threads, NEW u \in Keys, Search(t, u)
  PROVE  BloomInv'
<1> USE DEF BloomInv, TypeOK, Search, frame
<1>1. TypeOK' /\ LockInv'
  BY DEF LockInv, InSearch
<1>2. Cover' = Cover
  BY DEF Cover, Bits, BitOf
<1>3. \A v \in Threads : pc'[v] \in InSearch => pc[v] \in InSearch /\ Passed(v)' = Passed(v)
  BY DEF InSearch, Passed, BitOf
<1>4. PassInv'
  BY <1>2, <1>3 DEF PassInv
<1>5. Position'
  BY DEF Position
<1> QED
  BY <1>1, <1>2, <1>4, <1>5 DEF TableExact

LEMMA StepLock ==
  ASSUME BloomInv, NEW t \in Threads, Lock(t)
  PROVE  BloomInv'
<1> USE DEF BloomInv, TypeOK, Lock
<1>1. TypeOK' /\ LockInv' /\ Position'
  BY DEF LockInv, InSearch, Position
<1>2. Cover' = Cover
  BY DEF Cover, Bits, BitOf
<1>3. \A v \in Threads : pc'[v] \in InSearch => v = t
  BY DEF LockInv, InSearch
<1>4. Passed(t)' = {} /\ res'[t] = 0 /\ i'[t] = 0
  BY DEF Passed
<1>5. bloom_table' = Cover'
  BY <1>2 DEF TableExact
<1>6. PassInv'
  BY <1>3, <1>4, <1>5 DEF PassInv
<1> QED
  BY <1>1, <1>6 DEF TableExact

LEMMA StepTest ==
  ASSUME BloomInv, NEW t \in Threads, Test(t)
  PROVE  BloomInv'
<1> DEFINE b == BitOf(url[t], i[t])
<1> USE DEF BloomInv, TypeOK
<1>1. /\ pc[t] = "loop" /\ bt_lock = t /\ i[t] \in Rounds /\ url[t] \in Keys
      /\ i' = [i EXCEPT ![t] = i[t] + 1]
      /\ pc' = [pc EXCEPT ![t] = IF i[t] + 1 < HASH_FUNC_NUM THEN "loop" ELSE "unlock"]
      /\ bloom_table' = bloom_table \cup {b}
      /\ UNCHANGED <<encrypt, bt_lock, url, answer, accepted>>
  BY DEF Test, Position, LockInv, InSearch
<1>2. /\ bloom_table = Cover \cup Passed(t)
      /\ res[t] <= i[t]
      /\ res[t] = i[t] <=> Passed(t) \subseteq Cover
  BY <1>1 DEF PassInv, InSearch
<1>3. res' = [res EXCEPT ![t] = IF b \in bloom_table THEN res[t] + 1 ELSE res[t]]
  BY DEF Test
<1>4. TypeOK' /\ LockInv' /\ Position'
  <2>1. i[t] + 1 \in 1 .. HASH_FUNC_NUM
    BY <1>1
  <2>2. res'[t] \in 0 .. HASH_FUNC_NUM
    BY <1>1, <1>2, <1>3
  <2>5. /\ i' \in [Threads -> 0 .. HASH_FUNC_NUM]
        /\ res' \in [Threads -> 0 .. HASH_FUNC_NUM]
    BY <1>1, <1>3, <2>1, <2>2
  <2>6. pc' \in [Threads -> {"idle", "lock", "loop", "unlock"}]
    BY <1>1
  <2>3. TypeOK'
    BY <1>1, <2>5, <2>6
  <2>4. LockInv' /\ Position'
    BY <1>1, <2>1 DEF LockInv, InSearch, Position
  <2> QED
    BY <2>3, <2>4
<1>5. Cover' = Cover
  BY <1>1 DEF Cover, Bits, BitOf
<1>6. Passed(t)' = Passed(t) \cup {b}
  <2>1. 0 .. (i[t] + 1 - 1) = 0 .. (i[t] - 1) \cup {i[t]}
    BY <1>1
  <2>2. Passed(t)' = {BitOf(url[t], n) : n \in 0 .. (i[t] + 1 - 1)}
    BY <1>1, SMTT(30) DEF Passed, BitOf
  <2> QED
    BY <2>1, <2>2 DEF Passed
<1>7. \A v \in Threads : pc'[v] \in InSearch => v = t
  BY <1>1, <1>4 DEF LockInv
<1>8. /\ res'[t] <= i'[t]
      /\ res'[t] = i'[t] <=> Passed(t)' \subseteq Cover
  <2>1. res[t] \in Int /\ i[t] \in Int /\ i'[t] = i[t] + 1
    BY <1>1
  <2>2. CASE b \in Cover
    BY <1>2, <1>3, <1>6, <2>1, <2>2
  <2>3. CASE b \notin Cover /\ b \in Passed(t)
    BY <1>2, <1>3, <1>6, <2>1, <2>3
  <2>4. CASE b \notin Cover /\ b \notin Passed(t)
    BY <1>2, <1>3, <1>6, <2>1, <2>4
  <2> QED
    BY <2>2, <2>3, <2>4
<1>9. PassInv'
  BY <1>1, <1>2, <1>5, <1>6, <1>7, <1>8 DEF PassInv
<1>10. TableExact'
  BY <1>1 DEF TableExact
<1> QED
  BY <1>4, <1>9, <1>10

(* At unlock the whole pass is behind: Passed is Bits.                     *)
LEMMA AtUnlock ==
  ASSUME BloomInv, NEW t \in Threads, pc[t] = "unlock"
  PROVE  /\ bloom_table = Cover \cup Bits(url[t]) /\ url[t] \in Keys
         /\ res[t] = HASH_FUNC_NUM <=> Bits(url[t]) \subseteq Cover
<1>1. Passed(t) = Bits(url[t]) /\ i[t] = HASH_FUNC_NUM
  BY DEF BloomInv, Position, Passed, Bits
<1> QED
  BY <1>1 DEF BloomInv, PassInv, Position, InSearch

LEMMA StepUnlock ==
  ASSUME BloomInv, NEW t \in Threads, Unlock(t)
  PROVE  BloomInv'
<1> USE DEF BloomInv, TypeOK
<1>1. /\ pc[t] = "unlock" /\ bt_lock = t /\ bt_lock' = None
      /\ pc' = [pc EXCEPT ![t] = "idle"]
      /\ UNCHANGED <<encrypt, bloom_table, url, i, res>>
  BY DEF Unlock, LockInv, InSearch
<1>2. TypeOK' /\ LockInv' /\ Position'
  <2>1. url[t] \in Keys
    BY <1>1 DEF Position
  <2>2. accepted' \subseteq Keys /\ answer' \in [Threads -> {"none", "new", "seen"}]
    BY <2>1 DEF Unlock
  <2>3. TypeOK'
    BY <1>1, <2>2
  <2>4. LockInv' /\ Position'
    BY <1>1 DEF LockInv, InSearch, Position
  <2> QED
    BY <2>3, <2>4
<1>3. \A u : Bits(u)' = Bits(u)
  BY <1>1 DEF Bits, BitOf
<1>4. bloom_table' = Cover'
  <2>1. CASE res[t] = HASH_FUNC_NUM
    <3>1. accepted' = accepted
      BY <2>1 DEF Unlock
    <3>2. Cover' = Cover
      BY <1>3, <3>1 DEF Cover
    <3>3. bloom_table = Cover \cup Bits(url[t]) /\ Bits(url[t]) \subseteq Cover
      BY <1>1, <2>1, AtUnlock
    <3> QED
      BY <1>1, <3>2, <3>3
  <2>2. CASE res[t] # HASH_FUNC_NUM
    <3>1. accepted' = accepted \cup {url[t]}
      BY <2>2 DEF Unlock
    <3>2. Cover' = Cover \cup Bits(url[t])
      BY <1>3, <3>1 DEF Cover
    <3> QED
      BY <1>1, <3>2, AtUnlock
  <2> QED
    BY <2>1, <2>2
<1>5. \A v \in Threads : pc'[v] \notin InSearch
  BY <1>1, <1>2 DEF LockInv
<1> QED
  BY <1>2, <1>4, <1>5 DEF PassInv, TableExact

LEMMA BloomStep == BloomInv /\ [Next]_vars => BloomInv'
<1> SUFFICES ASSUME BloomInv, [Next]_vars
             PROVE  BloomInv'
  OBVIOUS
<1>1. CASE UNCHANGED vars
  <2>1. Cover' = Cover /\ \A t : Passed(t)' = Passed(t)
    BY <1>1 DEF vars, frame, Cover, Passed, Bits, BitOf
  <2> QED
    BY <1>1, <2>1 DEF vars, frame, BloomInv, TypeOK, LockInv, PassInv, Position,
                      TableExact
<1>2. CASE Next
  BY <1>2, StepSearch, StepLock, StepTest, StepUnlock DEF Next
<1> QED
  BY <1>1, <1>2

(* The types of the variables.                                             *)
THEOREM BloomTypes == Spec => []TypeOK
<1>1. BloomInv => TypeOK
  BY DEF BloomInv
<1> QED
  BY BloomInit, BloomStep, <1>1, PTL DEF Spec

(* One pass that tests and sets answers like a test before any setting.    *)
THEOREM Exact == Spec => []AnswerExact
<1>1. BloomInv => AnswerExact
  BY AtUnlock DEF AnswerExact
<1> QED
  BY BloomInit, BloomStep, <1>1, PTL DEF Spec

(* The table holds the bits of the urls called new and no others.          *)
THEOREM TableKept == Spec => []TableExact
<1>1. BloomInv => TableExact
  BY DEF BloomInv
<1> QED
  BY BloomInit, BloomStep, <1>1, PTL DEF Spec

(* search implements the set of seen urls.                                 *)
THEOREM Implements == Spec => Refines
<1>1. Init => Seen!Init
  BY DEF Init, Seen!Init
<1>2. BloomInv /\ [Next]_vars => [Seen!Next]_Seen!vars
  <2> DEFINE asking == [t \in Threads |-> IF pc[t] = "idle" THEN NoKey ELSE url[t]]
  <2> SUFFICES ASSUME BloomInv, [Next]_vars
               PROVE  [Seen!Next]_Seen!vars
    OBVIOUS
  <2>0. /\ pc \in [Threads -> {"idle", "lock", "loop", "unlock"}]
        /\ url \in [Threads -> Keys \cup {NoKey}]
    BY DEF BloomInv, TypeOK
  <2>1. CASE UNCHANGED vars
    BY <2>1 DEF vars, frame, Seen!vars
  <2>2. ASSUME NEW t \in Threads, NEW u \in Keys, Search(t, u)
        PROVE  Seen!Ask(t, u)
    BY <2>0, <2>2 DEF Search, Seen!Ask
  <2>3. ASSUME NEW t \in Threads, Lock(t) \/ Test(t)
        PROVE  UNCHANGED Seen!vars
    BY <2>0, <2>3 DEF Lock, Test, Seen!vars
  <2>4. ASSUME NEW t \in Threads, Unlock(t)
        PROVE  Seen!AnswerNew(t) \/ Seen!AnswerSeen(t)
    <3>1. /\ pc[t] = "unlock" /\ url[t] \in Keys /\ asking[t] = url[t]
          /\ asking' = [asking EXCEPT ![t] = NoKey]
      BY <2>0, <2>4, AtUnlock DEF Unlock
    <3>2. CASE res[t] = HASH_FUNC_NUM
      <4>1. Bits(url[t]) \subseteq Cover
        BY <3>1, <3>2, AtUnlock
      <4>3. 0 \in Rounds
        OBVIOUS
      <4>4. BitOf(url[t], 0) \in Bits(url[t])
        BY <4>3 DEF Bits
      <4>2. accepted # {}
        BY <4>1, <4>4 DEF Cover
      <4> QED
        BY <2>4, <3>1, <3>2, <4>2 DEF Unlock, Seen!AnswerSeen
    <3>3. CASE res[t] # HASH_FUNC_NUM
      <4>1. url[t] \notin accepted
        BY <3>1, <3>3, AtUnlock DEF Cover
      <4> QED
        BY <2>4, <3>1, <3>3, <4>1 DEF Unlock, Seen!AnswerNew
    <3> QED
      BY <3>2, <3>3
  <2> QED
    BY <2>1, <2>2, <2>3, <2>4 DEF Next, Seen!Next
<1> QED
  BY BloomInit, BloomStep, <1>1, <1>2, PTL DEF Spec, Refines, Seen!Spec
=============================================================================
