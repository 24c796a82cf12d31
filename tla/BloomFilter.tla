---------------------------- MODULE BloomFilter ----------------------------
(***************************************************************************)
(* search(url), called by every receiver thread through iscrawled: one     *)
(* pass over HASH_FUNC_NUM hash values that both tests and sets the bits   *)
(* of bloom_table, under bt_lock.  The table is the set of bits that are   *)
(* set, a bit being the word and the position the code computes.  The hash *)
(* functions are arbitrary: any function of the url.                       *)
(***************************************************************************)
EXTENDS Integers

CONSTANTS
  Threads, Keys, NoKey, None,
  HASH_FUNC_NUM, BLOOM_SIZE, BITSIZE_PER_BLOOM,
  HashFunctions   \* the families of hash values to consider

LIMIT == BLOOM_SIZE * BITSIZE_PER_BLOOM
Rounds == 0 .. (HASH_FUNC_NUM - 1)

ASSUME BloomAssumption ==
  /\ None \notin Threads /\ NoKey \notin Keys
  /\ HASH_FUNC_NUM \in Nat \ {0}
  /\ BLOOM_SIZE \in Nat \ {0} /\ BITSIZE_PER_BLOOM \in Nat \ {0}
  /\ HashFunctions \subseteq [Keys -> [Rounds -> Nat]]

VARIABLES
  encrypt,      \* the hash values, never changed
  bloom_table,  \* the bits that are set
  bt_lock,
  pc, url, i, res,  \* per thread: its position in search and its locals
  answer,       \* what search returned last
  accepted      \* history: the urls search called new

frame == <<encrypt, bloom_table, bt_lock>>
vars == <<frame, pc, url, i, res, answer, accepted>>

BitOf(u, n) ==
  LET h == encrypt[u][n] % LIMIT
  IN  <<h \div BITSIZE_PER_BLOOM, h % BITSIZE_PER_BLOOM>>

Bits(u) == {BitOf(u, n) : n \in Rounds}

Init ==
  /\ encrypt \in HashFunctions
  /\ bloom_table = {}
  /\ bt_lock = None
  /\ pc = [t \in Threads |-> "idle"]
  /\ url = [t \in Threads |-> NoKey]
  /\ i = [t \in Threads |-> 0]
  /\ res = [t \in Threads |-> 0]
  /\ answer = [t \in Threads |-> "none"]
  /\ accepted = {}

-----------------------------------------------------------------------------
Search(t, u) ==
  /\ pc[t] = "idle"
  /\ pc' = [pc EXCEPT ![t] = "lock"]
  /\ url' = [url EXCEPT ![t] = u]
  /\ UNCHANGED <<frame, i, res, answer, accepted>>

(* Mutant: bt_lock is not taken. *)
LockNone(t) ==
  /\ pc[t] = "lock"
  /\ pc' = [pc EXCEPT ![t] = "loop"]
  /\ i' = [i EXCEPT ![t] = 0]
  /\ res' = [res EXCEPT ![t] = 0]
  /\ UNCHANGED <<frame, url, answer, accepted>>

(* Mutant: res is not set to 0. *)
LockKeepsRes(t) ==
  /\ pc[t] = "lock" /\ bt_lock = None
  /\ bt_lock' = t
  /\ pc' = [pc EXCEPT ![t] = "loop"]
  /\ i' = [i EXCEPT ![t] = 0]
  /\ UNCHANGED <<encrypt, bloom_table, url, res, answer, accepted>>

Lock(t) ==
  /\ pc[t] = "lock" /\ bt_lock = None
  /\ bt_lock' = t
  /\ pc' = [pc EXCEPT ![t] = "loop"]
  /\ i' = [i EXCEPT ![t] = 0]
  /\ res' = [res EXCEPT ![t] = 0]
  /\ UNCHANGED <<encrypt, bloom_table, url, answer, accepted>>

(* Mutant: the bit is set before it is tested. *)
TestAfterSet(t) ==
  /\ pc[t] = "loop"
  /\ bloom_table' = bloom_table \cup {BitOf(url[t], i[t])}
  /\ res' = [res EXCEPT ![t] = @ + 1]
  /\ i' = [i EXCEPT ![t] = @ + 1]
  /\ pc' = [pc EXCEPT ![t] = IF i[t] + 1 < HASH_FUNC_NUM THEN "loop" ELSE "unlock"]
  /\ UNCHANGED <<encrypt, bt_lock, url, answer, accepted>>

(* One round of the loop: a bit that is set is counted, another is set.    *)
Test(t) ==
  /\ pc[t] = "loop"
  /\ IF BitOf(url[t], i[t]) \in bloom_table
     THEN res' = [res EXCEPT ![t] = @ + 1] /\ UNCHANGED bloom_table
     ELSE /\ bloom_table' = bloom_table \cup {BitOf(url[t], i[t])}
          /\ UNCHANGED res
  /\ i' = [i EXCEPT ![t] = @ + 1]
  /\ pc' = [pc EXCEPT ![t] = IF i[t] + 1 < HASH_FUNC_NUM THEN "loop" ELSE "unlock"]
  /\ UNCHANGED <<encrypt, bt_lock, url, answer, accepted>>

(* Mutant: one bit that was set is enough. *)
UnlockAny(t) ==
  /\ pc[t] = "unlock"
  /\ bt_lock' = None
  /\ pc' = [pc EXCEPT ![t] = "idle"]
  /\ IF res[t] > 0
     THEN /\ answer' = [answer EXCEPT ![t] = "seen"]
          /\ UNCHANGED accepted
     ELSE /\ answer' = [answer EXCEPT ![t] = "new"]
          /\ accepted' = accepted \cup {url[t]}
  /\ UNCHANGED <<encrypt, bloom_table, url, i, res>>

(* Unlock and return (res == HASH_FUNC_NUM): 1 means seen. *)
Unlock(t) ==
  /\ pc[t] = "unlock"
  /\ bt_lock' = None
  /\ pc' = [pc EXCEPT ![t] = "idle"]
  /\ IF res[t] = HASH_FUNC_NUM
     THEN /\ answer' = [answer EXCEPT ![t] = "seen"]
          /\ UNCHANGED accepted
     ELSE /\ answer' = [answer EXCEPT ![t] = "new"]
          /\ accepted' = accepted \cup {url[t]}
  /\ UNCHANGED <<encrypt, bloom_table, url, i, res>>

Next ==
  \E t \in Threads :
    \/ \E u \in Keys : Search(t, u)
    \/ Lock(t) \/ Test(t) \/ Unlock(t)

Spec == Init /\ [][Next]_vars

-----------------------------------------------------------------------------
(* The bits of everything search called new. *)
Cover == UNION {Bits(u) : u \in accepted}

InSearch == {"loop", "unlock"}

TypeOK ==
  /\ encrypt \in [Keys -> [Rounds -> Nat]]
  /\ bt_lock \in Threads \cup {None}
  /\ pc \in [Threads -> {"idle", "lock", "loop", "unlock"}]
  /\ url \in [Threads -> Keys \cup {NoKey}]
  /\ i \in [Threads -> 0 .. HASH_FUNC_NUM]
  /\ res \in [Threads -> 0 .. HASH_FUNC_NUM]
  /\ answer \in [Threads -> {"none", "new", "seen"}]
  /\ accepted \subseteq Keys

(* The single pass that tests and sets gives the answer of a test before   *)
(* any setting: a url is called seen exactly when the urls called new      *)
(* cover its bits, although its own bits may repeat each other.            *)
AnswerExact ==
  \A t \in Threads : pc[t] = "unlock" =>
    (res[t] = HASH_FUNC_NUM <=> Bits(url[t]) \subseteq Cover)

(* Between searches the table holds the bits of the urls called new and no *)
(* others: a url called seen leaves no trace, so that false answers do not *)
(* breed more false answers.                                               *)
TableExact == bt_lock = None => bloom_table = Cover

(* search implements the set of seen urls: no thread interleaving makes it *)
(* call one url new twice, and so no link is queued twice by extract_url.  *)
Seen == INSTANCE SeenSet WITH
  asking <- [t \in Threads |-> IF pc[t] = "idle" THEN NoKey ELSE url[t]]

Refines == Seen!Spec
=============================================================================
