------------------------------ MODULE SeenSet ------------------------------
(***************************************************************************)
(* What extract_url may rely on when it asks iscrawled whether a link has  *)
(* been seen: each link is called new at most once, by one thread, however *)
(* many ask at the same time.  The answer may err the other way: a link    *)
(* nobody saw may be called seen, though never the first one.              *)
(***************************************************************************)
CONSTANTS Threads, Keys, NoKey

VARIABLES
  accepted,  \* keys called new
  asking,    \* the key a thread is waiting to hear about, or NoKey
  answer     \* what the thread was told last: "none", "new" or "seen"

vars == <<accepted, asking, answer>>

Init ==
  /\ accepted = {}
  /\ asking = [t \in Threads |-> NoKey]
  /\ answer = [t \in Threads |-> "none"]

Ask(t, k) ==
  /\ asking[t] = NoKey
  /\ asking' = [asking EXCEPT ![t] = k]
  /\ UNCHANGED <<accepted, answer>>

AnswerNew(t) ==
  /\ asking[t] \in Keys \ accepted
  /\ accepted' = accepted \cup {asking[t]}
  /\ answer' = [answer EXCEPT ![t] = "new"]
  /\ asking' = [asking EXCEPT ![t] = NoKey]

AnswerSeen(t) ==
  /\ asking[t] \in Keys /\ accepted # {}
  /\ answer' = [answer EXCEPT ![t] = "seen"]
  /\ asking' = [asking EXCEPT ![t] = NoKey]
  /\ UNCHANGED accepted

Next ==
  \E t \in Threads :
    \/ \E k \in Keys : Ask(t, k)
    \/ AnswerNew(t)
    \/ AnswerSeen(t)

Spec == Init /\ [][Next]_vars
=============================================================================
