----------------------------- MODULE Dictionary -----------------------------
(***************************************************************************)
(* What a user of host_ip_map relies on: a finite map from hosts to        *)
(* addresses.  A lookup answers what was put last for that very key.       *)
(***************************************************************************)
CONSTANTS Keys, Values, NoValue

VARIABLES
  dict,    \* the value of each key, NoValue for a key that is not there
  answer,  \* of the last lookup
  alive

vars == <<dict, answer, alive>>

Init ==
  /\ dict = [k \in Keys |-> NoValue]
  /\ answer = NoValue
  /\ alive = TRUE

Lookup(k) ==
  /\ answer' = dict[k]
  /\ UNCHANGED <<dict, alive>>

Put(k, v) ==
  /\ dict' = [dict EXCEPT ![k] = v]
  /\ answer' = NoValue
  /\ UNCHANGED alive

Remove(k) ==
  /\ dict' = [dict EXCEPT ![k] = NoValue]
  /\ answer' = NoValue
  /\ UNCHANGED alive

(* The process may die, but never with a wrong answer on the way. *)
Die == alive' = FALSE

Next ==
  \/ alive /\ \E k \in Keys : Lookup(k) \/ Remove(k)
  \/ alive /\ \E k \in Keys, v \in Values : Put(k, v)
  \/ Die

Spec == Init /\ [][Next]_vars
=============================================================================
