----------------------------- MODULE MCHashMap -----------------------------
(* Keys are numbers here so that the functions can be written down.        *)
EXTENDS HashMap

(* Hash values that spread the keys, that put them all into one bucket for *)
(* every listSize, and that keep 2 and 3 apart in a list of eight only.    *)
MCHashCodes == {[k \in Keys |-> k], [k \in Keys |-> 0],
                [k \in Keys |-> <<0, 0, 4, 1, 2>>[k]]}

(* Keys that all begin differently, and keys of which two begin alike.     *)
MCFirstBytes == {[k \in Keys |-> k], [k \in Keys |-> k \div 2]}

Symmetry == Permutations(Values)
=============================================================================
