----------------------------- MODULE MCCrawler -----------------------------
(* Model values and definitions for the runs of Crawler.                   *)
EXTENDS Crawler, TLC

CONSTANTS u1, u2, u3, u4

Symmetry == Permutations(Urls)

(* Liveness is checked without symmetry.  The tasks are interchangeable,   *)
(* so one order in which they come to exist stands for all of them.        *)
Order == <<u1, u2, u3, u4>>

InOrder ==
  \A i, j \in DOMAIN Order :
    i < j /\ heap[Order[j]] # "none" => heap[Order[i]] # "none"

LiveInit == Init /\ surl_queue \in {<<>>, <<u1>>, <<u1, u2>>}

(* With split updates only three of the tasks come to exist.               *)
FewerIfSplit == rmw = "split" => heap[u4] = "none"

LiveSpec == LiveInit /\ [][Next /\ InOrder' /\ FewerIfSplit']_vars /\ Fairness
=============================================================================
