-------------------------- MODULE MCBloomFilter --------------------------
(* Every family of hash functions into the table, with one value beyond    *)
(* its size.                                                               *)
EXTENDS BloomFilter

MCHashFunctions == [Keys -> [Rounds -> 0 .. LIMIT]]
=============================================================================
