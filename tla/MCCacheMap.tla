------------------------------ MODULE MCCacheMap ------------------------------
(* Callers are interchangeable. *)
EXTENDS CacheMap, TLC

CallersAlike == Permutations(Callers)
===============================================================================
