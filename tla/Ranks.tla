------------------------------- MODULE Ranks --------------------------------
(***************************************************************************)
(* What bounds a computation: a rank, a sequence of natural numbers of a   *)
(* fixed length.  Ranks are compared from the front, and a rank cannot go  *)
(* down for ever.                                                          *)
(***************************************************************************)
EXTENDS Naturals, Sequences

IsRank(r) == \A k \in DOMAIN r : r[k] \in Nat

(* The next rank is below this one: less in one place, alike before it.    *)
Descends(rank, next) ==
  /\ IsRank(rank) /\ IsRank(next) /\ DOMAIN next = DOMAIN rank
  /\ \E k \in DOMAIN rank :
       next[k] < rank[k] /\ \A j \in DOMAIN rank : j < k => next[j] = rank[j]
=============================================================================
