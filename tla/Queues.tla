------------------------------- MODULE Queues -------------------------------
(***************************************************************************)
(* Removal from the lists of include/ithildin/queue.h, told by the places  *)
(* that remain.                                                            *)
(***************************************************************************)
EXTENDS Integers, Sequences, FiniteSets

\* The n-th of a set of places.
Nth(places, n) == CHOOSE i \in places : Cardinality({j \in places : j <= i}) = n

\* SLIST_REMOVE, LIST_REMOVE or TAILQ_REMOVE of each element in gone: those that
\* remain keep their order.
Staying(list, gone) == {i \in DOMAIN list : list[i] \notin gone}
Without(list, gone) ==
  [n \in 1..Cardinality(Staying(list, gone)) |-> list[Nth(Staying(list, gone), n)]]
=============================================================================
