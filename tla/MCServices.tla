----------------------------- MODULE MCServices -----------------------------
(* Two clients, three nicknames, one mail contact that the file knows and *)
(* one it does not.                                                       *)
EXTENDS Services, TLC

CONSTANTS c1, c2, n1, n2, n3, e1, e2, m1

MCAddr == 1..3
MCMatches == [c \in {c1, c2} |-> {m1}]
Twins == Permutations({c1, c2})

Line(n, parent, intflags, last, alist) ==
  [name |-> n, email |-> e1, parent |-> parent, flags |-> NoFlags,
   intflags |-> intflags, last |-> last, alist |-> alist]

\* a nickname that is active, and one with a link
MCFiles ==
  {[mail |-> {e1}, nicks |-> <<Line(n1, None, {"ACTIVATED"}, 0, {m1})>>],
   [mail |-> {e1}, nicks |-> <<Line(n1, None, {"ACTIVATED"}, 0, {}),
                               Line(n2, n1, {"ACTIVATED"}, 0, {})>>]}
=============================================================================
