---------------------------- MODULE MCFederation ----------------------------
\* An instance of Federation: two installations of one owner and one of another.
EXTENDS Federation

MCOwner == [a1 |-> "org-a", a2 |-> "org-a", b1 |-> "org-b"]

V(installation, strength, expires) ==
  [installation |-> installation, author |-> "ghost", strength |-> strength, expires |-> expires]

MCVerdicts ==
  {V("a1", 9, 2), V("a1", 4, 2), V("a2", 6, 1), V("b1", 8, 2), [V("b1", 7, 2) EXCEPT !.author = "someone"]}
=============================================================================
