----------------------------- MODULE MCClusters -----------------------------
(* Instances of Clusters for TLC. *)
EXTENDS Clusters, TLC

CONSTANTS r1, ann, bob, cat

Sig(repo, author, stranger, diff, text) ==
  [repo |-> repo, author |-> author, stranger |-> stranger, arrived |-> 0,
   diff |-> diff, text |-> text]

\* One repository: two strangers and a known contributor.  2 joins 1 and 3,
\* which are not near; one signature is joined by its text only, one by
\* both channels.
Wave == {Sig(r1, ann, TRUE, 1, None), Sig(r1, bob, TRUE, 2, None), Sig(r1, ann, TRUE, 3, None),
         Sig(r1, cat, FALSE, None, 1), Sig(r1, bob, TRUE, 3, 1)}

Symmetry == Permutations(Tasks)
=============================================================================
