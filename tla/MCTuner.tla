------------------------------ MODULE MCTuner ------------------------------
(***************************************************************************)
(* An instance of Tuner for TLC: three accounts, one of them with a login  *)
(* that is spelled in two ways, two repositories and two sources; the slop *)
(* is in the first of the two files.                                       *)
(***************************************************************************)
EXTENDS Tuner

MCLogins  == {"a", "A", "b", "c"}
MCAccount == [l \in MCLogins |-> IF l = "A" THEN "a" ELSE l]
MCRepos   == {"r", "s"}
MCSources == {"spray", "merged"}

Rec(slop, source, repo, author, created, history, decided_) ==
  [slop |-> slop, source |-> source, repo |-> repo, author |-> author, created |-> created,
   history |-> {[repo |-> pr[1], created |-> pr[2]] : pr \in history}, decided |-> decided_]

\* Later slop of an account that was ham elsewhere; a pull request without a
\* date; an older ham record below newer slop; one that is closed by policy.
Mixed ==
  << Rec(TRUE, "spray", "r", "a", 2, {<<"r", 2>>, <<"s", 3>>}, "scored"),
     Rec(TRUE, "spray", "s", "A", 3, {}, "scored"),
     Rec(FALSE, "merged", "r", "b", 1, {<<"r", 1>>}, "scored"),
     Rec(FALSE, "merged", "r", "c", 0, {<<"r", 0>>}, "policy-close") >>

\* One repository, everybody's dates, and a maintainer.
OneRepository ==
  << Rec(TRUE, "spray", "r", "b", 3, {}, "scored"),
     Rec(FALSE, "merged", "r", "a", 2, {<<"r", 1>>, <<"r", 2>>}, "exempt"),
     Rec(FALSE, "spray", "r", "A", 1, {<<"r", 1>>, <<"r", 2>>}, "scored"),
     Rec(FALSE, "merged", "r", "c", 2, {<<"r", 2>>}, "scored") >>

\* An account that comes back to one repository: the second of its records was
\* mined without a dossier, the dossier of the third has the first and not the
\* second, and a later one.
Returning ==
  << Rec(TRUE, "spray", "r", "A", 2, {}, "scored"),
     Rec(TRUE, "spray", "r", "b", 2, {<<"r", 2>>}, "scored"),
     Rec(FALSE, "merged", "r", "a", 3, {<<"r", 1>>, <<"r", 3>>, <<"r", 4>>}, "scored"),
     Rec(FALSE, "merged", "r", "a", 1, {<<"r", 1>>, <<"r", 3>>}, "scored") >>

MCCorpora == {Mixed, OneRepository, Returning}
=============================================================================
