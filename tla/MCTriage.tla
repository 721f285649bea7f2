------------------------------ MODULE MCTriage ------------------------------
(* Instances of Triage for TLC. *)
EXTENDS Triage, TLC

Symmetry == Permutations(Tasks)

\* Enforcing with the probe and score comments; enforcing in silence, with everybody
\* exempt and no label; a mirror that exempts nobody; a mirror in dry run.
Enforcing == [DefaultConfig EXCEPT !.dry_run = FALSE]
Silent    == [dry_run |-> FALSE, score_comments |-> FALSE, challenge |-> FALSE, mirror |-> FALSE,
              exempt_users |-> Authors, exempt_labels |-> {}]
Mirror    == [Enforcing EXCEPT !.mirror = TRUE, !.exempt_users = {}]
DryMirror == [DefaultConfig EXCEPT !.mirror = TRUE]

AllConfigs == {DefaultConfig, Enforcing, Silent, Mirror, DryMirror}
HoldConfigs == {DefaultConfig, Enforcing}
=============================================================================
