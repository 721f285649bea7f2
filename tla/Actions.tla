------------------------------- MODULE Actions -------------------------------
(***************************************************************************)
(* src/src/actions.rs: how a verdict becomes a planned action.  A planned  *)
(* action is its variant and whether a hold carries a challenge comment;   *)
(* the texts of the comments are left out.                                 *)
(***************************************************************************)

\* engine::Tier
Tiers == {"pass", "label", "hold", "close"}

\* The variants of PlannedAction that plan can return.
PlannedAction == [act : {"none", "comment", "label", "hold", "close"}, probe : BOOLEAN]

Planned(act, probe) == [act |-> act, probe |-> probe]

\* The action a tier asks for before dry run is considered.  The tier's name
\* is its action's, but for pass, which is a comment or silence.
Intended(tier, probe, score_comments) ==
  IF tier = "pass" THEN Planned(IF score_comments THEN "comment" ELSE "none", FALSE)
  ELSE Planned(tier, tier = "hold" /\ probe)

\* A mutant: dry run holds back a close but not a hold.
DryRunOnlyForClose(tier, probe, dry_run, score_comments) ==
  LET action == Intended(tier, probe, score_comments)
  IN  IF dry_run /\ action.act = "close" THEN Planned("label", FALSE) ELSE action

\* plan: in dry run a pass keeps its score comment (or silence) and every
\* other action is annotated by a label and a comment that says what would
\* have been done.
Plan(tier, probe, dry_run, score_comments) ==
  LET action == Intended(tier, probe, score_comments)
  IN  IF dry_run /\ tier # "pass" THEN Planned("label", FALSE) ELSE action
=============================================================================
