------------------------------ MODULE Challenge ------------------------------
(***************************************************************************)
(* The challenge-response probe of src/src/challenge.rs as pure operators. *)
(* A comment body is abstracted to what evaluate_reply tells apart: does   *)
(* it contain the canary token of the pull request, and does it have at    *)
(* least five words.  The canary is a hash of salt, repository and number, *)
(* so a pull request has one canary for life and every challenge posted on *)
(* it carries the same one.  Nothing calls evaluate_timeout, so posted_at  *)
(* is left out and no challenge becomes "failed_timeout".                  *)
(***************************************************************************)

\* ChallengeState: the four variants of the enum.
ChallengeState == {"pending", "passed", "failed_canary", "failed_timeout"}

\* What the service writes: the score comment (with its hidden marker), the
\* evidence comment of a label or hold, the challenge, and the message that
\* explains a close.
BotBodies == {"score", "evidence", "challenge", "closing"}

\* What people write: a reply of fewer than five words, one of five or more,
\* and one that reproduces the canary token.
PeopleBodies == {"short", "prose", "parrot"}

Bodies == BotBodies \cup PeopleBodies

\* The bodies whose markdown source contains the canary token: a reply that
\* repeats it, and the challenge itself, which hides it in an HTML comment.
CarriesCanary == {"parrot", "challenge"}

\* A mutant: only the canary resolves a challenge, words never do.
OnlyCanaryResolves(state, body) ==
  IF state = "pending" /\ body \in CarriesCanary THEN "failed_canary" ELSE state

\* A mutant: a terminal state is evaluated again.
EvaluateUnconditionally(state, body) ==
  IF body \in CarriesCanary THEN "failed_canary"
  ELSE IF body # "short" THEN "passed" ELSE state

\* evaluate_reply: terminal states are kept; the canary is looked for first;
\* five words pass; anything shorter keeps waiting.
EvaluateReply(state, body) ==
  IF state # "pending" THEN state
  ELSE IF body \in CarriesCanary THEN "failed_canary"
  ELSE IF body = "short" THEN state ELSE "passed"
=============================================================================
