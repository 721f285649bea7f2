------------------------------- MODULE Lanes -------------------------------
(***************************************************************************)
(* The lanes at work: a pull request changes on GitHub while the handlers  *)
(* of its events read it.  A handler has the title, the body and the size  *)
(* from the payload, of the moment of the event; the diff, the files and   *)
(* the commits it fetches one after the other, each as it is by then.      *)
(* What is done with the verdict is the matter of Triage.                  *)
(***************************************************************************)
EXTENDS Policy

CONSTANTS
  Tasks,  \* the handlers at work at one time
  PAGE,   \* the files, and the commits, on a first page: 100
  Cases   \* configurations, with the versions that a pull request goes through

\* git opens a diff, and each file in it, with a header that names the file.
Headed(diff) ==
  /\ diff /= <<>> => diff[1].sign = "diff"
  /\ \A i \in DOMAIN diff : diff[i].sign = "diff" => diff[i].path /= NoPath

ASSUME LanesAssumption ==
  \A c \in Cases :
    /\ c.history \in Seq(Range(c.history)) /\ c.history /= <<>>
    /\ \A pr \in Range(c.history) : pr.diff \in Seq(Line) /\ Headed(pr.diff) /\ pr.body.tokens \in Seq(Token)
    /\ \A pr, old \in Range(c.history) : pr.diff = old.diff => pr.paths = old.paths

VARIABLES
  config,     \* the repository's
  history,    \* what becomes of the pull request
  at,         \* the version it is in
  events,     \* the deliveries that wait
  tasks,      \* the handlers
  verdicts,   \* what was judged
  lost        \* the events whose handler failed

vars == <<config, history, at, events, tasks, verdicts, lost>>

Pull == history[at]

Event(action, version) == [action |-> action, at |-> version]

Task(stage, event, diff, paths, times) ==
  [stage |-> stage, event |-> event, diff |-> diff, paths |-> paths, times |-> times]

Start(event) == Task("diff", event, <<>>, <<>>, <<>>)
Idle         == Task("idle", Event("none", 0), <<>>, <<>>, <<>>)

FirstPage(seq) == SubSeq(seq, 1, Min({Len(seq), PAGE}))

Init ==
  /\ \E c \in Cases : config = c.config /\ history = c.history
  /\ at = 1
  /\ events = {Event("opened", 1)}
  /\ tasks = [t \in Tasks |-> Idle]
  /\ verdicts = {} /\ lost = {}

-----------------------------------------------------------------------------
(* GitHub *)

\* A change of the code is a push; a change of the rest is an edit, or comes
\* with the pull request being reopened or made ready.
ActionsOf(old, new) ==
  IF old.diff /= new.diff THEN {"synchronize"} ELSE {"edited", "reopened", "ready_for_review"}

Change ==
  /\ at < Len(history)
  /\ at' = at + 1
  /\ \E action \in ActionsOf(history[at], history[at + 1]) : events' = events \cup {Event(action, at + 1)}
  /\ UNCHANGED <<config, history, tasks, verdicts, lost>>

-----------------------------------------------------------------------------
(* The service *)

\* A mutant: a push that is not rescored.
IsOpening(action) == action \in {"opened", "reopened", "ready_for_review"}

IsScorable(action) == action \in {"opened", "reopened", "synchronize", "ready_for_review"}

\* Deliveries come in any order; each has a handler of its own.
Receive(t) ==
  \E e \in events :
    /\ tasks[t] = Idle
    /\ events' = events \ {e}
    /\ tasks' = IF IsScorable(e.action) THEN [tasks EXCEPT ![t] = Start(e)] ELSE tasks
    /\ UNCHANGED <<config, history, at, verdicts, lost>>

ReadDiff(t) ==
  /\ tasks[t].stage = "diff"
  /\ tasks' = [tasks EXCEPT ![t] = Task("files", @.event, Pull.diff, @.paths, @.times)]
  /\ UNCHANGED <<config, history, at, events, verdicts, lost>>

ReadFiles(t) ==
  /\ tasks[t].stage = "files"
  /\ tasks' = [tasks EXCEPT ![t] = Task("commits", @.event, @.diff, FirstPage(Pull.paths), @.times)]
  /\ UNCHANGED <<config, history, at, events, verdicts, lost>>

ReadCommits(t) ==
  /\ tasks[t].stage = "commits"
  /\ tasks' = [tasks EXCEPT ![t] = Task("judge", @.event, @.diff, @.paths, FirstPage(Pull.commits))]
  /\ UNCHANGED <<config, history, at, events, verdicts, lost>>

\* An error of a fetch ends the handler; the event is not tried again.
Fail(t) ==
  /\ tasks[t].stage \in {"diff", "files", "commits"}
  /\ lost' = lost \cup {tasks[t].event}
  /\ tasks' = [tasks EXCEPT ![t] = Idle]
  /\ UNCHANGED <<config, history, at, events, verdicts>>

\* process: the exemption, the policy close, the rules.
Outcome(task) ==
  LET pr == history[task.event.at]
  IN  CASE config.exempt                  -> [kind |-> "exempt"]
        [] ~config.exempt /\ config.mirror  -> [kind |-> "policy-close"]
        [] ~config.exempt /\ ~config.mirror ->
             [ kind  |-> "scored", event |-> task.event, diff |-> task.diff, paths |-> task.paths,
               fires |-> LaneRules(config, pr, task.diff, task.paths, task.times) ]

Judge(t) ==
  /\ tasks[t].stage = "judge"
  /\ verdicts' = verdicts \cup {Outcome(tasks[t])}
  /\ tasks' = [tasks EXCEPT ![t] = Idle]
  /\ UNCHANGED <<config, history, at, events, lost>>

Next ==
  \/ Change
  \/ \E t \in Tasks : Receive(t) \/ ReadDiff(t) \/ ReadFiles(t) \/ ReadCommits(t) \/ Fail(t) \/ Judge(t)

Spec == Init /\ [][Next]_vars

-----------------------------------------------------------------------------
(* Properties *)

Settled == events = {} /\ tasks = [t \in Tasks |-> Idle]
Scored  == {v \in verdicts : v.kind = "scored"}

Pushed(i)     == i = 1 \/ history[i].diff /= history[i - 1].diff
IsLastPush(p) == p \in 1 .. at /\ Pushed(p) /\ \A i \in p + 1 .. at : ~Pushed(i)

\* Whatever the handlers' interleaving, once nothing is under way the code that
\* is on GitHub has been judged, all of it by one handler, unless the handler of
\* the last push failed (webhook.rs is_scorable_action, score_and_act's fetches).
LastPushJudged ==
  Settled /\ ~config.exempt /\ ~config.mirror /\ (\A e \in lost : ~IsLastPush(e.at))
    => \E v \in Scored : v.diff = Pull.diff /\ v.paths = FirstPage(Pull.paths)

\* The headers of a diff, by position.
Headers(diff)      == {i \in DOMAIN diff : diff[i].sign = "diff"}
HeaderOf(diff, i)  == diff[Max({j \in Headers(diff) : j <= i})]
ProductionOf(diff) == Kept(diff, {i \in DOMAIN diff : IsProductionSource(HeaderOf(diff, i).path)})

Structural(fires) == {f \in fires : f.rule \in
  {"CODE_DUP_BLOCK", "CODE_DUP_FUNC", "CODE_MAGIC_NUMBER", "CODE_REPEAT_LITERAL", "CODE_HARDCODED_CONFIG",
   "CODE_BLANKET_CATCH", "CODE_DOC_SCAFFOLD", "CODE_DEAD_HELPER", "CODE_STYLE_DRIFT"}}

\* "Everything here reads production source only" (codestruct.rs): the structural
\* rules of a diff are those of its production files, whatever the lines of a file
\* look like.  CODE_DEAD_HELPER is apart: it looks for calls in the whole diff.
ProductionOnly ==
  \A v \in Scored :
    {f \in Structural(v.fires) : f.rule /= "CODE_DEAD_HELPER"}
      = {f \in StructRules(ProductionOf(v.diff)) : f.rule /= "CODE_DEAD_HELPER"}

\* A diff with the files from i to j and those from j to k exchanged.
Exchanged(diff, i, j, k) ==
  SubSeq(diff, 1, i - 1) \o SubSeq(diff, j, k - 1) \o SubSeq(diff, i, j - 1) \o SubSeq(diff, k, Len(diff))

\* The order of the files is no evidence: no window, body, handler or documentation
\* of the structural lane runs from one file into the next, and a copy counts
\* whichever file comes first (codestruct.rs), up to MAX_FUNCS functions.
FileOrderIsNoEvidence ==
  \A v \in Scored : Cardinality(AllStarts(Production(v.diff))) <= MAX_FUNCS =>
    \A i, j \in Headers(v.diff), k \in Headers(v.diff) \cup {Len(v.diff) + 1} :
      i < j /\ j < k => Structural(v.fires) = StructRules(Exchanged(v.diff, i, j, k))

\* A token of the body is in a comment when one was opened at it or before it, and
\* not closed between: TEMPLATE_UNFILLED is the share of those characters
\* (policy.rs html_comment_fraction), of the body that came with the event.
InComment(tokens, i) ==
  \E j \in 1 .. i : Opening(tokens[j]) /\ \A k \in j .. i - 1 : ~Closing(tokens[k])

UnfilledIsTheCommentedShare ==
  \A v \in Scored :
    LET tokens == history[v.event.at].body.tokens
        inside == CharsAt(tokens, {i \in DOMAIN tokens : InComment(tokens, i)})
    IN  {f \in v.fires : f.rule = "TEMPLATE_UNFILLED"}
          = When(tokens /= <<>> /\ 10 * inside >= 6 * Chars(tokens), Fire("TEMPLATE_UNFILLED", inside, Chars(tokens)))
=============================================================================
