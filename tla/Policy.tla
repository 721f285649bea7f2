------------------------------- MODULE Policy -------------------------------
(***************************************************************************)
(* The policy lane (policy.rs) and the rules of the pipeline that read the *)
(* description and the commits (pipeline.rs).  A pull request is a record  *)
(* of what they read: titles, bodies, paths and branches carry the phrases *)
(* and lists that they match, and, where the code counts, a sequence.      *)
(***************************************************************************)
EXTENDS Structure

CONSTANTS
  ENORMOUS_FLOOR, ENORMOUS_CEIL,  \* 2000 and 50000 added lines
  MIN_ADDITIONS                   \* 200: the additions below which the pace of the commits says nothing

\* path_matches: a pattern is "*ext", "dir/*" or a path.
PathMatches(pattern, path) ==
  CASE pattern.kind = "suffix" -> IsSuffix(pattern.name, path.name)
    [] pattern.kind = "prefix" -> IsPrefix(pattern.name, path.name) /\ Len(path.name) > Len(pattern.name) + 1
    [] pattern.kind = "exact"  -> pattern.name = path.name

On(path, list) == list \in path.lists

MostlyUnauthored(paths) == 2 * CountOf(paths, LAMBDA p : On(p, "MARKS")) > Len(paths)

TemplateIgnored(template, body) == template /= {} /\ template \cap body.headers = {}

-----------------------------------------------------------------------------
(* The body *)

\* "<!-->" is an opener that closes itself.
Token == {"<!--", "<!-->", "-->", "text"}

Opening(token) == token \in {"<!--", "<!-->"}
Closing(token) == token \in {"-->", "<!-->"}

CharsOf(token) ==
  CASE token = "<!--" -> 4 [] token = "<!-->" -> 5 [] token = "-->" -> 3 [] token = "text" -> 1

\* The characters of the tokens at the places; one is a place and its number there.
CharsAt(tokens, places) == Cardinality(UNION {{i} \X (1 .. CharsOf(tokens[i])) : i \in places})

Chars(tokens) == CharsAt(tokens, DOMAIN tokens)

Closes(tokens, start) == {i \in start .. Len(tokens) : Closing(tokens[i])}

\* A mutant: a comment that is never closed is text.
ClosedEnd(tokens, start) == IF Closes(tokens, start) = {} THEN start ELSE Min(Closes(tokens, start))

\* A comment that is never closed runs to the end.
CommentEnd(tokens, start) == IF Closes(tokens, start) = {} THEN Len(tokens) ELSE Min(Closes(tokens, start))

\* html_comment_fraction, slice by slice: the characters in comments.
Commented(tokens) ==
  LET opens(r) == {i \in r .. Len(tokens) : Opening(tokens[i])}
      inside[r \in 1 .. Len(tokens) + 1] ==
        IF opens(r) = {} THEN 0
        ELSE LET start == Min(opens(r))
                 end   == CommentEnd(tokens, start)
             IN  CharsAt(tokens, start .. end) + inside[end + 1]
  IN  inside[1]

TemplateUnfilled(body) ==
  LET inside == Commented(body.tokens)
      total  == Chars(body.tokens)
  IN  When(total > 0 /\ 10 * inside >= 6 * total, Fire("TEMPLATE_UNFILLED", inside, total))

-----------------------------------------------------------------------------
(* Branches and logins, as sequences of classes of characters *)

TrailingDigits(name) == Len(name) - Max({0} \cup Places(name, LAMBDA c : c /= "digit"))

DigitRun(name, n) == \E i \in 1 .. Len(name) - n + 1 : \A k \in i .. i + n - 1 : name[k] = "digit"

BranchGenerated(head) ==
  LET trailing == TrailingDigits(head)
  IN  \/ DigitRun(head, 10)
      \/ trailing >= 5 /\ trailing < Len(head) /\ head[Len(head) - trailing] = "separator"

UsernameGenerated(login) ==
  /\ login /= <<>>
  /\ \/ TrailingDigits(login) >= 4
     \/ 10 * CountOf(login, LAMBDA c : c = "digit") > 4 * Len(login)

-----------------------------------------------------------------------------
(* The rules *)

ClaimsUntouchedTests(pr, paths) == pr.body.claims /\ ~\E p \in Range(paths) : On(p, "tests")

\* The value of DIFF_ENORMOUS is a ratio of logarithms; the ratio of the lines
\* stands for it, which orders the pull requests in the same way.
Enormous(pr, paths) ==
  When(pr.additions >= ENORMOUS_FLOOR /\ ~MostlyUnauthored(paths),
       Fire("DIFF_ENORMOUS", pr.additions - ENORMOUS_FLOOR, ENORMOUS_CEIL - ENORMOUS_FLOOR))

BodyToDiffRatio(pr) ==
  LET churn == pr.additions + pr.deletions
  IN  When(churn > 0 /\ churn < 20 /\ pr.body.words > 150,
           Fire("BODY_TO_DIFF_RATIO", pr.body.words, 100 * churn))

Begging(pr) ==
  LET phrases == pr.body.begs \cup pr.title.begs
  IN  When(phrases /= {}, Fire("BEGGING", Cardinality(phrases), 2))

\* The payload's count of the commits, or where it has none that of the commits
\* that were read, each of which is taken to be dated.
CommitCount(pr, times) == IF pr.count > 0 THEN pr.count ELSE Len(times)

\* What the pull request came with, and the paths that the pipeline was given.
ShapeRules(pr, paths, times) ==
  UNION { When(pr.head.driveby, Hit("BRANCH_DRIVE_BY")),
          When(pr.title.web, Hit("TITLE_UPDATE_FILE")),
          When(pr.title.web /\ CommitCount(pr, times) = 1, Hit("SINGLE_WEB_COMMIT")),
          TemplateUnfilled(pr.body),
          When(ClaimsUntouchedTests(pr, paths), Hit("BODY_DIFF_MISMATCH")),
          Enormous(pr, paths), BodyToDiffRatio(pr), Begging(pr),
          When(UsernameGenerated(pr.author.login), Hit("USERNAME_PATTERN")),
          When(pr.head.agent, Hit("AGENT_BRANCH")),
          When(pr.author.agent, Hit("AGENT_ACCOUNT")),
          When(BranchGenerated(pr.head.name), Hit("BRANCH_GENERATED")),
          When(Cardinality(pr.body.scaffold) >= 2, Fire("BODY_SCAFFOLD", Cardinality(pr.body.scaffold), 4)) }

ProtectedOnly(config, paths) ==
  \A p \in Range(paths) : \E pattern \in config.protected : PathMatches(pattern, p)

\* evaluate, where the repository takes pull requests.
PolicyRules(config, pr, paths, times) ==
  UNION { When(pr.author.first /\ paths /= <<>> /\ ProtectedOnly(config, paths), Hit("PROTECTED_PATH_ONLY")),
          When(paths /= <<>> /\ \A p \in Range(paths) : On(p, "docs"), Hit("DOCS_ONLY")),
          When(pr.body.tokens = <<>>, Hit("BODY_EMPTY")),
          When(pr.body.tokens /= <<>> /\ TemplateIgnored(config.template, pr.body), Hit("TEMPLATE_IGNORED")),
          ShapeRules(pr, paths, times) }

-----------------------------------------------------------------------------
(* The rules of the pipeline itself *)

\* Two names of code or more in the body, and none in the diff or the paths.
GroundingMiss(body, diff, paths) ==
  /\ Len(body.names) >= 2
  /\ \A n \in Range(body.names) :
       /\ \A l \in Range(diff) : n \notin Range(l.text.names)
       /\ \A p \in Range(paths) : n \notin p.names

\* Lines an hour over the span of the commits, a minute at the least; the ratio
\* of the rates stands for that of their logarithms.
AuthoringRate(times, additions) ==
  LET span == Max({60, Max(Range(times)) - Min(Range(times))})
  IN  IF Len(times) < 2 \/ additions < MIN_ADDITIONS THEN {}
      ELSE When(additions * 3600 >= 500 * span, Fire("AUTHORING_RATE", additions * 3600, 4000 * span))

\* What process reads off the payload, the diff, the files and the commits.
LaneRules(config, pr, diff, paths, times) ==
  UNION { PolicyRules(config, pr, paths, times),
          When(WhitespaceOnly(diff), Hit("WHITESPACE_ONLY")),
          CommentDensity(diff),
          When(GroundingMiss(pr.body, diff, paths), Hit("GROUNDING_MISS")),
          AuthoringRate(times, pr.additions),
          SlopRules(diff), StructRules(diff) }
=============================================================================
