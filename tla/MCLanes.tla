------------------------------ MODULE MCLanes ------------------------------
(***************************************************************************)
(* An instance of Lanes for TLC: every diff of a few lines over three      *)
(* alphabets, every description of a few tokens, and pull requests that go *)
(* through several versions.                                               *)
(***************************************************************************)
EXTENDS Lanes, TLC

MCLeast ==
  [ windows |-> 2, variety |-> 2, body |-> 1, file |-> 1, camel |-> 1, tabs |-> 1, dquote |-> 1, comments |-> 2,
    slop |-> 2, words |-> 2, density |-> 2 ]

-----------------------------------------------------------------------------
(* Lines *)

Plain ==
  [ looks |-> "plain", shape |-> "code", token |-> TRUE, form |-> "a", def |-> NoDef, names |-> <<>>,
    literals |-> {}, marks |-> {}, indent |-> "none", camel |-> 0, snake |-> 0, dquotes |-> 0, quotes |-> 0,
    words |-> <<>> ]
Blank   == [shape |-> "blank", token |-> FALSE] @@ Plain
Brace   == [form |-> NoForm, token |-> FALSE] @@ Plain
Form(f) == [form |-> f] @@ Plain
Define(name, kind, exported) ==
  [def |-> [name |-> name, kind |-> kind, exported |-> exported], names |-> <<name>>, form |-> name] @@ Plain
Comment(marks, words) == [shape |-> "comment", marks |-> marks, words |-> words] @@ Plain
Marked(form, marks)   == [form |-> form, marks |-> marks] @@ Plain

File(name, lists) == [name |-> name, lists |-> lists, names |-> {}]
Api    == File(<<"api">>, {})
Web    == File(<<"web">>, {})
Tests  == File(<<"tests", "/", "api">>, {"NOT_PRODUCTION", "tests"})
Readme == File(<<"docs", "/", "readme", ".md">>, {"DOC_EXT", "docs"})
Docsify == File(<<"docs", "ify", ".js">>, {})
Lock   == File(<<"app", ".lock">>, {"DATA_EXT", "MARKS"})

Header(path)     == [sign |-> "diff", path |-> path, text |-> Blank]
Mark(sign, text) == [sign |-> sign, path |-> NoPath, text |-> text]
Add(text)        == Mark("+", text)
Old(text)        == Mark(" ", text)
Swallowed_       == [sign |-> "+", path |-> Tests, text |-> [looks |-> "++ "] @@ Form("c")]
Gone             == Mark("-", [looks |-> "--"] @@ Form("d"))

\* Copies and functions in two files; tests, and an added line that looks like a marker.
Copies == {Header(Web), Add(Form("a")), Add(Form("b")), Add(Define("load", "plain", FALSE))}
Tested == Copies \cup {Header(Tests), Swallowed_}

\* Handlers, literals, configuration and documentation, in two files.
Number == [kind |-> "n", value |-> "42"]
Habits == { Header(Web),
            Add(Marked("catch", {"BROAD_CATCH"})), Add(Marked("pass", {"SWALLOW"})),
            Add([literals |-> {Number}] @@ Marked("host", {"CONFIG_MARKERS"})),
            Add(Define("save", "plain", FALSE)), Add(Comment({"DOC_MARKERS"}, <<"save", "data">>)) }

\* The idiom of the file, and words.
Idioms == { Header(Web), Header(Tests),
            Old([indent |-> "space", snake |-> 1, quotes |-> 1] @@ Plain), Add([indent |-> "tab", camel |-> 2, dquotes |-> 1, words |-> <<"data", "run">>] @@ Plain),
            Old(Comment({}, <<>>)), Add(Comment({"PLACEHOLDERS"}, <<"the", "data", "run">>)), Gone }

UpTo(S, n) == UNION {[1 .. k -> S] : k \in 0 .. n}

Diffs ==
  {<<Header(Api)>> \o s : s \in UpTo(Copies, 6) \cup UpTo(Tested, 5) \cup UpTo(Habits, 4)} \cup
  {<<Header(file)>> \o s : file \in {Api, Tests}, s \in UpTo(Idioms, 4)}

\* Three helpers and one call; a call of the tests; two functions with tables.
Helpers(call) ==
  << Header(Api), Add(Define("load", "plain", FALSE)), Add(Form("a")), Add(Define("save", "plain", FALSE)),
     Add(Form("b")), Add(Define("read", "plain", FALSE)), Add(Define("ontick", "entry", FALSE)),
     Add(Define("main", "hook", FALSE)), Add(Define("open", "plain", TRUE)) >> \o call
Call(name) == Add([names |-> <<name>>] @@ Form("call"))
Table == Add(Marked("args", {"DOC_MARKERS"}))
Quotes(marks) == Add(Marked("quotes", {"quotes"} \cup marks))
Documented ==
  << Header(Api), Add(Define("load", "plain", FALSE)), Quotes({"opening quotes"}), Table, Quotes({}),
     Header(Web), Add(Define("save", "plain", FALSE)), Quotes({}), Table >>
MoreDiffs == {Helpers(<<Call("load")>>), Helpers(<<Header(Tests), Call("load")>>), Helpers(<<>>), Documented,
              <<Header(Api), Add(Blank)>>, <<Header(Api), Mark("@@", Blank), Add(Brace)>>}

-----------------------------------------------------------------------------
(* Pull requests *)

PathsOf(diff) == LET hs == SelectSeq(diff, LAMBDA l : l.sign = "diff") IN [i \in DOMAIN hs |-> hs[i].path]
AdditionsOf(diff) == Cardinality({i \in DOMAIN diff : diff[i].sign = "+"})

Body(tokens) ==
  [tokens |-> tokens, words |-> Len(tokens), headers |-> {}, claims |-> FALSE, begs |-> {}, scaffold |-> {}, names |-> <<>>]
NoTitle == [web |-> FALSE, begs |-> {}]
Somebody == [login |-> <<"other">>, agent |-> FALSE, first |-> TRUE]
Branch(name) == [name |-> name, driveby |-> FALSE, agent |-> FALSE]

PullOf(diff) ==
  [ diff |-> diff, paths |-> PathsOf(diff), additions |-> AdditionsOf(diff), deletions |-> 0, commits |-> <<0>>, count |-> 1,
    body |-> Body(<<"text">>), title |-> NoTitle, author |-> Somebody, head |-> Branch(<<"other">>) ]

Small == PullOf(<<Header(Readme), Add(Form("a"))>>)
Large == PullOf(<<Header(Lock), Add(Form("a")), Header(Docsify), Add(Form("b")), Header(Tests), Add(Form("a")), Add(Form("c"))>>)

Described == {[Small EXCEPT !.body = Body(tokens)] : tokens \in UpTo(Token, 5)}

Digits(n) == [i \in 1 .. n |-> "digit"]
Odd ==
  { [Small EXCEPT !.author.login = Digits(1), !.title.web = TRUE, !.head.driveby = TRUE],
    [Small EXCEPT !.author.login = <<"other">> \o Digits(4), !.head.name = <<"other", "separator">> \o Digits(5)],
    [Small EXCEPT !.head.name = Digits(10) \o <<"other">>, !.author.agent = TRUE, !.head.agent = TRUE],
    [Small EXCEPT !.head.name = <<"other">> \o Digits(5), !.title.begs = {"plz merge"}],
    [Small EXCEPT !.body.claims = TRUE, !.body.begs = {"plz merge", "assign me"}, !.body.scaffold = {"## test", "- [x]"}],
    [Small EXCEPT !.body.names = <<"load", "save">>, !.body.words = 151, !.body.headers = {"# Why"}],
    [Small EXCEPT !.commits = <<0, 60>>, !.count = 2, !.additions = 9],
    [Small EXCEPT !.count = 0, !.title.web = TRUE],
    [Large EXCEPT !.commits = <<0, 60, 86400>>, !.count = 3] }

\* Pushes, an edit of the description, and a push that takes the first one back.
Second == PullOf(Helpers(<<Call("load")>>))
Reworded == [Second EXCEPT !.body = Body(<<"<!--", "text">>)]
Changing == { <<Small, Second, Reworded>>, <<Second, Reworded, Large>>, <<Large, Small, Large>>, <<Second, Large, [Large EXCEPT !.title.web = TRUE]>> }

Repository ==
  [ exempt |-> FALSE, mirror |-> FALSE, template |-> {"# Why"},
    protected |-> {[kind |-> "prefix", name |-> <<"docs">>], [kind |-> "suffix", name |-> <<".lock">>],
                   [kind |-> "exact", name |-> <<"api">>]} ]
MCHistories == {<<PullOf(d)>> : d \in Diffs \cup MoreDiffs} \cup {<<p>> : p \in Described \cup Odd} \cup Changing

MCCases ==
  {[config |-> Repository, history |-> h] : h \in MCHistories} \cup
  {[config |-> [Repository EXCEPT !.exempt = TRUE, !.mirror = TRUE], history |-> h] : h \in Changing} \cup
  {[config |-> [Repository EXCEPT !.mirror = TRUE], history |-> h] : h \in Changing}

Symmetry == Permutations(Tasks)
=============================================================================
