----------------------------- MODULE Structure -----------------------------
(***************************************************************************)
(* The lexical rules over a unified diff: the structural lane              *)
(* (codestruct.rs), the content tells (codeslop.rs) and the two measures   *)
(* of diffsig.rs that are rules.  A line of text is a record of what the   *)
(* rules read off it, a path one of the lists of the source that it is on. *)
(* A fire is a rule and a value, a fraction that is kept as a pair.        *)
(***************************************************************************)
EXTENDS Integers, Sequences, FiniteSets, SequencesExt, FiniteSetsExt, Functions

CONSTANTS
  MIN_CODE_LINES, WINDOW, MAX_FUNCS, MAX_BODY,  \* 20, 5, 60 and 60
  Least,            \* the other minima: windows, variety, body, file, camel, tabs, dquote, comments, slop, words, density
  STOPWORDS, GENERIC_WORDS

ASSUME StructureAssumption == WINDOW \in Nat \ {0} /\ MAX_FUNCS \in Nat \ {0}

NoPath == [name |-> <<>>, lists |-> {}, names |-> {}]
NoForm == "short"
NoDef  == [name |-> "", kind |-> "none", exported |-> FALSE]

\* What the rules read off a line: how it starts, its shape, normalize, what it
\* defines, the names in it, its literals, the lists of markers that it matches
\* and the counts of idiom_of.
Text ==
  [ looks    : {"plain", "++", "++ ", "--"},
    shape    : {"blank", "comment", "code"},
    token    : BOOLEAN,
    form     : STRING,
    def      : [name : STRING, kind : {"plain", "hook", "entry", "none"}, exported : BOOLEAN],
    names    : Seq(STRING),
    literals : SUBSET [kind : {"n", "s"}, value : STRING],
    marks    : SUBSET {"declaration", "constant", "CONFIG_MARKERS", "CONFIG_SOURCE", "BROAD_CATCH", "SWALLOW",
                       "DOC_MARKERS", "quotes", "opening quotes", "PLACEHOLDERS"},
    indent   : {"none", "space", "tab"},
    camel    : Nat, snake : Nat, dquotes : Nat, quotes : Nat,
    words    : Seq(STRING) ]

\* A path: its parts, the lists that it matches and the names in it.
Path ==
  [ name  : Seq(STRING),
    lists : SUBSET {"DOC_EXT", "DATA_EXT", "NOT_AUTHORED", "NOT_PRODUCTION", "MARKS", "docs", "tests"},
    names : SUBSET STRING ]

\* A line of the diff: the path is that of a header or marker.
Line ==
  [sign : {"diff", "+++", "@@", "+", "-", " "}, path : Path, text : Text]

Fire(rule, n, d) == [rule |-> rule, value |-> IF n >= d THEN <<1, 1>> ELSE <<n, d>>]
Hit(rule)        == Fire(rule, 1, 1)
When(condition, fire) == IF condition THEN {fire} ELSE {}

Places(seq, Is(_))  == {i \in DOMAIN seq : Is(seq[i])}
CountOf(seq, Is(_)) == Cardinality(Places(seq, Is))
Mapped(seq, Op(_))  == [i \in DOMAIN seq |-> Op(seq[i])]
Total(seq, Op(_))   == MapThenSumSet(LAMBDA i : Op(seq[i]), DOMAIN seq)

\* The elements of sets, each with the place of its set.
Spots(sets) == UNION {{k} \X sets[k] : k \in DOMAIN sets}

\* What is at the places of a sequence, in its order.
Kept(seq, places) ==
  FoldLeft(LAMBDA kept, i : IF i \in places THEN Append(kept, seq[i]) ELSE kept, <<>>, [i \in DOMAIN seq |-> i])

IsCode(t)    == t.shape = "code"
IsComment(t) == t.shape = "comment"
Written(t)   == t.shape /= "blank"

-----------------------------------------------------------------------------
(* The files of a diff *)

Unnamed == [path |-> NoPath, added |-> <<>>, existing |-> <<>>]

\* A mutant: a file without added lines is passed over.
BegunWhenAdded(f) == f.added /= <<>>

Begun(f) == f.path /= NoPath \/ f.added /= <<>>

\* An added line that starts with "++ " is taken for a file marker, and a removed
\* line that starts with "--" for one too.
FileMarker(l) == l.sign = "+++" \/ (l.sign = "+" /\ l.text.looks = "++ ")
Skipped(l)    == l.sign = "@@" \/ (l.sign = "-" /\ l.text.looks = "--")

SplitLine(split, l) ==
  CASE l.sign = "diff" /\ Begun(split.cur) ->
         [files |-> Append(split.files, split.cur), cur |-> [Unnamed EXCEPT !.path = l.path]]
    [] l.sign = "diff" /\ ~Begun(split.cur) -> [split EXCEPT !.cur.path = l.path]
    [] FileMarker(l) -> IF split.cur.path = NoPath THEN [split EXCEPT !.cur.path = l.path] ELSE split
    [] Skipped(l)    -> split
    [] l.sign = "+" /\ ~FileMarker(l) -> [split EXCEPT !.cur.added = Append(@, l.text)]
    [] l.sign \in {"-", " "} /\ ~Skipped(l) -> [split EXCEPT !.cur.existing = Append(@, l.text)]

Split(diff) == FoldLeft(LAMBDA split, l : SplitLine(split, l), [files |-> <<>>, cur |-> Unnamed], diff)

Closed(split) == IF Begun(split.cur) THEN Append(split.files, split.cur) ELSE split.files

SplitFiles(diff) == Closed(Split(diff))

IsProductionSource(path) ==
  path.lists \cap {"DOC_EXT", "DATA_EXT", "NOT_AUTHORED", "NOT_PRODUCTION"} = {}

ProductionAmong(files) == Kept(files, {k \in DOMAIN files : IsProductionSource(files[k].path)})

Production(diff) == ProductionAmong(SplitFiles(diff))

\* The added lines of some kind, by file and line.
Added(prod, Is(_)) == Spots(Mapped(prod, LAMBDA f : Places(f.added, Is)))

CodeLines(prod) == Cardinality(Added(prod, IsCode))

BodyLines(lines) ==
  Mapped(Kept(lines, Places(lines, LAMBDA t : IsCode(t) /\ t.form /= NoForm)), LAMBDA t : t.form)

-----------------------------------------------------------------------------
(* Copies *)

\* The windows of a file, by the line that they start with.
WindowsOf(lines) ==
  LET norm      == BodyLines(lines)
      window(i) == SubSeq(norm, i, i + WINDOW - 1)
      varied(i) == Cardinality(Range(window(i))) >= Least.variety
  IN  [i \in {k \in 1 .. Len(norm) - WINDOW + 1 : varied(k)} |-> window(i)]

\* A mutant: the lines of all files as one text.
WindowsAcross(prod) == <<WindowsOf(FlattenSeq(Mapped(prod, LAMBDA f : f.added)))>>

Windows(prod) == Mapped(prod, LAMBDA f : WindowsOf(f.added))

\* A window is a repeat unless it is the first of its kind.
DupBlock(prod) ==
  LET windows == Windows(prod)
      all     == Cardinality(Spots(Mapped(windows, LAMBDA w : DOMAIN w)))
      repeats == all - Cardinality(UNION {Range(w) : w \in Range(windows)})
  IN  When(all >= Least.windows /\ 100 * repeats >= 15 * all, Fire("CODE_DUP_BLOCK", 2 * repeats, all))

Alike(a, b) ==
  LET union == Range(a) \cup Range(b)
  IN  union /= {} /\ 100 * Cardinality(Range(a) \cap Range(b)) >= 85 * Cardinality(union)

DupFunc(funcs) ==
  LET long  == {p \in DOMAIN funcs : Len(funcs[p].body) >= Least.body}
      pairs == {{q[1], q[2]} : q \in {r \in long \X long : r[1] /= r[2] /\ Alike(funcs[r[1]].body, funcs[r[2]].body)}}
  IN  When(pairs /= {}, Fire("CODE_DUP_FUNC", Cardinality(pairs), 3))

-----------------------------------------------------------------------------
(* Literals and configuration *)

IsDeclaration(t) == "declaration" \in t.marks

MagicNumber(prod) ==
  LET magic(t) == IsCode(t) /\ t.marks \cap {"declaration", "constant"} = {} /\ \E l \in t.literals : l.kind = "n"
      hits     == Cardinality(Added(prod, magic))
  IN  When(10 * hits >= CodeLines(prod), Fire("CODE_MAGIC_NUMBER", 2 * hits, CodeLines(prod)))

RepeatedLiteral(prod) ==
  LET literals == UNION {UNION {t.literals : t \in Range(f.added)} : f \in Range(prod)}
      uses(l)  == Cardinality(Added(prod, LAMBDA t : IsCode(t) /\ ~IsDeclaration(t) /\ l \in t.literals))
      repeated == {l \in literals : uses(l) >= 3}
  IN  When(repeated /= {}, Fire("CODE_REPEAT_LITERAL", Cardinality(repeated), 3))

HardcodedConfig(prod) ==
  LET config(t) == IsCode(t) /\ t.marks \cap {"CONFIG_SOURCE", "CONFIG_MARKERS"} = {"CONFIG_MARKERS"}
      hits      == Cardinality(Added(prod, config))
  IN  When(hits >= 2, Fire("CODE_HARDCODED_CONFIG", hits, 4))

-----------------------------------------------------------------------------
(* Handlers and documentation *)

\* The next line of code after a broad handler, in its file.
Swallowed(lines, i) ==
  LET rest == {j \in i + 1 .. Len(lines) : IsCode(lines[j])}
  IN  rest /= {} /\ "SWALLOW" \in lines[Min(rest)].marks

BlanketCatch(prod) ==
  LET broad(f)  == Places(f.added, LAMBDA t : "BROAD_CATCH" \in t.marks)
      broads    == Cardinality(Spots(Mapped(prod, broad)))
      swallowed == Cardinality(Spots(Mapped(prod, LAMBDA f : {i \in broad(f) : Swallowed(f.added, i)})))
  IN  When(broads >= 2, Fire("CODE_BLANKET_CATCH", broads + swallowed, 4))

\* A parameter table in the four lines after the definition: in a comment, or
\* after an odd number of lines with triple quotes.
Scaffolded(lines, start) ==
  \E i \in start + 1 .. Min({start + 4, Len(lines)}) :
    /\ "DOC_MARKERS" \in lines[i].marks
    /\ \/ IsComment(lines[i])
       \/ "opening quotes" \in lines[i].marks
       \/ Cardinality({j \in start + 1 .. i : "quotes" \in lines[j].marks}) % 2 = 1

-----------------------------------------------------------------------------
(* Functions *)

Starts(f) == Places(f.added, LAMBDA t : IsCode(t) /\ t.def /= NoDef)

\* The function that starts at the line s of a file: its body ends before the next
\* function, after MAX_BODY lines or with the file.
FunctionAt(f, s) ==
  LET past == Min({m \in Starts(f) : m > s} \cup {s + MAX_BODY, Len(f.added) + 1})
  IN  [ def        |-> f.added[s].def,
        body       |-> BodyLines(SubSeq(f.added, s + 1, past - 1)),
        documented |-> Scaffolded(f.added, s) ]

AllStarts(prod) == Spots(Mapped(prod, Starts))

Before(p, q) == p[1] < q[1] \/ (p[1] = q[1] /\ p[2] < q[2])

\* The first MAX_FUNCS functions, by the file and the line that they start with.
Functions(prod) ==
  LET first == {p \in AllStarts(prod) : Cardinality({q \in AllStarts(prod) : Before(q, p)}) < MAX_FUNCS}
  IN  [p \in first |-> FunctionAt(prod[p[1]], p[2])]

DocScaffold(funcs) ==
  LET all        == Cardinality(DOMAIN funcs)
      documented == Cardinality({p \in DOMAIN funcs : funcs[p].documented})
  IN  When(documented >= 2 /\ 10 * documented >= 6 * all, Fire("CODE_DOC_SCAFFOLD", documented, all))

\* The name more than once in the diff, whatever the file and the sign.
Called(diff, name) == Cardinality(Spots(Mapped(diff, LAMBDA l : Places(l.text.names, LAMBDA n : n = name)))) > 1

\* Helpers that nothing calls.
DeadHelper(funcs, diff) ==
  LET judged == {p \in DOMAIN funcs : funcs[p].def.kind /= "hook"}
      wired  == {p \in judged : Called(diff, funcs[p].def.name)}
      dead   == {p \in judged \ wired : ~funcs[p].def.exported /\ funcs[p].def.kind /= "entry"}
  IN  When(Cardinality(dead) >= 2 /\ wired /= {}, Fire("CODE_DEAD_HELPER", Cardinality(dead), 3))

-----------------------------------------------------------------------------
(* The idiom of the file *)

Habit(yes, n) == [yes |-> yes, n |-> n]

Idiom(lines) ==
  LET code      == SelectSeq(lines, IsCode)
      tabbed(t) == t.indent = "tab"
      camel     == Total(code, LAMBDA t : t.camel)
      dquotes   == Total(code, LAMBDA t : t.dquotes)
  IN  [ camel    |-> Habit(camel, camel + Total(code, LAMBDA t : t.snake)),
        tabs     |-> Habit(CountOf(code, tabbed), CountOf(code, LAMBDA t : t.indent /= "none")),
        dquote   |-> Habit(dquotes, dquotes + Total(code, LAMBDA t : t.quotes)),
        comments |-> Habit(CountOf(lines, IsComment), CountOf(lines, Written)) ]

Distance(a, b) ==
  LET d == a.yes * b.n - b.yes * a.n IN <<IF d < 0 THEN -d ELSE d, a.n * b.n>>

\* The gaps of a file, on the axes where both sides have a habit.
Gaps(f) ==
  LET new == Idiom(f.added)
      old == Idiom(f.existing)
      axes == {x \in DOMAIN new : new[x].n >= Least[x] /\ old[x].n >= Least[x]}
  IN  IF Len(f.added) < Least.file \/ Len(f.existing) < Least.file THEN <<>>
      ELSE [x \in axes |-> Distance(new[x], old[x])]

AtLeast(p, q) == p[1] * q[2] >= q[1] * p[2]

\* The widest gap, and 0.15 for each further axis that moved by 0.3.
Drift(gaps) ==
  LET widest == CHOOSE g \in Range(gaps) : \A h \in Range(gaps) : AtLeast(g, h)
      moved  == Cardinality({x \in DOMAIN gaps : AtLeast(gaps[x], <<3, 10>>)})
  IN  <<20 * widest[1] + 3 * Max({moved - 1, 0}) * widest[2], 20 * widest[2]>>

StyleDrift(prod) ==
  LET drifts == {Drift(Gaps(f)) : f \in {g \in Range(prod) : DOMAIN Gaps(g) /= {}}}
      best   == CHOOSE d \in drifts : \A e \in drifts : AtLeast(d, e)
  IN  IF drifts = {} THEN {} ELSE When(AtLeast(best, <<1, 2>>), Fire("CODE_STYLE_DRIFT", best[1], best[2]))

-----------------------------------------------------------------------------

\* codestruct::rules
StructRules(diff) ==
  LET prod  == Production(diff)
      funcs == Functions(prod)
  IN  IF CodeLines(prod) < MIN_CODE_LINES THEN {}
      ELSE UNION { DupBlock(prod), DupFunc(funcs), MagicNumber(prod), RepeatedLiteral(prod), HardcodedConfig(prod),
                   BlanketCatch(prod), DocScaffold(funcs), DeadHelper(funcs, diff), StyleDrift(prod) }

-----------------------------------------------------------------------------
(* codeslop::rules: all added lines, in the order of the diff *)

Additions(diff) ==
  Mapped(SelectSeq(diff, LAMBDA l : l.sign = "+" /\ l.text.looks \notin {"++", "++ "}), LAMBDA l : l.text)

\* A comment whose words are mostly those of the line below it.
Restates(comment, code) ==
  LET words   == SelectSeq(comment.words, LAMBDA w : w \notin STOPWORDS)
      overlap == CountOf(words, LAMBDA w : w \in Range(code.words))
  IN  IsComment(comment) /\ ~IsComment(code) /\ Len(words) >= 2 /\ 10 * overlap >= 6 * Len(words)

SlopRules(diff) ==
  LET lines        == SelectSeq(Additions(diff), Written)
      placeholders == CountOf(lines, LAMBDA t : "PLACEHOLDERS" \in t.marks)
      restatements == Cardinality({i \in 1 .. Len(lines) - 1 : Restates(lines[i], lines[i + 1])})
      words        == FlattenSeq(Mapped(SelectSeq(lines, IsCode), LAMBDA t : t.words))
      generic      == CountOf(words, LAMBDA w : w \in GENERIC_WORDS)
  IN  IF Len(lines) < Least.slop THEN {}
      ELSE UNION { When(placeholders >= 2, Fire("CODE_PLACEHOLDER", placeholders, 3)),
                   When(restatements >= 2, Fire("CODE_COMMENT_RESTATE", restatements, 4)),
                   When(Len(words) >= Least.words /\ 10 * generic >= 3 * Len(words),
                        Fire("CODE_GENERIC_IDENT", generic, Len(words))) }

-----------------------------------------------------------------------------
(* diffsig *)

WhitespaceOnly(diff) == Additions(diff) /= <<>> /\ \A t \in Range(Additions(diff)) : ~t.token

CommentDensity(diff) ==
  LET lines    == SelectSeq(Additions(diff), Written)
      comments == CountOf(lines, LAMBDA t : IsComment(t) \/ "opening quotes" \in t.marks)
  IN  When(Len(lines) >= Least.density /\ 100 * comments >= 35 * Len(lines),
           Fire("COMMENT_HEAVY", comments, Len(lines)))
=============================================================================
