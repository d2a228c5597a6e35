--------------------------- MODULE BoundaryGates ---------------------------
(***************************************************************************)
(* The gates of the nine languages and what scripts/coverage-boundary.mjs  *)
(* reads in them: the entries each leaves out, expanded to the files that  *)
(* are left out whole.                                                     *)
(*                                                                         *)
(* A gate is a list of entries, each written in one of the forms its file  *)
(* allows; it is laid out as text, and the readers are given the text.     *)
(* What the entries mean to the tool is told from the list.                *)
(***************************************************************************)
EXTENDS BoundaryClasses

LANG_IDS == {"java", "kotlin", "go", "python", "node", "dotnet", "php", "ruby", "rust"}
ClassLangs == {"java", "kotlin", "dotnet"}
CommandLangs == {"go", "rust"}
-----------------------------------------------------------------------------
(* Paths and patterns *)

\* A path or pattern by its segments, and as the script sees it.
Flat(segs) ==
  FlattenSeq([n \in DOMAIN segs |->
    CASE segs[n] = <<"**">> -> IF n = Len(segs) THEN <<"**">> ELSE <<"**/">>
      [] OTHER -> segs[n] \o (IF n = Len(segs) THEN <<>> ELSE <<"/">>)])

Files(lang) == IF lang \in ClassLangs THEN {"T", "V"} ELSE {"client", "http", "deep"}
Home == [java |-> <<<<"core">>, <<"p">>>>, kotlin |-> <<<<"src">>>>, go |-> <<>>, python |-> <<<<"src">>, <<"sdk">>>>, node |-> <<<<"src">>>>,
         dotnet |-> <<<<"src">>>>, php |-> <<<<"src">>>>, ruby |-> <<<<"lib">>>>, rust |-> <<<<"src">>>>]
Inside == [client |-> <<<<"client", ".x">>>>, http |-> <<<<"admin">>, <<"http", ".x">>>>,
           deep |-> <<<<"admin">>, <<"v1">>, <<"http", ".x">>>>, T |-> <<<<"T", ".x">>>>, V |-> <<<<"V", ".x">>>>]
\* Within the directory of the language, and from the root.
Rel(lang, f) == Home[lang] \o Inside[f]
FullPath(lang, f) == <<<<lang>>>> \o Rel(lang, f)

RECURSIVE antMatch(_, _)
antMatch(p, s) ==
  LET after(n) == SubSeq(s, n + 1, Len(s))
  IN  IF p = <<>> THEN s = <<>>
      ELSE CASE Head(p) = "**/" -> antMatch(Tail(p), s) \/ \E n \in DOMAIN s : s[n] = "/" /\ antMatch(Tail(p), after(n))
             [] Head(p) = "**" -> \E n \in 0..Len(s) : antMatch(Tail(p), after(n))
             [] Head(p) = "*" -> \E n \in 0..Len(s) : (\A k \in 1..n : s[k] # "/") /\ antMatch(Tail(p), after(n))
             [] Head(p) = "{client,index}" -> s # <<>> /\ Head(s) \in {"client", "index"} /\ antMatch(Tail(p), after(1))
             [] OTHER -> s # <<>> /\ Head(s) = Head(p) /\ antMatch(Tail(p), after(1))
antRegex(segs, path) == antMatch(Flat(segs), Flat(path))

\* A star of Kover and of coverlet crosses every separator.
koverRegex(p, s) == antMatch([n \in DOMAIN p |-> IF p[n] = "*" THEN "**" ELSE p[n]], s)

\* coverage.py: relative to the directory, but for a leading star; a last star is all below.
Cwd == <<<<"">>, <<"root">>, <<"python">>>>
coveragePyRegex(segs, path) ==
  LET absolute == IF Head(Head(segs)) = "*" THEN segs ELSE Cwd \o segs
      deep(n, s) == IF s = <<"*">> /\ n \in {1, Len(absolute)} /\ Len(absolute) > 1 THEN <<"**">> ELSE s
  IN  antMatch(Flat([n \in DOMAIN absolute |-> deep(n, absolute[n])]), Flat(Cwd \o path))

\* simplecov: a string is looked for at a separator and up to one, to a dot or to the end.
Occurs(n, s, from) == from + Len(n) - 1 <= Len(s) /\ SubSeq(s, from, from + Len(n) - 1) = n
Ends(s, at) == at > Len(s) \/ s[at] = "/" \/ s[at] \in {".x", ".rb"}
simplecovStringRegex(arg, s) ==
  LET n == IF Head(arg) = "/" THEN Tail(arg) ELSE arg
      starts(k) == k = 1 \/ s[k - 1] = "/"
  IN  \E k \in DOMAIN s : /\ Occurs(n, s, k)
                          /\ Last(n) = "/" => starts(k)
                          /\ Last(n) # "/" => Ends(s, k + Len(n)) /\ ((".x" \in Range(n) /\ "/" \notin Range(n)) \/ starts(k))

phpTest(e, path) ==
  IF e.kind = "file" THEN Flat(path) = Flat(e.path)
  ELSE Len(path) > Len(e.path) /\ SubSeq(path, 1, Len(e.path)) = e.path /\ Last(path) \in e.suffix
-----------------------------------------------------------------------------
(* Entries *)

AnyName == {<<"client", ".x">>, <<"http", ".x">>}
Pattern == [
  node |-> [a |-> <<<<"src">>, <<"client", ".x">>>>, b |-> <<<<"src">>, <<"admin">>, <<"**">>>>, c |-> <<<<"src">>, <<"**">>, <<"http", ".x">>>>, d |-> <<<<"src">>, <<"{client,index}", ".x">>>>],
  python |-> [a |-> <<<<"src">>, <<"sdk">>, <<"client", ".x">>>>, b |-> <<<<"src">>, <<"sdk">>, <<"admin">>, <<"*">>>>, c |-> <<<<"*">>, <<"http", ".x">>>>, d |-> <<<<"*">>, <<"admin">>, <<"http", ".x">>>>],
  php |-> [a |-> [kind |-> "file", path |-> <<<<"src">>, <<"client", ".x">>>>, suffix |-> AnyName], b |-> [kind |-> "directory", path |-> <<<<"src">>, <<"admin">>>>, suffix |-> AnyName],
           c |-> [kind |-> "directory", path |-> <<<<"src">>>>, suffix |-> {<<"http", ".x">>}], d |-> [kind |-> "file", path |-> <<<<"src">>, <<"none", ".x">>>>, suffix |-> AnyName]],
  ruby |-> [a |-> <<<<"lib">>, <<"client", ".x">>>>, b |-> <<<<"lib">>, <<"admin">>, <<>>>>, c |-> <<<<"http", ".x">>>>, d |-> <<<<>>, <<"lib">>, <<"admin">>, <<"http">>>>],
  java |-> [a |-> <<<<"**">>, <<"T", ".", "class">>>>, b |-> <<<<"**">>, <<"T", "$", "*", ".", "class">>>>, c |-> <<<<"**">>, <<"U", ".", "class">>>>, d |-> <<<<"p">>, <<"**">>>>],
  kotlin |-> [a |-> <<"p", ".", "T">>, b |-> <<"p", ".", "T", "*">>, c |-> <<"p", ".", "FileKt", "*">>, d |-> <<"p", ".", "Named", "*">>],
  dotnet |-> [a |-> [asm |-> <<"*">>, type |-> <<"Ns", ".", "A", ".", "T">>], b |-> [asm |-> <<"*">>, type |-> <<"Ns", ".", "A", ".", "*">>], c |-> [asm |-> <<"Other">>, type |-> <<"*">>], d |-> [asm |-> <<"Sdk">>, type |-> <<"T", "*">>]],
  go |-> [a |-> {"client", "http"}, b |-> {"client", "http"}, c |-> {"deep"}, d |-> {}],
  rust |-> [a |-> {"client", "http"}, b |-> {"client", "http"}, c |-> {"deep"}, d |-> {}]]

\* What the tool leaves out by an entry: a file, or of a class language a class.
SegmentMatch(p, s) == antMatch(p, s)
RECURSIVE Ant(_, _)
Ant(ps, ss) ==
  IF ps = <<>> THEN ss = <<>>
  ELSE IF Head(ps) = <<"**">> THEN \E n \in 0..Len(ss) : Ant(Tail(ps), SubSeq(ss, n + 1, Len(ss)))
  ELSE ss # <<>> /\ SegmentMatch(Head(ps), Head(ss)) /\ Ant(Tail(ps), Tail(ss))
LeftOut(lang, id, x) ==
  LET p == Pattern[lang][id]
  IN  CASE lang = "node" -> Ant(p, Rel(lang, x))
        [] lang = "python" -> Ant([n \in DOMAIN p |-> IF p[n] = <<"*">> THEN <<"**">> ELSE p[n]], Rel(lang, x))
        [] lang = "php" -> phpTest(p, Rel(lang, x))
        [] lang = "ruby" -> [a |-> x = "client", b |-> x \in {"http", "deep"}, c |-> x \in {"http", "deep"}, d |-> x = "http"][id]
        [] lang \in CommandLangs -> x \in p
        [] lang = "java" -> antMatch(Flat(p), x)
        [] lang = "kotlin" -> koverRegex(p, x)
        [] lang = "dotnet" -> koverRegex(p.asm, <<"Sdk">>) /\ koverRegex(p.type, x)

\* What the script makes of one.
Hits(lang, id, x) ==
  LET p == Pattern[lang][id]
  IN  CASE lang = "node" -> antRegex(p, Rel(lang, x))
        [] lang = "python" -> coveragePyRegex(p, Rel(lang, x))
        [] lang = "ruby" -> simplecovStringRegex(Flat(p), Flat(Rel(lang, x)))
        [] OTHER -> LeftOut(lang, id, x)

Forms == [
  node |-> {"'", "\"", "commented", "template", "spread"}, python |-> {"'", "\"", "commented"}, kotlin |-> {"\"", "commented", "template"},
  java |-> {"tag", "commented", "execution"}, dotnet |-> {"tag", "commented"}, php |-> {"tag", "commented"}, ruby |-> {"skip", "add_filter", "commented", "block"},
  go |-> {"single", "double", "bare", "egrep", "-e", "expanded", "no -E", "kept", "elsewhere", "commented", "-f", "in script", "in double", "quoted run", "key", "after comment"},
  rust |-> {"single", "double", "equals", "expanded", "commented", "missing", "in double", "key", "after comment"}]
Plainest == [node |-> "'", python |-> "\"", kotlin |-> "\"", java |-> "tag", dotnet |-> "tag", php |-> "tag", ruby |-> "skip", go |-> "single", rust |-> "single"]
NoEntry == {"commented", "kept", "elsewhere", "key"}
Unread == {"template", "spread", "execution", "block", "expanded", "no -E", "-f", "missing", "in double", "quoted run"}
-----------------------------------------------------------------------------
(* The text of a gate, and what is read in it *)

Twice(g, text) == IF g.knob = "twice" THEN text \o text ELSE text
ScriptEntry(e) ==
  CASE e.form \in {"'", "\""} -> <<e.form, e.id, e.form, ",">>
    [] e.form = "commented" -> <<"//", "'", e.id, "'", "\n">>
    [] e.form = "template" -> <<"bq", "${", "X", "bq", ",">>
    [] OTHER -> <<"...", "X", ",">>
KotlinEntry(e) == CASE e.form = "commented" -> <<"/*", "\"", e.id, "\"", "*/">> [] e.form = "template" -> <<"\"", "$X", "\"", ",">> [] OTHER -> <<"\"", e.id, "\"", ",">>
TagEntry(tag, e) == IF e.form = "commented" THEN <<"<!--", tag, e.id, "-->">> ELSE <<tag, e.id>>

NodeText(g) ==
  Twice(g, <<"coverage", ":", "{", "thresholds", ":", "{", "exclude", ":", "[", "'", "none", "'", "]", "}", ",", "include", ":">>
             \o (IF g.knob = "unmodelled" THEN <<"INCLUDED">> ELSE <<"[", "'", IF g.forced THEN "but deep" ELSE "all", "'", "]">>)
             \o <<",", "exclude", ":", "[">> \o FlattenSeq([n \in DOMAIN g.entries |-> ScriptEntry(g.entries[n])]) \o <<"]", "}">>)
KotlinGate(g) ==
  <<"kover", "{", "filters", "{">>
    \o Twice(g, <<"excludes", "{", "classes", "(">> \o FlattenSeq([n \in DOMAIN g.entries |-> KotlinEntry(g.entries[n])]) \o <<")", "}">>)
    \o (IF g.knob = "unmodelled" THEN <<"includes", "{", "}">> ELSE <<>>) \o <<"}", "}">>
PythonText(g) ==
  <<<<"[tool.coverage.run]">>, <<"omit", "[">>>>
    \o [n \in DOMAIN g.entries |-> LET e == g.entries[n] IN IF e.form = "commented" THEN <<"#", "'", e.id, "'">> ELSE <<e.form, e.id, e.form, ",", "#", "'", "c">>]
    \o <<<<"]">>>> \o (IF g.knob = "unmodelled" THEN <<<<"[tool.coverage.report]">>, <<"include", "[", "]">>>> ELSE <<>>) \o <<<<"[other]">>, <<"omit", "[", "'", "d", "'", "]">>>>
JavaGate(g) ==
  LET at(executions) == SelectSeq(g.entries, LAMBDA e : (e.form = "execution") = executions)
      tag(e) == TagEntry("<exclude>", e)
  IN  Twice(g, <<"<plugin>", "jacoco-maven-plugin">> \o FlattenSeq([n \in DOMAIN at(FALSE) |-> tag(at(FALSE)[n])])
                 \o (IF g.knob = "unmodelled" THEN <<"<includes>", "a">> ELSE <<>>)
                 \o <<"<executions>">> \o FlattenSeq([n \in DOMAIN at(TRUE) |-> tag(at(TRUE)[n])]) \o <<"</executions>", "</plugin>">>)
DotnetText(g) ==
  LET entry(e) == IF e.form = "commented" THEN <<"<!--", e.id, "-->">> ELSE <<e.id, ",">>
  IN  Twice(g, <<"<Exclude>">> \o FlattenSeq([n \in DOMAIN g.entries |-> entry(g.entries[n])]) \o <<"</Exclude>">>) \o (IF g.knob = "unmodelled" THEN <<"<ExcludeByAttribute>">> ELSE <<>>)
PhpText(g) ==
  LET tag(e) == TagEntry("<file>", e)
  IN  Twice(g, <<"<source>", "<include>", IF g.forced THEN "but deep" ELSE "all", "<exclude>">> \o FlattenSeq([n \in DOMAIN g.entries |-> tag(g.entries[n])]) \o <<"</source>">>)
        \o (IF g.knob = "unmodelled" THEN <<"<coverage>">> ELSE <<>>)
RubyText(g) ==
  [n \in DOMAIN g.entries |-> LET e == g.entries[n]
     IN  CASE e.form = "commented" -> <<"#", "skip", "\"", e.id, "\"">> [] e.form = "block" -> <<"skip", "do">> [] OTHER -> <<e.form, "\"", e.id, "\"">>]
    \o (IF g.knob = "unmodelled" THEN <<<<"track_files", "\"", "a", "\"">>>> ELSE <<>>)

Between(x, open, close) ==
  LET at == SelectInSeq(x, LAMBDA c : c = open)  to == SelectInSeq(x, LAMBDA c : c = close) IN SubSeq(x, at + 1, to - 1)
Times(x, c) == Quantify(DOMAIN x, LAMBDA n : x[n] = c)
Reading(fail, values) == [fail |-> fail, values |-> values]

javaSsot(text) ==
  LET x == blankXmlComments(text)
      executions == Between(x, "<executions>", "</executions>")
  IN  Reading(\/ Times(x, "jacoco-maven-plugin") # 1 \/ "<includes>" \in Range(x) \/ "<exclude>" \in Range(executions),
              Tagged(SubSeq(x, 1, SelectInSeq(x, LAMBDA c : c = "<executions>")), "<exclude>"))

\* The block of a name that opens a brace.
BlocksOf(toks, name) == {i \in DOMAIN toks : IsTok(toks, i, "id", name) /\ IsTok(toks, i + 1, "p", "{")}
kotlinSsot(text) ==
  LET toks == scriptTokens(text, TRUE)
      excludes == BlocksOf(toks, "excludes")
      from == Min(excludes)
      end == matchClose(toks, from + 1)
      calls == {i \in from + 2..end : toks[i].t = "id" /\ IsTok(toks, i + 1, "p", "(")}
      strings == Strings(toks, from + 4, end - 2)
  IN  IF Cardinality(BlocksOf(toks, "kover")) # 1 \/ Cardinality(excludes) # 1 \/ BlocksOf(toks, "includes") # {} THEN Reading(TRUE, <<>>)
      ELSE Reading(strings.fail \/ \E i \in calls : toks[i].v # <<"classes">>, [n \in DOMAIN strings.values |-> strings.values[n][1]])

Omits(run, report, includes) ==
  LET values == run.values \o report.values IN Reading(run.fail \/ report.fail \/ includes, [n \in DOMAIN values |-> values[n][1]])
pythonSsot(lines) ==
  Omits(tomlStrings(lines, "[tool.coverage.run]", "omit"), tomlStrings(lines, "[tool.coverage.report]", "omit"),
        \E s \in {"[tool.coverage.run]", "[tool.coverage.report]"} : tomlKeyLine(lines, s, "include"))

\* Of the coverage object, its own keys only, and both of them literal.
nodeFilters(one, include, exclude) ==
  IF ~one \/ include.fail \/ exclude.fail THEN Reading(TRUE, <<>>) @@ [include |-> "all"]
  ELSE Reading(FALSE, [n \in DOMAIN exclude.values |-> exclude.values[n][1]]) @@ [include |-> include.values[1][1]]
nodeSsot(text) ==
  LET toks == scriptTokens(text, FALSE)
      objects == {i \in DOMAIN toks : IsTok(toks, i, "id", "coverage") /\ IsTok(toks, i + 1, "p", ":") /\ IsTok(toks, i + 2, "p", "{")}
      open == Min(objects) + 2
      key(name) == Max({i \in open..matchClose(toks, open) : IsTok(toks, i, "id", name) /\ Depth(toks, open, i, "{") = 1 /\ Depth(toks, open, i, "[") = 0})
      strings(at) == IF IsTok(toks, at, "p", "[") THEN Strings(toks, at + 1, matchClose(toks, at) - 1) ELSE [fail |-> TRUE, values |-> <<>>]
  IN  nodeFilters(Cardinality(objects) = 1, strings(key("include") + 2), strings(key("exclude") + 2))

dotnetSsot(text) ==
  LET x == blankXmlComments(text)
  IN  Reading("<ExcludeByAttribute>" \in Range(x) \/ Times(x, "<Exclude>") # 1,
              SelectSeq(Between(x, "<Exclude>", "</Exclude>"), LAMBDA c : c # ","))

phpSsot(text) ==
  LET x == blankXmlComments(text)
  IN  Reading("<coverage>" \in Range(x) \/ Times(x, "<source>") # 1, Tagged(x, "<file>")) @@ [include |-> Tagged(x, "<include>")[1]]

rubySsot(lines) ==
  LET calls == SelectSeq(lines, LAMBDA l : Head(l) \in {"skip", "add_filter"})
  IN  Reading((\E l \in Range(lines) : Head(l) = "track_files") \/ \E l \in Range(calls) : Len(l) # 4 \/ l[2] # "\"",
              [n \in DOMAIN calls |-> IF Len(calls[n]) > 2 THEN calls[n][3] ELSE "none"])
-----------------------------------------------------------------------------
(* Commands: the gates of go and rust, and their copies *)

CommandText(lang, e) ==
  LET go(pre, pat) == pre \o <<" ">> \o pat \o <<" ", "cover.out", " ", ">", " ", "x">>
      rust(pre, pat) == <<"cargo", " ", "llvm-cov", " ">> \o pre \o pat \o <<" ", "--lcov">>
      grep == <<"grep", " ", "-vE">>
      flag == <<"--ignore-filename-regex", " ">>
      single == <<"'", e.id, "'">>
  IN  CASE e.form = "double" -> IF lang = "go" THEN go(grep, <<"\"", e.id, "\"">>) ELSE rust(flag, <<"\"", e.id, "\"">>)
        [] e.form = "bare" -> go(<<"grep", " ", "-v", " ", "-E">>, <<e.id>>)
        [] e.form = "egrep" -> go(<<"egrep", " ", "-v">>, single)
        [] e.form = "-e" -> go(<<"grep", " ", "-vE", " ", "-e">>, single)
        [] e.form = "equals" -> rust(<<"--ignore-filename-regex=">>, single)
        [] e.form = "expanded" -> IF lang = "go" THEN go(grep, <<"\"", "$X", "\"">>) ELSE rust(flag, <<"$X">>)
        [] e.form = "no -E" -> go(<<"grep", " ", "-v">>, single)
        [] e.form = "kept" -> go(<<"grep", " ", "-E">>, single)
        [] e.form = "elsewhere" -> grep \o <<" ">> \o single \o <<" ", "list">>
        [] e.form = "-f" -> go(<<"grep", " ", "-vE", " ", "-f">>, <<"pats">>)
        [] e.form = "missing" -> <<"cargo", " ", "llvm-cov", " ", "--ignore-filename-regex", " ", "|", " ", "tee">>
        [] e.form = "commented" -> <<"#", " ">> \o (IF lang = "go" THEN go(grep, single) ELSE rust(flag, single))
        [] OTHER -> IF lang = "go" THEN go(grep, IF e.form = "in script" THEN <<e.id>> ELSE single) ELSE rust(flag, single)

\* A command where it stands: in a workflow, and in a script or a document that copies it.
Script(style, lines) == [style |-> style, lines |-> lines]
Standing(form, text) ==
  CASE form = "in script" -> Script("run block", <<<<"bash", " ", "-c", " ", "'">>, text, <<"'">>>>)
    [] form = "in double" -> Script("run block", <<<<"bash", " ", "-c", " ", "\"">>, text, <<"\"">>>>)
    [] form = "after comment" -> Script("run block", <<<<"echo", " ", "\\", "\"", " ", "#", " ", "don", "'", "t">>, text>>)
    [] form = "quoted run" -> Script("quoted run", <<text>>)
    [] form = "key" -> Script("key", <<text>>)
    [] OTHER -> Script("run", <<text>>)
WorkflowText(lang, e) == Standing(e.form, CommandText(lang, e))
ShellFile(lang, e) == <<Script("script", WorkflowText(lang, e).lines)>>
Document(lang, e) ==
  <<Script("prose", <<CommandText(lang, e)>>),
    Script("span", <<IF lang = "go" THEN <<"grep", " ", "-vE", " ", "'", e.id, "'">> ELSE CommandText(lang, e)>>)>>

OneCommand(hits) == Reading(hits.fail \/ Len(hits.values) # 1, [n \in DOMAIN hits.values |-> hits.values[n][1]])
commandSsot(lang, gate) ==
  OneCommand(findRegexes([n \in DOMAIN gate.entries |-> WorkflowText(lang, gate.entries[n])], IF lang = "go" THEN "grepcover" ELSE "llvmcov"))
-----------------------------------------------------------------------------
(* From entries to files *)

Reads(lang, g) ==
  CASE lang = "java" -> javaSsot(JavaGate(g))
    [] lang = "kotlin" -> kotlinSsot(KotlinGate(g))
    [] lang = "python" -> pythonSsot(PythonText(g))
    [] lang = "node" -> nodeSsot(NodeText(g))
    [] lang = "dotnet" -> dotnetSsot(DotnetText(g))
    [] lang = "php" -> phpSsot(PhpText(g))
    [] lang = "ruby" -> rubySsot(RubyText(g))
    [] OTHER -> commandSsot(lang, g)

\* The classes of a source file, as the script finds them and as they compile.
PlainClass == <<"p", "/", "V", ".", "class">>
Trees == [java |-> JavaTrees, kotlin |-> KotlinTrees, dotnet |-> CsTrees]
classesOf(lang, tree, f) ==
  CASE f = "V" -> {PlainClass}
    [] lang = "java" -> javaClassFiles(JavaText(tree))
    [] lang = "kotlin" -> kotlinClasses(KotlinText(tree), Facade(tree))
    [] OTHER -> csharpTypes(CsText(tree))
Classes(lang, tree, f) ==
  CASE f = "V" -> {PlainClass}
    [] lang = "java" -> JavaTruth(tree)
    [] lang = "kotlin" -> KotlinTruth(tree)
    [] OTHER -> CsTruth(tree)

\* Left out of the gate whatever its entries say: jacoco.skip, outside the includes.
Forced(lang, g) == IF ~g.forced THEN {} ELSE IF lang = "java" THEN {"V"} ELSE {"deep"}
Outside(r) == IF "include" \in DOMAIN r /\ r.include = "but deep" THEN {"deep"} ELSE {}

\* No entries, and entries that leave nothing out, are refused.
Expansion(values, files, partial) ==
  [fail |-> values = <<>> \/ files \cup partial = {}, values |-> values, files |-> files, partial |-> partial]
Unreadable == [fail |-> TRUE, values |-> <<>>, files |-> {}, partial |-> {}]
Hit(lang, values, x) == \E id \in Range(values) : Hits(lang, id, x)
fileSsot(lang, r, U) == Expansion(r.values, {f \in U : f \in Outside(r) \/ Hit(lang, r.values, f)}, {})
\* Mutant: one class left out takes its file along.
AnyClass(hit, classes) == hit # {}
AllClasses(hit, classes) == hit # {} /\ hit = classes
Share(hit, classes) == CASE AllClasses(hit, classes) -> "whole" [] hit # {} -> "part" [] OTHER -> "none"
HitShare(lang, values, classes) == Share({c \in classes : Hit(lang, values, c)}, classes)
Classified(values, skipped, found, U) ==
  Expansion(values, skipped \cup {f \in U : found[f] = "whole"}, {f \in U \ skipped : found[f] = "part"})
classify(lang, g, tree, r, U) ==
  Classified(r.values, U \cap IF lang = "java" THEN Forced(lang, g) ELSE {},
             [f \in U |-> HitShare(lang, r.values, classesOf(lang, tree, f))], U)
Expanded(lang, g, tree, r, U) ==
  CASE r.fail -> Unreadable
    [] lang \in ClassLangs -> classify(lang, g, tree, r, U)
    [] OTHER -> fileSsot(lang, r, U)
Ssot(lang, g, tree, U) == Expanded(lang, g, tree, Reads(lang, g), U)

\* What the gate truly leaves out, and whether that can be told from its entries.
Told(g) == g.knob = "none" /\ \A e \in Range(g.entries) : e.form \notin Unread
Entries(g) == {e.id : e \in {x \in Range(g.entries) : x.form \notin NoEntry}}
Omitted(lang, g, tree, U) ==
  {f \in U : \/ f \in Forced(lang, g)
             \/ lang \notin ClassLangs /\ \E id \in Entries(g) : LeftOut(lang, id, f)
             \/ lang \in ClassLangs /\ Classes(lang, tree, f) # {} /\ \A c \in Classes(lang, tree, f) : \E id \in Entries(g) : LeftOut(lang, id, c)}
OmittedInPart(lang, g, tree, U) ==
  {f \in U \ (Omitted(lang, g, tree, U)) :
     lang \in ClassLangs /\ \E c \in Classes(lang, tree, f), id \in Entries(g) : LeftOut(lang, id, c)}
=============================================================================
