-------------------------- MODULE CoverageReaders --------------------------
(***************************************************************************)
(* The eight readers of scripts/integration-coverage.mjs.  A reader turns  *)
(* what a coverage tool wrote about one boundary file into the functions   *)
(* the run never executed and the counts a floor is compared with, or      *)
(* refuses.                                                                *)
(*                                                                         *)
(* A file is a sequence of items; an item is a function or a piece of code *)
(* outside any, laid out on lines as the formatter of its language does.   *)
(* Each reader is given what the tool of its language records of the file  *)
(* and of what ran in it; the tools drop and merge as they really do.      *)
(***************************************************************************)
EXTENDS Integers, SequencesExt, FiniteSetsExt

CONSTANTS
  MaxItems,       \* bound: items of a file
  MaxJavaItems    \* bound: items of a Java file (two constructors share a field)

ASSUME ItemsArePositive == {MaxItems, MaxJavaItems} \subseteq 1..3

Langs == {"go", "python", "node", "rust", "php", "ruby", "dotnet", "java"}
BODY_LANGS == {"python", "ruby", "java"}
LINE_LANGS == {"rust", "php", "ruby", "dotnet", "java"}
-----------------------------------------------------------------------------
(* Source files *)

\* The items that make a difference to a reader, by language.
Menu == [
  go     |-> {"multi", "one", "empty", "literal", "init"},
  python |-> {"multi", "property", "loose"},
  node   |-> {"multi", "class", "value", "wrapped", "inline", "loose"},
  rust   |-> {"multi", "async", "boxed", "guarded", "traced", "generic", "unused", "testonly", "twin", "off", "macro", "method", "static"},
  php    |-> {"multi", "closure", "loose", "copy"},
  ruby   |-> {"multi", "one", "empty", "loose", "block", "copy"},
  dotnet |-> {"multi", "closure", "machine", "over", "overclosure", "overmachine", "asyncclosure", "odd"},
  java   |-> {"multi", "closure", "over", "overclosure", "static", "staticlambda", "ctor", "field", "fieldlambda", "fieldblock"}]

\* rust's async functions.  Of a boxed or guarded one, a method under #[async_trait] or under
\* cfg_attr(.., async_trait), the macro moves the body into a block that the tool does not see; a
\* traced one stands itself under an attribute macro, that leaves the body where it is.  A generic
\* one, or the default method of a trait, is called with two types.
Boxed == {"boxed", "guarded"}
Async == Boxed \cup {"async", "traced", "generic"}

\* A line: what the reader sees at its start, and by whom its statements run, left to right.
Line(tag, whos) == [tag |-> tag, whos |-> whos]
Fn == Line("fn", <<"definition">>)
In == Line("in", <<"body">>)
Inner == Line("in", <<"inner">>)
Close == Line("close", <<>>)

Shape(l, kind) ==
  CASE kind \in {"one", "static"} /\ l # "java" -> <<Line(kind, <<"body">>)>>
    [] kind = "empty" -> <<Fn, Close>>
    [] kind = "literal" -> <<Line("var", <<>>), In, Close>>
    [] kind \in {"loose", "static"} -> <<Line("top", <<"load">>)>>
    [] kind = "block" -> <<Line("top", <<"body">>)>>
    [] kind = "class" -> <<Line("class", <<>>), Line("bare method", <<>>), Line("method", <<>>), In, Line("method close", <<>>), Close>>
    [] kind = "value" -> <<Line("value", <<"load">>), In, Close>>
    [] kind = "wrapped" -> <<Line("value", <<"load">>), Line("opens", <<>>), In, Close>>
    [] kind = "inline" -> <<Line("value", <<"load", "body">>)>>
    [] kind \in {"async", "traced"} -> <<Line("fn", <<"body">>), Line("in", <<"later">>), Close>>
    [] kind \in Boxed -> <<Line("impl", <<>>), Line("fn", <<"body">>), Line("in", <<"later">>), Close, Line("impl close", <<>>)>>
    [] kind = "generic" -> <<Line("fn", <<"body", "again">>), Line("in", <<"later", "later again">>), Close>>
    [] kind = "method" -> <<Line("impl", <<>>), Fn, In, Close, Line("impl close", <<>>)>>
    [] kind = "testonly" -> <<Line("test mod", <<>>), Fn, In, Close, Line("impl close", <<>>)>>
    [] kind = "macro" -> <<Line("macro", <<>>), In, Line("impl close", <<>>)>>
    [] kind \in {"closure", "overclosure", "asyncclosure"} -> <<Fn, In, Inner, In, Close>>
    [] kind = "ctor" -> <<Line("fn", <<"body">>), In, Close>>
    [] kind = "field" -> <<Line("field", <<"constructors">>)>>
    [] kind = "fieldlambda" -> <<Line("field", <<"constructors", "inner">>)>>
    [] kind = "fieldblock" -> <<Line("field", <<"constructors">>), Inner>>
    [] kind = "staticlambda" -> <<Line("top", <<"load", "inner">>)>>
    [] OTHER -> <<Fn, In, Close>>

\* The file, line by line.
Text(l, src) ==
  FlattenSeq([i \in DOMAIN src |-> [x \in DOMAIN Shape(l, src[i]) |-> [item |-> i, kind |-> src[i]] @@ Shape(l, src[i])[x]]])

Fields == {"field", "fieldlambda", "fieldblock"}
\* A Java class with instance fields declares its constructors here.
Sources(l) ==
  {src \in UNION {[1..n -> Menu[l]] : n \in 1..(IF l = "java" THEN MaxJavaItems ELSE MaxItems)} :
     /\ Range(src) \cap Fields # {} => "ctor" \in Range(src)
     /\ Quantify(DOMAIN src, LAMBDA i : src[i] = "twin") <= 1}

\* The names the registry's owners are keyed by.
Str == <<"1", "2", "3">>
Base(kind, i) ==
  CASE kind = "property" -> "p"
    [] kind = "init" -> "init"
    [] kind = "copy" -> "T#m"
    [] kind \in {"twin", "off"} -> "t"
    [] kind \in {"over", "overclosure", "overmachine"} -> "m"
    [] kind = "ctor" -> "<init>"
    [] OTHER -> "f" \o Str[i]
Overloads(src, i) == {j \in DOMAIN src : src[j] # "fieldblock" /\ Base(src[j], j) = Base(src[i], i)}
Name(l, src, i) ==
  <<Base(src[i], i), IF src[i] \in {"twin", "off"} \/ (l \in {"dotnet", "java"} /\ Cardinality(Overloads(src, i)) > 1)
                     THEN Str[i] ELSE "">>
-----------------------------------------------------------------------------
(* What runs, and what is true of it *)

NotFunctions == {"loose", "literal", "block", "macro", "testonly"} \cup Fields \cup {"staticlambda"}
IsFunction(l, kind) == kind \notin NotFunctions /\ ~(l = "java" /\ kind = "static")
NeverLinked == {"unused", "testonly", "off"}

\* Calling an async function is its body; polling what the call returned is "later".  A generic one
\* may be called "again", with another type, and that future polled.
Polls == {"later", "later again"}
\* Parts of an item that a run may execute; a nested function runs only if what creates it has.
Parts(l, src) ==
  {q \in (DOMAIN src) \X ({"body", "inner", "again"} \cup Polls) :
     src[q[1]] \notin NeverLinked /\ \E x \in DOMAIN Shape(l, src[q[1]]) : q[2] \in Range(Shape(l, src[q[1]])[x].whos)}
Constructed(src, ran) == \E j \in DOMAIN src : src[j] = "ctor" /\ <<j, "body">> \in ran
Runs(l, src) ==
  {ran \in SUBSET Parts(l, src) :
     \A q \in ran : q[2] # "body" =>
       CASE src[q[1]] \in Fields -> Constructed(src, ran)
         [] src[q[1]] = "staticlambda" -> TRUE
         [] OTHER -> <<q[1], IF q[2] = "later again" THEN "again" ELSE "body">> \in ran}

Executes(l, src, ran, i, who) ==
  CASE who = "load" -> TRUE
    [] who = "definition" -> l \in {"python", "ruby"}
    [] who = "constructors" -> Constructed(src, ran)
    [] OTHER -> <<i, who>> \in ran
Counts(l, who) == who # "definition" \/ l \in {"python", "ruby"}

\* The functions with code that the run did not execute; an async function that was
\* called and never awaited did not run.  Ruby counts calls, of empty methods too.
NeverExecuted(l, src, ran) ==
  {Name(l, src, i) : i \in {j \in DOMAIN src :
     /\ IsFunction(l, src[j])
     /\ src[j] = "empty" => l = "ruby"
     /\ \A w \in IF src[j] \in Async THEN Polls ELSE {"body", "inner"} : <<j, w>> \notin ran}}

\* Of these, what no reader of lcov can see.  An async function was called and its body never ran,
\* but its one record, the call's, is all there would be (under an attribute macro), or there are
\* two records that ran, of calls with two types.
Unseen(l, src, ran) ==
  {Name(l, src, i) : i \in {j \in DOMAIN src :
     /\ l = "rust" /\ \A w \in Polls : <<j, w>> \notin ran
     /\ \/ src[j] \in Boxed \cup {"traced"} /\ <<j, "body">> \in ran
        \/ src[j] = "generic" /\ <<j, "again">> \in ran}}
\* What a report can name of them.
Told(l, src, ran) == NeverExecuted(l, src, ran) \ Unseen(l, src, ran)

\* What a floor is compared with: statements or lines; in python, ruby and java only what
\* does not run at load.  Rust has no line of what was not linked or never polled, nor of a body moved by a macro.
Measured(l, src, ran) ==
  LET text == Text(l, src)
      whos(k) == {x \in DOMAIN text[k].whos :
                    /\ Counts(l, text[k].whos[x]) /\ text[k].kind # "block"
                    /\ l \in BODY_LANGS => text[k].whos[x] \notin {"load", "definition"}
                    /\ l = "rust" => /\ text[k].kind \notin NeverLinked
                                     /\ text[k].whos[x] \in Polls => /\ <<text[k].item, text[k].whos[x]>> \in ran
                                                                    /\ text[k].kind \notin Boxed}
      units == IF l \in {"node"} THEN UNION {{<<k, x>> : x \in whos(k)} : k \in DOMAIN text}
               ELSE {<<k, whos(k)>> : k \in {y \in DOMAIN text : whos(y) # {}}}
      run(u) == \E x \in (IF l \in {"node"} THEN {u[2]} ELSE u[2]) :
                  Executes(l, src, ran, text[u[1]].item, text[u[1]].whos[x])
  IN  [stmts |-> Cardinality(units), covered |-> Quantify(units, run)]
-----------------------------------------------------------------------------
(* Counting *)

Ran(u) == u.c > 0
Tally(units) == [stmts |-> Cardinality(units), covered |-> Quantify(units, Ran)]
Silent(units) == units # {} /\ \A u \in units : u.c = 0

\* A statement of a line with the count the run gave it.
Statements(l, src, text, ran) ==
  UNION {{[line |-> k, col |-> x, c |-> IF Executes(l, src, ran, text[k].item, text[k].whos[x]) THEN 1 ELSE 0,
           item |-> text[k].item, who |-> text[k].whos[x]] :
             x \in {y \in DOMAIN text[k].whos : Counts(l, text[k].whos[y])}} : k \in DOMAIN text}
LineCount(stmts, k) == Quantify({s \in stmts : s.line = k}, Ran)
Lines(stmts) == {[line |-> k, c |-> LineCount(stmts, k)] : k \in {s.line : s \in stmts}}
Unique(names, units) == Cardinality(names) = Cardinality(units)

\* What a reader concludes of a file: that it is bad, or the functions never executed and the
\* counts, of which "measured" is what its floor takes.
Concludes(ok, never, measured) == [bad |-> ~ok, never |-> never, measured |-> measured]
-----------------------------------------------------------------------------
(* go: a cover profile; the names are read in the source *)

\* The package's own test binary counts, one of another package runs none of it.
GoProfile(stmts) ==
  UNION {{[line |-> s.line, n |-> 1, c |-> IF binary = 1 THEN s.c ELSE 0, binary |-> binary] : binary \in 1..2} : s \in stmts}

\* gofmt: a top-level body closes with "}" in column 0; methods carry their receiver's name.
goFuncs(text) ==
  LET closing(k) == Min({x \in DOMAIN text : x > k /\ text[x].tag = "close"})
  IN  {[name |-> <<Base(text[k].kind, text[k].item), "">>, start |-> k, end |-> IF text[k].tag = "one" THEN k ELSE closing(k)] :
         k \in {x \in DOMAIN text : text[x].tag \in {"fn", "one"}}}

\* A block of several test binaries has the sum of their counts.
Blocks(profile) ==
  {[line |-> b.line, c |-> MapThenSumSet(LAMBDA x : x.c, {x \in profile : x.line = b.line})] : b \in profile}

goReport(funcs, blocks, profile) ==
  LET body(f) == {b \in blocks : b.line \in f.start..f.end}
  IN  Concludes(/\ \A a, b \in profile : a.line = b.line => a.n = b.n
                /\ Unique({f.name : f \in funcs}, funcs),
                {f.name : f \in {g \in funcs : Silent(body(g))}}, Tally(blocks))
-----------------------------------------------------------------------------
(* python: coverage.py's JSON, which keys the regions of functions by their names *)

PyRegions(src, stmts) ==
  LET of(i) == {s \in stmts : s.item = i /\ s.who = "body"}
      named == {i \in DOMAIN src : of(i) # {}}
  IN  [total |-> Tally(stmts),
       module |-> Tally({s \in stmts : s.who # "body"}),
       functions |-> [n \in {Name("python", src, i) : i \in named} |->
                        Tally(of(Max({i \in named : Name("python", src, i) = n})))]]

pyReport(data) ==
  LET fns == data.functions
      sum == MapThenSumSet(LAMBDA n : fns[n].stmts, DOMAIN fns)
  IN  Concludes(sum + data.module.stmts = data.total.stmts,
                {n \in DOMAIN fns : fns[n].stmts > 0 /\ fns[n].covered = 0},
                [stmts |-> sum, covered |-> MapThenSumSet(LAMBDA n : fns[n].covered, DOMAIN fns)])
-----------------------------------------------------------------------------
(* node: istanbul's map; the names are read in the source *)

\* prettier: declarations in column 0, members two columns in; a top-level item reaches to
\* the next one; a member without a body (an overload, an abstract one) is skipped.
nodeFuncs(text) ==
  LET tops == {k \in DOMAIN text : text[k].tag \in {"fn", "value", "top", "class"}}
      nextTop(k) == Min({x \in tops : x > k} \cup {Len(text) + 1})
      heads(k) == {x \in k + 1..nextTop(k) - 1 : text[x].tag \in {"method", "bare method"}}
      limit(k, x) == Min({y \in heads(k) : y > x} \cup {nextTop(k)})
      closes(k, x) == {y \in x + 1..limit(k, x) - 1 : text[y].tag = "method close"}
      range(k, a, b, kind) == [name |-> <<Base(text[k].kind, text[k].item), "">>, start |-> a, end |-> b, kind |-> kind]
  IN  {range(k, k, nextTop(k) - 1, text[k].tag) : k \in {x \in tops : text[x].tag \in {"fn", "value"}}}
        \cup UNION {{range(k, x, Min(closes(k, x)), "fn") : x \in {y \in heads(k) : closes(k, y) # {}}} :
                      k \in {x \in tops : text[x].tag = "class"}}

\* Where the body of a function value starts, by the line of its declaration.
NodeBodies(text) ==
  [k \in {x \in DOMAIN text : text[x].tag = "value"} |->
     IF text[k].kind = "wrapped" THEN [line |-> k + 1, col |-> 1]
     ELSE [line |-> k, col |-> IF text[k].kind = "inline" THEN 2 ELSE 3]]

\* The statement that makes a function value runs on import: it is not of its body.
Declares(f, s, bodyAt) ==
  f.kind = "value" /\ s.line = f.start /\ (s.line < bodyAt[f.start].line \/ s.col < bodyAt[f.start].col)

nodeReport(funcs, stmts, bodyAt) ==
  LET body(f) == {s \in stmts : s.line \in f.start..f.end /\ ~Declares(f, s, bodyAt)}
  IN  Concludes(Unique({f.name : f \in funcs}, funcs), {f.name : f \in {g \in funcs : Silent(body(g))}}, Tally(stmts))
-----------------------------------------------------------------------------
(* rust: lcov; the names are read in the source *)

Pred(op, args) == [op |-> op, args |-> args]
Test == Pred("test", {})
Unix == Pred("unix", {})
\* Bound: the arguments of a predicate have none themselves.
Preds == {Test, Unix} \cup [op : {"not", "all", "any"}, args : SUBSET {Test, Unix}]
\* A cfg predicate as far as the absence of "test" decides it.
cfgEval[p \in Preds] ==
  LET vs == {cfgEval[q] : q \in p.args}
  IN  CASE p.op = "test" -> "no"
        [] p.op = "not" -> IF vs = {"no"} THEN "yes" ELSE IF vs = {"yes"} THEN "no" ELSE "unknown"
        [] p.op = "all" -> IF "no" \in vs THEN "no" ELSE IF vs \subseteq {"yes"} THEN "yes" ELSE "unknown"
        [] p.op = "any" -> IF "yes" \in vs THEN "yes" ELSE IF vs \subseteq {"no"} THEN "no" ELSE "unknown"
        [] OTHER -> "unknown"
\* The attribute an item stands under: a predicate that does not decide becomes part of its name.
Cfg(kind) ==
  CASE kind = "testonly" -> Pred("all", {Test, Unix})
    [] kind = "twin" -> Pred("any", {Test, Unix})
    [] kind = "off" -> Pred("not", {Unix})
    [] OTHER -> Pred("not", {Test})

\* Attributes: built in, macros, and cfg_attr(predicate, attributes ..).
Attr(path, args) == [path |-> path, args |-> args]
Builtin == Attr("builtin", {})
Macro == Attr("macro", {})
\* Bound: the attributes inside a cfg_attr hold no cfg_attr themselves.
Attrs == {Builtin, Macro} \cup [path : {"cfg_attr"}, args : SUBSET {Builtin, Macro}]
\* An attribute that may rewrite what it stands over.
rsMacroAttr[a \in Attrs] == IF a.path = "cfg_attr" THEN \E b \in a.args : rsMacroAttr[b] ELSE a.path = "macro"
\* The attributes of a function, and those of the impl around it.
OwnAttrs(kind) == IF kind = "traced" THEN {Builtin, Macro} ELSE {Builtin, Attr("cfg_attr", {Builtin})}
ImplAttrs(kind) ==
  CASE kind = "boxed" -> {Macro}
    [] kind = "guarded" -> {Attr("cfg_attr", {Builtin, Macro})}
    [] OTHER -> {}
Rewritten(attrs) == \E a \in attrs : rsMacroAttr[a]

\* The function or static whose head is line k.  rustfmt ends it with "}" at its own indent.  It is
\* named with its line under a condition that cannot be told, and taken for async only where no
\* attribute macro may have moved its body.
RustFunc(text, k) ==
  LET kind == text[k].kind
  IN  [name |-> <<Base(kind, text[k].item), IF cfgEval[Cfg(kind)] = "unknown" THEN Str[text[k].item] ELSE "">>,
       start |-> k, end |-> IF text[k].tag = "static" THEN k ELSE Min({x \in DOMAIN text : x > k /\ text[x].tag = "close"}),
       isFn |-> text[k].tag = "fn", async |-> kind \in Async /\ ~Rewritten(OwnAttrs(kind)) /\ ~Rewritten(ImplAttrs(kind))]

\* What is compiled only with test, and the body of a macro, are ranges apart.
rustFuncs(text) ==
  LET ending(k) == Min({x \in DOMAIN text : x > k /\ text[x].tag = "impl close"})
      block(tags) == {k..ending(k) : k \in {x \in DOMAIN text : text[x].tag \in tags}}
      tests == {r \in block({"test mod"}) : cfgEval[Cfg(text[Min(r)].kind)] = "no"}
      macros == block({"macro"})
      heads == {k \in DOMAIN text : text[k].tag \in {"fn", "static"} /\ ~\E r \in tests \cup macros : k \in r}
  IN  [tests |-> tests, macros |-> macros, funcs |-> {RustFunc(text, k) : k \in heads},
       fns |-> {k \in DOMAIN text : text[k].tag = "fn"}, lines |-> Len(text)]

\* How the data came to be: by the suite alone; with the unit tests in the same build; or, of lcov,
\* without function records, without their counts, or from a checkout where the file was longer.
Makes(l) == {"suite", "unit tests"} \cup IF l = "rust" THEN {"skip functions", "no counts", "longer"} ELSE {}

\* A record for each function that was linked, one more for each type it was called with, and one
\* for each body of an async function that was polled, where no macro moved it.
LcovOf(src, text, stmts, ran, made) ==
  LET linked(i) == src[i] \notin NeverLinked \/ (made = "unit tests" /\ src[i] = "testonly")
      head(i) == Min({k \in DOMAIN text : text[k].item = i /\ (text[k].tag \in {"fn", "static"} \/ (src[i] = "macro" /\ text[k].tag = "in"))})
      lives(q) == q[2] \in Polls => q \in ran /\ src[q[1]] \notin Boxed
      records == IF made = "skip functions" THEN {}
                 ELSE {<<i, "body">> : i \in {j \in DOMAIN src : linked(j)}} \cup {q \in ran : q[2] \in Polls \cup {"again"} /\ lives(q)}
      seen == {s \in stmts : linked(s.item) /\ lives(<<s.item, s.who>>)}
  IN  [fns |-> {[line |-> head(q[1]), fn |-> q] : q \in records},
       fnda |-> [q \in IF made = "no counts" THEN {} ELSE records |-> IF q \in ran THEN 1 ELSE 0],
       da |-> Lines(seen) \cup IF made = "longer" THEN {[line |-> Len(text) + 1, c |-> 0]} ELSE {}]

\* Which functions a file's records say never ran: without a record, silent, or async and called,
\* when "hit", the records that ran, has that of the call alone.
RustNever(f, records, hit, stmts) ==
  IF records = {} THEN f.isFn ELSE Silent(stmts) \/ (f.async /\ hit < 2)

\* A record at the head of another function in the range of f: the range ran past its end.
swallows(code, f, line) == line # f.start /\ line \in code.fns

rustReport(code, data) ==
  LET within(r, ranges) == \E g \in ranges : r.line \in g
      records(f) == {r \in data.fns : r.line \in f.start..f.end}
      hit(f) == Quantify(records(f), LAMBDA r : r.fn \in DOMAIN data.fnda /\ data.fnda[r.fn] > 0)
      stmts(f) == {s \in data.da : s.line \in f.start..f.end}
  IN  Concludes(/\ \A r \in data.fns : /\ r.fn \in DOMAIN data.fnda
                                       /\ ~within(r, code.tests) /\ ~within(r, code.macros)
                                       /\ \E f \in code.funcs : r.line \in f.start..f.end /\ ~swallows(code, f, r.line)
                /\ \A s \in data.da : s.line \in 1..code.lines
                /\ Unique({f.name : f \in code.funcs}, code.funcs)
                /\ \A f \in code.funcs : records(f) = {} => stmts(f) = {},
                {f.name : f \in {g \in code.funcs : RustNever(g, records(g), hit(g), stmts(g))}}, Tally(data.da))
-----------------------------------------------------------------------------
(* php: PHPUnit's XML, which names the functions and counts their lines *)

PhpUnits(src, stmts) ==
  LET lines(i) == Lines({s \in stmts : s.item = i})
  IN  [total |-> Tally(Lines(stmts)),
       units |-> {[at |-> i, name |-> Name("php", src, i), n |-> Tally(lines(i))] :
                    i \in {j \in DOMAIN src : IsFunction("php", src[j])}}]

\* Lines outside every method belong to no function: they are refused.
phpUnits(data) ==
  LET sum(n(_)) == MapThenSumSet(n, data.units)
  IN  Concludes(/\ Unique({u.name : u \in data.units}, data.units)
                /\ sum(LAMBDA u : u.n.stmts) = data.total.stmts /\ sum(LAMBDA u : u.n.covered) = data.total.covered,
                {u.name : u \in {v \in data.units : v.n.stmts > 0 /\ v.n.covered = 0}}, data.total)
-----------------------------------------------------------------------------
(* ruby: the dump of Coverage, with the calls of each method *)

\* The def line of a method, and of a method on one line, runs when the file is loaded.
RUBY_DUMP(src, text, stmts, ran) ==
  LET at(i) == {k \in DOMAIN text : text[k].item = i}
  IN  [lines |-> {[line |-> x.line, c |-> IF text[x.line].tag = "one" THEN 1 ELSE x.c] : x \in Lines(stmts)},
       methods |-> {[name |-> Name("ruby", src, i), start |-> Min(at(i)), end |-> Max(at(i)),
                     calls |-> IF <<i, "body">> \in ran THEN 1 ELSE 0] : i \in {j \in DOMAIN src : IsFunction("ruby", src[j])}}]

\* A line between def and end is of the method's body; a method on one line is its own body,
\* and whether it ran is told by its calls.
RubyBody(m) == IF m.start = m.end THEN {m.start} ELSE m.start + 1..m.end

rubyMethods(data) ==
  LET body(m) == {x \in data.lines : x.line \in RubyBody(m)}
      ran(m, x) == IF m.start = m.end THEN m.calls > 0 ELSE x.c > 0
      bodies == UNION {{[line |-> x.line, c |-> IF ran(m, x) THEN 1 ELSE 0] : x \in body(m)} : m \in data.methods}
      orphans == {x \in data.lines : ~\E m \in data.methods : x.line \in RubyBody(m)}
  IN  Concludes(/\ Unique({m.name : m \in data.methods}, data.methods)
                /\ \A m, n \in data.methods : m # n => m.start..m.end \cap n.start..n.end = {}
                /\ \A x \in orphans : x.c > 0
                /\ \A m \in data.methods : m.calls = 0 => ~\E x \in body(m) : ran(m, x),
                {m.name : m \in {n \in data.methods : n.calls = 0}}, Tally(bodies))
-----------------------------------------------------------------------------
(* dotnet: coverlet's JSON, where lambdas and async methods are classes of the compiler *)

\* An identifier: the source's own, or one the compiler made for a member and numbered.
Made(form, of, no) == [form |-> form, of |-> of, no |-> no]
Ident(form, of) == Made(form, of, 0)
User == Ident("user", "T")
Cache == Ident("closure class", "T")

DotnetJson(src, stmts) ==
  LET entry(i, cls, name, params, whos) ==
        [item |-> i, cls |-> cls, name |-> name, params |-> params, lines |-> Lines({s \in stmts : s.item = i /\ s.who \in whos})]
      of(i) == Base(src[i], i)
      overload(i) == IF src[i] \in {"over", "overclosure"} THEN Str[i] ELSE ""
      body(i) == CASE src[i] \in {"machine", "overmachine"} -> entry(i, <<User, Made("machine", of(i), i)>>, Ident("user", "MoveNext"), "", {"body"})
                   [] src[i] = "odd" -> entry(i, <<User>>, Ident("unknown", of(i)), "", {"body"})
                   [] OTHER -> entry(i, <<User>>, Ident("user", of(i)), overload(i), {"body"})
      inner(i) == IF src[i] = "asyncclosure"
                  THEN entry(i, <<User, Cache, Made("lambda machine", of(i), i)>>, Ident("user", "MoveNext"), "", {"inner"})
                  ELSE entry(i, <<User, Cache>>, Ident("lambda", of(i)), "", {"inner"})
  IN  {body(i) : i \in DOMAIN src} \cup {inner(i) : i \in {j \in DOMAIN src : src[j] \in {"closure", "overclosure", "asyncclosure"}}}

\* The member a generated identifier was made for.
csPeel(id) == IF id.form \in {"machine", "lambda", "lambda machine"} THEN id.of ELSE "unknown"
dotnetFold(e) ==
  LET made == SelectSeq(e.cls, LAMBDA c : c.form # "user")
      machines == SelectSeq(made, LAMBDA c : c.form # "closure class")
      is(member, kind) == [member |-> member, kind |-> kind]
  IN  CASE made = <<>> /\ e.name.form = "user" -> is(e.name.of, "plain")
        [] machines # <<>> /\ e.name = Ident("user", "MoveNext") ->
             is(csPeel(machines[1]), IF machines[1].form = "lambda machine" THEN "lambda" ELSE "machine")
        [] machines = <<>> /\ e.name.form # "user" -> is(csPeel(e.name), "lambda")
        [] OTHER -> is("unknown", "none")

\* What cannot be told apart: overloads one of which took in a lambda or a state machine.
Ambiguous(es) ==
  LET kinds(k) == {e \in es : dotnetFold(e).kind = k}
      plains == {e.params : e \in kinds("plain")}
  IN  /\ Cardinality(plains) + Cardinality({e.cls : e \in kinds("machine")}) > 1
      /\ kinds("machine") \cup kinds("lambda") # {}

dotnetMethods(entries) ==
  LET member(e) == dotnetFold(e).member
      group(m) == {e \in entries : member(e) = m}
      overloaded(m) == Cardinality({e.params : e \in {x \in group(m) : dotnetFold(x).kind = "plain"}}) > 1
      key(e) == <<member(e), IF overloaded(member(e)) THEN e.params ELSE "">>
      lines(k) == UNION {e.lines : e \in {x \in entries : key(x) = k}}
      all == UNION {e.lines : e \in entries}
      merged == {[line |-> k, c |-> MapThenSumSet(LAMBDA x : x.c, {x \in all : x.line = k})] : k \in {x.line : x \in all}}
  IN  Concludes(\A e \in entries : member(e) # "unknown" /\ ~Ambiguous(group(member(e))),
                {k \in {key(e) : e \in entries} : Silent(lines(k))}, Tally(merged))
-----------------------------------------------------------------------------
(* java: JaCoCo's XML, and javap's line tables of the class files *)

\* What the compiler's name for a nested method says it was written in.
javaFold(kind, i) ==
  CASE kind \in Fields -> [member |-> "<init>", kind |-> "lambda"]
    [] kind = "staticlambda" -> [member |-> "<clinit>", kind |-> "static"]
    [] OTHER -> [member |-> Base(kind, i), kind |-> "lambda"]

\* The methods of the class files: every constructor carries the lines of the fields;
\* "lines" is the line table, "ends" its first and last entry, "ran" what JaCoCo counted.
JavaParts(src, stmts, ran) ==
  LET at(i, whos) == {s.line : s \in {x \in stmts : x.item = i /\ x.who \in whos}}
      fields == UNION {at(i, {"constructors"}) : i \in DOMAIN src}
      static == UNION {at(i, {"load"}) : i \in DOMAIN src}
      part(name, desc, kind, lines, ends, does) ==
        [member |-> name, desc |-> desc, kind |-> kind, lines |-> lines, ends |-> ends, ran |-> does]
      plain(i) == part(Base(src[i], i), Str[i], "plain", at(i, {"body"}) \cup (IF src[i] = "ctor" THEN fields ELSE {}),
                       at(i, {"body"}), <<i, "body">> \in ran)
      lambda(i) == part(javaFold(src[i], i).member, "", javaFold(src[i], i).kind, at(i, {"inner"}), {}, <<i, "inner">> \in ran)
  IN  {plain(i) : i \in {j \in DOMAIN src : IsFunction("java", src[j])}}
        \cup {lambda(i) : i \in {j \in DOMAIN src : at(j, {"inner"}) # {}}}
        \cup (IF static = {} THEN {} ELSE {part("<clinit>", "", "initializer", static, {}, TRUE)})

JavaXml(stmts) == Lines(stmts)

Span(lines) == IF lines = {} THEN {} ELSE Min(lines)..Max(lines)
\* The lines only this overload has; of a constructor, from its first to its last.
Body(p, plains) ==
  IF p.member = "<init>" THEN Span(p.ends)
  ELSE Span({n \in p.lines : Quantify(plains, LAMBDA q : n \in q.lines) = 1})

\* The overloads a lambda was written in: the one whose body holds its lines; or, in the
\* initializer of a field that all constructors run, those with its line or the line before it.
Hosts(p, plains) ==
  LET onShared == \A n \in p.lines : Quantify(plains, LAMBDA q : n \in q.lines) > 1
      sharers == {q \in plains : p.lines \subseteq q.lines}
      within == {q \in plains : p.lines \subseteq Body(q, plains)}
      before == {n \in UNION {q.lines : q \in plains} : n <= Min(p.lines)}
      runs == IF before = {} \/ \E q \in plains : Body(q, plains) # {} /\ Max(Body(q, plains)) > Max(before)
                                                   /\ Min(Body(q, plains)) <= Max(p.lines) THEN {}
              ELSE {q \in plains : Max(before) \in q.lines}
      found == IF within # {} THEN within ELSE runs
  IN  CASE onShared -> IF p.member = "<init>" /\ Cardinality(sharers) > 1 THEN sharers ELSE {}
        [] Cardinality(found) = 1 \/ (within = {} /\ p.member = "<init>") -> found
        [] OTHER -> {}

\* The lines outside the static initializer, covered when a method that ran has them.
JavaBodyLines(parts, xml) ==
  LET outside == {p \in parts : p.kind # "initializer"}
  IN  {[line |-> x.line, c |-> IF x.c > 0 /\ \E p \in outside : p.ran /\ x.line \in p.lines THEN 1 ELSE 0] :
         x \in {y \in xml : \E p \in outside : y.line \in p.lines}}
JavaOwned(parts, xml) == \A x \in xml : \E p \in parts : x.line \in p.lines

javaMethods(parts, xml) ==
  LET plains(m) == {p \in parts : p.member = m /\ p.kind = "plain"}
      overloaded(m) == Cardinality(plains(m)) > 1
      key(p) == <<p.member, IF overloaded(p.member) THEN p.desc ELSE "">>
      lambdas(m) == {p \in parts : p.member = m /\ p.kind = "lambda"}
      hosts(p) == IF overloaded(p.member) THEN Hosts(p, plains(p.member)) ELSE plains(p.member)
      own(p) == {p} \cup {f \in lambdas(p.member) : hosts(f) = {p}}
      functions == {p \in parts : p.kind = "plain"}
  IN  Concludes((\A p \in parts : p.kind = "lambda" => hosts(p) # {}) /\ JavaOwned(parts, xml),
                {key(p) : p \in {q \in functions : \A r \in own(q) : ~r.ran}}, Tally(JavaBodyLines(parts, xml)))
=============================================================================
