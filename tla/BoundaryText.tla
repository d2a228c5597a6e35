---------------------------- MODULE BoundaryText ----------------------------
(***************************************************************************)
(* The scanners of scripts/coverage-boundary.mjs: shell commands in        *)
(* workflows, scripts and rule documents; Java, Kotlin and C# sources      *)
(* without comments and strings; the scripts and TOML of the gates.        *)
(*                                                                         *)
(* A text is a sequence of atoms.  What a scanner tells apart is an atom   *)
(* of its own (a quote, a brace, "$X" for what the shell expands); any     *)
(* other run of characters is one atom.                                    *)
(***************************************************************************)
EXTENDS Integers, SequencesExt, FiniteSetsExt

Quote1 == "'"
Quote2 == "\""
Escape == "\\"
EXPANDS == {"$X", "$("}
Operators == {"|", "&", ";", "<", ">", "(", ")"}
-----------------------------------------------------------------------------
(* Shell words *)

Word(w, exp) == [w |-> w, exp |-> exp, op |-> FALSE]
Op(c) == [w |-> <<c>>, exp |-> FALSE, op |-> TRUE]
Null == Op("")

Flush(z) == [z EXCEPT !.out = IF z.open THEN Append(@, Word(z.cur, z.exp)) ELSE @, !.open = FALSE, !.cur = <<>>, !.exp = FALSE]
Take(z, c) == [z EXCEPT !.open = TRUE, !.cur = Append(@, c)]
Enter(z, mode) == [z EXCEPT !.open = TRUE, !.mode = mode]

\* Quotes and escapes are taken off; a word remembers whether the shell expands it.
LexStep(z, c) ==
  CASE z.mode = "comment" -> z
    [] z.mode = "single" -> IF c = Quote1 THEN Enter(z, "plain") ELSE Take(z, c)
    [] z.mode = "escape" -> Enter(Take(z, c), "plain")
    [] z.mode = "double escape" ->
         Enter(IF c \in {Quote2, Escape} \cup EXPANDS THEN Take(z, c) ELSE Take(Take(z, Escape), c), "double")
    [] z.mode = "double" ->
         CASE c = Quote2 -> Enter(z, "plain")
           [] c = Escape -> Enter(z, "double escape")
           [] OTHER -> [Take(z, c) EXCEPT !.exp = @ \/ c \in EXPANDS]
    [] c = " " -> Flush(z)
    [] c = "#" /\ ~z.open -> [z EXCEPT !.mode = "comment"]
    [] c \in Operators -> [Flush(z) EXCEPT !.out = Append(@, Op(c))]
    [] c = Quote1 -> Enter(z, "single")
    [] c = Quote2 -> Enter(z, "double")
    [] c = Escape -> Enter(z, "escape")
    [] OTHER -> [Take(z, c) EXCEPT !.exp = @ \/ c \in EXPANDS]

lexWords(text) ==
  Flush(FoldLeft(LexStep, [out |-> <<>>, open |-> FALSE, cur |-> <<>>, exp |-> FALSE, mode |-> "plain"], text)).out

\* The quote a line starts in: a script handed over in quotes spans lines.
QuoteStep(z, c) ==
  LET to(st) == [z EXCEPT !.st = st, !.prev = c]
  IN  CASE z.mode = "comment" -> z
        [] z.mode = "escape" -> [z EXCEPT !.mode = "read", !.prev = c]
        [] z.st = "single" -> IF c = Quote1 THEN to("none") ELSE to(z.st)
        [] c = Escape -> [z EXCEPT !.mode = "escape", !.prev = c]
        [] z.st = "double" -> IF c = Quote2 THEN to("none") ELSE to(z.st)
        [] c = Quote1 -> to("single")
        [] c = Quote2 -> to("double")
        [] c = "#" /\ z.prev \in {" ", ";", "&", "|", "(", ")"} -> [z EXCEPT !.mode = "comment"]
        [] OTHER -> to(z.st)
StateAfter(st, text) == FoldLeft(QuoteStep, [st |-> st, mode |-> "read", prev |-> " "], text).st
quoteStates(lines) ==
  [n \in DOMAIN lines |-> [text |-> lines[n], quotedYaml |-> FALSE, span |-> FALSE,
                           state |-> FoldLeft(StateAfter, "none", SubSeq(lines, 1, n - 1))]]

\* A line that starts in single quotes is a command of the inner shell up to their end.
wordsOfLine(l) ==
  IF l.state = "single" /\ Quote1 \in Range(l.text)
  THEN LET j == SelectInSeq(l.text, LAMBDA c : c = Quote1)
       IN  lexWords(SubSeq(l.text, 1, j - 1)) \o <<Op(";")>> \o lexWords(SubSeq(l.text, j + 1, Len(l.text)))
  ELSE lexWords(l.text)

\* A file is a sequence of parts: run scripts and other keys of a workflow, the spans and
\* the prose of a document, or the one part of a shell script.
Line(text, quoted, span) == <<[text |-> text, state |-> "none", quotedYaml |-> quoted, span |-> span]>>
commandLines(file) ==
  FlattenSeq([n \in DOMAIN file |->
    CASE file[n].style \in {"run block", "script"} -> quoteStates(file[n].lines)
      [] file[n].style = "run" -> Line(file[n].lines[1], FALSE, FALSE)
      [] file[n].style = "quoted run" -> Line(file[n].lines[1], TRUE, FALSE)
      [] file[n].style = "span" -> Line(file[n].lines[1], FALSE, TRUE)
      [] OTHER -> <<>>])
-----------------------------------------------------------------------------
(* The two commands with a regular expression: grep -vE on the cover profile, llvm-cov *)

Options == {"-v", "-E", "-vE", "-e", "-f", "-F", "--"}
Letters(o) == CASE o = "-vE" -> {"v", "E"} [] o = "-v" -> {"v"} [] o = "-E" -> {"E"} [] o = "-e" -> {"e"} [] o = "-f" -> {"f"} [] OTHER -> {"F"}
IsOption(ws, j) == j <= Len(ws) /\ ~ws[j].op /\ ws[j].w # <<>> /\ Head(ws[j].w) \in Options
At(ws, j) == IF j <= Len(ws) THEN ws[j] ELSE Null

RECURSIVE grepArgs(_, _, _)
grepArgs(ws, j, g) ==
  IF IsOption(ws, j) /\ Head(ws[j].w) # "--"
  THEN LET letters == Letters(Head(ws[j].w))
           takes == letters \cap {"e", "f"} # {}
           attached == Len(ws[j].w) > 1
           pat == IF attached THEN [ws[j] EXCEPT !.w = Tail(@)] ELSE At(ws, j + 1)
       IN  grepArgs(ws, j + (IF takes /\ ~attached THEN 2 ELSE 1),
                    [invert |-> g.invert \/ "v" \in letters, ere |-> g.ere \/ "E" \in letters,
                     bad |-> g.bad \/ letters \cap {"f", "F"} # {}, pats |-> IF takes THEN Append(g.pats, pat) ELSE g.pats])
  ELSE LET from == IF IsOption(ws, j) THEN j + 1 ELSE j
           positional == g.pats = <<>> /\ ~At(ws, from).op
           pats == IF positional THEN <<ws[from]>> ELSE g.pats
       IN  [invert |-> g.invert, next |-> IF positional THEN from + 1 ELSE from,
            pat |-> IF g.ere /\ ~g.bad /\ Len(pats) = 1 THEN pats[1] ELSE Null]

\* The words after j up to the next operator.
Args(ws, j) == {k \in j..Len(ws) : \A x \in j..k : ~ws[x].op}
Extract(kind, ws, loose) ==
  LET grep(i) ==
        LET g == grepArgs(ws, i + 1, [invert |-> FALSE, ere |-> Last(ws[i].w) = "egrep", bad |-> FALSE, pats |-> <<>>])
            onCover == loose \/ \E k \in Args(ws, g.next) : "cover.out" \in Range(ws[k].w)
        IN  IF onCover /\ g.invert THEN <<g.pat>> ELSE <<>>
      llvm(i) == IF Head(ws[i].w) = "--ignore-filename-regex" THEN <<At(ws, i + 1)>> ELSE <<[ws[i] EXCEPT !.w = Tail(@)]>>
      hit(i) == CASE ws[i].op \/ ws[i].w = <<>> -> <<>>
                  [] kind = "grepcover" /\ Last(ws[i].w) \in {"grep", "egrep"} -> grep(i)
                  [] kind = "llvmcov" /\ Head(ws[i].w) \in {"--ignore-filename-regex", "--ignore-filename-regex="} -> llvm(i)
                  [] OTHER -> <<>>
  IN  FlattenSeq([i \in DOMAIN ws |-> hit(i)])

Trigger == [grepcover |-> {"grep", "egrep"}, llvmcov |-> {"--ignore-filename-regex", "--ignore-filename-regex="}]
CmdWord == [grepcover |-> "grep", llvmcov |-> "llvm-cov"]

\* A span is a copy only if one of its words names the command.
HitsOf(kind, l, words) ==
  Extract(kind, IF l.span /\ ~\E x \in Range(words) : x.w # <<>> /\ Last(x.w) = CmdWord[kind] THEN <<>> ELSE words, l.span)
FoundIn(lines, hits) ==
  [fail |-> \/ \E n \in DOMAIN lines : lines[n].state = "double" \/ (lines[n].quotedYaml /\ hits[n] # <<>>)
            \/ \E x \in Range(FlattenSeq(hits)) : x.op \/ x.exp,
   values |-> LET all == FlattenSeq(hits) IN [n \in DOMAIN all |-> all[n].w]]

\* The values found in a file, or that one cannot be read.
findRegexes(file, kind) ==
  LET lines == SelectSeq(commandLines(file), LAMBDA l : Range(l.text) \cap Trigger[kind] # {})
  IN  FoundIn(lines, [n \in DOMAIN lines |-> HitsOf(kind, lines[n], wordsOfLine(lines[n]))])
-----------------------------------------------------------------------------
(* Sources without comments and strings *)

\* What an atom opens where code stands.
Opens(lang, c) ==
  CASE c = "//" -> "line"
    [] c = "/*" -> "block"
    [] c = Quote2 -> "string"
    [] c = "\"\"\"" -> "text"
    [] c = "'" -> "char"
    [] c = "$\"" /\ lang = "csharp" -> "interpolated"
    [] c = "@\"" /\ lang = "csharp" -> "verbatim"
    [] OTHER -> "nothing"
\* What is left of it.
Leaves == [line |-> <<>>, block |-> <<>>, string |-> <<"str">>, text |-> <<"str">>, char |-> <<"0">>,
           interpolated |-> <<"str">>, verbatim |-> <<"str">>]

\* Frames: the code of the file, the code in the braces of a string, what atoms open.
\* A template is code up to the brace that closes its own.
StripStep(lang, z, c) ==
  LET top == Last(z.stack)
      inFile == Len(z.stack) = 1
      push(f) == [z EXCEPT !.stack = Append(@, f)]
      pop == [z EXCEPT !.stack = Front(@)]
      emit(s) == IF inFile THEN [z EXCEPT !.out = @ \o s] ELSE z
      skip == [z EXCEPT !.skip = TRUE]
      opened == Opens(lang, c)
  IN  CASE z.skip -> [z EXCEPT !.skip = FALSE]
        [] top \in {"file", "template", "braces"} /\ opened # "nothing" ->
             [emit(Leaves[opened]) EXCEPT !.stack = Append(@, opened)]
        [] top \in {"template", "braces"} /\ c \in {"{", "}"} -> IF c = "{" THEN push("braces") ELSE pop
        [] top \in {"file", "template", "braces"} -> emit(<<c>>)
        [] top = "line" -> IF c = "\n" THEN pop ELSE z
        [] top = "block" -> IF c = "*/" THEN pop ELSE IF c = "/*" /\ lang = "kotlin" THEN push("block") ELSE z
        [] top = "verbatim" -> IF c = Quote2 THEN pop ELSE z
        [] c = Escape /\ (top \in {"string", "interpolated", "char"} \/ (top = "text" /\ lang = "java")) -> skip
        [] c = "${" /\ lang = "kotlin" /\ top \in {"string", "text"} -> push("template")
        [] c = "{" /\ top = "interpolated" -> push("template")
        [] c = "'" /\ top = "char" -> pop
        [] c = Quote2 /\ top \in {"string", "interpolated"} -> pop
        [] c = "\"\"\"" /\ top = "text" -> pop
        [] c = "\n" /\ top \in {"string", "interpolated", "char"} -> pop
        [] OTHER -> z

stripCode(src, lang) ==
  LET step(z, c) == StripStep(lang, z, c)
  IN  FoldLeft(step, [out |-> <<>>, stack |-> <<"file">>, skip |-> FALSE], src).out
tokens(code) == SelectSeq(code, LAMBDA c : c \notin {" ", "\n"})
-----------------------------------------------------------------------------
(* The gates' own files: TypeScript and Kotlin scripts, TOML, XML *)

Punctuation == {"{", "}", "[", "]", "(", ")", ",", ":", ".", "=", "..."}
Tok(t, v, dyn) == [t |-> t, v |-> v, dyn |-> dyn]
IsTok(toks, i, t, v) == i \in DOMAIN toks /\ toks[i].t = t /\ toks[i].v = <<v>>

\* Strings in any quote ("bq" is a backquote), with what makes them dynamic; comments dropped.
ScriptStep(kotlin, z, c) ==
  LET quotes == {Quote1, Quote2, "bq"} \cup (IF kotlin THEN {"\"\"\""} ELSE {})
      dynamic == \/ c = "${" /\ (z.mode = "bq" \/ (kotlin /\ z.mode \in {Quote2, "\"\"\""}))
                 \/ c = "$X" /\ kotlin /\ z.mode \in {Quote2, "\"\"\""}
  IN  CASE z.skip -> [z EXCEPT !.skip = FALSE, !.cur = Append(@, c)]
        [] z.mode = "//" -> IF c = "\n" THEN [z EXCEPT !.mode = "code"] ELSE z
        [] z.mode = "/*" -> IF c = "*/" THEN [z EXCEPT !.mode = "code"] ELSE z
        [] z.mode # "code" ->
             CASE c = z.mode -> [z EXCEPT !.mode = "code", !.out = Append(@, Tok("str", z.cur, z.dyn))]
               [] c = Escape /\ z.mode # "\"\"\"" -> [z EXCEPT !.skip = TRUE]
               [] OTHER -> [z EXCEPT !.cur = Append(@, c), !.dyn = @ \/ dynamic]
        [] c \in quotes -> [z EXCEPT !.mode = c, !.cur = <<>>, !.dyn = FALSE]
        [] c \in {"//", "/*"} -> [z EXCEPT !.mode = c]
        [] c \in {" ", "\n"} -> z
        [] OTHER -> [z EXCEPT !.out = Append(@, Tok(IF c \in Punctuation THEN "p" ELSE "id", <<c>>, FALSE))]
scriptTokens(src, kotlin) ==
  LET step(z, c) == ScriptStep(kotlin, z, c)
  IN  FoldLeft(step, [out |-> <<>>, mode |-> "code", cur |-> <<>>, dyn |-> FALSE, skip |-> FALSE], src).out

Closing == [b \in {"{", "[", "("} |-> CASE b = "{" -> "}" [] b = "[" -> "]" [] b = "(" -> ")"]
\* How many more of an opening than of its closing tokens stand in i..k.
Depth(toks, i, k, b) ==
  Quantify(i..k, LAMBDA x : IsTok(toks, x, "p", b)) - Quantify(i..k, LAMBDA x : IsTok(toks, x, "p", Closing[b]))
matchClose(toks, i) == Min({k \in i..Len(toks) : Depth(toks, i, k, toks[i].v[1]) = 0})

\* Mutant: what is not a string is passed over.
AnyStrings(toks, from, to) ==
  LET args == SelectSeq(SubSeq(toks, from, to), LAMBDA t : t.t = "str")
  IN  [fail |-> \E t \in Range(args) : t.dyn, values |-> [n \in DOMAIN args |-> args[n].v]]
\* The strings of a list: anything else in it is refused.
Strings(toks, from, to) ==
  LET args == SelectSeq(SubSeq(toks, from, to), LAMBDA t : ~(t.t = "p" /\ t.v = <<",">>))
  IN  [fail |-> \E t \in Range(args) : t.t # "str" \/ t.dyn, values |-> [n \in DOMAIN args |-> args[n].v]]

\* The part of a TOML line before its comment, its strings whole.
TomlStep(z, c) ==
  CASE z.q = "end" -> z
    [] z.q = "" /\ c = "#" -> [z EXCEPT !.q = "end"]
    [] OTHER -> [out |-> Append(z.out, c), q |-> CASE z.q = "" /\ c \in {Quote1, Quote2} -> c [] z.q = c -> "" [] OTHER -> z.q]
TomlCode(line) == FoldLeft(TomlStep, [out |-> <<>>, q |-> ""], line).out

\* The strings of a key in a section, an array over any number of lines.
TomlLine(section, key, z, raw) ==
  LET l == TomlCode(raw)
      starts == z.in /\ l # <<>> /\ Head(l) = key
      rest == IF z.open THEN l ELSE IF starts /\ Len(l) > 1 /\ l[2] = "[" THEN SubSeq(l, 3, Len(l)) ELSE <<>>
      toks == scriptTokens(rest, FALSE)
      strings == SelectSeq(toks, LAMBDA t : t.t = "str")
      reads == z.open \/ starts
  IN  CASE ~z.open /\ l # <<>> /\ Head(l) \in {"[tool.coverage.run]", "[tool.coverage.report]", "[other]"} -> [z EXCEPT !.in = Head(l) = section]
        [] ~z.in \/ ~reads -> z
        [] starts /\ ~z.open /\ (Len(l) = 1 \/ l[2] # "[") -> [z EXCEPT !.fail = TRUE]
        [] OTHER -> [z EXCEPT !.values = @ \o [n \in DOMAIN strings |-> strings[n].v], !.open = toks = <<>> \/ Last(toks) # Tok("p", <<"]">>, FALSE)]
tomlStrings(lines, section, key) ==
  LET step(z, raw) == TomlLine(section, key, z, raw)
  IN  FoldLeft(step, [in |-> FALSE, open |-> FALSE, fail |-> FALSE, values |-> <<>>], lines)
tomlKeyLine(lines, section, key) ==
  LET opens == {n \in DOMAIN lines : lines[n] # <<>> /\ Head(lines[n]) = section}
      heads == {n \in DOMAIN lines : lines[n] # <<>> /\ Head(lines[n]) \in {"[tool.coverage.run]", "[tool.coverage.report]", "[other]"}}
  IN  \E n \in DOMAIN lines : /\ lines[n] # <<>> /\ Head(lines[n]) = key
                              /\ \E h \in opens : h < n /\ ~\E g \in heads : h < g /\ g < n

\* Mutant: what is commented out counts.
XmlAsIs(x) == x
\* XML without its comments.
blankXmlComments(x) ==
  FoldLeft(LAMBDA z, c : IF z.in THEN [z EXCEPT !.in = c # "-->"] ELSE IF c = "<!--" THEN [z EXCEPT !.in = TRUE]
                         ELSE [z EXCEPT !.out = Append(@, c)], [out |-> <<>>, in |-> FALSE], x).out
\* What stands after each tag.
Tagged(x, tag) == LET at == SelectSeq([n \in DOMAIN x |-> n], LAMBDA n : x[n] = tag) IN [n \in DOMAIN at |-> x[at[n] + 1]]
=============================================================================
