-------------------------- MODULE BoundaryClasses --------------------------
(***************************************************************************)
(* The class readers of scripts/coverage-boundary.mjs: JaCoCo, Kover and   *)
(* coverlet leave out classes, their copies name files, so the script      *)
(* finds in a source file the classes that compile from it.                *)
(*                                                                         *)
(* A file is a small syntax tree; it is laid out as text, and the readers  *)
(* are given the text.                                                     *)
(***************************************************************************)
EXTENDS BoundaryText

CONSTANT MaxMembers     \* bound: members of a Java class, declarations of a Kotlin or C# file
ASSUME MembersAreNatural == MaxMembers \in Nat
UpTo(S, n) == UNION {[1..k -> S] : k \in 0..n}

Layout(pieces) == FlattenSeq(pieces)
NonNames == {"{", "}", "(", ")", "[", "]", "<", ">", ";", ",", ".", "=", "->", "::", ":", "@", "0", "str", "="}
IsName(t, i) == i \in DOMAIN t /\ t[i] \notin NonNames
Is(t, i, c) == i \in DOMAIN t /\ t[i] = c
\* The end of the bracket that opens at j.
EndOf(t, j, open, close) ==
  Min({k \in j..Len(t) : Quantify(j..k, LAMBDA x : t[x] = open) = Quantify(j..k, LAMBDA x : t[x] = close)})
-----------------------------------------------------------------------------
(* Java *)

\* What may stand in a class without being a class of its own, but for the first three.
JavaMember == [
  nested    |-> <<"class", "N", "{", "}">>,
  anonymous |-> <<"X", "x", "=", "new", "X", "(", ")", "{", "}", ";">>,
  generic   |-> <<"X", "x", "=", "new", "p", ".", "X", "<", "Y", "<", "Z", ">", ">", "(", "f", "(", ")", ")", "{", "}", ";">>,
  method    |-> <<"void", "f", "(", ")", "{", "g", "(", "(", ")", "->", "{", "}", ")", ";", "}">>,
  array     |-> <<"X", "x", "=", "new", "X", "[", "]", "{", "}", ";">>,
  literal   |-> <<"X", "x", "=", "X", ".", "class", ";", "void", "record", "(", "X", "x", ")", "{", "}">>,
  comment   |-> <<"/*", "class", "N", "{", "*/", "//", "'", "}", "\n">>,
  string    |-> <<"X", "x", "=", Quote2, "class", "N", "{", Escape, Quote2, "}", "}", Quote2, ";">>,
  textblock |-> <<"X", "x", "=", "\"\"\"", "{", Quote2, Escape, "\"\"\"", "}", "}", "\"\"\"", ";">>,
  char      |-> <<"X", "x", "=", "'", "{", "'", "+", "'", Escape, "'", "'", ";">>]

JavaText(file) ==
  LET constant(body) == IF body THEN <<"A", "{", "}", ",">> ELSE <<"A", "(", ")", ",">>
      consts == FlattenSeq([n \in DOMAIN file.consts |-> constant(file.consts[n])])
      members == FlattenSeq([n \in DOMAIN file.members |-> JavaMember[file.members[n]]])
      head == CASE file.kind = "record" -> <<"record", "T", "(", "X", "x", ")">> [] OTHER -> <<file.kind, "T">>
  IN  Layout(<<IF file.pkg THEN <<"package", "p", ";">> ELSE <<>>, <<"@", "A">>, head, <<"{">>, consts,
               IF file.kind = "enum" /\ members # <<>> THEN <<";">> ELSE <<>>, members, <<"}">>,
               IF file.second THEN <<"class", "U", "{", "}">> ELSE <<>>>>)

JavaTrees ==
  [pkg : {TRUE}, kind : {"class"}, consts : {<<>>}, members : UpTo(DOMAIN JavaMember, MaxMembers), second : BOOLEAN]
    \cup [pkg : BOOLEAN, kind : {"interface", "record"}, consts : {<<>>}, members : UpTo(DOMAIN JavaMember, 1), second : {FALSE}]
    \cup [pkg : {TRUE}, kind : {"enum"}, consts : UpTo(BOOLEAN, 2), members : UpTo(DOMAIN JavaMember, 1), second : BOOLEAN]

JavaClass(pkg, name) == (IF pkg = <<>> THEN <<>> ELSE pkg \o <<"/">>) \o name \o <<".", "class">>
\* What javac makes of it.
JavaTruth(file) ==
  LET pkg == IF file.pkg THEN <<"p">> ELSE <<>>
  IN  {JavaClass(pkg, <<"T">>)}
        \cup (IF "nested" \in Range(file.members) THEN {JavaClass(pkg, <<"T", "$", "N">>)} ELSE {})
        \cup (IF {"anonymous", "generic"} \cap Range(file.members) # {} \/ TRUE \in Range(file.consts)
              THEN {JavaClass(pkg, <<"T", "$", "1">>)} ELSE {})
        \cup (IF file.second THEN {JavaClass(pkg, <<"U">>)} ELSE {})

JavaDecl(t, i) ==
  /\ t[i] \in {"class", "interface", "enum"} \/ (t[i] = "record" /\ (Is(t, i + 2, "(") \/ Is(t, i + 2, "<")))
  /\ ~Is(t, i - 1, ".") /\ IsName(t, i + 1)
\* An anonymous class: its arguments are followed by a body.
Anonymous(t, i) ==
  LET name == Min({j \in i + 1..Len(t) : ~IsName(t, j) /\ t[j] # "."})
      args == IF t[name] = "<" THEN EndOf(t, name, "<", ">") + 1 ELSE name
  IN  t[i] = "new" /\ Is(t, args, "(") /\ Is(t, EndOf(t, args, "(", ")") + 1, "{")

RECURSIVE javaScan(_, _, _)
javaScan(t, i, z) ==
  LET companion(y) == IF y.top THEN [y EXCEPT !.tops[Len(y.tops)].companions = TRUE] ELSE y
      inConstants == z.enumAt > 0 /\ z.depth = z.enumAt
  IN  CASE i > Len(t) -> z
        [] t[i] = "package" /\ z.depth = 0 -> javaScan(t, i + 3, [z EXCEPT !.pkg = <<t[i + 1]>>])
        [] JavaDecl(t, i) ->
             javaScan(t, i + 2,
               [(IF z.depth = 0 THEN [z EXCEPT !.tops = Append(@, [name |-> t[i + 1], companions |-> FALSE]), !.top = TRUE] ELSE companion(z))
                  EXCEPT !.pending = IF t[i] = "enum" /\ z.depth = 0 THEN "enum" ELSE "type"])
        [] t[i] = "{" ->
             javaScan(t, i + 1, [(IF inConstants THEN companion(z) ELSE z) EXCEPT !.depth = @ + 1, !.pending = "none",
                                   !.enumAt = IF z.pending = "enum" THEN z.depth + 1 ELSE @])
        [] t[i] = "}" ->
             javaScan(t, i + 1, [z EXCEPT !.depth = @ - 1, !.enumAt = IF z.depth - 1 < @ THEN 0 ELSE @, !.top = @ /\ z.depth > 1])
        [] t[i] = ";" -> javaScan(t, i + 1, IF inConstants THEN [z EXCEPT !.enumAt = 0] ELSE z)
        [] t[i] = "new" -> javaScan(t, i + 1, IF Anonymous(t, i) THEN companion(z) ELSE z)
        [] OTHER -> javaScan(t, i + 1, z)

\* The top classes, and one companion that stands for all of a class.
javaClassFiles(src) ==
  LET z == javaScan(tokens(stripCode(src, "java")), 1,
                    [pkg |-> <<>>, tops |-> <<>>, top |-> FALSE, depth |-> 0, pending |-> "none", enumAt |-> 0])
  IN  UNION {{JavaClass(z.pkg, <<x.name>>)} \cup (IF x.companions THEN {JavaClass(z.pkg, <<x.name, "$", "1">>)} ELSE {}) :
              x \in Range(z.tops)}
-----------------------------------------------------------------------------
(* Kotlin *)

\* Declarations of a file; what stands in braces, parentheses, strings or comments declares nothing.
KotlinDecl == [
  class     |-> <<"class", "T", "(", "val", "a", ":", "X", ")", "{", "fun", "f", "(", ")", "{", "}", "}">>,
  nested    |-> <<"class", "T", "{", "companion", "object", "{", "val", "b", "}", "class", "N", "}">>,
  object    |-> <<"object", "T", "{", "}">>,
  funinterface |-> <<"fun", "interface", "T", "{", "}">>,
  fun       |-> <<"fun", "f", "(", ")", "=", "X", "::", "class">>,
  val       |-> <<"val", "v", "=", Quote2, "${", "f", "{", Quote2, "}", Quote2, "}", "}", "{", Quote2>>,
  alias     |-> <<"typealias", "A", "=", "X", "/*", "/*", "*/", "fun", "{", "*/">>,
  raw       |-> <<"class", "T", "{", "val", "s", "=", "\"\"\"", Escape, "${", "\"\"\"", "}", "\"\"\"", "}", "{", "\"\"\"", "}">>]
KotlinText(file) == Layout([n \in DOMAIN file.decls |-> KotlinDecl[file.decls[n]]])
KotlinTrees == [jvmName : BOOLEAN, decls : UpTo(DOMAIN KotlinDecl, MaxMembers)]
HasFacade(file) == {"fun", "val"} \cap Range(file.decls) # {}
Facade(file) == IF file.jvmName THEN "Named" ELSE "FileKt"
KotlinTruth(file) ==
  (IF {"class", "nested", "object", "funinterface", "raw"} \cap Range(file.decls) # {} THEN {<<"p", ".", "T">>} ELSE {})
    \cup (IF "nested" \in Range(file.decls) THEN {<<"p", ".", "T", "$", "N">>} ELSE {})
    \cup (IF HasFacade(file) THEN {<<"p", ".", Facade(file)>>} ELSE {})

\* Depth 0 is outside every brace and parenthesis.
TopLevel(t, i) ==
  /\ Quantify(1..i, LAMBDA x : t[x] = "{") = Quantify(1..i, LAMBDA x : t[x] = "}")
  /\ Quantify(1..i, LAMBDA x : t[x] = "(") = Quantify(1..i, LAMBDA x : t[x] = ")")
\* A class, and what its compiler may add to it; the facade of functions and properties.
kotlinClasses(src, facadeName) ==
  LET t == tokens(stripCode(src, "kotlin"))
      at(words) == {i \in DOMAIN t : t[i] \in words /\ TopLevel(t, i)}
      tops == {t[i + 1] : i \in {j \in at({"class", "interface", "object"}) : ~Is(t, j - 1, "::") /\ IsName(t, j + 1)}}
      facade == at({"val", "var"}) # {} \/ \E i \in at({"fun"}) : ~Is(t, i + 1, "interface")
  IN  UNION {{<<"p", ".", n>>, <<"p", ".", n, "$", "<synthetic>">>} : n \in tops \cup (IF facade THEN {facadeName} ELSE {})}
-----------------------------------------------------------------------------
(* C# *)

CsDecl == [
  class     |-> <<"class", "T", ":", "X", "{", "int", "P", "{", "}", "class", "N", "{", "}", "}">>,
  generic   |-> <<"class", "T", "<", "A", ",", "B", "<", "C", ",", "D", ">", ">", "where", "A", ":", "class", "{", "}">>,
  record    |-> <<"record", "T", "(", "X", "x", ")", ";">>,
  struct    |-> <<"record", "struct", "T", "{", "}">>,
  delegate  |-> <<"delegate", "X", "D", "<", "A", ">", "(", "A", "a", ")", ";">>,
  string    |-> <<"class", "T", "{", "X", "x", "=", "$\"", "{{", "{", "f", "(", Quote2, "}", Quote2, ")", "}", Quote2, "+", "@\"", Escape, Quote2, ";", "}">>,
  directive |-> <<"#if", "class", "Z", "{", "\n", "class", "T", "{", "}">>,
  comment   |-> <<"/*", "/*", "*/", "interface", "T", "{", "//", "}", "\n", "}">>]
CsText(file) ==
  LET body == Layout([n \in DOMAIN file.decls |-> CsDecl[file.decls[n]]])
  IN  CASE file.ns = "file" -> <<"namespace", "Ns", ".", "A", ";">> \o body
        [] file.ns = "block" -> <<"namespace", "Ns", ".", "A", "{">> \o body \o <<"}">>
        [] file.ns = "nested" -> <<"namespace", "Ns", "{", "namespace", "A", "{">> \o body \o <<"}", "}">>
        [] OTHER -> body
CsTrees == [ns : {"none", "file", "block", "nested"}, decls : UpTo(DOMAIN CsDecl, MaxMembers)]
CsTruth(file) ==
  LET ns == IF file.ns = "none" THEN <<>> ELSE <<"Ns", ".", "A", ".">>
  IN  {ns \o (CASE d = "generic" -> <<"T", "arity2">> [] d = "delegate" -> <<"D", "arity1">> [] OTHER -> <<"T">>) : d \in Range(file.decls)}

CsName(stack, fileNs) == LET parts == fileNs \o FlattenSeq(SelectSeq(stack, LAMBDA s : s # <<>>)) IN FlattenSeq([n \in DOMAIN parts |-> <<parts[n], ".">>])
ArityOf(t, j) ==
  IF ~Is(t, j, "<") THEN <<>>
  ELSE LET end == EndOf(t, j, "<", ">")
           depth(k) == Quantify(j..k, LAMBDA x : t[x] = "<") - Quantify(j..k, LAMBDA x : t[x] = ">")
       IN  <<IF Quantify(j..end, LAMBDA k : t[k] = "," /\ depth(k) = 1) = 1 THEN "arity2" ELSE "arity1">>
\* The name of a delegate stands before its type parameters and its parameters.
DelegateName(t, i) ==
  LET paren == Min({p \in i..Len(t) : t[p] \in {"(", ";"}})
  IN  IF t[paren - 1] # ">" THEN paren - 1
      ELSE Max({j \in i..paren - 1 : t[j] = "<" /\ EndOf(t, j, "<", ">") = paren - 1}) - 1
Dotted(t, i) == SubSeq(t, i, Min({j \in i..Len(t) : ~IsName(t, j) /\ t[j] # "."}) - 1)

\* A frame of the stack is the namespace it opens, or none.
RECURSIVE csScan(_, _, _)
csScan(t, i, z) ==
  IF i > Len(t) THEN z.tops
  ELSE LET name == CASE t[i] = "delegate" -> DelegateName(t, i)
                     [] t[i] = "record" /\ (Is(t, i + 1, "class") \/ Is(t, i + 1, "struct")) -> i + 2
                     [] OTHER -> i + 1
           arity == IF t[i] = "delegate" THEN <<>> ELSE ArityOf(t, name + 1)
           ns == Dotted(t, i + 1)
           declares == t[i] \in {"class", "struct", "interface", "enum", "record", "delegate"} /\ IsName(t, name)
                         /\ ~(t[i] \in {"class", "struct"} /\ Is(t, i - 1, "record"))
           names == SelectSeq(ns, LAMBDA c : c # ".")
       IN  CASE t[i] = "namespace" ->
                  csScan(t, i + 1 + Len(ns), IF Is(t, i + 1 + Len(ns), ";") THEN [z EXCEPT !.file = names] ELSE [z EXCEPT !.pending = names])
             [] declares ->
                  csScan(t, name + 1, IF \A s \in Range(z.stack) : s # <<>>
                                      THEN [z EXCEPT !.tops = @ \cup {CsName(z.stack, z.file) \o <<t[name]>> \o arity}] ELSE z)
             [] t[i] = "{" -> csScan(t, i + 1, [z EXCEPT !.stack = Append(@, z.pending), !.pending = <<>>])
             [] t[i] = "}" -> csScan(t, i + 1, [z EXCEPT !.stack = Front(@)])
             [] OTHER -> csScan(t, i + 1, z)

\* A directive ends with its line.
Directives(z, c) ==
  IF z.in THEN [z EXCEPT !.in = c # "\n"] ELSE IF c = "#if" THEN [z EXCEPT !.in = TRUE] ELSE [z EXCEPT !.out = Append(@, c)]
csharpTypes(src) ==
  LET code == FoldLeft(Directives, [out |-> <<>>, in |-> FALSE], stripCode(src, "csharp")).out
  IN  csScan(tokens(code), 1, [stack |-> <<>>, file |-> <<>>, pending |-> <<>>, tops |-> {}])
=============================================================================
