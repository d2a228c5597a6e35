-------------------------- MODULE CoverageBoundary --------------------------
(***************************************************************************)
(* scripts/coverage-boundary.mjs check: the gate of a language leaves      *)
(* files out of its coverage; SonarCloud, the harness and the rule         *)
(* documents copy that list by hand.  The gate, its copies and the sources *)
(* are edited one at a time, by people who may forget the others; the      *)
(* check says whether they still agree.                                    *)
(*                                                                         *)
(* Exit 0: they agree.  1: a copy has drifted.  2: something could not be  *)
(* read, or reads as nothing.                                              *)
(***************************************************************************)
EXTENDS BoundaryGates

CONSTANT MaxEdits     \* bound: edits after a tree in which all agree
ASSUME EditsAreNatural == MaxEdits \in Nat

VARIABLES
  lang,     \* the language
  tree,     \* the source file whose classes matter, and the files git tracks
  gate,     \* what the language's gate leaves out
  sonar,    \* sonar-project.properties: exclusions, index, report, a line too many
  copies,   \* the script and the document that copy a command
  stray,    \* a command in a place nobody registered, or a Sonar setting in a workflow
  verdict,  \* the exit of the last check, if nothing was edited since
  edits

vars == <<lang, tree, gate, sonar, copies, stray, verdict, edits>>
None == -1
-----------------------------------------------------------------------------
(* The check *)

universe == {f \in tree.tracked : f # "test"}
Read(site) == site \notin tree.lost

Finding(kind, site) == <<kind, site>>
FailIf(b, site) == IF b THEN {Finding("FAIL", site)} ELSE {}
DriftIf(b, site) == IF b THEN {Finding("DRIFT", site)} ELSE {}

\* The gate itself, s as it reads: a language without sources, a site that is gone, what
\* cannot be read, what leaves nothing out; and a file of which some classes only are left out.
GateFails(s) == universe = {} \/ ~Read("gate") \/ s.fail
GateFindings(s) == FailIf(GateFails(s), "gate") \cup FailIf(~GateFails(s) /\ s.partial # {}, "partial")

\* Exclusions are by file, on what Sonar indexes; without a report they must be all of it.
Globs(name, f) ==
  CASE name = "test" -> f = "test"
    [] name = "dir" -> antRegex(<<<<lang>>, <<"**">>>>, FullPath(lang, f))
    [] name = "stem" -> antRegex(<<<<lang>>, <<"**">>, <<"http", ".x">>>>, FullPath(lang, f))
    [] name = "star" -> antRegex(<<<<lang>>>> \o Front(Rel(lang, f)) \o <<<<"*", ".x">>>>, FullPath(lang, f)) /\ Len(Rel(lang, f)) = Len(Home[lang]) + 1
    [] OTHER -> antRegex(FullPath(lang, name), FullPath(lang, f))
indexed == {f \in universe : ~\E name \in sonar.index : Globs(name, f)}
actual == {f \in indexed : \E name \in sonar.excluded : Globs(name, f)}
expected(s) == IF sonar.report THEN indexed \cap s.files ELSE indexed
SonarFindings(s) ==
  IF ~Read("sonar") \/ sonar.extra # "none" \/ sonar.excluded = {} THEN FailIf(TRUE, "sonar")
  ELSE IF universe = {} \/ (sonar.report /\ GateFails(s)) THEN {}
  ELSE DriftIf(actual # expected(s), "sonar")

\* Mutant: copies are compared by the files they leave out.
SameFiles(value, literal) == Pattern[lang][value] = Pattern[lang][literal]
\* The same files today are not the same tomorrow: copies of a command agree literally.
SameLiteral(value, literal) == value = literal
Kind(l) == IF l = "go" THEN "grepcover" ELSE "llvmcov"
CopyFindings(site, hits, value) ==
  FailIf(~Read(site) \/ hits.fail \/ hits.values = <<>>, site)
    \cup DriftIf(Read(site) /\ ~hits.fail /\ \E v \in Range(hits.values) : ~SameLiteral(v[1], value), site)
CommandFindings(s) ==
  IF lang \notin CommandLangs \/ GateFails(s) THEN {}
  ELSE CopyFindings("script", findRegexes(ShellFile(lang, copies.script), Kind(lang)), s.values[1])
         \cup CopyFindings("document", findRegexes(Document(lang, copies.document), Kind(lang)), s.values[1])

\* Kotlin's rules name patterns; each must be one of the gate's.
MentionFindings(s) ==
  IF lang # "kotlin" \/ GateFails(s) THEN {}
  ELSE FailIf(~Read("document"), "document") \cup DriftIf(Read("document") /\ copies.mention \notin {"none"} \cup Range(s.values), "document")

\* Workflows and scripts that are not registered hold no copy, and no Sonar setting.
CommandFound(hits) == FailIf(hits.fail, "stray") \cup DriftIf(~hits.fail /\ hits.values # <<>>, "stray")
StrayFindings ==
  CASE stray.form = "sonar" -> FailIf(TRUE, "stray")
    [] stray.form \notin {"none", "sonar"} -> CommandFound(findRegexes(<<WorkflowText(stray.lang, stray)>>, Kind(stray.lang)))
    [] OTHER -> {}

findings(s) == GateFindings(s) \cup SonarFindings(s) \cup CommandFindings(s) \cup MentionFindings(s) \cup StrayFindings
Exit(found) == IF \E f \in found : f[1] = "FAIL" THEN 2 ELSE IF found # {} THEN 1 ELSE 0
-----------------------------------------------------------------------------
(* Trees in which all agree, and edits *)

Ids == {"a", "b", "c", "d"}
PlainTree ==
  CASE lang = "java" -> [pkg |-> TRUE, kind |-> "class", consts |-> <<>>, members |-> <<"anonymous">>, second |-> FALSE]
    [] lang = "kotlin" -> [jvmName |-> FALSE, decls |-> <<"class">>]
    [] lang = "dotnet" -> [ns |-> "file", decls |-> <<"class">>]
    [] OTHER -> <<>>
Entry == [form : Forms[lang], id : Ids]
Plain(id) == [form |-> Plainest[lang], id |-> id]
PlainEntries == UpTo({Plain(id) : id \in Ids}, 2)
Knobs == CASE lang \in CommandLangs -> {"none"} [] lang \in {"python", "ruby"} -> {"none", "unmodelled"} [] OTHER -> {"none", "unmodelled", "twice"}
Gates ==
  [entries : PlainEntries \cup UpTo(Entry, 1) \cup {<<Plain("a"), e>> : e \in Entry}, knob : {"none"}, forced : IF lang \in {"java", "node", "php"} THEN BOOLEAN ELSE {FALSE}]
    \cup [entries : {<<Plain("a")>>}, knob : Knobs, forced : {FALSE}]

\* The copies as they would be written for the gate.
Copied(g, src) ==
  LET first == IF g.entries = <<>> THEN "a" ELSE g.entries[1].id
      command == [form |-> "single", id |-> first]
  IN  /\ sonar = [excluded |-> IF lang = "dotnet" THEN {"dir"} ELSE {"test"} \cup (Omitted(lang, g, src, Files(lang))),
                  index |-> {}, report |-> lang # "dotnet", extra |-> "none"]
      /\ copies = [script |-> command, document |-> command, mention |-> IF lang = "kotlin" THEN first ELSE "none"]

Init ==
  /\ lang \in LANG_IDS
  /\ gate \in Gates
  /\ tree \in [src : IF gate.entries \in PlainEntries /\ gate.knob = "none" THEN {PlainTree} \cup (IF lang \in ClassLangs THEN Trees[lang] ELSE {}) ELSE {PlainTree},
               tracked : {Files(lang) \cup {"test"}}, lost : {{}}]
  /\ Copied(gate, tree.src)
  /\ stray = [form |-> "none", id |-> "a", lang |-> "go"]
  /\ verdict = None
  /\ edits = IF tree.src = PlainTree /\ gate.entries \in {<<Plain(id)>> : id \in Ids} /\ gate.knob = "none" THEN MaxEdits ELSE 0

Check ==
  /\ verdict' = Exit(findings(Ssot(lang, gate, tree.src, universe)))
  /\ UNCHANGED <<lang, tree, gate, sonar, copies, stray, edits>>

Edit(change) == edits > 0 /\ edits' = edits - 1 /\ verdict' = None /\ change /\ UNCHANGED lang
EditGate ==
  Edit(/\ gate' \in {[gate EXCEPT !.entries = es] : es \in {<<Plain(id)>> : id \in Ids} \cup {Append(gate.entries, Plain("b"))}}
       /\ UNCHANGED <<tree, sonar, copies, stray>>)
EditTree ==
  Edit(/\ \/ \E f \in Files(lang) : tree' = [tree EXCEPT !.tracked = @ \ {f}]
          \/ \E site \in {"gate", "sonar", "script", "document"} : tree' = [tree EXCEPT !.lost = @ \cup {site}]
       /\ UNCHANGED <<gate, sonar, copies, stray>>)
EditSonar ==
  Edit(/\ \/ \E name \in Files(lang) \cup {"dir", "stem", "star"} : sonar' = [sonar EXCEPT !.excluded = IF name \in @ THEN @ \ {name} ELSE @ \cup {name}]
          \/ \E name \in Files(lang) : sonar' = [sonar EXCEPT !.index = @ \cup {name}]
          \/ sonar' = [sonar EXCEPT !.report = ~@]
          \/ \E extra \in {"exclusions twice", "sonar.inclusions", "sonar.sources"} : sonar' = [sonar EXCEPT !.extra = extra]
       /\ UNCHANGED <<tree, gate, copies, stray>>)
EditCopies ==
  Edit(/\ \/ /\ lang \in CommandLangs
             /\ \E form \in Forms[lang] \ {"quoted run", "key"}, id \in Ids : copies' = [copies EXCEPT !.script = [form |-> form, id |-> id]]
          \/ lang \in CommandLangs /\ \E id \in Ids : copies' = [copies EXCEPT !.document.id = id]
          \/ lang = "kotlin" /\ \E id \in Ids : copies' = [copies EXCEPT !.mention = id]
       /\ UNCHANGED <<tree, gate, sonar, stray>>)
AddStray ==
  Edit(/\ stray.form = "none"
       /\ \/ \E l \in CommandLangs : \E form \in Forms[l] : stray' = [form |-> form, id |-> "a", lang |-> l]
          \/ stray' = [stray EXCEPT !.form = "sonar"]
       /\ UNCHANGED <<tree, gate, sonar, copies>>)

Next == Check \/ EditGate \/ EditTree \/ EditSonar \/ EditCopies \/ AddStray
Spec == Init /\ [][Next]_vars
-----------------------------------------------------------------------------
(* Properties *)

\* What is true, whatever was written and however: the files the gate leaves out, and those
\* that Sonar, on the files it indexes, does not hold against the coverage.
Sources == Files(lang) \cap tree.tracked
GateOmits == Omitted(lang, gate, tree.src, Sources)
SonarSees == {f \in Sources : ~\E name \in sonar.index : Globs(name, f)}
SonarOmits == {f \in SonarSees : \E name \in sonar.excluded : Globs(name, f)}
SonarAgrees == SonarOmits = IF sonar.report THEN GateOmits \cap SonarSees ELSE SonarSees
Filters(e) == e.form \notin NoEntry
CopyAgrees(e) == Filters(e) /\ e.form \notin Unread /\ Entries(gate) = {e.id}
CopiesAgree ==
  /\ lang \in CommandLangs => CopyAgrees(copies.script) /\ copies.document.id \in Entries(gate) /\ Len(SelectSeq(gate.entries, Filters)) = 1
  /\ lang = "kotlin" => copies.mention \in {"none"} \cup Entries(gate)
  /\ stray.form = "none" \/ (stray.form # "sonar" /\ ~Filters(stray))

\* OK is said only of a tree in which the gate leaves some files out, each of them whole,
\* and Sonar the same ones: by the files, in whatever pattern, quote, comment, class or
\* companion class the two are written.
OkMeansAgreement ==
  verdict = 0 => /\ Told(gate) /\ sonar.extra = "none" /\ tree.lost \cap {"gate", "sonar"} = {}
                      /\ GateOmits # {} /\ OmittedInPart(lang, gate, tree.src, Sources) = {}
                      /\ SonarAgrees

\* OK is said only when every command that the shell would run to filter coverage carries the
\* gate's own regular expression, and none stands where nobody looks after it.
CopiesAreTheGate ==
  verdict = 0 => /\ CopiesAgree
                 /\ lang \in CommandLangs => "script" \notin tree.lost
                 /\ lang \in CommandLangs \cup {"kotlin"} => "document" \notin tree.lost

\* Drift alone is said only of a real difference: never of what a comment, a key that is not
\* run or a command on another file says.
DriftIsReal == verdict = 1 => ~SonarAgrees \/ ~CopiesAgree

\* What cannot be told from the text ends in a failure, not in agreement nor in drift: no
\* gate that is empty, lost or written in a form the readers do not know gets an opinion.
UnknownIsRefused ==
  verdict \in {0, 1} => /\ Told(gate) /\ "gate" \notin tree.lost /\ GateOmits # {}
                             /\ stray.form \notin Unread /\ (lang \in CommandLangs => copies.script.form \notin Unread)
=============================================================================
