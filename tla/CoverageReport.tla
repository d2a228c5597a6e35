--------------------------- MODULE CoverageReport ---------------------------
(***************************************************************************)
(* scripts/integration-coverage.mjs: "run" measures the integration suite  *)
(* of one language and leaves data, and for some languages a record of the *)
(* run, in an output directory; "report", often in a later step, reads     *)
(* them back beside the tree, the pins, the owners and the registry of     *)
(* open items, and gates.  "check" needs no data.                          *)
(*                                                                         *)
(* Between any two steps the tree may be edited, an item closed, the run   *)
(* killed, or the data overwritten by a run made by hand.                  *)
(***************************************************************************)
EXTENDS CoverageReaders

CONSTANTS
  MaxRuns,      \* bound: runs started
  MaxFaults     \* bound: edits, kills and runs by hand, over a plain file

ASSUME BoundsAreNatural == MaxRuns \in Nat \ {0} /\ MaxFaults \in Nat

VARIABLES
  lang,     \* the language measured
  tree,     \* the boundary files: the source of one, and the version of their bytes
  pins,     \* integration-coverage.json: the pinned files, the owners, the floor (0: none)
  registry, \* the items of the registry, and the open ones
  out,      \* the output directory: data and record, and how many runs were started
  job,      \* the run under way
  verdict,  \* what the step before concluded, if it was a report or a check
  faults    \* faults still to come

vars == <<lang, tree, pins, registry, out, job, verdict, faults>>

Files == {"a", "b"}
None == [is |-> "none"]
NoHash == -1
Item == "open-item"
Idle == [pc |-> "idle"]
-----------------------------------------------------------------------------
(* run: what each language clears, needs and leaves *)

Traits(clears, needs, onFailure, records, hashes) ==
  [clears |-> clears,         \* removed first, in this order
   needs |-> needs,           \* when it looks for what it needs: never, before or after clearing
   onFailure |-> onFailure,   \* the tool writes data although a test fails
   records |-> records,       \* a record binds the data to the run
   hashes |-> hashes]         \* with the boundary's bytes before and after

runGo == Traits(<<"data">>, "never", TRUE, FALSE, FALSE)
runRust == Traits(<<"data">>, "never", FALSE, FALSE, FALSE)
runPhp == Traits(<<"data", "record">>, "after", TRUE, TRUE, FALSE)
runRuby == Traits(<<"data", "record">>, "after", TRUE, TRUE, FALSE)
runJava == Traits(<<"data", "record">>, "after", TRUE, TRUE, TRUE)
runDotnet == Traits(<<"data", "record">>, "after", TRUE, TRUE, TRUE)
runNode == Traits(<<"data">>, "before", FALSE, FALSE, FALSE)
runPython == Traits(<<"data">>, "before", FALSE, FALSE, FALSE)

runOf == [go |-> runGo, rust |-> runRust, php |-> runPhp, ruby |-> runRuby,
          java |-> runJava, dotnet |-> runDotnet, node |-> runNode, python |-> runPython]
\* Mutant: what is needed is looked for before anything is cleared.
Eager(l) == [runOf[l] EXCEPT !.needs = IF @ = "after" THEN "before" ELSE @]
run(l) == runOf[l]
-----------------------------------------------------------------------------
(* report: the inputs, the reader, the verdict *)

\* The boundary is derived from the tree; it is empty, or not derivable, when the site
\* that states it is (tree.site).
derivedFor == IF tree.site = "ok" THEN Files ELSE {}
pinFor == pins.pinned
matchesPin == derivedFor = pinFor
loadRegistry == registry.items # {}
InputsHold == derivedFor # {} /\ matchesPin /\ loadRegistry

\* The source of a file, and what ran in it.
Source(f) == IF f = "a" THEN tree.src ELSE <<"multi">>
RanIn(d, f) == IF f = "a" THEN d.ran ELSE IF d.other THEN {<<1, "body">>} ELSE {}

\* What each language's tool wrote of a file, read with the file's text.
Reads(l, src, text, stmts, ran, made) ==
  CASE l = "go" -> goReport(goFuncs(text), Blocks(GoProfile(stmts)), GoProfile(stmts))
    [] l = "python" -> pyReport(PyRegions(src, stmts))
    [] l = "node" -> nodeReport(nodeFuncs(text), stmts, NodeBodies(text))
    [] l = "rust" -> rustReport(rustFuncs(text), LcovOf(src, text, stmts, ran, made))
    [] l = "php" -> phpUnits(PhpUnits(src, stmts))
    [] l = "ruby" -> rubyMethods(RUBY_DUMP(src, text, stmts, ran))
    [] l = "dotnet" -> dotnetMethods(DotnetJson(src, stmts))
    [] l = "java" -> javaMethods(JavaParts(src, stmts, ran), JavaXml(stmts))
Reader(l, src, ran, made) == Reads(l, src, Text(l, src), Statements(l, src, Text(l, src), ran), ran, made)

\* A boundary file that the data does not know: never compiled in, imported or linked.
Missing(d, f) == f \in d.left

\* What a record binds.  Of php it is index.xml alone, written after the XML of the files: which
\* tests ran, the bytes of each file, and what each counted, whoever wrote those files since.
Signed(d) == IF lang = "php" THEN [d EXCEPT !.by = d.of, !.ran = d.counted.ran, !.other = d.counted.other] ELSE d
\* The record: of a successful run, and of this data.
RecordHolds(r, d) == r # None /\ r.exit = 0 /\ r.data = Signed(d)

\* What the data says of the tests: all passed, and of the integration suite only.
phpIntegrationClasses(d) == d.passed /\ d.made # "unit tests"
rubyExamples(d) == d.passed /\ d.made # "unit tests"
dotnetSuite(d) == d.made # "unit tests"
dotnetTests(d) == d.passed
javaTests(d) == d.passed /\ d.made # "unit tests"

\* php and ruby have the hashes of the files in the data, as they were when it was written;
\* dotnet and java have them in the record, when they did not change while the suite ran.
\* php's index and the XML of each file must have the same totals.
PhpTotal(d, f) == PhpUnits(Source(f), Statements("php", Source(f), Text("php", Source(f)), RanIn(d, f))).total
SameTotals(d) == \A f \in Files : PhpTotal(d, f) = PhpTotal(d.counted, f)
phpReport(d, r) == phpIntegrationClasses(d) /\ d.atEnd = tree.bytes /\ SameTotals(d) /\ RecordHolds(r, d)
rubyReport(d, r) == rubyExamples(d) /\ d.atEnd = tree.bytes /\ RecordHolds(r, d)
dotnetReport(d, r) == dotnetSuite(d) /\ dotnetTests(d) /\ RecordHolds(r, d) /\ r.files = tree.bytes
javaReport(d, r) == RecordHolds(r, d) /\ javaTests(d) /\ r.files = tree.bytes

\* "read" is what the reader concluded of each boundary file.
DataHolds(d, read) ==
  /\ d # None /\ d.whole
  /\ \A f \in Files : ~Missing(d, f) /\ ~read[f].bad
  /\ CASE lang = "php" -> phpReport(d, out.record)
       [] lang = "ruby" -> rubyReport(d, out.record)
       [] lang = "dotnet" -> dotnetReport(d, out.record)
       [] lang = "java" -> javaReport(d, out.record)
       [] OTHER -> TRUE

Key(f, n) == <<f, n>>
Never(read) == UNION {{Key(f, n) : n \in read[f].never} : f \in Files}
\* Mutant: the counts of the last file stand for all.
LastFile(read) == read["b"].measured
Total(read) == [stmts |-> read["a"].measured.stmts + read["b"].measured.stmts,
                covered |-> read["a"].measured.covered + read["b"].measured.covered]

\* Mutant: an owner is good although its item is closed.
AnyOwner(never) == never = pins.owned
\* Every function that never ran has an owner, an open item, and no owner is of another.
Owned(never) == never = pins.owned /\ (never # {} => Item \in registry.open)
Below(t) == t.covered * 100 < pins.floor * t.stmts

\* 2 integrity failure, no numbers; 3 below the floor; 1 an ownership problem; 0.
ReportOn(d, read) ==
  IF ~InputsHold \/ ~DataHolds(d, read) \/ Total(read).covered = 0 THEN [exit |-> 2]
  ELSE [exit |-> CASE Below(Total(read)) -> 3 [] ~Owned(Never(read)) -> 1 [] OTHER -> 0, never |-> Never(read), total |-> Total(read)]
report == ReportOn(out.data, [f \in Files |-> Reader(lang, Source(f), RanIn(out.data, f), out.data.made)])

check == IF ~InputsHold THEN [exit |-> 2]
         ELSE [exit |-> IF pins.owned # {} /\ Item \notin registry.open THEN 1 ELSE 0]

Verdict(cmd, v) == [cmd |-> cmd, says |-> v]
-----------------------------------------------------------------------------
(* Steps *)

\* The names a boundary has, for the owners of the pins.
Names(l, src) == {Key("a", Name(l, src, i)) : i \in {j \in DOMAIN src : IsFunction(l, src[j])}}
Plain == <<"multi">>

\* Either the file is plain (of php it may have two functions) and faults may come, or it is any
\* file, run once without faults.
FaultySources == {Plain} \cup {src \in Sources(lang) : lang = "php" /\ src = Plain \o Plain}
Init ==
  /\ lang \in Langs
  /\ faults \in {0, MaxFaults}
  /\ tree \in [src : IF faults = 0 THEN Sources(lang) ELSE FaultySources, bytes : {0}, site : {"ok"}]
  /\ pins \in [pinned : {Files}, owned : {{}, Names(lang, tree.src)}, floor : IF faults = 0 THEN {0, 60} ELSE {0}]
  /\ registry = [items |-> {Item}, open |-> {Item}] /\ job = Idle /\ verdict = None
  /\ out = [data |-> None, record |-> None, runs |-> IF faults = 0 THEN MaxRuns - 1 ELSE 0]

\* The next file it clears, and where it goes from there.
Cleared(o, n) == [o EXCEPT ![run(lang).clears[n]] = None]
AfterClearing(n) ==
  CASE n < Len(run(lang).clears) -> "clearing" [] run(lang).needs = "after" -> "looking" [] OTHER -> "hashing"

\* "LANG" runs and, when the run exits 0, reports; "run LANG" only runs.
Start(local) ==
  /\ job = Idle /\ out.runs < MaxRuns /\ derivedFor # {}
  /\ LET looks == run(lang).needs = "before"
         begun == [out EXCEPT !.runs = @ + 1]
     IN  /\ job' = [pc |-> IF looks THEN "looking" ELSE AfterClearing(1), local |-> local, cleared |-> IF looks THEN 0 ELSE 1]
         /\ out' = IF looks THEN begun ELSE Cleared(begun, 1)
  /\ verdict' = None
  /\ UNCHANGED <<lang, tree, pins, registry, faults>>

\* vendor/, the Gemfile, pom.xml, the solution, node_modules: what is missing stops the run.
Look ==
  /\ job.pc = "looking"
  /\ \/ faults > 0 /\ faults' = faults - 1 /\ job' = Idle
     \/ job' = [job EXCEPT !.pc = IF run(lang).needs = "before" THEN "clearing" ELSE "hashing"] /\ UNCHANGED faults
  /\ UNCHANGED <<lang, tree, pins, registry, out, verdict>>

Clear ==
  /\ job.pc = "clearing"
  /\ out' = Cleared(out, job.cleared + 1)
  /\ job' = [job EXCEPT !.cleared = @ + 1, !.pc = AfterClearing(job.cleared + 1)]
  /\ UNCHANGED <<lang, tree, pins, registry, verdict, faults>>

\* The suite starts on the bytes of now; dotnet and java hash them first.
Hash ==
  /\ job.pc = "hashing"
  /\ job' = [pc |-> "suite", local |-> job.local, before |-> tree.bytes]
  /\ UNCHANGED <<lang, tree, pins, registry, out, verdict, faults>>

\* The run that wrote the data (0: one by hand), and what ran; in php, of the index and what it
\* counted, and "by" and "ran" are of the XML of the files.
Data(of, ran, other, passed, made, left, start) ==
  [is |-> "data", of |-> of, by |-> of, ran |-> ran, other |-> other, counted |-> [ran |-> ran, other |-> other],
   passed |-> passed, made |-> made, left |-> left, whole |-> TRUE, atStart |-> start, atEnd |-> tree.bytes]

\* Bound: the second file may stay unexecuted, or be left out, beside a plain first one.
Elsewhere == IF tree.src = Plain THEN BOOLEAN ELSE {TRUE}

\* The suite ends and the tool writes its data, if it does.
Suite ==
  /\ job.pc = "suite"
  /\ \E ran \in Runs(lang, tree.src), passed \in BOOLEAN, other \in Elsewhere, left \in {{}, {"b"}} :
       LET d == Data(out.runs, ran, other, passed, "suite", left, job.before)
           written == IF passed \/ run(lang).onFailure THEN d ELSE None
           next == IF run(lang).records /\ written # None THEN "recording" ELSE IF passed THEN "done" ELSE "idle"
       IN  /\ ~passed => faults > 0
           /\ left # {} => ~other
           /\ faults' = IF passed THEN faults ELSE faults - 1
           /\ out' = [out EXCEPT !.data = written]
           /\ job' = IF next = "idle" THEN Idle
                     ELSE [pc |-> next, local |-> job.local, before |-> job.before, exit |-> IF passed THEN 0 ELSE 1]
  /\ UNCHANGED <<lang, tree, pins, registry, verdict>>

\* The hashes go into the record only when they did not change while the suite ran.
HashesOf(before) == IF run(lang).hashes /\ before = out.data.atEnd THEN before ELSE NoHash

Record ==
  /\ job.pc = "recording"
  /\ out' = [out EXCEPT !.record = [is |-> "record", exit |-> job.exit, data |-> Signed(out.data), files |-> HashesOf(job.before)]]
  /\ job' = IF job.exit = 0 THEN [job EXCEPT !.pc = "done"] ELSE Idle
  /\ UNCHANGED <<lang, tree, pins, registry, verdict, faults>>

Done ==
  /\ job.pc = "done"
  /\ verdict' = IF job.local THEN Verdict("local", report) ELSE verdict
  /\ job' = Idle
  /\ UNCHANGED <<lang, tree, pins, registry, out, faults>>

Report ==
  /\ job = Idle
  /\ verdict' = Verdict("report", report)
  /\ UNCHANGED <<lang, tree, pins, registry, out, job, faults>>

Check ==
  /\ job = Idle
  /\ verdict' = Verdict("check", check)
  /\ UNCHANGED <<lang, tree, pins, registry, out, job, faults>>
-----------------------------------------------------------------------------
(* What may come between *)

Fault(change) ==
  /\ faults > 0 /\ faults' = faults - 1
  /\ change
  /\ verdict' = None
  /\ UNCHANGED lang

Edit == Fault(tree' = [tree EXCEPT !.bytes = @ + 1] /\ UNCHANGED <<pins, registry, out, job>>)
LoseSite == Fault(tree.site = "ok" /\ tree' = [tree EXCEPT !.site = "unreadable"] /\ UNCHANGED <<pins, registry, out, job>>)
EditPins == Fault(pins.pinned = Files /\ pins' = [pins EXCEPT !.pinned = {"a"}] /\ UNCHANGED <<tree, registry, out, job>>)
CloseItem == Fault(registry.open # {} /\ registry' = [registry EXCEPT !.open = {}] /\ UNCHANGED <<tree, pins, out, job>>)
LoseRegistry == Fault(registry.items # {} /\ registry' = [items |-> {}, open |-> {}] /\ UNCHANGED <<tree, pins, out, job>>)
Kill == Fault(job # Idle /\ job' = Idle /\ UNCHANGED <<tree, pins, registry, out>>)

\* The tool run by hand into the same directory: complete, failed, cut short, or made otherwise.
RunByHand ==
  Fault(/\ job = Idle
        /\ \E flaw \in {"failed", "cut"} \cup Makes(lang), ran \in Runs(lang, tree.src) :
             out' = [out EXCEPT !.data = [Data(0, ran, TRUE, flaw # "failed", IF flaw \in Makes(lang) THEN flaw ELSE "suite", {}, tree.bytes)
                                            EXCEPT !.whole = flaw # "cut"]]
        /\ UNCHANGED <<tree, pins, registry, job>>)

\* PHPUnit run by hand and stopped after the XML of the files, before index.xml.
StopByHand ==
  Fault(/\ job = Idle /\ lang = "php" /\ out.data # None
        /\ \E ran \in Runs(lang, tree.src) : out' = [out EXCEPT !.data = [@ EXCEPT !.by = 0, !.ran = ran, !.other = TRUE]]
        /\ UNCHANGED <<tree, pins, registry, job>>)

Next ==
  \/ \E local \in BOOLEAN : Start(local)
  \/ Look \/ Clear \/ Hash \/ Suite \/ Record \/ Done
  \/ Report \/ Check
  \/ Edit \/ LoseSite \/ EditPins \/ CloseItem \/ LoseRegistry \/ Kill \/ RunByHand \/ StopByHand

Spec == Init /\ [][Next]_vars
-----------------------------------------------------------------------------
(* Properties *)

\* A reader refuses a file, or tells the truth about it: the counts are true, and it names exactly
\* the functions that never ran and that the data can show (of rust's lcov, rustReport names two
\* kinds that it cannot: Unseen).
ReadersAreTrue ==
  \A l \in Langs : \A src \in Sources(l) : \A ran \in Runs(l, src), made \in Makes(l) :
    LET read == Reader(l, src, ran, made)
    IN  read.bad \/ (read.never = Told(l, src, ran) /\ read.measured = Measured(l, src, ran))

Stands == verdict # None /\ verdict.says.exit # 2
Reported == Stands /\ verdict.cmd # "check"

\* Data is of one run; only php's record leaves another hand in the files, which must then have
\* counted as many lines of each.
OfOneRun(d) == d.by = d.of \/ (lang = "php" /\ SameTotals(d))

\* Where a record binds data to its run (php, ruby, dotnet, java), and in a local command of
\* any language, numbers are given only of the last run started, when it succeeded: no run
\* by hand, no older run that a stopped or killed one left behind, no failed one; and of the
\* bytes in the tree, which for dotnet and java stood all through the suite.  (php's record
\* binds its index alone: see RecordedRunIsReported.)
ReportsAreOfTheLastRun ==
  Reported =>
    LET d == out.data
    IN  /\ run(lang).records \/ verdict.cmd = "local" => d.of = out.runs /\ OfOneRun(d) /\ d.passed /\ d.whole
        /\ run(lang).records => d.atEnd = tree.bytes
        /\ run(lang).hashes => d.atStart = d.atEnd

\* "The data of a run by hand gives no numbers" (the comment on the record in phpReport): what a
\* report names are the functions that the run of the record never executed.  The code keeps this
\* but for php, where the record binds index.xml and not the files it names: no run claims it.
RecordedRunIsReported ==
  Reported /\ run(lang).records =>
    verdict.says.never = UNION {{Key(f, n) : n \in Told(lang, Source(f), RanIn(out.record.data, f))} : f \in Files}

\* The numbers are true: whatever its tool drops, merges or renames, a report names exactly
\* the functions that never ran as far as the data can show it (all of them, but for the two
\* kinds of rust's async functions in Unseen), and the counts it holds against the floor are
\* those of both boundary files.
NumbersAreTrue ==
  Reported =>
    LET d == out.data
        measured(f) == Measured(lang, Source(f), RanIn(d, f))
    IN  /\ verdict.says.never = UNION {{Key(f, n) : n \in Told(lang, Source(f), RanIn(d, f))} : f \in Files}
        /\ verdict.says.total.stmts = measured("a").stmts + measured("b").stmts
        /\ verdict.says.total.covered = measured("a").covered + measured("b").covered

\* What an exit of 0 says, and no more: every function that never ran is owned, by an item that is
\* open, or is one of rust's async functions that were called and whose body nothing shows not to
\* have run (Unseen); and no owner is kept for one that ran, or that is only believed to have run.
OkIsDeserved ==
  Stands /\ verdict.says.exit = 0 =>
    /\ pins.owned # {} => Item \in registry.open
    /\ verdict.cmd # "check" =>
         pins.owned = UNION {{Key(f, n) : n \in Told(lang, Source(f), RanIn(out.data, f))} : f \in Files}
=============================================================================
