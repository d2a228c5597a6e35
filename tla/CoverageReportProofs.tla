------------------------ MODULE CoverageReportProofs ------------------------
(***************************************************************************)
(* Proofs about the command that measures and reports the coverage of an   *)
(* integration suite, for any bounds and any source files, numbers of runs *)
(* and of faults.                                                          *)
(***************************************************************************)
EXTENDS CoverageReport, TLAPS, FiniteSetTheorems

-----------------------------------------------------------------------------
(* What the languages clear, look for and record. *)

LEMMA Clears ==
  ASSUME NEW l \in Langs
  PROVE  run(l).clears = <<"data">> \/ run(l).clears = <<"data", "record">>
BY DEF Langs, run, runOf, Traits, runGo, runRust, runPhp, runRuby, runJava, runDotnet, runNode, runPython

LEMMA HowMany ==
  ASSUME NEW l \in Langs
  PROVE  Len(run(l).clears) \in 1..2
<1>1. CASE run(l).clears = <<"data">>
  BY <1>1
<1>2. CASE run(l).clears = <<"data", "record">>
  BY <1>2
<1> QED
  BY <1>1, <1>2, Clears

LEMMA Needs ==
  ASSUME NEW l \in Langs
  PROVE  run(l).needs \in {"never", "before", "after"}
BY DEF Langs, run, runOf, Traits, runGo, runRust, runPhp, runRuby, runJava, runDotnet, runNode, runPython

LEMMA LooksBefore ==
  ASSUME NEW l \in Langs, l \in {"php", "ruby", "java", "dotnet"}
  PROVE  run(l).needs = "after"
BY DEF Langs, run, runOf, Traits, runGo, runRust, runPhp, runRuby, runJava, runDotnet, runNode, runPython

LEMMA Recording ==
  ASSUME NEW l \in Langs
  PROVE  run(l).records = TRUE <=> l \in {"php", "ruby", "java", "dotnet"}
BY DEF Langs, run, runOf, Traits, runGo, runRust, runPhp, runRuby, runJava, runDotnet, runNode, runPython

LEMMA Hashing ==
  ASSUME NEW l \in Langs
  PROVE  run(l).hashes = TRUE <=> l \in {"java", "dotnet"}
BY DEF Langs, run, runOf, Traits, runGo, runRust, runPhp, runRuby, runJava, runDotnet, runNode, runPython
-----------------------------------------------------------------------------
(* The types. *)

Datas(l, src) ==
  [is : {"data"}, of : Nat, by : Nat, ran : Runs(l, src), other : BOOLEAN, counted : [ran : Runs(l, src), other : BOOLEAN],
   passed : BOOLEAN, made : Makes(l), left : SUBSET Files, whole : BOOLEAN, atStart : Nat, atEnd : Nat]
Records(l, src) == [is : {"record"}, exit : {0, 1}, data : Datas(l, src), files : Nat \cup {NoHash}]
Outputs(l, src) == [data : {None} \cup Datas(l, src), record : {None} \cup Records(l, src), runs : Nat]

Preparing == [pc : {"looking", "clearing", "hashing"}, local : BOOLEAN, cleared : Nat]
Running   == [pc : {"suite"}, local : BOOLEAN, before : Nat]
Ending    == [pc : {"recording", "done"}, local : BOOLEAN, before : Nat, exit : {0, 1}]

TypeInv ==
  /\ lang \in Langs
  /\ tree \in [src : Sources(lang), bytes : Nat, site : {"ok", "unreadable"}]
  /\ out \in Outputs(lang, tree.src)
  /\ job \in {Idle} \cup Preparing \cup Running \cup Ending
  /\ faults \in Nat

(* A plain file is a file of every language, and may have run or not. *)
LEMMA PlainRuns ==
  ASSUME NEW l \in Langs
  PROVE  /\ Plain \in Sources(l)
         /\ {} \in Runs(l, Plain)
         /\ {<<1, "body">>} \in Runs(l, Plain)
<1>1. Plain \in Sources(l)
  <2>1. Plain \in [1..1 -> Menu[l]]
    BY DEF Plain, Menu, Langs
  <2>2. 1 \in 1..MaxItems /\ 1 \in 1..MaxJavaItems
    BY ItemsArePositive
  <2>3. Range(Plain) \cap Fields = {}
    BY DEF Plain, Range, Fields
  <2>4. {i \in DOMAIN Plain : Plain[i] = "twin"} = {}
    BY DEF Plain
  <2>5. Quantify(DOMAIN Plain, LAMBDA i : Plain[i] = "twin") <= 1
    BY <2>4, FS_EmptySet DEF Quantify
  <2> QED
    BY <2>1, <2>2, <2>3, <2>5 DEF Sources
<1>2. {} \in Runs(l, Plain)
  BY DEF Runs
<1>3. <<1, "body">> \in Parts(l, Plain)
  <2>1. Plain[1] = "multi" /\ 1 \in DOMAIN Plain
    BY DEF Plain
  <2>2. Shape(l, "multi") = <<Fn, In, Close>>
    BY DEF Shape, Boxed, Langs
  <2>3. Shape(l, "multi")[2] = In /\ 2 \in DOMAIN Shape(l, "multi")
    BY <2>2
  <2>4. "body" \in Range(In.whos)
    BY DEF In, Line, Range
  <2>5. "multi" \notin NeverLinked
    BY DEF NeverLinked
  <2> QED
    BY <2>1, <2>3, <2>4, <2>5 DEF Parts, Polls
<1>4. {<<1, "body">>} \in Runs(l, Plain)
  <2>1. {<<1, "body">>} \in SUBSET Parts(l, Plain)
    BY <1>3
  <2>2. \A q \in {<<1, "body">>} : q[2] = "body"
    OBVIOUS
  <2> QED
    BY <2>1, <2>2 DEF Runs
<1> QED
  BY <1>1, <1>2, <1>4
-----------------------------------------------------------------------------
(* What the properties rest on, beyond the types. *)

\* A run under way concludes nothing, and is one of those started.
Quiet == job # Idle => verdict = None /\ out.runs >= 1

\* Where a run is recorded, its data is cleared before anything can stop it: the data that
\* is there is of the last run started, or of one by hand.
DataOfNow == run(lang).records = TRUE /\ out.data # None => out.data.of \in {0, out.runs}

\* A record is of data that one run wrote; of whole data and of tests that passed when the run
\* succeeded; and it has hashes only of bytes that stood all through the suite.
Bound(r) ==
  /\ r.data.of >= 1 /\ r.data.by = r.data.of
  /\ r.exit = 0 => r.data.passed = TRUE /\ r.data.whole = TRUE
  /\ r.files # NoHash => r.files = r.data.atStart /\ r.files = r.data.atEnd
RecordBinds == out.record # None => Bound(out.record)

\* After the suite: the data of this very run, until the run has ended.
Ended(j, o) ==
  /\ o.data # None
  /\ o.data.of = o.runs /\ o.data.by = o.runs
  /\ o.data.whole = TRUE
  /\ j.exit = 0 => o.data.passed = TRUE
  /\ o.data.atStart = j.before
\* There is a file left to clear, and no verdict on a failed run.
JobHolds ==
  /\ job.pc \in {"recording", "done"} => Ended(job, out)
  /\ job.pc = "done" => job.exit = 0
  /\ job.pc = "clearing" => job.cleared < Len(run(lang).clears)
  /\ job.pc = "looking" /\ run(lang).needs = "before" => job.cleared = 0

RunInv == TypeInv /\ Quiet /\ DataOfNow /\ RecordBinds /\ JobHolds
-----------------------------------------------------------------------------
(* Clearing a file. *)

LEMMA ClearsData ==
  ASSUME lang \in Langs, NEW o \in Outputs(lang, tree.src)
  PROVE  Cleared(o, 1) = [data |-> None, record |-> o.record, runs |-> o.runs]
<1>1. run(lang).clears[1] = "data"
  BY Clears
<1>2. Cleared(o, 1) = [o EXCEPT !["data"] = None]
  BY <1>1 DEF Cleared
<1> QED
  BY <1>2 DEF Outputs

LEMMA ClearsRecord ==
  ASSUME lang \in Langs, NEW o \in Outputs(lang, tree.src), 2 <= Len(run(lang).clears)
  PROVE  Cleared(o, 2) = [data |-> o.data, record |-> None, runs |-> o.runs]
<1>1. run(lang).clears[2] = "record"
  BY Clears
<1>2. Cleared(o, 2) = [o EXCEPT !["record"] = None]
  BY <1>1 DEF Cleared
<1> QED
  BY <1>2 DEF Outputs
(* The fields of an output, and of a state that has the types. *)
LEMMA OutputIs ==
  ASSUME NEW l, NEW s, NEW d \in {None} \cup Datas(l, s), NEW r \in {None} \cup Records(l, s), NEW n \in Nat
  PROVE  [data |-> d, record |-> r, runs |-> n] \in Outputs(l, s)
BY DEF Outputs

LEMMA OutTypes ==
  ASSUME TypeInv
  PROVE  /\ lang \in Langs
         /\ out = [data |-> out.data, record |-> out.record, runs |-> out.runs]
         /\ out.data \in {None} \cup Datas(lang, tree.src)
         /\ out.record \in {None} \cup Records(lang, tree.src)
         /\ out.runs \in Nat
BY DEF TypeInv, Outputs

LEMMA InitRunInv == Init => RunInv
<1> SUFFICES ASSUME Init PROVE RunInv
  OBVIOUS
<1>1. lang \in Langs
  BY DEF Init
<1>2. tree.src \in Sources(lang)
  <2>1. CASE faults = 0
    BY <2>1 DEF Init
  <2>2. CASE faults # 0
    BY <1>1, <2>2, PlainRuns DEF Init, FaultySources
  <2> QED
    BY <2>1, <2>2
<1>3. faults \in Nat
  BY BoundsAreNatural DEF Init
<1>4. tree \in [src : Sources(lang), bytes : Nat, site : {"ok", "unreadable"}]
  BY <1>2 DEF Init
<1>5. /\ out.data = None
      /\ out.record = None
      /\ job = Idle
  BY DEF Init
<1>6. out \in Outputs(lang, tree.src)
  <2>1. (IF faults = 0 THEN MaxRuns - 1 ELSE 0) \in Nat
    BY BoundsAreNatural
  <2>2. out = [data |-> None, record |-> None, runs |-> IF faults = 0 THEN MaxRuns - 1 ELSE 0]
    BY DEF Init
  <2> QED
    BY <2>1, <2>2, OutputIs
<1>7. job.pc = "idle"
  BY <1>5 DEF Idle
<1> QED
  BY <1>1, <1>3, <1>4, <1>5, <1>6, <1>7 DEF RunInv, TypeInv, Quiet, DataOfNow, RecordBinds, JobHolds

(* What a step leaves of the language and of the source. *)
LEMMA SrcKept ==
  ASSUME TypeInv, [Next]_vars
  PROVE  lang' = lang /\ tree'.src = tree.src
<1>1. CASE Edit
  BY <1>1 DEF TypeInv, Edit, Fault
<1>2. CASE LoseSite
  BY <1>2 DEF TypeInv, LoseSite, Fault
<1>3. CASE ~Edit /\ ~LoseSite
  BY <1>3 DEF Next, vars, Start, Look, Clear, Hash, Suite, Record, Done, Report, Check, EditPins, CloseItem, LoseRegistry,
              Kill, RunByHand, StopByHand, Fault
<1> QED
  BY <1>1, <1>2, <1>3
-----------------------------------------------------------------------------
(* One step of the run after the other. *)

LEMMA AfterClearingIs ==
  ASSUME lang \in Langs, NEW n \in Nat
  PROVE  /\ AfterClearing(n) \in {"looking", "clearing", "hashing"}
         /\ AfterClearing(n) = "clearing" => n < Len(run(lang).clears)
         /\ AfterClearing(n) = "looking" => run(lang).needs = "after"
BY DEF AfterClearing

LEMMA StartKeeps ==
  ASSUME RunInv, NEW local \in BOOLEAN, Start(local)
  PROVE  RunInv'
<1> DEFINE begun == [data |-> out.data, record |-> out.record, runs |-> out.runs + 1]
<1>1. TypeInv
  BY DEF RunInv
<1>2. /\ lang' = lang
      /\ tree' = tree
      /\ faults' = faults
      /\ verdict' = None
  BY DEF Start
<1>3. begun = [out EXCEPT !.runs = @ + 1]
  BY <1>1, OutTypes
<1>4. begun \in Outputs(lang, tree.src)
  <2>1. out.runs + 1 \in Nat
    BY <1>1, OutTypes
  <2> QED
    BY <1>1, <2>1, OutTypes DEF Outputs
<1>5. CASE run(lang).needs = "before"
  <2>1. out' = begun
    BY <1>3, <1>5 DEF Start
  <2>2. job' = [pc |-> "looking", local |-> local, cleared |-> 0]
    BY <1>5 DEF Start
  <2>3. run(lang).records # TRUE
    BY <1>1, <1>5, OutTypes, LooksBefore, Recording
  <2>4. TypeInv'
    BY <1>1, <1>2, <1>4, <2>1, <2>2 DEF TypeInv, Preparing
  <2>5. Quiet'
    BY <1>1, <1>2, <2>1, OutTypes DEF Quiet
  <2>6. DataOfNow'
    BY <1>2, <2>3 DEF DataOfNow
  <2>7. RecordBinds'
    BY <2>1 DEF RunInv, RecordBinds
  <2>8. JobHolds'
    BY <2>2 DEF JobHolds
  <2> QED
    BY <2>4, <2>5, <2>6, <2>7, <2>8 DEF RunInv
<1>6. CASE run(lang).needs # "before"
  <2>1. out' = Cleared(begun, 1)
    BY <1>3, <1>6 DEF Start
  <2>2. out' = [data |-> None, record |-> out.record, runs |-> out.runs + 1]
    BY <1>1, <1>4, <2>1, OutTypes, ClearsData
  <2>3. job' = [pc |-> AfterClearing(1), local |-> local, cleared |-> 1]
    BY <1>6 DEF Start
  <2>4. /\ AfterClearing(1) \in {"looking", "clearing", "hashing"}
        /\ AfterClearing(1) = "clearing" => 1 < Len(run(lang).clears)
        /\ AfterClearing(1) = "looking" => run(lang).needs = "after"
    BY <1>1, OutTypes, AfterClearingIs
  <2>5. TypeInv'
    <3>1. out' \in Outputs(lang, tree.src)
      <4>1. out.runs + 1 \in Nat
        BY <1>1, OutTypes
      <4> QED
        BY <1>1, <2>2, <4>1, OutTypes DEF Outputs
    <3>2. job' \in Preparing
      BY <2>3, <2>4 DEF Preparing
    <3> QED
      BY <1>1, <1>2, <3>1, <3>2 DEF TypeInv
  <2>6. Quiet'
    BY <1>1, <1>2, <2>2, OutTypes DEF Quiet
  <2>7. DataOfNow'
    BY <2>2 DEF DataOfNow
  <2>8. RecordBinds'
    BY <2>2 DEF RunInv, RecordBinds
  <2>9. JobHolds'
    BY <1>2, <1>6, <2>3, <2>4 DEF JobHolds
  <2> QED
    BY <2>5, <2>6, <2>7, <2>8, <2>9 DEF RunInv
<1> QED
  BY <1>5, <1>6

LEMMA PreparingJob ==
  ASSUME TypeInv, job.pc \in {"looking", "clearing", "hashing"}
  PROVE  job \in Preparing /\ job # Idle
BY DEF TypeInv, Idle, Preparing, Running, Ending

LEMMA LookKeeps ==
  ASSUME RunInv, Look
  PROVE  RunInv'
<1> DEFINE next == IF run(lang).needs = "before" THEN "clearing" ELSE "hashing"
<1>1. TypeInv
  BY DEF RunInv
<1>2. job.pc = "looking" /\ job \in Preparing /\ job # Idle
  BY <1>1, PreparingJob DEF Look
<1>3. /\ lang' = lang
      /\ tree' = tree
      /\ out' = out
      /\ verdict' = verdict
  BY DEF Look
<1>4. verdict = None /\ out.runs >= 1
  BY <1>2 DEF RunInv, Quiet
<1>5. CASE faults > 0 /\ faults' = faults - 1 /\ job' = Idle
  <2>1. job'.pc = "idle"
    BY <1>5 DEF Idle
  <2>2. TypeInv'
    BY <1>1, <1>3, <1>5 DEF TypeInv
  <2> QED
    BY <1>3, <1>5, <2>1, <2>2 DEF RunInv, Quiet, DataOfNow, RecordBinds, JobHolds
<1>6. CASE job' = [job EXCEPT !.pc = next] /\ UNCHANGED faults
  <2>1. job' = [pc |-> next, local |-> job.local, cleared |-> job.cleared]
    BY <1>2, <1>6 DEF Preparing
  <2>2. TypeInv'
    BY <1>1, <1>2, <1>3, <1>6, <2>1 DEF TypeInv, Preparing
  <2>3. JobHolds'
    <3>1. run(lang).needs = "before" => job.cleared = 0
      BY <1>2 DEF RunInv, JobHolds
    <3>2. Len(run(lang).clears) >= 1
      <4> DEFINE many == Len(run(lang).clears)
      <4>1. many \in 1..2
        BY <1>1, OutTypes, HowMany
      <4> HIDE DEF many
      <4>2. many >= 1
        BY <4>1
      <4> QED
        BY <4>2 DEF many
    <3> QED
      BY <1>3, <2>1, <3>1, <3>2 DEF JobHolds
  <2> QED
    BY <1>3, <1>4, <2>2, <2>3 DEF RunInv, Quiet, DataOfNow, RecordBinds
<1> QED
  BY <1>5, <1>6 DEF Look

LEMMA ClearKeeps ==
  ASSUME RunInv, Clear
  PROVE  RunInv'
<1> DEFINE n == job.cleared + 1
<1>1. TypeInv
  BY DEF RunInv
<1>2. job.pc = "clearing" /\ job \in Preparing /\ job # Idle
  BY <1>1, PreparingJob DEF Clear
<1>3. /\ lang' = lang
      /\ tree' = tree
      /\ faults' = faults
      /\ verdict' = verdict
  BY DEF Clear
<1>4. verdict = None /\ out.runs >= 1
  BY <1>2 DEF RunInv, Quiet
<1>5. n \in {1, 2} /\ n <= Len(run(lang).clears)
  <2>1. job.cleared \in Nat
    BY <1>2 DEF Preparing
  <2>2. job.cleared < Len(run(lang).clears)
    BY <1>2 DEF RunInv, JobHolds
  <2>3. Len(run(lang).clears) \in 1..2
    BY <1>1, OutTypes, HowMany
  <2>4. \A c \in Nat, k \in 1..2 : c < k => c + 1 \in {1, 2} /\ c + 1 <= k
    OBVIOUS
  <2> QED
    BY ONLY <2>1, <2>2, <2>3, <2>4
<1>6. out' = Cleared(out, n)
  BY DEF Clear
<1>7. \/ out' = [data |-> None, record |-> out.record, runs |-> out.runs]
      \/ out' = [data |-> out.data, record |-> None, runs |-> out.runs]
  BY <1>1, <1>5, <1>6, OutTypes, ClearsData, ClearsRecord DEF TypeInv
<1>8. job' = [pc |-> AfterClearing(n), local |-> job.local, cleared |-> n]
  BY <1>2 DEF Clear, Preparing
<1>9. /\ AfterClearing(n) \in {"looking", "clearing", "hashing"}
      /\ AfterClearing(n) = "clearing" => n < Len(run(lang).clears)
      /\ AfterClearing(n) = "looking" => run(lang).needs = "after"
  BY <1>1, <1>5, OutTypes, AfterClearingIs
<1>10. TypeInv'
  <2>1. out' \in Outputs(lang, tree.src)
    BY <1>1, <1>7, OutTypes, OutputIs
  <2>2. job' \in Preparing
    BY <1>2, <1>5, <1>8, <1>9 DEF Preparing
  <2> QED
    BY <1>1, <1>3, <2>1, <2>2 DEF TypeInv
<1>11. Quiet'
  BY <1>3, <1>4, <1>7 DEF Quiet
<1>12. DataOfNow'
  BY <1>3, <1>7 DEF RunInv, DataOfNow
<1>13. RecordBinds'
  BY <1>7 DEF RunInv, RecordBinds
<1>14. JobHolds'
  BY <1>3, <1>8, <1>9 DEF JobHolds
<1> QED
  BY <1>10, <1>11, <1>12, <1>13, <1>14 DEF RunInv
LEMMA HashKeeps ==
  ASSUME RunInv, Hash
  PROVE  RunInv'
<1>1. TypeInv
  BY DEF RunInv
<1>2. job.pc = "hashing" /\ job \in Preparing /\ job # Idle
  BY <1>1, PreparingJob DEF Hash
<1>3. /\ lang' = lang
      /\ tree' = tree
      /\ out' = out
      /\ faults' = faults
      /\ verdict' = verdict
  BY DEF Hash
<1>4. verdict = None /\ out.runs >= 1
  BY <1>2 DEF RunInv, Quiet
<1>5. job' = [pc |-> "suite", local |-> job.local, before |-> tree.bytes]
  BY DEF Hash
<1>6. TypeInv'
  <2>1. job' \in Running
    BY <1>1, <1>2, <1>5 DEF TypeInv, Preparing, Running
  <2> QED
    BY <1>1, <1>3, <2>1 DEF TypeInv
<1> QED
  BY <1>3, <1>4, <1>5, <1>6 DEF RunInv, Quiet, DataOfNow, RecordBinds, JobHolds

LEMMA NoneIsNoData ==
  ASSUME NEW l, NEW s, NEW d \in Datas(l, s)
  PROVE  d # None
BY DEF Datas, None

LEMMA SuiteKeeps ==
  ASSUME RunInv, Suite
  PROVE  RunInv'
<1>1. TypeInv
  BY DEF RunInv
<1>2. job.pc = "suite" /\ job \in Running /\ job # Idle
  BY <1>1 DEF Suite, TypeInv, Idle, Preparing, Running, Ending
<1>3. /\ lang' = lang
      /\ tree' = tree
      /\ verdict' = verdict
  BY DEF Suite
<1>4. verdict = None /\ out.runs >= 1
  BY <1>2 DEF RunInv, Quiet
<1>5. PICK ran \in Runs(lang, tree.src), passed \in BOOLEAN, other \in Elsewhere, left \in {{}, {"b"}} :
        LET d == Data(out.runs, ran, other, passed, "suite", left, job.before)
            written == IF passed \/ run(lang).onFailure THEN d ELSE None
            next == IF run(lang).records /\ written # None THEN "recording" ELSE IF passed THEN "done" ELSE "idle"
        IN  /\ ~passed => faults > 0
            /\ left # {} => ~other
            /\ faults' = IF passed THEN faults ELSE faults - 1
            /\ out' = [out EXCEPT !.data = written]
            /\ job' = IF next = "idle" THEN Idle
                      ELSE [pc |-> next, local |-> job.local, before |-> job.before, exit |-> IF passed THEN 0 ELSE 1]
  BY Zenon DEF Suite
<1> DEFINE d == Data(out.runs, ran, other, passed, "suite", left, job.before)
           written == IF passed \/ run(lang).onFailure THEN d ELSE None
           next == IF run(lang).records /\ written # None THEN "recording" ELSE IF passed THEN "done" ELSE "idle"
           code == IF passed THEN 0 ELSE 1
<1>6. d \in Datas(lang, tree.src)
  <2>1. other \in BOOLEAN
    BY DEF Elsewhere
  <2>2. left \in SUBSET Files
    BY DEF Files
  <2>3. out.runs \in Nat /\ job.before \in Nat /\ tree.bytes \in Nat
    BY <1>1, <1>2, OutTypes DEF TypeInv, Running
  <2> QED
    BY <2>1, <2>2, <2>3 DEF Data, Datas, Makes
<1>7. d # None
  BY <1>6, NoneIsNoData
<1>8. /\ d.of = out.runs
      /\ d.by = out.runs
      /\ d.passed = passed
      /\ d.whole = TRUE
      /\ d.atStart = job.before
  BY DEF Data
<1> HIDE DEF d
<1>9. faults' \in Nat
  BY <1>1, <1>5 DEF TypeInv
<1>10. out' = [data |-> written, record |-> out.record, runs |-> out.runs]
  <2>1. out' = [out EXCEPT !.data = written]
    BY <1>5 DEF d
  <2> QED
    BY <1>1, <2>1, OutTypes
<1>11. written \in {None, d}
  OBVIOUS
<1>12. out' \in Outputs(lang, tree.src)
  <2>1. written \in {None} \cup Datas(lang, tree.src)
    BY <1>6, <1>11
  <2> QED
    BY <1>1, <1>10, <2>1, OutTypes DEF Outputs
<1>13. job' = IF next = "idle" THEN Idle ELSE [pc |-> next, local |-> job.local, before |-> job.before, exit |-> code]
  BY <1>5 DEF d
<1>14. CASE next = "idle"
  <2>1. job' = Idle /\ job'.pc = "idle"
    BY <1>13, <1>14 DEF Idle
  <2>2. TypeInv'
    BY <1>1, <1>3, <1>9, <1>12, <2>1 DEF TypeInv
  <2>3. DataOfNow'
    BY <1>3, <1>8, <1>10, <1>11 DEF DataOfNow
  <2> QED
    BY <1>10, <2>1, <2>2, <2>3 DEF RunInv, Quiet, RecordBinds, JobHolds
<1>15. CASE next # "idle"
  <2>1. next \in {"recording", "done"}
    BY <1>15
  <2>2. written = d
    BY <1>7, <1>15
  <2>3. next = "done" => passed
    BY <1>15
  <2> HIDE DEF next, written
  <2>4. job' = [pc |-> next, local |-> job.local, before |-> job.before, exit |-> code]
    BY <1>13, <1>15
  <2>5. job' \in Ending
    BY <1>2, <2>1, <2>4 DEF Running, Ending
  <2>6. TypeInv'
    BY <1>1, <1>3, <1>9, <1>12, <2>5 DEF TypeInv
  <2>7. Quiet'
    BY <1>3, <1>4, <1>10 DEF Quiet
  <2>8. DataOfNow'
    BY <1>3, <1>8, <1>10, <2>2 DEF DataOfNow
  <2>9. RecordBinds'
    BY <1>10 DEF RunInv, RecordBinds
  <2>10. JobHolds'
    <3>1. Ended(job', out')
      BY <1>7, <1>8, <1>10, <2>2, <2>4 DEF Ended
    <3> QED
      BY <2>1, <2>3, <2>4, <3>1 DEF JobHolds
  <2> QED
    BY <2>6, <2>7, <2>8, <2>9, <2>10 DEF RunInv
<1> QED
  BY <1>14, <1>15

\* What a record binds of data: data, and in it all but whose files it stands beside.
LEMMA SignedIs ==
  ASSUME NEW s, NEW d \in Datas(lang, s)
  PROVE  /\ Signed(d) \in Datas(lang, s)
         /\ Signed(d).of = d.of
         /\ Signed(d).by = (IF lang = "php" THEN d.of ELSE d.by)
         /\ Signed(d).passed = d.passed
         /\ Signed(d).whole = d.whole
         /\ Signed(d).atStart = d.atStart
         /\ Signed(d).atEnd = d.atEnd
<1>1. CASE lang = "php"
  <2> DEFINE c == d.counted
  <2>1. c.ran \in Runs(lang, s) /\ c.other \in BOOLEAN /\ d.of \in Nat
    BY DEF Datas
  <2>2. Signed(d) = [d EXCEPT !.by = d.of, !.ran = c.ran, !.other = c.other]
    BY <1>1 DEF Signed
  <2> HIDE DEF c
  <2> QED
    BY <1>1, <2>1, <2>2 DEF Datas
<1>2. CASE lang # "php"
  BY <1>2 DEF Signed
<1> QED
  BY <1>1, <1>2

LEMMA RecordKeeps ==
  ASSUME RunInv, Record
  PROVE  RunInv'
<1> DEFINE r == [is |-> "record", exit |-> job.exit, data |-> Signed(out.data), files |-> HashesOf(job.before)]
<1>1. TypeInv
  BY DEF RunInv
<1>2. job.pc = "recording" /\ job \in Ending /\ job # Idle
  BY <1>1 DEF Record, TypeInv, Idle, Preparing, Running, Ending
<1>3. /\ lang' = lang
      /\ tree' = tree
      /\ faults' = faults
      /\ verdict' = verdict
  BY DEF Record
<1>4. verdict = None /\ out.runs >= 1
  BY <1>2 DEF RunInv, Quiet
<1>5. Ended(job, out)
  BY <1>2 DEF RunInv, JobHolds
<1>6. out.data \in Datas(lang, tree.src) /\ job.before \in Nat /\ job.exit \in {0, 1}
  BY <1>1, <1>2, <1>5, OutTypes DEF Ended, Ending
<1>7. HashesOf(job.before) \in Nat \cup {NoHash}
  BY <1>6 DEF HashesOf
<1>8. r \in Records(lang, tree.src)
  BY <1>6, <1>7, SignedIs DEF Records
<1>9. Bound(r)
  <2>1. HashesOf(job.before) # NoHash => HashesOf(job.before) = out.data.atStart /\ HashesOf(job.before) = out.data.atEnd
    BY <1>5 DEF HashesOf, Ended
  <2>2. /\ r.data.of >= 1
        /\ r.data.by = r.data.of
        /\ r.exit = 0 => r.data.passed = TRUE /\ r.data.whole = TRUE
    BY <1>4, <1>5, <1>6, SignedIs DEF Ended
  <2>3. r.data.atStart = out.data.atStart /\ r.data.atEnd = out.data.atEnd
    BY <1>6, SignedIs
  <2> QED
    BY <2>1, <2>2, <2>3 DEF Bound
<1>10. out' = [data |-> out.data, record |-> r, runs |-> out.runs]
  <2>1. out' = [out EXCEPT !.record = r]
    BY DEF Record
  <2> HIDE DEF r
  <2> QED
    BY <1>1, <2>1, OutTypes
<1> HIDE DEF r
<1>11. out' \in Outputs(lang, tree.src)
  BY <1>1, <1>8, <1>10, OutTypes DEF Outputs
<1>12. DataOfNow'
  BY <1>3, <1>10 DEF RunInv, DataOfNow
<1>13. RecordBinds'
  BY <1>9, <1>10 DEF RecordBinds
<1>14. CASE job.exit = 0
  <2>1. job' = [pc |-> "done", local |-> job.local, before |-> job.before, exit |-> job.exit]
    BY <1>2, <1>14 DEF Record, Ending
  <2>2. job' \in Ending
    BY <1>2, <2>1 DEF Ending
  <2>3. TypeInv'
    BY <1>1, <1>3, <1>11, <2>2 DEF TypeInv
  <2>4. Quiet'
    BY <1>3, <1>4, <1>10 DEF Quiet
  <2>5. JobHolds'
    <3>1. Ended(job', out')
      BY <1>5, <1>10, <2>1 DEF Ended
    <3> QED
      BY <1>14, <2>1, <3>1 DEF JobHolds
  <2> QED
    BY <1>12, <1>13, <2>3, <2>4, <2>5 DEF RunInv
<1>15. CASE job.exit # 0
  <2>1. job' = Idle /\ job'.pc = "idle"
    BY <1>15 DEF Record, Idle
  <2>2. TypeInv'
    BY <1>1, <1>3, <1>11, <2>1 DEF TypeInv
  <2> QED
    BY <1>12, <1>13, <2>1, <2>2 DEF RunInv, Quiet, JobHolds
<1> QED
  BY <1>14, <1>15
LEMMA DoneKeeps ==
  ASSUME RunInv, Done
  PROVE  RunInv'
<1>1. /\ lang' = lang
      /\ tree' = tree
      /\ out' = out
      /\ faults' = faults
      /\ job' = Idle
  BY DEF Done
<1>2. job'.pc = "idle"
  BY <1>1 DEF Idle
<1>3. TypeInv'
  BY <1>1 DEF RunInv, TypeInv
<1> QED
  BY <1>1, <1>2, <1>3 DEF RunInv, Quiet, DataOfNow, RecordBinds, JobHolds

LEMMA CommandKeeps ==
  ASSUME RunInv, Report \/ Check
  PROVE  RunInv'
<1>1. /\ lang' = lang
      /\ tree' = tree
      /\ out' = out
      /\ faults' = faults
      /\ job' = Idle
      /\ job = Idle
  BY DEF Report, Check
<1>2. TypeInv'
  BY <1>1 DEF RunInv, TypeInv
<1> QED
  BY <1>1, <1>2 DEF RunInv, Quiet, DataOfNow, RecordBinds, JobHolds

\* What comes between the steps and leaves the run and its files alone, or kills it.
LEMMA FaultKeeps ==
  ASSUME RunInv, Edit \/ LoseSite \/ EditPins \/ CloseItem \/ LoseRegistry \/ Kill
  PROVE  RunInv'
<1>1. TypeInv
  BY DEF RunInv
<1>2. faults > 0 /\ faults' = faults - 1 /\ verdict' = None /\ lang' = lang /\ out' = out
  BY DEF Edit, LoseSite, EditPins, CloseItem, LoseRegistry, Kill, Fault
<1>3. faults' \in Nat
  BY <1>1, <1>2 DEF TypeInv
<1>4. tree' \in [src : Sources(lang), bytes : Nat, site : {"ok", "unreadable"}] /\ tree'.src = tree.src
  <2>1. CASE Edit
    <3>1. tree' = [src |-> tree.src, bytes |-> tree.bytes + 1, site |-> tree.site]
      BY <1>1, <2>1 DEF TypeInv, Edit, Fault
    <3> QED
      BY <1>1, <3>1 DEF TypeInv
  <2>2. CASE LoseSite
    <3>1. tree' = [src |-> tree.src, bytes |-> tree.bytes, site |-> "unreadable"]
      BY <1>1, <2>2 DEF TypeInv, LoseSite, Fault
    <3> QED
      BY <1>1, <3>1 DEF TypeInv
  <2>3. CASE ~Edit /\ ~LoseSite
    BY <1>1, <2>3 DEF TypeInv, EditPins, CloseItem, LoseRegistry, Kill, Fault
  <2> QED
    BY <2>1, <2>2, <2>3
<1>5. job' \in {job, Idle}
  BY DEF Edit, LoseSite, EditPins, CloseItem, LoseRegistry, Kill, Fault
<1>6. TypeInv'
  BY <1>1, <1>2, <1>3, <1>4, <1>5 DEF TypeInv
<1>7. Quiet'
  BY <1>2, <1>5 DEF RunInv, Quiet
<1>8. JobHolds'
  <2>1. Idle.pc = "idle"
    BY DEF Idle
  <2> QED
    BY <1>2, <1>5, <2>1 DEF RunInv, JobHolds
<1> QED
  BY <1>2, <1>6, <1>7, <1>8 DEF RunInv, DataOfNow, RecordBinds

\* What a run by hand writes.
HandData(ran, p, m, w) == [Data(0, ran, TRUE, p, m, {}, tree.bytes) EXCEPT !.whole = w]

LEMMA ByHand ==
  ASSUME NEW l, NEW s, NEW ran \in Runs(l, s), NEW p \in BOOLEAN, NEW m \in Makes(l), NEW w \in BOOLEAN, tree.bytes \in Nat
  PROVE  HandData(ran, p, m, w) \in Datas(l, s) /\ HandData(ran, p, m, w).of = 0
<1> DEFINE old == Data(0, ran, TRUE, p, m, {}, tree.bytes)
<1>1. old \in Datas(l, s) /\ old.of = 0
  BY DEF Data, Datas
<1> HIDE DEF old
<1>2. [old EXCEPT !.whole = w] \in Datas(l, s) /\ [old EXCEPT !.whole = w].of = 0
  BY <1>1 DEF Datas
<1> QED
  BY <1>2 DEF old, HandData

\* What comes between the steps and writes data, of a run by hand or in part by hand.
LEMMA WrittenByHand ==
  ASSUME RunInv, faults > 0, faults' = faults - 1, verdict' = None, lang' = lang, tree' = tree, job' = job, job = Idle,
         NEW d \in Datas(lang, tree.src), d.of \in {0, out.runs} \/ run(lang).records # TRUE, out' = [out EXCEPT !.data = d]
  PROVE  RunInv'
<1>1. TypeInv
  BY DEF RunInv
<1>2. out' = [data |-> d, record |-> out.record, runs |-> out.runs]
  BY <1>1, OutTypes
<1>3. TypeInv'
  <2>1. out' \in Outputs(lang, tree.src)
    BY <1>1, <1>2, OutTypes DEF Outputs
  <2>2. faults' \in Nat
    BY <1>1 DEF TypeInv
  <2> QED
    BY <1>1, <2>1, <2>2 DEF TypeInv
<1>4. Idle.pc = "idle"
  BY DEF Idle
<1>5. DataOfNow'
  BY <1>2 DEF DataOfNow
<1> QED
  BY <1>2, <1>3, <1>4, <1>5 DEF RunInv, Quiet, RecordBinds, JobHolds

LEMMA RunByHandKeeps ==
  ASSUME RunInv, RunByHand
  PROVE  RunInv'
<1>1. tree.bytes \in Nat
  BY DEF RunInv, TypeInv
<1>2. faults > 0 /\ faults' = faults - 1 /\ verdict' = None /\ lang' = lang /\ tree' = tree /\ job' = job /\ job = Idle
  BY DEF RunByHand, Fault
<1> DEFINE made(flaw) == IF flaw \in Makes(lang) THEN flaw ELSE "suite"
<1>3. PICK flaw \in {"failed", "cut"} \cup Makes(lang), ran \in Runs(lang, tree.src) :
        out' = [out EXCEPT !.data = HandData(ran, flaw # "failed", made(flaw), flaw # "cut")]
  BY Zenon DEF RunByHand, Fault, HandData
<1>4. made(flaw) \in Makes(lang) /\ (flaw # "failed") \in BOOLEAN /\ (flaw # "cut") \in BOOLEAN
  BY DEF Makes
<1> DEFINE d == HandData(ran, flaw # "failed", made(flaw), flaw # "cut")
<1> HIDE DEF made
<1>5. d \in Datas(lang, tree.src) /\ d.of = 0
  BY Zenon, <1>1, <1>3, <1>4, ByHand
<1>6. out' = [out EXCEPT !.data = d]
  BY <1>3
<1> HIDE DEF d
<1> QED
  BY <1>2, <1>5, <1>6, WrittenByHand

LEMMA StopByHandKeeps ==
  ASSUME RunInv, StopByHand
  PROVE  RunInv'
<1>1. TypeInv
  BY DEF RunInv
<1>2. /\ faults > 0 /\ faults' = faults - 1 /\ verdict' = None /\ lang' = lang /\ tree' = tree /\ job' = job /\ job = Idle
      /\ out.data # None
  BY DEF StopByHand, Fault
<1>3. PICK ran \in Runs(lang, tree.src) : out' = [out EXCEPT !.data = [@ EXCEPT !.by = 0, !.ran = ran, !.other = TRUE]]
  BY Zenon DEF StopByHand, Fault
<1> DEFINE d == [out.data EXCEPT !.by = 0, !.ran = ran, !.other = TRUE]
<1>4. out.data \in Datas(lang, tree.src)
  BY <1>1, <1>2, OutTypes
<1>5. d \in Datas(lang, tree.src) /\ d.of = out.data.of
  BY <1>4 DEF Datas
<1>6. out' = [out EXCEPT !.data = d]
  BY <1>3
<1>7. out.data.of \in {0, out.runs} \/ run(lang).records # TRUE
  BY <1>2 DEF RunInv, DataOfNow
<1> HIDE DEF d
<1> QED
  BY <1>2, <1>5, <1>6, <1>7, WrittenByHand

LEMMA StutterKeeps ==
  ASSUME RunInv, UNCHANGED vars
  PROVE  RunInv'
BY DEF RunInv, TypeInv, Quiet, DataOfNow, RecordBinds, JobHolds, vars

LEMMA NextKeeps ==
  ASSUME RunInv, [Next]_vars
  PROVE  RunInv'
BY StartKeeps, LookKeeps, ClearKeeps, HashKeeps, SuiteKeeps, RecordKeeps, DoneKeeps, CommandKeeps, FaultKeeps, RunByHandKeeps,
   StopByHandKeeps, StutterKeeps DEF Next

(* The state always has its types, and a run, its data and its record always agree: what     *)
(* run() clears, writes and records in scripts/integration-coverage.mjs is one protocol.     *)
THEOREM RunsAreSound == Spec => []RunInv
<1>1. RunInv /\ [Next]_vars => RunInv'
  BY NextKeeps
<1> QED
  BY InitRunInv, <1>1, PTL DEF Spec
-----------------------------------------------------------------------------
(* What is concluded, and when. *)

\* A command concludes of the state it leaves; every other step forgets, or concludes nothing.
Concluding(cmd, v) ==
  /\ verdict' = Verdict(cmd, v)
  /\ UNCHANGED <<lang, tree, pins, registry, out>>

LEMMA VerdictStep ==
  ASSUME RunInv, [Next]_vars
  PROVE  \/ verdict' = None
         \/ UNCHANGED vars
         \/ job.pc = "done" /\ Concluding("local", report)
         \/ Concluding("report", report)
         \/ Concluding("check", check)
<1>1. CASE \E local \in BOOLEAN : Start(local)
  BY <1>1 DEF Start
<1>2. CASE Edit \/ LoseSite \/ EditPins \/ CloseItem \/ LoseRegistry \/ Kill \/ RunByHand \/ StopByHand
  BY <1>2 DEF Edit, LoseSite, EditPins, CloseItem, LoseRegistry, Kill, RunByHand, StopByHand, Fault
<1>3. CASE Look \/ Clear \/ Hash \/ Suite \/ Record
  <2>1. job # Idle
    <3>1. job.pc \in {"looking", "clearing", "hashing", "suite", "recording"}
      BY <1>3 DEF Look, Clear, Hash, Suite, Record
    <3> QED
      BY <3>1 DEF Idle
  <2>2. verdict = None
    BY <2>1 DEF RunInv, Quiet
  <2>3. verdict' = verdict
    BY <1>3 DEF Look, Clear, Hash, Suite, Record
  <2> QED
    BY <2>2, <2>3
<1>4. CASE Done
  <2>1. job.pc = "done" /\ job # Idle
    BY <1>4 DEF Done, Idle
  <2>2. verdict = None
    BY <2>1 DEF RunInv, Quiet
  <2>3. verdict' = (IF job.local THEN Verdict("local", report) ELSE verdict) /\ UNCHANGED <<lang, tree, pins, registry, out>>
    BY Zenon, <1>4 DEF Done
  <2> QED
    BY <2>1, <2>2, <2>3 DEF Concluding
<1>5. CASE Report
  BY Zenon, <1>5 DEF Report, Concluding
<1>6. CASE Check
  BY Zenon, <1>6 DEF Check, Concluding
<1> QED
  BY <1>1, <1>2, <1>3, <1>4, <1>5, <1>6 DEF Next

LEMMA VerdictIs ==
  ASSUME NEW c, NEW v
  PROVE  Verdict(c, v).cmd = c /\ Verdict(c, v).says = v
BY DEF Verdict

LEMMA ReportHolds ==
  ASSUME NEW d, NEW read, ReportOn(d, read).exit # 2
  PROVE  DataHolds(d, read)
BY DEF ReportOn

LEMMA NotRecording ==
  ASSUME NEW l \in Langs
  PROVE  run(l).records = FALSE <=> l \in {"go", "rust", "node", "python"}
BY DEF Langs, run, runOf, Traits, runGo, runRust, runPhp, runRuby, runJava, runDotnet, runNode, runPython

LEMMA NotHashing ==
  ASSUME NEW l \in Langs
  PROVE  run(l).hashes = FALSE <=> l \notin {"java", "dotnet"}
BY DEF Langs, run, runOf, Traits, runGo, runRust, runPhp, runRuby, runJava, runDotnet, runNode, runPython

LEMMA IsRecording ==
  ASSUME NEW l \in Langs
  PROVE  run(l).records \in BOOLEAN /\ run(l).hashes \in BOOLEAN
<1>1. l \in {"php", "ruby", "java", "dotnet"} \/ l \in {"go", "rust", "node", "python"}
  BY DEF Langs
<1> QED
  BY <1>1, Recording, NotRecording, Hashing, NotHashing

\* What a reader's data must show where a record binds it to its run.
LEMMA DataBinds ==
  ASSUME RunInv, NEW read, DataHolds(out.data, read), run(lang).records = TRUE
  PROVE  /\ out.data.of = out.runs
         /\ out.data.passed = TRUE
         /\ out.data.whole = TRUE
         /\ OfOneRun(out.data)
         /\ out.data.atEnd = tree.bytes
         /\ run(lang).hashes = TRUE => out.data.atStart = out.data.atEnd
<1>1. TypeInv
  BY DEF RunInv
<1>2. lang \in {"php", "ruby", "java", "dotnet"}
  BY <1>1, OutTypes, Recording
<1>3. out.data # None
  BY DEF DataHolds
<1>4. RecordHolds(out.record, out.data)
  BY <1>2 DEF DataHolds, phpReport, rubyReport, javaReport, dotnetReport
<1>5. out.record # None /\ out.record.exit = 0 /\ out.record.data = Signed(out.data)
  BY <1>4 DEF RecordHolds
<1>6. Bound(out.record)
  BY <1>5 DEF RunInv, RecordBinds
<1>7. out.data \in Datas(lang, tree.src)
  BY <1>1, <1>3, OutTypes
<1>8. /\ out.record.data.of = out.data.of
      /\ lang # "php" => out.record.data.by = out.data.by
      /\ out.record.data.passed = out.data.passed
      /\ out.record.data.whole = out.data.whole
      /\ out.record.data.atStart = out.data.atStart
      /\ out.record.data.atEnd = out.data.atEnd
  BY <1>5, <1>7, SignedIs
<1>9. out.data.of >= 1 /\ out.data.passed = TRUE /\ out.data.whole = TRUE
  BY <1>5, <1>6, <1>8 DEF Bound
<1>10. out.data.of = out.runs
  BY <1>3, <1>9 DEF RunInv, DataOfNow
<1>11. OfOneRun(out.data)
  <2>1. CASE lang = "php"
    BY <2>1 DEF DataHolds, phpReport, OfOneRun
  <2>2. CASE lang # "php"
    BY <1>6, <1>8, <2>2 DEF Bound, OfOneRun
  <2> QED
    BY <2>1, <2>2
<1>12. CASE lang \in {"php", "ruby"}
  <2>1. out.data.atEnd = tree.bytes
    BY <1>12 DEF DataHolds, phpReport, rubyReport
  <2>2. ~(run(lang).hashes = TRUE)
    BY <1>1, <1>12, OutTypes, Hashing
  <2> QED
    BY <1>9, <1>10, <1>11, <2>1, <2>2
<1>13. CASE lang \in {"java", "dotnet"}
  <2>1. out.record.files = tree.bytes
    BY <1>13 DEF DataHolds, javaReport, dotnetReport
  <2>2. tree.bytes # NoHash
    BY <1>1 DEF TypeInv, NoHash
  <2>3. out.data.atStart = tree.bytes /\ out.data.atEnd = tree.bytes
    BY <1>6, <1>8, <2>1, <2>2 DEF Bound
  <2> QED
    BY <1>9, <1>10, <1>11, <2>3
<1> QED
  BY <1>2, <1>12, <1>13

\* What the property asks when the command was c.
OfTheLastRun(c) ==
  LET d == out.data
  IN  /\ run(lang).records \/ c = "local" => d.of = out.runs /\ OfOneRun(d) /\ d.passed /\ d.whole
      /\ run(lang).records => d.atEnd = tree.bytes
      /\ run(lang).hashes => d.atStart = d.atEnd

LEMMA ReportOfTheLastRun ==
  ASSUME RunInv, NEW c, c = "local" => job.pc = "done", report.exit # 2
  PROVE  OfTheLastRun(c)
<1>1. TypeInv
  BY DEF RunInv
<1>2. run(lang).records \in BOOLEAN /\ run(lang).hashes \in BOOLEAN
  BY <1>1, OutTypes, IsRecording
<1>3. run(lang).hashes = TRUE => run(lang).records = TRUE
  BY <1>1, OutTypes, Recording, Hashing
<1>4. PICK read : DataHolds(out.data, read)
  BY ReportHolds DEF report
<1>5. CASE run(lang).records = TRUE
  BY <1>4, <1>5, DataBinds DEF OfTheLastRun
<1>6. CASE run(lang).records # TRUE
  <2>1. run(lang).records = FALSE /\ run(lang).hashes = FALSE
    BY <1>2, <1>3, <1>6
  <2>2. ASSUME c = "local"
        PROVE  out.data.of = out.runs /\ OfOneRun(out.data) /\ out.data.passed = TRUE /\ out.data.whole = TRUE
    <3>1. Ended(job, out) /\ job.exit = 0
      BY <2>2 DEF RunInv, JobHolds
    <3> QED
      BY <3>1 DEF Ended, OfOneRun
  <2> QED
    BY <2>1, <2>2 DEF OfTheLastRun
<1> QED
  BY <1>5, <1>6

\* Whether data is of one run is a matter of the data and the source alone.
LEMMA KeptData ==
  ASSUME lang' = lang, tree' = tree, out' = out
  PROVE  OfOneRun(out.data)' = OfOneRun(out.data)
<1>1. Source("a")' = Source("a") /\ Source("b")' = Source("b")
  BY DEF Source
<1>2. \A f \in Files : PhpTotal(out.data, f)' = PhpTotal(out.data, f) /\ PhpTotal(out.data.counted, f)' = PhpTotal(out.data.counted, f)
  BY <1>1 DEF PhpTotal, RanIn, Files
<1> QED
  BY <1>2 DEF OfOneRun, SameTotals

LEMMA LastRunStep ==
  ASSUME RunInv, ReportsAreOfTheLastRun, [Next]_vars
  PROVE  ReportsAreOfTheLastRun'
<1>1. CASE verdict' = None
  BY <1>1 DEF ReportsAreOfTheLastRun, Reported, Stands
<1>2. CASE UNCHANGED vars
  <2>1. OfOneRun(out.data)' = OfOneRun(out.data)
    BY <1>2, KeptData DEF vars
  <2> QED
    BY <1>2, <2>1 DEF ReportsAreOfTheLastRun, Reported, Stands, vars
<1>3. CASE Concluding("check", check)
  <2>1. verdict'.cmd = "check"
    BY <1>3, VerdictIs DEF Concluding
  <2> QED
    BY <2>1 DEF ReportsAreOfTheLastRun, Reported
<1>4. ASSUME NEW c \in {"local", "report"}, c = "local" => job.pc = "done", Concluding(c, report)
      PROVE  ReportsAreOfTheLastRun'
  <2>1. verdict'.says = report
    BY <1>4, VerdictIs DEF Concluding
  <2>2. verdict'.cmd = c
    BY <1>4, VerdictIs DEF Concluding
  <2>3. CASE report.exit = 2
    BY <2>1, <2>3 DEF ReportsAreOfTheLastRun, Reported, Stands
  <2>4. CASE report.exit # 2
    <3>1. OfTheLastRun(c)
      BY <1>4, <2>4, ReportOfTheLastRun
    <3>2. lang' = lang /\ tree' = tree /\ out' = out
      BY <1>4 DEF Concluding
    <3>3. OfOneRun(out.data)' = OfOneRun(out.data)
      BY <3>2, KeptData
    <3> QED
      BY <2>2, <3>1, <3>2, <3>3 DEF ReportsAreOfTheLastRun, Reported, OfTheLastRun
  <2> QED
    BY <2>3, <2>4
<1> QED
  BY <1>1, <1>2, <1>3, <1>4, VerdictStep

(* Numbers are given only of the last run started, when it succeeded, and of the bytes in    *)
(* the tree: what the records of run() and the checks of phpReport, rubyReport, javaReport   *)
(* and dotnetReport come to, whatever is edited, killed or run by hand in between.           *)
THEOREM LastRunReported == Spec => []ReportsAreOfTheLastRun
<1>1. Init => ReportsAreOfTheLastRun
  BY DEF Init, ReportsAreOfTheLastRun, Reported, Stands
<1>2. RunInv /\ ReportsAreOfTheLastRun /\ [Next]_vars => ReportsAreOfTheLastRun'
  BY LastRunStep
<1> QED
  BY RunsAreSound, <1>1, <1>2, PTL DEF Spec
-----------------------------------------------------------------------------
(* What a report says, when the readers tell the truth. *)

\* What a command reads of a file of the data.
ReadOf(d, f) == Reader(lang, Source(f), RanIn(d, f), d.made)
ReadsOf(d) == [f \in Files |-> ReadOf(d, f)]

LEMMA ReportIs == report = ReportOn(out.data, ReadsOf(out.data))
BY Zenon DEF report, ReadsOf, ReadOf

LEMMA ReportNever ==
  ASSUME NEW d, NEW read, ReportOn(d, read).exit # 2
  PROVE  ReportOn(d, read).never = Never(read)
BY DEF ReportOn

LEMMA ReportTotal ==
  ASSUME NEW d, NEW read, ReportOn(d, read).exit # 2
  PROVE  ReportOn(d, read).total = Total(read)
BY DEF ReportOn

LEMMA ReportOwned ==
  ASSUME NEW d, NEW read, ReportOn(d, read).exit = 0
  PROVE  Owned(Never(read))
BY DEF ReportOn

\* Both files are files of the language, and what ran in them is something that may run.
LEMMA FilesOfTheData ==
  ASSUME TypeInv, out.data # None, NEW f \in Files
  PROVE  /\ lang \in Langs
         /\ Source(f) \in Sources(lang)
         /\ RanIn(out.data, f) \in Runs(lang, Source(f))
         /\ out.data.made \in Makes(lang)
<1>1. lang \in Langs /\ tree.src \in Sources(lang)
  BY DEF TypeInv
<1>2. out.data \in Datas(lang, tree.src)
  BY OutTypes
<1>3. out.data.ran \in Runs(lang, tree.src) /\ out.data.made \in Makes(lang)
  BY <1>2 DEF Datas
<1>4. CASE f = "a"
  BY <1>1, <1>3, <1>4 DEF Source, RanIn
<1>5. CASE f # "a"
  <2>1. Source(f) = Plain
    BY <1>5 DEF Source, Plain
  <2>2. RanIn(out.data, f) = {} \/ RanIn(out.data, f) = {<<1, "body">>}
    BY <1>5 DEF RanIn
  <2>3. Plain \in Sources(lang) /\ {} \in Runs(lang, Plain) /\ {<<1, "body">>} \in Runs(lang, Plain)
    BY <1>1, PlainRuns
  <2> QED
    BY <1>1, <1>3, <2>1, <2>2, <2>3
<1> QED
  BY <1>4, <1>5

\* The truth of a file, which a reader that does not refuse it tells.
NeverIn(d, f) == Told(lang, Source(f), RanIn(d, f))
MeasuredIn(d, f) == Measured(lang, Source(f), RanIn(d, f))

LEMMA ReaderTells ==
  ASSUME ReadersAreTrue, NEW l \in Langs, NEW src \in Sources(l), NEW ran \in Runs(l, src), NEW made \in Makes(l),
         ~Reader(l, src, ran, made).bad
  PROVE  /\ Reader(l, src, ran, made).never = Told(l, src, ran)
         /\ Reader(l, src, ran, made).measured = Measured(l, src, ran)
BY Zenon DEF ReadersAreTrue

LEMMA DataTells ==
  ASSUME ReadersAreTrue, TypeInv, DataHolds(out.data, ReadsOf(out.data)), NEW f \in Files
  PROVE  /\ ReadsOf(out.data)[f].never = NeverIn(out.data, f)
         /\ ReadsOf(out.data)[f].measured = MeasuredIn(out.data, f)
<1>1. out.data # None /\ ~ReadsOf(out.data)[f].bad
  BY DEF DataHolds
<1>2. ReadsOf(out.data)[f] = Reader(lang, Source(f), RanIn(out.data, f), out.data.made)
  BY DEF ReadsOf, ReadOf
<1>3. /\ lang \in Langs
      /\ Source(f) \in Sources(lang)
      /\ RanIn(out.data, f) \in Runs(lang, Source(f))
      /\ out.data.made \in Makes(lang)
  BY <1>1, FilesOfTheData
<1>4. ~Reader(lang, Source(f), RanIn(out.data, f), out.data.made).bad
  BY <1>1, <1>2
<1>5. /\ Reader(lang, Source(f), RanIn(out.data, f), out.data.made).never = Told(lang, Source(f), RanIn(out.data, f))
      /\ Reader(lang, Source(f), RanIn(out.data, f), out.data.made).measured = Measured(lang, Source(f), RanIn(out.data, f))
  BY Zenon, <1>3, <1>4, ReaderTells
<1> QED
  BY <1>2, <1>5 DEF NeverIn, MeasuredIn

LEMMA ReportTells ==
  ASSUME ReadersAreTrue, RunInv, report.exit # 2
  PROVE  /\ report.never = UNION {{Key(f, n) : n \in NeverIn(out.data, f)} : f \in Files}
         /\ report.total.stmts = MeasuredIn(out.data, "a").stmts + MeasuredIn(out.data, "b").stmts
         /\ report.total.covered = MeasuredIn(out.data, "a").covered + MeasuredIn(out.data, "b").covered
<1> DEFINE read == ReadsOf(out.data)
<1>1. ReportOn(out.data, read).exit # 2
  BY ReportIs
<1> HIDE DEF read
<1>2. DataHolds(out.data, read)
  BY <1>1, ReportHolds
<1>3. report.never = Never(read) /\ report.total = Total(read)
  BY <1>1, ReportIs, ReportNever, ReportTotal DEF read
<1>4. \A f \in Files : read[f].never = NeverIn(out.data, f) /\ read[f].measured = MeasuredIn(out.data, f)
  BY <1>2, DataTells DEF read, RunInv
<1>5. Never(read) = UNION {{Key(f, n) : n \in NeverIn(out.data, f)} : f \in Files}
  BY <1>4 DEF Never
<1>6. "a" \in Files /\ "b" \in Files
  BY DEF Files
<1> QED
  BY <1>3, <1>4, <1>5, <1>6 DEF Total

LEMMA NumbersStep ==
  ASSUME ReadersAreTrue, RunInv, NumbersAreTrue, [Next]_vars
  PROVE  NumbersAreTrue'
<1>1. CASE verdict' = None
  BY <1>1 DEF NumbersAreTrue, Reported, Stands
<1>2. CASE UNCHANGED vars
  BY <1>2 DEF NumbersAreTrue, Reported, Stands, Source, RanIn, vars
<1>3. CASE Concluding("check", check)
  <2>1. verdict'.cmd = "check"
    BY <1>3, VerdictIs DEF Concluding
  <2> QED
    BY <2>1 DEF NumbersAreTrue, Reported
<1>4. ASSUME NEW c, Concluding(c, report)
      PROVE  NumbersAreTrue'
  <2>1. verdict'.says = report
    BY <1>4, VerdictIs DEF Concluding
  <2>2. lang' = lang /\ tree' = tree /\ out' = out
    BY <1>4 DEF Concluding
  <2>3. CASE report.exit = 2
    BY <2>1, <2>3 DEF NumbersAreTrue, Reported, Stands
  <2>4. CASE report.exit # 2
    BY <2>1, <2>2, <2>4, ReportTells DEF NumbersAreTrue, Reported, NeverIn, MeasuredIn, Source, RanIn
  <2> QED
    BY <2>3, <2>4
<1> QED
  BY <1>1, <1>2, <1>3, <1>4, VerdictStep
\* What an exit of 0 says of the owners, of a report and of a check.
LEMMA OkReport ==
  ASSUME ReadersAreTrue, RunInv, report.exit = 0
  PROVE  /\ pins.owned # {} => Item \in registry.open
         /\ pins.owned = UNION {{Key(f, n) : n \in NeverIn(out.data, f)} : f \in Files}
<1>1. ReportOn(out.data, ReadsOf(out.data)).exit = 0
  BY ReportIs
<1>2. Owned(Never(ReadsOf(out.data)))
  BY <1>1, ReportOwned
<1>3. report.never = Never(ReadsOf(out.data))
  <2>1. ReportOn(out.data, ReadsOf(out.data)).exit # 2
    BY <1>1
  <2> QED
    BY <2>1, ReportIs, ReportNever
<1>4. report.never = UNION {{Key(f, n) : n \in NeverIn(out.data, f)} : f \in Files}
  BY ReportTells
<1> QED
  BY <1>2, <1>3, <1>4 DEF Owned

LEMMA OkCheck ==
  ASSUME check.exit = 0
  PROVE  pins.owned # {} => Item \in registry.open
BY DEF check

LEMMA OkStep ==
  ASSUME ReadersAreTrue, RunInv, OkIsDeserved, [Next]_vars
  PROVE  OkIsDeserved'
<1>1. CASE verdict' = None
  BY <1>1 DEF OkIsDeserved, Stands
<1>2. CASE UNCHANGED vars
  BY <1>2 DEF OkIsDeserved, Stands, Source, RanIn, vars
<1>3. CASE Concluding("check", check)
  <2>1. verdict'.cmd = "check"
    BY <1>3, VerdictIs DEF Concluding
  <2>2. verdict'.says = check
    BY <1>3, VerdictIs DEF Concluding
  <2>3. pins' = pins /\ registry' = registry
    BY <1>3 DEF Concluding
  <2> QED
    BY <2>1, <2>2, <2>3, OkCheck DEF OkIsDeserved
<1>4. ASSUME NEW c, Concluding(c, report)
      PROVE  OkIsDeserved'
  <2>1. verdict'.says = report
    BY <1>4, VerdictIs DEF Concluding
  <2>2. lang' = lang /\ tree' = tree /\ out' = out /\ pins' = pins /\ registry' = registry
    BY <1>4 DEF Concluding
  <2>3. CASE report.exit # 0
    BY <2>1, <2>3 DEF OkIsDeserved
  <2>4. CASE report.exit = 0
    BY <2>2, <2>4, OkReport DEF OkIsDeserved, NeverIn, Source, RanIn
  <2> QED
    BY <2>3, <2>4
<1> QED
  BY <1>1, <1>2, <1>3, <1>4, VerdictStep

(* When every reader refuses a file or tells the truth about it, a report that gives numbers *)
(* gives the true ones: the functions that the run behind the data did not execute in either *)
(* boundary file, and the counts of both (the verdict of report in integration-coverage.mjs). *)
THEOREM NumbersReported ==
  ASSUME ReadersAreTrue
  PROVE  Spec => []NumbersAreTrue
<1>1. Init => NumbersAreTrue
  BY DEF Init, NumbersAreTrue, Reported, Stands
<1>2. RunInv /\ NumbersAreTrue /\ [Next]_vars => NumbersAreTrue'
  BY NumbersStep
<1> QED
  BY RunsAreSound, <1>1, <1>2, PTL DEF Spec

(* When every reader refuses a file or tells the truth about it, an exit of 0 means that     *)
(* exactly the functions that truly never ran are owned, by an item that is open: report     *)
(* with the data, and check of the owners alone without it.                                  *)
THEOREM OkDeserved ==
  ASSUME ReadersAreTrue
  PROVE  Spec => []OkIsDeserved
<1>1. Init => OkIsDeserved
  BY DEF Init, OkIsDeserved, Stands
<1>2. RunInv /\ OkIsDeserved /\ [Next]_vars => OkIsDeserved'
  BY OkStep
<1> QED
  BY RunsAreSound, <1>1, <1>2, PTL DEF Spec
=============================================================================
