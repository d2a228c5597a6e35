# The Keycloak SDK, modelled in TLA+

The repository holds one SDK for Keycloak written nine times: Go, Java, Kotlin, Node, PHP, Python
(threads and asyncio), Ruby, Rust and .NET. Each validates tokens against the realm's published keys,
keeps a service token for the admin API, runs the authorization-code flow and calls the admin REST
API. The nine are meant to behave alike and are built on nine runtimes, so the same few promises are
kept by goroutines and a flight, by a mutex, by an async gate and a detached task, by a lock around an
unlocked fast path, by two event loops, and by wrappers around somebody else's cache. That is where
they can go wrong and where a unit test hardly reaches, and that is what is modelled first.

Nine SDKs kept alike need tooling, and the largest programs of the repository are that tooling: the scripts
that say which lines an integration suite really executed, that keep every copy of a coverage filter equal to the
gate, and that keep the changelog a ledger. They decide what may be merged, they read what other tools leave behind,
and each has faults of its own (old data, killed runs, a file written and the next one not). They are the
second half of the model.

## 1. Inventory

| Part | State it keeps | Operations | What is hard | What makes it correct |
|---|---|---|---|---|
| **Key store** (one per validator: `jwt.go`, `jwks_store.rb`, `jwks.rs`, `auth.py`, `aio/auth.py`, `jwt.ts`, `JwksStore.php`, the .NET configuration managers, Nimbus's chain on the JVM) | the key set and when it was obtained; when a refetch was last forced; consecutive failures and the delay they cost; the fetch in progress | look a key id up; load a cold or expired set; force a refetch on an unknown key id | many validations at once, one request; callers cancelled while they wait; the provider rotates keys, fails, is slow, answers with nothing; every stamp is written before its outcome is known | a withdrawn key is soon refused; a published one is refused only for a reason; the provider is asked once at a time, not more often than the window and the backoff allow; every validation comes back and the store recovers |
| **Service-token cache** (`tokenprovider.go` and its seven siblings) | token and expiry; the request in progress | get a token | the same concurrency; the expiry is computed from a lifetime that may be short or absent, at an instant the realm does not know | one request; no request while a token is usable; no expired token; failures are not cached |
| **Claim checks** (`Validate` after the key lookup) | none | algorithm pin, issuer, audience, expiry with skew, size cap | boundaries | equals the reference definition in all nine |
| **Auth client** (`auth.go`, `auth.ts` …) | none, or the discovered metadata (Node): verifier, state and nonce are the caller's | build the authorization URL, exchange the code, refresh, introspect, log out | discovery shared by concurrent callers and failing; the id_token's audience is another than the access token's | an exchange that was given a nonce ends only with the id_token of that login; a failure is not remembered; every call ends |
| **Facade and lazy admin client** (`client.go`, `client.ts`, `KeycloakClient.cs`, …) | the admin client, once created; the creation in progress | admin, close | a creation racing another one, failing, or racing close | created once, a failed creation can be retried, closed once |
| **Admin client and resources** (`admin/*.ts` …) | none besides the token cache | one HTTP request per call (users, groups, roles, clients, realms) | the realm has applied a write and the answer is lost, too long or broken off | the outcome never denies what happened |
| **Transports and caps** (`token-response-cap.ts`, `transport.ts`, `BoundedTransport`, …) | connection pools on the JVM | read a response under a cap and a deadline | a body in pieces of any size, of exactly the cap; a failure in the transport or in the answer | refused exactly if longer than the cap, never beyond the deadline |
| **Configuration, errors** (`config.ts`, `errors.ts` …) | immutable | validate, classify | a deadline that never fires | what is accepted lets every call end |
| **Integration-coverage reports** (`integration-coverage.mjs`) | the data of the last run and the record that binds it, pins, the registry of open items | run, report, check, local | eight coverage tools that drop and merge functions each in its way; runs killed, sources edited between run and report | numbers are of the last run and of this tree, name exactly what never ran, and OK means that somebody owns it |
| **Coverage boundary guard** (`coverage-boundary.mjs`) | none: reads gates, scripts, documents, Sonar's settings | check | the same filter in four notations; shells, comments, partly excluded files | OK means agreement, drift means difference, what cannot be told is refused |
| **Changelog ledger** (`changelog-rotate.mjs`, `changelog-ledger.mjs`, check 8d of `check-docs.mjs`) | the root and its monthly volumes, on main and on a branch | add an item, release, rotate, check, land | a rotation that stops between two files; corrections and moves in one branch | nothing leaves the ledger, nothing archived changes |
| **Other scripts, CI, endpoints, masking** | none | check a text, format, call GitHub | wording | out of scope |

How they interact: every `validate`, and the id_token check of a code exchange, goes to the one key store of the
client. The admin client asks the token cache before each request; the token cache asks the realm's token endpoint
through the auth client. The realm is a server of which the modules know only what the SDK can see: it answers with the keys it
publishes at that moment, it may answer with an empty set, it may fail, and it changes its keys. `NodeClient` composes
the parts for one SDK, Node: facade, admin client, token provider, discovery, transport, configuration.
The scripts meet in the repository: the boundary guard keeps the set of files equal whose functions the coverage reports
name, and the owners a report asks for are items of the registry.

The hazards, each at the line where it bites and with the properties that would catch it, are in `PROJECT.json`.

## 2. The modules

```
Backoff        delays after failures; saturating differences of instants
  JwksPolicy   what any key store promises the provider (abstract)
  GoJwks       goroutines, one jwksFlight             --implements--> JwksPolicy
  RubyJwks     threads, one Mutex, two loader calls   --implements--> JwksPolicy
  RustJwks     tasks, a gate, a detached fetch        --implements--> JwksPolicy
  PythonJwks   threads, a lock, an unlocked fast path --implements--> JwksPolicy
  AioJwks      coroutines on one loop, a shared task  --implements--> JwksPolicy
  NodeJwks     promises on one loop, around jose      --implements--> JwksPolicy
TokenCache     the service token, eight SDKs
NodeClient     facade, auth, admin, transport and configuration of the Node SDK together
CoverageReaders   what a coverage tool writes of a file, and what the script reads in it (eight languages)
  CoverageReport    run, report, check and local; data, records, pins, faults
BoundaryText      lines of scripts and documents, and the filters found in them
BoundaryClasses   which classes and files a filter omits
  BoundaryGates     the gate of each language
  CoverageBoundary  the guard: gates, copies, Sonar, verdict
LedgerRecord   what the changelog promises (abstract)
  Changelog    root, volumes, rotation, check, crashes   --implements--> LedgerRecord
MCGoJwks                        symmetry sets
MCCoverageReport                the hypothesis of the proofs about the coverage reports, evaluated
GoJwksProofs, RubyRustProofs and PythonProofs (two stores each), NodeJwksProofs,
TokenCacheProofs, NodeClientProofs, CoverageReportProofs, ChangelogProofs      theorems
```

**Time.** The code keeps instants and subtracts them from a monotonic clock. The modules keep the differences
themselves (`age`, `forcedAge`, `backoff`, `left`), which saturate at the largest value a comparison of the code
can tell apart, so the state space is finite without bounding time. `Tick` advances all of them by one; it waits
only for an exchange that has reached its read timeout (`FetchMax`). `since` and `window` are history:
how long ago the realm last changed its mind about a key id, and how the refetch that opened the
window ended. No action of the code reads them.

**JwksPolicy** is what the key stores have in common, stated without callers, locks or tasks. `Load`:
a cold or expired set is fetched whatever the window. `Refetch`: a fresh one only once per window. Both only when
no request is in progress and the backoff is over. `Obtain` replaces the set by a non-empty one and clears the
failures; `Fail` changes no key and draws a new delay. Where an implementation does more, it says so by name
(`Liberties`); the list is the difference between the SDKs:

| Store | Liberties | Why |
|---|---|---|
| Go | none | |
| Ruby | `load_stamps`, `abandons` | a forced call that finds the set expired fetches with the stamp; an interrupted thread drops its exchange |
| Rust | `refusal_stamps` | the window is stamped before the backoff is asked |
| Python threads | `refusal_stamps`, `abandons` | as Rust; an exception that is no `Exception` ends an exchange uncounted |
| Python asyncio | `refusal_stamps` | as Rust; the task survives its coroutine |
| Node | `load_stamps`, `forgives` | every attempt stamps; a failed refetch is forgiven while the set is fresh |

**GoJwks** (`go/jwt.go`). Each step is one section under `v.mu` or one step outside it: `LookUp`, then one of
`FindAgain`, `Join`, `StartColdLoad`, `StartForcedRefetch`, `RefuseBackingOff`, `RefuseRateLimited` (the branches of
`fetchFor` in their order), `Wake`, `LookAgain`, or `GiveUp` when the context ends. The goroutine of a flight goes through
`Reply`/`FetchError`, `Install`, `Record` and `Close`, four sections with gaps between them in which callers run.

**RubyJwks** (`jwks_store.rb`, `jwt_validator.rb`). ruby-jwt calls the loader once, and again with `kid_not_found`;
`KeySet` is the body of the mutex for either call. A thread may be interrupted (`Timeout.timeout`, `Thread#raise`)
at the stages in `InterruptAt`; `ensure` frees the mutex.

**RustJwks** (`jwks.rs`). The fast path outside the gate, the second look under it, the decision, and the spawned
task that carries the gate's guard to the end of the fetch, so that a cancelled caller (`Cancel`) leaves it running.

**PythonJwks** (`auth.py`) and **AioJwks** (`aio/auth.py`). Two calls of `_load_jwks` per validation. The first module
interleaves threads at the unlocked read, at the lock and inside the exchange; the second runs a coroutine from one `await` to
the next in one step, as the loop does, and shares one task.

**NodeJwks** (`jwt.ts`). The SDK's two wrappers, around jose's `RemoteJWKSet`. jose is not under the source
tree; what the wrappers rely on (one pending fetch that callers share, a reload of a stale set, another look after it) is in
definitions marked external. `SlowImport` says whether time may pass while a key found in a fresh set is being imported.

In AioJwks and NodeJwks the loop resumes what is ready before it takes the next event from the network
(`LoopIdle`): promise reactions and done-callbacks run before further I/O.

**TokenCache**. One module for eight providers: the variable `sdk` is chosen in `Init` and never changes; the sets `Shared`,
`Fast` and `Drops` say which actions it has. `left` is how long the SDK will reuse the token, `valid` how long the
realm will accept it: the two differ by the skew and by the time the response took, and `CachedTokensAreValid`
relates them. Python leaves this to python-keycloak.

**NodeClient** (`client.ts`, `auth.ts`, `admin/*.ts`, `token-provider.ts`, `transport.ts`, `token-response-cap.ts`, `config.ts`,
`errors.ts`). Three cells hold what concurrent consumers share: the admin client, the discovered configuration and the service
token, each empty, in flight or made (`#adminInflight`, `#discovery`, `#inflight`). A call goes down through the cells it needs, one
`await` per step, and back up when the flight it joined ends (`Unwind`); what it does next is read in its operation.
The flights and requests of the two consumers interleave at every await. The deadline of each is an input of `defineConfig`, and
only one the timer honours ends a wait. The realm applies a request or not, answers or not, and the answer may
break off in the transport or in its body. Bodies are bytes counted in units, read by two readers in pieces of every size.

**CoverageReaders** and **CoverageReport** (`integration-coverage.mjs`). A source file is a sequence of items (functions,
overloads, lambdas, field initializers, code under a condition) laid out on lines as the language's formatter does; the tool
of the language writes what it really writes (Go's blocks, coverage.py's regions, istanbul's map, LCOV with its missing
records, PHPUnit's XML, Ruby's method coverage, coverlet's JSON, JaCoCo's XML with javap's line tables). `Measured` and
`NeverExecuted` say, without any tool, what is true of the file. CoverageReport is the script over time: `Start`, `Clear`, `Look`,
`Suite` and `Record` are the stages of a run, any of which may be the last; between commands the developer edits sources, pins and
registry, kills runs and runs suites by hand.

Rust's async functions are the part of the readers that is hardest to get right. Calling one makes a future and polling it runs its body, which llvm-cov records apart;
`rustReport` therefore takes an async function for called and not run when only one record in its range ran. An attribute macro may move the body to where nothing is recorded
(`#[async_trait]`), so it leaves out every function that stands under an attribute it does not know to be built in, itself or by its impl, `cfg_attr` looked into (`rsMacroAttr`, `OwnAttrs`,
`ImplAttrs`). The model has all four: a plain one, one whose body a macro moved (`boxed`, and `guarded` by a `cfg_attr`), one under a macro that leaves the body alone (`traced`), and a generic one called
with two types, which has two records of calls. Of the last three the comment at `integration-coverage.mjs:1225-1229` admits that a body that never ran is read as executed.
`NeverExecuted` says what never ran, `Unseen` which of it no LCOV shows, and `Told`, the rest, is what the properties hold a report to.

php's record binds `index.xml` alone, while the functions are read in one XML per file. So data of php has three parts that may come from different runs: the index and what it `counted`, and the files (`by`, `ran`).
`RunByHand` replaces all of it, complete or made with other options (`Makes`), `StopByHand` only the files, for PHPUnit writes the index last. `SameTotals` is the one comparison the script makes between them.

**BoundaryText**, **BoundaryClasses**, **BoundaryGates** and **CoverageBoundary** (`coverage-boundary.mjs`). A script or a
document is a sequence of lines, each with a command in one of the forms a shell allows, commented out, quoted or expanded; a filter is
kept as what it matches. The readers return what they find or refuse. The specification puts every combination of gate, sources, copies and
Sonar's settings before the guard, and lets lines be lost.

**Changelog** (`changelog-ledger.mjs`, `changelog-rotate.mjs`, check 8d of `check-docs.mjs`). A file is lines of sizes,
whose last may lack its newline; `Block`s are parsed from it as the code does, so what a careless write glues
together is glued in the model. A rotation computes all its writes, verifies them and writes the volumes, then the root, a file
per step; it may stop between two steps or inside one. `Land` is a merge the check has let in. **LedgerRecord** is what main's
sections say, without files: sections are added at the end in order of time, those of the past are moved or mended, never lost,
and an archived one is for ever.

## 3. What the runs check

| Run | Module, cfg | Question |
|---|---|---|
| `go_jwks` | MCGoJwks, GoJwks | safety of the Go store and its refinement of the policy |
| `ruby_jwks` | RubyJwks, RubyJwks | safety, refinement and return of every validation, threads interrupted inside the exchange |
| `rust_jwks` | RustJwks, RustJwks | safety, refinement and recovery, callers cancelled at every await |
| `rust_jwks_stamp` | RustJwks, RustJwksStamp | does a refusal by the window follow a request, as in Go? (violated) |
| `python_jwks` | PythonJwks, PythonJwks | safety, refinement, return: threads |
| `aio_jwks` | AioJwks, AioJwks | safety, refinement, return: coroutines |
| `node_jwks` | NodeJwks, NodeJwks | safety, refinement, return, with imports that take no time |
| `token_cache` | TokenCache, TokenCache | one request, none needless, no expired token, return and recovery, for eight SDKs |
| `node_client` | NodeClient, NodeClient | what concurrent consumers of one Node client are told, and that they are told |
| `coverage_report` | MCCoverageReport, CoverageReport | are the numbers those of the last run and of this tree, true, and owned? And do the readers tell the truth (an assumption TLC evaluates first)? |
| `coverage_boundary` | CoverageBoundary, CoverageBoundary | does OK mean agreement, and drift a difference? |
| `changelog` | Changelog, Changelog | is anything lost or altered, whatever a branch does and wherever a rotation stops? |

The properties of a key store:

* `WithdrawnKeysExpire`: a key the realm has withdrawn is accepted for at most the lifetime of a set plus one exchange,
  the best a cache can promise. It fails when an expired set is used, when the lifetime starts without the set it
  belongs to, or when a failed reload prolongs it.
* `RefusalsAreExplained`: the window refuses a published key only after a refetch that was really made (or, where the code
  says so, refused by the backoff) and failed. It fails when a cancelled caller takes the fetch it paid
  for with it, when the window is stamped for a fetch that does not start, and when a decision is made on a miss that
  another caller's fetch has repaired meanwhile.
* `ImplementsPolicy`: the refinement; the abstract specification as a property, under the mapping at the end of each module.
* `AnswersAreJust` is these two with the types, in every store but Go's, whose theorems need them apart.
* `EveryCallReturns`; and in Rust `Recovers`: once fetches stop failing and the realm keeps a key
  published, a caller that keeps asking and does not give up gets it, whatever the others do with unknown key ids.
* `OneFlightServesAll` (Go) has two halves. `OneRequestAtATime`: one request is with the provider, however many callers
  miss, give up or wake. `WaitersAreServed`: whoever waits, waits for a flight that is closed or that a goroutine has yet
  to close, and callers join only the fetch under way. It fails when an error path of `runFetch` skips the close.
* `RestIsKept` (Node: no request inside the backoff, and one 503 is one failure however
  many lookups shared it).

`ForcedRequestsAreSpaced` of GoJwks follows from the refinement and has no run of its own; it is proved.

The properties of the Node client: `OneOfEach` (one creation, one discovery, one grant at a time, the admin client made once),
`FailuresAreFresh` (a call fails only if something failed while it ran), `OutcomesTellTheTruth` (success means applied, refusal
means not applied, an answer keeps its status whatever became of its body), `RepliesAreJudged` (the nonce binds the id_token;
the cap is exact), `EveryCallReturns`. It fails, for one, as soon as `defineConfig` admits a deadline the timer cannot honour.

The properties of the coverage reports: `ReportsAreOfTheLastRun` (of php: the index is, and each file counts what the index says), `NumbersAreTrue` (the readers against `Measured` and
`Told`, whatever the tool drops or merges; a refusal is allowed, a wrong number is not), `OkIsDeserved` (what is owned is exactly what is told, by an open item). Neither of the last two says anything of
the functions in `Unseen`: that such a function never ran is not reported, and an exit of 0 does not mean that it ran. Of the guard:
`OkMeansAgreement`, `CopiesAreTheGate`, `DriftIsReal`, `UnknownIsRefused`. Of the changelog: `OneLedger`,
`ImplementsRecord` (the refinement of LedgerRecord), `NothingLeavesTheTree` (a stopped rotation leaves every section in the tree),
`RotationSettles` (a rotation that ends yields what the check lets in and what another rotation leaves alone).

**Bounds.** Two callers: every race in these stores is between the one that decides or fetches and one that
looks, joins, waits or is cancelled; a third caller adds a second waiter, which the Go and token proofs cover. Two key ids, of which a realm may publish either or both: an
unpublished one is a forger's. `Lifetime` 3, `MinRefetch` 2 and `FetchMax` 2 keep the order of the defaults (300 s,
30 s, and a read timeout of 30 s): a window fits inside a lifetime, and an exchange begun in one window may still be
in flight when the window ends. The Go and Rust runs make do with an exchange of 1. With base 2 and cap 4 a first failure delays by 1, which ends before the window, and a second by 2 or 3, at or
after its end; the Python run starts at the cap (base 4, `MaxFailures` 1) and has the longer delays only. `Horizon` is at least `Lifetime + FetchMax`, the longest look back of any property (2 in `rust_jwks_stamp`, whose property looks back a window). `MaxRotations` is one, and two where the state space allows: one is enough to withdraw one key and
publish another; two let a withdrawn key return. Two Go flights suffice, because a flight is reused once nobody holds it: one in progress and one that a caller
has yet to wake from. For the token cache, `Skew` 2 and
lifetimes 1, 4 and 5 give tokens shorter than the skew and tokens that outlive it by more than an exchange.
Symmetry is used only in the Go run, which has no liveness.

The Node client: two consumers and three calls in all (`MaxCalls`), so that a call starts while another's flight is between its settling and its
unwinding, and one follows a failure; exchanges may fail as often as they occur. Bodies of up to four pieces of one or two bytes against a `Cap` of 4 and a first buffer
of 2: below the cap, of exactly the cap, one byte over and further, with the buffer doubled once, clipped, and never.
Coverage: every file of at most two items (`MaxItems`; three for the JVM, whose readers compare overloads with the lambdas in them) is run once without
faults; a plain file (of php also one of two plain functions, or nobody could swap them) is run three times with three faults (`MaxRuns`, `MaxFaults`): a good run, one that
stops or fails, and a run by hand between them. The arguments of a Rust `cfg` predicate are `test` and `unix` (`Preds`), the attributes inside a `cfg_attr` hold none themselves (`Attrs`). Boundary: gates of two entries, of which one in any notation; class trees of two members (`MaxMembers`); two edits
(`MaxEdits`), enough to change one site and repair or change another. Changelog: `ROOT_MAX_BYTES` 6 and `BULLET_MAX_BYTES` 2 let a root of three releases
exceed its bound; `MaxReleases` 4 over two months gives rotations of one and of two volumes; one edit behind the script's back (`MaxTampers`) and
one crash, at every line of every file.

**Fairness.** Weak fairness of what a scheduler runs when it can: a goroutine, thread or task at a step that needs no
lock, the exchange (which ends within the read timeout, by an answer or by an error) and `Tick`. Strong fairness where a caller needs a lock that others
take and free for ever: Go's `sync.Mutex` has a starvation mode, tokio's `Mutex` and .NET's semaphore queue in
order, and Ruby, Python and the JVM wake a waiter at each release; strong fairness states no more than that nobody is passed
over for ever. In NodeClient the event loop runs what is ready, and a timer fires when its delay is one Node honours; the realm
is not made to answer. Nobody is made to call, to give up or to rotate a key. The scripts have no liveness: nobody must run them.
Two runs do not check deadlock: in `node_client` the consumer has made its calls or its configuration was refused, in `changelog` the repository has had its releases and may stop changing.
That no caller is stuck in the former is `EveryCallReturns`.

**The violated run**, `rust_jwks_stamp`, is a disagreement between the code and what the repository says of it: the Rust store stamps
the window before it asks the backoff and says this is as in Go; Go's comment explains why it does not.

**Also observed.** Two constants keep a passing run out of a corner where its property fails; setting them shows it.
* `InterruptAt` without `"loaded"` (Ruby): `@fetched_at` is assigned before `@cache` (`jwks_store.rb:122`, `:79`); a thread interrupted in between
  leaves an expired set with a new lifetime, and a key withdrawn long ago is accepted, which the class says never happens ("It does not fall back to the stale set").
* `SlowImport = FALSE` (Node): a lookup that is importing a key of a set that expires meanwhile, and whose reload fails, resets the backoff of
  that failure (`jwt.ts:214`), and a request leaves inside it.

`RecordedRunIsReported`, in CoverageReport, is what the comment on php's record says (`integration-coverage.mjs:1454-1456`: the data of a run by hand gives no numbers). No run checks it, for the code does not keep it;
as an INVARIANT with one run and one fault it fails. A run by hand into the same directory that stops after the XML of the files, and executed the other of two functions of equal length, leaves record and totals
valid, and the report names the wrong function.

In the changelog scripts, none of which reaches main: a root whose last line has no newline loses a heading when its last section is moved in front of
others, although the script promises conservation (`changelog-rotate.mjs:10`; the comparison is made before the text is joined), and check 8d refuses the result; so `NothingLeavesTheTree`
and `RotationSettles` are about a root that ends in a newline. A rotation that stopped between a volume and the root and is run again writes the section twice into the volume;
8d refuses that too. A branch that brings releases of two dates, or that corrects a section of the root that rotation then moves, is not settled by a rotation (`Rotatable`): 8d wants
one or the other to land first.

## 4. What is proved

For every set of callers, key ids and flights and every value of the constants that the `ASSUME`s admit
(lifetime, window, deadline and failure bound positive, the base of the backoff at least 2 so that a jittered delay exists, `NoKid` no
key id and so on):

*GoJwksProofs*
* `TypeCorrect`: `TypeOK` is inductive. The `FlightXxx` lemmas say once what each update of a flight record yields.
* `RequestsAreExclusive`: `OneRequestAtATime` is not inductive, for nothing in it says why a flight may start.
  `SingleFlight` says it: a flight that is sent, answered or fetched is *the* flight of the store.
* `NobodyWaitsInVain`: `WaitersAreServed` with `SingleFlight`; with the previous theorem it gives `FlightsAreShared`. A fetch in flight is the one to join, so a joiner's flight has its goroutine; a new flight is one
  that nobody holds (`Unused`), so no waiter's flight is started over; recording and closing are steps of that goroutine on every path.
* `WithdrawnKeysAreDropped`: from `RecentKeys`: a cached key, or one in an answer on its way, was published no longer ago
  than the set or the exchange is old (plus, once cached, one exchange).
* `ForcedRequestsSpaced`: from `WindowKept`: the history of the window and the stamp agree.
* `RefusalsExplained`: from `WindowJust` and `FlightsJust`. The history says "running" only while the joinable flight is a forced one, so a store
  without a flight has an outcome to its window; an exchange on the wire is no older than the window (`AgedWithin`); an answer lacks only keys published
  since its request left (`LacksTheNew`); so after a success the cache lacks only keys published since the window opened (`Covered`), and a
  refused key that is older leaves "failed" as the only outcome. Between `Install` and `Record`, two lock sections, `Succeeded` carries the fact.
* `GoImplementsPolicy`: initial states map to initial states and every step to a step of the policy or a stutter.
  Needs `CleanFlights` (a flight on the wire has no error yet) besides `TypeOK` and `SingleFlight`.

*RubyRustProofs* (the Ruby store, and as `Rust!` the Rust store), *PythonProofs* (the threads' store, and as `Aio!` the asyncio store), *NodeJwksProofs*, one argument in five shapes
* `TypeCorrect`, and the refinement (`RubyImplementsPolicy` and so on): what a step does to the exchange is said once (`StartedFields`,
  `RepliedFields`...); a start is the policy's `Load` or `Refetch`, an end `Obtain`, `Fail`, `Abandon` or `Forgive`, everything else a stutter.
* `AnswersJust`. Neither half of `AnswersAreJust` is inductive. That an accepted key is recent needs `RecentKeys`, as in Go. That a refusal is
  explained needs `WindowInv`: the history of the window says "running" exactly while its exchange runs (`WindowRuns`), an
  exchange is no older than the window it runs in (`WindowCovers`), a set obtained lacks only keys published since its exchange began
  (`SetIsWhole`), and so, after a success, the set held lacks only keys published since the window opened (`WindowIsJust`).
* What each shape adds: `LockHeld` (Ruby, Python: the mutex is held exactly while an exchange runs, by a caller inside the loader);
  `KidKept` (asyncio, Node: a call that is suspended keeps its key id); in Node `Sched`, how calls wait: a pending fetch has a call that awaits it, a
  failed one a call still to be told, and nobody is told both outcomes at once.
* `BackoffKept` (Node): `RestIsKept` from `RestInv`: what is left of a counted failure's backoff can be forgotten only once a set is
  fresh, and the counter never runs ahead of the fetches that failed.

Three theorems need more than the `ASSUME`s of their module, each stated as a hypothesis with the name of what it says:
* `Atomic` (Ruby): no interrupt between the two assignments of a load, the corner of section 3.
* `Outlasts` (Ruby, `AnswersJust` only): `MinRefetch <= Lifetime`. With a longer window, which `config.rb:55` accepts, the set it brought can expire inside it, and the
  second loader call is answered with no set at all: a published key is refused after a refetch that succeeded.
* `Instant` (Node): no time passes during an import, the other corner; and `DeadlineFits` (`NodeImplementsPolicy` only): `FetchMax < Lifetime`. `Succeed` does not
  reset the failures, the lookups it resumes do; one that starts another fetch first owes the reset (`DebtInv`), and pays it before the set expires
  only if the exchange is shorter than a lifetime. With `FetchMax` 3 and `Lifetime` 2 TLC shows the counter of an earlier failure surviving a success.

*TokenCacheProofs*, for all eight providers at once
* `TypeCorrect` and `RequestsAreExclusive`, from `IInv`: whoever has a request under way holds the lock or the flight, and who
  fetches under a lock has its request on the wire. The second half is what makes cancellation safe: dropping a request
  frees the caller's own lock and nobody else's.
* `RequestsAreNeeded`: no request leaves while a usable token is cached, except from Go's flight.
* `TokensAreValid`: from `ValidInv`, which relates the two clocks of a token: what is left of a stated lifetime plus the skew is at most what the
  realm still honours, plus one exchange where the SDK counts from the response.

*NodeClientProofs*, for any callers, operations, cap, first buffer and number of pieces
* `ReadersAreExact`: `ReadByob` and `ReadChunks` fold over the pieces of a body, and the length, the buffer and the overrun they end with are what the size of the body and
  the cap say. The library's induction takes a predicate as a parameter, which the prover cannot instantiate; `LeastNumber` and `NumbersInduct` do the same for sets: the
  numbers at which a claim fails have a least one. They give that the function a fold is defined by exists (on the subsets of its indices), and then what it computes.
* `OneOfEachKept`, from `CellsKept`: an exchange is out exactly while its slot is pending, a held value leaves no flight to start, and what was made
  (configuration, client) is held, or in its slot until the starter resumes.
* `FailuresFresh`, `OutcomesTrue`, `RepliesJudged`, from `CallsKept`: a call under way has reported nothing and applied nothing yet; it is marked (`hit`) if it holds the
  failure of a promise, or while some failed flight is not yet unwound. The last clause is why `FailuresAreFresh` is not inductive: a call that asks just then is handed the old failure,
  and nothing else says that it was marked when it began.
* `NobodyWaitsInVain`: whoever still waits, waits for a flight that is under way, and whoever has heard is not kept from resuming by a flight of its own that runs (`~Originates` in `Resume` and `Proceed`).
  From `WaitsKept`: the starter of a flight under way waits for that very flight. This is the safety half of `EveryCallReturns`; fairness and the deadlines do the rest in the run.
* One assumption was added to NodeClient for these: `NamesAreDistinct` (a caller is no cell, `Nobody` neither), since `by` holds either.

*CoverageReportProofs*, for any source files and any numbers of runs and of faults
* `RunsAreSound`: the inductive `RunInv`. `ReportsAreOfTheLastRun` speaks of the moment a verdict stands; what makes it true is older. `DataOfNow`: where runs are recorded, the
  data there is of the last run started or of one by hand, because `Start` clears before anything can stop it. `RecordBinds`: a record is of data some run
  wrote, of tests that passed if the run succeeded, with hashes only of bytes that stood all through the suite; nothing later changes one. `JobHolds`: from the
  suite to the end of a run its data stays its own. `Quiet`: a run under way concludes nothing. TLC found no state of `coverage_report` that violates `RunInv`.
* `LastRunReported`: `ReportsAreOfTheLastRun`. A record of a run by hand does not exist (`of` is at least 1), so data equal to what a record holds is of the last run started. Of php only the index is bound; `StopByHand` changes the files under it, and what the theorem then says of them is that they count the same totals.
* `NumbersReported` and `OkDeserved`: `NumbersAreTrue` and `OkIsDeserved`, under the hypothesis `ReadersAreTrue`: each reader refuses a file or tells the truth about it, whatever ran. The truth is `Told`: what Rust's tool cannot show is taken out of the
  statement (`Unseen`), not out of the files, which hold every kind of async function the reader tells apart.
  The readers compute over texts, which is TLC's part: it evaluates the hypothesis for every file within the bounds, as an assumption of MCCoverageReport. What is
  proved is the rest, for any number of runs and faults: that a report reads files and data that belong together, merges both files, and that the verdict it
  leaves is the truth of the state it stands in.

*ChangelogProofs*, for any limits, and any number of releases, months, edits and crashes
* `TypeCorrect`: the files stay files of lines and what is parsed in them are sections, whatever is done by hand and wherever a rotation stops. Lines are counted, parsed, picked and
  joined by folds; `FoldRuns` turns a fold into a run, one value after each element, and each operator gets its run once (`BytesRun`, `SplitRun`, `ThoseRun`, `FlattenRun`). That the
  function a fold is defined by exists comes from `LeastNumber` and `NumbersInduct`, as in NodeClientProofs.
* `ThePastIsKept`: `ImplementsRecord`, the refinement of LedgerRecord, from `record = Record(main)`. An entry of the old main has a heir in the new one: an archived section is in a volume unchanged;
  one of the root is still there, grown by `BULLET_MAX_BYTES` at most, or moved, and then its links gained one step up, so that it says the same from there and is as long (`MovedSaysTheSame`).
  Headings stand once (`OneOfAHeading`), so the heir is the only one, and a new archived entry is one of old.
* `OneLedgerKept`: `OneLedger`, from `InOrder`. 8d compares neighbours in a file, the month of a volume, and the oldest date of the root; over all the files
  that makes one falling sequence, because a later month has later dates. TLC found no state of `changelog` that violates `InOrder(main)` or `record = Record(main)`.
* `NothingLeaves`: `NothingLeavesTheTree`, from `KeptInv`. That nothing has left the tree says nothing of the next file, so `Promised` says what a rotation still owes: the root comes last, each
  volume is written once and with all that it says already, and every section held is in a volume or in a file still to be written. That a rotation starts so (`PromisedWrites`) rests on three facts: what it keeps
  and what it moves are together the root (`RootCut`); each month it moves to is written, once (`OrderIs`); and what `Render` writes is parsed as the sections it was given (`RenderParsed`), if each but the last
  ends its line and none holds a heading. What is parsed has that form (`KindWhole`), for the root only because it ends in a newline, which is why the property asks for one. TLC found no state that violates `KeptInv`.
* `RotationsSettle`: `RotationSettles`, from `SettleInv`: what is clean is being rotated from some tree `t` that was only too long (`Ready`), and every file is as in `Rotated(t)` or has yet to be written
  (`Underway`); main keeps a volume, so that its index line is there before and after and the head is as long as before (`RotatedRest`). The last write leaves `Rotated(t)`, and what is left to show is about that tree alone.
  It is read as it was made, with heads and ends too (`RenderExact`, `RootRead`, `VolumeRead`). The cut is between two dates, so what is kept, what is moved and what was archived fall one
  after another, and headings in different files have different dates (`CutOrder`, `VolumeOrder`, `RotatedStructure`). The newest date stays, whatever its length (`NewestDateStays`), so what is moved was on main, which is what
  8d asks of a new archived section (`RotatedPreserves`). Another rotation has nothing to do, or has one date left, moves nothing and renders the files it read (`RotatedAgain`).
* `TypeCorrect` needs one assumption of the model's beginning, not of the code: `ThreeToBeginWith`, for `Init` has three releases. Every date has a month with a volume then.

Only model-checked: everything temporal beyond safety (`EveryCallReturns`, `Recovers`; the prover handles neither
fairness nor `ENABLED`), what the coverage readers compute, and everything about the boundary guard, whose
parsers are `RECURSIVE` operators over texts, which cost the prover its SMT backend.
The liveness of the Go store is not checked: the races need two flights and two goroutines, and the graph is then too large for it.
`NobodyWaitsInVain` is its safety half: a waiter's flight always has a step left that leads to its close.

## 5. What is not modelled

Token signatures, claims, headers and bodies: a token is its key id, and one that is refused before the key lookup
(size, algorithm) never reaches the store. A failed exchange is one event, whatever failed. A 200 with an empty or a keyless set is an answer of its own,
because the code treats it apart. Clock steps: the stores read monotonic clocks (PHP's window does not,
and PHP's store is not modelled). Processes share nothing, so one store is enough. In Ruby a set that expires between the two loader
calls of one validation is treated as the code does, where the window may answer the second call. The components without a module are listed in `PROJECT.json` with the reason.

Of the **Node client**: claims of access tokens (a library decides them), the texts of errors, masking, and the dispose methods, which Node does not have. Of the
**other SDKs**: their auth clients, facades and admin clients, which follow the same table of statuses and outcomes, and the key stores of
.NET, PHP, Java and Kotlin, whose state belongs to IdentityModel, to one process, and to Nimbus.

Of the **coverage reports**: the `list` command. PHP and Ruby hash the sources at the end of the suite, so an edit during it is not seen by the code; only Java and .NET hash
before and after, and the property asks no more of the others. Node and Python look for what they need before they clear, so a run that stops there leaves old data. Go, Python, Node and Rust keep no
record: only `local` binds their data to a run. That a Rust async function in `Unseen` never ran is known to nobody: the code says so (1225-1229), the admin traits of this repository are such a case
(`rust/src/admin.rs:42-44`), and the properties exempt exactly these. Functions that an attribute macro adds to a file, and the check for a range that ran into the next function (`swallows`; no file laid out by rustfmt reaches it) have no
consequence in the model. Two runs into one directory at the same time are not modelled.
Of the **boundary guard**: a filter behind a pipe or a redirect that precedes the file name, an inline `bash -c '...'` on one line, or a command continued by a backslash, none of which the
script recognises; Java's companions are one nested class `T$1`; the arity of generic delegates is not counted; Kotlin's `T` alone is always partial; Rust's three copies are represented by a
script and a document. Of the **changelog**: one branch at a time, landing on its own base (merging is git's); a rotation runs alone; the fallback from `origin/main` to `main` is taken to name the same content; a link
counts only if it is one to a relative path: the code leaves bare names without slash or extension, `#anchors`, addresses, absolute paths and links with a title as they are, and so lines with only those are
lines without a link here. `readdir` is taken to list the volumes by name.

The remaining scripts are single passes of regular expressions over texts (`check-docs.mjs` besides 8d, `check-ci-permissions.mjs`, `check-versions.mjs`, `check-known-gaps.mjs`, `doctor.mjs`) or calls to
GitHub (`repo-config.mjs`): nothing happens in them in an order that could go wrong.

## 6. What comes next

1. The .NET managers around IdentityModel's, against JwksPolicy; the hazard at `ForcedRefetchConfigurationManager.cs:83`.
2. Close and dispose of the Go and .NET facades against a creation in flight, as a sibling of NodeClient.
