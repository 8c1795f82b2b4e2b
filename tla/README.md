# TLA+ models of luci-go

TLA+ specifications of the parts of this luci-go snapshot that have state,
concurrency or protocol behaviour worth model checking, with the TLC
configurations that check them.

## The system and its parts

The snapshot under `src/` holds pieces of several LUCI services:

| Part | Sources | What it does | Status |
|---|---|---|---|
| Milo gitiles log cache | `src/milo/git/log.go` | `git.Log`: commit logs from gitiles, cached in memcache with pointer entries for ancestors | modelled: `GitLogCache` |
| Milo build page | `src/unnamed/part_006` | build page handlers; `simplisticBlamelist` calls `git.Log` | not modelled (client of the cache) |
| GCE backend task handlers | `src/unnamed/part_003` | `create`, `ensure`, `expand`: task-queue handlers over datastore | modelled: `GceBackend`, refining `GceVMs` |
| GCE model, trace sampler | `src/gce/appengine/model/model.go` | VM entities; `qpsSampler` with double-checked locking | partly modelled: `QpsSampler` |
| Swarming CLI | `src/client/cmd/swarming/*.go` | trigger, RPC retries, task cancellation; ResultDB recorder handlers carried at the ends of trigger.go and common.go | partly modelled: `SwarmingTrigger`, `SwarmingRequest`, `RecorderInvocation` |
| ResultDB query CLI | `src/cq/api/bigquery/attempt.proto` (second file), `src/unnamed/part_009` | errgroup fetchers feeding a channel, one printer | not modelled (see the end) |
| ResultDB recorder and converters | `gtest.go`, `part_008`, `predicate.go`, `part_005` | sequential parsing and validation | partly modelled: `GTestFormat` (gtest.go) |
| isolated download | `src/client/cmd/isolated/download.go` | downloads an isolated tree on concurrent goroutines, lists the files written | modelled: `IsolatedDownload` (with the swarming client's `GetTaskOutputs`) |
| bbagent | `part_004` | sequential command-line I/O | not modelled |
| protos, generated code, lucicfg, tests | the rest | schemas, generated code, Starlark helpers, unit tests | not modelled (no behaviour) |

`PROJECT.json` lists every part with its status and the reason.

## GitLogCache: `src/milo/git/log.go`

`Log(host, project, commitish, min)` returns up to 100 commits. `call()`:

1. sets the memcache namespace;
2. runs `readCache`;
3. on a miss, a cache failure or an undecodable value, asks gitiles;
4. runs `writeCache`.

The cache value's last byte is `meta`:

- 0 means a marshalled log;
- 1..99 means the rest is the id of a descendant commit that is `meta` positions further up;
- 100..255 is reserved.

`readCache` follows pointers while the accumulated distance stays within `100 - min`. `writeCache` stores:

- the log under the commitish;
- for a ref, also under the hash of the first commit;
- for every commit reached down the log through single-parent commits, a pointer. It first probes the existing entries with one `memcache.Get` and skips each one that is "not worse". The `memcache.Set` that follows is not a CAS.

### Correspondence

| Code | Model |
|---|---|
| memcache namespace `git-log` | `cache`: key -> record value or `Missing`; keys are refs (model values) and hashes `<<commit, spelling>>` |
| gitiles repository | `Parents` (constant graph; a larger id is newer), `refTarget`, `History`, `GitilesLog` |
| one goroutine in `Log()` | `pc[p]` and the locals `commitish`, `min`, `e`, `dist`, `cacheResult`, `res`, `probed`, `ret` |
| `Log` + `call` up to `readCache` | `Log(p, x, m)` (namespace failure is a disjunct) |
| one iteration of the `readCache` loop | `ReadCache(p)`: one disjunct per `switch` case; `ReadCacheFailure(p)` for a Get error |
| `Client`, `g.Log` | `FetchGitiles(p)`: error or the first page |
| `proto.Marshal`, ancestor loop, probe Get | `WriteCache(p)`: any subset of probes may fail |
| `memcache.Set(caches...)` | `WriteCacheSet(p)`: any subset of the batch lands |
| expiration, LRU eviction | `Evict(k)` |
| pushes to the repository | `MoveRef(r, c)` |

A step is one memcache round trip. Each Get and each Set item is atomic, and nothing larger is. The tsmon counter and the logging are left out because no property reads them.

Conversions are modelled by what they do:

- `hex.EncodeToString` always yields the `"lower"` spelling (`HexKey`);
- `gitHash` accepts every spelling (`IsHash`);
- `byte(100 - min)` is `MaxDist`;
- `decoded.Log[dist:]` is `SubSeq`, or `Panic` past the end.

### Model (`MC_GitLogCache.tla`)

The model uses `PageSize = 4` for 100 and `DefaultMin = 2` for 50. The commit graph is

    1 <- 2 <- 3 <- 5 <- 6 <- 7,   4 <- 2,   5 merges 3 and 4

This graph is the smallest one where all of the following happen:

- pointer chains of length 1 and 2;
- the single-parent loop stops at a merge;
- log order differs from first-parent order (the log of 5 is 5 4 3 2);
- a log is cut at the page size.

`MinArgs = {0, 4}` gives distance budgets 2 and 0. The initial cache holds values another version left:

- a reserved last byte under 6;
- an undecodable log under 4;
- an empty value under `main`.

### Runs

| Run | cfg | Bounds | Checks |
|---|---|---|---|
| cache_concurrent | `MC_GitLogCache.cfg` | 2 goroutines, 3 calls, requests `main`, 7, 5, 4; either 1 eviction, or 1 push of `main` 6 -> 7 with at most 2 calls (the constraint `OneEnvironmentEvent`; two calls are enough for one to read the ref before the push and one after) | `TypeOK`, `CacheConsistent`, `ResultIsHistory`, `ResultLongEnough` |
| cache_calls_return | `MC_GitLogCache_live.cfg` | 2 calls on `main` and 5; the cache starts with values another version left, pointers under 5 and 6 that name each other | `CallsReturn` (liveness) |
| cache_pointer_regression | `MC_GitLogCache_regress.cfg` | as cache_concurrent, with both an eviction and a push allowed | `NoPointerRegression`: violated |
| cache_upper_case_hash | `MC_GitLogCache_upper.cfg` | adds the upper-case spelling of 7 | `PointerTargetInBatch`: violated |

The properties:

- **CacheConsistent:** every decodable entry is true. A log under a hash is that commit's first page. A log under a ref is the first page of a commit the ref pointed to. A pointer under c with distance d names a descendant whose history, d positions down, is c's.
- **ResultIsHistory:** `Log()` never panics. It returns a prefix of the commit's history for a hash, and a first page of a ref target for a ref.
- **ResultLongEnough:** for a hash, at least `min` commits come back, or the whole history.
- **PointerTargetInBatch** (the violation run only): each pointer a batch writes names a key the same batch writes directly.
- **CallsReturn:** every call returns. The cache may hold values that decode as pointers leading back to where the chase began (the value format of lines 90-95 lets any value name any key). `readCache` still ends, because each hop adds its distance to `dist` and the loop stops once `dist` passes `maxDist`. The mutant that drops `dist += meta` chases the cycle forever.

Symmetry over the goroutines is sound because they are interchangeable. No property names one.

### Findings

1. **NoPointerRegression is violated.** Spec P5 says a pointer never replaces an entry at least as good. The violation comes from either of two paths. When the probe Get fails (line 256), the code writes its pointer regardless of what the entry holds. And between the probe and the Set (line 278), another goroutine may have stored a better entry. Correctness holds: `CacheConsistent` passes. What is lost is cache efficiency.
2. **An upper-case hash commitish leaves dangling pointers.** `gitHash` (line 81) accepts upper-case hex, so the log goes under the upper-case key. The ancestor pointers name `hex.EncodeToString(id)`, which is lower case and which this batch never writes. A later chase from an ancestor misses unless another request wrote the lower-case entry.

### Fairness

Weak fairness is assumed on the four steps of a goroutine inside `Log()`: read, fetch, write, set. A goroutine that has started keeps running. Memcache and gitiles errors, evictions, pushes and new calls are environment choices, and no fairness is assumed on them. `Terminating` is the stuttering step once every call has returned. It keeps deadlock checking meaningful.

## QpsSampler: `qpsSampler.Sampler` in `src/gce/appengine/model/model.go`

Every traced request calls `Sampler`.

- A request with a sampled parent is sampled.
- Otherwise the goroutine reads `now`. It checks `s.next.IsZero() || now.After(s.next)` under the read lock. If that holds, it checks again under the write lock, and if it still holds, sets `s.next = now + period`.

The actions correspond to the code as follows:

| Code | Action |
|---|---|
| entry and the clock read | `Call` |
| the read-locked section | `ReadCheck` |
| the write-locked section | `WriteCheck` |
| time passing | `Tick` |

Each locked section is one step, because the mutex serialises it. The clock read is a separate, earlier step, so a goroutine may hold an old reading.

`decisions` records every decision with its clock reading. Two properties are checked over it:

- **SamplesSpaced** (the rate limit): any two parentless samples read clocks more than a period apart.
- **UnsampledCovered:** every refusal follows a sample whose reading is within one period of its own.

Run `sampler_concurrent` (`MC_QpsSampler.cfg`) uses these bounds:

- 3 goroutines and 5 calls;
- clock 1..6 and period 2.

These bounds let two goroutines pass the read check together and let a reading go stale across another's sample. Dropping the write-locked re-check breaks SamplesSpaced.

`AtomicSampler.tla` is the abstract specification: each call is decided in one step, on a clock reading no later than the decision. `MC_QpsSampler.tla` instantiates it with `INSTANCE AtomicSampler`; the detailed module's `clock`, `next` and `decisions` are the abstract ones. Run `sampler_concurrent` also checks `ImplementsAtomicSampler == Atomic!Spec` as a PROPERTY. So the concurrent sampler is linearizable:
- a write-locked check that samples, or a check that refuses, is the abstract `Decide`;
- the clock read and a read-locked check that passes are stuttering steps. `Sampler(spec)`, which parses the spec string into a period, is not modelled: its only output is the `Period` constant.

## SwarmingTrigger: `swarming trigger` and `cancelExtraTasks`

`triggerRun.main` (trigger.go) creates one task with `service.NewTask`, through `retryGoogleRPC` (common.go). That helper retries while the answer is a `googleapi.Error` with code >= 500. A 4xx is fatal. Any other error, such as a dropped connection, is not tagged transient, so it is fatal too. With `-cancel-extra-tasks`, `cancelExtraTasks` then does three things:
1. it counts the tasks that carry the invocation's UUID tag;
2. if there are more than the one returned, it lists them;
3. it cancels every listed task except the returned one, in parallel through a work pool.

| Code | Model |
|---|---|
| the Swarming server's tasks | `tasks`: id -> `taskState` value, as the bit constants of common.go; `Alive` tests `maskAlive` with `Bitwise` |
| one `NewTask` attempt | `NewTaskAttempt`: the server may commit the task and still answer 5xx or fail the connection; it never commits on a 4xx |
| `CountTasks`, `ListTasks` | `CountTasks`, `ListTasks`; each may fail (an error after retries) |
| a work-pool worker's `CancelTask` | `CancelTask(t)`: pending -> CANCELED, running -> KILLED, finished left alone, or an error |
| `WorkPool` returning | `CancelDone` |
| the `-dump-json` file: `os.Create`, `MarshalIndent`, `Write` | `Triggered` goes to `WriteDump` when `dumpJSON` holds; `WriteDump` may fail, after the task exists |
| bots | `BotRun`, `BotComplete` (no fairness) |

`MaxAttempts = 3` stands for retry.Default's limit. It is the smallest bound that gives two duplicates. No liveness property is stated, so no fairness is assumed; deadlock is checked, and `Terminating` is the only step once `main` has returned.

Runs:
- `trigger_retries` checks `ExtraTasksCancelled`: a successful trigger with `-cancel-extra-tasks` leaves no duplicate alive, however the parallel cancels race the bots.
- `trigger_orphans` finds `NoExtraTasksAlive` violated: with `-cancel-extra-tasks`, `main` returns while two tasks of its invocation are alive. TLC's trace has three states. The first `NewTask` attempt commits task 1 and answers 5xx. The retry commits task 2 and fails the connection, an error `retryGoogleRPC` does not retry. `main` returns that error (trigger.go:254-255) before `cancelExtraTasks` runs. A failing count, list or cancel after a successful `NewTask` (trigger.go:258-261) leaves the duplicate alive the same way. trigger.go:185 and common.go:325 promise the duplicate is cancelled.

## SwarmingRequest: the request `trigger` builds

`triggerRun.Parse` and `processTriggerOptions` are modelled as operators: `ParseOK`, `UserOf`, `TaskName`, `MapToArray` (sort with `array.Less`), `NamePartFromDimensions` and `ProcessTriggerOptions`. `MC_SwarmingRequest.tla` enumerates 768 flag combinations. Its one run is a violation. A property that the sorted dimensions are sorted would only restate `sort.Sort`, so none is checked. The order of dimension keys is given by `KeyRank`, because TLC cannot compare strings.

Runs:
- `request_flags` finds `RequestHonoursFlags` violated. The property states the help texts of `-expiration` and `-task-name`, and each of its two conjuncts fails on its own:
  - `ExpirationSecs` is set from `-hard-timeout` (trigger.go:360), and `-expiration` is never read;
  - the default-name rule tests `taskName != ""` (trigger.go:308), so a given name is replaced by `<user>/<dimensions>`, and a missing one becomes `/<isolated>`.

## GceBackend: the task handlers of `src/unnamed/part_003`

`expand` reads a VMs block and enqueues one `ensure` task per VM, ids `<block>-0` to `<block>-(Amount-1)`. `ensure` gets or creates the VM entity in a transaction. `create` does three things:
1. it reads the entity outside a transaction, and fails if it is missing;
2. if the entity has no hostname, it draws a random suffix and, in a transaction, reads the entity again and stores the hostname only if there still is none; the struct re-read in the transaction is the one used afterwards;
3. it calls `Instances.Insert` with a request id derived from the hostname, so GCE ignores a repeated insert.

| Code | Model |
|---|---|
| datastore VM entities | `vms`: id -> `None` or a record with the hostname (the suffix) |
| the task queue | `pending`: a set of tasks; a failed handler leaves its task there |
| GCE instances | `instances`: hostnames `<<id, suffix>>` |
| `expand` | `Expand`: GetVMs or AddTask may fail, after adding any subset of the batch |
| `ensure` | `Ensure(id)`: one transaction, or a failure |
| `create` | `DeliverCreate`, `CreateGet`, `CreateTx`, `CreateInsert` on a worker; `CreateFails` returns the error |

The queue delivers at least once. Two workers may run the same create task at once. This is the redelivery of a task whose first run is still going, and it is the race the double-check is written for. The Insert outcomes are:
- success, or a repeat that GCE ignores because of the request id;
- a `googleapi.Error`;
- any other error, which panics (line 96), whether or not GCE created the instance. The HTTP server recovers the panic and the queue sees a failed delivery, which is how the model treats it: the redelivered create must still reuse the stored hostname and request id, and the refinement and `AllVMsCreated` check that it does.

Datastore, queue and GCE failures are bounded by `MaxFailures`. Weak fairness on every handler step stands for the queue delivering pending tasks again.

The `vm.URL != ""` early return depends on a field no code in `src/` sets, so it is not modelled. Attributes and prefix are not modelled either: no property tells them apart.

Runs:

| Run | cfg | Bounds | Checks |
|---|---|---|---|
| gce_create_races | `MC_GceBackend.cfg` | 2 VMs, 2 workers, suffixes `a`/`b`, 3 failures; no symmetry (liveness) | `TypeOK`, `ImplementsGceVMs`, `AllVMsCreated` |

`GceVMs` is the abstract specification of what `ensure` and `create` promise together. It has one variable for each VM's hostname (`None` with no entity, `""` with none chosen yet, or the suffix) and one for the set of instances. It has three actions:
- `Store` creates the entity;
- `Name` chooses the hostname once;
- `Insert` adds the instance under the hostname the entity holds.

`GceBackend` instantiates it `WITH` the hostname of each entity of `vms` and with `instances` itself. `ImplementsGceVMs == Abstract!Spec` is checked as a property. It holds only if no step of any worker changes a chosen hostname and every Insert uses the stored hostname, so no VM gets two instances. Two mutants break it:
- the transaction storing its own hostname without the double-check (`CreateTxNoRecheck`, the registered mutant);
- `ensure` putting a fresh entity without reading the stored one (`EnsureOverwrites`). Two suffixes are enough for two racing creates to pick different ones. Three failures let an Insert fail after creating the instance, be retried, and still leave a failure budget for the other handlers.

## GTestFormat: the GTest converter of the ResultDB recorder

`gtest.go` has two entry points. `ConvertFromJSON` rejects a summary without `all_tests`. `ToProtos` walks each iteration's test names in sorted order and each name's runs, and turns every run into a `TestResult`. It returns an error on a name that no regexp matches or on an unknown status. After the loop it marks the invocation INTERRUPTED if any run was NOTRUN, and adds its tags. Its comment promises: "If an error is returned, inv is left unchanged."

| Code | Model |
|---|---|
| `ConvertFromJSON` | `Decode` |
| the iteration loop, `sort.Strings` | `NextIteration` (order by `NameRank`) |
| `extractGTestParameters` on a name | `NextName`, using the operator `ExtractGTestParameters` |
| one run, `fromGTestStatus`, `convertTestResult` | `ConvertRun` |
| the code after the loop | `Finish`; tags are a set, since `NormalizeInvocation` (not in `src/`) sorts them and drops duplicates |

A test name is modelled by its regexp structure. It is a sequence of `\w+` words and the separators `/`, `.` and `#`. Each word is a sequence of pieces, so `strings.TrimPrefix` of `MANUAL_` and `PRE_` is `TrimPrefix` on pieces. `StripPrefixes` is the code's fixed-point loop, written with RECURSIVE. `Unprefixed` is the reference definition it is checked against.

`MC_GTestFormat.tla` enumerates 11,343 inputs. It uses five names, one of each shape:
- type-parametrized, with prefixes `MANUAL_PRE_`;
- value-parametrized;
- plain, with prefixes `PRE_MANUAL_`;
- Java;
- one that no regexp matches.

Each input has up to two iterations of up to two names, with one run each, of status SUCCESS, NOTRUN or an unknown one.

Run `gtest_convert` (`MC_GTestFormat.cfg`) passes four invariants:
- `InvUnchangedOnError` breaks if a NOTRUN marks the invocation inside the loop.
- `InterruptedIffNotRun` breaks if `interrupted` is reset per iteration.
- `BasePathsUnprefixed` breaks if the prefixes are trimmed in only one pass.
- `TypeOK` breaks if an unknown status converts without an error.

## RecorderInvocation: ResultDB `CreateInvocation`

This snapshot carries ResultDB recorder code after package main in `trigger.go`, lines 482-622. `CreateInvocation` does three things in order:
1. It validates the request: the `u:` prefix, and a deadline at least 10 s and at most 48 h away.
2. It generates an update token and sets it in the response header.
3. In a Spanner read-write transaction, it reads the invocation's `CreateRequestId`. If the row is missing, it inserts the invocation with the token. If the row has the same request id, it returns the stored invocation (dedup). Otherwise it answers AlreadyExists.

The model runs the handler as one step, because the transaction is serializable. The client side is modelled too. A response may be lost (`Lose`), and a client that gets no answer, or a transient error, calls again with the same request (`Receive`). There are two clients: c1 with request id `r1`, and c2 with no request id. Each makes up to two calls.

Run `recorder_token_retry` (`MC_RecorderInvocation.cfg`) finds `UpdateTokenValid` violated in five states:
1. c1's first call inserts the invocation with token 1.
2. The response is lost.
3. The retry is deduplicated, but its header carries the new token 2.
4. c1 keeps token 2, which the invocation does not store, so c1 cannot update or finalize its invocation.

`CreateTestExoneration`, which the snapshot carries after the swarming code in `common.go`, is not modelled. It is next in the plan: its idempotency under retries (a deterministic exoneration id with a request id, a fresh one without) needs a passing run of its own.

## IsolatedDownload: `isolated download` and `GetTaskOutputs`

Two commands download an isolated tree and list the files they wrote:
- `isolated download` (`download.go`);
- the swarming client's `GetTaskOutputs` (`common.go` 124-169).

Both start a downloader. Its goroutines call `FileCallback` once per file written. The callback takes `filesMu` and runs `files = append(files, name)`. The caller reads `files` after `dl.Wait()`. The downloader library is not in this repository. Its goroutines are modelled as `Jobs`: each takes a file of the tree, then writes it (adds it to `disk`) or fails (`dlErr`).

How the model corresponds to the code:

| Code | Model |
|---|---|
| `Run`: `Parse` (flag checks, `commonFlags.Parse`), `StartTracing` | `Parse`, with `ParseOK`; a failure is `Exit1` |
| `main` up to `downloader.New`: auth client, cache dir and `NewDisk`, output dir | `Setup` (one step, any call may fail) |
| `signals.HandleInterrupt(cancel)` | `Interrupt`: the files not fetched are dropped, Wait fails |
| `FileCallback`: `Lock`, `append` (read, then write back), `Unlock` | `TakeLock`, `ReadFiles`, `WriteFiles` |
| `dl.Wait()` and its error | `WaitReturned`, `WaitDone` (`AfterWait`) |
| `strings.Join(files, "\n")` plus a final newline if non-empty | `Join`, `FilesData`; `WriteOutputFiles` |
| `outputResults` | `OutputResults` |
| `GetTaskOutputs`: `RemoveAll`, `Mkdir`, nil `FilesRef`, downloader | `PrepareDir`, `StartOutputs` |
| `return files, dl.Wait()` | `ReturnOutputs` |

`append` is modelled as two steps, a read and a write, because that is how it touches the shared slice. `return files, dl.Wait()` is modelled as reading `files` after the call. The Go spec leaves that order open, but the gc compiler reads it after. Every call that can fail may fail, up to `MaxFailures` (2) times in all.

`MC_IsolatedDownload` uses:
- two goroutines;
- an empty tree, or one with three files (so one goroutine reports two);
- a task directory that may hold a file `"x"` left by an earlier attempt;
- three command lines: every output with a cache; only `-output-files`; cache policies without `-cache-dir`, which `Parse` refuses.

Run `download_file_list` (`MC_IsolatedDownload.cfg`, 3,511 states) checks two properties:
- **FilesListedOnce.** The `-output-files` file has one line per file of the tree. Lines are read as newline-terminated. A `GetTaskOutputs` that returns no error returns every file once, and the task directory holds exactly those files. Two bugs would each break it: callbacks outside the lock losing a name, and the list being read before `Wait` returns.
- **ExitZeroComplete.** `isolated download` exits 0 only when the whole tree is on disk and every output its flags ask for has been written.

Deadlock is checked: `Terminating` is the only step once the command has returned. No liveness property is stated, so no fairness is assumed.

## Not modelled, and why

- **ResultDB query CLI** (`queryAndPrint`, `fetch`, `printJSON` in the second file of `src/cq/api/bigquery/attempt.proto`). Two fetch goroutines per invocation group send on an unbuffered channel. A goroutine closes the channel after the errgroup's `Wait`, and the printer drains it. Every send also selects on the group's context, so a failed fetch cannot block the others. A model would check that every result is printed once and that the command returns. That needs a passing run of its own, and each of the project's twelve runs asks a question this one would displace.
- **`CreateTestExoneration`** (`common.go` 396-478) and **`mutateInvocation`**, whose source is not in the snapshot (only its tests, part_011). This is the same reason: the retry idempotency of the deterministic exoneration id needs a passing run of its own.
- **The JSON Test Results converter** (part_008) and the **predicate validation** (`predicate.go`). Both are sequential validation built on `regexp/syntax` parsing and proto enums. A model of them would restate the checks one by one, and TLC cannot parse regular expressions faithfully.
- **`VM.GetInstance`** (`model.go` 66-93) and **`Sampler(spec)`** (`model.go` 126-153). These are data conversions into the compute API and the sampling period. No property tells their outputs apart beyond the period, which is a constant of `QpsSampler`.
- **gce config decoding** (`configserver_dec.go`). This is a generated decorator with no state of its own.
- **Generated protos** (`attempt.pb.go`), **bbagent**, **lucicfg** and the **tests**. They have no concurrent or persistent state; the tests serve as the spec where they touch a modelled component.
