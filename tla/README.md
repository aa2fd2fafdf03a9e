# Formal models of coursera-mailru-golang

The repository holds eight programs of a Go course. This directory models all
of them in TLA+, the concurrent ones first, checks them with TLC on small
instances and proves their central properties with TLAPS for every instance.

## 1. Inventory

Paths are relative to `src/`. `PROJECT.json` lists every component with its
status and every hazard at its line.

### Microservice, `part_2/hw7_microservice` (modelled)

A gRPC server. Unary calls (`Biz.Check/Add/Test`) pass access control and are
reported to two sender goroutines, one for logs and one for statistics; each
sends every report to all streams that clients have opened (`Admin.Logging`,
`Admin.Statistics`).

- **State**: `service.listeners` and `service.statListeners`, both guarded by one
  `sync.RWMutex`; unbuffered channels `incomingLogsCh`, `incomingStatCh`,
  `closeListenersCh`, `closeStatListenersCh`; per stream a message channel and a
  close channel; the parsed ACL; the grpc server.
- **Goroutines**: one per RPC, `logsSender`, `statsSender`, one that waits for
  `ctx.Done()` and stops everything, one in `srv.Serve`.
- **Interaction**: rendezvous on channels, made in part while the read lock is
  held; registration under the write lock; a pending writer holds back new readers.
- **Hard**: the order of registration, notices and messages; circular waits
  between lock and channels; shutdown at any moment; clients that do not read;
  intervals that are zero or wrap; counters that are replaced after they were sent.
- **Correct means**: every admitted call is logged and counted exactly once
  before its handler runs; each stream gets all messages from its registration on,
  in order; nobody iterates over a changing list; calls are answered and streams
  registered as long as the service is not stopped; a message is in exactly one
  report of a statistics stream; a stop closes all listeners,
  ends all goroutines and frees the port (not true of the code, see section 9).

### Signer, `part_1/hw2_signer` (modelled)

`ExecutePipeline` connects jobs by unbuffered channels, closes each output when
its job returns and waits for all.

- **State**: the channels, the mutex of `SingleHash`, the global
  `dataSignerOverheat`, the array of parts of each `MultiHash` worker, the array of
  `CombineResults`.
- **Goroutines**: one per job, one per value in `SingleHash` and in `MultiHash`, one
  for a crc32 per value, six for the parts of a value.
- **Hard**: a send on a closed channel panics; two md5 at once overheat; the
  workers end in any order; a stage that stops reading blocks all before it.
- **Correct means**: each input is hashed once, the one result does not depend on
  the schedule, values flow before the source ends, and the pipeline returns when
  all goroutines it started have ended.

### API registry, `part_2/hw5_codegen` (modelled)

`MyApi` keeps users and `nextID` under an RWMutex; `api_handlers.go` is the
validation layer that `handlers_gen/codegen.go` generates from struct tags.

- **State**: the map `users`, `nextID`, the mutex.
- **Goroutines**: one per HTTP request.
- **Hard**: check and insert in one critical section; readers beside a writer;
  the bounds of the generated checks and their order; an early return in the section.
- **Correct means**: `Create` and `Profile` are atomic, logins and ids unique,
  ids without gaps, the map is reached exactly by requests that fulfil the tags,
  every request is answered.

### Database explorer, `part_2/hw6_db_explorer` (modelled)

HTTP CRUD over the tables of any MySQL schema, whose columns are read at start.

- **State**: the table metadata (constant after `initContext`) and the database.
- **Goroutines**: one per HTTP request; each runs at most one SQL statement.
- **Hard**: validation against nullable columns and keys; an update whose columns
  and values are collected by two ranges over one map; ignored decode errors;
  paths with too few parts; concurrent requests to one row.
- **Correct means**: rows conform to the schema; a key is given once and its
  removal reported once; concurrent updates do not undo each other; values are
  written where they were sent (not true of the code, see section 9); requests
  that fit the tables succeed.

### Handler generator, `part_2/hw5_codegen/handlers_gen` (modelled)

`codegen.go` reads a Go file and writes `ServeHTTP` and one wrapper per marked method.

- **State**: the maps of handlers and of struct fields, the flags that decide on
  the imports; afterwards the written code.
- **Operations**: the scan of each declaration, the join of both maps, the two
  templates; a request to the written code.
- **Hard**: a struct may stand before or after the method that takes it; two
  receivers may have methods and URLs of the same name; tags combine.
- **Correct means**: of a file whose tags, types and names the templates support, the
  code compiles and does with a request what the tags say.

### Search client and test server, `part_1/hw4_test_coverage` (modelled)

`FindUsers` asks for one record more than the page to learn whether there is a next
page; `SearchServerHandler` of the tests filters, sorts and cuts.

- **State**: one call: request, reply, response. No state between calls.
- **Hard**: offsets and limits at the ends; the cap of 25 and the extra record;
  answers that are late, cut, or of another server.
- **Correct means**: the caller gets users of the page asked for, in order, from its
  start, and is told of a next page that is there.

### User search, `part_1/hw3_bench` (modelled)

`FastSearch` must print what `SlowSearch` prints.

- **State**: the pool of users (kept between searches), the cache of browsers, the
  counter, the users found.
- **Hard**: a pooled user keeps what the next line lacks and goes back to the pool
  before it is read; a browser that was seen before; the last line.
- **Correct means**: the same users and the same number of browsers, of the lines that
  `FastSearch` reads.

### Map to struct, `part_2/hw8_i2s`, and directory tree, `part_1/hw1_tree` (modelled)

Both are recursive and sequential.

- **State**: the calls under way. `i2s`: of each loop over a map or a slice, what is
  left and the value made so far, which is set in the outer one at the end. `dirTree`:
  the tree read, of each `printDir` the nodes left and its slice of prefixes, the
  arrays behind these slices, what is printed.
- **Hard**: `i2s` goes through maps in random order, sets fields of `out` at once, and
  an error or a panic of reflection may come in the middle; the slices of prefixes of
  nested calls share arrays.
- **Correct means**: `i2s` copies the data if it has the shape of `out`, and otherwise
  leaves no field half written; `dirTree` prints the tree.

### Not modelled

The generated gRPC stubs (transport), `hw5_codegen/example` (an example of the
lecture, unrelated to the API), the encoder easyjson wrote for hw3 (nothing calls
it), the race that two `FastSearch` at the same time would have on a pooled user
(nothing in the repository runs two; one that did would have undefined results),
data files and assets.

## 2. Modules and plan

| module | what it is | extends or implements |
|---|---|---|
| `Microservice` | the server, one action per lock or channel operation | implements `LogBroadcast` twice (log side, statistics side) |
| `LogBroadcast` | one log that subscribers read in order | |
| `Signer` | the pipeline, one action per channel, mutex or array operation | implements `HashFarm` |
| `HashFarm` | every input hashed once, one sorted result | |
| `UserApi` | generated handlers and `MyApi`, one action per step on the mutex, the map or `nextID` | implements `AtomicRegistry` |
| `AtomicRegistry` | create and lookup, each at one instant between call and return | |
| `DbExplorer` | handlers, statements and the tables of the database | |
| `Statistics` | counters, ticker and reports inside one `Statistics` handler | |
| `UserSearch` | `FastSearch`, one action per line and browser, and what `SlowSearch` prints, if it does not panic | |
| `SearchPaging` | one call of `FindUsers`, the server, and what lies between | |
| `HandlersGen` | the scan, what is written, and what that does with a request | |
| `Paths` | paths, and where one is inside another | |
| `I2s` | a call as a stack of loops over maps and slices, one action per key or element | extends `Paths` |
| `DirTree` | `readDir`, and `printDir` with its stack of calls and its arrays | extends `Paths` |
| `MC_*` | constants for TLC | extends the module it is named after |
| `MC_Exercises` | constants for the six modules above and their choice | extends the six |
| `*Proofs` | theorems about the module it is named after | extends it and `TLAPS` |
| `SearchesProofs` | theorems about `UserSearch` and `SearchPaging`, the programs of hw3 and hw4 | extends both and `TLAPS` |
| `TreesProofs` | theorems about `DirTree` and `I2s`, whose data are trees | extends both and `TLAPS` |

The components are separate programs, so no module composes two of them; what
interacts inside one program is in one module, and what it promises in another.
`Statistics` is the inside of one stream of `Microservice`, in a module of its own
since neither looks at the other's state. The order was: the concurrent core
(`Microservice`, its abstraction and its proofs), then `Signer`, `UserApi` and
`DbExplorer`, then the counters and the sequential programs, then the proofs of
section 10, whose end says what they leave to TLC.

## 3. The model of the microservice

`Microservice.tla` has one variable per piece of state and one per kind of
program counter. Both sides of the server have the same code shape, so a *hub*
(`"log"` or `"stat"`) names a sender, its two channels and its list.

| TLA+ | code |
|---|---|
| `call[c]`: idle, log, stat, handler, done / denied | `unaryInterceptor`: access control, blocked on `incomingLogsCh`, on `incomingStatCh`, in the handler |
| `stream[s]`: rlock, notify, lock, locking, select, sending, returned | `streamInterceptor`, `addListener`/`addStatListener`, `Logging`/`Statistics` |
| `sender[h]`: select, rlock, send, closeRLock, close, done | `logsSender`, `statsSender` |
| `stop`: running, closeLog, closeStat, stopServer, stopped | goroutine at `service.go:79` |
| `srv` | grpc server and goroutine at `service.go:91` |
| `readers`, `writer` | `sync.RWMutex`: `writer` is set when `Lock()` is called and blocks new readers; the section runs when the readers have left |
| `next[p]`, `last[p]` | the range loop of goroutine `p`: Go evaluates the slice once, so its length is fixed at entry |
| `accepted`, `joined`, `got`, `heard` | history, read by properties only (`accepted` also names the message being sent: its last element) |

A send on an unbuffered channel is one step of sender and receiver (`Accept`,
`Dispatch`, `Notify`, `BeginClose`, `CloseListener`). The body of `Lock()` is one
append and is one step with `Unlock()` (`Register`). `Statistics` selects on a
local channel instead of its listener's, hence `HearsClose`. The ACL is a constant
function from consumers to sets of names split at "/"; parsing its JSON is left out,
and a pattern with three parts and a last "*" admits every method, as in the code.
A disconnected client changes nothing in the server (the error of `Send` is
ignored), so there is no such action; a client that does not read is a
`SendReturns` that is not taken. `srv.Stop()` ends the serving of new RPCs and
waits for nobody (grpc 1.43). A panic ends the process: no action after it. The
ticker may fire at any time; intervals that `time.NewTicker` refuses, and the maps
of `Statistics`, are in `Statistics` (section 7).

**Fairness** (`FairSpec`): weak fairness for a goroutine that can take a lock or
local step; strong fairness for a rendezvous, because `select` picks among ready
cases at random and blocked senders queue; weak fairness for `SendReturns`, i.e.
clients read. None for `Invoke`, `Open`, `Cancel` and `Tick`: nobody has to call.

## 4. The model of the signer

| TLA+ | code |
|---|---|
| `spawned`, `returned` | `ExecutePipeline`: jobs started, and whether the deferred `Wait` is over |
| `job[j]`: new, running, waiting, sending, returned, closed, done | `jobWorker` j with its deferred `close(out)` and `Done`; waiting is the `wg.Wait()` of `SingleHash` and `MultiHash` |
| `mu`, `overheat`, `md5[c]` | the mutex of `SingleHash`, `OverheatLock`, `OverheatUnlock` and `DataSignerMd5` of `common.go` |
| `single[k]`, `helper[k]` | `singleHashWorker` of the k-th value and its `crc32Parallel` |
| `multi[k]`, `part[k][i]`, `arr`, `res` | `multiHashWorker`, its six goroutines, the array they write and the joined string |
| `array`, `received` | `CombineResults` and the sink of the test |
| `order` | history: the order in which `CombineResults` received the values |

A value is named by its place in the input, so two equal values have two workers.
A send on a channel is a joint step of sender and receiver (`SourceSends`, `Join`,
`SingleSends`, `MultiSends`, `CombineSends`). Strings are opaque: `Itoa`, `Concat`,
`Md5`, `Crc32` and `Joined` (`strings.Join`) are constants, and so is their order
`Before`, a strict total order on the hashes that occur (`OrderAssumption`).
`sort.Strings` is any rearrangement in which no string is behind a larger one
(`Sortings`): that there is only one is proved, not built in.
`Rivals` are callers of `DataSignerMd5` outside the pipeline: `dataSignerOverheat`
is global, the mutex is not. `TH` is 6 in the code and a parameter here.

**Fairness**: weak fairness per goroutine, none for the source, which may pause for
ever, and none for the first step of a rival. A rival calls once, so the sleep in
`OverheatLock` ends.

## 5. The model of the API registry

| TLA+ | code |
|---|---|
| `Receive`: `ServeHTTP`, `profile`, `create` | the generated handlers up to the first lock: routing, method, authorization, validation |
| `Checks`, `Rules` | the checks of a create handler in their order, with the constants the generator wrote |
| `Lock`, `Enter`, `Exist`, `TakeId`, `Insert`, `Unlock` | `Create` from `mu.Lock()` to the deferred `Unlock` and the answer |
| `RLock`, `Lookup`, `RUnlock` | `Profile` |
| `pc[r] = "answered"` / `"done"` | answered before the first lock / after the last |
| `readers`, `writer` | `sync.RWMutex`, as in section 3 |

Up to its first lock a handler depends on its request only, so that part is one
step. Form values are abstract: a login has a length, a name a lower-case form, an
age is an integer or not a number. `nextID` is a natural number; the wrap at
2^64 creates is left out. `OtherApi` has no state and is in the model for its
validation and routing only.

`AtomicRegistry` states linearizability: an operation is called, takes effect at
one instant, and returns. The refinement maps a request that reaches a lock to an
operation, `Insert`, `Exist` and `Lookup` to the instants.

**Fairness**: weak fairness for a goroutine that can move; strong fairness for
`Lock` and `RLock`, since `sync.RWMutex` lets nobody wait for ever on a lock that
is released again and again.

## 6. The model of the database explorer

| TLA+ | code |
|---|---|
| `FieldOrdered`, `Id`, `Type`, `Required` | `TableInfo`, `FieldInfo`, as `initContext` reads them |
| `Receive`: `getHandler`, `deleteHandler`, `postHandler`, `putHandler` | the handlers of these names up to their statement |
| `Invalid`, `validateField` | `validateInputParameters`, `validateField` |
| `Execute`: `getRows`, `getRow`, `insertRow`, `updateRow`, `deleteRow` | the functions of these names and the answer that follows |
| `Orders`, `Updated` | `prepareUpdateQuery` and `prepareUpdateParameters`: two ranges over one map, in any two orders |
| `Scanned`, `transformRow` | `prepareRow`, `Scan`, `transformRow`: a column of an unknown type has no target |
| `Aborted` | a handler that panicked (nil error, missing path part); `net/http` recovers, the others go on |
| `rows`, `nextKey` | the database |

MySQL is external, and modelled by what the statements of the code do in InnoDB and
strict mode: a statement is atomic; `Put` and `Stored` say what a column makes of a
parameter, and which ones it rejects; an `INSERT` takes the next AUTO_INCREMENT
number for a NULL key; `LIMIT` and `OFFSET` cut the rows in the order of the key;
an `UPDATE` or `DELETE` with a key that is no number fails or matches nothing.
`Decode` checks the syntax before it stores, so a body that is no JSON object
leaves an empty map.

Assumptions on schema and requests (`DbAssumption`): one AUTO_INCREMENT integer key
per table; a column can hold the default the code has for its type; a name in a
body is a column, or no column at all (`Unknown`), not another spelling of one.

There is no liveness property: a handler waits for nobody.

## 7. The models of the statistics and of the sequential programs

| TLA+ | code |
|---|---|
| `Statistics`: `StatOpen`, `Duration` | `time.NewTicker(time.Second * time.Duration(...))`, in two's complement; a period that is not positive panics, and gRPC lets that end the process |
| `Fire`, `Tick`, `Receive`, `SendReturns` | the channel of the ticker, which holds one tick; the cases of the select, with `c`, `m` and `statEvent`; `srv.Send` and the new maps. They are `Tick`, `Consume` and `SendReturns` of `Microservice` |
| `UserSearch`: `FastSearch`, `ReadLine`, `NextBrowser`, `EndOfUser`, `Finish` | `FastSearch` up to its loop; an iteration up to the inner loop; one browser; the rest of the iteration; the end |
| `Unmarshal`, `Decodes` | the decoder of easyjson: into a used `User`, and what it rejects |
| `SlowSearch`, `Split`, `SlowPanics`, `SlowFound`, `SeenBrowsers` | `SlowSearch` as a function of the file: the lines it makes of it, among them the empty one behind a final newline; the lines that end it with a panic; the users and browsers |
| `SlowText`, `FastText` | what both print around the users |
| `SearchPaging`: `FindUsers`, `Refuse`, `SearchServerHandler`, `FileFails` | the call up to `client.Do`; the server's answers |
| `OtherServer`, `NoAnswer`, `BodyCut`, `ReceiveReply` | the servers of other tests; a timeout or another error; a body that ends early; the rest of the call |
| `HandlersGen`: `genStruct`, `genFunction`, `parseStruct`, `Write` | the functions of these names; the join and the templates, with `Compiles` for the compiler |
| `InOrder`, `Noted`, `AppendAt` | `append` in a loop over what a condition selects; the maps of what was noted |
| `ServeHTTP`, `AnswerTo`, `Wrapper`, `FirstFailed`, `Value` | the text of the templates |
| `I2s`: `CallI2s`, `Begin` | a call of `i2s` from outside, up to the loop of `processMap` or `processSlice` |
| `Descend`, `Ascend` | the start and the end of an inner loop: `i2s` for a map in a map or for an element, and the slice loop of `processMap` |
| `SetScalar`, `PassOver`, `Fail`, `Succeed` | `SetInt`, `SetString`, `SetBool`; an element that is no map or slice; an error or a panic, which leaves all the calls; the end |
| `Begins`, `BeginsField` | the checks of `i2s`, `processSlice` and `processMap`; the switch of `processMap` |
| `DirTree`: `readDir`, `PrintFile`, `PrintDirectory`, `AppendTo` | the functions of these names; `append` to a slice that may share its array |

Abstractions. Emails are split at "@"; the pool holds the last user or none, since
the garbage collector may empty it. Data, types, values and directories are
functions of paths, so that they may be nested to any depth without recursion; a value
of `I2s` holds what was set, and what is not in it is zero. A user of the dataset has the set of the queries
that find it; names are numbers, for they are compared only. `sort.Slice` is any
order that the comparison allows. Field names of the generator are in lower case, as
everything generated of them; a field has one name (none in a tagged struct of the
repository is embedded or shares its declaration), and an enumeration is the set of
its values, since it is only looked up in. That no type and no method is declared
twice, and that the struct a marked method takes is in the file, is what the Go
compiler asks of the file read (`SourcesAssumption`). So are, in prose beside it, that a
marked method takes a context and a struct, as the template calls it, that the numbers
in tags fit an int, that `ApiError` is declared, and that what the generator declares is
not declared elsewhere. A variable of a wrapper must not be called what the wrapper uses
below it: names that every wrapper uses are `Taken`, and a file with one of them gives
code that does not compile; those that only some wrappers use (`SometimesTaken`) are
left out of the files. Of types, "int" and those a string may be assigned to
(`TextTypes`) compile. Texts of requests are opaque, with `Atoi`, `Length` and
`Lower` as constants. Numbers of JSON are counted in tenths, so that they may have
a fraction; the keys of a map are taken in any order, the elements of a slice in
theirs. How much `append` allocates is left open up to `MaxSpare`, since the
language does. The file system does not change while `dirTree` reads it; file sizes
are left out. Bodies, handles and files are closed where the code does so, without
effect on the models.

There is no liveness property here: the programs are loops over finite data, and
clients owe `Statistics` nothing.

## 8. Runs

`CHECK_DEADLOCK FALSE` where the system may have nothing left to do (the requests
of an instance have all been made); goroutines that stay blocked are the subject of
explicit properties. The signer ends, so `sg_safety` and `sg_flow` check deadlock.
The inductive invariants of section 10 are no properties of a run: they were checked
by TLC on these instances before they were proved.

| run | instance | shows |
|---|---|---|
| `ms_safety` | 2 admitted calls and a refused one, 2 loggers and a refused one, cancellation at any time | types; lists do not change under a loop; delivery in order without gaps; notices; logged and counted once; closing order; refused calls leave no trace; the log hub implements `LogBroadcast` |
| `ms_serving` | 1 call, 2 loggers | calls are answered and streams registered until a cancellation; what is accepted arrives |
| `ms_shutdown` | 1 call, 1 logger, 2 statistics streams | the statistics hub implements `LogBroadcast`; a shutdown without opening streams reaches `srv.Stop()` |
| `sg_safety` | inputs of 0 to 3 values, one with a repetition, 2 parts | one md5 at a time; no send on a closed channel; complete hashes; one result for all schedules; nothing left at the end; `HashFarm` |
| `sg_flow` | 2 values, 1 part, 1 rival | values flow while the source pauses; the pipeline drains and returns |
| `api_registry` | 3 requests: two create or look up, the third does so or is anything else | map safety, ids, validation, `AtomicRegistry`, every request answered |
| `db_crud` | 3 requests, two of them to the same rows, the third one also on each side of every check; two tables | conformance, keys, origin of values, records shown, success of good requests, no lost update |
| `exercises` | each of the six modules of section 7 by itself | messages reported once; the fast search prints what the slow one prints; the page asked for; handlers follow the tags; data is copied or the fields are kept; the tree is drawn |

Bounds. Ids of calls, streams and requests are used once, which bounds every
history; no other bound is imposed. Two streams of one hub are the least for
which list order, notices and a logger that joins between two sends matter; two
calls the least for which message order and a repetition can go wrong. Three values
give the workers of the signer every relative order, two parts are enough for one
to be late; a repeated value shows that equal hashes are not lost. Three requests
are two that conflict and one that observes them, or that uses a number or a row
in between. The programs of `exercises` share nothing, so one variable chooses which
of them a behaviour runs, and their state spaces add up. Its instances: two
messages, two ticks, and intervals of zero, of one that fits, of one that wraps to a
negative and of one that wraps to a positive period, in a `Duration` of 8 bits with
10 for a second (the arithmetic depends on the width only through the wrap); files
of up to two lines, each regular or spoilt in one way, searched one after the
other; datasets of up to three users and a cap of 2, so that the page, the next
page and the cap can each be at the end, ordered by a known, an unknown or no field; a file like `api.go`, the same file backwards, and small files with each
tag, type and kind of name, supported or not; calls of `i2s` with the structs of its tests and data with
every combination of right, wrong, null and unknown values in two fields, nested once;
directories three deep with names that are last or not on each level. The symmetry of `ms_safety` permutes the two loggers; it has safety
properties only.

## 9. Where the tests and the code disagree

| run | property | what happens |
|---|---|---|
| `ms_port` | `PortFreed` | a logger that connects while the first one is being closed keeps the read lock, sending to a handler that has returned; the next `Lock()` blocks `statsSender`; `closeStatListenersCh` is never received and `srv.Stop()` never called (2 loggers, 1 statistics stream, 1 call) |
| `ms_leak` | `NoGoroutineLeft` | `Statistics` waits on its local `closeCh`; its handler and `statsSender` stay for ever, the latter with the read lock (1 statistics stream) |
| `ms_panic` | `NeverPanics` | cancellation before the Serve goroutine runs: `Serve` returns `ErrServerStopped`, the goroutine panics |
| `db_pairing` | `UpdateWritesWhatWasSent` | an update of two columns writes each value to the other column, and is answered as a success |

`TestServerStartStop`, `TestServerLeak` and `TestACL` stop a server without an open
stream or a call in flight, and the shutdown works then (`StopsIfNoStreamIsOpening`), if
`Serve` has begun in the 10 ms that the first two wait. `TestLogging`, `TestStat` and
`TestWorkAfterDisconnect` cancel with streams still open, and look neither at
goroutines nor, themselves, at the port. A call blocked on `incomingLogsCh` when
`logsSender` ends stays for ever, too. The test of the explorer posts two fields
and passes whenever the two ranges happen to agree.

Other disagreements were found while modelling and have no run of their own; the
models behave as the code does, and the preconditions of the properties name them.

- `hw3_bench`: `SlowSearch` panics at an empty line (common.go:38-41), and `Split` makes
  one of what follows a final newline and of an empty file: it prints nothing of any file
  that `FastSearch` reads to its end. It panics too at a line that is neither an object
  nor null, and when the email of a user to be printed is no string. `FastSearch` drops a
  last line that has no newline, and stops at a line of more than 4096 bytes; a line that
  lacks a field shows the value of an earlier line; an email without "@" panics, and what
  follows a second one is lost; a name, an email or a browser that is no string panics,
  where the other search may go on; if nobody is found, the two print a different number
  of newlines.
  `data/users.txt` has 1000 lines and no final newline, so that `SlowSearch` reads it all;
  the last line, which `FastSearch` leaves out, holds nothing to print, and `TestSearch`
  passes. `FastPrintsWhatSlowPrints` says what is true: the two agree about the file cut
  to the lines that `FastSearch` reads, if these are `Regular`, and about the whole file
  if `SlowSearch` gets through it and the other lines add nothing (`RestAddsNothing`).
- `hw4_test_coverage`: the server cuts `users[Offset:Limit]` where
  `users[Offset:Offset+Limit]` is meant: pages behind the first are short, empty or
  out of range (`Reachable`). An empty `order_field` is refused, where readme.md:17 asks
  for the order by `Name`; any other unknown one is sorted by `Id`, where readme.md:17
  asks for an error. `PageAskedFor` speaks of the three fields on which both agree
  (`Sortable`). `OrderByDesc` is -1 according to the client, and the
  server sorts it ascending. The message the client expects for a bad order field is
  one the server never sends. The client overlooks the error of `http.NewRequest`
  (client.go:90) and would panic at line 91 if its `URL` did not parse; the model has
  `URL`s that do.
- `MyApi`: if the parameter `full_name` is absent, the name is taken from a parameter
  `name`, in lower case, which hw5.md:25 does not say; `ValidationFollowsTheTags` leaves
  the names of such requests open (`NamedOnce`).
- `hw6_db_explorer`: hw6.md:28 says that unknown fields are ignored, but a POST with one
  is answered with 500; `GoodRequestsSucceed` speaks of posts of one known column. The
  error of `Decode` is ignored (lines 317 and 351), where hw6.md:26 asks for a 500 at any
  error: a body that is no JSON object counts as an empty one.
- `handlers_gen`: a parameter that `paramname` names falls back to the one with the
  field's own name, in lower case; a default works only beside an enumeration; an `int`
  with `required`, `enum` or `paramname`, two enumerations in one struct, a method in
  camel case, a field without a tag beside one that has a tag, or a file whose tags need
  an import that no POST handler uses give code that does not compile. Neither does it if
  a tagged field is of another type than `int` and those a string may be assigned to, if the
  name of a field, of the struct or of the result, in lower case, is a keyword, is used
  by the wrapper (`Taken`) or is one of the others, if a method is called as a
  keyword is in lower case, or if the first result is no pointer. `max` on a string is
  checked against its length, though hw5.md:29 has it for `int` only; the property leaves
  it out. A tag on a field whose type is no
  identifier ends the generator; a handler that is not for POST checks emptiness
  alone; a missing value is always reported as that of "login". `Supported` states
  what is left.
- `hw8_i2s`: scalars in a slice are left at zero without an error, fractions are cut
  off, an unknown key and null panic, an empty map is an error.

## 10. Proofs

Every theorem holds for all values of the constants that the assumptions named with
its module admit, and each of these modules follows the same argument: the
inductive invariant (`IInv`, or where a name is given below, that one) holds
initially and is kept by every action (one lemma or step per action); invariants
follow from it; a refinement maps each action to a step of the abstract module or to
a stutter, with `IInv` for the facts it needs.

- **`MicroserviceProofs`** (`RpcAssumption`: ids of different kinds differ; any
  metadata, any ACL): `TypeCorrectness`, `ListStability`, `Delivery`,
  `CountingOnce`, `LogHubRefinement`, `StatHubRefinement`, `Notices`, `ClosingOrder`,
  `Refusal`. `DeliveredInOrder` counts
  what each list position has received, so a step of `Dispatch` must know that its
  index is inside the list (`ListStableWhileRead`, `CountsFromOne`), that a stream
  stands in one place of one list (`Lists`) and that a message is there to be sent
  (`SendersHaveMessages`); `Register` that nobody iterates (`Locks`) and that the
  newcomer has received nothing (`OnlyRegisteredReceive`). The refinement maps
  `Accept`, `Dispatch` and `Register` to `Publish`, `Read` and `Subscribe`.
  `Notices`, from `NoticesIInv`: an interceptor's loop went over the list as it was
  under the read lock (`LoopsEndWithinLists`), lists only grow and only at their end,
  and nobody hears of a stream before being registered (`OnlyRegisteredHear`).
  `ClosingOrder`, from `ClosingIInv`: the sender that closes a list holds the read lock,
  so that nobody registers in front of or behind the place it has reached. `Refusal`,
  from `AccessIInv`: a stream is past access control only if it is allowed, and who is
  heard of is past it; that the code's `Allowed` is what the ACL grants (`Granted`) is a
  lemma. These three are invariants relative to `IInv`, which `Invariance` supplies at
  every step.
- **`SignerProofs`** (`SignerAssumption`: any inputs of bounded length, any number
  of parts, any functions on strings; `OrderAssumption`: different hashes are
  ordered): `TypeCorrectness`, `MutualExclusion`, `NoSendOnClosed`, `HashesComplete`,
  `Drained`, `OneResult`, `FarmRefinement`. `Handover` ties
  the goroutines of one value to each other: a part is written once it is done, a
  value is in `MultiHash` once it has left `SingleHash`. `Closing` ties the jobs: one
  returns when the one before it has closed its output and its workers are done, so
  that nobody is left to send. `Md5UnderMutex` ties md5 to the mutex, `Results` the
  array to what has arrived. `OneResult`: what has arrived is a rearrangement of the
  hashes of the input, hence so is the sorted array, and two sorted rearrangements
  are equal, since where one had the smaller string, all its strings up to there would have
  to be in front of that place in the other (the pigeonhole principle of the library).
- **`UserApiProofs`** (`UserApiAssumption`: any requests, logins and names):
  `TypeCorrectness`, `MapSafety`, `Numbering`, `Validation`, `RegistryRefinement`.
  `Locks` reads the mutex off the program counters, so that a writer is alone;
  `Fresh` carries what `Exist` and `TakeId` found out to `Insert`; `Checked` and
  `Answers` carry the validation to the map and to the answer; `Origin` names the
  request each user stems from. What `Validation` says of a name holds for requests in
  which one parameter gives it (`NamedOnce`, section 9).
- **`DbExplorerProofs`** (`DbAssumption`: any schema, any requests, any
  conversions): `TypeCorrectness`, `Conformance`, `Accounting`, `NothingInvented`,
  `NoLostUpdate`, `GoodRequests`, `RecordsStored`. `Validated` says that only what passed validation
  reaches the statement, which keeps the key out of an update under any pairing of columns and
  values; `GivenAreOld` that the next key is larger than all that were ever given.
  `GoodRequests` is an invariant relative to `IInv`: validation lets what fits through,
  an insert of it finds a new key and a default for what is missing, and with a single
  column there is only one pairing of columns and values. `RecordsStored` too: what a
  page cuts out of a scan are rows of the table, which conform and stem from requests at
  that moment, and what was given or written stays so.
- **`StatisticsProofs`** (`StatisticsAssumption`: any interval and width, any
  bounds): `Accounting`, from `StatIInv`: what is being sent is what the maps still hold,
  so that replacing them afterwards neither loses nor repeats a message. The step of
  `Receive` rests on a lemma about the cardinality of a set of positions that one
  more position joins or does not.
- **`SearchesProofs`** (`UserSearchAssumption`: any browsers, any files of any
  length): `SameResult`, from `SearchIInv`: `SoFar` ties the cache, the counter and
  the users found to the lines that are done and the browsers seen in the line at
  hand, `LookedAt` says that the user of the pool is the line, and what both flags mean.
  From there to `SlowSearch`: the cut file has the lines read and nothing else
  (`SameLines`), none of which makes it panic (`RegularPrints`), so that it prints what
  `SoFar` has (`SlowOfCut`); lines that add nothing change neither the users nor the set
  of browsers (`SlowOfWhole`).
  (`SearchPagingAssumption`: any datasets, searches, caps and answers of other
  servers): `RightPage`, from `PagingIInv`: a call under way has passed the checks and
  asked for one record more than the capped limit (`CallUnderWay`), and every answer of
  `SearchServerHandler` has its cause, a status 200 being a page of some right order
  (`OwnAnswer`). The rest is what cutting a sequence twice gives. A search may
  have any string as its order field; the conclusion is about those of `Sortable`.
- **`HandlersGenProofs`** (`SourcesAssumption`, `TextAssumption`: any files that Go
  takes, within what section 7 says of these assumptions, any requests, any functions on texts that leave the empty one empty):
  `TagsFollowed`, from `GenIInv`: `Srv` has the marked methods of each receiver read so
  far, in the order of the file (`MethodsRead`); `Validator` has all fields of each
  fully tagged struct read so far, as `parseStruct` makes them (`StructsRead`); the
  flags of the imports have a cause in what was read; "broken" is reached only if what
  was written does not compile; an answer is `AnswerTo` its request. The rest is about
  one request. Of the items of a supported tag some exclude others (`FieldKinds`);
  for such a field, the template reports a failed check if and only if a rule of the
  tag is broken, and then one of the broken ones (`PostChecks`, `OtherChecks`); and the
  first field that fails is the first that breaks a rule (`FirstOf`, since the naturals
  are well-founded).

- **`TreesProofs`**: both programs take nested data, and the proofs follow the stack
  of calls, so that nothing rests on induction over the data.

  (`DirTreeAssumption`: any finite directories, any sizes that `append` allocates):
  `TreeDrawn`, from `TreeIInv`: the nodes of a call are the last ones of a directory,
  in order (`Siblings`); a call comes from a node that its caller has left (`Nested`);
  what no call leads to any more (`Left` is what they lead to) is printed, on its own
  lines, and comes before the rest (`DrawnSoFar`). A line is right if the slice of its
  call holds the prefixes of its directory (`Prefixed`), although `append` writes into
  arrays that callers share. It does not disturb them, since it writes behind what the
  slice of the call holds, and the slices of its callers are shorter, their nodes being
  less deep (`Nested`, `Slices`). That `sort.Slice` gives each entry of a directory once,
  in order (`ByNameSorts`), is a lemma: the place of an entry is the number of smaller ones.

  (`I2sAssumption`: any calls whose data is a tree, any types in which a slice has
  elements): `ValuesCopied`, from `i2sIInv`: each loop is at a part of what the one
  around it goes through (`Stacked`), and its value is `Filled` by the parts it is
  through with, each of which conforms (`CopiedSoFar`). The copy of one more part adds
  just this part (`PutFilled`), since parts beside each other hold nothing in common
  (`PartsApart`); a loop that is through with everything has the copy (`FilledWhole`),
  which the outer one sets. At an error, `out` is the outermost loop's value so far, and
  each of its fields is the copy or what was there (`PartOfFilled`).

Every invariant, every action property and every refinement that a passing run checks is
proved. Only model-checked are the six liveness properties (`ServedUntilCancelled`,
`LogHubDelivers`, `StopsIfNoStreamIsOpening`, `FreeFlow`, `DrainsAfterTheSource`,
`EveryRequestAnswered`): temporal reasoning about fairness and `ENABLED` is out of the
prover's reach.
