# Verification of snmp-proxy

snmp-proxy is a single Go binary with two jobs. It answers HTTP queries by
polling SNMP devices (`POST /api/v1/query`), and, if traps are enabled, it
receives SNMP traps and informs over UDP and POSTs them as JSON to webhooks
chosen by a routing table. This directory holds TLA+ models of all its parts,
TLC configurations that check them on small instances, and proofs of the
safety properties for every instance.

Paths below are relative to `src/`; `gateway/` stands for `internal/gateway/`.

## 1. The system

| Component | Code | State | Operations | Modules |
|---|---|---|---|---|
| Trap routing table | `gateway/traps.go:24-124` | sorted routes, default target; immutable after start | load (validate, normalise, sort), match | `TrapRouter` |
| Trap payload | `gateway/traps.go:126-136, 294-326, 381-452`, `executor.go:185-213` | the reader's buffer, payloads in the channel | extract the trap OID, build and encode the payload | `TrapPayload` |
| Trap service | `gateway/traps.go:138-187, 231-379, 454-519` | UDP socket, bounded channel of jobs, `readDone`, wait group, cancellable context | start, read loop, handle packet, answer informs, workers with retries, close | `TrapService`, `TrapDelivery` |
| Trap decoder | `gateway/traps.go:189-229` | gosnmp table of v3 users | construct | `V3Credentials` |
| Query execution | `gateway/server.go:108-146`, `executor.go` | per request: semaphore, wait group, slots of the response; per target: session socket, watcher goroutine | run targets in parallel, run operations in order, cancel | `QueryExecution` |
| Statistics | `gateway/stats.go` | counters under one mutex | record (per event), snapshot, exposition | with their users, and `Metrics` |
| Query pipeline and validation | `gateway/server.go:70-107`, `validation.go` | none | decode, limit, validate, fill in defaults, make the SNMP client | `QueryValidation`, `QueryPipeline` |
| HTTP surface | `gateway/server.go` | none | routes, basic auth, request IDs, health, version, metrics | `QueryPipeline`, `Metrics` |
| Configuration | `gateway/config.go` | none after start | defaults, environment, flags, validate | `Config` |
| TLS bootstrap | `gateway/tls.go` | two files, shared by processes | check or create a certificate pair | `TLSMaterial` |
| Process lifecycle | `cmd/snmp-proxy/main.go` | server, trap service, signal channel, deadline | start, wait, shut down | `ProcessLifecycle`, `Process` |

### Who talks to whom

`main` loads the configuration, sees to the certificate pair, builds the trap
service (which reads the route and users files) and runs the HTTP server in a
goroutine. A signal makes it shut down the server and then the trap service,
both with one deadline.

The trap service has three kinds of goroutine. The *reader* decodes a datagram,
decides on it, puts a job on the channel with a non-blocking send, and answers
an inform after that. *Workers* range over the channel and POST each job, with
an exponential backoff between tries. *Close*, called by `main`, closes the
socket, waits for the reader, closes the channel, waits for everybody or for
its deadline, cancels the workers' context. All of them write Stats under its
mutex, and `/metrics` may read Stats between any two critical sections.

A query runs one goroutine per target. The goroutines compete for the places of
a semaphore made for the request and write their results to slots of a shared
slice without a lock; the wait group is all that orders these writes with the
handler that counts and encodes them. Each SNMP session has a second goroutine
that closes the session's socket when the client disconnects.

### What is hard, and what makes each part correct

- **Trap service.** Channel operations, socket close, channel close, wait group
  and context form one chain during shutdown, and traps keep arriving while it
  begins. Correct means: no send on a closed channel; no trap lost or doubled
  on its way from the reader through the channel to a worker; a shutdown that
  reports success has drained everything; one cut short says so; nothing
  runs after `Close` returned; retries are bounded; an inform is answered only
  when its trap is in safe hands; the counters add up at every moment.
- **Routing table and payload.** The code sorts once and takes the first hit;
  the documents promise "longest prefix wins". A trap is routed by one walk over
  its varbinds and reported by another, and the reader reuses its buffer while
  payloads wait: what is posted must be what was received and routed.
- **Query execution.** Correct means: no more than the configured number of
  sessions; tokens returned on every path; every slot filled, whatever failed
  or was canceled, and none written after the wait; a cancellation cuts each
  target's operations at one point and needs no device timeout to take effect;
  every session closed; statistics that describe the very response sent.
- **Statistics.** Each critical section is a few additions. The difficulty is
  their sum, and that a scrape is written after the lock was released: it must
  still show one moment.
- **HTTP pipeline and validation.** A row of checks, each with a return of its
  own: the status must fit the request, and devices may be asked only if all
  checks passed. What passed must be executable, with no less protection than
  the request asked for.
- **Configuration.** Three sources with a precedence, lists that travel through
  text; accepted configurations must be ones the rest can run with.
- **TLS bootstrap.** Check, then create two files: other processes and crashes
  may come in between.
- **Process lifecycle.** Who may lose work in a shutdown, and is it told.

The full list of hazards, each at its line, is `hazards` in `PROJECT.json`.

## 2. Modules

| Module | What it is |
|---|---|
| `TrapRouter` | the routing table as pure operators: `LoadTrapRouter`, `SliceStable`, `Match` |
| `TrapPayload` | trap OID and payload of a decoded trap, and their way from the buffer to a worker; extends `TrapRouter` |
| `MCTrapRouter` | every small route file and every small query, traps of ten kinds; the reference definition of the right route |
| `TrapService` | reader, channel, workers, `Close` and the trap counters; extends `TrapRouter` |
| `TrapDelivery` | what the service promises, with neither channel nor workers nor counters |
| `MCTrapService` | datagrams and a route file for TLC |
| `TrapService_proofs` | invariants of `TrapService` |
| `TrapDelivery_proofs` | the retry bound, the counters, and that `TrapService` implements `TrapDelivery` |
| `TrapRouting_proofs` | table and match for files of any length; what payloads show |
| `QueryExecution` | handler, target goroutines, watchers, `Stats.Record` |
| `MCQueryExecution`, `QueryExecution_proofs` | small queries for TLC; theorems |
| `V3Credentials`, `V3Credentials_proofs` | SNMP v3 credentials: check, translation, table of trap users; that sessions keep the protection asked for |
| `QueryValidation` | `ValidateQuery` with its defaults, `newGoSNMPClient`; extends `V3Credentials` |
| `QueryPipeline` | one HTTP request through middleware, routes, authentication and checks; extends `QueryValidation` |
| `Metrics` | a scrape of `/metrics` while events are counted |
| `MCHTTPServer`, `HTTPServer_proofs` | composes `QueryPipeline` and `Metrics`, with families of requests; theorems on both |
| `TLSMaterial`, `TLSMaterial_proofs` | the certificate pair under competing and failing processes; theorems |
| `ProcessLifecycle` | `main` from start to exit, composed with `TrapDelivery` |
| `Config` | `LoadConfig` as a function of environment and command line |
| `Process` | `ProcessLifecycle` with the start-up decided by `Config` and `V3Credentials` |
| `MCProcess`, `Process_proofs` | families of starts for TLC; theorems on `ProcessLifecycle` and `Process` |

### TrapRouter

A network is a bit sequence with the form it was written in; an OID is a name
with or without a leading dot; a URL is a member of `HTTPTargets` if
`validateHTTPURL` accepts it. `prefixBits` is what `Mask.Size()` returns, so an
IPv4 network written as `::ffff:a.b.c.d/n` counts 96 bits more, as it does in
Go, while `NetContains` treats it as an IPv4 network, as Go does too.
`SliceStable` states what a stable sort by `Less` returns instead of how; it is
the function `sort.SliceStable` computes. Reading and decoding the JSON
file is left out. `WholeFileOrNothing` says of the result that a file with a bad
route gives no router, and that the routes of any other file are all in
the table, as often as in the file; what is bad is stated by `BadRoutes`, a list
kept apart from `ValidRoute`.

### TrapPayload

`extractTrapOID` and `buildTrapPayload` are functions of a decoded packet. The
first takes the first `snmpTrapOID` varbind, the second lets the last one win,
over the native fields of a v1 trap too; both differences are kept.
`ReportedAsRouted` says that nevertheless route and report agree on
well-formed traps, and that their payload lacks a trap OID only if the trap
names none. Packets that name their trap twice, whose varbind is no OID, or of
version 1 with such a varbind are not `WellFormed`, and there the two walks do
differ (see "Disagreements"); of them the property says that both OIDs are ones
the packet claims, by its varbinds (`NamedClaims`) or its native fields
(`NativeClaims`), or none, and that a v1 trap is always routed by its native
fields. `buffer` is
the array `readLoop` passes to every read: a value of kind "slice" is a
`[]byte` in it, and `convertSinglePDU` copies it into a string. `Receive` is a
turn of `readLoop` for a trap that finds room in the channel, `Post` a worker
that takes a job and encodes it; admission, drops and retries are `TrapService`'s.
`Encode` leaves text as it is: that `json.Marshal` writes U+FFFD for bytes that
are not UTF-8 is not modelled.

### TrapService

| State | Code |
|---|---|
| `conn` | `s.conn`, open or closed |
| `queue`, `queueClosed` | the channel `s.queue` |
| `readDone`, `workerCtxDone` | `s.readDone`, the context canceled by `s.cancel` |
| `readPC`, `packet` | where `readLoop`/`handlePacket` stands, with which datagram |
| `workerPC`, `job`, `attempt` | where each `worker`/`forward` stands, its job and loop counter |
| `closePC`, `closeResult`, `deadlinePassed` | where `Close` stands, what it returned, whether its context expired |
| `stats` | the trap counters of `Stats` |
| `outcome`, `reply`, `posts` | history: what became of each trap, of each inform's answer, how often it was POSTed |

One action is the code between two points where another goroutine can tell the
difference: a channel operation, a system call, a critical section of Stats.
That is why the non-blocking send (`Enqueue`/`QueueFull`) and the counting of
its result (`RecordQueued`/`RecordDropped`) are separate actions, and why
`RecordTrapReceived` belongs to the receipt of the datagram. Decisions
(`Verdict`, `RouteOf`) read data nobody changes and belong to the step that
acts on them. The actions by goroutine:

- reader: `Receive ReadFails CloseReadDone ReaderExits Reject Unrouted Accept
  Enqueue QueueFull RecordQueued RecordDropped Respond`;
- worker: `Take WorkerExits MarshalFails StartPost Answered2xx AnsweredFinal
  PostFails PostRefused TimerFires Canceled`;
- shutdown: `CloseSocket CloseQueue Drained DeadlineHit CloseReturns`, and
  `DeadlinePasses` for the clock.

When both branches of a select are ready (`Drained`/`DeadlineHit`,
`TimerFires`/`Canceled`) either may be taken, as in Go. The answer of the
webhook is a free choice between success, a final status, and a retryable
failure (429, 5xx, network error, client timeout). The goroutine inside `Close`
that turns `wg.Wait` into a channel is the condition `AllExited`.

Abstractions: a datagram is a member of `Packets` with the facts the code tells
apart (does it decode, version, PDU type, community, source, trap OID, can its
payload be encoded). A read error other than a closed socket is logged and the
loop goes on: a stuttering step. Latency sums and logs are left out. Two error
branches are unreachable and have no action: `buildTrapPayload` never returns
an error, and `http.NewRequestWithContext` accepts every URL
`validateHTTPURL` accepted.

### TrapDelivery

The abstract specification: each trap goes from new to received, then to
refused or accepted; an accepted one ends as delivered, failed or abandoned,
the last only after the shutdown deadline cut the drain short; an answer is
given at most once and only to a trap that was accepted; the service stops only
when no trap is open. `TrapService` implements it under the mapping at the end
of that module, and `ProcessLifecycle` is composed with it instead of with
`TrapService`.

### QueryExecution

`pc`, `conn`, `watcher`, `finished`, `out` and `walked` are the locals of the
goroutines of `Server.execute` and `GoSNMPExecutor.Execute`; `results` holds
the slots of the response, `sem` and `wg` the semaphore and the wait group,
`ctxDone` the request's context. Actions: `StartTask WaitEnds RecordStats
Respond` of the handler; `Acquire CanceledWaiting Store Release End` of a
target's goroutine; `ConnectFails Connected SkipCanceled Begin Hangup` of the
executor; `Reply WalkPDU WalkLimit WalkEnds OperationFails` of an operation;
`WatcherCloses WatcherLeaves` of the watcher; `Disconnect` of the client. A
value is reduced to the number of varbinds, an error to the class
`classifyError` tells apart. An operation may succeed even though its socket is
being closed: the reply may have been read already.

### V3Credentials, QueryValidation, QueryPipeline

The path of a request is a function: `Handler` is the mux wrapped in
`requestIDMiddleware`, `query` the handler of `/api/v1/query`, `ValidateQuery`
the checks and the defaults of `validation.go`, `newGoSNMPClient` what
`executor.go` hands to gosnmp. Order is kept where it decides the outcome: the
method is looked at before the content type, and it before the body; each part
of the body may run into the limit; the second value in a body is looked for
before the first is validated. Fields that may be absent are `<<>>` or
`<<value>>`, and `Number` and `Default` tell apart what Go's zero values and
pointers tell apart. `Duration` multiplies in two's complement of `2 * Half`.
`Encode` failing after the status was sent is `writeJSON`. The JSON decoder is
a choice between its outcomes; several messages of one status are one.

The properties compare these functions with a transcription of the tables of
`SPEC.md` in `MCHTTPServer` that uses none of the validators: `BrokenOperation`,
`BrokenCredentials` and `BrokenRules` list what a target may not be, and
`Conditions` which rows of the status table apply. Three points of it do
not come from a table but from the code: a target or user name of blanks
counts as empty, and fields of a security level must be absent below it.
Where the code breaks the tables the exception has a name of its own:

- `TakenAsAbsent`: an explicit `port` or `timeout_ms` of 0 breaks a rule and is
  served like an absent one (`SPEC.md:183, 187`). `StatusFitsRequest` and
  `WorkIffAcceptable` hold but for it.
- `TimeoutKept`: the timeout a gosnmp client gets is the one asked for if it fits
  a Duration; a longer one wraps, into a negative one as well (`timeout_ms` of 20
  in the run, with `Half` = 64 and `Millisecond` = 4). The default is kept but for
  the fraction of a millisecond that is cut off; `http.cfg` has a default of 14,
  so that something is.

Port and retries are compared with what the request asked for or, if it did not,
with 161 and the configured default (`PortKept`, `RetriesKept`).

### Metrics

`RecordQuery` and `RecordForward` are critical sections of other goroutines,
`Snapshot` is `Stats.Snapshot` under the lock, `WriteTotals`, `WriteRoute` and
`Send` write the copy without it. Maps are functions with the keys counted so
far, and a map that was not copied is read through to `stats`: Go's maps are
references, and the mutant makes that visible. `Total`, the sum of counts, is the
number of counted events (`Ticks`), which needs no recursion.

### TLSMaterial

`cert` and `key` are the two files: absent, broken (created and not completely
written, a directory, not a certificate) or whole with the key pair they belong
to. Each process runs `StatCert StatKey` (the two `os.Stat` of
`EnsureTLSMaterial`), then `Load` or `GenerateKey CreateCert WriteCert CreateKey
WriteKey`, then `Listen` (the second read of the files by
`ListenAndServeTLS`). `MayCreate` is `O_EXCL`. `Fault` is a crash or a failed
system call at any point; what was written stays. A process that exited may
start again. `OperatorCleans` removes damaged files while nothing runs; nothing
in the code does.

### Config

All settings in five groups by type; a text is the sequence of its parts
between commas, so that list settings and their joining and splitting are real:
`splitCSV` goes over the parts one by one, as its loop does.
Of a number only the sign is kept, of a duration also whether it has a unit.
`applyEnv`, `FlagDefault` and `applyFlags` make each flag's default from what
the environment left, as `LoadConfig` does; `DefaultPort` is applied after both.

### ProcessLifecycle and Process

`pc` is the place of `main`; `StartStep`, `BeginShutdown`, `ListenerFailed`,
`Poll`, `PollWait` and `CloseReturns` are its steps, beside it run the goroutine of
the listener, requests, the trap service (steps of `TrapDelivery`), the clock
and whoever sends the signal. `Poll`/`PollWait` is the loop of
`http.Server.Shutdown`: look, then wait for the ticker or the context. Before
`signal.NotifyContext` a signal kills the process.

`Process` adds the inputs a process is started with and, by `Decides`, lets the
configuration and the users file decide the start-up steps that
`ProcessLifecycle` leaves open. The inputs are replaced by `Forgotten` once the
start-up has read them: nothing looks at them again, and runs that differ
only in them become one.

## 3. What is checked

| Run | Instance | Properties | What it shows |
|---|---|---|---|
| `router` | all files of up to 3 routes (networks of 0 to 2 bits, IPv4 and IPv6, with and without OID, 3 kinds of bad route), all queries; 10 kinds of trap, channel of 2 | `LongestPrefixWins` `WholeFileOrNothing` `PostedAsReceived` `ReportedAsRouted` | sort-then-first-hit equals the order one reads out of the file; payloads are what was received and say how it was routed |
| `traps` | 5 datagrams of 5 kinds, 2 workers, channel of 1, 1 retry | `TypeOK` `NoSendOnClosedQueue` `Custody` `CountersBalance` `GracefulClose` `CancelOnlyPastDeadline` `QuiescentAfterClose` `RetryBudget` `AnswerAfterHandover` | custody, counters, orderly shutdown |
| `traps_live` | 3 datagrams, the same service, fair | `Delivers` `CloseCompletes` `EveryTrapIsSettled` | implements `TrapDelivery` with its fairness; everything ends |
| `query` | 3 targets, 2 places, 4 operations of all types | `TypeOK` `ConcurrencyBound` `ResponseComplete` `StatsDescribeResponse` `CanceledSuffix` `SessionsClosed` `ResponseStable` | complete, stable, truthfully counted responses |
| `query_live` | 2 targets, 1 place, devices that may be silent | `EveryQueryReturns` `PromptCancellation` | no token is lost; a canceled query needs no timeout |
| `http` | limits of 2, every request of the families of `MCHTTPServer`, 4 counted events | `StatusFitsRequest` `WorkIffAcceptable` `ClientsCanExecute` `SessionsNotWeakened` `OneMoment` `CountersOnlyGrow` | the pipeline against the rules of `SPEC.md`; consistent scrapes |
| `tls` | 2 processes, 3 key pairs, 2 faults | `TypeOK` `EnsuredPairLoads` `DamageHasCause` `RestartsSucceed` | pairs are never mixed or overwritten, restarts succeed |
| `process` | every start of `MCStarts`, 2 traps, 2 requests | `FlagsThenEnvThenDefaults` `AcceptedConfigsServe` `TrapUsersKept` `LossIsReported` `ShutdownEnds` | settings from where they should come; loss is told by the exit status; the process ends |

Four more runs expect a violation; they are described under "Disagreements".

Each property is stated in words above its definition. Every property has a
mutant, an operator next to the definition it replaces (`HasRoom_TooBig`,
`MayExit_Eager`, ...), that breaks it the way a slip in the code would.

### Bounds

- `router`, `MaxRoutes` = 3. The sort compares pairs and `Match` takes a minimum;
  three routes already give every pattern of two routes that tie and one
  that does not, in every order of the file. `QueueSize` = 2: a job waits while
  two later packets overwrite the buffer. The ten traps are the ways the two
  walks over the varbinds can meet: no trap OID, one, two, one as bytes, v1
  with each kind of generic trap, with and without a valid enterprise, and with a
  varbind that repeats it. Traffic runs with one route file, lookups with all.
- `traps`, `QueueSize` = 1, two workers, `Retries` = 1. The channel is empty and
  full within one step; two workers can race for it and for the end; one
  retry gives a first try, a backoff and a last try. Four of the five
  datagrams reach the channel, so that both workers can be busy, the channel
  full and one trap dropped while the reader goes on. A datagram arrives at
  most once: a retransmission is another datagram to this code.
- `query`, three targets on two places: one must wait. Two operations on one
  target: a cancellation can fall between them. `MaxVarbinds` = 1: the limit,
  one less and one more all occur.
- `http`: limits of 2 targets, operations and OIDs, with lists of 0 to 3. A
  family varies one part of a request over all its values and keeps the rest
  usual, since the checks look at the parts one by one; the parts whose checks
  look at each other (version, community, credentials; the fields of the
  credentials; the fields of an operation) vary together. `Millisecond` = 4 and
  `Half` = 64 put sub-millisecond and overflowing timeouts within reach.
  `MaxEvents` = 4 bounds what is counted: two outcomes on two routes, before,
  during and after a scrape, and a second scrape.
- `tls`, two processes: one loses each race. Three pairs: both generate, and a
  third was there before. `MaxFaults` = 2: a writer fails and so does the one that
  follows it, or files are damaged from the start and a fault follows.
- `process`, `MCStarts`: settings are read one by one, so each is varied alone
  over flag and variable, and with another where the code looks at two
  (TLS and listen address, traps and trap address, the two credentials). Users
  files hold one usual user and one of every form. Two traps and two requests:
  one may be done and one open when the deadline passes.
- No state constraint is used anywhere; these state spaces are finite by
  themselves or by the named bounds.

`SYMMETRY` permutes the workers, which the specification never tells apart, in
run `traps` only. `CHECK_DEADLOCK FALSE` appears where the system really stops:
`router` and `router_mapped` (a file that is refused leaves nothing to do),
`http` (a response was sent), `process` and `lifecycle_traps` (the process
exited), `tls` (all processes serve). The other runs check for deadlock.

### Fairness

- `TrapService!FairSpec`: weak fairness of the reader's own steps, of each
  worker and of `Close` once called. Goroutines are scheduled, timers fire,
  and a POST ends because `http.Client` has the timeout `TrapForwardTimeout`,
  which `Config.Validate` requires to be positive. Nothing is assumed of
  arriving datagrams, the call of `Close` or its deadline.
- `QueryExecution!SilentSpec`: goroutines are scheduled, and an operation must
  end only when its socket has been closed under it. That cancellation is prompt
  under this assumption is the point of the watcher goroutine. That operations
  end by themselves (gosnmp has a timeout and bounded retries) is the premise
  `OperationsEnd` of `EveryQueryReturns` and of nothing else. `Connect` comes to
  an end: it resolves a name and opens a UDP socket within the client's timeout,
  and no watcher guards it yet. The client need not disconnect.
- `TLSMaterial!FairSpec`: processes run and are started again when they exited,
  by whatever supervises them. Faults and the operator are not fair, so
  `RestartsSucceed` holds of behaviours in which damage does not last.
- `ProcessLifecycle!FairSpec`: `main` runs, the deadline passes (it is a
  timer), and the trap service settles what it accepted, which is what `Delivers`
  shows of it. Strong fairness is assumed of `PollWait`'s exit: the wait
  is entered again and again while a request lasts, and once the context
  expired its branch of the select is ready each time. Requests need not end.

### Disagreements between code and documents

Four runs check what a document says and TLC finds the code doing otherwise.

- `router_mapped`, `MoreSpecificOverridesBroader`: a route for
  `::ffff:10.0.0.0/104` is ranked with 104 bits, applies to IPv4 senders, and
  so hides routes for `10.1.0.0/16`. `SPEC.md:344` promises that the more
  specific CIDR wins. `LongestPrefixWins` holds because run `router` has no
  network in that form.
- `traps_inform`, `AcceptedInformsAnswered`: an admitted inform without a route
  is counted as unmatched and never answered, so its sender repeats it.
  `SPEC.md:337` has accepted informs answered after routing is attempted.
- `traps_drops`, `DropsAreObservable`: a worker whose backoff is cut short by
  the shutdown deadline drops its job without counter or log line.
  `SPEC.md:685` wants dropped traps observable.
- `lifecycle_traps`, `StopsAcceptingTraps`: while HTTP requests are drained the
  trap service is not yet told to stop and goes on accepting traps; `SPEC.md:460`
  has graceful shutdown stop accepting both.

Others met while modelling follow from single definitions, and the models have
the code's behaviour; no run is needed to see them:

| Code | Does | Document |
|---|---|---|
| `gateway/config.go:133, 242` | an explicit `:8443` without TLS becomes `:8080`; TLS off in the environment and on by flag leaves `:8080` | `SPEC.md:564-573` |
| `gateway/validation.go:53` | an explicit port or timeout of 0 is taken for an absent one | `SPEC.md:183, 187` |
| `gateway/validation.go:54` | a default timeout loses its fraction of a millisecond; one below a millisecond becomes 0 | `SPEC.md:187` |
| `gateway/executor.go:61` | a large `timeout_ms` overflows the Duration, which may become negative | `SPEC.md:187, 447` |
| `gateway/server.go:93` | a body that runs into the limit after its first JSON value gets 400 | `SPEC.md:104` |
| `gateway/server.go:72` | a wrong method gets an empty body, not the error envelope | `SPEC.md:83` |
| `gateway/server.go:194` | a value JSON cannot encode leaves status 200 with an empty body | `SPEC.md:313` |
| `gateway/traps.go:402` | varbinds of a v1 trap replace its native fields in the payload, while it is routed by those fields | `SPEC.md:394` |
| `gateway/traps.go:399, 412` | of two `snmpTrapOID` varbinds the first routes the trap and the last is reported; one that is an octet string is treated differently by the two walks | `SPEC.md:342` |
| `cmd/snmp-proxy/main.go:82` | the expected duration of a query leaves out the rounds targets wait for a place | `SPEC.md:449` |

## 4. What is proved

Every invariant that a passing run checks, and the action property of `query`
(`ResponseStable`), is also a theorem. Eight modules hold them. A theorem is about every value of the constants
that satisfies the assumptions of its module:

- `PacketAssumption`, `DecodedAssumption`, `RequestAssumption`: datagrams and
  requests have the shape the decoders deliver. gosnmp writes the names of
  varbinds with a leading dot.
- `ConfigAssumption` (`TrapService`), both `LimitAssumption`s (`QueryExecution`,
  `QueryValidation`): settings that `Config.Validate` accepts. That it
  accepts no others is the theorem `StartsWithServiceableConfig`.
- `RouterAssumption`: a route or a default target exists; `NewTrapService` returns no
  service otherwise.
- `StartsAssumption`: flags and variables are texts, and a users file is read
  only if one is configured.
- `PairAssumption`, `RouteAssumption`, `QueueAssumption`, `MaxRoutesAssumption`,
  `NoTargetAssumption`: finite sets, room for one, markers that are no values.

| Module | Theorem | Property |
|---|---|---|
| `TrapService_proofs` | `TypeCorrect` | `TypeOK`, with the channel's capacity and the retry counter's bound |
| | `SendSafety` | `NoSendOnClosedQueue` |
| | `Quiescence` | `QuiescentAfterClose` |
| | `CustodyHolds` | `Custody` |
| | `CancelSafety` | `CancelOnlyPastDeadline` |
| | `AnswerSafety` | `AnswerAfterHandover` |
| | `GracefulShutdown` | `GracefulClose` |
| `TrapDelivery_proofs` | `RetriesBounded` | `RetryBudget` |
| | `ServiceDelivers` | `DeliversSafely`: `TrapService` implements `TrapDelivery` (safety) |
| | `CountersAlwaysBalance` | `CountersBalance` |
| `TrapRouting_proofs` | `FilesLoadWhole` | `WholeFileOrNothing` |
| | `LongestPrefixAlwaysWins` | `LongestPrefixWins`, if no network is IPv4-mapped |
| | `PostsShowTheirPacket` | `PostedAsReceived` |
| | `ReportsAgreeWithRoutes` | `ReportedAsRouted` |
| `QueryExecution_proofs` | `SpecTypeOK` | `TypeOK`, with the limit on varbinds |
| | `SpecConcurrencyBound` | `ConcurrencyBound` |
| | `SpecResponseComplete` | `ResponseComplete` |
| | `SpecResponseStable` | `ResponseStable` |
| | `SpecCanceledSuffix` | `CanceledSuffix` |
| | `SpecSessionsClosed` | `SessionsClosed` |
| | `SpecStatsDescribeResponse` | `StatsDescribeResponse` |
| `V3Credentials_proofs` | `SessionsKeepProtection` | credentials that pass the check open a session with the protection their level names |
| `HTTPServer_proofs` | `StatusesFit` | `StatusFitsRequest` |
| | `WorkOnlyForAcceptable` | `WorkIffAcceptable` |
| | `ClientsAlwaysCanExecute` | `ClientsCanExecute` |
| | `SessionsKeepTheirLevel` | `SessionsNotWeakened` |
| | `ScrapesShowOneMoment` | `OneMoment` |
| | `ScrapesOnlyGrow` | `CountersOnlyGrow` |
| `TLSMaterial_proofs` | `SpecTypeOK` `SpecEnsuredPairLoads` `SpecDamageHasCause` | the invariants of run `tls` |
| `Process_proofs` | `SpecLossIsReported` | `LossIsReported` of `ProcessLifecycle` |
| | `ProcessImplementsLifecycle` | `Process` implements `ProcessLifecycle` |
| | `ProcessLossIsReported` | `LossIsReported` for any set of starts |
| | `StartsWithServiceableConfig` | `AcceptedConfigsServe` |
| | `EveryTrapUserKept` | `TrapUsersKept` |
| | `PrecedenceKept` | `FlagsThenEnvThenDefaults` |

The properties that relate several steps are not inductive by themselves.

**TrapService** is a stack of invariants, each inductive given those below it:

1. `Typing`: the type invariant, and the places in the code where the reader
   or a worker has a packet in hand.
2. `Ordering`: the order of shutdown. The reader's loop ends before `readDone`,
   `readDone` before the channel is closed, the channel is closed and empty
   before a worker ends, all have ended before `Close` returns; the context is
   canceled while someone still runs only by the branch of the deadline.
   `NoSendOnClosedQueue` and `QuiescentAfterClose` follow at once.
3. `Holding`: `Custody`, and where traps are that are received but not decided
   on or handed over but not answered. Its proof moves packets from holder to
   holder, with two lemmas on `Append` and `Tail` of sequences without
   repetitions and one (`SettleKeepsHolding`) for all five ways a worker settles
   its job. `AnswerAfterHandover` is part of it; with `Ordering` it gives
   `GracefulClose`, since there is no place left for an open trap.
4. `CancelOnlyPastDeadline`, which needs `Ordering`: a worker that cancels is
   still running, hence `Close` has not returned, hence the context was canceled
   by the deadline.
5. `Retrying`: the loop counter of `forward` tells how often the job was posted
   (fewer only if the context is canceled), and a packet no worker has held was
   never posted. `RetryBudget` follows.
6. `Fronting`: an inform is not answered before the reader gets to it, and the
   socket is open until `Close` begins. With `Ordering` and `Holding` it shows that
   every step is one of `TrapDelivery` or a stutter (`StepRefines`). The
   difficult steps are the answer, which needs the packet to be past its verdict
   and not answered, and the return of `Close`, which needs that nobody holds an
   open trap (`ExitedLeavesNothing`).
7. `Balance`: the five equations between the counters and the cardinalities of
   the sets of packets by outcome, plus what is in flight: in the channel, in a worker's
   hands, between the reader's verdict and its counter. A step moves one packet from
   one set to another, which is where `Holding` is needed: the packet a worker
   settles was still open, so no set counts it twice. Summing the
   equations gives `CountersBalance`.

**Routing and payload.** `SliceStable` puts an element at the place that counts the
elements preceding it. "Precedes" is a strict total order, so the place of
one element is smaller than that of a later one; being an injection of `1..n` into
itself it hits every place (`StableSort`). The first match in such a table
is the one no other match precedes, which is the reference definition of the
right route. `RoutingInv` says that the table is that of the file and every job,
waiting or posted, the one its packet and the table give; a bad route is not a
valid one (`BadRoutesAreInvalid`), so a file that has one was refused; encoding a payload
later changes nothing in it, because `convertSinglePDU` left no slice of the buffer
(`EncodedAsBuilt`). What is routed by and what is reported are values of varbinds or
native fields of the packet (`ClaimedTrapOIDs`), for well-formed traps the same
one. The hypothesis on IPv4-mapped networks is necessary: run
`router_mapped` shows the property fail with one.

**QueryExecution** rests on four: `Counting` (the semaphore and the wait group
count the goroutines between taking and returning, by cardinality),
`Recording` (what each goroutine has in hand is a prefix of the answers to its
request, with the canceled ones last), `Socketing` (a socket is open only
between connecting and hanging up) and `Tallying` (the statistics after
`Record`). `ResponseComplete` is the point where `Counting` says that no
goroutine is left and `Recording` what each had when it ended.

**HTTPServer.** A response is `Handler` of its request (`HandledInv`), so the four
properties of the pipeline are about that function. `QueryAnswer` and
`HandlerAnswer` follow its checks in order. `OperationRules` and
`CredentialRules` show that the validators refuse what the tables refuse,
`ChecksAreTheRules` that `ValidateQuery` accepts a target exactly if it breaks
no rule but those in `TakenAsAbsent`. `OperationsResolved`, `NumbersSurvive`,
`VersionsSurvive` and `TimeoutSurvives` say what `Resolve` and `newGoSNMPClient` make
of a target that passed: port and retries survive the conversion to 16 bits and to a
signed integer because the checks bounded them, a timeout survives
if it is below `Half`, and the default always is. A scrape rests on `ScrapeInv`: the statistics
are consistent, the snapshot is a consistent copy not above them and not
below the exposition before it, and the text so far is the snapshot's. That
totals equal sums of parts is a statement on the cardinality of `Ticks`, which
counting raises by one (`OneMoreTick`).

**TLSMaterial**: `Progress` reads off the files how far the one writer has come,
and that a process that found no files may create the certificate only while there
is no key; `Cause` names the writer in `DamageHasCause`.

**Process.** In `ProcessLifecycle` nothing has begun during start-up (`StartupUntouched`),
a disabled service never moves (`TrapsOff`), `traps.Close` is called when no
request is left (`ShutdownOrder`), and traps are abandoned only by a `Close` that
met the expired deadline (`AbandonedByExpiry`). `Process` only removes
behaviours, so it inherits the result. `StartInv` says what `main` must have read to
be where it is: at `EnsureTLSMaterial` the configuration loaded, past
`NewTrapService` the service can be made of it. `Validate` then gives
`AcceptedConfigsServe`, and the table of users, entry by entry, `TrapUsersKept`.
`PrecedenceKept` has to show that a list goes through `strings.Join` and
`splitCSV` unharmed, for lists of any length. `splitCSV` is a function on
`0..Len(text)`; instead of induction the proof takes the least number of parts
after which the result were wrong (`LeastNumber`) and derives a contradiction from the
step before.

Only model-checked:

- all liveness: the fairness part of `Delivers`, `CloseCompletes`,
  `EveryTrapIsSettled`, `EveryQueryReturns`, `PromptCancellation`,
  `RestartsSucceed`, `ShutdownEnds`. They rest on fairness, and ENABLED is out of
  the prover's reach. The safety part of `Delivers` is `ServiceDelivers`.
- that the families of inputs in `MCHTTPServer` and `MCProcess` are varied enough
  to reach every branch; the proofs about requests and starts take these
  families, or for `Process` any set of starts, as they are.
- the four disagreements with documents, which TLC shows by an example.

## 5. Not modelled

- Logging: `Stats.Log` and `StartStatsLoop`, `logDebugTargets`,
  `logDebugResults`, `parseLevel`, and `expectedSNMPExecutionBudget`, which
  decides on a warning only. None changes state.
- Time: the lengths of backoffs, timeouts and latency sums. A timer may fire
  after any time, so the uncapped delay `1<<attempt*100ms` appears as a hazard
  and in no property.
- gosnmp, net/http and the JSON decoder: they appear as the choices their
  callers face. Decoding a datagram is the field `decodes`.
- The webhook's side of a lost answer: a POST that was delivered and is repeated
  is two POSTs here as there; `RetryBudget` bounds their number.
- The fields of the generated certificate, the contents of version
  information, the layout of the metrics text, and the wording of errors.
- Panics other than the send on a closed channel, and file-system errors other
  than a failed operation at each point of `TLSMaterial`.

## 6. Running

In this directory:

    tlc -config router.cfg          MCTrapRouter.tla
    tlc -config router_mapped.cfg   MCTrapRouter.tla      (violation)
    tlc -config traps.cfg           MCTrapService.tla
    tlc -config traps_live.cfg      MCTrapService.tla
    tlc -config traps_inform.cfg    MCTrapService.tla     (violation)
    tlc -config traps_drops.cfg     MCTrapService.tla     (violation)
    tlc -config query.cfg           MCQueryExecution.tla
    tlc -config query_live.cfg      MCQueryExecution.tla
    tlc -config http.cfg            MCHTTPServer.tla
    tlc -config tls.cfg             TLSMaterial.tla
    tlc -config process.cfg         MCProcess.tla
    tlc -config lifecycle_traps.cfg ProcessLifecycle.tla  (violation)

    for m in TrapService TrapDelivery TrapRouting QueryExecution V3Credentials \
             TLSMaterial HTTPServer Process; do tlapm ${m}_proofs.tla; done

`PROJECT.json` lists all runs with their modules, the mutants, and for each
definition the lines of code it stands for.
