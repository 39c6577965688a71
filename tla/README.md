# AllSpark in TLA+

AllSpark is a building block of synthetic service meshes: one process runs an
HTTP, a gRPC, a TCP and (optionally) a Kafka server. Every incoming call makes a
configured list of downstream requests, runs a SQL query, runs a CPU workload
and is answered. This directory holds TLA+ models of that program, the TLC
configurations that check them and proofs for TLAPS. Paths below are relative to
`src/`.

## The system

| component | code | state | operations | what is hard | what makes it right |
|---|---|---|---|---|---|
| four servers | `internal/{httpserver,grpcserver,tcpserver}`, `internal/kafka/server` | request list, workload, SQL client (set once); one goroutine per call | `Run`, `Incoming`, `runWorkload`, `doRequests` | goroutines that finish while others are still started; what is awaited differs per server; panics | answered only after all downstream calls, each made exactly `Count()` times |
| request lists | `internal/request/request.go` | the list being built, the variable `request` outside the loop | `CreateRequestsFromStringSlice`, `AddRequest` | skip, error or panic by the form of an entry; a stale variable | the list, or the failure, is a function of the entries |
| several services | the same handlers, `http.go`, `grpc.go` | the calls under way in each | a call makes calls that make calls | no timeout, no retry, no limit on hops; an error downstream is only logged; nobody looks whether the caller is still there | an answer stands for its whole tree or for a failure in it; every call of a tree ends |
| TCP connections | `internal/request/tcp.go`, `internal/tcpserver` | the connection and its buffers | `Do`, `Incoming` | wrapping sizes; each end may wait for the other | the bytes sent; both ends get through |
| downstream requests | `internal/request/*.go` | none (kafka: the shared consumer or producer) | `Do`, `Count` | shared clients | see the four above and below |
| header propagation | `request.go`, `grpcserver.go`, `http.go`, `grpc.go` | the headers of a call | `propagateHeaders`, `propagateGRPCHeaders`, metadata to headers | only shows across several services | the trace survives every mix of HTTP and gRPC |
| SQL client | `internal/sql` | `conn`, shared by every call of every server, no lock | `NewClient`, `RunQuery` | racing openers; a bounded pool | one configured pool in the end, no caller stuck |
| PI workload | `internal/workload/pi.go` | a channel per call | `Execute` | two loops that must agree | complete sum, no goroutine left |
| Kafka consumer and producer | `internal/kafka`, `kafkaConsume.go`, `kafkaProduce.go` | `reader` or `writer`, `logger`, shared, no lock | `Consume`, `Produce`, `SetLogger`, `Close` | racing makers; the closed reader stays; a logger set by one call and used by another | no nil client, a consumer dies with its first error, a failed `Produce` cuts off nobody |
| Kafka server loop | `internal/kafka/server`, `consumer.go` | the committed offset at the broker | `Run`, `Incoming` | crashes between commit and hand-over | at most once; bounded loss |
| start and end | `cmd/allspark` | configuration, main's wait group, listen addresses | `main`, `configure`, `Validate` | which panic ends what; servers that stop early; two listeners with one address | leaves only when it should, and never without a word in the log |
| health check, error handler, configuration defaults | `internal/platform`, `*/config.go` | none of their own | `New`, `Handle`, `Validate` | the health check starts first and competes for its address | part of start and end |
| Echo, logging, gRPC stubs | | | | no interleaving of their own | not modelled |

`main` starts the servers as goroutines and waits for them. All servers get the
same `sql.Client` and workload and, unless they have a list of their own, the
same request list, and with it the same Kafka consumers and producers.

## Modules

Each module maps its definitions to code in `PROJECT.json`. Comments that begin
with "Mutant" introduce variants of the definition below them: the code with
one plausible bug, which the properties must tell from the real one.

**RequestLists, Service, Serving** (with `MCServing`, `ServingProofs`). The core.
`RequestLists` holds the constants: which servers there are and the list of
each, a sequence of counts in which `NilRequest` stands for the nil interface
that `AddRequest` appends for an unknown scheme. `Service` is the abstract
specification: per incoming call, downstream calls are issued once each and
return, and the call is answered, for HTTP and gRPC after all of them.
`Serving` is the code: per call a handler goroutine that walks through the steps
of its server (`HttpFlow`, `GrpcFlow`, `TcpFlow`, `KafkaFlow`), the
`doRequests` loop with its variables `row` and `copy` and its wait group `wg`,
the goroutines in `Do` (`running`, `returned`) and the SQL goroutine. The
text of `doRequests` is the same in all four servers, so one set of actions
models the four, and the map spreads them over the four files. Differences are
kept: HTTP and gRPC call it, TCP and Kafka start it; TCP reads to the end of the
connection before its workload; a panic is only recovered in the goroutine that
net/http calls a handler in (`Recovered`), so what a nil entry does follows from
which goroutine `doRequests` runs in. `Serving` refines `Service` by mapping where the
handler is to a phase.

**RequestConfig, TcpPayload** (with `MCRequestConfig`, `RequestProofs`). The parser loop, one action per branch,
against a definition without a loop (`Source`, `Kept`, `FirstFatal`). What a
count means for a TCP request, its payload (`TcpPayload`), is said once for
the parser and the write loop. An entry
is the number of pieces around `#`, a class of URL and a count; the URL classes
are those `url.Parse` and the switch tell apart.

**HeaderPropagation** (`HeaderProofs`). One call from service to service: `Arrive...` is what a
server makes of the fields it receives, `Send...` what `Do` puts on the next
call. The User-Agent of net/http's and grpc-go's clients is external.

**Mesh** (`MCMesh`, `MeshProofs`). Several processes and the calls between them. A call is named
by the way it came, so `client` and `work` are functions that grow as calls are
made: `client[p]` is what the caller of `p` knows, `work[p]` where the handler of
`p` is. They are two because a connection may break, a caller give up or die, and
the handler goes on all the same. `Answer` waits for the calls of the list
whatever came of them, as `doRequests` does. What a service does inside a handler
is in `Serving`; here it is `Accept`, `Issue`, `Answer`.

**TcpRequest, TcpLink** (`RequestProofs`). `TcpRequest` is the write loop of a TCP request:
`Word` stands for 2^64, `Chunk` for 1024 and `MiB` for 1024 * 1024; `sum` is
signed and the size unsigned, and both wrap at `Word`. `TcpLink` adds the
TCP server at the other end and a connection with `Room` for a few chunks, breaks
and deaths: the actions of the client are those of `TcpRequest` joined with
what they do to the connection. The connection belongs to the kernels: it
delivers in order, and `Dial`, `Write` and `Read` fail only when it is broken.
`TcpRequest` serves as the abstract specification, with the assumption that the
peer reads; `TcpLink` implements it without one.

**SqlClient** (`SqlProofs`). `RunQuery`, one action per access to
`c.conn`. Go leaves the value of a racing read open: after its own assignment a
caller may read its own value or a later one (`SetMaxOpen`). The pool of
database/sql is external (`Busy`, `Acquire`).

**PiWorkload** (`PiProofs`). One call of `pi`: two loops, a goroutine per term,
the rendezvous on the channel.

**KafkaClient** (`KafkaProofs`). `Consume` or `Produce` on one consumer or
producer, one action per access to `c.reader`, `p.writer` or the logger; the two
differ in what an error does. `use` tells who calls: concurrent requests, or the
loop of the Kafka server, one call after the other. The reader and the writer of
kafka-go are external.

**KafkaServer** (`KafkaProofs`). `Run` and `Incoming` over one partition,
split at fetch, commit and hand-over, with crashes at any point and restarts
from the committed offset.

**Startup** (`MCStartup`, `StartupProofs`). `main` from `configure` to `wg.Wait`, the
goroutines of the servers up to `Run`, the health check among them, and what the
error handler logs. `Validate` fills in the addresses (`Address`), and a
server cannot listen where another one serves (`Taken`). It may fail to listen
for reasons outside as well: another process, permissions, or the listener that
a TCP server leaves open when it returns. The parser's result is an input here (`Lists`); RequestConfig says when it is which.

## Runs

| run | shows | instance and why it is enough |
|---|---|---|
| `serving` | `TypeOK`, `AnswerAfterRequests`, `ExactFanOut`, `ImplementsService` | two calls, each of any of the four servers; lists with counts 0, 1, 2 and up to three entries, so a loop skips, repeats and goes on; calls share nothing but the process, so two show every interaction |
| `serving_nil` | `PanicCutsTheList`, `NilIsMet`, `NoInternalStall` | nil entries at the head and in the middle, for a server whose panic is recovered and one whose panic is not; a server of each style (`doRequests` called or started) without |
| `config` | `OutcomeIsRight`, `ListIsRight` | all lists of up to four entries of the classes in `MCRequestConfig`; with four entries a stale request can cross a skipped one and be followed by another; `MiB` 4 in a word of 16, so that sizes wrap |
| `headers` | `TraceIsKept`, `UserAgentOrigin` | a first call and up to three hops; a listed header, the User-Agent and an unlisted one, with up to two values, empty ones included |
| `mesh` | `AnswerCoversTree`, `AllCallsEnd`, `CyclesRunAway` | three services: a chain, a diamond, one request made twice; a service that calls itself, a cycle with a way out and one behind the entry; up to two deaths, so that a service dies, comes back and dies again or two are gone at once; `MaxDepth` 4 is one hop more than any tree needs and lets each cycle close |
| `tcp_link` | `SentExactly`, `WorkloadAfterPayload`, `BothGetThrough`, `ImplementsRequest` | every count in a word of 64, with chunks of 2 and a MiB of 8: sizes from 0 to past the largest int, and all that wrap; room for 3 chunks and reads of up to 2, so that both ends wait for each other |
| `sql` | `SettledPoolConfigured`, `SettledPoolStays`, `NoQueryOnNil`, `RepeatsInRange`, `EveryCallReturns` | three callers, so that one opens, one replaces and one arrives later; one connection |
| `pi` | `AllTermsSummed`, `Returns` | n = 5, every order of sends |
| `pi_goroutines` | `LaunchesN` is violated | the same |
| `kafka_client` | `NoNilClient`, `LogsUnderACall`, `CutForAReason`, `DeadForGood`, `LostClientsLeak` | three callers: a loser of the race, a winner and a late one; for a consumer, a producer and the Kafka server |
| `kafka_server` | `AtMostOnce`, `LossIsBounded`, `EveryMessageCounts` | four messages, two crashes (`MaxCrashes` is a bound of the model only) |
| `startup` | `ExitReason`, `ServedListIsGood`, `NoSilentEnd`, `BadServerIsFatal`, `AllGetToServe`, `ClashShows` | everything that can be wrong before a server starts; every combination of own and shared lists; every way two to four listeners share an address, with endpoints gin refuses |

The one type invariant that is worth a run is that of `Serving`: it says that no
wait group goes negative. Those of the other modules with proofs are theorems or
parts of an inductive invariant. Deadlock is not checked: all of these systems
may come to rest (all calls handled, the process gone, the loop returned).
Only `serving` uses symmetry (calls can be renamed); it checks no liveness
property, and `Service!Spec` is a safety property.

### What the violation says

`LaunchesN`: the comment on `pi` (`internal/workload/pi.go:52`) and
`README.md:19` say that n goroutines are launched. The loop runs from 0 to n
inclusive and launches n + 1.

### What the passing runs show that is not obvious

- An entry with two `#` repeats the request of the entry before it; as the first
  entry it panics.
- A TCP request whose count makes the size wrap to 0, like one without a count,
  sends one chunk.
- The first error ends a Kafka consumer for good, and a reader that lost the
  race for `c.reader` is never closed. A producer goes on after an error.
- A shared Kafka client logs under the id of some call that had begun, not
  necessarily of one that uses it.
- An entry without `#count` gets a count of 0 and is never called. The example of
  `README.md:79` sets a `kafka-consume` entry in this way (against
  `README.md:32`), and its consumer never consumes.
- Services whose request lists form a cycle never answer: one call makes calls
  and waiting handlers without end, until one of them fails.
- An answer says nothing of the calls below it: it may come because one of them
  failed, which only the log of that service tells. TCP and Kafka calls below
  are not awaited by the service they reach at all.
- A TCP request that logs no error may not have arrived if the connection breaks:
  `Write` succeeds into the buffers. A server that stops reading would hold the
  caller, which is why it matters that it reads to the end before it works.
- The health check is started first. Configured onto the address of another
  listener it may take it, and the process then runs without that server, with
  no more than an error in the log; an
  endpoint that gin refuses, of the health check or the HTTP server, ends the
  process with status 2.
- `SERVER_LISTENADDRESS` of the example deployment (`README.md:107`) is read by
  nothing, so that server listens at its default address.
- A bad list of one server ends the process with status 2; the same mistake in
  `REQUESTS` is recovered, and the process exits with status 0.
- With equal minimum and maximum of SQL repeats, no query is made at all.
- A client's User-Agent survives HTTP hops and is lost at the first RPC.

## Fairness

Weak fairness stands for the Go scheduler: a goroutine that can take a step
eventually takes one. It is given to steps of the program only. Nothing is
assumed of peers, downstream services or brokers, with named exceptions: in `sql`
the database answers and the pool hands out free connections; in `kafka_server`
messages exist, their downstream calls return, and an orchestrator restarts the
process (the repository deploys it as a Kubernetes Deployment); in `tcp_link` both programs run and
the kernels deliver, while breaks and deaths may but need not come; in `mesh`
handlers run, and a caller learns of an answer, of a death or that nobody
listens, while a service that died need not come back. `TcpRequest` by itself
assumes that its peer reads: `ImplementsRequest` discharges that for a TCP server
of AllSpark.
In `serving_nil` downstream calls
may hang for ever, which is why `NoInternalStall` says that a handler is at rest
*or has a call in flight*, again and again. `NilIsMet` holds all the same: the loop
gets to a nil entry without waiting for the calls it has started. `kafka_client`
assumes no fairness: a read may wait for a message for ever.

## Proofs

Checked by tlapm; each theorem holds for every value of the constants the
assumptions allow. Proofs are in modules of their own.

**ServingProofs** (from `ServingAssumption`, `RequestsAssumption`: any calls,
servers and finite lists, nil entries anywhere). `ExactFanOut` is not inductive:
it says nothing until `doRequests` is done. `IInv` adds, for each call, that
`wg` is the number of running goroutines and that `running` and `returned` are
disjoint and together exactly the slots the loop has passed, given by `row` and
`copy` (`CountInv`), where the loop can be in each state of `doRequests`
(`LoopInv`), and which of these states goes with which step of the handler
(`HandlerInv`). From it follow `TypeOK` (so no wait group
goes negative, which would panic), `ExactFanOut`, `AnswerAfterRequests`,
`PanicCutsTheList`, that no call gets past a nil entry (`NilIsNeverAnswered`, the
safety half of `NilIsMet`) and, step by step, the refinement `Spec => Svc!Spec`.
`Service` was worth stating because it has no loop, counter or goroutine: the
theorem is that these implement it.

**PiProofs** (`PiAssumption`: n is a natural number). `IInv`: a term is in one
place only, the goroutines launched are `0 .. k - 1`, and the number of terms
summed is the loop variable; so the second loop ends exactly when the set is
complete. That `pi` returns takes fairness; what it rests on is proved:
`CallerNeverStarves`, the caller never waits for a value without a goroutine that
has it, and `StepsAreCounted`, each step uses up one of at most 3n + 5.

**SqlProofs** (`SqlAssumption`: any callers, any repeat counts with a natural
minimum). `IInv`: the caller that assigned `c.conn` last has limited that pool
or is still about to, and the same for its idle connections; whoever is past the
opening knows that `c.conn` is not nil, because an opener can only fail if all
do; and what a caller has still to do and has done add up to the count it drew.
`SettledPoolStays` is proved as an action property from it. `EveryCallReturns`
takes fairness, and again its grounds are proved: a call that waits for a
connection of a full pool waits for another one, which is at its query or its
rows and needs no second connection (`WaitersHaveAHolder`), and each step of the
system takes one call closer to its return and sets none back, by a measure of
at most 4 * `UpTo` + 6 (`StepsAreBounded`).

**KafkaProofs** holds the proofs of both Kafka modules, which are independent.
For KafkaServer (`KafkaServerAssumption`: any number of messages and crashes),
`ServerIInv`: whatever is started is at or below the committed offset, the
process has fetched at most one message more than it has committed, and at the
time of a hand-over the message is committed and not yet started. Loss is
bounded because a step that turns a message into a skipped one raises
`crashes + failures`. `ServerTypeCorrect` says that the offsets stay within
the partition.

For KafkaClient (`ClientAssumption`: any number of calls), `ClientIInv`: what is
in the field has been made; as soon as a call has begun, the logger belongs to one
that has; a call has no result before it ends. `CutForAReason` takes one more part,
`CloseInv`: a client is only closed after an error that began with a failed call,
never by Produce, and the Kafka server has one call at a time and does not call
again after it.
`NoNilClient` needs the first, since the field is read again after the check;
`LogsUnderACall` the second. `LostClientsLeak` follows as an action property.
`DeadForGood` is a formula with a box in a box: a call that starts on a closed
client is `Doomed`, which every step keeps, and one that is doomed has no message.

**StartupProofs** (`StartupAssumption`: any servers, started in any order, with
any configuration; one of them is not Kafka, as main always starts the others).
`ExitReason` rests on `CountInv`, that `wg` counts the servers that are started
and have not left, and `OrderInv`, that what has been started is what is wanted of
the servers before `next`: if the count is 0 in `wait`, each wanted server has
been there and gone. `NoSilentEnd` needs the same, for somebody must have logged.
`ServedListIsGood` rests on `SharedInv`: no server is started with a bad shared
list.

**RequestProofs** holds what is proved of request lists and of TCP requests. Lists
(`ConfigAssumption`: any set of lists of any length, any word and MiB): the
definition without a loop goes by positions, so it takes no recursion and no
induction over the data. `LoopInv` says that nothing fatal has been passed and
that the variable `request` holds what `Source` of the last position says;
`ListInv` that the list so far has one request for each kept entry that has been
passed, in their order, which is given by `Rank`, the number of kept entries up
to one. A step that adds a request adds one kept position, with the next rank
(`AddInv`), and one that skips adds none (`StaysPut`). At the end all
positions have been passed, and both properties can be read off: `OutcomeRight`
and `ListRight`.

TCP (`TcpAssumption`, `LinkAssumption`: any even word that a MiB
divides, any chunk that divides a MiB, any buffers). The arithmetic comes first:
a conversion to int and back changes a number by whole words only (`Conversion`),
and a payload is a whole number of chunks and less than a word (`WholePayload`).
`SentInv` says that the loop goes on only as long as it has sent less than that;
then one more chunk stays within the payload, the sum it compares is the number of
bytes sent, and it ends on the byte. `LinkIInv` adds what is on the way. Each action
of TcpLink is one of TcpRequest or leaves its variables alone, which is the safety
part of `ImplementsRequest`. Two results are about what liveness rests on:
`NeverOversends` bounds the rounds of the write loop in every state, not only at
its end, and `WriterHasAReader` says that the server at an open connection has not
gone on while the client still writes.

**MeshProofs** (`MeshAssumption`: any services, any topologies with cycles or
without, any depth, any number of deaths). `AnswerCoversTree` is about a whole
tree, while an answer only looks one hop down. `IInv` says of each call that
answered what the property says of each caller that heard so: its tree has a
failure or is complete (`Covered`). An `Answer` keeps it because the trees of the
calls it waited for are covered, and the calls below a call are these and those
below them (`CoverUp`, `BelowSplits`); an `Issue` keeps it because a new call has a
caller that is at work, and so is everyone above (`NoNewCallInside`). This needs
`Lineage`: each prefix of a call's name is a call, and each next hop an entry of its
list. So the depth of a tree never enters by induction. Two more results: a call
into a cycle never gets an answer without a failure below it
(`NoAnswerFromACycle`, the safety side of `CyclesRunAway`: no way is longer than `MaxDepth`, whatever that is, and the longest one inside
the cycle would have to go on), and an answer for a tree without failures is one for good
(`CleanAnswersStand`): no death, no lost connection and no late goroutine adds a
call or a failure to it.

**HeaderProofs** (`HeaderAssumption`: any headers, values and lengths of chains).
`IInv` says of the fields on the wire what the properties say of the headers in
a service. A hop changes it in a known way: propagation keeps what `Get` finds,
the two clients only touch the User-Agent, and after a hop without headers
there is no trace. For the User-Agent, `RpcLastOfHop` says what an appended hop
does to the last RPC and the last hop without headers.

Every invariant and every action property of a passing run has a theorem. Model-checked
only are the properties that take fairness: `NilIsMet`, `NoInternalStall`,
`AllCallsEnd`, `CyclesRunAway`, `Returns`, `EveryCallReturns`, `BadServerIsFatal`,
`AllGetToServe`, `ClashShows`, `EveryMessageCounts`, `BothGetThrough`, and of
`ImplementsRequest` the fairness of `TcpRequest`. A proof would have to expand `WF` into
`ENABLED`, which tlapm does not reason about. For `pi`, SQL, TCP, cycles and nil entries the
safety facts they rest on are proved, as said above. That `LaunchesN` is
violated is likewise TLC's.

## Not modelled

The value of pi and other payloads; what responses contain (they are only
logged); the Echo workload, which has no state (an `Execute` that answers at
once is an outcome of `RunWorkload`; neither workload ever returns an error, a
result the handlers provide for all the same); how log entries are written, with
the key-value map of the error handler, which only ever gets strings here; how
viper and pflag find values; the generated gRPC code. Clients that connect and
then say nothing, and half-open connections, are within the models as steps that
need not come; no timeout exists in the code to model. The client id that
`NewConsumer` writes into the shared `kafka.DefaultDialer` is the same string
every time. Other members of the consumer group, which the default group of
`Validate` invites, and the rebalances they cause are left out: `KafkaServer` is
one member that has its partition to itself. Headers that the clients of net/http
and grpc-go add besides the User-Agent (`Accept-Encoding`, `content-type`) are not
in `HeaderPropagation`; none of them is in the list that is propagated. The race of
one failing `sql.Open` with a good one does not arise, since all open with the same
driver and DSN (`openOk` in `SqlClient`). The limits of the gRPC server (five concurrent streams per
connection, keep-alive) belong to grpc-go and are left out: AllSpark's own client
makes a connection per call, and an `Accept` may come at any time.

## Plan

Done, in this order: Serving with its refinement and proofs, PiWorkload,
SqlClient, RequestConfig, Startup, KafkaServer, TcpRequest, HeaderPropagation;
then KafkaClient in the place of a module for the consumer alone, TcpLink over
TcpRequest, addresses, health check and error handling in Startup, Mesh over the
promise of Service; then the proofs of Startup, TcpLink, HeaderPropagation,
KafkaClient, RequestConfig and Mesh.

To prove next: the grounds of the other liveness properties, as for SQL: a measure
of the steps of a call in `Serving` (`NoInternalStall`) and of main in `Startup`
(`BadServerIsFatal`, `AllGetToServe`, `ClashShows`), and the refinement of Service by a whole tree of Mesh.

If the model is to grow: `Startup` composed with `RequestConfig`, so that
the outcome of a list is not an input but the parser's, and a Kafka request list
whose consumer several servers of `Serving` share, so that one server's failed
read is seen to return another's handler.
