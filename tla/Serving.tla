-------------------------------- MODULE Serving --------------------------------
(***************************************************************************)
(* How the HTTP, gRPC, TCP and Kafka servers of one process serve calls.   *)
(*                                                                         *)
(* Every incoming call has a handler goroutine; doRequests runs inside it  *)
(* (http, grpc) or in a goroutine of its own (tcp, kafka) and starts one   *)
(* goroutine per downstream call, counted by a sync.WaitGroup.  The SQL    *)
(* query is always run in a goroutine nobody waits for.                    *)
(***************************************************************************)
EXTENDS RequestLists, Integers, FiniteSets

CONSTANTS
  HasSql,            \* sqlClient # nil
  HasWorkload,       \* workload # nil
  WorkloadResults    \* what Workload.Execute may give: subset of {"ok", "error"}

ASSUME ServingAssumption ==
  /\ HasSql \in BOOLEAN
  /\ HasWorkload \in BOOLEAN
  /\ WorkloadResults \subseteq {"ok", "error"}
  /\ WorkloadResults # {}

VARIABLES
  proc,       \* the process: "up", "crashed" or "exited"
  srv,        \* srv[k]: the Run loop of server k, "listening" or "stopped"
  kind,       \* kind[c]: the server the call c arrives at
  handler,    \* handler[c]: where the handler goroutine is
  reply,      \* reply[c]: what the peer was answered
  fan,        \* fan[c]: where doRequests is
  row, copy,  \* row[c], copy[c]: its loop variables, the request and i
  wg,         \* wg[c]: the counter of its WaitGroup
  running,    \* running[c]: goroutines in request.Do
  returned,   \* returned[c]: goroutines that are through
  sql         \* sql[c]: the goroutine that runs the query

vars == <<proc, srv, kind, handler, reply, fan, row, copy, wg, running,
          returned, sql>>
fanVars == <<fan, row, copy, wg, running, returned>>

--------------------------------------------------------------------------------
(* The order of the steps of each handler: from one step to the next.      *)

\* Mutant: `go s.doRequests`, as the TCP server has it.
HttpFlowAsync == [requests |-> "sql", sql |-> "workload", workload |-> "done"]

HttpFlow  == [requests |-> "fanout", fanout |-> "sql", sql |-> "workload",
              workload |-> "done"]
GrpcFlow  == [requests |-> "fanout", fanout |-> "sql", sql |-> "workload",
              workload |-> "done"]
TcpFlow   == [requests |-> "sql", sql |-> "read", read |-> "workload",
              workload |-> "done"]
KafkaFlow == [requests |-> "sql", sql |-> "workload", workload |-> "done"]

Flow == [http |-> HttpFlow, grpc |-> GrpcFlow, tcp |-> TcpFlow,
         kafka |-> KafkaFlow]

Advance(c) == handler' = [handler EXCEPT ![c] = Flow[kind[c]][@]]

Init ==
  /\ proc = "up"
  /\ srv = [k \in Kinds |-> "listening"]
  /\ kind \in [Calls -> Kinds]
  /\ handler = [c \in Calls |-> "idle"]
  /\ reply = [c \in Calls |-> "none"]
  /\ fan = [c \in Calls |-> "off"]
  /\ row = [c \in Calls |-> 1]
  /\ copy = [c \in Calls |-> 0]
  /\ wg = [c \in Calls |-> 0]
  /\ running = [c \in Calls |-> {}]
  /\ returned = [c \in Calls |-> {}]
  /\ sql = [c \in Calls |-> "none"]

--------------------------------------------------------------------------------
(* The handler goroutine.                                                  *)

\* The server takes a request, connection or message and starts its handler.
Accept(c) ==
  /\ srv[kind[c]] = "listening"
  /\ handler[c] = "idle"
  /\ handler' = [handler EXCEPT ![c] = "requests"]
  /\ UNCHANGED <<proc, srv, kind, reply, fanVars, sql>>

\* doRequests is called (http, grpc) or started in a goroutine (tcp, kafka).
CallRequests(c) ==
  /\ handler[c] = "requests"
  /\ Advance(c)
  /\ fan' = [fan EXCEPT ![c] = "loop"]
  /\ UNCHANGED <<proc, srv, kind, reply, row, copy, wg, running, returned, sql>>

\* `go RunQuery`, when there is a client.
StartSql(c) ==
  /\ handler[c] = "sql"
  /\ Advance(c)
  /\ sql' = [sql EXCEPT ![c] = IF HasSql THEN "running" ELSE @]
  /\ UNCHANGED <<proc, srv, kind, reply, fanVars>>

\* The read loop of the TCP server ends: the peer closed or reset.
ReadEnds(c) ==
  /\ handler[c] = "read"
  /\ Advance(c)
  /\ UNCHANGED <<proc, srv, kind, reply, fanVars, sql>>

\* The workload, if any, runs and the peer is answered: 200 or 503, Msg or
\* error.  TCP connections and Kafka messages have no answer.
RunWorkload(c) ==
  /\ handler[c] = "workload"
  /\ Advance(c)
  /\ \E res \in IF HasWorkload THEN WorkloadResults ELSE {"ok"} :
       reply' = [reply EXCEPT ![c] = IF Sync(kind[c]) THEN res ELSE @]
  /\ UNCHANGED <<proc, srv, kind, fanVars, sql>>

--------------------------------------------------------------------------------
(* doRequests.                                                             *)

Entry(c) == Requests[kind[c]][row[c]]
InLoop(c) == fan[c] = "loop" /\ row[c] <= Len(Requests[kind[c]])

SpawnWhile(c, more) ==
  /\ InLoop(c)
  /\ Entry(c) # NilRequest
  /\ more
  /\ wg' = [wg EXCEPT ![c] = @ + 1]
  /\ running' = [running EXCEPT ![c] = @ \cup {<<row[c], copy[c]>>}]
  /\ copy' = [copy EXCEPT ![c] = @ + 1]
  /\ UNCHANGED <<proc, srv, kind, handler, reply, fan, row, returned, sql>>

\* Mutant: the inner loop runs to i <= r.Count().
SpawnOneTooMany(c) == SpawnWhile(c, copy[c] <= Entry(c))

\* wg.Add(1) and `go`, while i < r.Count().
Spawn(c) == SpawnWhile(c, copy[c] < Entry(c))

NextRequestWhen(c, waited) ==
  /\ InLoop(c)
  /\ Entry(c) # NilRequest
  /\ copy[c] >= Entry(c)
  /\ waited
  /\ row' = [row EXCEPT ![c] = @ + 1]
  /\ copy' = [copy EXCEPT ![c] = 0]
  /\ UNCHANGED <<proc, srv, kind, handler, reply, fan, wg, running, returned, sql>>

\* Mutant: wg.Wait() stands in the range loop.
NextRequestWaits(c) == NextRequestWhen(c, wg[c] = 0)

\* The inner loop ends; the range loop goes on with the next request.
NextRequest(c) == NextRequestWhen(c, TRUE)

\* net/http recovers a panic of the goroutine it calls a handler in, and nobody
\* any other: doRequests must be running in that one.
Recovered(c) == kind[c] = "http" /\ handler[c] = "fanout"

\* r.Count() on a nil interface panics, which ends the goroutine doRequests is in
\* or, unless it is recovered, the process.
NilPanic(c) ==
  /\ InLoop(c)
  /\ Entry(c) = NilRequest
  /\ fan' = [fan EXCEPT ![c] = "panicked"]
  /\ IF Recovered(c)
       THEN handler' = [handler EXCEPT ![c] = "aborted"] /\ UNCHANGED proc
       ELSE proc' = "crashed" /\ UNCHANGED handler
  /\ UNCHANGED <<srv, kind, reply, row, copy, wg, running, returned, sql>>

FanReturns(c, waited) ==
  /\ fan[c] = "loop"
  /\ row[c] > Len(Requests[kind[c]])
  /\ waited
  /\ fan' = [fan EXCEPT ![c] = "done"]
  /\ IF Sync(kind[c]) THEN Advance(c) ELSE UNCHANGED handler
  /\ UNCHANGED <<proc, srv, kind, reply, row, copy, wg, running, returned, sql>>

\* Mutant: doRequests does not wait.
WaitReturnsAtOnce(c) == FanReturns(c, TRUE)

\* wg.Wait() returns, and with it doRequests.
WaitReturns(c) == FanReturns(c, wg[c] = 0)

TaskEnds(c, s, done) ==
  /\ s \in running[c]
  /\ running' = [running EXCEPT ![c] = @ \ {s}]
  /\ returned' = [returned EXCEPT ![c] = @ \cup {s}]
  /\ wg' = [wg EXCEPT ![c] = @ - done]
  /\ UNCHANGED <<proc, srv, kind, handler, reply, fan, row, copy, sql>>

\* Mutants: wg.Done() runs twice; wg.Done() is not reached on the error path.
TaskReturnsTwice(c, s) == TaskEnds(c, s, 2)
TaskReturnsNoDone(c, s) == \E done \in {0, 1} : TaskEnds(c, s, done)

\* request.Do returns, having logged its error if it had one; wg.Done().
TaskReturns(c, s) == TaskEnds(c, s, 1)

\* RunQuery returns; an error is only logged.
SqlReturns(c) ==
  /\ sql[c] = "running"
  /\ sql' = [sql EXCEPT ![c] = "done"]
  /\ UNCHANGED <<proc, srv, kind, handler, reply, fanVars>>

--------------------------------------------------------------------------------
(* The process.                                                            *)

\* Run returns: could not listen, serve, accept or consume.
StopServer(k) ==
  /\ srv[k] = "listening"
  /\ srv' = [srv EXCEPT ![k] = "stopped"]
  /\ UNCHANGED <<proc, kind, handler, reply, fanVars, sql>>

\* main returns from wg.Wait(): every goroutine that is left ends with it.
Exit ==
  /\ \A k \in Kinds : srv[k] = "stopped"
  /\ proc' = "exited"
  /\ UNCHANGED <<srv, kind, handler, reply, fanVars, sql>>

HandlerStep(c) == proc = "up" /\ (CallRequests(c) \/ StartSql(c) \/ RunWorkload(c))
FanStep(c) ==
  proc = "up" /\ (Spawn(c) \/ NextRequest(c) \/ NilPanic(c) \/ WaitReturns(c))
OutsideStep(c) ==
  /\ proc = "up"
  /\ \/ Accept(c)
     \/ ReadEnds(c)
     \/ SqlReturns(c)
     \/ \E s \in running[c] : TaskReturns(c, s)
ServerStep == proc = "up" /\ (Exit \/ \E k \in Kinds : StopServer(k))

Next ==
  \/ \E c \in Calls : HandlerStep(c) \/ FanStep(c) \/ OutsideStep(c)
  \/ ServerStep

\* Goroutines that can run are scheduled; nothing is assumed of peers, of
\* downstream services or of the database.
Fairness == \A c \in Calls : WF_vars(HandlerStep(c)) /\ WF_vars(FanStep(c))

Spec == Init /\ [][Next]_vars
FairSpec == Spec /\ Fairness

--------------------------------------------------------------------------------
(* Properties.                                                             *)

TypeOK ==
  /\ proc \in {"up", "crashed", "exited"}
  /\ srv \in [Kinds -> {"listening", "stopped"}]
  /\ kind \in [Calls -> Kinds]
  /\ handler \in [Calls -> {"idle", "requests", "fanout", "sql", "read",
                            "workload", "done", "aborted"}]
  /\ reply \in [Calls -> {"none", "ok", "error"}]
  /\ fan \in [Calls -> {"off", "loop", "done", "panicked"}]
  /\ row \in [Calls -> Nat \ {0}]
  /\ copy \in [Calls -> Nat]
  /\ wg \in [Calls -> Nat]
  /\ running \in [Calls -> SUBSET (Nat \X Nat)]
  /\ returned \in [Calls -> SUBSET (Nat \X Nat)]
  /\ sql \in [Calls -> {"none", "running", "done"}]

\* An HTTP request or RPC is not answered, its SQL query is not sent and its
\* workload does not run before every downstream call has been made and has
\* returned (httpserver.go:73-92, grpcserver.go:117-141).
AnswerAfterRequests ==
  \A c \in Calls :
    Sync(kind[c]) /\ (\/ handler[c] \in {"sql", "workload", "done"}
                      \/ sql[c] # "none"
                      \/ reply[c] # "none")
      => returned[c] = Slots(kind[c]) /\ running[c] = {}

\* When doRequests returns it has made every request of the list Count() times
\* and nothing it started is still running, although its goroutines finish in
\* any order and may finish while the loop is still starting others.
ExactFanOut ==
  \A c \in Calls :
    fan[c] = "done" => returned[c] = Slots(kind[c]) /\ running[c] = {}

\* A nil entry cuts the list: the requests before it are made, the ones behind
\* it are not, and an HTTP call that meets it has no reply, query or workload.
PanicCutsTheList ==
  \A c \in Calls : fan[c] = "panicked" =>
    /\ Entry(c) = NilRequest
    /\ running[c] \cup returned[c] = {s \in Slots(kind[c]) : s[1] < row[c]}
    /\ kind[c] = "http" =>
         handler[c] = "aborted" /\ reply[c] = "none" /\ sql[c] = "none"

\* No call gets past a nil entry in the list of its server.  The loop waits for
\* nothing on the way to it, so every call meets it, whatever the requests made
\* before do, which may hang for ever: an HTTP request is dropped, and any other
\* call takes the process down with all the calls in it.
HasNil(k) == \E r \in DOMAIN Requests[k] : Requests[k][r] = NilRequest
NilIsMet ==
  \A c \in Calls :
    (HasNil(kind[c]) /\ handler[c] # "idle")
      ~> \/ proc # "up"
         \/ kind[c] = "http" /\ handler[c] = "aborted"

Over(c) == proc # "up" \/ handler[c] \in {"idle", "done", "aborted"}
FanOver(c) == proc # "up" \/ fan[c] \in {"off", "done", "panicked"}

\* A handler is never stuck for a reason of its own: from any point on it is
\* finished, or waits for one of its own downstream calls or its own peer,
\* whatever other calls, the database or the other servers do.  The same goes
\* for the doRequests goroutine of a TCP connection or a Kafka message.
NoInternalStall ==
  \A c \in Calls :
    /\ []<>(\/ Over(c)
            \/ Sync(kind[c]) /\ running[c] # {}
            \/ handler[c] = "read")
    /\ []<>(FanOver(c) \/ running[c] # {})

\* The servers keep the promise of Service.
PhaseOf(h) == CASE h = "idle"    -> "new"
                [] h = "done"    -> "answered"
                [] h = "aborted" -> "dropped"
                [] OTHER         -> "open"

Phase(c) == PhaseOf(handler[c])

Svc == INSTANCE Service WITH
         alive <- proc = "up",
         phase <- [c \in Calls |-> Phase(c)],
         out <- running,
         back <- returned

ImplementsService == Svc!Spec
===============================================================================
