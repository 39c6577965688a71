-------------------------------- MODULE Startup --------------------------------
(***************************************************************************)
(* main of cmd/allspark: how the process reads its configuration, starts   *)
(* its servers, waits for them, and goes down.                             *)
(*                                                                         *)
(* Only a panic of the main goroutine behind the deferred HandleRecover is *)
(* recovered (and main then returns: exit status 0); a panic before it, or *)
(* in the goroutine of a server, ends the process with status 2.           *)
(***************************************************************************)
EXTENDS Naturals, FiniteSets, Sequences

CONSTANTS
  Kinds,      \* the servers there can be: http, grpc, tcp, kafka
  Order,      \* the order in which main starts them
  Addresses,  \* addresses that can be listened at
  Unset,      \* no address is configured
  Default,    \* the address of each listener that has none configured
  Configs     \* the configurations the process may find

\* The health check is started first and not waited for; Kafka does not listen.
Servers == Kinds \cup {"health"}
Listeners == Servers \ {"kafka"}

\* What CreateRequestsFromStringSlice makes of a list (RequestConfig).
Lists == {"empty", "some", "error", "panic"}
BadList == {"error", "panic"}

\* What NewClient tells apart in a DSN: its scheme, if it has one.
Dsns == {"none", "postgresql", "mysql", "unparsable", "other"}

Config == [fault  : {"none",     \* why configure() panics: a file that cannot be
                     "file",     \* read, values of the wrong type, a log format
                     "types", "format"},    \* that does not exist
           flag   : {"none", "exit"},         \* --version or --dump-config
           sql    : Dsns,                     \* SQL_DSN, if there is a query
           shared : Lists,                    \* REQUESTS
           own    : [Kinds -> Lists],         \* HTTPREQUESTS, GRPCREQUESTS, ...
           kafka  : BOOLEAN,                  \* a bootstrap server is given
           addr   : [Listeners -> Addresses \cup {Unset}],
           wildcard : SUBSET {"http", "health"}] \* endpoints gin refuses

ASSUME StartupAssumption ==
  /\ IsFiniteSet(Kinds) /\ "health" \notin Kinds
  /\ \E k \in Kinds : k # "kafka"
  /\ Order \in Seq(Kinds)
  /\ Kinds = {Order[i] : i \in DOMAIN Order}
  /\ \A i, j \in DOMAIN Order : Order[i] = Order[j] => i = j
  /\ Default \in [Listeners -> Addresses]
  /\ Configs \subseteq Config

VARIABLES
  config,     \* the configuration; never changes
  proc,       \* "up", "exit 0" or "exit 2"
  pc,         \* main: "configure", "flags", "health", "sql", "shared", "start" or
              \* "wait"
  next,       \* the index in Order of the server to start next
  server,     \* server[k]: "off", "started", "serving" or "stopped"
  list,       \* list[k]: the list it was given, "none", "own" or "shared"
  wg,         \* the counter of main's WaitGroup
  logged      \* who has had an error handled, that is, logged

vars == <<config, proc, pc, next, server, list, wg, logged>>

Wanted(k) == k # "kafka" \/ config.kafka

\* Validate fills in what is not configured.
Address(k) == IF config.addr[k] # Unset THEN config.addr[k] ELSE Default[k]

Init ==
  /\ config \in Configs
  /\ proc = "up"
  /\ pc = "configure"
  /\ next = 1
  /\ server = [k \in Servers |-> "off"]
  /\ list = [k \in Kinds |-> "none"]
  /\ wg = 0
  /\ logged = {}

--------------------------------------------------------------------------------
(* The main goroutine.                                                     *)

\* A step that may end the process; HandleRecover logs what it recovers.
SetUp(from, to, bad, end, log) ==
  /\ pc = from
  /\ pc' = to
  /\ proc' = IF bad THEN end ELSE proc
  /\ logged' = IF bad THEN logged \cup log ELSE logged
  /\ UNCHANGED <<config, next, server, list, wg>>

\* Of all that Validate looks at only the log format can be wrong; what is not
\* set gets its default.
Invalid == config.fault = "format"

\* configure() panics on a configuration it cannot use: nothing recovers yet.
Configure ==
  SetUp("configure", "flags", config.fault \in {"file", "types"} \/ Invalid,
        "exit 2", {})

\* --version and --dump-config end in os.Exit(0).
Flags == SetUp("flags", "health", config.flag = "exit", "exit 0", {})

\* The goroutine of the health check is not counted.
StartHealth ==
  /\ pc = "health"
  /\ pc' = "sql"
  /\ server' = [server EXCEPT !["health"] = "started"]
  /\ UNCHANGED <<config, proc, next, list, wg, logged>>

\* NewClient returns an error; main panics with it, as it does on a bad shared
\* list, or its parser does.
BadDsn == config.sql \in {"unparsable", "other"}
MakeSqlClient == SetUp("sql", "shared", BadDsn, "exit 0", {"main"})
ParseShared ==
  SetUp("shared", "start", config.shared \in BadList, "exit 0", {"main"})

StartAdding(adds) ==
  /\ pc = "start"
  /\ next <= Len(Order)
  /\ next' = next + 1
  /\ IF Wanted(Order[next])
       THEN /\ \E n \in adds : wg' = wg + n
            /\ server' = [server EXCEPT ![Order[next]] = "started"]
       ELSE UNCHANGED <<wg, server>>
  /\ UNCHANGED <<config, proc, pc, list, logged>>

\* Mutant: wg.Add(1) is called in the goroutine it counts.
StartServerLateAdd == StartAdding({0, 1})

\* wg.Add(1) and `go`, for the servers that are wanted.
StartServer == StartAdding({1})

AllStarted ==
  /\ pc = "start"
  /\ next > Len(Order)
  /\ pc' = "wait"
  /\ UNCHANGED <<config, proc, next, server, list, wg, logged>>

WaitReturns ==
  /\ pc = "wait"
  /\ wg = 0
  /\ proc' = "exit 0"
  /\ UNCHANGED <<config, pc, next, server, list, wg, logged>>

--------------------------------------------------------------------------------
(* The goroutine of a server.                                              *)

BadOwn(k) == k \in Kinds /\ config.own[k] \in BadList

\* Another listener of the process holds the address.
Taken(k) ==
  k \in Listeners /\ \E l \in Listeners \ {k} :
                       server[l] = "serving" /\ Address(l) = Address(k)

\* It returns, for an error that is handled; the deferred wg.Done().
Leaves(k, log) ==
  /\ server' = [server EXCEPT ![k] = "stopped"]
  /\ wg' = IF k \in Kinds THEN wg - 1 ELSE wg
  /\ logged' = logged \cup log

HasOwn(k) == k \in Kinds /\ config.own[k] # "empty"

RunsWith(k, panics, own) ==
  /\ server[k] = "started"
  /\ UNCHANGED <<config, pc, next>>
  /\ IF panics
       THEN proc' = "exit 2" /\ UNCHANGED <<server, list, wg, logged>>
       ELSE /\ list' = [j \in Kinds |->
                          IF j # k THEN list[j] ELSE IF own THEN "own" ELSE "shared"]
            /\ \/ /\ ~Taken(k)
                  /\ server' = [server EXCEPT ![k] = "serving"]
                  /\ UNCHANGED <<wg, logged>>
               \/ k \in Listeners /\ Leaves(k, {k})
            /\ UNCHANGED proc

\* Mutants: a server whose own list is bad falls back to the shared one; the
\* error of a list only ends its server; a server whose address is taken tries
\* again until it is free.
RunOrShared(k) == RunsWith(k, k \in config.wildcard, HasOwn(k) /\ ~BadOwn(k))
RunOrStop(k) ==
  \/ ~BadOwn(k) /\ RunsWith(k, k \in config.wildcard, HasOwn(k))
  \/ /\ BadOwn(k) /\ server[k] = "started"
     /\ Leaves(k, {k})
     /\ UNCHANGED <<config, proc, pc, next, list>>
RunWhenFree(k) ==
  /\ ~Taken(k)
  /\ RunsWith(k, BadOwn(k) \/ k \in config.wildcard, HasOwn(k))

\* The server parses its own list, takes the shared one if that is empty, and
\* runs: it registers its endpoint and listens.  That fails when another listener
\* of the process holds the address, and may fail whenever something else does
\* (another process, or the listener that a TCP server which has returned never
\* closed) or the address is not one to listen at.  A bad list panics outside main, as does an endpoint with a wildcard that has no
\* name or is not in its place; that the deferred wg.Done() runs on the way does
\* not let main out, the Go runtime holds a returning main back while another
\* goroutine panics.
Run(k) == RunsWith(k, BadOwn(k) \/ k \in config.wildcard, HasOwn(k))

RunReturnsLogging(k, log) ==
  /\ server[k] = "serving"
  /\ Leaves(k, log)
  /\ UNCHANGED <<config, proc, pc, next, list>>

\* Mutant: the Kafka server returns without a word.
RunReturnsQuietly(k) == RunReturnsLogging(k, {k} \ {"kafka"})

\* Run returns: it could not go on serving, accepting or consuming.
RunReturns(k) == RunReturnsLogging(k, {k})

Main ==
  /\ proc = "up"
  /\ \/ Configure \/ Flags \/ StartHealth \/ MakeSqlClient \/ ParseShared
     \/ StartServer \/ AllStarted \/ WaitReturns

Starting(k) == proc = "up" /\ Run(k)
Stopping(k) == proc = "up" /\ RunReturns(k)

Next == Main \/ \E k \in Servers : Starting(k) \/ Stopping(k)

Spec == Init /\ [][Next]_vars

\* Goroutines are scheduled; a server may run for ever.
Fairness == WF_vars(Main) /\ \A k \in Servers : WF_vars(Starting(k))
FairSpec == Spec /\ Fairness

--------------------------------------------------------------------------------
TypeOK ==
  /\ config \in Config
  /\ proc \in {"up", "exit 0", "exit 2"}
  /\ pc \in {"configure", "flags", "health", "sql", "shared", "start", "wait"}
  /\ next \in 1 .. Len(Order) + 1
  /\ server \in [Servers -> {"off", "started", "serving", "stopped"}]
  /\ list \in [Kinds -> {"none", "own", "shared"}]
  /\ wg \in Nat
  /\ logged \subseteq Servers \cup {"main"}

\* main does not return from wg.Wait() while a server it wants is still to be
\* started, starting or serving, even when servers stop while others are being
\* started: the process leaves with status 0 only then, on request, or when
\* what main itself sets up is bad, which is before any server started.
ExitReason ==
  proc = "exit 0" =>
    \/ /\ pc = "wait"
       /\ \A k \in Kinds :
            server[k] = IF Wanted(k) THEN "stopped" ELSE "off"
    \/ /\ config.flag = "exit" \/ BadDsn \/ config.shared \in BadList
       /\ \A k \in Kinds : server[k] = "off"

\* A server serves its own list if it has one and else the shared one, and
\* neither is ever a list that could not be parsed.
ServedListIsGood ==
  \A k \in Kinds : server[k] = "serving" =>
    \/ list[k] = "own" /\ config.own[k] = "some"
    \/ /\ list[k] = "shared"
       /\ config.own[k] = "empty" /\ config.shared \notin BadList

\* A server that gives up, and a process that leaves with status 0 unasked, have
\* left an error in the log: it is the only trace, since the process may stay up
\* and its health check go on answering (kafkaserver.go:79, main.go:73-91).
NoSilentEnd ==
  /\ \A k \in Servers : server[k] = "stopped" => k \in logged
  /\ proc = "exit 0" /\ config.flag = "none" => logged # {}

\* One bad list of one server that is wanted takes the whole process down, and so
\* does an endpoint of the HTTP server that gin refuses: once main starts servers,
\* it ends with status 2 whatever the others serve.  A bad endpoint of the health
\* check, which nobody waits for, ends it as well, unless all have stopped before.
Fatal(k) == Wanted(k) /\ (BadOwn(k) \/ k \in config.wildcard)
StartsServers == proc = "up" /\ pc = "start"
BadServerIsFatal ==
  /\ (StartsServers /\ \E k \in Kinds : Fatal(k)) ~> (proc = "exit 2")
  /\ (StartsServers /\ Fatal("health")) ~> (proc # "up")

\* With good lists and endpoints main gets all the servers it wants to serve, or
\* to give up with an error, and stays until they have: none is missed because
\* another one stopped early.
NothingFatal == \A k \in Servers : ~Fatal(k)
AllGetToServe ==
  (StartsServers /\ NothingFatal)
    ~> (\A k \in Kinds : Wanted(k) => server[k] \in {"serving", "stopped"})

\* Two listeners with the same address, the health check included, do not go
\* unnoticed, whichever gets it first and even if that one has stopped when the
\* other comes to listen: sooner or later one of them has an error in the log
\* (healthcheck.go:34, httpserver.go:95, grpcserver.go:76, tcpserver.go:68).
Pairs == {p \in SUBSET Listeners : Cardinality(p) = 2}
Clash(pair) == \A k, l \in pair : Address(k) = Address(l)
ClashShows ==
  \A pair \in Pairs :
    (StartsServers /\ NothingFatal /\ Clash(pair)) ~> (pair \cap logged # {})
===============================================================================
