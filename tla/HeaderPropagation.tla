--------------------------- MODULE HeaderPropagation ---------------------------
(***************************************************************************)
(* The tracing headers of one call on its way through a chain of AllSpark  *)
(* services: each service takes them from the incoming call and puts them  *)
(* on every HTTP request and RPC it makes.  TCP connections and Kafka      *)
(* messages carry none.  The services of a chain run the same code, so     *)
(* the model follows one call from service to service.                     *)
(*                                                                         *)
(* Headers are looked up by their canonical names; metadata keys are these *)
(* names in lower case, one for one.                                       *)
(***************************************************************************)
EXTENDS Naturals, Sequences

CONSTANTS
  Names,        \* header names
  Propagated,   \* headersToPropagate
  UserAgent,    \* the one of them that clients set themselves
  Values,       \* what a client may send
  Empty,        \* "": the value of Get for a header that is not there, too
  GoHttp,       \* the User-Agent of net/http's client
  GrpcGo,       \* the User-Agent of grpc-go's client
  MaxHops       \* bound on the length of the chain, for model checking only

ASSUME HeaderAssumption ==
  /\ Propagated \subseteq Names
  /\ UserAgent \in Propagated
  /\ Empty \in Values
  /\ GoHttp \notin Values /\ GrpcGo \notin Values /\ GoHttp # GrpcGo
  /\ MaxHops \in Nat

VARIABLES
  sent,       \* the fields of the first call, from outside; never changes
  at,         \* "wire" or "service"
  fields,     \* the fields of the call on the wire
  headers,    \* the headers doRequests is given
  path        \* the kinds of call so far, the first one included

vars == <<sent, at, fields, headers, path>>

Carriers == {"http", "grpc"}
Kinds == Carriers \cup {"tcp", "kafka"}
None == [n \in Names |-> <<>>]
Heads == UNION {[1 .. n -> Values] : n \in 0 .. 2}

\* http.Header.Get: the first value.
Get(h, n) == IF h[n] = <<>> THEN Empty ELSE Head(h[n])
Carried(h) == {n \in Propagated : Get(h, n) # Empty}

\* Mutant: a value is set even when it is empty.
propagateEmpty(h) ==
  [n \in Names |-> IF n \in Propagated THEN <<Get(h, n)>> ELSE <<>>]

propagateHeaders(h) ==
  [n \in Names |-> IF n \in Carried(h) THEN <<Get(h, n)>> ELSE <<>>]

propagateGRPCHeaders(h) ==
  [n \in Names |-> IF n \in Carried(h) THEN <<Get(h, n)>> ELSE <<>>]

\* The client of net/http names itself when the request does not.
OnHttp(h) ==
  [h EXCEPT ![UserAgent] = IF @ = <<>> THEN <<GoHttp>> ELSE @]

\* grpc-go always sends its own name and leaves out metadata of that key.
OnGrpc(h) == [h EXCEPT ![UserAgent] = <<GrpcGo>>]

Init ==
  /\ sent \in [Names -> Heads]
  /\ at = "wire"
  /\ fields = sent
  /\ headers = None
  /\ \E k \in Carriers : path = <<k>>

--------------------------------------------------------------------------------
\* A call arrives at the server of its kind.
Arrives(k) == at = "wire" /\ path[Len(path)] = k /\ at' = "service"

ArriveWith(k, given) ==
  /\ Arrives(k)
  /\ headers' = given
  /\ UNCHANGED <<sent, fields, path>>

\* The HTTP server hands on the headers of the request.
ArriveHttp == ArriveWith("http", fields)

\* Mutant: `headers[h] = append(headers[h], v)`, with the key in lower case.
ArriveGrpcLower == ArriveWith("grpc", None)

\* The gRPC server makes headers of the metadata; Add gives canonical names.
ArriveGrpc == ArriveWith("grpc", fields)

\* The TCP and the Kafka server call doRequests(nil).
ArriveBare == \E k \in {"tcp", "kafka"} : ArriveWith(k, None)

\* The service makes a request.
Send(k, given) ==
  /\ at = "service"
  /\ Len(path) <= MaxHops
  /\ at' = "wire"
  /\ path' = Append(path, k)
  /\ fields' = given
  /\ UNCHANGED <<sent, headers>>

SendHttp == Send("http", OnHttp(propagateHeaders(headers)))
SendGrpc == Send("grpc", OnGrpc(propagateGRPCHeaders(headers)))
SendTcp == Send("tcp", None)
SendKafka == Send("kafka", None)

Next ==
  \/ ArriveHttp \/ ArriveGrpc \/ ArriveBare
  \/ SendHttp \/ SendGrpc \/ SendTcp \/ SendKafka

Spec == Init /\ [][Next]_vars

--------------------------------------------------------------------------------
\* A call that a service made has at most one value of each header.
TypeOK ==
  /\ sent \in [Names -> Heads]
  /\ at \in {"wire", "service"}
  /\ path \in Seq(Kinds) /\ Len(path) \in 1 .. MaxHops + 1
  /\ {fields, headers} \subseteq [Names -> Seq(Values \cup {GoHttp, GrpcGo})]
  /\ at = "wire" /\ Len(path) > 1 => \A n \in Names : Len(fields[n]) <= 1

\* The call has come over HTTP and gRPC only.
Traced == \A i \in DOMAIN path : path[i] \in Carriers

\* However HTTP and gRPC alternate on the way, every service gets the tracing
\* headers as the client sent them, the first value of each and none made up, and
\* none but the first service gets any other header; one TCP or Kafka hop and no
\* service behind it gets any at all (request.go:33-46, 174-192).
TraceIsKept ==
  at = "service" =>
    \A n \in Names \ {UserAgent} :
      IF n \in Propagated
        THEN Get(headers, n) = IF Traced THEN Get(sent, n) ELSE Empty
        ELSE Len(path) > 1 => headers[n] = <<>>

\* After the last TCP or Kafka hop, if there was one, there was an RPC.
RpcLast ==
  \E i \in 2 .. Len(path) :
    /\ path[i] = "grpc"
    /\ \A j \in 2 .. Len(path) : path[j] \in {"tcp", "kafka"} => j < i

Origin ==
  IF path[Len(path)] \notin Carriers THEN Empty
  ELSE IF RpcLast THEN GrpcGo
  ELSE IF Traced /\ Get(sent, UserAgent) # Empty THEN Get(sent, UserAgent)
  ELSE GoHttp

\* The User-Agent is the one the last client to impose its own gave it: an RPC
\* always does, an HTTP request only when there is none to propagate.  So the
\* client's own survives HTTP hops but no RPC (request.go:35-46 lists it).
UserAgentOrigin ==
  at = "service" /\ Len(path) > 1 => Get(headers, UserAgent) = Origin
===============================================================================
