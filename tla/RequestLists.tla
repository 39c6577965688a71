----------------------------- MODULE RequestLists -----------------------------
(***************************************************************************)
(* The request lists of the four servers, as the handlers see them.        *)
(*                                                                         *)
(* A server keeps a slice of Request values and only asks each of them for *)
(* Count() and calls Do() that many times.  So a list is a sequence of     *)
(* counts; NilRequest stands for the nil interface that AddRequest appends *)
(* for a URL whose scheme its switch does not name (request.go:102-162),   *)
(* on which Count() panics.                                                *)
(***************************************************************************)
EXTENDS Naturals, Sequences

CONSTANTS
  Calls,       \* incoming HTTP requests, RPCs, TCP connections, Kafka messages
  Kinds,       \* the servers this process runs
  Requests,    \* Requests[k]: the list SetRequests gave to the server k
  NilRequest   \* an entry that is a nil interface

ASSUME RequestsAssumption ==
  /\ Kinds \subseteq {"http", "grpc", "tcp", "kafka"}
  /\ NilRequest \notin Nat
  /\ Requests \in [Kinds -> Seq(Nat \cup {NilRequest})]

\* http and grpc run doRequests inside the handler, tcp and kafka in a
\* goroutine of its own.
Sync(k) == k \in {"http", "grpc"}

\* <<r, i>>: the i-th call of Do on the r-th request of the list.
Slots(k) ==
  UNION {{r} \X (0 .. Requests[k][r] - 1) :
         r \in {q \in DOMAIN Requests[k] : Requests[k][q] # NilRequest}}
===============================================================================
