-------------------------------- MODULE TcpLink --------------------------------
(***************************************************************************)
(* A TCP request of one AllSpark and the TCP server of another, at the two *)
(* ends of a connection: Do writes until the payload is sent and closes,   *)
(* the server reads until the connection has ended and then runs its       *)
(* workload.  The socket buffers between them are bounded, so a server     *)
(* that does not read holds Do up, and with it the call Do belongs to.     *)
(*                                                                         *)
(* The connection and the operating systems at its ends are external.      *)
(* Everything is counted in chunks, what one Write sends.                  *)
(***************************************************************************)
EXTENDS TcpRequest

CONSTANTS
  Room,     \* chunks the socket buffers hold
  PerRead   \* the most one Read returns: 4096 \div Chunk

ASSUME LinkAssumption == Room \in Nat \ {0} /\ PerRead \in Nat \ {0}

VARIABLES
  net,      \* the connection: "none", "open" or "broken"
  buffer,   \* chunks on the way
  server,   \* "none", "backlog", "reading", "workload", "over" or "dead"
  read      \* chunks the server has read: a history of the model, the code
            \* throws the lengths away

linkVars == <<net, buffer, server, read>>
allVars == <<vars, linkVars>>

LinkInit ==
  /\ Init
  /\ net = "none"
  /\ buffer = 0
  /\ server = "none"
  /\ read = 0

--------------------------------------------------------------------------------
(* The client.                                                             *)

\* Dial returns when the connection is in the backlog of the server.
LinkConnect ==
  /\ Connect
  /\ net' = "open"
  /\ server' = "backlog"
  /\ UNCHANGED <<buffer, read>>

\* Write copies a chunk into the buffers as soon as there is room, or into a
\* connection that is broken already, which nobody has noticed yet.
LinkWrite ==
  /\ Write
  /\ IF net = "open" THEN buffer < Room /\ buffer' = buffer + 1
                     ELSE UNCHANGED buffer
  /\ UNCHANGED <<net, server, read>>

\* Nobody listens, or the connection is broken.
LinkFail ==
  /\ net \in {"none", "broken"}
  /\ Fail
  /\ UNCHANGED linkVars

\* The process of the client dies: its kernel still closes the connection.
ClientDies ==
  /\ net = "open"
  /\ Fail
  /\ UNCHANGED linkVars

--------------------------------------------------------------------------------
(* The server.                                                             *)

Server(from, to) == server = from /\ server' = to

\* Accept, and `go s.Incoming(c)`.
Accept ==
  /\ Server("backlog", "reading")
  /\ UNCHANGED <<vars, net, buffer, read>>

\* c.Read(tmp): any part of what is there.  The length is thrown away.
ReadWhile(more) ==
  /\ Server("reading", "reading")
  /\ more
  /\ \E n \in 1 .. PerRead :
       /\ n <= buffer
       /\ buffer' = buffer - n
       /\ read' = read + n
  /\ UNCHANGED <<vars, net>>

\* Mutant: only the first Read is made.
ReadOnce == ReadWhile(read = 0)

\* `for`: as often as it takes.
Read == ReadWhile(TRUE)

ReadEndsWhen(ended) ==
  /\ Server("reading", "workload")
  /\ ended
  /\ UNCHANGED <<vars, net, buffer, read>>

\* Mutants: the loop ends with the first data; it takes only EOF for an end.
ReadEndsEarly == ReadEndsWhen(read > 0 \/ pc = "done" \/ net = "broken")
ReadEndsOnEOF == ReadEndsWhen(buffer = 0 /\ pc = "done" /\ net = "open")

\* c.Read fails: the client has closed and all is read, or the connection broke.
ReadEnds == ReadEndsWhen(buffer = 0 /\ (pc = "done" \/ net = "broken"))

\* The workload runs, and Incoming closes the connection.
RunWorkload ==
  /\ Server("workload", "over")
  /\ UNCHANGED <<vars, net, buffer, read>>

--------------------------------------------------------------------------------
\* The connection is reset; what is on the way may be lost.
Break ==
  /\ net = "open"
  /\ net' = "broken"
  /\ buffer' \in 0 .. buffer
  /\ UNCHANGED <<vars, server, read>>

\* The server's process dies.
ServerDies ==
  /\ server \in {"backlog", "reading", "workload"}
  /\ server' = "dead"
  /\ net' = "broken"
  /\ buffer' = 0
  /\ UNCHANGED <<vars, read>>

ClientStep == LinkConnect \/ LinkWrite \/ LinkFail
ServerStep == Accept \/ Read \/ ReadEnds \/ RunWorkload
Misfortune == ClientDies \/ Break \/ ServerDies

LinkNext == ClientStep \/ ServerStep \/ Misfortune
LinkSpec == LinkInit /\ [][LinkNext]_allVars

\* Both programs run and the kernels deliver; nothing has to go wrong.
LinkFairSpec ==
  LinkSpec /\ WF_allVars(LinkConnect \/ LinkWrite) /\ WF_allVars(ServerStep)

--------------------------------------------------------------------------------
\* On an open connection nothing is lost or made up.
LinkTypeOK ==
  /\ TypeOK
  /\ net \in {"none", "open", "broken"}
  /\ buffer \in 0 .. Room
  /\ server \in {"none", "backlog", "reading", "workload", "over", "dead"}
  /\ read + buffer <= sent
  /\ net = "open" => read + buffer = sent

\* Unless the connection breaks, the workload of a TCP server does not run before
\* the client has closed and every byte it sent has been read, whatever parts
\* Read returns them in (tcpserver.go:104-116).
WorkloadAfterPayload ==
  net = "open" /\ server \in {"workload", "over"} => pc = "done" /\ read = sent

\* Neither end waits for the other for ever.  The loop of Do ends, for sizes next
\* to the largest word too, and a server comes from Accept to its workload and an
\* end, also when the client fails in the middle (tcp.go:53-63, tcpserver.go:105).
BothGetThrough ==
  <>(pc = "done") /\ ((server = "reading") ~> (server \in {"over", "dead"}))

\* The server does for the loop of Do what TcpRequest assumes of a peer: against
\* bounded buffers, breaks and deaths at either end, Do still behaves as there.
ImplementsRequest == FairSpec
===============================================================================
