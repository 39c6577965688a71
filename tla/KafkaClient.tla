------------------------------ MODULE KafkaClient ------------------------------
(***************************************************************************)
(* One kafka.Consumer or kafka.Producer and the calls of Consume or        *)
(* Produce on it.  That of a kafka-consume or kafka-produce request is     *)
(* shared by every copy of the request, by every call a server handles     *)
(* and, when they use the shared list, by all the servers, and nothing     *)
(* guards it; the Kafka server's own consumer is used by its loop only.    *)
(*                                                                         *)
(* Both make their client of segmentio/kafka-go, a reader or a writer, on  *)
(* the first call.  These clients are external: ReadMessage blocks until   *)
(* there is a message, fails when its commit or the group does, and fails  *)
(* on a closed reader; WriteMessages retries a few times, then fails.      *)
(***************************************************************************)
EXTENDS Naturals

CONSTANTS
  Callers,    \* calls of Consume or Produce; a caller also names the client
              \* it makes and the logger it sets
  None,       \* nil
  Base        \* the logger given to NewConsumer or NewProducer

ASSUME ClientAssumption == None \notin Callers /\ Base \notin Callers \cup {None}

VARIABLES
  use,        \* "consume", "produce" (requests) or "serve"; never changes
  logger,     \* c.logger, p.logger
  client,     \* c.reader, p.writer
  made,       \* made[g]: the logger of the client that g made, None if none
  closed,     \* the clients that have been closed
  pc,         \* pc[g]: where the call g is
  using,      \* using[g]: the client it reads from or writes to
  result      \* result[g]: "none", "ok", "failed" or, on a closed one, "cut"

vars == <<use, logger, client, made, closed, pc, using, result>>
shared == <<use, logger, client, made, closed>>

GoTo(g, step) == pc' = [pc EXCEPT ![g] = step]
Made == {g \in Callers : made[g] # None}

Init ==
  /\ use \in {"consume", "produce", "serve"}
  /\ logger = Base
  /\ client = None
  /\ made = [g \in Callers |-> None]
  /\ closed = {}
  /\ pc = [g \in Callers |-> "idle"]
  /\ using = [g \in Callers |-> None]
  /\ result = [g \in Callers |-> "none"]

--------------------------------------------------------------------------------
\* Mutant: a request leaves the logger as it is.
SetNothing(g) ==
  /\ use # "serve"
  /\ pc[g] = "idle"
  /\ GoTo(g, "check")
  /\ UNCHANGED <<shared, using, result>>

\* Do of a request sets the logger of the shared client to its own.
SetLogger(g) ==
  /\ use # "serve"
  /\ pc[g] = "idle"
  /\ logger' = g
  /\ GoTo(g, "check")
  /\ UNCHANGED <<use, client, made, closed, using, result>>

\* The Kafka server calls Consume again, until it fails.
NextMessage(g) ==
  /\ use = "serve"
  /\ pc[g] = "idle"
  /\ \A h \in Callers : pc[h] \in {"idle", "done"} /\ result[h] \in {"none", "ok"}
  /\ GoTo(g, "check")
  /\ UNCHANGED <<shared, using, result>>

CheckFor(g, absent) ==
  /\ pc[g] = "check"
  /\ GoTo(g, IF absent THEN "make" ELSE "use")
  /\ UNCHANGED <<shared, using, result>>

\* Mutant: a closed client is replaced, too.
CheckClosed(g) == CheckFor(g, client = None \/ client \in closed)

\* `if c.reader == nil`, `if p.writer == nil`.
Check(g) == CheckFor(g, client = None)

\* The client is made with the logger there is, which joins a group if it is a
\* reader; the field may have been set in between.
Make(g) ==
  /\ pc[g] = "make"
  /\ made' = [made EXCEPT ![g] = logger]
  /\ client' = g
  /\ GoTo(g, "use")
  /\ UNCHANGED <<use, logger, closed, using, result>>

UseOne(g, one) ==
  /\ pc[g] = "use"
  /\ using' = [using EXCEPT ![g] = one]
  /\ GoTo(g, "using")
  /\ UNCHANGED <<shared, result>>

\* Mutant: the client it made is kept in a local variable.
UseOwn(g) == UseOne(g, IF g \in Made THEN g ELSE client)

\* c.reader.ReadMessage, p.writer.WriteMessages: the field is read again.
Use(g) == UseOne(g, client)

Ends(g, res, step) ==
  /\ pc[g] = "using"
  /\ result' = [result EXCEPT ![g] = res]
  /\ GoTo(g, step)
  /\ UNCHANGED <<shared, using>>

\* A message is there and has been committed, or has been sent.
Succeeds(g) == using[g] \notin closed /\ Ends(g, "ok", "done")

\* The read, its commit, or the write fails.
Fails(g) == using[g] \notin closed /\ Ends(g, "failed", "error")

\* The client is closed already, or is being closed meanwhile.
OnClosed(g) == using[g] \in closed /\ Ends(g, "cut", "error")

CloseLeaving(g, left) ==
  /\ use # "produce"
  /\ pc[g] = "error"
  /\ closed' = closed \cup {client}
  /\ client' = left
  /\ GoTo(g, "done")
  /\ UNCHANGED <<use, logger, made, using, result>>

\* Mutant: the reader is reset, so that the next call makes one.
CloseAndReset(g) == CloseLeaving(g, None)

\* Consume closes c.reader, read again, whether or not it is the reader that
\* failed, and leaves it in place.  (The Kafka server, which only calls it from
\* one goroutine, then returns and closes the same reader once more.)
Close(g) == CloseLeaving(g, client)

ReturnErrorAndClose(g, these) ==
  /\ use = "produce"
  /\ pc[g] = "error"
  /\ closed' = closed \cup these
  /\ GoTo(g, "done")
  /\ UNCHANGED <<use, logger, client, made, using, result>>

\* Mutant: Produce closes its writer after an error, as Consume does its reader.
ReturnErrorClosing(g) == ReturnErrorAndClose(g, {client})

\* Produce only returns its error: nobody ever closes a writer.
ReturnError(g) == ReturnErrorAndClose(g, {})

Caller(g) ==
  Check(g) \/ Make(g) \/ Use(g) \/ OnClosed(g) \/ Close(g) \/ ReturnError(g)
Broker(g) == Succeeds(g) \/ Fails(g)

Next ==
  \E g \in Callers : SetLogger(g) \/ NextMessage(g) \/ Caller(g) \/ Broker(g)

Spec == Init /\ [][Next]_vars

--------------------------------------------------------------------------------
TypeOK ==
  /\ use \in {"consume", "produce", "serve"}
  /\ logger \in Callers \cup {Base}
  /\ client \in Callers \cup {None}
  /\ made \in [Callers -> Callers \cup {Base, None}]
  /\ closed \subseteq Made
  /\ pc \in [Callers -> {"idle", "check", "make", "use", "using", "error", "done"}]
  /\ using \in [Callers -> Callers \cup {None}]
  /\ result \in [Callers -> {"none", "ok", "failed", "cut"}]

\* There is a client to use and to close, whatever the race for the field: a nil
\* one is neither used nor closed, and what a call uses has been made.
NoNilClient ==
  \A g \in Callers :
    /\ pc[g] \in {"use", "using", "error"} => client \in Made
    /\ pc[g] \in {"using", "error"} => using[g] \in Made

\* A client logs under the id of a call of a request that had begun when it was
\* made, the Kafka server's under the server's own: none that requests share logs
\* without an id, although the id need not be that of its maker, nor of anyone
\* who uses it (kafkaConsume.go:38, consumer.go:47-53).
LogsUnderACall ==
  \A g \in Made :
    IF use = "serve" THEN made[g] = Base
                     ELSE made[g] \in {h \in Callers : pc[h] # "idle"}

\* A client is only closed under a call by another call of Consume that failed:
\* calls of Produce share their writer through every error, and the Kafka server
\* never reads again from a reader it has closed (consumer.go:59,
\* producer.go:40, kafkaserver.go:73-81).
CutForAReason ==
  \A g \in Callers : result[g] = "cut" =>
    use = "consume" /\ \E h \in Callers : result[h] = "failed"

\* The field has its client for good.
Settled == client # None /\ \A g \in Callers : pc[g] # "make"

\* The first error ends a consumer: Close leaves the closed reader in c.reader,
\* so a call that comes after it never gets a message, from any of the readers
\* (consumer.go:46, 59).
Dead == Settled /\ client \in closed
DeadForGood ==
  \A g \in Callers :
    [](Dead /\ pc[g] \in {"idle", "check"} => [](result[g] # "ok"))

\* A client that lost the race for the field is not closed after the race: it
\* stays in the group, and nobody but the calls already in it uses it.
LostClients == Made \ {client}
LostClientsLeak ==
  [][Settled => /\ closed' \cap LostClients = closed \cap LostClients
                /\ \A g \in Callers : using'[g] \in LostClients =>
                                         using'[g] = using[g]]_vars

===============================================================================
