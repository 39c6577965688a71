------------------------------ MODULE KafkaProofs ------------------------------
(***************************************************************************)
(* Proofs about KafkaServer for any number of messages and crashes, and    *)
(* about KafkaClient for any number of calls on one consumer or producer.  *)
(***************************************************************************)
EXTENDS KafkaClient, KafkaServer, FiniteSetTheorems, TLAPS

--------------------------------------------------------------------------------
(* The loop of the server.                                                 *)

\* Where the loop is relative to the committed offset, and that only committed
\* messages have been handed over.
LoopInv ==
  /\ run = "fetch" => fetched = committed
  /\ run = "commit" => fetched = committed + 1
  /\ run = "start" => fetched = committed /\ fetched > 0 /\ started[fetched] = 0
  /\ \A m \in 1 .. Messages : m > committed => started[m] = 0

ServerIInv == ServerTypeOK /\ LoopInv /\ AtMostOnce /\ LossIsBounded

\* The skipped messages are finitely many.
LEMMA SkippedFinite ==
  ASSUME ServerTypeOK
  PROVE  IsFiniteSet(Skipped) /\ Cardinality(Skipped) \in Nat
  <1>1. committed \in Nat
    BY KafkaServerAssumption DEF ServerTypeOK
  <1>2. IsFiniteSet(1 .. committed)
    BY <1>1, FS_Interval
  <1>3. Skipped \subseteq 1 .. committed
    BY DEF Skipped
  <1> QED
    BY <1>2, <1>3, FS_Subset, FS_CardinalityType

\* A step after which no more messages are skipped keeps the bound.
LEMMA NoNewLoss ==
  ASSUME ServerIInv, ServerTypeOK', Skipped' \subseteq Skipped,
         crashes' + failures' >= crashes + failures
  PROVE  LossIsBounded'
  <1>1. IsFiniteSet(Skipped) /\ Cardinality(Skipped) \in Nat
    BY SkippedFinite DEF ServerIInv
  <1>2. /\ Cardinality(Skipped') <= Cardinality(Skipped)
        /\ Cardinality(Skipped') \in Nat
    BY <1>1, FS_Subset, FS_CardinalityType
  <1>3. /\ Cardinality(Skipped) <= crashes + failures
        /\ crashes \in Nat /\ failures \in Nat
        /\ crashes' \in Nat /\ failures' \in Nat
    BY DEF ServerIInv, LossIsBounded, ServerTypeOK
  <1>4. Cardinality(Skipped') <= crashes' + failures'
    <2>1. \A x, y, p, q \in Nat : x <= y /\ y <= p /\ q >= p => x <= q
      OBVIOUS
    <2>2. \A a, b \in Nat : a + b \in Nat
      OBVIOUS
    <2> QED
      BY <1>1, <1>2, <1>3, <2>1, <2>2
  <1> QED
    BY <1>4 DEF LossIsBounded

\* So does one that skips one more, by a crash or a failure.
LEMMA OneMoreLoss ==
  ASSUME ServerIInv, ServerTypeOK', NEW m, Skipped' \subseteq Skipped \cup {m},
         crashes' + failures' = crashes + failures + 1
  PROVE  LossIsBounded'
  <1>1. IsFiniteSet(Skipped) /\ Cardinality(Skipped) \in Nat
    BY SkippedFinite DEF ServerIInv
  <1>2. /\ IsFiniteSet(Skipped \cup {m})
        /\ Cardinality(Skipped \cup {m}) <= Cardinality(Skipped) + 1
        /\ Cardinality(Skipped \cup {m}) \in Nat
    <2>1. /\ IsFiniteSet(Skipped \cup {m})
          /\ Cardinality(Skipped \cup {m}) = IF m \in Skipped
                                             THEN Cardinality(Skipped)
                                             ELSE Cardinality(Skipped) + 1
      BY <1>1, FS_AddElement
    <2>2. Cardinality(Skipped \cup {m}) \in Nat
      BY <2>1, FS_CardinalityType
    <2> QED
      BY <1>1, <2>1, <2>2
  <1>3. /\ Cardinality(Skipped') <= Cardinality(Skipped \cup {m})
        /\ Cardinality(Skipped') \in Nat
    BY <1>2, FS_Subset, FS_CardinalityType
  <1>4. /\ Cardinality(Skipped) <= crashes + failures
        /\ crashes \in Nat /\ failures \in Nat
        /\ crashes' \in Nat /\ failures' \in Nat
    BY DEF ServerIInv, LossIsBounded, ServerTypeOK
  <1>5. Cardinality(Skipped') <= crashes' + failures'
    <2>1. \A x, y, z, p, q \in Nat :
            x <= y /\ y <= z + 1 /\ z <= p /\ q = p + 1 => x <= q
      OBVIOUS
    <2>2. \A a, b \in Nat : a + b \in Nat
      OBVIOUS
    <2> QED
      BY <1>1, <1>2, <1>3, <1>4, <2>1, <2>2
  <1> QED
    BY <1>5 DEF LossIsBounded

\* A new process on a new topic satisfies it.
LEMMA ServerInitInv == ServerInit => ServerIInv
  <1> SUFFICES ASSUME ServerInit PROVE ServerIInv
    OBVIOUS
  <1>1. ServerTypeOK /\ LoopInv /\ AtMostOnce
    BY KafkaServerAssumption DEF ServerInit, ServerTypeOK, LoopInv, AtMostOnce
  <1>2. Skipped = {}
    BY DEF ServerInit, Skipped
  <1>3. LossIsBounded
    BY <1>2, FS_EmptySet DEF ServerInit, LossIsBounded
  <1> QED
    BY <1>1, <1>3 DEF ServerIInv

\* Each step keeps it; only crashes and failures skip one more message.
LEMMA ServerNextInv == ServerIInv /\ [ServerNext]_serverVars => ServerIInv'
  <1> SUFFICES ASSUME ServerIInv, [ServerNext]_serverVars PROVE ServerIInv'
    OBVIOUS
  <1> USE KafkaServerAssumption
  <1>1. CASE Fetch
    <2>1. ServerTypeOK' /\ LoopInv' /\ AtMostOnce'
      BY <1>1 DEF ServerIInv, ServerTypeOK, LoopInv, AtMostOnce, Fetch, FetchTo
    <2>2. Skipped' \subseteq Skipped
      BY <1>1 DEF Fetch, FetchTo, Skipped, Handing
    <2>3. crashes' + failures' >= crashes + failures
      BY <1>1 DEF Fetch, FetchTo, ServerIInv, ServerTypeOK
    <2> QED
      BY <2>1, <2>2, <2>3, NoNewLoss DEF ServerIInv
  <1>2. CASE Commit
    <2>1. ServerTypeOK' /\ LoopInv' /\ AtMostOnce'
      BY <1>2 DEF ServerIInv, ServerTypeOK, LoopInv, AtMostOnce, Commit
    <2>2. Skipped' \subseteq Skipped
      BY <1>2 DEF ServerIInv, ServerTypeOK, LoopInv, Commit, Skipped, Handing
    <2>3. crashes' + failures' >= crashes + failures
      BY <1>2 DEF Commit, ServerIInv, ServerTypeOK
    <2> QED
      BY <2>1, <2>2, <2>3, NoNewLoss DEF ServerIInv
  <1>3. CASE StartIncoming
    <2>1. ServerTypeOK' /\ LoopInv' /\ AtMostOnce'
      BY <1>3 DEF ServerIInv, ServerTypeOK, LoopInv, AtMostOnce, StartIncoming
    <2>2. Skipped' \subseteq Skipped
      BY <1>3 DEF ServerIInv, ServerTypeOK, LoopInv, StartIncoming, Skipped,
                  Handing
    <2>3. crashes' + failures' >= crashes + failures
      BY <1>3 DEF StartIncoming, ServerIInv, ServerTypeOK
    <2> QED
      BY <2>1, <2>2, <2>3, NoNewLoss DEF ServerIInv
  <1>4. CASE ConsumeFails
    <2>1. ServerTypeOK' /\ LoopInv' /\ AtMostOnce'
      BY <1>4 DEF ServerIInv, ServerTypeOK, LoopInv, AtMostOnce, ConsumeFails
    <2>2. Skipped' \subseteq Skipped \cup {fetched}
      BY <1>4 DEF ServerIInv, ServerTypeOK, LoopInv, ConsumeFails, Skipped,
                  Handing
    <2>3. crashes' + failures' = crashes + failures + 1
      BY <1>4 DEF ConsumeFails, ServerIInv, ServerTypeOK
    <2> QED
      BY <2>1, <2>2, <2>3, OneMoreLoss DEF ServerIInv
  <1>5. CASE Crash
    <2>1. ServerTypeOK' /\ LoopInv' /\ AtMostOnce'
      BY <1>5 DEF ServerIInv, ServerTypeOK, LoopInv, AtMostOnce, Crash
    <2>2. Skipped' \subseteq Skipped \cup {fetched}
      BY <1>5 DEF ServerIInv, ServerTypeOK, Crash, Skipped, Handing
    <2>3. crashes' + failures' = crashes + failures + 1
      BY <1>5 DEF Crash, ServerIInv, ServerTypeOK
    <2> QED
      BY <2>1, <2>2, <2>3, OneMoreLoss DEF ServerIInv
  <1>6. CASE Restart
    <2>1. ServerTypeOK' /\ LoopInv' /\ AtMostOnce'
      BY <1>6 DEF ServerIInv, ServerTypeOK, LoopInv, AtMostOnce, Restart,
                  RestartAt
    <2>2. Skipped' \subseteq Skipped
      BY <1>6 DEF Restart, RestartAt, Skipped, Handing
    <2>3. crashes' + failures' >= crashes + failures
      BY <1>6 DEF Restart, RestartAt, ServerIInv, ServerTypeOK
    <2> QED
      BY <2>1, <2>2, <2>3, NoNewLoss DEF ServerIInv
  <1>7. ASSUME NEW m \in 1 .. Messages, Finish(m)
        PROVE  ServerIInv'
    <2>1. ServerTypeOK' /\ LoopInv' /\ AtMostOnce'
      BY <1>7 DEF ServerIInv, ServerTypeOK, LoopInv, AtMostOnce, Finish
    <2>2. Skipped' \subseteq Skipped
      BY <1>7 DEF Finish, Skipped, Handing
    <2>3. crashes' + failures' >= crashes + failures
      BY <1>7 DEF Finish, ServerIInv, ServerTypeOK
    <2> QED
      BY <2>1, <2>2, <2>3, NoNewLoss DEF ServerIInv
  <1>8. CASE UNCHANGED serverVars
    BY <1>8 DEF serverVars, ServerIInv, ServerTypeOK, LoopInv, AtMostOnce,
                LossIsBounded, Skipped, Handing
  <1> QED
    BY <1>1, <1>2, <1>3, <1>4, <1>5, <1>6, <1>7, <1>8 DEF ServerNext, Loop

\* The strengthening holds in every behaviour of KafkaServer.
THEOREM ServerInductive == ServerSpec => []ServerIInv
  BY ServerInitInv, ServerNextInv, PTL DEF ServerSpec

\* No message is handed over twice, for any number of messages, crashes and
\* failed commits (Run of kafkaserver.go, Consume of consumer.go).
THEOREM HandedOverOnce == ServerSpec => []AtMostOnce
  <1>1. ServerIInv => AtMostOnce
    BY DEF ServerIInv
  <1> QED
    BY <1>1, ServerInductive, PTL

\* Each crash and each failure costs at most one message that is never handed
\* over.
THEOREM LossBounded == ServerSpec => []LossIsBounded
  <1>1. ServerIInv => LossIsBounded
    BY DEF ServerIInv
  <1> QED
    BY <1>1, ServerInductive, PTL

\* KafkaServer is type correct: it never gets past the last message, also when
\* it reads on from the committed offset after a crash.
THEOREM ServerTypeCorrect == ServerSpec => []ServerTypeOK
  <1>1. ServerIInv => ServerTypeOK
    BY DEF ServerIInv
  <1> QED
    BY <1>1, ServerInductive, PTL

--------------------------------------------------------------------------------
(* The client behind Consume and Produce.                                  *)

Begun == {g \in Callers : pc[g] # "idle"}

\* What stands in the field has been made, and what a call goes on with is not
\* nil, although the field is read again after the check.
ClientInv == (client # None => client \in Made) /\ NoNilClient

\* The logger there is belongs to a call that has begun, as soon as one has.
LoggerInv ==
  /\ use = "serve" => logger = Base
  /\ use # "serve" /\ Begun # {} => logger \in Begun
  /\ LogsUnderACall

\* A call has no result before it ends.
ResultInv ==
  \A g \in Callers :
    pc[g] \in {"idle", "check", "make", "use", "using"} => result[g] = "none"

\* Only Consume closes, after an error that began with a failed call, and the
\* Kafka server, which has one call at a time, does not call again.
Active == {g \in Callers : pc[g] \notin {"idle", "done"}}
SomeFailed == \E g \in Callers : result[g] = "failed"
CloseInv ==
  /\ CutForAReason
  /\ closed # {} => use # "produce" /\ SomeFailed
  /\ \A g \in Callers : pc[g] = "error" => SomeFailed
  /\ use = "serve" => /\ closed # {} => Active = {}
                      /\ \A g, h \in Active : g = h

\* The invariants of KafkaClient, made inductive.
ClientIInv == TypeOK /\ ClientInv /\ LoggerInv /\ ResultInv

USE DEF Made, GoTo, shared

\* A new consumer or producer satisfies it.
LEMMA ClientInit == Init => ClientIInv
BY ClientAssumption
   DEF Init, ClientIInv, TypeOK, ClientInv, NoNilClient, LoggerInv, Begun,
       LogsUnderACall, ResultInv

\* Each step of a call keeps it, in every order of the steps of all of them.
LEMMA ClientStep == ClientIInv /\ [Next]_vars => ClientIInv'
<1> SUFFICES ASSUME ClientIInv, [Next]_vars PROVE ClientIInv'
  OBVIOUS
<1> USE ClientAssumption
    DEF ClientIInv, TypeOK, ClientInv, NoNilClient, LoggerInv, Begun,
        LogsUnderACall, ResultInv
<1>1. CASE UNCHANGED vars
  BY <1>1 DEF vars
<1>2. ASSUME NEW g \in Callers, SetLogger(g) PROVE ClientIInv'
  BY <1>2 DEF SetLogger
<1>3. ASSUME NEW g \in Callers, NextMessage(g) PROVE ClientIInv'
  BY <1>3 DEF NextMessage
<1>4. ASSUME NEW g \in Callers, Check(g) PROVE ClientIInv'
  BY <1>4 DEF Check, CheckFor
<1>5. ASSUME NEW g \in Callers, Make(g) PROVE ClientIInv'
  BY <1>5 DEF Make
<1>6. ASSUME NEW g \in Callers, Use(g) PROVE ClientIInv'
  BY <1>6 DEF Use, UseOne
<1>7. ASSUME NEW g \in Callers, Succeeds(g) \/ Fails(g) PROVE ClientIInv'
  BY <1>7 DEF Succeeds, Fails, Ends
<1>8. ASSUME NEW g \in Callers, OnClosed(g) PROVE ClientIInv'
  BY <1>8 DEF OnClosed, Ends
<1>9. ASSUME NEW g \in Callers, Close(g) PROVE ClientIInv'
  BY <1>9 DEF Close, CloseLeaving
<1>10. ASSUME NEW g \in Callers, ReturnError(g) PROVE ClientIInv'
  BY <1>10 DEF ReturnError, ReturnErrorAndClose
<1> QED
  BY <1>1, <1>2, <1>3, <1>4, <1>5, <1>6, <1>7, <1>8, <1>9, <1>10
     DEF Next, Caller, Broker

\* The strengthening holds in every behaviour of KafkaClient.
THEOREM ClientInductive == Spec => []ClientIInv
BY ClientInit, ClientStep, PTL DEF Spec

\* So does what is known of closed clients.
LEMMA CloseInit == Init => CloseInv
BY DEF Init, CloseInv, CutForAReason, Active

\* A result stays; so does a failure.
LEMMA FailureStays ==
  ASSUME ClientIInv, [Next]_vars, SomeFailed PROVE SomeFailed'
<1>1. PICK h \in Callers : result[h] = "failed"
  BY DEF SomeFailed
<1>2. result'[h] = "failed"
  <2> USE DEF ClientIInv, TypeOK, ResultInv
  <2>1. CASE UNCHANGED result
    BY <1>1, <2>1
  <2>2. ASSUME NEW g \in Callers, NEW res, NEW step, Ends(g, res, step)
        PROVE  result'[h] = "failed"
    BY <1>1, <2>2 DEF Ends
  <2> QED
    BY <2>1, <2>2
       DEF Next, Caller, Broker, SetLogger, NextMessage, Check, CheckFor, Make,
           Use, UseOne, OnClosed, Close, CloseLeaving, ReturnError,
           ReturnErrorAndClose, Succeeds, Fails, vars
<1> QED
  BY <1>1, <1>2 DEF SomeFailed

LEMMA CloseStep == ClientIInv /\ CloseInv /\ [Next]_vars => CloseInv'
<1> SUFFICES ASSUME ClientIInv, CloseInv, [Next]_vars PROVE CloseInv'
  OBVIOUS
<1>0. SomeFailed => SomeFailed'
  BY FailureStays
<1> USE <1>0 DEF ClientIInv, TypeOK, ResultInv, CloseInv, CutForAReason, Active
<1>1. CASE UNCHANGED vars
  BY <1>1 DEF vars, SomeFailed
<1>2. ASSUME NEW g \in Callers, SetLogger(g) PROVE CloseInv'
  BY <1>2 DEF SetLogger, SomeFailed
<1>3. ASSUME NEW g \in Callers, NextMessage(g) PROVE CloseInv'
  <2>1. ~SomeFailed /\ Active = {}
    BY <1>3 DEF NextMessage, SomeFailed
  <2> QED
    BY <1>3, <2>1 DEF NextMessage, SomeFailed
<1>4. ASSUME NEW g \in Callers, Check(g) \/ Make(g) \/ Use(g) PROVE CloseInv'
  BY <1>4 DEF Check, CheckFor, Make, Use, UseOne, SomeFailed
<1>5. ASSUME NEW g \in Callers, Succeeds(g) PROVE CloseInv'
  BY <1>5 DEF Succeeds, Ends, SomeFailed
<1>6. ASSUME NEW g \in Callers, Fails(g) PROVE CloseInv'
  <2>1. SomeFailed'
    BY <1>6 DEF Fails, Ends, SomeFailed
  <2> QED
    BY <1>6, <2>1 DEF Fails, Ends, SomeFailed
<1>7. ASSUME NEW g \in Callers, OnClosed(g) PROVE CloseInv'
  <2>1. use = "consume" /\ SomeFailed
    BY <1>7 DEF OnClosed, Ends
  <2> QED
    BY <1>7, <2>1 DEF OnClosed, Ends, SomeFailed
<1>8. ASSUME NEW g \in Callers, Close(g) PROVE CloseInv'
  <2>1. use # "produce" /\ SomeFailed
    BY <1>8 DEF Close, CloseLeaving
  <2> QED
    BY <1>8, <2>1 DEF Close, CloseLeaving, SomeFailed
<1>9. ASSUME NEW g \in Callers, ReturnError(g) PROVE CloseInv'
  BY <1>9 DEF ReturnError, ReturnErrorAndClose, SomeFailed
<1> QED
  BY <1>1, <1>2, <1>3, <1>4, <1>5, <1>6, <1>7, <1>8, <1>9
     DEF Next, Caller, Broker

\* No call finds its client closed unless another call of Consume failed: the
\* calls of Produce and the Kafka server's never do (consumer.go:59,
\* producer.go:40, kafkaserver.go:73-81).
THEOREM CutsHaveReasons == Spec => []CutForAReason
<1>1. CloseInv => CutForAReason
  BY DEF CloseInv
<1> QED
  BY <1>1, ClientInductive, CloseInit, CloseStep, PTL DEF Spec

\* KafkaClient is type correct: only clients that were made are ever closed.
THEOREM ClientTypeCorrect == Spec => []TypeOK
<1>1. ClientIInv => TypeOK
  BY DEF ClientIInv
<1> QED
  BY <1>1, ClientInductive, PTL

\* No call uses or closes a nil client, however many race for the field
\* (consumer.go:46-59, producer.go:29-37).
THEOREM NeverNil == Spec => []NoNilClient
<1>1. ClientIInv => NoNilClient
  BY DEF ClientIInv, ClientInv
<1> QED
  BY <1>1, ClientInductive, PTL

\* Whoever sets the logger while whoever makes a client, the client logs under a
\* call that has begun (kafkaConsume.go:38, consumer.go:51).
THEOREM LoggerOfACall == Spec => []LogsUnderACall
<1>1. ClientIInv => LogsUnderACall
  BY DEF ClientIInv, LoggerInv
<1> QED
  BY <1>1, ClientInductive, PTL

--------------------------------------------------------------------------------
\* A client that lost the race is neither closed nor taken up by anyone: both
\* Use and Close go to the field (consumer.go:57, 59).
THEOREM LostLeak == Spec => LostClientsLeak
<1>1. ASSUME ClientIInv, Next
      PROVE  Settled => /\ closed' \cap LostClients = closed \cap LostClients
                        /\ \A g \in Callers : using'[g] \in LostClients =>
                                                 using'[g] = using[g]
  <2> USE <1>1 DEF ClientIInv, TypeOK, Settled, LostClients
  <2>1. PICK h \in Callers :
          SetLogger(h) \/ NextMessage(h) \/ Caller(h) \/ Broker(h)
    BY DEF Next
  <2>2. CASE Use(h)
    BY <2>2 DEF Use, UseOne
  <2>3. CASE Close(h)
    BY <2>3 DEF Close, CloseLeaving
  <2>4. CASE ReturnError(h)
    BY <2>4 DEF ReturnError, ReturnErrorAndClose
  <2>5. CASE \/ SetLogger(h) \/ NextMessage(h) \/ Check(h) \/ Make(h)
             \/ OnClosed(h) \/ Broker(h)
    BY <2>5 DEF SetLogger, NextMessage, Check, CheckFor, Make, OnClosed, Broker,
                Succeeds, Fails, Ends
  <2> QED
    BY <2>1, <2>2, <2>3, <2>4, <2>5 DEF Caller
<1>2. ClientIInv /\ [Next]_vars =>
        [Settled => /\ closed' \cap LostClients = closed \cap LostClients
                    /\ \A g \in Callers : using'[g] \in LostClients =>
                                             using'[g] = using[g]]_vars
  BY <1>1
<1> QED
  BY <1>2, ClientInductive, PTL DEF Spec, LostClientsLeak

\* A call that starts on a client that is closed and stays.
Doomed(g) ==
  /\ Dead
  /\ result[g] # "ok"
  /\ pc[g] = "using" => using[g] \in closed

\* It stays doomed: the closed client is the only one it will find.
LEMMA StaysDoomed ==
  ASSUME NEW g \in Callers, ClientIInv, Doomed(g), [Next]_vars PROVE Doomed(g)'
<1> USE DEF ClientIInv, TypeOK, Doomed, Dead, Settled
<1>1. CASE UNCHANGED vars
  BY <1>1 DEF vars
<1>2. ASSUME NEW h \in Callers, Use(h) PROVE Doomed(g)'
  BY <1>2 DEF Use, UseOne
<1>3. ASSUME NEW h \in Callers, Check(h) PROVE Doomed(g)'
  BY <1>3 DEF Check, CheckFor
<1>4. ASSUME NEW h \in Callers, Make(h) PROVE Doomed(g)'
  BY <1>4 DEF Make
<1>5. ASSUME NEW h \in Callers, Close(h) \/ ReturnError(h) PROVE Doomed(g)'
  BY <1>5 DEF Close, CloseLeaving, ReturnError, ReturnErrorAndClose
<1>6. ASSUME NEW h \in Callers, OnClosed(h) \/ Broker(h) PROVE Doomed(g)'
  BY <1>6 DEF OnClosed, Broker, Succeeds, Fails, Ends
<1>7. ASSUME NEW h \in Callers, SetLogger(h) \/ NextMessage(h) PROVE Doomed(g)'
  BY <1>7 DEF SetLogger, NextMessage
<1> QED
  BY <1>1, <1>2, <1>3, <1>4, <1>5, <1>6, <1>7 DEF Next, Caller

\* The first error ends a consumer for good (consumer.go:46, 59).
THEOREM DeadStaysDead == Spec => DeadForGood
<1> SUFFICES ASSUME NEW g \in Callers
             PROVE  Spec => [](Dead /\ pc[g] \in {"idle", "check"}
                                 => [](result[g] # "ok"))
  BY DEF DeadForGood
<1>1. ClientIInv /\ Dead /\ pc[g] \in {"idle", "check"} => Doomed(g)
  BY DEF ClientIInv, ResultInv, Doomed
<1>2. ClientIInv /\ Doomed(g) /\ [Next]_vars => Doomed(g)'
  BY StaysDoomed
<1>3. Doomed(g) => result[g] # "ok"
  BY DEF Doomed
<1> QED
  BY <1>1, <1>2, <1>3, ClientInductive, PTL DEF Spec
================================================================================
