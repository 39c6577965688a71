----------------------------- MODULE ServingProofs -----------------------------
(***************************************************************************)
(* Proofs about Serving for any calls, servers and request lists.          *)
(***************************************************************************)
EXTENDS Serving, FiniteSetTheorems, TLAPS

\* The slots the loop of doRequests has passed.
Passed(c) ==
  {s \in Slots(kind[c]) : s[1] < row[c] \/ (s[1] = row[c] /\ s[2] < copy[c])}

\* What has been started is what the loop has passed, and the wait group
\* counts what is still running.
CountInv(c) ==
  /\ IsFiniteSet(running[c])
  /\ wg[c] = Cardinality(running[c])
  /\ running[c] \cap returned[c] = {}
  /\ running[c] \cup returned[c] = Passed(c)

\* How far the loop can be in each state of doRequests.
LoopInv(c) ==
  /\ row[c] <= Len(Requests[kind[c]]) + 1
  /\ \A r \in 1 .. row[c] - 1 : Requests[kind[c]][r] # NilRequest
  /\ fan[c] = "off" => row[c] = 1 /\ copy[c] = 0
  /\ fan[c] = "done" => row[c] > Len(Requests[kind[c]]) /\ running[c] = {}
  /\ fan[c] = "panicked" =>
       /\ row[c] <= Len(Requests[kind[c]])
       /\ Entry(c) = NilRequest
       /\ copy[c] = 0
  /\ row[c] <= Len(Requests[kind[c]]) /\ Entry(c) = NilRequest => copy[c] = 0

\* How far the handler and its doRequests can be apart.
HandlerInv(c) ==
  /\ handler[c] \in {"idle", "requests"} <=> fan[c] = "off"
  /\ handler[c] = "fanout" => Sync(kind[c]) /\ fan[c] \in {"loop", "panicked"}
  /\ Sync(kind[c]) /\ fan[c] = "loop" => handler[c] = "fanout"
  /\ Sync(kind[c]) /\ handler[c] \in {"sql", "workload", "done"} => fan[c] = "done"
  /\ handler[c] = "read" => kind[c] = "tcp"
  /\ handler[c] = "aborted" <=> kind[c] = "http" /\ fan[c] = "panicked"
  /\ sql[c] # "none" => handler[c] \in {"read", "workload", "done"}
  /\ reply[c] # "none" => handler[c] = "done" /\ Sync(kind[c])

IInv ==
  /\ TypeOK
  /\ \A c \in Calls : CountInv(c) /\ LoopInv(c) /\ HandlerInv(c)

--------------------------------------------------------------------------------
(* Facts about the constants.                                              *)

\* A list is a finite sequence of counts and nil entries.
LEMMA ListType ==
  ASSUME NEW k \in Kinds
  PROVE  /\ Len(Requests[k]) \in Nat
         /\ DOMAIN Requests[k] = 1 .. Len(Requests[k])
         /\ \A r \in 1 .. Len(Requests[k]) :
              Requests[k][r] # NilRequest => Requests[k][r] \in Nat
  <1>1. Requests[k] \in Seq(Nat \cup {NilRequest})
    BY RequestsAssumption
  <1> QED
    BY <1>1

\* Membership in Slots, spelled out.
LEMMA SlotElement ==
  ASSUME NEW k \in Kinds, NEW s
  PROVE  s \in Slots(k) <=>
           \E r \in 1 .. Len(Requests[k]) : \E i \in Nat :
             /\ Requests[k][r] # NilRequest
             /\ i < Requests[k][r]
             /\ s = <<r, i>>
  <1>1. ASSUME s \in Slots(k)
        PROVE  \E r \in 1 .. Len(Requests[k]) : \E i \in Nat :
                 Requests[k][r] # NilRequest /\ i < Requests[k][r] /\ s = <<r, i>>
    <2>1. PICK r \in DOMAIN Requests[k] :
            Requests[k][r] # NilRequest /\ s \in {r} \X (0 .. Requests[k][r] - 1)
      BY <1>1 DEF Slots
    <2>2. PICK i \in 0 .. Requests[k][r] - 1 : s = <<r, i>>
      BY <2>1
    <2> QED
      BY <2>1, <2>2, ListType
  <1>2. ASSUME NEW r \in 1 .. Len(Requests[k]), NEW i \in Nat,
               Requests[k][r] # NilRequest, i < Requests[k][r], s = <<r, i>>
        PROVE  s \in Slots(k)
    <2>1. r \in {q \in DOMAIN Requests[k] : Requests[k][q] # NilRequest}
      BY <1>2, ListType
    <2>2. s \in {r} \X (0 .. Requests[k][r] - 1)
      BY <1>2, ListType
    <2> QED
      BY <2>1, <2>2 DEF Slots
  <1> QED
    BY <1>1, <1>2

\* The flows of the four handlers, step by step.
LEMMA FlowSteps ==
  ASSUME NEW k \in Kinds
  PROVE  /\ Flow[k]["requests"] = IF Sync(k) THEN "fanout" ELSE "sql"
         /\ Sync(k) => Flow[k]["fanout"] = "sql"
         /\ Flow[k]["sql"] = IF k = "tcp" THEN "read" ELSE "workload"
         /\ k = "tcp" => Flow[k]["read"] = "workload"
         /\ Flow[k]["workload"] = "done"
  <1>1. k \in {"http", "grpc", "tcp", "kafka"}
    BY RequestsAssumption
  <1>2. CASE k = "http"
    BY <1>2 DEF Flow, HttpFlow, Sync
  <1>3. CASE k = "grpc"
    BY <1>3 DEF Flow, GrpcFlow, Sync
  <1>4. CASE k = "tcp"
    BY <1>4 DEF Flow, TcpFlow, Sync
  <1>5. CASE k = "kafka"
    BY <1>5 DEF Flow, KafkaFlow, Sync
  <1> QED
    BY <1>1, <1>2, <1>3, <1>4, <1>5

--------------------------------------------------------------------------------
(* The invariant holds initially and every action preserves it.            *)

LEMMA InitInv == Init => IInv
  <1> SUFFICES ASSUME Init PROVE IInv
    OBVIOUS
  <1>1. TypeOK
    BY DEF Init, TypeOK
  <1>2. ASSUME NEW c \in Calls
        PROVE  CountInv(c) /\ LoopInv(c) /\ HandlerInv(c)
    <2>1. kind[c] \in Kinds /\ Len(Requests[kind[c]]) \in Nat
      BY <1>1, ListType DEF TypeOK
    <2>2. Passed(c) = {}
      BY <2>1, SlotElement DEF Passed, Init
    <2>3. CountInv(c)
      BY <2>2, FS_EmptySet DEF CountInv, Init
    <2>4. LoopInv(c) /\ HandlerInv(c)
      BY <2>1 DEF LoopInv, HandlerInv, Init
    <2> QED
      BY <2>3, <2>4
  <1> QED
    BY <1>1, <1>2 DEF IInv

\* A step that leaves doRequests alone keeps what is said of it.
LEMMA FanUntouched ==
  ASSUME IInv, UNCHANGED <<kind, fanVars>>, NEW c \in Calls
  PROVE  CountInv(c)' /\ LoopInv(c)'
  <1> USE DEF IInv, fanVars
  <1>1. CountInv(c)'
    BY DEF CountInv, Passed
  <1>2. LoopInv(c)'
    BY DEF LoopInv, Entry
  <1> QED
    BY <1>1, <1>2

\* The steps of a handler outside doRequests.
LEMMA HandlerSteps ==
  ASSUME IInv, proc = "up", NEW c \in Calls,
         Accept(c) \/ StartSql(c) \/ ReadEnds(c) \/ RunWorkload(c) \/ SqlReturns(c)
  PROVE  IInv'
  <1>1. kind[c] \in Kinds
    BY DEF IInv, TypeOK
  <1>2. UNCHANGED <<kind, fanVars, proc>>
    BY DEF Accept, StartSql, ReadEnds, RunWorkload, SqlReturns
  <1>3. TypeOK'
    <2>1. CASE Accept(c)
      BY <2>1 DEF IInv, TypeOK, Accept, fanVars
    <2>2. CASE StartSql(c)
      BY <2>2, <1>1, FlowSteps DEF IInv, TypeOK, StartSql, Advance, fanVars
    <2>3. CASE ReadEnds(c)
      BY <2>3, <1>1, FlowSteps DEF IInv, TypeOK, ReadEnds, Advance, fanVars,
         HandlerInv
    <2>4. CASE RunWorkload(c)
      BY <2>4, <1>1, FlowSteps, ServingAssumption
         DEF IInv, TypeOK, RunWorkload, Advance, fanVars
    <2>5. CASE SqlReturns(c)
      BY <2>5 DEF IInv, TypeOK, SqlReturns, fanVars
    <2> QED
      BY <2>1, <2>2, <2>3, <2>4, <2>5
  <1>4. ASSUME NEW d \in Calls
        PROVE  HandlerInv(d)'
    <2>1. HandlerInv(d) /\ HandlerInv(c) /\ TypeOK
      BY DEF IInv
    <2>2. CASE Accept(c)
      BY <2>1, <2>2 DEF HandlerInv, TypeOK, Accept, fanVars
    <2>3. CASE StartSql(c)
      BY <2>1, <2>3, <1>1, FlowSteps DEF HandlerInv, TypeOK, StartSql, Advance,
         fanVars, Sync
    <2>4. CASE ReadEnds(c)
      BY <2>1, <2>4, <1>1, FlowSteps DEF HandlerInv, TypeOK, ReadEnds, Advance,
         fanVars, Sync
    <2>5. CASE RunWorkload(c)
      BY <2>1, <2>5, <1>1, FlowSteps DEF HandlerInv, TypeOK, RunWorkload,
         Advance, fanVars, Sync
    <2>6. CASE SqlReturns(c)
      BY <2>1, <2>6 DEF HandlerInv, TypeOK, SqlReturns, fanVars
    <2> QED
      BY <2>2, <2>3, <2>4, <2>5, <2>6
  <1> QED
    BY <1>2, <1>3, <1>4, FanUntouched DEF IInv

\* What is said of a call only depends on that call's own state.
LEMMA OtherCalls ==
  ASSUME NEW d \in Calls, CountInv(d), LoopInv(d), HandlerInv(d),
         kind'[d] = kind[d], handler'[d] = handler[d], reply'[d] = reply[d],
         fan'[d] = fan[d], row'[d] = row[d], copy'[d] = copy[d],
         wg'[d] = wg[d], running'[d] = running[d],
         returned'[d] = returned[d], sql'[d] = sql[d]
  PROVE  CountInv(d)' /\ LoopInv(d)' /\ HandlerInv(d)'
  <1>1. CountInv(d)'
    BY DEF CountInv, Passed
  <1>2. LoopInv(d)'
    BY DEF LoopInv, Entry
  <1>3. HandlerInv(d)'
    BY DEF HandlerInv
  <1> QED
    BY <1>1, <1>2, <1>3

LEMMA CallRequestsStep ==
  ASSUME IInv, proc = "up", NEW c \in Calls, CallRequests(c)
  PROVE  IInv'
  <1>1. kind[c] \in Kinds /\ CountInv(c) /\ LoopInv(c) /\ HandlerInv(c) /\ TypeOK
    BY DEF IInv, TypeOK
  <1>2. fan[c] = "off" /\ row[c] = 1 /\ copy[c] = 0
    BY <1>1 DEF CallRequests, HandlerInv, LoopInv
  <1>3. TypeOK'
    BY <1>1, FlowSteps DEF TypeOK, CallRequests, Advance
  <1>4. CountInv(c)'
    BY <1>1 DEF CallRequests, CountInv, Passed
  <1>5. LoopInv(c)'
    BY <1>1, <1>2 DEF CallRequests, LoopInv, Entry, TypeOK
  <1>6. HandlerInv(c)'
    BY <1>1, FlowSteps DEF CallRequests, Advance, HandlerInv, TypeOK, Sync
  <1>7. ASSUME NEW d \in Calls, d # c
        PROVE  CountInv(d)' /\ LoopInv(d)' /\ HandlerInv(d)'
    BY <1>1, <1>7, OtherCalls DEF IInv, TypeOK, CallRequests, Advance
  <1> QED
    BY <1>3, <1>4, <1>5, <1>6, <1>7 DEF IInv

\* The slot the loop is about to start has not been passed; starting it is
\* passing it, and it is one more goroutine.
LEMMA SpawnStep ==
  ASSUME IInv, proc = "up", NEW c \in Calls, Spawn(c)
  PROVE  IInv'
  <1> DEFINE s == <<row[c], copy[c]>>
  <1>1. kind[c] \in Kinds /\ CountInv(c) /\ LoopInv(c) /\ HandlerInv(c) /\ TypeOK
    BY DEF IInv, TypeOK
  <1>2. /\ row[c] \in 1 .. Len(Requests[kind[c]])
        /\ copy[c] \in Nat
        /\ fan[c] = "loop"
        /\ Entry(c) \in Nat
        /\ copy[c] < Entry(c)
    BY <1>1, ListType DEF Spawn, SpawnWhile, InLoop, Entry, TypeOK
  <1>3. TypeOK'
    BY <1>1, <1>2 DEF TypeOK, Spawn, SpawnWhile
  <1>4. s \notin Passed(c)
    BY <1>2 DEF Passed
  <1>5. Passed(c)' = Passed(c) \cup {s}
    <2>1. kind' = kind /\ row' = row /\ copy'[c] = copy[c] + 1
      BY <1>1 DEF Spawn, SpawnWhile, TypeOK
    <2>2. s \in Slots(kind[c])
      BY <1>1, <1>2, SlotElement DEF Spawn, SpawnWhile, Entry
    <2>3. ASSUME NEW t \in Slots(kind[c]), t[1] = row[c], t[2] < copy[c] + 1
          PROVE  t[2] < copy[c] \/ t = s
      <3>1. PICK r \in Nat, i \in Nat : t = <<r, i>>
        BY <1>1, SlotElement, ListType
      <3> QED
        BY <3>1, <2>3, <1>2
    <2>4. ASSUME NEW t \in Slots(kind[c]), t[2] < copy[c]
          PROVE  t[2] < copy[c] + 1
      <3>1. PICK r \in Nat, i \in Nat : t = <<r, i>>
        BY <1>1, SlotElement, ListType
      <3> QED
        BY <3>1, <2>4, <1>2
    <2>5. Passed(c)' = {t \in Slots(kind[c]) :
                          t[1] < row[c] \/ (t[1] = row[c] /\ t[2] < copy[c] + 1)}
      BY <2>1 DEF Passed
    <2> QED
      BY <2>2, <2>3, <2>4, <2>5, <1>2 DEF Passed
  <1>6. CountInv(c)'
    <2>1. running'[c] = running[c] \cup {s} /\ wg'[c] = wg[c] + 1 /\ returned' = returned
      BY <1>1 DEF Spawn, SpawnWhile, TypeOK
    <2>2. s \notin running[c] /\ s \notin returned[c]
      BY <1>1, <1>4 DEF CountInv
    <2>3. /\ IsFiniteSet(running[c] \cup {s})
          /\ Cardinality(running[c] \cup {s}) = Cardinality(running[c]) + 1
      BY <1>1, <2>2, FS_AddElement DEF CountInv
    <2> QED
      BY <1>1, <1>5, <2>1, <2>2, <2>3 DEF CountInv
  <1>7. LoopInv(c)'
    BY <1>1, <1>2, ListType DEF Spawn, SpawnWhile, LoopInv, Entry, TypeOK
  <1>8. HandlerInv(c)'
    BY <1>1 DEF Spawn, SpawnWhile, HandlerInv
  <1>9. ASSUME NEW d \in Calls, d # c
        PROVE  CountInv(d)' /\ LoopInv(d)' /\ HandlerInv(d)'
    BY <1>1, <1>9, OtherCalls DEF IInv, TypeOK, Spawn, SpawnWhile
  <1> QED
    BY <1>3, <1>6, <1>7, <1>8, <1>9 DEF IInv

\* Going on with the next request passes no further slot: the inner loop has
\* been through all of this one's.
LEMMA NextRequestStep ==
  ASSUME IInv, proc = "up", NEW c \in Calls, NextRequest(c)
  PROVE  IInv'
  <1>1. kind[c] \in Kinds /\ CountInv(c) /\ LoopInv(c) /\ HandlerInv(c) /\ TypeOK
    BY DEF IInv, TypeOK
  <1>2. /\ row[c] \in 1 .. Len(Requests[kind[c]])
        /\ copy[c] \in Nat
        /\ fan[c] = "loop"
        /\ Entry(c) \in Nat
        /\ copy[c] >= Entry(c)
        /\ Len(Requests[kind[c]]) \in Nat
    BY <1>1, ListType DEF NextRequest, NextRequestWhen, InLoop, Entry, TypeOK
  <1>3. TypeOK'
    BY <1>1, <1>2 DEF TypeOK, NextRequest, NextRequestWhen
  <1>4. kind' = kind /\ row'[c] = row[c] + 1 /\ copy'[c] = 0
    BY <1>1 DEF NextRequest, NextRequestWhen, TypeOK
  <1>5. Passed(c)' = Passed(c)
    <2>1. ASSUME NEW t \in Slots(kind[c])
          PROVE  (t[1] < row[c] + 1 \/ (t[1] = row[c] + 1 /\ t[2] < 0)) <=>
                 (t[1] < row[c] \/ (t[1] = row[c] /\ t[2] < copy[c]))
      <3>1. PICK r \in 1 .. Len(Requests[kind[c]]), i \in Nat :
              i < Requests[kind[c]][r] /\ t = <<r,
              i>> /\ Requests[kind[c]][r] \in Nat
        BY <1>1, SlotElement, ListType
      <3> QED
        BY <3>1, <1>2 DEF Entry
    <2> QED
      BY <2>1, <1>4 DEF Passed
  <1>6. CountInv(c)'
    BY <1>1, <1>5 DEF CountInv, NextRequest, NextRequestWhen
  <1>7. LoopInv(c)'
    BY <1>1, <1>2, <1>4 DEF NextRequest, NextRequestWhen, LoopInv, Entry
  <1>8. HandlerInv(c)'
    BY <1>1 DEF NextRequest, NextRequestWhen, HandlerInv
  <1>9. ASSUME NEW d \in Calls, d # c
        PROVE  CountInv(d)' /\ LoopInv(d)' /\ HandlerInv(d)'
    BY <1>1, <1>9, OtherCalls DEF IInv, TypeOK, NextRequest, NextRequestWhen
  <1> QED
    BY <1>3, <1>6, <1>7, <1>8, <1>9 DEF IInv

LEMMA NilPanicStep ==
  ASSUME IInv, proc = "up", NEW c \in Calls, NilPanic(c)
  PROVE  IInv'
  <1>1. kind[c] \in Kinds /\ CountInv(c) /\ LoopInv(c) /\ HandlerInv(c) /\ TypeOK
    BY DEF IInv, TypeOK
  <1>2. fan[c] = "loop" /\ fan'[c] = "panicked" /\ kind' = kind
    BY <1>1 DEF NilPanic, Recovered, InLoop, TypeOK
  <1>3. TypeOK'
    BY <1>1 DEF TypeOK, NilPanic, Recovered
  <1>4. CountInv(c)'
    BY <1>1 DEF CountInv, Passed, NilPanic, Recovered
  <1>5. LoopInv(c)'
    BY <1>1, <1>2 DEF NilPanic, Recovered, InLoop, LoopInv, Entry
  <1>6. HandlerInv(c)'
    <2>1. CASE kind[c] = "http"
      BY <1>1, <1>2, <2>1 DEF NilPanic, Recovered, HandlerInv, TypeOK, Sync
    <2>2. CASE kind[c] # "http"
      BY <1>1, <1>2, <2>2 DEF NilPanic, Recovered, HandlerInv, TypeOK, Sync
    <2> QED
      BY <2>1, <2>2
  <1>7. ASSUME NEW d \in Calls, d # c
        PROVE  CountInv(d)' /\ LoopInv(d)' /\ HandlerInv(d)'
    BY <1>1, <1>7, OtherCalls DEF IInv, TypeOK, NilPanic, Recovered
  <1> QED
    BY <1>3, <1>4, <1>5, <1>6, <1>7 DEF IInv

\* The wait group being at zero means that nothing is running.
LEMMA WaitReturnsStep ==
  ASSUME IInv, proc = "up", NEW c \in Calls, WaitReturns(c)
  PROVE  IInv'
  <1>1. kind[c] \in Kinds /\ CountInv(c) /\ LoopInv(c) /\ HandlerInv(c) /\ TypeOK
    BY DEF IInv, TypeOK
  <1>2. running[c] = {}
    BY <1>1, FS_EmptySet DEF WaitReturns, FanReturns, CountInv
  <1>3. fan[c] = "loop" /\ fan'[c] = "done" /\ kind' = kind
    BY <1>1 DEF WaitReturns, FanReturns, TypeOK
  <1>4. Sync(kind[c]) => handler[c] = "fanout"
    BY <1>1, <1>3 DEF HandlerInv
  <1>5. TypeOK'
    <2>1. CASE Sync(kind[c])
      <3>1. handler' = [handler EXCEPT ![c] = "sql"]
        BY <1>1, <1>4, <2>1, FlowSteps DEF WaitReturns, FanReturns, Advance
      <3> QED
        BY <1>1, <3>1 DEF TypeOK, WaitReturns, FanReturns
    <2>2. CASE ~Sync(kind[c])
      BY <1>1, <2>2 DEF TypeOK, WaitReturns, FanReturns
    <2> QED
      BY <2>1, <2>2
  <1>6. CountInv(c)'
    BY <1>1 DEF CountInv, Passed, WaitReturns, FanReturns
  <1>7. LoopInv(c)'
    BY <1>1, <1>2, <1>3, ListType
       DEF WaitReturns, FanReturns, LoopInv, Entry, TypeOK
  <1>8. HandlerInv(c)'
    BY <1>1, <1>3, <1>4, FlowSteps
       DEF WaitReturns, FanReturns, Advance, HandlerInv, TypeOK, Sync
  <1>9. ASSUME NEW d \in Calls, d # c
        PROVE  CountInv(d)' /\ LoopInv(d)' /\ HandlerInv(d)'
    BY <1>1, <1>9, OtherCalls DEF IInv, TypeOK, WaitReturns, FanReturns, Advance
  <1> QED
    BY <1>5, <1>6, <1>7, <1>8, <1>9 DEF IInv

LEMMA TaskReturnsStep ==
  ASSUME IInv, proc = "up", NEW c \in Calls, NEW s \in running[c],
         TaskReturns(c, s)
  PROVE  IInv'
  <1>1. kind[c] \in Kinds /\ CountInv(c) /\ LoopInv(c) /\ HandlerInv(c) /\ TypeOK
    BY DEF IInv, TypeOK
  <1>2. /\ IsFiniteSet(running[c] \ {s})
        /\ Cardinality(running[c] \ {s}) = Cardinality(running[c]) - 1
        /\ Cardinality(running[c] \ {s}) \in Nat
    BY <1>1, FS_RemoveElement, FS_CardinalityType DEF CountInv
  <1>3. /\ running'[c] = running[c] \ {s}
        /\ returned'[c] = returned[c] \cup {s}
        /\ wg'[c] = wg[c] - 1
    BY <1>1 DEF TaskReturns, TaskEnds, TypeOK
  <1>4. TypeOK'
    BY <1>1, <1>2 DEF TypeOK, TaskReturns, TaskEnds, CountInv
  <1>5. CountInv(c)'
    <2>1. Passed(c)' = Passed(c)
      BY DEF Passed, TaskReturns, TaskEnds
    <2> QED
      BY <1>1, <1>2, <1>3, <2>1 DEF CountInv
  <1>6. LoopInv(c)'
    BY <1>1, <1>3 DEF TaskReturns, TaskEnds, LoopInv, Entry
  <1>7. HandlerInv(c)'
    BY <1>1 DEF TaskReturns, TaskEnds, HandlerInv
  <1>8. ASSUME NEW d \in Calls, d # c
        PROVE  CountInv(d)' /\ LoopInv(d)' /\ HandlerInv(d)'
    BY <1>1, <1>8, OtherCalls DEF IInv, TypeOK, TaskReturns, TaskEnds
  <1> QED
    BY <1>4, <1>5, <1>6, <1>7, <1>8 DEF IInv

LEMMA ServerSteps ==
  ASSUME IInv, ServerStep
  PROVE  IInv'
  <1>1. UNCHANGED <<kind, handler, reply, fanVars, sql>>
    BY DEF ServerStep, Exit, StopServer
  <1>2. TypeOK'
    BY <1>1 DEF IInv, TypeOK, ServerStep, Exit, StopServer, fanVars
  <1>3. ASSUME NEW d \in Calls
        PROVE  HandlerInv(d)'
    BY <1>1 DEF IInv, HandlerInv, fanVars
  <1> QED
    BY <1>1, <1>2, <1>3, FanUntouched DEF IInv

LEMMA NextInv == IInv /\ [Next]_vars => IInv'
  <1> SUFFICES ASSUME IInv, [Next]_vars PROVE IInv'
    OBVIOUS
  <1>1. ASSUME NEW c \in Calls, HandlerStep(c)
        PROVE  IInv'
    BY <1>1, CallRequestsStep, HandlerSteps DEF HandlerStep
  <1>2. ASSUME NEW c \in Calls, FanStep(c)
        PROVE  IInv'
    BY <1>2, SpawnStep, NextRequestStep, NilPanicStep, WaitReturnsStep DEF FanStep
  <1>3. ASSUME NEW c \in Calls, OutsideStep(c)
        PROVE  IInv'
    BY <1>3, TaskReturnsStep, HandlerSteps DEF OutsideStep
  <1>4. CASE ServerStep
    BY <1>4, ServerSteps
  <1>5. CASE UNCHANGED vars
    BY <1>5, FanUntouched
       DEF vars, fanVars, IInv, TypeOK, HandlerInv
  <1> QED
    BY <1>1, <1>2, <1>3, <1>4, <1>5 DEF Next

--------------------------------------------------------------------------------
(* The theorems.                                                           *)

\* The inductive invariant holds in every reachable state.
THEOREM InductiveInvariant == Spec => []IInv
  BY InitInv, NextInv, PTL DEF Spec

\* Every variable has its type; in particular no WaitGroup is ever negative,
\* which would panic (doRequests of the four servers).
THEOREM TypeCorrect == Spec => []TypeOK
  <1>1. IInv => TypeOK
    BY DEF IInv
  <1> QED
    BY <1>1, InductiveInvariant, PTL

\* At the end of the loop everything has been passed.
LEMMA FanOutExactInv == IInv => ExactFanOut
  <1> SUFFICES ASSUME IInv, NEW c \in Calls, fan[c] = "done"
               PROVE  returned[c] = Slots(kind[c]) /\ running[c] = {}
    BY DEF ExactFanOut
  <1>1. kind[c] \in Kinds /\ CountInv(c) /\ LoopInv(c) /\ TypeOK
    BY DEF IInv, TypeOK
  <1>2. running[c] = {} /\ row[c] > Len(Requests[kind[c]]) /\ row[c] \in Nat
    BY <1>1 DEF LoopInv, TypeOK
  <1>3. ASSUME NEW t \in Slots(kind[c])
        PROVE  t[1] < row[c]
    <2>1. PICK r \in 1 .. Len(Requests[kind[c]]), i \in Nat : t = <<r, i>>
      BY <1>1, SlotElement
    <2> QED
      BY <2>1, <1>1, <1>2, ListType
  <1>4. Passed(c) = Slots(kind[c])
    BY <1>3 DEF Passed
  <1> QED
    BY <1>1, <1>2, <1>4 DEF CountInv

\* doRequests returns with every configured call made Count() times and
\* returned, whatever the list (the loops and the WaitGroup of doRequests).
THEOREM FanOutExact == Spec => []ExactFanOut
  BY FanOutExactInv, InductiveInvariant, PTL

\* An HTTP request or RPC is answered, queried and worked for only after all
\* of its downstream calls have returned (Run of httpserver.go, Incoming of
\* grpcserver.go).
THEOREM AnswersComeLast == Spec => []AnswerAfterRequests
  <1>1. IInv /\ ExactFanOut => AnswerAfterRequests
    <2> SUFFICES ASSUME IInv, ExactFanOut, NEW c \in Calls, Sync(kind[c]),
                        \/ handler[c] \in {"sql", "workload", "done"}
                        \/ sql[c] # "none"
                        \/ reply[c] # "none"
                 PROVE  returned[c] = Slots(kind[c]) /\ running[c] = {}
      BY DEF AnswerAfterRequests
    <2>1. HandlerInv(c)
      BY DEF IInv
    <2>2. kind[c] # "tcp"
      BY DEF Sync
    <2>3. handler[c] \in {"sql", "workload", "done"}
      BY <2>1, <2>2 DEF HandlerInv
    <2>4. fan[c] = "done"
      BY <2>1, <2>3 DEF HandlerInv
    <2> QED
      BY <2>4 DEF ExactFanOut
  <1> QED
    BY <1>1, InductiveInvariant, FanOutExact, PTL

\* A nil entry stops doRequests exactly where it stands in the list.
THEOREM NilCutsTheList == Spec => []PanicCutsTheList
  <1>1. IInv => PanicCutsTheList
    <2> SUFFICES ASSUME IInv, NEW c \in Calls, fan[c] = "panicked"
                 PROVE  /\ Entry(c) = NilRequest
                        /\ running[c] \cup returned[c] =
                             {s \in Slots(kind[c]) : s[1] < row[c]}
                        /\ kind[c] = "http" =>
                             handler[c] = "aborted" /\ reply[c] = "none" /\ sql[c] = "none"
      BY DEF PanicCutsTheList
    <2>1. kind[c] \in Kinds /\ CountInv(c) /\ LoopInv(c) /\ HandlerInv(c) /\ TypeOK
      BY DEF IInv, TypeOK
    <2>2. Entry(c) = NilRequest /\ copy[c] = 0
      BY <2>1 DEF LoopInv
    <2>3. ASSUME NEW t \in Slots(kind[c])
          PROVE  ~(t[1] = row[c] /\ t[2] < copy[c])
      <3>1. PICK r \in 1 .. Len(Requests[kind[c]]), i \in Nat : t = <<r, i>>
        <4>1. kind[c] \in Kinds
          BY <2>1
        <4> QED
          BY ONLY <4>1, <2>3, SlotElement
      <3> QED
        BY <3>1, <2>2
    <2>4. Passed(c) = {s \in Slots(kind[c]) : s[1] < row[c]}
      BY <2>3 DEF Passed
    <2>5. kind[c] = "http" =>
            handler[c] = "aborted" /\ reply[c] = "none" /\ sql[c] = "none"
      BY <2>1 DEF HandlerInv, TypeOK
    <2> QED
      BY <2>1, <2>2, <2>4, <2>5 DEF CountInv
  <1> QED
    BY <1>1, InductiveInvariant, PTL

\* A call to a server with a nil entry in its list never gets past it: its
\* doRequests never returns, and no such HTTP request or RPC is ever answered or
\* queried for (request.go:102, httpserver.go:73, grpcserver.go:117).
THEOREM NilIsNeverAnswered ==
  Spec => [](\A c \in Calls : HasNil(kind[c]) =>
               /\ fan[c] # "done" /\ reply[c] = "none"
               /\ Sync(kind[c]) => sql[c] = "none")
  <1>1. ASSUME IInv, NEW c \in Calls, HasNil(kind[c])
        PROVE  /\ fan[c] # "done" /\ reply[c] = "none"
               /\ Sync(kind[c]) => sql[c] = "none"
    <2>1. kind[c] \in Kinds /\ LoopInv(c) /\ HandlerInv(c) /\ TypeOK
      BY <1>1 DEF IInv, TypeOK
    <2>2. PICK r \in 1 .. Len(Requests[kind[c]]) :
            Requests[kind[c]][r] = NilRequest
      BY <1>1, <2>1, ListType DEF HasNil
    <2>3. fan[c] # "done"
      BY <2>1, <2>2, ListType DEF LoopInv, TypeOK
    <2>4. reply[c] = "none"
      BY <2>1, <2>3 DEF HandlerInv, TypeOK
    <2>5. Sync(kind[c]) => sql[c] = "none"
      <3>1. ASSUME Sync(kind[c]) PROVE handler[c] \notin {"read", "workload", "done"}
        BY <2>1, <2>3, <3>1 DEF HandlerInv, Sync
      <3> QED
        BY <2>1, <3>1 DEF HandlerInv
    <2> QED
      BY <2>3, <2>4, <2>5
  <1>2. IInv => \A c \in Calls : HasNil(kind[c]) =>
                  /\ fan[c] # "done" /\ reply[c] = "none"
                  /\ Sync(kind[c]) => sql[c] = "none"
    BY <1>1
  <1> QED
    BY <1>2, InductiveInvariant, PTL

--------------------------------------------------------------------------------
(* The servers keep the promise of Service: every step of theirs is one of  *)
(* its steps or changes nothing it sees.                                    *)


LEMMA RefinesInit == Init => Svc!Init
  BY DEF Init, Svc!Init, Phase, PhaseOf

phases == [c \in Calls |-> Phase(c)]

\* A step that shows in no variable of Service.
LEMMA Unseen ==
  ASSUME UNCHANGED <<proc, kind, running, returned>>, phases' = phases
  PROVE  UNCHANGED Svc!svcVars
  BY DEF Svc!svcVars, phases

\* The step of a handler to a stage with the same phase.
LEMMA SamePhase ==
  ASSUME TypeOK, NEW c \in Calls, NEW h,
         handler' = [handler EXCEPT ![c] = h],
         {handler[c], h} \subseteq {"requests", "fanout", "sql", "read", "workload"}
  PROVE  phases' = phases
  <1>1. ASSUME NEW d \in Calls PROVE Phase(d)' = Phase(d)
    <2>1. CASE d = c
      BY <2>1 DEF TypeOK, Phase, PhaseOf
    <2>2. CASE d # c
      BY <2>2 DEF TypeOK, Phase
    <2> QED
      BY <2>1, <2>2
  <1> QED
    BY <1>1 DEF phases

\* The step of a handler to a stage with another phase.
LEMMA NewPhase ==
  ASSUME TypeOK, NEW c \in Calls, NEW h,
         handler' = [handler EXCEPT ![c] = h]
  PROVE  phases' = [phases EXCEPT ![c] = PhaseOf(h)]
  <1>1. handler'[c] = h /\ \A d \in Calls : d # c => handler'[d] = handler[d]
    BY DEF TypeOK
  <1>2. Phase(c)' = PhaseOf(h)
    BY <1>1 DEF Phase
  <1>3. ASSUME NEW d \in Calls, d # c PROVE Phase(d)' = Phase(d)
    BY <1>1, <1>3 DEF Phase
  <1> QED
    BY <1>2, <1>3 DEF phases

LEMMA HandlerRefines ==
  ASSUME IInv, proc = "up", NEW c \in Calls,
         \/ Accept(c) \/ CallRequests(c) \/ StartSql(c) \/ ReadEnds(c)
         \/ RunWorkload(c) \/ SqlReturns(c)
  PROVE  [Svc!Next]_(Svc!svcVars)
  <1>1. TypeOK /\ kind[c] \in Kinds /\ HandlerInv(c)
    BY DEF IInv, TypeOK
  <1>2. CASE Accept(c)
    <2>1. phases' = [phases EXCEPT ![c] = "open"]
      <3>1. PhaseOf("requests") = "open"
        BY DEF PhaseOf
      <3>2. phases' = [phases EXCEPT ![c] = PhaseOf("requests")]
        BY <1>1, <1>2, NewPhase DEF Accept
      <3> QED
        BY <3>1, <3>2
    <2>2. Phase(c) = "new"
      BY <1>2 DEF Accept, Phase, PhaseOf
    <2>3. Svc!Open(c)
      BY <1>2, <2>1, <2>2 DEF Svc!Open, phases, Accept, fanVars
    <2> QED
      BY <2>3 DEF Svc!Next
  <1>3. CASE CallRequests(c)
    <2>1. phases' = phases
      <3>1. handler' = [handler EXCEPT ![c] = Flow[kind[c]]["requests"]]
        BY <1>1, <1>3 DEF CallRequests, Advance, TypeOK
      <3>2. Flow[kind[c]]["requests"] \in {"fanout", "sql"} /\ handler[c] = "requests"
        BY <1>1, <1>3, FlowSteps DEF CallRequests
      <3> QED
        BY <1>1, <3>1, <3>2, SamePhase
    <2> QED
      BY <1>3, <2>1, Unseen DEF CallRequests
  <1>4. CASE StartSql(c)
    <2>1. phases' = phases
      <3>1. handler' = [handler EXCEPT ![c] = Flow[kind[c]]["sql"]]
        BY <1>1, <1>4 DEF StartSql, Advance, TypeOK
      <3>2. Flow[kind[c]]["sql"] \in {"read", "workload"} /\ handler[c] = "sql"
        BY <1>1, <1>4, FlowSteps DEF StartSql
      <3> QED
        BY <1>1, <3>1, <3>2, SamePhase
    <2> QED
      BY <1>4, <2>1, Unseen DEF StartSql, fanVars
  <1>5. CASE ReadEnds(c)
    <2>1. phases' = phases
      <3>1. handler' = [handler EXCEPT ![c] = Flow[kind[c]]["read"]]
        BY <1>1, <1>5 DEF ReadEnds, Advance, TypeOK
      <3>2. Flow[kind[c]]["read"] = "workload" /\ handler[c] = "read"
        BY <1>1, <1>5, FlowSteps DEF ReadEnds, HandlerInv
      <3> QED
        BY <1>1, <3>1, <3>2, SamePhase
    <2> QED
      BY <1>5, <2>1, Unseen DEF ReadEnds, fanVars
  <1>6. CASE RunWorkload(c)
    <2>1. handler' = [handler EXCEPT ![c] = "done"]
      BY <1>1, <1>6, FlowSteps DEF RunWorkload, Advance
    <2>2. phases' = [phases EXCEPT ![c] = "answered"]
      <3>1. PhaseOf("done") = "answered"
        BY DEF PhaseOf
      <3> QED
        BY <1>1, <2>1, <3>1, NewPhase
    <2>3. Phase(c) = "open"
      BY <1>6 DEF RunWorkload, Phase, PhaseOf
    <2>4. Sync(kind[c]) => returned[c] = Slots(kind[c])
      BY <1>1, <1>6, FanOutExactInv DEF RunWorkload, HandlerInv, ExactFanOut
    <2>5. Svc!Answer(c)
      BY <1>6, <2>2, <2>3, <2>4
         DEF Svc!Answer, Svc!Slots, Svc!Sync, Slots, Sync, phases, RunWorkload,
         fanVars
    <2> QED
      BY <2>5 DEF Svc!Next
  <1>7. CASE SqlReturns(c)
    <2>1. phases' = phases
      BY <1>7 DEF SqlReturns, phases, Phase
    <2> QED
      BY <1>7, <2>1, Unseen DEF SqlReturns, fanVars
  <1> QED
    BY <1>2, <1>3, <1>4, <1>5, <1>6, <1>7

LEMMA SpawnRefines ==
  ASSUME IInv, proc = "up", NEW c \in Calls, Spawn(c)
  PROVE  [Svc!Next]_(Svc!svcVars)
  <1> DEFINE s == <<row[c], copy[c]>>
  <1>1. TypeOK /\ kind[c] \in Kinds /\ HandlerInv(c) /\ CountInv(c)
    BY DEF IInv, TypeOK
  <1>2. s \in Slots(kind[c])
    BY <1>1, SlotElement, ListType DEF Spawn, SpawnWhile, InLoop, Entry, TypeOK
  <1>3. s \notin running[c] \cup returned[c]
    BY <1>1 DEF CountInv, Passed, TypeOK
  <1>4. Phase(c) \in IF Sync(kind[c]) THEN {"open"} ELSE {"open", "answered"}
    <2>1. handler[c] \notin {"idle", "aborted"}
      BY <1>1 DEF Spawn, SpawnWhile, InLoop, HandlerInv
    <2>2. Sync(kind[c]) => handler[c] = "fanout"
      BY <1>1 DEF Spawn, SpawnWhile, InLoop, HandlerInv
    <2> QED
      BY <2>1, <2>2 DEF Phase, PhaseOf
  <1>5. phases' = phases
    BY DEF Spawn, SpawnWhile, phases, Phase
  <1>6. Svc!Issue(c, s)
    BY <1>2, <1>3, <1>4, <1>5
       DEF Svc!Issue, Svc!Slots, Svc!Sync, Slots, Sync, phases, Spawn, SpawnWhile
  <1> QED
    BY <1>2, <1>6 DEF Svc!Next, Svc!Slots, Slots

LEMMA NilPanicRefines ==
  ASSUME IInv, proc = "up", NEW c \in Calls, NilPanic(c)
  PROVE  [Svc!Next]_(Svc!svcVars)
  <1>1. TypeOK /\ kind[c] \in Kinds /\ HandlerInv(c)
    BY DEF IInv, TypeOK
  <1>2. CASE kind[c] = "http"
    <2>1. handler[c] = "fanout"
      BY <1>1, <1>2 DEF NilPanic, Recovered, InLoop, HandlerInv, Sync
    <2>2. phases' = [phases EXCEPT ![c] = "dropped"]
      <3>1. PhaseOf("aborted") = "dropped"
        BY DEF PhaseOf
      <3> QED
        BY <1>1, <1>2, <2>1, <3>1, NewPhase DEF NilPanic, Recovered
    <2>3. Phase(c) = "open"
      BY <2>1 DEF Phase, PhaseOf
    <2>4. Svc!Drop(c)
      BY <1>2, <2>1, <2>2, <2>3 DEF Svc!Drop, phases, NilPanic, Recovered
    <2> QED
      BY <2>4 DEF Svc!Next
  <1>3. CASE kind[c] # "http"
    <2>1. phases' = phases
      BY <1>3 DEF NilPanic, Recovered, phases, Phase
    <2>2. Svc!Halt
      BY <1>3, <2>1 DEF Svc!Halt, phases, NilPanic, Recovered
    <2> QED
      BY <2>2 DEF Svc!Next
  <1> QED
    BY <1>2, <1>3

LEMMA FanRefines ==
  ASSUME IInv, proc = "up", NEW c \in Calls,
         \/ NextRequest(c) \/ WaitReturns(c)
         \/ \E s \in running[c] : TaskReturns(c, s)
  PROVE  [Svc!Next]_(Svc!svcVars)
  <1>1. TypeOK /\ kind[c] \in Kinds /\ HandlerInv(c) /\ CountInv(c)
    BY DEF IInv, TypeOK
  <1>2. CASE NextRequest(c)
    <2>1. phases' = phases
      BY <1>2 DEF NextRequest, NextRequestWhen, phases, Phase
    <2> QED
      BY <1>2, <2>1, Unseen DEF NextRequest, NextRequestWhen
  <1>3. CASE WaitReturns(c)
    <2>1. CASE Sync(kind[c])
      <3>1. handler[c] = "fanout"
        BY <1>1, <1>3, <2>1 DEF WaitReturns, FanReturns, HandlerInv
      <3>2. handler' = [handler EXCEPT ![c] = "sql"]
        BY <1>1, <1>3, <2>1, <3>1, FlowSteps DEF WaitReturns, FanReturns, Advance
      <3>3. phases' = phases
        BY <1>1, <3>1, <3>2, SamePhase
      <3> QED
        BY <1>3, <3>3, Unseen DEF WaitReturns, FanReturns
    <2>2. CASE ~Sync(kind[c])
      <3>1. phases' = phases
        BY <1>3, <2>2 DEF WaitReturns, FanReturns, phases, Phase
      <3> QED
        BY <1>3, <3>1, Unseen DEF WaitReturns, FanReturns
    <2> QED
      BY <2>1, <2>2
  <1>4. ASSUME NEW s \in running[c], TaskReturns(c, s)
        PROVE  [Svc!Next]_(Svc!svcVars)
    <2>1. phases' = phases
      BY <1>4 DEF TaskReturns, TaskEnds, phases, Phase
    <2>2. s \in Slots(kind[c])
      BY <1>1 DEF CountInv, Passed
    <2>3. Svc!Return(c, s)
      BY <1>4, <2>1 DEF Svc!Return, phases, TaskReturns, TaskEnds
    <2> QED
      BY <2>2, <2>3 DEF Svc!Next, Svc!Slots, Slots
  <1> QED
    BY <1>2, <1>3, <1>4

LEMMA ServerRefines ==
  ASSUME ServerStep
  PROVE  [Svc!Next]_(Svc!svcVars)
  <1>1. phases' = phases
    BY DEF ServerStep, Exit, StopServer, phases, Phase
  <1>2. CASE Exit
    <2>1. Svc!Halt
      BY <1>1, <1>2 DEF Exit, Svc!Halt, phases, fanVars
    <2> QED
      BY <2>1 DEF Svc!Next, ServerStep
  <1>3. ASSUME NEW k \in Kinds, StopServer(k)
        PROVE  [Svc!Next]_(Svc!svcVars)
    BY <1>1, <1>3, Unseen DEF StopServer, fanVars
  <1> QED
    BY <1>2, <1>3 DEF ServerStep

LEMMA RefinesNext == IInv /\ [Next]_vars => [Svc!Next]_(Svc!svcVars)
  <1> SUFFICES ASSUME IInv, [Next]_vars PROVE [Svc!Next]_(Svc!svcVars)
    OBVIOUS
  <1>1. ASSUME NEW c \in Calls, HandlerStep(c)
        PROVE  [Svc!Next]_(Svc!svcVars)
    BY <1>1, HandlerRefines DEF HandlerStep
  <1>2. ASSUME NEW c \in Calls, FanStep(c)
        PROVE  [Svc!Next]_(Svc!svcVars)
    BY <1>2, SpawnRefines, FanRefines, NilPanicRefines DEF FanStep
  <1>3. ASSUME NEW c \in Calls, OutsideStep(c)
        PROVE  [Svc!Next]_(Svc!svcVars)
    BY <1>3, FanRefines, HandlerRefines DEF OutsideStep
  <1>4. CASE ServerStep
    BY <1>4, ServerRefines
  <1>5. CASE UNCHANGED vars
    BY <1>5, Unseen DEF vars, fanVars, phases, Phase
  <1> QED
    BY <1>1, <1>2, <1>3, <1>4, <1>5 DEF Next

\* The four servers implement Service, whatever their lists.
THEOREM Refinement == Spec => ImplementsService
  <1>1. IInv /\ [Next]_vars => [Svc!Next]_(Svc!svcVars)
    BY RefinesNext
  <1> QED
    BY <1>1, RefinesInit, InductiveInvariant, PTL DEF Spec, Svc!Spec,
       ImplementsService
===============================================================================
