------------------------------ MODULE StartupProofs ------------------------------
(***************************************************************************)
(* Proofs about Startup: any servers, started in any order, with any       *)
(* configuration.                                                          *)
(***************************************************************************)
EXTENDS Startup, FiniteSetTheorems, TLAPS

\* The servers that main waits for and that have not left.
Live == {k \in Kinds : server[k] \in {"started", "serving"}}
CountInv == wg = Cardinality(Live)

\* What has been started is what is wanted among the first servers of Order.
OrderInv ==
  /\ pc \in {"configure", "flags", "health"} => server["health"] = "off"
  /\ pc \notin {"start", "wait"} => next = 1
  /\ pc = "wait" => next = Len(Order) + 1
  /\ \A i \in DOMAIN Order :
       server[Order[i]] # "off" <=> i < next /\ Wanted(Order[i])

\* No server is started with a shared list that is bad.
SharedInv ==
  (proc = "up" /\ pc \in {"start", "wait"}) \/ (\E k \in Kinds : server[k] # "off")
    => config.shared \notin BadList

Promises == ExitReason /\ ServedListIsGood /\ NoSilentEnd

IInv == TypeOK /\ CountInv /\ OrderInv /\ SharedInv /\ Promises

\* What the proofs use of the types of a configuration.
LEMMA ConfigFields ==
  ASSUME TypeOK, NEW k \in Kinds
  PROVE  config.own[k] \in Lists
BY DEF TypeOK, Config

\* Every kind has its place in Order.
LEMMA Places ==
  /\ DOMAIN Order = 1 .. Len(Order) /\ Len(Order) \in Nat
  /\ \A k \in Kinds : \E i \in 1 .. Len(Order) : Order[i] = k
  /\ \A i \in 1 .. Len(Order) : Order[i] \in Kinds
BY StartupAssumption

LEMMA LiveFinite ==
  /\ IsFiniteSet(Live)
  /\ Cardinality(Live) \in Nat
  /\ Cardinality(Live) = 0 <=> Live = {}
<1>1. IsFiniteSet(Kinds) /\ Live \subseteq Kinds
  BY StartupAssumption DEF Live
<1>2. IsFiniteSet(Live)
  BY <1>1, FS_Subset
<1> QED
  BY <1>2, FS_CardinalityType, FS_EmptySet

\* Before main starts servers, none is started.
LEMMA NoneStarted ==
  ASSUME OrderInv, pc \notin {"start", "wait"}, NEW k \in Kinds
  PROVE  server[k] = "off"
<1>1. PICK i \in 1 .. Len(Order) : Order[i] = k
  BY Places
<1>2. ~(i < next)
  BY <1>1 DEF OrderInv
<1> QED
  BY <1>1, <1>2, Places DEF OrderInv

LEMMA InitIInv == Init => IInv
<1> SUFFICES ASSUME Init PROVE IInv
  OBVIOUS
<1>1. /\ config \in Config /\ proc = "up" /\ pc = "configure" /\ next = 1
      /\ wg = 0 /\ logged = {} /\ list = [k \in Kinds |-> "none"]
      /\ server = [k \in Servers |-> "off"]
  BY StartupAssumption DEF Init
<1>2. Kinds \subseteq Servers /\ \A k \in Servers : server[k] = "off"
  BY <1>1 DEF Servers
<1>3. TypeOK
  BY <1>1, <1>2, Places DEF TypeOK
<1>4. CountInv
  <2>1. Live = {}
    BY <1>2 DEF Live
  <2> QED
    BY <2>1, <1>1, FS_EmptySet DEF CountInv
<1>5. OrderInv
  BY <1>1, <1>2, Places DEF OrderInv, Servers
<1>6. SharedInv
  BY <1>1, <1>2 DEF SharedInv
<1>7. Promises
  BY <1>1, <1>2 DEF Promises, ExitReason, ServedListIsGood, NoSilentEnd
<1> QED
  BY <1>3, <1>4, <1>5, <1>6, <1>7 DEF IInv

\* A step of main before it starts servers: all is well or the process ends.
LEMMA SetUpIInv ==
  ASSUME IInv, proc = "up",
         pc \in {"configure", "flags", "sql", "shared"},
         pc' \in {"flags", "health", "shared", "start"},
         pc' \in {"flags", "health"} => pc \in {"configure", "flags"},
         UNCHANGED <<config, next, server, list, wg>>,
         \/ /\ proc' = proc /\ logged' = logged
            /\ pc' = "start" => config.shared \notin BadList
         \/ proc' = "exit 2" /\ logged' = logged
         \/ proc' = "exit 0" /\ logged' = logged /\ config.flag = "exit"
         \/ /\ proc' = "exit 0" /\ logged' = logged \cup {"main"}
            /\ BadDsn \/ config.shared \in BadList
  PROVE  IInv'
<1>1. /\ config' = config /\ next' = next /\ server' = server /\ list' = list
      /\ wg' = wg
  OBVIOUS
<1>2. TypeOK /\ CountInv /\ OrderInv /\ SharedInv /\ Promises
  BY DEF IInv
<1>3. \A k \in Kinds : server[k] = "off"
  BY <1>1, <1>2, NoneStarted
<1>4. TypeOK'
  BY <1>1, <1>2 DEF TypeOK
<1>5. CountInv'
  BY <1>1, <1>2 DEF CountInv, Live
<1>6. OrderInv'
  BY <1>1, <1>2 DEF OrderInv, Wanted
<1>7. SharedInv'
  BY <1>1, <1>3 DEF SharedInv
<1>8. ExitReason'
  BY <1>1, <1>3 DEF ExitReason, BadDsn
<1>9. NoSilentEnd'
  BY <1>1, <1>2 DEF NoSilentEnd, Promises
<1>10. ServedListIsGood'
  BY <1>1, <1>2 DEF Promises, ServedListIsGood
<1> QED
  BY <1>4, <1>5, <1>6, <1>7, <1>8, <1>9, <1>10 DEF IInv, Promises

LEMMA StartHealthIInv ==
  ASSUME IInv, proc = "up", StartHealth PROVE IInv'
<1>1. /\ pc = "health" /\ pc' = "sql" /\ UNCHANGED <<config, proc, next, list, wg, logged>>
      /\ server' = [server EXCEPT !["health"] = "started"]
  BY DEF StartHealth
<1>2. TypeOK /\ CountInv /\ OrderInv /\ SharedInv /\ Promises
  BY DEF IInv
<1>3. \A k \in Kinds : server'[k] = server[k] /\ server[k] = "off"
  BY <1>1, <1>2, NoneStarted, StartupAssumption DEF TypeOK, Servers
<1>4. /\ server["health"] = "off" /\ server'["health"] = "started"
      /\ \A k \in Servers \ {"health"} : server'[k] = server[k]
  BY <1>1, <1>2 DEF OrderInv, TypeOK, Servers
<1>5. TypeOK'
  BY <1>1, <1>2 DEF TypeOK
<1>6. CountInv'
  <2>1. Live' = Live
    BY <1>3 DEF Live
  <2> QED
    BY <2>1, <1>1, <1>2 DEF CountInv
<1>7. OrderInv'
  BY <1>1, <1>2, <1>3, Places DEF OrderInv, Wanted
<1>8. SharedInv'
  BY <1>1, <1>2, <1>3 DEF SharedInv
<1>9. ExitReason' /\ ServedListIsGood'
  BY <1>1, <1>3 DEF ExitReason, ServedListIsGood
<1>10. NoSilentEnd'
  BY <1>1, <1>2, <1>4 DEF Promises, NoSilentEnd
<1> QED
  BY <1>5, <1>6, <1>7, <1>8, <1>9, <1>10 DEF IInv, Promises

LEMMA StartServerIInv ==
  ASSUME IInv, proc = "up", StartServer PROVE IInv'
<1> DEFINE new == Order[next]
<1>1. /\ pc = "start" /\ next <= Len(Order) /\ next' = next + 1
      /\ UNCHANGED <<config, proc, pc, list, logged>>
      /\ Wanted(new) => wg' = wg + 1 /\ server' = [server EXCEPT ![new] = "started"]
      /\ ~Wanted(new) => UNCHANGED <<wg, server>>
  BY DEF StartServer, StartAdding
<1>2. TypeOK /\ CountInv /\ OrderInv /\ SharedInv /\ Promises
  BY DEF IInv
<1>3. next \in 1 .. Len(Order) /\ new \in Kinds /\ new \in Servers /\ new # "health"
  BY <1>1, <1>2, Places, StartupAssumption DEF TypeOK, Servers
<1>4. server[new] = "off"
  BY <1>2, <1>3, Places DEF OrderInv
<1>5. \A k \in Servers : server'[k] = IF k = new /\ Wanted(new) THEN "started"
                                      ELSE server[k]
  BY <1>1, <1>2, <1>3 DEF TypeOK
<1>6. TypeOK'
  BY <1>1, <1>2, <1>3, Places DEF TypeOK
<1>7. CountInv'
  <2>1. CASE Wanted(new)
    <3>1. Live' = Live \cup {new} /\ new \notin Live
      BY <2>1, <1>3, <1>4, <1>5 DEF Live, Servers
    <3>2. Cardinality(Live \cup {new}) = Cardinality(Live) + 1
      BY <3>1, LiveFinite, FS_AddElement
    <3> QED
      BY <3>1, <3>2, <2>1, <1>1, <1>2 DEF CountInv
  <2>2. CASE ~Wanted(new)
    BY <2>2, <1>1, <1>2 DEF CountInv, Live
  <2> QED
    BY <2>1, <2>2
<1>8. OrderInv'
  <2>1. ASSUME NEW i \in DOMAIN Order
        PROVE  server'[Order[i]] # "off" <=> i < next' /\ Wanted(Order[i])'
    <3>1. i \in 1 .. Len(Order) /\ Order[i] \in Kinds /\ Order[i] \in Servers
      BY Places DEF Servers
    <3>2. Order[i] = new <=> i = next
      BY <3>1, <1>3, StartupAssumption
    <3>3. Wanted(Order[i])' <=> Wanted(Order[i])
      BY <1>1 DEF Wanted
    <3>4. CASE i = next
      BY <3>1, <3>3, <3>4, <1>1, <1>3, <1>4, <1>5
    <3>5. CASE i # next
      <4>1. server'[Order[i]] = server[Order[i]]
        BY <3>1, <3>2, <3>5, <1>5
      <4>2. i < next' <=> i < next
        BY <3>1, <3>5, <1>1, <1>3
      <4> QED
        BY <4>1, <4>2, <3>3, <1>2 DEF OrderInv
    <3> QED
      BY <3>4, <3>5
  <2> QED
    BY <2>1, <1>1 DEF OrderInv
<1>9. SharedInv'
  BY <1>1, <1>2 DEF SharedInv
<1>10. ExitReason'
  BY <1>1 DEF ExitReason
<1>11. ServedListIsGood'
  BY <1>1, <1>2, <1>5 DEF Promises, ServedListIsGood, Servers
<1>12. NoSilentEnd'
  BY <1>1, <1>2, <1>5 DEF Promises, NoSilentEnd
<1> QED
  BY <1>6, <1>7, <1>8, <1>9, <1>10, <1>11, <1>12 DEF IInv, Promises

\* main is let out of wg.Wait() once nobody it waits for is left.
LEMMA WaitReturnsIInv ==
  ASSUME IInv, proc = "up", WaitReturns PROVE IInv'
<1>1. /\ pc = "wait" /\ wg = 0 /\ proc' = "exit 0"
      /\ UNCHANGED <<config, pc, next, server, list, wg, logged>>
  BY DEF WaitReturns
<1>2. TypeOK /\ CountInv /\ OrderInv /\ SharedInv /\ Promises
  BY DEF IInv
<1>3. Live = {} /\ next = Len(Order) + 1
  BY <1>1, <1>2, LiveFinite DEF CountInv, OrderInv
<1>4. ASSUME NEW k \in Kinds
      PROVE  server[k] = IF Wanted(k) THEN "stopped" ELSE "off"
  <2>1. PICK i \in 1 .. Len(Order) : Order[i] = k
    BY Places
  <2>2. server[k] # "off" <=> Wanted(k)
    BY <2>1, <1>2, <1>3, Places DEF OrderInv
  <2>3. server[k] \notin {"started", "serving"}
    BY <1>3 DEF Live
  <2>4. server[k] \in {"off", "started", "serving", "stopped"}
    BY <1>2 DEF TypeOK, Servers
  <2> QED
    BY <2>2, <2>3, <2>4
<1>5. TypeOK' /\ CountInv' /\ OrderInv' /\ SharedInv'
  BY <1>1, <1>2 DEF TypeOK, CountInv, Live, OrderInv, Wanted, SharedInv
<1>6. ExitReason'
  BY <1>1, <1>4 DEF ExitReason, Wanted
<1>7. logged # {}
  <2>1. PICK k \in Kinds : k # "kafka"
    BY StartupAssumption
  <2>2. server[k] = "stopped"
    BY <2>1, <1>4 DEF Wanted
  <2> QED
    BY <2>2, <1>2 DEF Promises, NoSilentEnd, Servers
<1>8. ServedListIsGood' /\ NoSilentEnd'
  BY <1>1, <1>2, <1>7 DEF Promises, ServedListIsGood, NoSilentEnd
<1> QED
  BY <1>5, <1>6, <1>8 DEF IInv, Promises

\* A server that is not among those main waits for any more.
LEMMA LeavesCounts ==
  ASSUME IInv, NEW k \in Servers, server[k] \in {"started", "serving"},
         NEW log, Leaves(k, log),
         UNCHANGED <<config, next>>
  PROVE  /\ \A j \in Servers : server'[j] = IF j = k THEN "stopped" ELSE server[j]
         /\ server' \in [Servers ->
                           {"off", "started", "serving", "stopped"}]
         /\ wg' \in Nat /\ CountInv'
<1>1. /\ server' = [server EXCEPT ![k] = "stopped"]
      /\ k \in Kinds => wg' = wg - 1
      /\ k \notin Kinds => wg' = wg
  BY DEF Leaves
<1>2. TypeOK /\ CountInv
  BY DEF IInv
<1>3. /\ \A j \in Servers : server'[j] = IF j = k THEN "stopped" ELSE server[j]
      /\ server' \in [Servers ->
                        {"off", "started", "serving", "stopped"}]
  BY <1>1, <1>2 DEF TypeOK
<1>4. CASE k \in Kinds
  <2>1. Live' = Live \ {k} /\ k \in Live
    BY <1>3, <1>4 DEF Live, Servers
  <2>2. Cardinality(Live \ {k}) = Cardinality(Live) - 1
    BY <2>1, LiveFinite, FS_RemoveElement
  <2>3. IsFiniteSet(Live \ {k})
    BY LiveFinite, FS_RemoveElement
  <2> QED
    BY <1>1, <1>2, <1>3, <1>4, <2>1, <2>2, <2>3, FS_CardinalityType DEF CountInv
<1>5. CASE k \notin Kinds
  <2>1. Live' = Live
    BY <1>3, <1>5 DEF Live, Servers
  <2> QED
    BY <1>1, <1>2, <1>3, <1>5, <2>1 DEF CountInv, TypeOK
<1> QED
  BY <1>4, <1>5

\* A server that goes on from "started" or "serving" changes no part of IInv
\* but those the step itself is about.
LEMMA ServerStep ==
  ASSUME IInv, proc = "up", NEW k \in Servers, server[k] \in {"started", "serving"},
         NEW to \in {"serving", "stopped"},
         UNCHANGED <<config, proc, pc, next>>,
         \A j \in Servers : server'[j] = IF j = k THEN to ELSE server[j]
  PROVE  OrderInv' /\ SharedInv' /\ ExitReason'
<1>1. TypeOK /\ OrderInv /\ SharedInv
  BY DEF IInv
<1>2. \A j \in Servers : server'[j] = "off" <=> server[j] = "off"
  OBVIOUS
<1>3. \A i \in DOMAIN Order : Order[i] \in Servers
  BY Places DEF Servers
<1>4. "health" \in Servers /\ Kinds \subseteq Servers
  BY DEF Servers
<1>5. OrderInv'
  BY <1>1, <1>2, <1>3, <1>4 DEF OrderInv, Wanted
<1>6. SharedInv'
  BY <1>1, <1>2, <1>4 DEF SharedInv
<1> QED
  BY <1>5, <1>6 DEF ExitReason

LEMMA StartingIInv ==
  ASSUME IInv, NEW k \in Servers, Starting(k) PROVE IInv'
<1> DEFINE given == [j \in Kinds |-> IF j # k THEN list[j]
                                     ELSE IF HasOwn(k) THEN "own" ELSE "shared"]
           panics == BadOwn(k) \/ k \in config.wildcard
<1>1. /\ proc = "up" /\ server[k] = "started" /\ UNCHANGED <<config, pc, next>>
      /\ panics => proc' = "exit 2" /\ UNCHANGED <<server, list, wg, logged>>
      /\ ~panics => list' = given /\ proc' = proc
      /\ ~panics => \/ /\ server' = [server EXCEPT ![k] = "serving"]
                       /\ wg' = wg /\ logged' = logged
                    \/ Leaves(k, {k})
  BY DEF Starting, Run, RunsWith
<1>2. TypeOK /\ CountInv /\ OrderInv /\ SharedInv /\ Promises
  BY DEF IInv
<1>3. CASE panics
  <2>1. TypeOK' /\ CountInv' /\ OrderInv' /\ SharedInv'
    BY <1>1, <1>2, <1>3 DEF TypeOK, CountInv, Live, OrderInv, Wanted, SharedInv
  <2>2. ExitReason' /\ ServedListIsGood' /\ NoSilentEnd'
    BY <1>1, <1>2, <1>3 DEF Promises, ExitReason, ServedListIsGood, NoSilentEnd
  <2> QED
    BY <2>1, <2>2 DEF IInv, Promises
<1>4. ASSUME ~panics
      PROVE  /\ list' \in [Kinds -> {"none", "own", "shared"}]
             /\ \A j \in Kinds \ {k} : list'[j] = list[j]
             /\ k \in Kinds => list'[k] = IF HasOwn(k) THEN "own" ELSE "shared"
  BY <1>1, <1>2, <1>4 DEF TypeOK
<1>5. ASSUME ~panics, k \in Kinds
      PROVE  /\ HasOwn(k) => config.own[k] = "some"
             /\ ~HasOwn(k) => config.own[k] = "empty"
             /\ config.shared \notin BadList
  <2>1. config.own[k] \in Lists /\ config.own[k] \notin BadList
    BY <1>2, <1>5, ConfigFields DEF BadOwn
  <2>2. config.shared \notin BadList
    BY <1>1, <1>2, <1>5 DEF SharedInv
  <2> QED
    BY <2>1, <2>2, <1>5 DEF HasOwn, Lists, BadList
<1>6. CASE /\ ~panics
           /\ server' = [server EXCEPT ![k] = "serving"]
           /\ wg' = wg /\ logged' = logged
  <2>1. /\ \A j \in Servers : server'[j] = IF j = k THEN "serving" ELSE server[j]
        /\ proc' = proc /\ wg' = wg /\ logged' = logged
    BY <1>1, <1>2, <1>6 DEF TypeOK
  <2>2. TypeOK'
    BY <1>1, <1>2, <1>4, <1>6 DEF TypeOK
  <2>3. CountInv'
    <3>1. Live' = Live
      BY <1>1, <2>1 DEF Live, Servers
    <3> QED
      BY <3>1, <2>1, <1>2 DEF CountInv
  <2>4. OrderInv' /\ SharedInv' /\ ExitReason'
    BY <1>1, <2>1, ServerStep
  <2>5. ServedListIsGood'
    BY <1>1, <1>2, <1>4, <1>5, <1>6, <2>1 DEF Promises, ServedListIsGood, Servers
  <2>6. NoSilentEnd'
    BY <1>1, <1>2, <2>1 DEF Promises, NoSilentEnd
  <2> QED
    BY <2>2, <2>3, <2>4, <2>5, <2>6 DEF IInv, Promises
<1>7. CASE ~panics /\ Leaves(k, {k})
  <2>1. Leaves(k, {k}) /\ proc' = proc /\ logged' = logged \cup {k}
    BY <1>1, <1>7 DEF Leaves
  <2>2. /\ \A j \in Servers : server'[j] = IF j = k THEN "stopped" ELSE server[j]
        /\ server' \in [Servers ->
                          {"off", "started", "serving", "stopped"}]
        /\ wg' \in Nat /\ CountInv'
    BY <1>1, <2>1, LeavesCounts
  <2>3. TypeOK'
    BY <1>1, <1>2, <1>4, <1>7, <2>1, <2>2 DEF TypeOK
  <2>4. OrderInv' /\ SharedInv' /\ ExitReason'
    BY <1>1, <2>1, <2>2, ServerStep
  <2>5. ServedListIsGood'
    BY <1>1, <1>2, <1>4, <1>7, <2>2 DEF Promises, ServedListIsGood, Servers
  <2>6. NoSilentEnd'
    BY <1>1, <1>2, <2>1, <2>2 DEF Promises, NoSilentEnd
  <2> QED
    BY <2>2, <2>3, <2>4, <2>5, <2>6 DEF IInv, Promises
<1> QED
  BY <1>1, <1>3, <1>6, <1>7

LEMMA StoppingIInv ==
  ASSUME IInv, NEW k \in Servers, Stopping(k) PROVE IInv'
<1>1. /\ proc = "up" /\ server[k] = "serving" /\ Leaves(k, {k})
      /\ UNCHANGED <<config, proc, pc, next, list>> /\ logged' = logged \cup {k}
  BY DEF Stopping, RunReturns, RunReturnsLogging, Leaves
<1>2. TypeOK /\ Promises
  BY DEF IInv
<1>3. /\ \A j \in Servers : server'[j] = IF j = k THEN "stopped" ELSE server[j]
      /\ server' \in [Servers ->
                        {"off", "started", "serving", "stopped"}]
      /\ wg' \in Nat /\ CountInv'
  BY <1>1, LeavesCounts
<1>4. TypeOK'
  BY <1>1, <1>2, <1>3 DEF TypeOK
<1>5. OrderInv' /\ SharedInv' /\ ExitReason'
  BY <1>1, <1>3, ServerStep
<1>6. ServedListIsGood'
  BY <1>1, <1>2, <1>3 DEF Promises, ServedListIsGood, Servers
<1>7. NoSilentEnd'
  BY <1>1, <1>2, <1>3 DEF Promises, NoSilentEnd
<1> QED
  BY <1>3, <1>4, <1>5, <1>6, <1>7 DEF IInv, Promises

LEMMA MainIInv == ASSUME IInv, Main PROVE IInv'
<1>1. proc = "up" /\ IInv
  BY DEF Main
<1>2. CASE Configure
  <2>1. \/ proc' = proc /\ logged' = logged
        \/ proc' = "exit 2" /\ logged' = logged
    BY <1>2 DEF Configure, SetUp
  <2> QED
    BY <1>1, <1>2, <2>1, SetUpIInv DEF Configure, SetUp
<1>3. CASE Flags
  <2>1. \/ proc' = proc /\ logged' = logged
        \/ proc' = "exit 0" /\ logged' = logged /\ config.flag = "exit"
    BY <1>3 DEF Flags, SetUp
  <2> QED
    BY <1>1, <1>3, <2>1, SetUpIInv DEF Flags, SetUp
<1>4. CASE MakeSqlClient
  <2>1. \/ proc' = proc /\ logged' = logged
        \/ proc' = "exit 0" /\ logged' = logged \cup {"main"} /\ BadDsn
    BY <1>4 DEF MakeSqlClient, SetUp
  <2> QED
    BY <1>1, <1>4, <2>1, SetUpIInv DEF MakeSqlClient, SetUp
<1>5. CASE ParseShared
  <2>1. \/ proc' = proc /\ logged' = logged /\ config.shared \notin BadList
        \/ /\ proc' = "exit 0" /\ logged' = logged \cup {"main"}
           /\ config.shared \in BadList
    BY <1>5 DEF ParseShared, SetUp
  <2> QED
    BY <1>1, <1>5, <2>1, SetUpIInv DEF ParseShared, SetUp
<1>6. CASE AllStarted
  <2>1. /\ pc = "start" /\ next > Len(Order) /\ pc' = "wait"
        /\ UNCHANGED <<config, proc, next, server, list, wg, logged>>
    BY <1>6 DEF AllStarted
  <2>2. TypeOK /\ CountInv /\ OrderInv /\ SharedInv /\ Promises
    BY DEF IInv
  <2>3. next = Len(Order) + 1
    <3>1. next \in 1 .. Len(Order) + 1 /\ Len(Order) \in Nat
      BY <2>2, Places DEF TypeOK
    <3> QED
      BY <3>1, <2>1
  <2>4. TypeOK' /\ CountInv' /\ OrderInv' /\ SharedInv'
    BY <2>1, <2>2, <2>3 DEF TypeOK, CountInv, Live, OrderInv, Wanted, SharedInv
  <2>5. ExitReason' /\ ServedListIsGood' /\ NoSilentEnd'
    BY <1>1, <2>1, <2>2 DEF Promises, ExitReason, ServedListIsGood, NoSilentEnd
  <2> QED
    BY <2>4, <2>5 DEF IInv, Promises
<1> QED
  BY <1>1, <1>2, <1>3, <1>4, <1>5, <1>6, StartHealthIInv, StartServerIInv,
     WaitReturnsIInv DEF Main

LEMMA StepIInv == IInv /\ [Next]_vars => IInv'
<1> SUFFICES ASSUME IInv, [Next]_vars PROVE IInv'
  OBVIOUS
<1>1. CASE UNCHANGED vars
  <2>1. UNCHANGED <<config, proc, pc, next, server, list, wg, logged>>
    BY <1>1 DEF vars
  <2>2. TypeOK /\ CountInv /\ OrderInv /\ SharedInv /\ Promises
    BY DEF IInv
  <2>3. TypeOK' /\ CountInv' /\ OrderInv' /\ SharedInv'
    BY <2>1, <2>2 DEF TypeOK, CountInv, Live, OrderInv, Wanted, SharedInv
  <2>4. ExitReason' /\ ServedListIsGood' /\ NoSilentEnd'
    BY <2>1, <2>2
    DEF Promises, ExitReason, ServedListIsGood, NoSilentEnd, Wanted, BadDsn
  <2> QED
    BY <2>3, <2>4 DEF IInv, Promises
<1> QED
  BY <1>1, MainIInv, StartingIInv, StoppingIInv DEF Next

\* The strengthening holds in every behaviour of Startup.
THEOREM InductiveInvariant == Spec => []IInv
BY InitIInv, StepIInv, PTL DEF Spec

\* Startup is type correct; in particular main's wait group never goes below
\* zero, which would panic (main.go:119-211).
THEOREM TypeCorrect == Spec => []TypeOK
<1>1. IInv => TypeOK
  BY DEF IInv
<1> QED
  BY <1>1, InductiveInvariant, PTL

\* main leaves wg.Wait() only when all the servers it wants have been started
\* and have gone, in whatever order they stop (main.go:119-211).
THEOREM LeavesForAReason == Spec => []ExitReason
<1>1. IInv => ExitReason
  BY DEF IInv, Promises
<1> QED
  BY <1>1, InductiveInvariant, PTL

\* No server serves a list that could not be parsed (main.go:101-104, Run of the
\* four servers).
THEOREM ServesGoodLists == Spec => []ServedListIsGood
<1>1. IInv => ServedListIsGood
  BY DEF IInv, Promises
<1> QED
  BY <1>1, InductiveInvariant, PTL

\* Who gives up, and a process that leaves unasked, is in the log.
THEOREM EndsAreLogged == Spec => []NoSilentEnd
<1>1. IInv => NoSilentEnd
  BY DEF IInv, Promises
<1> QED
  BY <1>1, InductiveInvariant, PTL
==================================================================================
