------------------------------ MODULE HeaderProofs ------------------------------
(***************************************************************************)
(* Proofs about HeaderPropagation: any names, values and lists of headers, *)
(* chains of any length.                                                   *)
(***************************************************************************)
EXTENDS HeaderPropagation, SequenceTheorems, TLAPS

\* What a service finds of the header n, n # UserAgent, if `h` is what it gets.
TraceIn(h) ==
  \A n \in Names \ {UserAgent} :
    IF n \in Propagated
      THEN Get(h, n) = IF Traced THEN Get(sent, n) ELSE Empty
      ELSE Len(path) > 1 => h[n] = <<>>

\* It is the same on the wire as in the service at its end; a carrier brings its
\* fields, any other call none.
TraceInv == TraceIn(IF at = "wire" THEN fields ELSE headers)

\* The same for the User-Agent: the first call comes with the client's own.
AgentIn(h) == Get(h, UserAgent) = IF Len(path) > 1 THEN Origin ELSE Get(sent, UserAgent)
AgentInv ==
  /\ path[1] \in Carriers
  /\ AgentIn(IF at = "wire" THEN fields ELSE headers)

IInv == TypeOK /\ TraceInv /\ AgentInv

Values3 == Values \cup {GoHttp, GrpcGo}

LEMMA NoneOrOne ==
  ASSUME NEW v \in Values3
  PROVE  /\ <<>> \in Seq(Values3) /\ Len(<<>>) <= 1
         /\ <<v>> \in Seq(Values3) /\ Len(<<v>>) <= 1
         /\ <<v>> # <<>> /\ Head(<<v>>) = v
OBVIOUS

\* A header that Get finds is there, with that value in front.
LEMMA GetOfHeaders ==
  ASSUME NEW h \in [Names -> Seq(Values3)], NEW n \in Names
  PROVE  /\ Get(h, n) \in Values3
         /\ h[n] # <<>> => Get(h, n) = Head(h[n])
         /\ h[n] = <<>> => Get(h, n) = Empty
<1>1. h[n] \in Seq(Values3)
  OBVIOUS
<1>2. h[n] # <<>> => Head(h[n]) \in Values3
  BY <1>1, HeadTailProperties
<1> QED
  BY <1>2, HeaderAssumption DEF Get, Values3

\* Neither way of propagating changes what Get finds of a listed header, and
\* neither lets another one pass.
LEMMA PropagateKeeps ==
  ASSUME NEW h \in [Names -> Seq(Values3)]
  PROVE  /\ propagateHeaders(h) = propagateGRPCHeaders(h)
         /\ propagateHeaders(h) \in [Names -> Seq(Values3)]
         /\ \A n \in Names : Len(propagateHeaders(h)[n]) <= 1
         /\ \A n \in Propagated : Get(propagateHeaders(h), n) = Get(h, n)
         /\ \A n \in Names \ Propagated : propagateHeaders(h)[n] = <<>>
<1>1. propagateHeaders(h) = propagateGRPCHeaders(h)
  BY DEF propagateHeaders, propagateGRPCHeaders
<1>2. ASSUME NEW n \in Names
      PROVE  /\ propagateHeaders(h)[n] =
                  IF n \in Carried(h) THEN <<Get(h, n)>> ELSE <<>>
             /\ Get(h, n) \in Values3
  BY GetOfHeaders DEF propagateHeaders
<1>3. propagateHeaders(h) \in [Names -> Seq(Values3)]
  <2>1. ASSUME NEW n \in Names
        PROVE  (IF n \in Carried(h) THEN <<Get(h, n)>> ELSE <<>>) \in Seq(Values3)
    BY <1>2, NoneOrOne
  <2> QED
    BY <2>1 DEF propagateHeaders
<1>4. ASSUME NEW n \in Names PROVE Len(propagateHeaders(h)[n]) <= 1
  BY <1>2, NoneOrOne
<1>5. ASSUME NEW n \in Propagated PROVE Get(propagateHeaders(h), n) = Get(h, n)
  <2>1. CASE Get(h, n) = Empty
    BY <2>1, <1>2, HeaderAssumption DEF Carried, Get
  <2>2. CASE Get(h, n) # Empty
    <3>1. n \in Names /\ n \in Carried(h)
      BY <2>2, HeaderAssumption DEF Carried
    <3>2. propagateHeaders(h)[n] = <<Get(h, n)>> /\ Get(h, n) \in Values3
      BY <3>1, <1>2
    <3>3. <<Get(h, n)>> # <<>> /\ Head(<<Get(h, n)>>) = Get(h, n)
      BY <3>2, NoneOrOne
    <3>4. Get(propagateHeaders(h), n) = Head(propagateHeaders(h)[n])
      BY <3>2, <3>3 DEF Get
    <3> QED
      BY <3>2, <3>3, <3>4
  <2> QED
    BY <2>1, <2>2
<1>6. \A n \in Names \ Propagated : propagateHeaders(h)[n] = <<>>
  BY <1>2 DEF Carried
<1> QED
  BY <1>1, <1>3, <1>4, <1>5, <1>6

\* The two clients only touch the User-Agent.
LEMMA ClientsAddAgent ==
  ASSUME NEW h \in [Names -> Seq(Values3)], \A n \in Names : Len(h[n]) <= 1,
         NEW g \in {OnHttp(h), OnGrpc(h)}
  PROVE  /\ g \in [Names -> Seq(Values3)]
         /\ \A n \in Names : Len(g[n]) <= 1
         /\ \A n \in Names \ {UserAgent} : g[n] = h[n]
<1>1. /\ <<GoHttp>> \in Seq(Values3) /\ Len(<<GoHttp>>) <= 1
      /\ <<GrpcGo>> \in Seq(Values3) /\ Len(<<GrpcGo>>) <= 1
  BY NoneOrOne DEF Values3
<1>2. UserAgent \in Names
  BY HeaderAssumption
<1>3. PICK v \in {h[UserAgent], <<GoHttp>>, <<GrpcGo>>} :
        g = [h EXCEPT ![UserAgent] = v]
  BY <1>2 DEF OnHttp, OnGrpc
<1>4. v \in Seq(Values3) /\ Len(v) <= 1
  BY <1>1, <1>2, <1>3
<1> QED
  BY <1>2, <1>3, <1>4

LEMMA HeadsAreSeqs == Heads \subseteq Seq(Values3)
<1> SUFFICES ASSUME NEW n \in 0 .. 2, NEW s \in [1 .. n -> Values]
             PROVE  s \in Seq(Values3)
  BY DEF Heads
<1> QED
  BY DEF Values3

LEMMA InitIInv == Init => IInv
<1> SUFFICES ASSUME Init PROVE IInv
  OBVIOUS
<1>1. PICK k \in Carriers : path = <<k>>
  BY DEF Init
<1>2. path \in Seq(Kinds) /\ Len(path) = 1 /\ Traced
  BY <1>1 DEF Kinds, Carriers, Traced
<1>3. fields \in [Names -> Seq(Values3)] /\ headers \in [Names -> Seq(Values3)]
  BY HeadsAreSeqs DEF Init, None
<1>4. TypeOK
  BY <1>2, <1>3, HeaderAssumption DEF Init, TypeOK, Values3
<1>5. TraceInv
  BY <1>2, HeaderAssumption DEF Init, TraceInv, TraceIn
<1>6. AgentInv
  BY <1>1, <1>2 DEF Init, AgentInv, AgentIn
<1> QED
  BY <1>4, <1>5, <1>6 DEF IInv

\* The trace as it is after a hop.
LEMMA NextHop ==
  ASSUME path \in Seq(Kinds), Len(path) > 0, NEW k \in Kinds,
         path' = Append(path, k)
  PROVE  /\ path' \in Seq(Kinds) /\ Len(path') = Len(path) + 1
         /\ path'[Len(path')] = k
         /\ \A i \in 1 .. Len(path) : path'[i] = path[i]
         /\ Traced' <=> Traced /\ k \in Carriers
<1>1. /\ path' \in Seq(Kinds) /\ Len(path') = Len(path) + 1
      /\ path'[Len(path')] = k
      /\ \A i \in 1 .. Len(path) : path'[i] = path[i]
  BY AppendProperties
<1>2. DOMAIN path = 1 .. Len(path) /\ DOMAIN path' = 1 .. Len(path) + 1
  BY <1>1
<1>3. \A i \in 1 .. Len(path) + 1 : i \in 1 .. Len(path) \/ i = Len(path')
  BY <1>1
<1> QED
  BY <1>1, <1>2, <1>3 DEF Traced

\* A hop changes what RpcLast says as the hop itself tells.
LEMMA RpcLastOfHop ==
  ASSUME path \in Seq(Kinds), Len(path) > 0, NEW k \in Kinds,
         path' = Append(path, k), path[1] \in Carriers
  PROVE  /\ k = "grpc" => RpcLast'
         /\ k = "http" /\ path[Len(path)] \notin Carriers => ~RpcLast' /\ ~Traced
         /\ k = "http" /\ path[Len(path)] \in Carriers => (RpcLast' <=> RpcLast)
<1> DEFINE n == Len(path)
<1>1. /\ n \in Nat /\ n > 0 /\ Len(path') = n + 1 /\ path'[n + 1] = k
      /\ \A i \in 1 .. n : path'[i] = path[i] /\ path[i] \in Kinds
      /\ DOMAIN path = 1 .. n
  BY NextHop
<1> HIDE DEF n
<1>2. RpcLast' <=> \E i \in 2 .. n + 1 :
                     /\ path'[i] = "grpc"
                     /\ \A j \in 2 .. n + 1 : path'[j] \in {"tcp", "kafka"} => j < i
  BY <1>1 DEF RpcLast
<1>3. RpcLast <=> \E i \in 2 .. n :
                    /\ path[i] = "grpc"
                    /\ \A j \in 2 .. n : path[j] \in {"tcp", "kafka"} => j < i
  BY DEF RpcLast, n
<1>4. ASSUME k = "grpc" PROVE RpcLast'
  <2>1. \A j \in 2 .. n + 1 : path'[j] \in {"tcp", "kafka"} => j < n + 1
    BY <1>1, <1>4
  <2> QED
    BY <2>1, <1>1, <1>2, <1>4
<1>5. ASSUME k = "http", path[n] \notin Carriers PROVE ~RpcLast' /\ ~Traced
  <2>1. n \in 2 .. n + 1 /\ path'[n] \in {"tcp", "kafka"}
    BY <1>1, <1>5 DEF Kinds, Carriers
  <2>2. ASSUME NEW i \in 2 .. n + 1, path'[i] = "grpc", n < i PROVE FALSE
    BY <1>1, <1>5, <2>2
  <2> QED
    BY <1>1, <1>2, <1>5, <2>1, <2>2 DEF Traced
<1>6. ASSUME k = "http" PROVE RpcLast' <=> RpcLast
  BY <1>1, <1>2, <1>3, <1>6
<1> QED
  BY <1>4, <1>5, <1>6 DEF n

\* What the clients make of the User-Agent is what Origin says of the next call.
LEMMA AgentOfHop ==
  ASSUME headers \in [Names -> Seq(Values3)], path \in Seq(Kinds), Len(path) > 0,
         path[1] \in Carriers, AgentIn(headers), sent' = sent,
         NEW k \in Kinds, path' = Append(path, k), NEW given,
         \/ k = "http" /\ given = OnHttp(propagateHeaders(headers))
         \/ k = "grpc" /\ given = OnGrpc(propagateGRPCHeaders(headers))
         \/ k \notin Carriers /\ given = None
  PROVE  /\ path'[1] \in Carriers /\ Len(path') > 1
         /\ Get(given, UserAgent) = Origin'
<1>1. /\ Len(path) \in Nat /\ Len(path') = Len(path) + 1 /\ path'[Len(path')] = k
      /\ path'[1] = path[1]
      /\ Traced' <=> Traced /\ k \in Carriers
  BY NextHop
<1>2. UserAgent \in Propagated /\ UserAgent \in Names
      /\ GoHttp # Empty /\ GrpcGo # Empty
  BY HeaderAssumption
<1>3. Get(sent, UserAgent)' = Get(sent, UserAgent)
  BY DEF Get
<1>4. CASE k \notin Carriers
  BY <1>1, <1>2, <1>4 DEF Origin, Get, None, Carriers
<1>5. CASE k = "grpc"
  <2> DEFINE p == propagateGRPCHeaders(headers)
  <2>1. p \in [Names -> Seq(Values3)]
    BY PropagateKeeps
  <2>2. given = [p EXCEPT ![UserAgent] = <<GrpcGo>>]
    BY <1>5 DEF OnGrpc, Carriers
  <2>3. given[UserAgent] = <<GrpcGo>>
    BY <1>2, <2>1, <2>2
  <2>4. Get(given, UserAgent) = GrpcGo
    BY <2>3 DEF Get
  <2>5. RpcLast'
    BY <1>5, RpcLastOfHop
  <2> QED
    BY <1>1, <1>5, <2>4, <2>5 DEF Origin, Carriers
<1>6. CASE k = "http"
  <2> DEFINE p == propagateHeaders(headers)
             a == Get(headers, UserAgent)
  <2>1. p \in [Names -> Seq(Values3)] /\ Get(p, UserAgent) = a
    BY <1>2, PropagateKeeps
  <2>2. p[UserAgent] = IF a = Empty THEN <<>> ELSE <<a>>
    BY <1>2 DEF propagateHeaders, Carried
  <2>3. given = [p EXCEPT ![UserAgent] = IF @ = <<>> THEN <<GoHttp>> ELSE @]
    BY <1>6 DEF OnHttp, Carriers
  <2>4. Get(given, UserAgent) = IF a = Empty THEN GoHttp ELSE a
    <3>1. given[UserAgent] = IF a = Empty THEN <<GoHttp>> ELSE <<a>>
      BY <1>2, <2>1, <2>2, <2>3
    <3> QED
      BY <3>1 DEF Get
  <2>5. a = IF Len(path) > 1 THEN Origin ELSE Get(sent, UserAgent)
    BY DEF AgentIn
  <2> HIDE DEF a
  <2>6. Origin' = IF RpcLast' THEN GrpcGo
                  ELSE IF Traced /\ Get(sent, UserAgent) # Empty
                         THEN Get(sent, UserAgent) ELSE GoHttp
    BY <1>1, <1>3, <1>6 DEF Origin, Carriers
  <2>7. CASE Len(path) > 1 /\ path[Len(path)] \notin Carriers
    BY <1>6, <2>4, <2>5, <2>6, <2>7, RpcLastOfHop DEF Origin
  <2>8. CASE Len(path) > 1 /\ path[Len(path)] \in Carriers
    BY <1>2, <1>6, <2>4, <2>5, <2>6, <2>8, RpcLastOfHop DEF Origin
  <2>9. CASE Len(path) = 1
    <3>1. ~RpcLast /\ Traced
      BY <2>9, NextHop DEF RpcLast, Traced
    <3> QED
      BY <1>6, <2>4, <2>5, <2>6, <2>9, <3>1, RpcLastOfHop
  <2>10. Len(path) = 1 \/ Len(path) > 1
    <3>1. ASSUME NEW n \in Nat, n > 0 PROVE n = 1 \/ n > 1
      BY <3>1
    <3>2. Len(path) \in Nat /\ Len(path) > 0
      BY <1>1
    <3> QED
      BY <3>1, <3>2
  <2> QED
    BY <2>7, <2>8, <2>9, <2>10
<1> QED
  BY <1>1, <1>4, <1>5, <1>6 DEF Kinds, Carriers

LEMMA StepIInv == IInv /\ [Next]_vars => IInv'
<1> SUFFICES ASSUME IInv, [Next]_vars PROVE IInv'
  OBVIOUS
<1> USE DEF IInv
<1>1. CASE UNCHANGED vars
  <2>1. TypeOK' /\ TraceInv'
    BY <1>1 DEF vars, TypeOK, TraceInv, TraceIn, Traced, Get
  <2>2. AgentInv'
    BY <1>1 DEF vars, AgentInv, AgentIn, Origin, RpcLast, Traced, Get
  <2> QED
    BY <2>1, <2>2
<1>2. ASSUME NEW k \in Kinds, NEW given, ArriveWith(k, given),
             given = IF k \in Carriers THEN fields ELSE None
      PROVE  IInv'
  <2>1. /\ at = "wire" /\ at' = "service" /\ path[Len(path)] = k
        /\ headers' = given /\ UNCHANGED <<sent, fields, path>>
    BY <1>2 DEF ArriveWith, Arrives
  <2>2. None \in [Names -> Seq(Values3)] /\ \A n \in Names : None[n] = <<>>
    BY DEF None
  <2>3. TypeOK'
    BY <1>2, <2>1, <2>2 DEF TypeOK, Values3
  <2>4. TraceIn(given)
    <3>1. CASE k \in Carriers
      BY <3>1, <1>2, <2>1 DEF TraceInv
    <3>2. CASE k \notin Carriers
      <4>1. ~ Traced
        BY <3>2, <2>1 DEF Traced, TypeOK
      <4> QED
        BY <4>1, <3>2, <1>2, <2>2 DEF TraceIn, Get
    <3> QED
      BY <3>1, <3>2
  <2>5. TraceInv'
    BY <2>1, <2>4 DEF TraceInv, TraceIn, Get, Traced
  <2>6. AgentIn(given)
    <3>1. CASE k \in Carriers
      BY <3>1, <1>2, <2>1 DEF AgentInv
    <3>2. CASE k \notin Carriers
      <4>1. Len(path) \in Nat /\ Len(path) > 1
        BY <3>2, <2>1 DEF AgentInv, TypeOK
      <4>2. Get(None, UserAgent) = Empty
        BY <2>2, HeaderAssumption DEF Get
      <4> QED
        BY <4>1, <4>2, <3>2, <1>2, <2>1 DEF AgentIn, Origin
    <3> QED
      BY <3>1, <3>2
  <2>7. AgentInv'
    BY <2>1, <2>6 DEF AgentInv, AgentIn, Origin, RpcLast, Traced, Get
  <2> QED
    BY <2>3, <2>5, <2>7
<1>3. ASSUME NEW k \in Kinds, NEW given, Send(k, given),
             \/ k = "http" /\ given = OnHttp(propagateHeaders(headers))
             \/ k = "grpc" /\ given = OnGrpc(propagateGRPCHeaders(headers))
             \/ k \notin Carriers /\ given = None
      PROVE  IInv'
  <2>1. /\ at = "service" /\ at' = "wire" /\ Len(path) <= MaxHops
        /\ path' = Append(path, k) /\ fields' = given
        /\ UNCHANGED <<sent, headers>>
    BY <1>3 DEF Send
  <2>2. headers \in [Names -> Seq(Values3)] /\ path \in Seq(Kinds)
        /\ Len(path) \in 1 .. MaxHops + 1
    BY DEF TypeOK, Values3
  <2>3. /\ path' \in Seq(Kinds) /\ Len(path') = Len(path) + 1
        /\ Traced' <=> Traced /\ k \in Carriers
    BY <2>1, <2>2, NextHop
  <2>4. /\ given \in [Names -> Seq(Values3)]
        /\ \A n \in Names : Len(given[n]) <= 1
        /\ \A n \in Names \ {UserAgent} :
             given[n] = IF k \in Carriers THEN propagateHeaders(headers)[n] ELSE <<>>
    <3>1. CASE k \in Carriers
      <4>1. given \in {OnHttp(propagateHeaders(headers)),
                       OnGrpc(propagateHeaders(headers))}
        BY <3>1, <1>3, <2>2, PropagateKeeps
      <4>2. /\ propagateHeaders(headers) \in [Names -> Seq(Values3)]
            /\ \A n \in Names : Len(propagateHeaders(headers)[n]) <= 1
        BY <2>2, PropagateKeeps
      <4>3. ASSUME NEW h \in [Names -> Seq(Values3)], \A n \in Names : Len(h[n]) <= 1,
                   given \in {OnHttp(h), OnGrpc(h)}
            PROVE  /\ given \in [Names -> Seq(Values3)]
                   /\ \A n \in Names : Len(given[n]) <= 1
                   /\ \A n \in Names \ {UserAgent} : given[n] = h[n]
        BY <4>3, ClientsAddAgent
      <4>4. /\ given \in [Names -> Seq(Values3)]
            /\ \A n \in Names : Len(given[n]) <= 1
            /\ \A n \in Names \ {UserAgent} :
                 given[n] = propagateHeaders(headers)[n]
        BY <4>1, <4>2, <4>3
      <4> QED
        BY <4>4, <3>1
    <3>2. CASE k \notin Carriers
      <4>1. given = [n \in Names |-> <<>>]
        BY <3>2, <1>3 DEF None, Carriers
      <4>2. <<>> \in Seq(Values3) /\ Len(<<>>) <= 1
        OBVIOUS
      <4>3. /\ given \in [Names -> Seq(Values3)]
            /\ \A n \in Names : Len(given[n]) <= 1 /\ given[n] = <<>>
        BY <4>1, <4>2
      <4> QED
        BY <4>3, <3>2
    <3> QED
      BY <3>1, <3>2
  <2>5. TypeOK'
    BY <2>1, <2>2, <2>3, <2>4, HeaderAssumption DEF TypeOK, Values3
  <2>6. ASSUME NEW n \in Names \ {UserAgent}
        PROVE  IF n \in Propagated
                 THEN Get(given, n) = IF Traced' THEN Get(sent, n) ELSE Empty
                 ELSE given[n] = <<>>
    <3>1. TraceIn(headers)
      BY <2>1 DEF TraceInv
    <3>2. Get(propagateHeaders(headers), n) = Get(headers, n)
            \/ n \notin Propagated
      BY <2>2, PropagateKeeps
    <3>3. n \notin Propagated => propagateHeaders(headers)[n] = <<>>
      BY <2>2, PropagateKeeps
    <3>4. k \in Carriers => Get(given, n) = Get(propagateHeaders(headers), n)
      BY <2>4 DEF Get
    <3>5. k \notin Carriers => Get(given, n) = Empty /\ given[n] = <<>>
      BY <2>4 DEF Get
    <3> QED
      BY <3>1, <3>2, <3>3, <3>4, <3>5, <2>3, <2>4 DEF TraceIn
  <2>7. TraceInv'
    BY <2>1, <2>6 DEF TraceInv, TraceIn, Get
  <2>8. AgentInv'
    BY <2>1, <2>2, <1>3, AgentOfHop DEF AgentInv, AgentIn, Get
  <2> QED
    BY <2>5, <2>7, <2>8
<1>4. Next => \/ \E k \in Kinds :
                    ArriveWith(k, IF k \in Carriers THEN fields ELSE None)
              \/ Send("http", OnHttp(propagateHeaders(headers)))
              \/ Send("grpc", OnGrpc(propagateGRPCHeaders(headers)))
              \/ \E k \in Kinds \ Carriers : Send(k, None)
  BY DEF Next, ArriveHttp, ArriveGrpc, ArriveBare, SendHttp, SendGrpc, SendTcp,
         SendKafka, Kinds, Carriers
<1> QED
  BY <1>1, <1>2, <1>3, <1>4 DEF Kinds, Carriers

\* The strengthening holds in every behaviour of HeaderPropagation.
THEOREM InductiveInvariant == Spec => []IInv
BY InitIInv, StepIInv, PTL DEF Spec

\* HeaderPropagation is type correct: no call a service makes carries a header
\* twice.
THEOREM TypeCorrect == Spec => []TypeOK
<1>1. IInv => TypeOK
  BY DEF IInv
<1> QED
  BY <1>1, InductiveInvariant, PTL

\* The trace gets through every mix of HTTP and RPC, and nothing else does
\* (request.go:33-46, 174-192, grpcserver.go:108-115).
THEOREM TraceGetsThrough == Spec => []TraceIsKept
<1>1. IInv => TraceIsKept
  BY DEF IInv, TraceInv, TraceIn, TraceIsKept
<1> QED
  BY <1>1, InductiveInvariant, PTL

\* Whose User-Agent a service finds (request.go:35-46, http.go:42-61, grpc.go:40-66).
THEOREM AgentHasOrigin == Spec => []UserAgentOrigin
<1>1. IInv => UserAgentOrigin
  BY DEF IInv, AgentInv, AgentIn, UserAgentOrigin
<1> QED
  BY <1>1, InductiveInvariant, PTL
================================================================================
