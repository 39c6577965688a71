------------------------------- MODULE SqlProofs -------------------------------
(***************************************************************************)
(* Proofs about SqlClient for any number of callers and any settings.      *)
(***************************************************************************)
EXTENDS SqlClient, FiniteSetTheorems, TLAPS

\* Whoever assigned c.conn last is past sql.Open and has itself configured, or
\* will configure, the pool that is there.
PoolInv ==
  /\ conn \in Callers =>
       /\ openOk
       /\ pc[conn] \notin {"idle", "open"}
       /\ conn \notin limited => pc[conn] = "limit"
       /\ conn \notin idled => pc[conn] \in {"limit", "spare"}
  /\ \A g \in Callers :
       pc[g] \in Steps \ {"idle", "open", "done"} => conn \in Callers

\* Each caller: it has a pool exactly while it waits for or uses a connection,
\* and what it has to do and has done add up to the count it drew.
CallerInv(g) ==
  /\ pool[g] # NoPool <=> pc[g] \in {"wait", "query", "rows"}
  /\ pc[g] \in {"idle", "open", "limit", "spare", "count"} => ran[g] = 0
  /\ pc[g] \in {"loop", "wait", "query", "rows"} => left[g] + ran[g] \in Counts
  /\ pc[g] \in {"wait", "query", "rows"} => left[g] > 0
  /\ result[g] = "ok" => pc[g] = "done" /\ ran[g] \in Counts

IInv ==
  /\ TypeOK
  /\ PoolInv
  /\ \A g \in Callers : CallerInv(g)

\* The counts are natural numbers.
LEMMA CountsType ==
  /\ Counts \subseteq Nat
  /\ \A n \in Counts : \/ RepeatCount <= n /\ n <= RepeatCountMax
                       \/ RepeatCount >= RepeatCountMax /\ n = 0
  BY SqlAssumption DEF Counts, CountsFrom, UpTo

\* Nothing is open before the first call.
LEMMA InitInv == Init => IInv
  BY SqlAssumption DEF Init, IInv, TypeOK, PoolInv, CallerInv, Steps

\* The steps of a caller that do not touch c.conn or a pool's settings.
LEMMA CallerSteps ==
  ASSUME IInv, NEW g \in Callers,
         \/ PickCount(g) \/ StartQuery(g) \/ CloseRows(g) \/ Finish(g)
         \/ Acquire(g) \/ QueryReturns(g) \/ QueryFails(g)
  PROVE  IInv'
  <1> USE SqlAssumption, CountsType DEF Steps, GoTo
  <1>1. TypeOK /\ PoolInv /\ CallerInv(g)
    BY DEF IInv
  <1>2. UNCHANGED <<openOk, conn, limited, idled>>
    BY DEF PickCount, StartQuery, CloseRows, NextRound, Finish,
       Acquire, QueryReturns,
           QueryFails
  <1>3. conn \in Callers
    BY <1>1 DEF PickCount, StartQuery, CloseRows, NextRound,
       Finish, Acquire,
                QueryReturns, QueryFails, PoolInv
  <1>4. TypeOK'
    BY <1>1, <1>3 DEF TypeOK, PickCount, StartQuery, CloseRows,
       NextRound, Finish, Acquire,
                QueryReturns, QueryFails, CallerInv
  <1>5. PoolInv'
    BY <1>1, <1>2, <1>3 DEF PoolInv, TypeOK, PickCount, StartQuery,
       CloseRows, NextRound,
                            Finish, Acquire, QueryReturns, QueryFails
  <1>6. CallerInv(g)'
    <2>1. CASE PickCount(g)
      BY <1>1, <2>1 DEF CallerInv, TypeOK, PickCount
    <2>2. CASE StartQuery(g)
      BY <1>1, <1>3, <2>2 DEF CallerInv, TypeOK, StartQuery
    <2>3. CASE CloseRows(g)
      BY <1>1, <2>3 DEF CallerInv, TypeOK, CloseRows, NextRound
    <2>4. CASE Finish(g)
      BY <1>1, <2>4 DEF CallerInv, TypeOK, Finish
    <2>5. CASE Acquire(g)
      BY <1>1, <2>5 DEF CallerInv, TypeOK, Acquire
    <2>6. CASE QueryReturns(g)
      BY <1>1, <2>6 DEF CallerInv, TypeOK, QueryReturns
    <2>7. CASE QueryFails(g)
      BY <1>1, <2>7 DEF CallerInv, TypeOK, QueryFails
    <2> QED
      BY <2>1, <2>2, <2>3, <2>4, <2>5, <2>6, <2>7
  <1>7. ASSUME NEW h \in Callers, h # g
        PROVE  CallerInv(h)'
    <2>1. CallerInv(h)
      BY DEF IInv
    <2> QED
      BY <1>1, <1>7, <2>1
         DEF CallerInv, TypeOK, PickCount, StartQuery, CloseRows,
         NextRound, Finish,
             Acquire, QueryReturns, QueryFails
  <1> QED
    BY <1>4, <1>5, <1>6, <1>7 DEF IInv

\* The steps of the race for c.conn.
LEMMA OpenerSteps ==
  ASSUME IInv, NEW g \in Callers,
         \/ Check(g) \/ Open(g) \/ OpenFails(g) \/ SetMaxOpen(g) \/ SetMaxIdle(g)
  PROVE  IInv'
  <1> USE SqlAssumption DEF Steps, GoTo
  <1>1. TypeOK /\ PoolInv /\ \A h \in Callers : CallerInv(h)
    BY DEF IInv
  <1>2. UNCHANGED <<pool, left, ran>>
    BY DEF Check, CheckFor, Open, OpenFails, OpenFailing, SetMaxOpen,
       SetMaxIdle, SetIdle
  <1>3. \A h \in Callers : CallerInv(h)'
    BY <1>1, <1>2 DEF CallerInv, TypeOK, Check, CheckFor, Open, OpenFails,
       OpenFailing, SetMaxOpen,
                      SetMaxIdle, SetIdle
  <1>4. CASE Check(g)
    <2>1. TypeOK'
      BY <1>1, <1>4 DEF TypeOK, Check, CheckFor
    <2>2. PoolInv'
      BY <1>1, <1>4 DEF TypeOK, PoolInv, Check, CheckFor
    <2> QED
      BY <1>3, <2>1, <2>2 DEF IInv
  <1>5. CASE Open(g)
    <2>1. TypeOK'
      BY <1>1, <1>5 DEF TypeOK, Open
    <2>2. PoolInv'
      BY <1>1, <1>5 DEF TypeOK, PoolInv, Open
    <2> QED
      BY <1>3, <2>1, <2>2 DEF IInv
  <1>6. CASE OpenFails(g)
    <2>1. TypeOK'
      BY <1>1, <1>6 DEF TypeOK, OpenFails, OpenFailing
    <2>2. conn = NoPool
      BY <1>1, <1>6 DEF TypeOK, PoolInv, OpenFails, OpenFailing
    <2>3. PoolInv'
      BY <1>1, <1>6, <2>2 DEF TypeOK, PoolInv, OpenFails, OpenFailing
    <2> QED
      BY <1>3, <2>1, <2>3 DEF IInv
  <1>7. CASE SetMaxOpen(g)
    <2>1. conn \in Callers
      BY <1>1, <1>7 DEF TypeOK, PoolInv, SetMaxOpen
    <2>2. TypeOK'
      BY <1>1, <1>7, <2>1 DEF TypeOK, SetMaxOpen
    <2>3. PoolInv'
      BY <1>1, <1>7, <2>1 DEF TypeOK, PoolInv, SetMaxOpen
    <2> QED
      BY <1>3, <2>2, <2>3 DEF IInv
  <1>8. CASE SetMaxIdle(g)
    <2>1. conn \in Callers
      BY <1>1, <1>8 DEF TypeOK, PoolInv, SetMaxIdle, SetIdle
    <2>2. TypeOK'
      BY <1>1, <1>8, <2>1 DEF TypeOK, SetMaxIdle, SetIdle
    <2>3. PoolInv'
      BY <1>1, <1>8, <2>1 DEF TypeOK, PoolInv, SetMaxIdle, SetIdle
    <2> QED
      BY <1>3, <2>2, <2>3 DEF IInv
  <1> QED
    BY <1>4, <1>5, <1>6, <1>7, <1>8

\* Whoever moves, opener or caller, keeps it.
LEMMA NextInv == IInv /\ [Next]_vars => IInv'
  <1> SUFFICES ASSUME IInv, [Next]_vars PROVE IInv'
    OBVIOUS
  <1>1. CASE Next
    BY <1>1, CallerSteps, OpenerSteps DEF Next, Client, Database
  <1>2. CASE UNCHANGED vars
    BY <1>2 DEF vars, IInv, TypeOK, PoolInv, CallerInv
  <1> QED
    BY <1>1, <1>2

\* The strengthening holds in every behaviour of SqlClient.
THEOREM InductiveInvariant == Spec => []IInv
  BY InitInv, NextInv, PTL DEF Spec

\* However many callers race to open the pool, the one that stays is configured
\* when the last of them is through (sql.go:87-94).
THEOREM PoolConfigured == Spec => []SettledPoolConfigured
  <1>1. IInv => SettledPoolConfigured
    BY DEF IInv, TypeOK, PoolInv, SettledPoolConfigured, Opening
  <1> QED
    BY <1>1, InductiveInvariant, PTL

\* ... and is never replaced after that.
THEOREM PoolStays == Spec => SettledPoolStays
  <1>1. IInv /\ [Next]_vars => [Settled => Settled' /\ conn' = conn]_vars
    <2> SUFFICES ASSUME IInv, Next, Settled
                 PROVE  Settled' /\ conn' = conn
      OBVIOUS
    <2>1. PICK g \in Callers : Check(g) \/ Client(g) \/ Database(g)
      BY DEF Next
    <2>2. ~ Open(g) /\ ~ OpenFails(g)
      BY DEF Settled, Open, OpenFails, OpenFailing
    <2>3. UNCHANGED conn
      BY <2>1, <2>2 DEF Client, Database, Check, CheckFor, SetMaxOpen,
         SetMaxIdle, SetIdle,
           PickCount, StartQuery, Acquire, QueryReturns,
           QueryFails, CloseRows, NextRound,
           Finish
    <2>4. \A h \in Callers : pc'[h] # "open"
      BY <2>1, <2>2 DEF IInv, TypeOK, Settled, GoTo, Client, Database, Check,
         CheckFor,
           SetMaxOpen, SetMaxIdle, SetIdle, PickCount, StartQuery,
           Acquire,
           QueryReturns, QueryFails, CloseRows, NextRound, Finish
    <2> QED
      BY <2>3, <2>4 DEF Settled
  <1> QED
    BY <1>1, InductiveInvariant, PTL DEF Spec, SettledPoolStays

\* No query goes to a nil pool.
THEOREM NeverNil == Spec => []NoQueryOnNil
  <1>1. IInv => NoQueryOnNil
    BY DEF IInv, CallerInv, NoQueryOnNil
  <1> QED
    BY <1>1, InductiveInvariant, PTL

\* A call that succeeds has made a number of queries in the configured range,
\* or none if the range is a point (sql.go:96-112).
THEOREM RepeatsRight == Spec => []RepeatsInRange
  <1>1. IInv => RepeatsInRange
    BY CountsType DEF IInv, CallerInv, RepeatsInRange
  <1> QED
    BY <1>1, InductiveInvariant, PTL

--------------------------------------------------------------------------------
(* That every call returns takes fairness, which stays with TLC; what it    *)
(* rests on holds without: a full pool is in use by somebody who needs no   *)
(* second connection, and the steps of a call are bounded.                  *)

\* While a call waits for a connection of a full pool, other calls are at their
\* query or their rows and have all they need to give one back (sql.go:101-111).
THEOREM WaitersHaveAHolder ==
  Spec => [](\A g \in Callers :
               /\ pc[g] = "wait" /\ pool[g] \in limited
               /\ Cardinality(Busy(pool[g])) >= MaxOpen
               => \E h \in Callers \ {g} : /\ pool[h] = pool[g]
                                           /\ pc[h] \in {"query", "rows"})
  <1>1. ASSUME IInv, NEW g \in Callers, pc[g] = "wait",
               Cardinality(Busy(pool[g])) >= MaxOpen
        PROVE  \E h \in Callers \ {g} : /\ pool[h] = pool[g]
                                        /\ pc[h] \in {"query", "rows"}
    <2>1. Busy(pool[g]) # {}
      <3> SUFFICES ASSUME Busy(pool[g]) = {}
                   PROVE  FALSE
        OBVIOUS
      <3>1. Cardinality(Busy(pool[g])) = 0
        BY FS_EmptySet
      <3> QED
        BY <1>1, <3>1, SqlAssumption
    <2>2. PICK h \in Callers : pool[h] = pool[g] /\ pc[h] # "wait"
      BY <2>1 DEF Busy
    <2>3. CallerInv(g) /\ CallerInv(h)
      BY <1>1 DEF IInv
    <2>4. pool[h] # NoPool
      BY <1>1, <2>2, <2>3 DEF CallerInv
    <2>5. pc[h] \in {"query", "rows"}
      BY <2>2, <2>3, <2>4 DEF CallerInv
    <2> QED
      BY <1>1, <2>2, <2>5
  <1>2. IInv =>
          \A g \in Callers :
               /\ pc[g] = "wait" /\ pool[g] \in limited
               /\ Cardinality(Busy(pool[g])) >= MaxOpen
               => \E h \in Callers \ {g} : /\ pool[h] = pool[g]
                                           /\ pc[h] \in {"query", "rows"}
    BY <1>1
  <1> QED
    BY <1>2, InductiveInvariant, PTL

\* The steps a call has at most before it: four for each query it still makes,
\* and before the number is drawn those of the largest one.
RankAt(step, n) ==
  CASE step = "idle"  -> 4 * UpTo + 6
    [] step = "open"  -> 4 * UpTo + 5
    [] step = "limit" -> 4 * UpTo + 4
    [] step = "spare" -> 4 * UpTo + 3
    [] step = "count" -> 4 * UpTo + 2
    [] step = "loop"  -> 4 * n + 1
    [] step = "wait"  -> 4 * n
    [] step = "query" -> 4 * n - 1
    [] step = "rows"  -> 4 * n - 2
    [] OTHER          -> 0

Rank(g) == RankAt(pc[g], left[g])

\* No number drawn is above the bound.
LEMMA CountsBelow ==
  /\ UpTo \in Nat
  /\ \A n \in Counts : n \in Nat /\ n <= UpTo
  BY SqlAssumption DEF Counts, CountsFrom, UpTo

\* What is left to make is part of what was drawn.
LEMMA LeftBelow ==
  ASSUME IInv, NEW g \in Callers
  PROVE  /\ left[g] \in Nat
         /\ pc[g] \in {"loop", "wait", "query", "rows"} => left[g] <= UpTo
         /\ pc[g] \in {"wait", "query", "rows"} => left[g] >= 1
  <1>1. left[g] \in Nat /\ ran[g] \in Nat /\ CallerInv(g)
    BY DEF IInv, TypeOK
  <1>2. ASSUME pc[g] \in {"loop", "wait", "query", "rows"}
        PROVE  left[g] <= UpTo
    <2>1. left[g] + ran[g] <= UpTo
      BY <1>1, <1>2, CountsBelow DEF CallerInv
    <2> QED
      BY <1>1, <2>1, CountsBelow
  <1>3. pc[g] \in {"wait", "query", "rows"} => left[g] >= 1
    BY <1>1 DEF CallerInv
  <1> QED
    BY <1>1, <1>2, <1>3

\* A rank is a natural number.
LEMMA RankNumber ==
  ASSUME NEW step, NEW n \in Nat,
         step \in {"query", "rows"} => n >= 1
  PROVE  RankAt(step, n) \in Nat
  BY CountsBelow DEF RankAt

\* No call has more steps before it than one that has not begun.
LEMMA RankType ==
  ASSUME IInv, NEW g \in Callers
  PROVE  Rank(g) \in Nat /\ Rank(g) <= 4 * UpTo + 6
  BY LeftBelow, CountsBelow DEF Rank, RankAt

\* A step moves one call.
LEMMA OthersRest ==
  ASSUME IInv, NEW g \in Callers, Check(g) \/ Client(g) \/ Database(g),
         NEW h \in Callers \ {g}
  PROVE  Rank(h)' = Rank(h)
  <1>1. pc'[h] = pc[h] /\ left'[h] = left[h]
    BY DEF IInv, TypeOK, GoTo, Client, Database, Check, CheckFor, Open,
       OpenFails, OpenFailing, SetMaxOpen, SetMaxIdle, SetIdle, PickCount,
       StartQuery, Acquire, QueryReturns, QueryFails, CloseRows, NextRound,
       Finish
  <1> QED
    BY <1>1 DEF Rank, RankAt

\* ... and takes it towards its return.
LEMMA RankFalls ==
  ASSUME IInv, NEW g \in Callers, Check(g) \/ Client(g) \/ Database(g)
  PROVE  Rank(g)' < Rank(g)
  <1> USE CountsBelow DEF GoTo
  <1>1. /\ left[g] \in Nat
        /\ pc[g] \in {"loop", "wait", "query", "rows"} => left[g] <= UpTo
        /\ pc[g] \in {"wait", "query", "rows"} => left[g] >= 1
    BY LeftBelow
  <1>2. pc \in [Callers -> Steps] /\ left \in [Callers -> Nat]
    BY DEF IInv, TypeOK
  <1>3. CASE Check(g)
    BY <1>1, <1>2, <1>3 DEF Rank, RankAt, Check, CheckFor
  <1>4. CASE Open(g) \/ OpenFails(g) \/ SetMaxOpen(g) \/ SetMaxIdle(g)
    BY <1>1, <1>2, <1>4 DEF Rank, RankAt, Open, OpenFails, OpenFailing, SetMaxOpen,
       SetMaxIdle, SetIdle
  <1>5. CASE PickCount(g)
    <2>1. pc[g] = "count" /\ pc'[g] = "loop"
      BY <1>2, <1>5 DEF PickCount
    <2>2. left'[g] \in Nat /\ left'[g] <= UpTo
      BY <1>2, <1>5 DEF PickCount
    <2> QED
      BY <2>1, <2>2 DEF Rank, RankAt
  <1>6. CASE StartQuery(g) \/ Acquire(g) \/ QueryReturns(g) \/ QueryFails(g)
    BY <1>1, <1>2, <1>6 DEF Rank, RankAt, StartQuery, Acquire, QueryReturns,
       QueryFails
  <1>7. CASE CloseRows(g)
    BY <1>1, <1>2, <1>7 DEF Rank, RankAt, CloseRows, NextRound
  <1>8. CASE Finish(g)
    BY <1>1, <1>2, <1>8 DEF Rank, RankAt, Finish
  <1> QED
    BY <1>3, <1>4, <1>5, <1>6, <1>7, <1>8 DEF Client, Database

\* The call g comes closer to its return, the others stay where they are.
Closer(g) ==
  /\ Rank(g)' \in 0 .. 4 * UpTo + 5
  /\ Rank(g)' < Rank(g)
  /\ \A h \in Callers \ {g} : Rank(h)' = Rank(h)

\* Each step of the system takes one call closer to its return and sets none
\* back: RunQuery takes at most 4 * UpTo + 6 steps, however the database and the
\* calls it shares the pool with behave (sql.go:84-115).
THEOREM StepsAreBounded == Spec => [][\E g \in Callers : Closer(g)]_vars
  <1>1. ASSUME IInv, IInv', Next
        PROVE  \E g \in Callers : Closer(g)
    <2>1. PICK g \in Callers : Check(g) \/ Client(g) \/ Database(g)
      BY <1>1 DEF Next
    <2>2. Rank(g)' < Rank(g) /\ \A h \in Callers \ {g} : Rank(h)' = Rank(h)
      BY <1>1, <2>1, RankFalls, OthersRest
    <2>3. Rank(g) \in Nat /\ Rank(g) <= 4 * UpTo + 6
      BY <1>1, RankType
    <2>4. Rank(g)' \in Nat
      <3>1. left'[g] \in Nat /\ (pc'[g] \in {"query", "rows"} => left'[g] >= 1)
        BY <1>1 DEF IInv, TypeOK, CallerInv
      <3> QED
        BY <3>1, RankNumber DEF Rank
    <2>5. Rank(g)' \in 0 .. 4 * UpTo + 5
      BY <2>2, <2>3, <2>4, CountsBelow
    <2> QED
      BY <2>2, <2>5 DEF Closer
  <1>2. IInv /\ IInv' /\ [Next]_vars => [\E g \in Callers : Closer(g)]_vars
    BY <1>1
  <1> QED
    BY <1>2, InitInv, NextInv, PTL DEF Spec
===============================================================================
