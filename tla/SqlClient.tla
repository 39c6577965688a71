------------------------------- MODULE SqlClient -------------------------------
(***************************************************************************)
(* The SQL client all servers of a process share, under concurrent calls   *)
(* of RunQuery: the connection pool is opened by whoever finds c.conn nil, *)
(* without a lock.  The pool itself (database/sql) is external: a query    *)
(* waits until the pool has a free connection and keeps it until its rows  *)
(* are closed.                                                             *)
(***************************************************************************)
EXTENDS Integers, FiniteSets

CONSTANTS
  Callers,          \* calls of RunQuery; a caller also names the pool it opens
  NoPool,           \* c.conn = nil
  RepeatCount,      \* SQL_QUERY_REPEAT_COUNT
  RepeatCountMax,   \* SQL_QUERY_REPEAT_COUNT_MAX
  MaxOpen           \* SetMaxOpenConns: 50 in the code

ASSUME SqlAssumption ==
  /\ NoPool \notin Callers
  /\ RepeatCount \in Nat
  /\ RepeatCountMax \in Int
  /\ MaxOpen \in Nat \ {0}

VARIABLES
  openOk,     \* sql.Open accepts the driver and the DSN; never changes
  conn,       \* c.conn
  limited,    \* pools whose number of connections is limited
  idled,      \* pools whose number of idle connections is set
  pc,         \* pc[g]: where the call g is
  pool,       \* pool[g]: the pool it waits for or has a connection of
  left,       \* left[g]: queries it still has to make
  ran,        \* ran[g]: queries it has made
  result      \* result[g]: what it returned

vars == <<openOk, conn, limited, idled, pc, pool, left, ran, result>>

GoTo(g, step) == pc' = [pc EXCEPT ![g] = step]

\* NewClient raises the maximum to the minimum.
UpTo == IF RepeatCountMax < RepeatCount THEN RepeatCount ELSE RepeatCountMax

CountsFrom(least) == IF UpTo > RepeatCount THEN least .. UpTo ELSE {0}

\* Mutant: the minimum is not added to the random number.
CountsFromZero == CountsFrom(0)

\* How many queries a call may be told to make: none when the range is a point.
Counts == CountsFrom(RepeatCount)

\* The callers that hold a connection of the pool p.
Busy(p) == {g \in Callers : pool[g] = p /\ pc[g] # "wait"}

Init ==
  /\ openOk \in BOOLEAN
  /\ conn = NoPool
  /\ limited = {}
  /\ idled = {}
  /\ pc = [g \in Callers |-> "idle"]
  /\ pool = [g \in Callers |-> NoPool]
  /\ left = [g \in Callers |-> 0]
  /\ ran = [g \in Callers |-> 0]
  /\ result = [g \in Callers |-> "none"]

--------------------------------------------------------------------------------
CheckFor(g, absent) ==
  /\ pc[g] = "idle"
  /\ GoTo(g, IF absent THEN "open" ELSE "count")
  /\ UNCHANGED <<openOk, conn, limited, idled, pool, left, ran, result>>

\* Mutant: the nil check is lost.
CheckNothing(g) == CheckFor(g, TRUE)

\* `go RunQuery` in a handler, up to `if c.conn == nil`.
Check(g) == CheckFor(g, conn = NoPool)

\* sql.Open gives a pool; it replaces one opened in the meantime.
Open(g) ==
  /\ pc[g] = "open"
  /\ openOk
  /\ conn' = g
  /\ GoTo(g, "limit")
  /\ UNCHANGED <<openOk, limited, idled, pool, left, ran, result>>

OpenFailing(g, step, res) ==
  /\ pc[g] = "open"
  /\ ~openOk
  /\ conn' = NoPool
  /\ GoTo(g, step)
  /\ result' = [result EXCEPT ![g] = res]
  /\ UNCHANGED <<openOk, limited, idled, pool, left, ran>>

\* Mutant: the error of sql.Open is logged, not returned.
OpenFailsOn(g) == OpenFailing(g, "count", "none")

\* sql.Open fails: c.conn is assigned nil.
OpenFails(g) == OpenFailing(g, "done", "error")

\* c.conn.SetMaxOpenConns(50).  Nothing orders the read of c.conn with the
\* other callers' writes: it may give the value just written or a later one.
SetMaxOpen(g) ==
  /\ pc[g] = "limit"
  /\ \E p \in {g, conn} : limited' = limited \cup {p}
  /\ GoTo(g, "spare")
  /\ UNCHANGED <<openOk, conn, idled, pool, left, ran, result>>

SetIdle(g, pools) ==
  /\ pc[g] = "spare"
  /\ idled' = pools
  /\ GoTo(g, "count")
  /\ UNCHANGED <<openOk, conn, limited, pool, left, ran, result>>

\* Mutant: only the first opener sets it.
SetMaxIdleOnce(g) == SetIdle(g, IF idled = {} THEN {conn} ELSE idled)

\* c.conn.SetMaxIdleConns(25), c.conn being read again.
SetMaxIdle(g) == SetIdle(g, idled \cup {conn})

\* The number of queries is drawn.
PickCount(g) ==
  /\ pc[g] = "count"
  /\ \E n \in Counts : left' = [left EXCEPT ![g] = n]
  /\ GoTo(g, "loop")
  /\ UNCHANGED <<openOk, conn, limited, idled, pool, ran, result>>

--------------------------------------------------------------------------------
\* c.conn.Query: c.conn is read again for every query.
StartQuery(g) ==
  /\ pc[g] = "loop"
  /\ left[g] > 0
  /\ pool' = [pool EXCEPT ![g] = conn]
  /\ GoTo(g, "wait")
  /\ UNCHANGED <<openOk, conn, limited, idled, left, ran, result>>

\* The pool gives the query a connection.
Acquire(g) ==
  /\ pc[g] = "wait"
  /\ pool[g] \in limited => Cardinality(Busy(pool[g])) < MaxOpen
  /\ GoTo(g, "query")
  /\ UNCHANGED <<openOk, conn, limited, idled, pool, left, ran, result>>

\* Query returns rows.
QueryReturns(g) ==
  /\ pc[g] = "query"
  /\ GoTo(g, "rows")
  /\ UNCHANGED <<openOk, conn, limited, idled, pool, left, ran, result>>

\* Query returns an error; the connection goes back to the pool.
QueryFails(g) ==
  /\ pc[g] = "query"
  /\ pool' = [pool EXCEPT ![g] = NoPool]
  /\ GoTo(g, "done")
  /\ result' = [result EXCEPT ![g] = "error"]
  /\ UNCHANGED <<openOk, conn, limited, idled, left, ran>>

NextRound(g, held) ==
  /\ pc[g] = "rows"
  /\ pool' = [pool EXCEPT ![g] = held]
  /\ left' = [left EXCEPT ![g] = @ - 1]
  /\ ran' = [ran EXCEPT ![g] = @ + 1]
  /\ GoTo(g, "loop")
  /\ UNCHANGED <<openOk, conn, limited, idled, result>>

\* Mutant: rows.Close() is missing.
CloseRowsNot(g) == NextRound(g, pool[g])

\* rows.Close() gives the connection back; the next round of the loop.
CloseRows(g) == NextRound(g, NoPool)

Finish(g) ==
  /\ pc[g] = "loop"
  /\ left[g] = 0
  /\ GoTo(g, "done")
  /\ result' = [result EXCEPT ![g] = "ok"]
  /\ UNCHANGED <<openOk, conn, limited, idled, pool, left, ran>>

Client(g) ==
  \/ Open(g) \/ OpenFails(g) \/ SetMaxOpen(g) \/ SetMaxIdle(g) \/ PickCount(g)
  \/ StartQuery(g) \/ CloseRows(g) \/ Finish(g)

Database(g) == Acquire(g) \/ QueryReturns(g) \/ QueryFails(g)

Next == \E g \in Callers : Check(g) \/ Client(g) \/ Database(g)

Spec == Init /\ [][Next]_vars

\* Goroutines run, the pool hands on its connections and the database answers.
Fairness == \A g \in Callers : WF_vars(Client(g)) /\ WF_vars(Database(g))
FairSpec == Spec /\ Fairness

--------------------------------------------------------------------------------
Steps == {"idle", "open", "limit", "spare", "count", "loop", "wait", "query",
          "rows", "done"}

TypeOK ==
  /\ openOk \in BOOLEAN
  /\ conn \in Callers \cup {NoPool}
  /\ limited \subseteq Callers
  /\ idled \subseteq Callers
  /\ pc \in [Callers -> Steps]
  /\ pool \in [Callers -> Callers \cup {NoPool}]
  /\ left \in [Callers -> Nat]
  /\ ran \in [Callers -> Nat]
  /\ result \in [Callers -> {"none", "ok", "error"}]

Opening == {g \in Callers : pc[g] \in {"open", "limit", "spare"}}

\* Callers may race to open the pool and configure one another's, or lose
\* theirs; but when no opener is left the pool that stays is configured
\* (sql.go:87-94 re-reads c.conn after each write).
SettledPoolConfigured ==
  conn # NoPool /\ Opening = {} => conn \in limited /\ conn \in idled

\* Once nobody is about to assign c.conn any more it is never replaced, however
\* many calls follow.
Settled == conn # NoPool /\ \A g \in Callers : pc[g] # "open"
SettledPoolStays == [][Settled => Settled' /\ conn' = conn]_vars

\* No query is made on a nil pool: a failing sql.Open assigns nil, but then
\* every caller's fails.
NoQueryOnNil ==
  \A g \in Callers : pc[g] \in {"wait", "query"} => pool[g] # NoPool

\* A call that reports success has made between RepeatCount and RepeatCountMax
\* queries, or none when the range is not a proper one (sql.go:96-99).
RepeatsInRange ==
  \A g \in Callers : result[g] = "ok" =>
    \/ RepeatCount <= ran[g] /\ ran[g] <= RepeatCountMax
    \/ RepeatCount >= RepeatCountMax /\ ran[g] = 0

\* Every call of RunQuery returns, even when there are more callers than
\* connections: no caller waits for a connection while keeping one.  As a
\* caller makes one call, there is a time when none is under way any more.
EveryCallReturns ==
  []<>(\A g \in Callers : pc[g] \in {"idle", "done"})
===============================================================================
