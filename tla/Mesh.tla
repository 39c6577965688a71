---------------------------------- MODULE Mesh ----------------------------------
(***************************************************************************)
(* Several AllSpark services that call each other over HTTP or gRPC, and   *)
(* one call from outside.  Each service does for a call what Service says  *)
(* a process does: it makes the requests of its list, waits for them and   *)
(* answers; a request that fails is logged and counts as returned.         *)
(*                                                                         *)
(* Connections may break and services die and come back at any time.       *)
(* There are no timeouts, no retries, no limit on hops, and no handler     *)
(* looks at whether its caller is still there.                             *)
(***************************************************************************)
EXTENDS Naturals, Sequences, Functions

CONSTANTS
  Services,
  Topologies,   \* request lists: the service each entry of a list calls
  Entry,        \* the service that is called from outside
  MaxDepth,     \* bound on the hops of a call, for model checking only
  MaxCrashes    \* bound on crashes, for model checking only

ASSUME MeshAssumption ==
  /\ Entry \in Services
  /\ Topologies \subseteq [Services -> Seq(Services)]
  /\ MaxDepth \in Nat \ {0} /\ MaxCrashes \in Nat

\* A call is named by the way it came: <<entry of the list, service>>, hop by hop.
VARIABLES
  requests,   \* the topology; never changes
  up,         \* the services that run
  client,     \* client[p]: the caller of the call p: "waiting"; "ok", "failed",
              \* "refused" or "lost", what it got; "gone"
  work,       \* work[p]: the handler of p: "none", "working", "answered", "died"
  crashes     \* how often a service died

vars == <<requests, up, client, work, crashes>>

Root == <<<<1, Entry>>>>
Made == DOMAIN client
Target(p) == p[Len(p)][2]
Subs(p) ==
  LET list == requests[Target(p)] IN {Append(p, <<i, list[i]>>) : i \in DOMAIN list}
Below(p) == {q \in Made : Len(q) > Len(p) /\ SubSeq(q, 1, Len(p)) = p}
Caller(p) == Target(SubSeq(p, 1, Len(p) - 1))

Init ==
  /\ requests \in Topologies
  /\ up = Services
  /\ client = [p \in {Root} |-> "waiting"]
  /\ work = [p \in {Root} |-> "none"]
  /\ crashes = 0

--------------------------------------------------------------------------------
(* A service.                                                              *)

Works(p, from, to) ==
  /\ work[p] = from
  /\ work' = [work EXCEPT ![p] = to]
  /\ UNCHANGED <<requests, up, client, crashes>>

\* A handler is started, also for a caller that has gone or heard of a failure.
Accept(p) ==
  /\ Target(p) \in up
  /\ client[p] \in {"waiting", "lost", "gone"}
  /\ Works(p, "none", "working")

IssueUpTo(p, hops) ==
  /\ work[p] = "working"
  /\ Len(p) < hops
  /\ \E q \in Subs(p) \ Made :
       /\ client' = [r \in Made \cup {q} |-> IF r = q THEN "waiting" ELSE client[r]]
       /\ work' = [r \in Made \cup {q} |-> IF r = q THEN "none" ELSE work[r]]
  /\ UNCHANGED <<requests, up, crashes>>

\* Mutant: a request is dropped after two hops.
IssueTwoHops(p) == IssueUpTo(p, 2)

\* doRequests makes the next request.
Issue(p) == IssueUpTo(p, MaxDepth)

Failure == {"failed", "refused", "lost"}
Over == {"ok"} \cup Failure

AnswerAfter(p, needed, ends) ==
  /\ \A q \in needed : q \in Made /\ client[q] \in ends
  /\ Works(p, "working", "answered")

\* Mutants: calls that are not made yet are not waited for; a handler goes on
\* only when all its calls have succeeded.
AnswerMade(p) == AnswerAfter(p, Subs(p) \cap Made, Over)
AnswerAllOk(p) == AnswerAfter(p, Subs(p), {"ok"})

\* wg.Wait() returns: every request has been made and has returned, somehow.
\* The call is answered with success.
Answer(p) == AnswerAfter(p, Subs(p), Over)

Gets(p, outcome) ==
  /\ client[p] = "waiting"
  /\ client' = [client EXCEPT ![p] = outcome]
  /\ UNCHANGED <<requests, up, work, crashes>>

\* Do returns: with an answer, because the service it called died, or because
\* it does not run.
Receive(p) == work[p] = "answered" /\ Gets(p, "ok")
CallFails(p) == work[p] = "died" /\ Gets(p, "failed")
Refused(p) == work[p] = "none" /\ Target(p) \notin up /\ Gets(p, "refused")

--------------------------------------------------------------------------------
(* What may happen to them.                                                *)

\* A connection breaks: the caller sees an error, the handler nothing.
Lose(p) == p # Root /\ Gets(p, "lost")

\* The client outside gives up.
GiveUp == Gets(Root, "gone")

\* A process dies, with its handlers and the calls they wait for.
Crash(s) ==
  /\ s \in up
  /\ crashes < MaxCrashes
  /\ up' = up \ {s}
  /\ crashes' = crashes + 1
  /\ work' = [p \in Made |->
                IF work[p] = "working" /\ Target(p) = s THEN "died" ELSE work[p]]
  /\ client' = [p \in Made |->
                  IF p # Root /\ client[p] = "waiting" /\ Caller(p) = s
                    THEN "gone" ELSE client[p]]
  /\ UNCHANGED requests

Restart(s) ==
  /\ s \in Services \ up
  /\ up' = up \cup {s}
  /\ UNCHANGED <<requests, client, work, crashes>>

Progress ==
  \E p \in Made :
    \/ Accept(p) \/ Issue(p) \/ Answer(p)
    \/ Receive(p) \/ CallFails(p) \/ Refused(p)
Misfortune ==
  \/ GiveUp
  \/ \E p \in Made : Lose(p)
  \/ \E s \in Services : Crash(s) \/ Restart(s)

Next == Progress \/ Misfortune
Spec == Init /\ [][Next]_vars

\* Handlers run, and a caller learns of an answer, a death or a refusal.  Nothing
\* has to go wrong, and a service that died need not come back.  The calls from
\* one Root are finitely many up to MaxDepth, so they may share one condition.
FairSpec == Spec /\ WF_vars(Progress)

--------------------------------------------------------------------------------
(* Properties.                                                             *)

TypeOK ==
  /\ requests \in Topologies
  /\ up \subseteq Services
  /\ Root \in Made /\ DOMAIN work = Made
  /\ \A p \in Made \ {Root} :
       SubSeq(p, 1, Len(p) - 1) \in Made /\ Len(p) <= MaxDepth
  /\ Range(client) \subseteq Over \cup {"waiting", "gone"}
  /\ Range(work) \subseteq {"none", "working", "answered", "died"}
  /\ \A p \in Made : client[p] = "ok" => work[p] = "answered"
  /\ crashes \in 0 .. MaxCrashes

\* An answer stands for a whole tree: unless some call below failed, every call
\* below has been made and answered, hop after hop, however the goroutines of the
\* services interleave (httpserver.go:73, grpcserver.go:117).  So nobody gets an
\* answer out of a cycle but for a failure in it: such a tree has no end.
AnswerCoversTree ==
  \A p \in Made : client[p] = "ok" \/ work[p] = "answered" =>
    \/ \E q \in Below(p) : client[q] \in Failure
    \/ \A q \in {p} \cup Below(p) : work[q] = "answered" /\ Subs(q) \subseteq Made

\* Services from which there is no end: each has a request to another such one.
Endless ==
  UNION {X \in SUBSET Services :
           \A s \in X : Range(requests[s]) \cap X # {}}

\* Where there is no cycle every call comes to an end, whatever dies or breaks in
\* between and whoever gives up: no failure below holds a handler, and a handler
\* whose caller has gone gets through all the same (http.go:54-59).
AllCallsEnd ==
  Entry \notin Endless =>
    []<>(\A p \in Made : client[p] # "waiting" /\ work[p] # "working")

\* Where there is one, a single call makes calls without end, each with a handler
\* that waits: no header counts the hops.  Only a failure stops it.
CyclesRunAway ==
  Entry \in Endless =>
    <>(\E p \in Made : Len(p) = MaxDepth \/ client[p] \notin {"waiting", "ok"})
===============================================================================
