------------------------------ MODULE PiWorkload ------------------------------
(***************************************************************************)
(* One call of Execute of the PI workload: the caller starts a goroutine   *)
(* per term, then receives as many values from an unbuffered channel.      *)
(***************************************************************************)
EXTENDS Integers, FiniteSets

CONSTANT N    \* w.count, from PI_COUNT

ASSUME PiAssumption == N \in Nat

VARIABLES
  pc,         \* the caller: "launch", "collect" or "done"
  k,          \* the variable of its current loop
  running,    \* terms whose goroutine has not computed its value yet
  sending,    \* terms blocked in `ch <-`
  summed      \* terms added to f, in whatever order they came

vars == <<pc, k, running, sending, summed>>

Init ==
  /\ pc = "launch"
  /\ k = 0
  /\ running = {}
  /\ sending = {}
  /\ summed = {}

Launch ==
  /\ pc = "launch"
  /\ k <= N
  /\ running' = running \cup {k}
  /\ k' = k + 1
  /\ UNCHANGED <<pc, sending, summed>>

LaunchEndsAt(last) ==
  /\ pc = "launch"
  /\ k > last
  /\ pc' = "collect"
  /\ k' = 0
  /\ UNCHANGED <<running, sending, summed>>

\* Mutant: `k < n` in the first loop only.
LaunchEndsEarly == LaunchEndsAt(N - 1)

LaunchEnds == LaunchEndsAt(N)

\* term has its value and reaches the channel.
Compute(t) ==
  /\ t \in running
  /\ running' = running \ {t}
  /\ sending' = sending \cup {t}
  /\ UNCHANGED <<pc, k, summed>>

\* `f += <-ch` meets one of the goroutines that are sending.
Receive(t) ==
  /\ pc = "collect"
  /\ k <= N
  /\ t \in sending
  /\ sending' = sending \ {t}
  /\ summed' = summed \cup {t}
  /\ k' = k + 1
  /\ UNCHANGED <<pc, running>>

CollectEndsAt(last) ==
  /\ pc = "collect"
  /\ k > last
  /\ pc' = "done"
  /\ UNCHANGED <<k, running, sending, summed>>

\* Mutant: `k < n` in the second loop only.
CollectEndsEarly == CollectEndsAt(N - 1)

CollectEnds == CollectEndsAt(N)

Caller == Launch \/ LaunchEnds \/ CollectEnds \/ \E t \in sending : Receive(t)
Terms == \E t \in running : Compute(t)

Next == Caller \/ Terms

Spec == Init /\ [][Next]_vars

\* Runnable goroutines are scheduled.
FairSpec == Spec /\ WF_vars(Caller) /\ WF_vars(Terms)

--------------------------------------------------------------------------------
TypeOK ==
  /\ pc \in {"launch", "collect", "done"}
  /\ k \in 0 .. N + 1
  /\ running \subseteq 0 .. N
  /\ sending \subseteq 0 .. N
  /\ summed \subseteq 0 .. N

\* When pi returns it has added every term 0 .. n exactly once, whatever the
\* order, and leaves no goroutine blocked on its channel: the two loops of
\* pi.go:57-62 must agree on how many there are.
AllTermsSummed ==
  pc = "done" => summed = 0 .. N /\ running = {} /\ sending = {}

\* pi returns: no receive waits for a goroutine that was never started.
Returns == <>(pc = "done")

\* "pi launches n goroutines" (the comment on pi, pi.go:52).
LaunchesN == Cardinality(running \cup sending \cup summed) <= N
===============================================================================
