------------------------------- MODULE PiProofs -------------------------------
(***************************************************************************)
(* Proofs about PiWorkload for every n.                                    *)
(***************************************************************************)
EXTENDS PiWorkload, FiniteSetTheorems, TLAPS

\* Started and not lost: the three sets partition the terms of the first loop,
\* and the second loop counts the ones it has added.
IInv ==
  /\ TypeOK
  /\ running \cap sending = {} /\ summed \cap (running \cup sending) = {}
  /\ pc = "launch" => summed = {} /\ running \cup sending = 0 .. k - 1
  /\ pc # "launch" =>
       /\ running \cup sending \cup summed = 0 .. N
       /\ Cardinality(summed) = k
  /\ pc = "done" => k = N + 1

\* There are n + 1 terms.
LEMMA TermCount ==
  /\ IsFiniteSet(0 .. N)
  /\ Cardinality(0 .. N) = N + 1
  BY PiAssumption, FS_Interval

\* Before the first loop no term is started.
LEMMA InitInv == Init => IInv
  BY PiAssumption, FS_EmptySet DEF Init, IInv, TypeOK

\* Receiving adds a term that was not added before.
LEMMA ReceiveInv ==
  ASSUME IInv, NEW t \in sending, Receive(t)
  PROVE  IInv'
  <1>1. t \notin summed /\ t \in 0 .. N /\ k \in Nat
    BY PiAssumption DEF IInv, TypeOK
  <1>2. IsFiniteSet(summed)
    BY TermCount, FS_Subset DEF IInv, TypeOK
  <1>3. Cardinality(summed \cup {t}) = Cardinality(summed) + 1
    BY <1>1, <1>2, FS_AddElement
  <1>4. TypeOK'
    BY <1>1, PiAssumption DEF IInv, TypeOK, Receive
  <1> QED
    BY <1>1, <1>3, <1>4, PiAssumption DEF IInv, TypeOK, Receive

\* A start, a computed term, a received one and the ends of the loops keep it.
LEMMA NextInv == IInv /\ [Next]_vars => IInv'
  <1> SUFFICES ASSUME IInv, [Next]_vars PROVE IInv'
    OBVIOUS
  <1> USE PiAssumption
  <1>1. CASE Launch
    <2>1. k \in 0 .. N /\ k \notin 0 .. k - 1
      BY <1>1 DEF Launch, IInv, TypeOK
    <2>2. /\ k' = k + 1 /\ running' = running \cup {k}
          /\ UNCHANGED <<pc, sending, summed>>
      BY <1>1 DEF Launch
    <2>3. 0 .. k' - 1 = (0 .. k - 1) \cup {k}
      BY <2>1, <2>2
    <2> QED
      BY <1>1, <2>1, <2>2, <2>3 DEF Launch, IInv, TypeOK
  <1>2. CASE LaunchEnds
    <2>1. k = N + 1
      BY <1>2 DEF LaunchEnds, LaunchEndsAt, IInv, TypeOK
    <2>2. running \cup sending = 0 .. N /\ summed = {}
      BY <1>2, <2>1 DEF LaunchEnds, LaunchEndsAt, IInv
    <2>3. /\ pc' = "collect" /\ k' = 0
          /\ UNCHANGED <<running, sending, summed>>
      BY <1>2 DEF LaunchEnds, LaunchEndsAt
    <2>4. Cardinality(summed') = k'
      BY <2>2, <2>3, FS_EmptySet
    <2> QED
      BY <2>2, <2>3, <2>4 DEF IInv, TypeOK
  <1>3. CASE CollectEnds
    BY <1>3 DEF CollectEnds, CollectEndsAt, IInv, TypeOK
  <1>4. CASE \E t \in sending : Receive(t)
    BY <1>4, ReceiveInv
  <1>5. CASE \E t \in running : Compute(t)
    <2>1. PICK t \in running : Compute(t)
      BY <1>5
    <2>2. /\ running' = running \ {t}
          /\ sending' = sending \cup {t}
          /\ UNCHANGED <<pc, k, summed>>
      BY <2>1 DEF Compute
    <2>3. running' \cup sending' = running \cup sending
      BY <2>1, <2>2
    <2> QED
      BY <2>1, <2>2, <2>3 DEF IInv, TypeOK
  <1>6. CASE UNCHANGED vars
    BY <1>6 DEF vars, IInv, TypeOK
  <1> QED
    BY <1>1, <1>2, <1>3, <1>4, <1>5, <1>6 DEF Next, Caller, Terms

\* Both loops stay within their bounds, for every n (pi.go:57-62).
THEOREM TypeCorrect == Spec => []TypeOK
  <1>1. IInv => TypeOK
    BY DEF IInv
  <1> QED
    BY <1>1, InitInv, NextInv, PTL DEF Spec

\* pi adds every term once and leaks no goroutine, for every n: it has added
\* n + 1 of n + 1 terms.
THEOREM SumComplete == Spec => []AllTermsSummed
  <1>1. IInv => AllTermsSummed
    <2> SUFFICES ASSUME IInv, pc = "done"
                 PROVE  summed = 0 .. N /\ running = {} /\ sending = {}
      BY DEF AllTermsSummed
    <2>1. summed \subseteq 0 .. N /\ Cardinality(summed) = N + 1
      BY DEF IInv, TypeOK
    <2>2. summed = 0 .. N
      BY <2>1, TermCount, FS_Subset
    <2> QED
      BY <2>2 DEF IInv, TypeOK
  <1> QED
    BY <1>1, InitInv, NextInv, PTL DEF Spec

--------------------------------------------------------------------------------
(* That pi returns takes fairness, which stays with TLC; but it is never   *)
(* stuck, and the number of its steps is known in advance.                 *)

\* While the caller waits for a value there is a term that has yet to send one:
\* it never asks for more values than there are goroutines (pi.go:60-62).
THEOREM CallerNeverStarves ==
  Spec => [](pc = "collect" /\ k <= N => running \cup sending # {})
  <1>1. ASSUME IInv, pc = "collect", k <= N
        PROVE  running \cup sending # {}
    <2> SUFFICES ASSUME running \cup sending = {}
                 PROVE  FALSE
      OBVIOUS
    <2>1. summed = 0 .. N /\ Cardinality(summed) = k
      BY <1>1 DEF IInv
    <2>2. k = N + 1
      BY <2>1, TermCount
    <2> QED
      BY <1>1, <2>2, PiAssumption
  <1>2. IInv => (pc = "collect" /\ k <= N => running \cup sending # {})
    BY <1>1
  <1> QED
    BY <1>2, InitInv, NextInv, PTL DEF Spec

\* The steps that are left: a term is started, computes and is received.
ToLaunch == IF pc = "launch" THEN N + 1 - k ELSE 0
Phases == CASE pc = "launch" -> 2 [] pc = "collect" -> 1 [] OTHER -> 0
StepsLeft ==
  3 * ToLaunch + 2 * Cardinality(running) + Cardinality(sending) + Phases

\* The parts of StepsLeft are numbers.
LEMMA PartsType ==
  ASSUME IInv
  PROVE  /\ IsFiniteSet(running) /\ Cardinality(running) \in Nat
         /\ IsFiniteSet(sending) /\ Cardinality(sending) \in Nat
         /\ ToLaunch \in Nat /\ Phases \in {0, 1, 2}
  <1>1. IsFiniteSet(running) /\ IsFiniteSet(sending)
    BY TermCount, FS_Subset DEF IInv, TypeOK
  <1>2. ToLaunch \in Nat
    BY PiAssumption DEF IInv, TypeOK, ToLaunch
  <1>3. Phases \in {0, 1, 2}
    BY DEF Phases, IInv, TypeOK
  <1> QED
    BY <1>1, <1>2, <1>3, FS_CardinalityType

\* A term leaves one set and joins the next.
LEMMA Leaves ==
  ASSUME NEW S, IsFiniteSet(S), NEW t \in S
  PROVE  Cardinality(S \ {t}) = Cardinality(S) - 1
  BY FS_RemoveElement

\* The same for the set it joins.
LEMMA Joins ==
  ASSUME NEW S, IsFiniteSet(S), NEW t, t \notin S
  PROVE  Cardinality(S \cup {t}) = Cardinality(S) + 1
  BY FS_AddElement

\* Each step is one of those that are left: in every order of the sends pi and
\* its goroutines take at most 3n + 5 steps in all (pi.go:54-68).
THEOREM StepsAreCounted ==
  Spec => [][StepsLeft' = StepsLeft - 1 /\ StepsLeft' \in Nat]_vars
  <1>1. ASSUME IInv, IInv', Next
        PROVE  StepsLeft' = StepsLeft - 1 /\ StepsLeft' \in Nat
    <2> USE <1>1, PiAssumption
    <2>1. /\ Cardinality(running) \in Nat /\ Cardinality(sending) \in Nat
          /\ ToLaunch \in Nat /\ Phases \in Nat /\ k \in Nat
      BY PartsType DEF IInv, TypeOK
    <2>2. /\ Cardinality(running') \in Nat /\ Cardinality(sending') \in Nat
          /\ ToLaunch' \in Nat /\ Phases' \in Nat
      <3>1. /\ IsFiniteSet(running') /\ IsFiniteSet(sending')
        BY TermCount, FS_Subset DEF IInv, TypeOK
      <3>2. ToLaunch' \in Nat
        <4>1. \A x \in 0 .. N + 1 : N + 1 - x \in Nat
          OBVIOUS
        <4>2. N + 1 - k' \in Nat
          BY <4>1 DEF IInv, TypeOK
        <4>3. ToLaunch' = IF pc' = "launch" THEN N + 1 - k' ELSE 0
          BY DEF ToLaunch
        <4> QED
          BY <4>2, <4>3
      <3>3. Phases' \in Nat
        BY DEF Phases, IInv, TypeOK
      <3> QED
        BY <3>1, <3>2, <3>3, FS_CardinalityType
    <2>3. CASE Launch
      <3>1. k \notin running
        BY <2>3 DEF Launch, IInv, TypeOK
      <3>2. Cardinality(running') = Cardinality(running) + 1
        BY <2>3, <3>1, PartsType, Joins DEF Launch
      <3>3. ToLaunch' = ToLaunch - 1 /\ Phases' = Phases /\ sending' = sending
        BY <2>1, <2>3 DEF Launch, ToLaunch, Phases
      <3> QED
        BY <2>1, <2>2, <3>2, <3>3 DEF StepsLeft
    <2>4. CASE LaunchEnds
      <3>1. ToLaunch' = 0 /\ ToLaunch = 0 /\ Phases = 2 /\ Phases' = 1
        BY <2>4 DEF LaunchEnds, LaunchEndsAt, ToLaunch, Phases, IInv, TypeOK
      <3>2. running' = running /\ sending' = sending
        BY <2>4 DEF LaunchEnds, LaunchEndsAt
      <3> QED
        BY <2>1, <2>2, <3>1, <3>2 DEF StepsLeft
    <2>5. CASE CollectEnds
      <3>1. ToLaunch' = 0 /\ ToLaunch = 0 /\ Phases = 1 /\ Phases' = 0
        BY <2>5 DEF CollectEnds, CollectEndsAt, ToLaunch, Phases
      <3>2. running' = running /\ sending' = sending
        BY <2>5 DEF CollectEnds, CollectEndsAt
      <3> QED
        BY <2>1, <2>2, <3>1, <3>2 DEF StepsLeft
    <2>6. ASSUME NEW t \in sending, Receive(t)
          PROVE  StepsLeft' = StepsLeft - 1 /\ StepsLeft' \in Nat
      <3>1. Cardinality(sending') = Cardinality(sending) - 1
        BY <2>6, PartsType, Leaves DEF Receive
      <3>2. ToLaunch' = ToLaunch /\ Phases' = Phases /\ running' = running
        BY <2>6 DEF Receive, ToLaunch, Phases
      <3> QED
        BY <2>1, <2>2, <3>1, <3>2 DEF StepsLeft
    <2>7. ASSUME NEW t \in running, Compute(t)
          PROVE  StepsLeft' = StepsLeft - 1 /\ StepsLeft' \in Nat
      <3>1. t \notin sending
        BY <2>7 DEF IInv
      <3>2. Cardinality(running') = Cardinality(running) - 1
        BY <2>7, PartsType, Leaves DEF Compute
      <3>3. Cardinality(sending') = Cardinality(sending) + 1
        BY <2>7, <3>1, PartsType, Joins DEF Compute
      <3>4. ToLaunch' = ToLaunch /\ Phases' = Phases
        BY <2>7 DEF Compute, ToLaunch, Phases
      <3> QED
        BY <2>1, <2>2, <3>2, <3>3, <3>4 DEF StepsLeft
    <2> QED
      BY <2>3, <2>4, <2>5, <2>6, <2>7 DEF Next, Caller, Terms
  <1>2. IInv /\ IInv' /\ [Next]_vars =>
          [StepsLeft' = StepsLeft - 1 /\ StepsLeft' \in Nat]_vars
    BY <1>1
  <1> QED
    BY <1>2, InitInv, NextInv, PTL DEF Spec
===============================================================================
