----------------------------- MODULE RequestProofs -----------------------------
(***************************************************************************)
(* Proofs about the requests of a list: RequestConfig, which parses them,  *)
(* for lists of any length; TcpRequest and TcpLink, which send the payload *)
(* of one, for words, payloads and buffers of any size.                    *)
(***************************************************************************)
EXTENDS TcpLink, RequestConfig, FiniteSetTheorems, WellFoundedInduction, TLAPS

--------------------------------------------------------------------------------
(* Least and greatest numbers.                                             *)

\* A set of natural numbers has a least element.
LEMMA LeastNumber ==
  ASSUME NEW T \in SUBSET Nat, T # {}
  PROVE  \E x \in T : \A y \in T : x <= y
<1> DEFINE R == OpToRel(<, Nat)
<1>1. IsWellFoundedOn(R, Nat)
  BY NatLessThanWellFounded, Zenon
<1>2. \A x, y \in Nat : y < x => <<y, x>> \in R
  BY Zenon DEF OpToRel
<1>3. PICK x \in T : \A y \in T : ~ (<<y, x>> \in R)
  <2> HIDE DEF R
  <2> QED
    BY <1>1, WFMin
<1>4. \A y \in T : ~ (y < x)
  BY <1>2, <1>3
<1>5. \A y \in T : x <= y
  BY <1>4
<1> QED
  BY <1>5

\* Min, of any set of numbers.
LEMMA MinIsLeast ==
  ASSUME NEW T \in SUBSET Nat, T # {}
  PROVE  Min(T) \in T /\ \A y \in T : Min(T) <= y
  BY LeastNumber, Zenon DEF Min

\* Max, of any set of numbers up to n.
LEMMA MaxIsGreatest ==
  ASSUME NEW n \in Nat, NEW T \in SUBSET (0 .. n), T # {}
  PROVE  Max(T) \in T /\ \A y \in T : Max(T) >= y
<1> DEFINE D == {n - y : y \in T}
<1>1. D \in SUBSET Nat /\ D # {}
  <2>1. \A y \in 0 .. n : n - y \in Nat
    OBVIOUS
  <2>2. \A y \in T : n - y \in Nat
    BY <2>1
  <2> QED
    BY <2>2
<1>2. PICK d \in D : \A e \in D : d <= e
  BY <1>1, LeastNumber
<1>3. PICK x \in T : d = n - x
  BY <1>2
<1>4. ASSUME NEW y \in T PROVE x >= y
  <2>1. n - y \in D
    OBVIOUS
  <2>2. n - x <= n - y
    BY <1>2, <1>3, <2>1
  <2>3. x \in Int /\ y \in Int
    OBVIOUS
  <2> QED
    BY <2>2, <2>3
<1> QED
  BY <1>4, Zenon DEF Max

--------------------------------------------------------------------------------
(* The loop of CreateRequestsFromStringSlice.                              *)

\* The entry an entry stands for, without Max: itself, or the one the entry before
\* it stands for.
LEMMA SourceStep ==
  ASSUME reqs \in Seq(Entry), NEW i \in 1 .. Len(reqs)
  PROVE  /\ Parsed(reqs[i]) => Source(i) = i
         /\ ~ Parsed(reqs[i]) => Source(i) = Source(i - 1)
<1> DEFINE T == {j \in 1 .. i : Parsed(reqs[j])} \cup {0}
<1>1. Source(i) = Max(T)
  BY DEF Source
<1>2. Source(i) \in T /\ \A y \in T : Source(i) >= y
  <2>1. i \in Nat /\ T \in SUBSET (0 .. i) /\ T # {}
    OBVIOUS
  <2> HIDE DEF T
  <2> QED
    BY <1>1, <2>1, MaxIsGreatest
<1>3. Parsed(reqs[i]) => Source(i) = i
  <2>1. Parsed(reqs[i]) => i \in T
    OBVIOUS
  <2> QED
    BY <2>1, <1>2
<1>4. ASSUME ~ Parsed(reqs[i])
      PROVE  Source(i) = Source(i - 1)
  <2>1. T = {j \in 1 .. (i - 1) : Parsed(reqs[j])} \cup {0}
    BY <1>4
  <2> QED
    BY <1>1, <2>1 DEF Source
<1> QED
  BY <1>3, <1>4

\* It is an entry that can be parsed, or 0.
LEMMA SourceType ==
  ASSUME reqs \in Seq(Entry), NEW i \in 0 .. Len(reqs)
  PROVE  /\ Source(i) \in 0 .. i
         /\ Source(i) # 0 =>
              Source(i) \in DOMAIN reqs /\ Parsed(reqs[Source(i)])
         /\ i = 0 => Source(i) = 0
<1> DEFINE T == {j \in 1 .. i : Parsed(reqs[j])} \cup {0}
<1>1. Source(i) \in T
  <2>1. i \in Nat /\ T \in SUBSET (0 .. i) /\ T # {}
    OBVIOUS
  <2>2. Source(i) = Max(T)
    BY DEF Source
  <2> HIDE DEF T
  <2> QED
    BY <2>1, <2>2, MaxIsGreatest
<1> QED
  BY <1>1

\* The entries kept and passed so far, and the place of each among them.
Done == {i \in Kept : i < at}
Rank(i) == Cardinality({j \in Done : j <= i})

\* The variable `request` before the entry it is at.
RequestBefore ==
  IF Source(at - 1) = 0 THEN NoRequest ELSE AsRequest(reqs[Source(at - 1)])

\* The list so far, by the entries it stands for.
ListInv ==
  /\ Len(requests) = Cardinality(Done)
  /\ \A n \in DOMAIN requests : \E i \in Done :
       Rank(i) = n /\ requests[n] = Added(AsRequest(reqs[Source(i)]))

\* How the loop stands: nothing fatal has been passed, and it stops where it is
\* at something fatal.
LoopInv ==
  /\ \A i \in 1 .. at - 1 : ~ Fatal(i)
  /\ outcome = "running" => request = RequestBefore
  /\ outcome = "ok" => at = Len(reqs) + 1
  /\ outcome = "error" => at \in DOMAIN reqs /\ Fatal(at) /\ Source(at) # 0
  /\ outcome = "panic" => at \in DOMAIN reqs /\ Fatal(at) /\ Source(at) = 0

ListTypeOK ==
  /\ reqs \in Inputs
  /\ at \in 1 .. Len(reqs) + 1
  /\ requests \in Seq({Added(r) : r \in HTTPRequest})
  /\ outcome \in {"running", "ok", "error", "panic"}

ListIInv == ListTypeOK /\ LoopInv /\ ListInv

\* The types the arithmetic below needs.
LEMMA DoneFinite ==
  ASSUME ListTypeOK
  PROVE  /\ reqs \in Seq(Entry) /\ Len(reqs) \in Nat /\ at \in Nat
         /\ Done \subseteq DOMAIN reqs
         /\ IsFiniteSet(Done) /\ Cardinality(Done) \in Nat
<1>1. reqs \in Seq(Entry)
  BY ConfigAssumption DEF ListTypeOK
<1>2. Len(reqs) \in Nat /\ DOMAIN reqs = 1 .. Len(reqs)
  BY <1>1
<1>3. at \in Nat
  BY <1>2 DEF ListTypeOK
<1>4. Done \subseteq DOMAIN reqs
  BY DEF Done, Kept
<1>5. IsFiniteSet(1 .. Len(reqs))
  BY <1>2, FS_Interval
<1>6. IsFiniteSet(Done)
  BY <1>2, <1>4, <1>5, FS_Subset
<1> QED
  BY <1>1, <1>2, <1>3, <1>4, <1>6, FS_CardinalityType

\* Two entries passed have different places.
LEMMA RankInjective ==
  ASSUME ListTypeOK, NEW i \in Done, NEW k \in Done, Rank(i) = Rank(k)
  PROVE  i = k
<1>1. i \in Nat /\ k \in Nat
  BY DoneFinite
<1>2. ASSUME NEW a \in Done, NEW b \in Done, a < b, a \in Nat, b \in Nat
      PROVE  Rank(a) # Rank(b)
  <2> DEFINE A == {j \in Done : j <= a}
             B == {j \in Done : j <= b}
  <2>1. A \subseteq B /\ b \in B /\ b \notin A
    <3>1. \A j \in Done : j \in Nat
      BY DoneFinite
    <3>2. \A x, y, z \in Nat : x <= y /\ y < z => x <= z
      OBVIOUS
    <3>3. \A j \in Done : j <= a => j <= b
      BY <1>2, <3>1, <3>2
    <3>4. b <= b /\ ~ (b <= a)
      BY <1>2
    <3> QED
      BY <1>2, <3>3, <3>4
  <2>2. IsFiniteSet(B)
    BY DoneFinite, FS_Subset
  <2>3. A # B
    BY <2>1
  <2> HIDE DEF A, B
  <2>4. Cardinality(A) # Cardinality(B)
    BY <2>1, <2>2, <2>3, FS_Subset
  <2> QED
    BY <2>4 DEF Rank, A, B
<1> QED
  BY <1>1, <1>2

\* What an entry that can be parsed assigns to `request` is not nil.
LEMMA ParsedType ==
  ASSUME NEW e \in Entry, Parsed(e)
  PROVE  AsRequest(e) \in HTTPRequest
<1>1. e.url \in Urls /\ e.pieces \in 1 .. 3
  BY DEF Entry
<1>2. 0 \in 0 .. Word - 1
  BY PayloadAssumption
<1>3. CASE e.pieces = 1
  BY <1>1, <1>2, <1>3 DEF AsRequest, HTTPRequest
<1>4. CASE e.pieces # 1 /\ e.count # BadCount
  <2>1. e.count \in 0 .. Word - 1
    BY <1>4 DEF Entry
  <2> QED
    BY <1>1, <1>4, <2>1 DEF AsRequest, HTTPRequest
<1> QED
  BY <1>3, <1>4 DEF Parsed

\* What the entry at hand makes of `request`, and when that is possible.
LEMMA AssignedIsSource ==
  ASSUME ListTypeOK, LoopInv, InLoop
  PROVE  /\ at \in DOMAIN reqs /\ at - 1 \in 0 .. Len(reqs)
         /\ Parsed(reqs[at]) \/ request # NoRequest =>
              /\ Source(at) # 0
              /\ Assigned = AsRequest(reqs[Source(at)])
         /\ ~ Parsed(reqs[at]) /\ request = NoRequest => Source(at) = 0
<1>1. /\ reqs \in Seq(Entry) /\ at \in 1 .. Len(reqs) /\ at \in DOMAIN reqs
      /\ at - 1 \in 0 .. Len(reqs) /\ Len(reqs) \in Nat
  BY DoneFinite DEF ListTypeOK, InLoop
<1>2. request = RequestBefore
  BY DEF LoopInv, InLoop
<1>3. CASE Parsed(reqs[at])
  <2>1. Source(at) = at /\ at # 0
    BY <1>1, <1>3, SourceStep
  <2> QED
    BY <1>1, <1>3, <2>1 DEF Assigned
<1>4. CASE ~ Parsed(reqs[at])
  <2>1. Source(at) = Source(at - 1)
    BY <1>1, <1>4, SourceStep
  <2>2. Source(at - 1) # 0 => AsRequest(reqs[Source(at - 1)]) # NoRequest
    <3> SUFFICES ASSUME Source(at - 1) # 0
                 PROVE  AsRequest(reqs[Source(at - 1)]) # NoRequest
      OBVIOUS
    <3>1. Source(at - 1) \in DOMAIN reqs /\ Parsed(reqs[Source(at - 1)])
      BY <1>1, SourceType
    <3> QED
      BY <1>1, <3>1, ParsedType, ConfigAssumption
  <2> QED
    BY <1>1, <1>2, <1>4, <2>1, <2>2 DEF RequestBefore, Assigned
<1> QED
  BY <1>1, <1>3, <1>4

\* An empty list at the first entry.
LEMMA ListInitInv == ListInit => ListIInv
<1> SUFFICES ASSUME ListInit PROVE ListIInv
  OBVIOUS
<1>1. reqs \in Seq(Entry) /\ Len(reqs) \in Nat
  BY ConfigAssumption DEF ListInit
<1>2. ListTypeOK
  BY <1>1 DEF ListInit, ListTypeOK
<1>3. LoopInv
  <2>1. at - 1 = 0 /\ Source(0) = 0 /\ 1 .. at - 1 = {}
    BY <1>1, SourceType DEF ListInit
  <2> QED
    BY <2>1 DEF ListInit, LoopInv, RequestBefore
<1>4. ListInv
  <2>1. \A i \in Kept : ~ (i < at)
    BY <1>1 DEF ListInit, Kept
  <2>2. Done = {}
    BY <2>1 DEF Done
  <2> QED
    BY <2>2, FS_EmptySet DEF ListInit, ListInv
<1> QED
  BY <1>2, <1>3, <1>4 DEF ListIInv

\* What depends on the argument only does not change.
LEMMA SameList ==
  ASSUME reqs' = reqs
  PROVE  /\ Kept' = Kept
         /\ \A i : Source(i)' = Source(i) /\ (Fatal(i)' <=> Fatal(i))
BY DEF Kept, Source, Fatal

\* A step that passes no entry leaves the list as it stands.
LEMMA StaysPut ==
  ASSUME ListIInv, reqs' = reqs, requests' = requests, Done' = Done
  PROVE  ListInv'
<1>1. \A i : Source(i)' = Source(i) /\ Rank(i)' = Rank(i)
  BY SameList DEF Rank
<1> QED
  BY <1>1 DEF ListIInv, ListInv

\* Passing an entry that is not kept passes nothing.
LEMMA SkipInv ==
  ASSUME ListIInv, SkipBadCount
  PROVE  ListIInv'
<1> USE DEF SkipBadCount
<1>1. /\ reqs \in Seq(Entry) /\ Len(reqs) \in Nat /\ at \in 1 .. Len(reqs)
      /\ Done \subseteq DOMAIN reqs /\ DOMAIN reqs = 1 .. Len(reqs)
  BY DoneFinite DEF ListIInv, ListTypeOK, InLoop
<1>2. ~ Parsed(reqs[at]) /\ at \notin Kept
  BY DEF Parsed, Kept
<1>3. ListTypeOK'
  BY <1>1 DEF ListIInv, ListTypeOK
<1>4. LoopInv'
  <2>1. Source(at) = Source(at - 1)
    BY <1>1, <1>2, SourceStep
  <2>2. at' - 1 = at /\ 1 .. at' - 1 = (1 .. at - 1) \cup {at}
    BY <1>1
  <2>3. ~ Fatal(at)
    BY <1>2 DEF Fatal
  <2>4. \A i \in 1 .. at' - 1 : ~ Fatal(i)'
    BY <2>2, <2>3, SameList DEF ListIInv, LoopInv
  <2>5. outcome = "running" /\ outcome' = "running"
    BY DEF InLoop
  <2>6. RequestBefore' = RequestBefore
    BY <2>1, <2>2, SameList DEF RequestBefore, AsRequest
  <2> QED
    BY <2>4, <2>5, <2>6 DEF ListIInv, LoopInv
<1>5. Done' = Done
  <2>1. \A i \in Kept : i < at' <=> i < at
    BY <1>1, <1>2 DEF Kept
  <2> QED
    BY <2>1, SameList DEF Done
<1> QED
  BY <1>3, <1>4, <1>5, StaysPut DEF ListIInv

\* A panic is at an entry that stands for none.
LEMMA PanicInv ==
  ASSUME ListIInv, AssertionPanics
  PROVE  ListIInv'
<1> USE DEF AssertionPanics
<1>1. ListTypeOK'
  BY DEF ListIInv, ListTypeOK
<1>2. at \in DOMAIN reqs /\ at \in Kept /\ Source(at) = 0
  <2>1. at \in DOMAIN reqs
    BY AssignedIsSource DEF ListIInv
  <2>2. CASE Parsed(reqs[at])
    BY <2>2 DEF Parsed
  <2>3. CASE ~ Parsed(reqs[at])
    BY <2>1, <2>3, AssignedIsSource DEF ListIInv, Kept
  <2> QED
    BY <2>2, <2>3
<1>3. LoopInv'
  BY <1>2, SameList DEF ListIInv, LoopInv, Fatal
<1>4. Done' = Done
  BY SameList DEF Done
<1> QED
  BY <1>1, <1>3, <1>4, StaysPut DEF ListIInv

\* An error is at an entry that stands for a malformed URL.
LEMMA AddFailsInv ==
  ASSUME ListIInv, AddFails
  PROVE  ListIInv'
<1> USE DEF AddFails, Refuse
<1>1. ListTypeOK'
  BY DEF ListIInv, ListTypeOK
<1>2. at \in DOMAIN reqs /\ Source(at) # 0 /\ Fatal(at)
  <2>1. at \in DOMAIN reqs /\ at \in Kept
    BY AssignedIsSource DEF ListIInv, Usable, Kept
  <2>2. Source(at) # 0 /\ Assigned = AsRequest(reqs[Source(at)])
    BY AssignedIsSource DEF ListIInv, Usable
  <2> QED
    BY <2>1, <2>2 DEF Fatal, AsRequest
<1>3. LoopInv'
  BY <1>2, SameList DEF ListIInv, LoopInv
<1>4. Done' = Done
  BY SameList DEF Done
<1> QED
  BY <1>1, <1>3, <1>4, StaysPut DEF ListIInv

\* The loop is over when there are no more entries.
LEMMA ReturnInv ==
  ASSUME ListIInv, Return
  PROVE  ListIInv'
<1> USE DEF Return
<1>1. ListTypeOK'
  BY DEF ListIInv, ListTypeOK
<1>2. at = Len(reqs) + 1
  BY DoneFinite DEF ListIInv, ListTypeOK
<1>3. LoopInv'
  BY <1>2, SameList DEF ListIInv, LoopInv
<1>4. Done' = Done
  BY SameList DEF Done
<1> QED
  BY <1>1, <1>3, <1>4, StaysPut DEF ListIInv

\* Add appends the request of the entry the present one stands for.
LEMMA AddInv ==
  ASSUME ListIInv, Add
  PROVE  ListIInv'
<1> USE DEF Add, AddUrl, Usable
<1>1. /\ reqs \in Seq(Entry) /\ Len(reqs) \in Nat /\ at \in 1 .. Len(reqs)
      /\ at \in Nat /\ at \in DOMAIN reqs /\ DOMAIN reqs = 1 .. Len(reqs)
      /\ Done \subseteq DOMAIN reqs
      /\ IsFiniteSet(Done) /\ Cardinality(Done) \in Nat
  BY DoneFinite DEF ListIInv, ListTypeOK, InLoop
<1>2. at \in Kept /\ Source(at) # 0 /\ Assigned = AsRequest(reqs[Source(at)])
  BY AssignedIsSource DEF ListIInv, Kept
<1>3. /\ Source(at) \in DOMAIN reqs
      /\ AsRequest(reqs[Source(at)]) \in HTTPRequest
  <2>1. Source(at) \in DOMAIN reqs /\ Parsed(reqs[Source(at)])
    BY <1>1, <1>2, SourceType
  <2>2. reqs[Source(at)] \in Entry
    BY <1>1, <2>1
  <2> QED
    BY <2>1, <2>2, ParsedType
<1>4. requests' = Append(requests, Added(AsRequest(reqs[Source(at)])))
  <2>1. [Assigned EXCEPT !.url = Assigned.url] = Assigned
    BY <1>2 DEF AsRequest
  <2> QED
    BY <1>2, <2>1
<1>5. /\ requests \in Seq({Added(r) : r \in HTTPRequest})
      /\ requests' \in Seq({Added(r) : r \in HTTPRequest})
      /\ Len(requests') = Len(requests) + 1
      /\ requests'[Len(requests) + 1] = Added(AsRequest(reqs[Source(at)]))
      /\ \A n \in DOMAIN requests : requests'[n] = requests[n]
      /\ DOMAIN requests' = DOMAIN requests \cup {Len(requests) + 1}
  BY <1>3, <1>4 DEF ListIInv, ListTypeOK
<1>6. ListTypeOK'
  <2>1. at' \in 1 .. Len(reqs') + 1
    BY <1>1
  <2>2. reqs' \in Inputs /\ outcome' \in {"running", "ok", "error", "panic"}
    BY DEF ListIInv, ListTypeOK
  <2> QED
    BY <2>1, <2>2, <1>5 DEF ListTypeOK
<1>7. LoopInv'
  <2>1. ~ Fatal(at)
    BY <1>2 DEF Fatal, AsRequest
  <2>2. at' - 1 = at /\ 1 .. at' - 1 = (1 .. at - 1) \cup {at}
    BY <1>1
  <2>3. \A i \in 1 .. at' - 1 : ~ Fatal(i)'
    BY <2>1, <2>2, SameList DEF ListIInv, LoopInv
  <2>4. outcome = "running" /\ outcome' = "running"
    BY DEF InLoop
  <2>5. request' = RequestBefore'
    BY <1>2, <2>2, SameList DEF RequestBefore, AsRequest
  <2> QED
    BY <2>3, <2>4, <2>5 DEF ListIInv, LoopInv
<1>8. Done' = Done \cup {at} /\ at \notin Done
  <2>1. \A i \in Kept : i < at' <=> i < at \/ i = at
    BY <1>1 DEF Kept
  <2>2. ~ (at < at)
    BY <1>1
  <2> QED
    BY <1>2, <2>1, <2>2, SameList DEF Done
<1>9. ListInv'
  <2>1. Cardinality(Done') = Cardinality(Done) + 1
    BY <1>1, <1>8, FS_AddElement
  <2>2. Len(requests') = Cardinality(Done')
    BY <1>5, <2>1 DEF ListIInv, ListInv
  <2>3. \A i \in Done : Rank(i)' = Rank(i)
    <3>1. \A i \in Done : ~ (at <= i)
      BY <1>1 DEF Done
    <3> QED
      BY <3>1, <1>8 DEF Rank
  <2>4. ASSUME NEW a \in Done', a = at
        PROVE  Rank(a)' = Len(requests')
    <3>1. \A j \in Done' : j <= a
      <4>1. \A x, y \in Nat : x < y => x <= y
        OBVIOUS
      <4>2. \A j \in Done : j \in Nat /\ j < at
        BY <1>1 DEF Done
      <4> QED
        BY <4>1, <4>2, <2>4, <1>1, <1>8
    <3>2. {j \in Done' : j <= a} = Done'
      BY <3>1
    <3> QED
      BY <3>2, <2>2 DEF Rank
  <2>5. ASSUME NEW n \in DOMAIN requests'
        PROVE  \E i \in Done' :
                 /\ Rank(i)' = n
                 /\ requests'[n] = Added(AsRequest(reqs[Source(i)]))
    <3>1. CASE n \in DOMAIN requests
      <4>1. PICK i \in Done :
              Rank(i) = n /\ requests[n] = Added(AsRequest(reqs[Source(i)]))
        BY <3>1 DEF ListIInv, ListInv
      <4> QED
        BY <4>1, <3>1, <1>5, <1>8, <2>3
    <3>2. CASE n = Len(requests) + 1
      <4>1. PICK a \in Done' : a = at
        BY <1>8
      <4>2. Rank(a)' = n
        BY <4>1, <2>4, <3>2, <1>5
      <4> QED
        BY <4>1, <4>2, <3>2, <1>5
    <3> QED
      BY <3>1, <3>2, <1>5
  <2>6. ASSUME NEW n \in DOMAIN requests'
        PROVE  \E i \in Done' :
                 /\ Rank(i)' = n
                 /\ requests'[n] = Added(AsRequest(reqs[Source(i)]))'
    <3>1. \A i : Added(AsRequest(reqs[Source(i)]))' =
                   Added(AsRequest(reqs[Source(i)]))
      BY SameList DEF Added, AsRequest
    <3> QED
      BY <2>5, <3>1
  <2> QED
    BY <2>2, <2>6 DEF ListInv
<1> QED
  BY <1>6, <1>7, <1>9 DEF ListIInv

\* Each step of the loop keeps the strengthening.
LEMMA ListStepInv == ListIInv /\ [ListNext]_listVars => ListIInv'
<1> SUFFICES ASSUME ListIInv, [ListNext]_listVars PROVE ListIInv'
  OBVIOUS
<1>1. CASE UNCHANGED listVars
  <2> USE <1>1 DEF listVars
  <2>1. ListTypeOK'
    BY DEF ListIInv, ListTypeOK
  <2>2. LoopInv'
    <3>1. RequestBefore' = RequestBefore
      BY SameList DEF RequestBefore, AsRequest
    <3> QED
      BY <3>1, SameList DEF ListIInv, LoopInv
  <2>3. Done' = Done
    BY SameList DEF Done
  <2> QED
    BY <2>1, <2>2, <2>3, StaysPut DEF ListIInv
<1> QED
  BY <1>1, SkipInv, PanicInv, AddFailsInv, AddInv, ReturnInv DEF ListNext

\* The strengthening holds in every behaviour of RequestConfig.
THEOREM ListInductive == ListSpec => []ListIInv
BY ListInitInv, ListStepInv, PTL DEF ListSpec

\* The call succeeds, fails or panics as the first fatal entry says, for lists
\* of any length (request.go:56-91).
THEOREM OutcomeRight == ListSpec => []OutcomeIsRight
<1>1. ASSUME ListIInv, outcome # "running"
      PROVE  outcome = IF FirstFatal > Len(reqs) THEN "ok"
                       ELSE IF Source(FirstFatal) = 0 THEN "panic" ELSE "error"
  <2> DEFINE T == {i \in DOMAIN reqs : Fatal(i)} \cup {Len(reqs) + 1}
  <2>1. /\ Len(reqs) \in Nat /\ at \in 1 .. Len(reqs) + 1
        /\ DOMAIN reqs = 1 .. Len(reqs)
    BY <1>1, DoneFinite DEF ListIInv, ListTypeOK
  <2>2. T \in SUBSET Nat /\ T # {}
    BY <2>1
  <2>3. FirstFatal \in T /\ \A y \in T : FirstFatal <= y
    <3>1. FirstFatal = Min(T)
      BY DEF FirstFatal
    <3> HIDE DEF T
    <3> QED
      BY <2>2, <3>1, MinIsLeast
  <2>4. at \in T
    BY <1>1, <2>1 DEF ListIInv, ListTypeOK, LoopInv
  <2>5. \A y \in T : at <= y
    <3>1. \A y \in 1 .. Len(reqs) : ~ (at <= y) => y \in 1 .. at - 1
      BY <2>1
    <3> QED
      BY <1>1, <2>1, <3>1 DEF ListIInv, LoopInv
  <2>6. FirstFatal = at
    <3>1. \A x, y \in Nat : x <= y /\ y <= x => x = y
      OBVIOUS
    <3>2. /\ FirstFatal \in Nat /\ at \in Nat
          /\ FirstFatal <= at /\ at <= FirstFatal
      BY <2>1, <2>2, <2>3, <2>4, <2>5
    <3> QED
      BY <3>1, <3>2
  <2>7. at > Len(reqs) <=> at = Len(reqs) + 1
    BY <2>1
  <2>8. at \in DOMAIN reqs => ~ (at > Len(reqs))
    BY <2>1
  <2> QED
    BY <1>1, <2>1, <2>6, <2>7, <2>8 DEF ListIInv, ListTypeOK, LoopInv
<1>2. ListIInv => OutcomeIsRight
  BY <1>1 DEF OutcomeIsRight
<1> QED
  BY <1>2, ListInductive, PTL

\* The list holds one request per entry kept, in order, that of the entry it
\* stands for, for lists of any length (request.go:62-88).
THEOREM ListRight == ListSpec => []ListIsRight
<1>1. ASSUME ListIInv
      PROVE  ListIsRight
  <2> DEFINE nth(n) == CHOOSE i \in Done : Rank(i) = n
  <2>1. ASSUME NEW n \in DOMAIN requests
        PROVE  requests[n] = Added(AsRequest(reqs[Source(nth(n))]))
    <3>1. PICK i \in Done :
            Rank(i) = n /\ requests[n] = Added(AsRequest(reqs[Source(i)]))
      BY <1>1 DEF ListIInv, ListInv
    <3>2. nth(n) \in Done /\ Rank(nth(n)) = n
      BY <3>1, Zenon
    <3>3. nth(n) = i
      BY <1>1, <3>1, <3>2, RankInjective DEF ListIInv
    <3> QED
      BY <3>1, <3>3
  <2>2. Len(requests) = Cardinality(Done)
    BY <1>1 DEF ListIInv, ListInv
  <2> QED
    BY <2>1, <2>2 DEF ListIsRight, Done, Rank
<1> QED
  BY <1>1, ListInductive, PTL

--------------------------------------------------------------------------------
(* Arithmetic.                                                             *)

\* Quotient and remainder.
LEMMA Division ==
  ASSUME NEW w \in Nat \ {0}, NEW n \in Int
  PROVE  /\ n % w \in 0 .. w - 1
         /\ n \div w \in Int
         /\ n = (n \div w) * w + (n % w)
<1>1. w \in Int /\ w > 0
  OBVIOUS
<1>2. n % w = n - w * (n \div w)
  BY <1>1, SMTT(30)
<1>3. n % w \in 0 .. w - 1 /\ n \div w \in Int
  BY <1>1
<1> QED
  BY <1>1, <1>2, <1>3

\* Words more or less do not change a remainder.
LEMMA Remainder ==
  ASSUME NEW w \in Nat \ {0}, NEW r \in 0 .. w - 1, NEW q \in Int
  PROVE  (r + q * w) % w = r
<1>1. w \in Int /\ w > 0
  OBVIOUS
<1> QED
  BY <1>1, SMTT(30)

\* A product with a positive number keeps the order.
LEMMA Monotone ==
  ASSUME NEW a \in Int, NEW b \in Int, NEW c \in Nat \ {0}
  PROVE  /\ a <= b => a * c <= b * c
         /\ a * c < b * c => a < b
<1>1. ASSUME NEW x \in Int, NEW y \in Int, x <= y PROVE x * c <= y * c
  <2>1. y - x \in Nat /\ (y - x) * c \in Nat
    BY <1>1
  <2>2. (y - x) * c = y * c - x * c
    OBVIOUS
  <2>3. x * c \in Int /\ y * c \in Int
    OBVIOUS
  <2> QED
    BY <2>1, <2>2, <2>3
<1>2. a * c \in Int /\ b * c \in Int
  OBVIOUS
<1> QED
  BY <1>1, <1>2

\* The conversions lose nothing but words: converting to int and on to uint, or
\* before an addition, is the same as not converting at all.
LEMMA Conversion ==
  ASSUME NEW n \in Int
  PROVE  /\ Signed(n) \in Int
         /\ Unsigned(Signed(n)) = Unsigned(n)
         /\ \A c \in Int : Signed(Signed(n) + c) = Signed(n + c)
<1> DEFINE h == Word \div 2
           q == (n + h) \div Word
<1>1. Word \in Nat \ {0} /\ h \in Int /\ n + h \in Int
  BY PayloadAssumption, TcpAssumption, Division
<1>2. q \in Int /\ n + h = q * Word + ((n + h) % Word) /\ (n + h) % Word \in Int
  BY <1>1, Division
<1>3. Signed(n) = n - q * Word /\ Signed(n) \in Int
  BY <1>1, <1>2 DEF Signed
<1> HIDE DEF h, q
<1>4. ASSUME NEW x \in Int PROVE (x - q * Word) % Word = x % Word
  <2> DEFINE d == x \div Word
  <2>1. d \in Int /\ x % Word \in 0 .. Word - 1 /\ x = d * Word + (x % Word)
    BY <1>1, Division
  <2> HIDE DEF d
  <2>2. PICK r \in 0 .. Word - 1 : r = x % Word
    BY <2>1
  <2>3. x - q * Word = r + (d - q) * Word
    BY <1>1, <1>2, <2>1, <2>2
  <2>4. d - q \in Int
    BY <1>2, <2>1
  <2> QED
    BY <1>1, <2>2, <2>3, <2>4, Remainder
<1>5. Unsigned(Signed(n)) = Unsigned(n)
  BY <1>3, <1>4 DEF Unsigned
<1>6. ASSUME NEW c \in Int PROVE Signed(Signed(n) + c) = Signed(n + c)
  <2>1. Signed(n) + c + h = (n + c + h) - q * Word
    BY <1>1, <1>2, <1>3
  <2>2. (Signed(n) + c + h) % Word = (n + c + h) % Word
    BY <2>1, <1>1, <1>4
  <2> QED
    BY <2>2 DEF Signed, h
<1> QED
  BY <1>3, <1>5, <1>6

\* A payload is a whole number of chunks and less than a word.
LEMMA WholePayload ==
  ASSUME count \in 0 .. Word - 1
  PROVE  /\ PayloadSize \in 0 .. Word - 1
         /\ \E p \in Int : PayloadSize = p * Chunk
<1>1. /\ Word \in Nat \ {0} /\ Chunk \in Nat \ {0} /\ MiB \in Nat \ {0}
      /\ MiB % Chunk = 0 /\ Word % MiB = 0
  BY PayloadAssumption, TcpAssumption
<1>2. PICK c \in Int : MiB = c * Chunk
  <2>1. MiB \div Chunk \in Int /\ MiB = (MiB \div Chunk) * Chunk + (MiB % Chunk)
    BY <1>1, Division
  <2>2. MiB = (MiB \div Chunk) * Chunk
    BY <1>1, <2>1
  <2> QED
    BY <2>1, <2>2
<1>3. PICK w \in Int : Word = w * MiB
  <2>1. Word \div MiB \in Int /\ Word = (Word \div MiB) * MiB + (Word % MiB)
    BY <1>1, Division
  <2>2. Word = (Word \div MiB) * MiB
    BY <1>1, <2>1
  <2> QED
    BY <2>1, <2>2
<1>4. count * MiB \in Int
  BY <1>1
<1>5. PICK q \in Int : count * MiB = q * Word + PayloadSize
  BY <1>1, <1>4, Division DEF PayloadSize, PayloadOf
<1>6. PayloadSize \in 0 .. Word - 1
  BY <1>1, <1>4, Division DEF PayloadSize, PayloadOf
<1>7. PayloadSize = (count - q * w) * MiB
  BY <1>1, <1>3, <1>4, <1>5, <1>6
<1>8. PayloadSize = ((count - q * w) * c) * Chunk
  BY <1>1, <1>2, <1>7
<1>9. (count - q * w) * c \in Int
  BY <1>1
<1> QED
  BY <1>6, <1>8, <1>9

--------------------------------------------------------------------------------
(* TcpRequest.                                                             *)

\* As long as the loop goes on it has not sent enough, and before it nothing.
SentInv ==
  /\ TypeOK /\ sent \in Nat
  /\ pc = "dial" => sent = 0
  /\ pc = "write" => sent = 0 \/ sent * Chunk < PayloadSize
  /\ SentExactly

\* Before the first chunk.
LEMMA InitSentInv == Init => SentInv
<1> SUFFICES ASSUME Init PROVE SentInv
  OBVIOUS
<1>1. Signed(0) = 0
  <2> DEFINE h == Word \div 2
  <2>1. Word \in Nat \ {0} /\ h \in 0 .. Word - 1
    BY PayloadAssumption, TcpAssumption
  <2>2. h % Word = h
    BY <2>1, Remainder
  <2> QED
    BY <2>1, <2>2 DEF Signed
<1>2. 0 * Chunk = 0
  BY PayloadAssumption, TcpAssumption
<1> QED
  BY <1>1, <1>2 DEF Init, SentInv, TypeOK, SentExactly

\* The heart of it: the sum that is compared is the number of bytes sent.
LEMMA WriteSentInv == SentInv /\ Write => SentInv'
<1> SUFFICES ASSUME SentInv, Write PROVE SentInv'
  OBVIOUS
<1> DEFINE bytes == (sent + 1) * Chunk
<1>1. /\ pc = "write" /\ sum' = Signed(sum + Chunk) /\ sent' = sent + 1
      /\ count' = count /\ failed' = failed
      /\ pc' = IF Unsigned(Summed) >= PayloadSize THEN "done" ELSE "write"
  BY DEF Write, Writes, Summed
<1>2. /\ sent \in Nat /\ sum = Signed(sent * Chunk) /\ count \in 0 .. Word - 1
      /\ failed \in BOOLEAN
      /\ sent = 0 \/ sent * Chunk < PayloadSize
  BY <1>1 DEF SentInv, TypeOK
<1>3. /\ Word \in Nat \ {0} /\ Chunk \in Nat \ {0}
      /\ PayloadSize \in 0 .. Word - 1
  BY <1>2, PayloadAssumption, TcpAssumption, WholePayload
<1>4. sent * Chunk \in Int /\ sent * Chunk + Chunk = bytes /\ bytes \in Int
  BY <1>2, <1>3
<1>5. Summed = Signed(bytes) /\ Unsigned(Summed) = Unsigned(bytes)
  <2>1. Signed(Signed(sent * Chunk) + Chunk) = Signed(sent * Chunk + Chunk)
    BY <1>3, <1>4, Conversion
  <2>2. Summed = Signed(sent * Chunk + Chunk)
    BY <2>1, <1>2 DEF Summed
  <2>3. Summed = Signed(bytes)
    BY <2>2, <1>4
  <2>4. Unsigned(Signed(bytes)) = Unsigned(bytes)
    BY <1>4, Conversion
  <2> QED
    BY <2>3, <2>4
<1>6. PayloadSize' = PayloadSize
  BY <1>1 DEF PayloadSize, PayloadOf
<1>7. TypeOK' /\ sent' \in Nat
  <2>1. sum' = Signed(sent' * Chunk) /\ pc' \in {"write", "done"}
    BY <1>1, <1>5 DEF Summed
  <2>2. count' \in 0 .. Word - 1 /\ failed' \in BOOLEAN /\ sent' \in Nat
    BY <1>1, <1>2
  <2> QED
    BY <2>1, <2>2 DEF TypeOK
<1>8. CASE PayloadSize = 0
  <2>1. sent = 0
    BY <1>2, <1>3, <1>8
  <2>2. Unsigned(Summed) \in Nat
    <3>1. bytes % Word \in 0 .. Word - 1
      BY <1>3, <1>4, Division
    <3> QED
      BY <3>1, <1>3, <1>5 DEF Unsigned
  <2>3. pc' = "done" /\ sent' * Chunk = Chunk
    BY <1>1, <1>3, <1>8, <2>1, <2>2
  <2> QED
    BY <1>6, <1>7, <1>8, <2>3 DEF SentInv, SentExactly
<1>9. CASE PayloadSize # 0
  <2>1. PICK p \in Int : PayloadSize = p * Chunk
    BY <1>2, WholePayload
  <2>2. sent < p
    <3>1. sent * Chunk < p * Chunk
      BY <1>2, <1>3, <1>9, <2>1
    <3> QED
      BY <3>1, <1>2, <1>3, Monotone
  <2>3. bytes <= PayloadSize
    BY <1>2, <1>3, <2>1, <2>2, Monotone
  <2>4. bytes \in 0 .. Word - 1
    BY <1>2, <1>3, <1>4, <2>3
  <2>5. Unsigned(bytes) = bytes
    BY <1>3, <2>4, Remainder DEF Unsigned
  <2>6. /\ bytes = PayloadSize => pc' = "done"
        /\ bytes # PayloadSize => pc' = "write" /\ bytes < PayloadSize
    BY <1>1, <1>3, <1>4, <1>5, <2>3, <2>5
  <2> QED
    BY <1>1, <1>6, <1>7, <1>9, <2>6 DEF SentInv, SentExactly
<1> QED
  BY <1>8, <1>9

\* Each step of Do keeps it.
LEMMA StepSentInv == SentInv /\ [Next]_vars => SentInv'
<1> SUFFICES ASSUME SentInv, [Next]_vars PROVE SentInv'
  OBVIOUS
<1>1. CASE Connect \/ Fail \/ UNCHANGED vars
  BY <1>1 DEF Connect, Fail, vars, SentInv, TypeOK, SentExactly, PayloadSize,
              PayloadOf
<1> QED
  BY <1>1, WriteSentInv DEF Next

--------------------------------------------------------------------------------
(* TcpLink.                                                                *)

LinkIInv ==
  /\ SentInv /\ LinkTypeOK /\ read \in Nat
  /\ WorkloadAfterPayload

\* Before the connection.
LEMMA LinkInitInv == LinkInit => LinkIInv
BY InitSentInv, LinkAssumption
DEF LinkInit, Init, LinkIInv, SentInv, LinkTypeOK, WorkloadAfterPayload

\* A step at either end is a step of Do or none.
LEMMA StepMaps == [LinkNext]_allVars => [Next]_vars
BY DEF LinkNext, ClientStep, ServerStep, Misfortune, LinkConnect, LinkWrite,
       LinkFail, ClientDies, Accept, Read, ReadWhile, ReadEnds, ReadEndsWhen,
       RunWorkload, Break,
       ServerDies, Next, allVars, vars

\* Each step of either end, of the network or of a death keeps it.
LEMMA LinkStepInv == LinkIInv /\ [LinkNext]_allVars => LinkIInv'
<1> SUFFICES ASSUME LinkIInv, [LinkNext]_allVars PROVE LinkIInv'
  OBVIOUS
<1>1. SentInv' /\ TypeOK'
  BY StepMaps, StepSentInv DEF LinkIInv, SentInv
<1>2. /\ net \in {"none", "open", "broken"} /\ buffer \in 0 .. Room
      /\ server \in {"none", "backlog", "reading", "workload", "over", "dead"}
      /\ read \in Nat /\ sent \in Nat /\ Room \in Nat
      /\ read + buffer <= sent
      /\ net = "open" => read + buffer = sent
      /\ pc = "dial" => sent = 0
      /\ net = "open" /\ server \in {"workload", "over"} =>
           pc = "done" /\ read = sent
  BY LinkAssumption DEF LinkIInv, SentInv, LinkTypeOK, WorkloadAfterPayload
<1> SUFFICES /\ net' \in {"none", "open", "broken"} /\ buffer' \in 0 .. Room
             /\ server' \in {"none", "backlog", "reading", "workload", "over",
                             "dead"}
             /\ read' \in Nat /\ read' + buffer' <= sent'
             /\ net' = "open" => read' + buffer' = sent'
             /\ net' = "open" /\ server' \in {"workload", "over"} =>
                  pc' = "done" /\ read' = sent'
  BY <1>1 DEF LinkIInv, LinkTypeOK, WorkloadAfterPayload
<1>3. CASE LinkConnect
  BY <1>2, <1>3 DEF LinkConnect, Connect
<1>4. CASE LinkWrite
  BY <1>2, <1>4 DEF LinkWrite, Write, Writes
<1>5. CASE LinkFail \/ ClientDies
  BY <1>2, <1>5 DEF LinkFail, ClientDies, Fail, linkVars
<1>6. CASE Read
  <2>1. PICK n \in 1 .. PerRead : /\ n <= buffer /\ buffer' = buffer - n
                                  /\ read' = read + n
    BY <1>6 DEF Read, ReadWhile
  <2> QED
    BY <1>2, <1>6, <2>1, LinkAssumption DEF Read, ReadWhile, Server, vars
<1>7. CASE Accept \/ ReadEnds \/ RunWorkload
  BY <1>2, <1>7 DEF Accept, ReadEnds, ReadEndsWhen, RunWorkload, Server, vars
<1>8. CASE Break
  <2>1. /\ net' = "broken" /\ buffer' \in 0 .. buffer
        /\ server' = server /\ read' = read /\ sent' = sent
    BY <1>8 DEF Break, vars
  <2>2. buffer' \in Nat /\ buffer' <= buffer /\ buffer \in Nat /\ buffer <= Room
    BY <1>2, <2>1
  <2>3. buffer' \in 0 .. Room
    BY <1>2, <2>2
  <2>4. read' + buffer' <= sent'
    <3>1. ASSUME NEW a \in Nat, NEW b \in Nat, NEW c \in Nat, NEW d \in Nat,
                 a + b <= d, c <= b
          PROVE  a + c <= d
      BY <3>1
    <3>2. read + buffer' <= sent
      BY <3>1, <1>2, <2>2
    <3> QED
      BY <3>2, <2>1
  <2> QED
    BY <1>2, <2>1, <2>3, <2>4
<1>9. CASE ServerDies
  BY <1>2, <1>9 DEF ServerDies, vars
<1>10. CASE UNCHANGED allVars
  BY <1>2, <1>10 DEF allVars, vars, linkVars
<1> QED
  BY <1>3, <1>4, <1>5, <1>6, <1>7, <1>8, <1>9, <1>10
  DEF LinkNext, ClientStep, ServerStep, Misfortune

\* The strengthening holds in every behaviour of TcpLink.
THEOREM LinkInductive == LinkSpec => []LinkIInv
BY LinkInitInv, LinkStepInv, PTL DEF LinkSpec

\* TcpLink is type correct: an open connection has every chunk that was sent, on
\* the way or at the server, and the int wraps when it should.
THEOREM LinkTypeCorrect == LinkSpec => []LinkTypeOK
<1>1. LinkIInv => LinkTypeOK
  BY DEF LinkIInv
<1> QED
  BY <1>1, LinkInductive, PTL

\* A request that logs no error has sent its payload to the byte, whatever the
\* width of an int and however the product wraps (tcp.go:52-63).
THEOREM SendsExactly == LinkSpec => []SentExactly
<1>1. LinkIInv => SentExactly
  BY DEF LinkIInv, SentInv
<1> QED
  BY <1>1, LinkInductive, PTL

\* The workload comes after the last byte, or the connection has broken
\* (tcpserver.go:104-116).
THEOREM WorksAfterPayload == LinkSpec => []WorkloadAfterPayload
<1>1. LinkIInv => WorkloadAfterPayload
  BY DEF LinkIInv
<1> QED
  BY <1>1, LinkInductive, PTL

\* The safety part of ImplementsRequest: over a real connection Do takes no step
\* that TcpRequest does not know.
THEOREM RequestIsImplemented == LinkSpec => Spec
<1>1. LinkInit => Init
  BY DEF LinkInit
<1> QED
  BY <1>1, StepMaps, PTL DEF LinkSpec, Spec

--------------------------------------------------------------------------------
(* Neither end is stuck, as far as a state can say it.                     *)

\* Do has failed only when it is over, and however it ends it has not sent more
\* than the payload, or than the one chunk of an empty payload.
BoundInv ==
  /\ pc # "done" => ~ failed
  /\ sent <= 1 \/ sent * Chunk <= PayloadSize

\* A chunk more does not get past the payload: the loop had not sent enough.
LEMMA WriteBound ==
  ASSUME SentInv, SentInv', BoundInv, Write
  PROVE  BoundInv'
<1>1. /\ pc = "write" /\ sent' = sent + 1 /\ failed' = failed /\ ~ failed
      /\ pc' \in {"write", "done"} /\ sent \in Nat /\ sent' \in Nat
  BY DEF Write, Writes, BoundInv, SentInv
<1>2. PayloadSize' = PayloadSize
  BY DEF Write, Writes, PayloadSize, PayloadOf
<1>3. Chunk \in Nat \ {0} /\ sent' * Chunk \in Int /\ PayloadSize \in Int
  BY <1>1, TcpAssumption, WholePayload DEF SentInv, TypeOK
<1>4. CASE pc' = "write"
  BY <1>1, <1>2, <1>3, <1>4 DEF SentInv, BoundInv
<1>5. CASE pc' = "done" /\ PayloadSize # 0
  <2>1. sent' * Chunk = PayloadSize
    BY <1>1, <1>2, <1>5 DEF SentInv, SentExactly
  <2> QED
    BY <1>1, <1>2, <1>3, <2>1 DEF BoundInv
<1>6. CASE pc' = "done" /\ PayloadSize = 0
  <2>1. sent' * Chunk = 1 * Chunk
    BY <1>1, <1>2, <1>3, <1>6 DEF SentInv, SentExactly
  <2>2. 2 <= sent' => 2 * Chunk <= sent' * Chunk
    BY <1>1, <1>3, Monotone
  <2>3. ~ (2 * Chunk <= 1 * Chunk)
    BY <1>3
  <2>4. sent' <= 1
    BY <1>1, <2>1, <2>2, <2>3
  <2> QED
    BY <1>1, <2>4 DEF BoundInv
<1> QED
  BY <1>1, <1>4, <1>5, <1>6

\* Do never sends more than its payload, also when it fails in between or its
\* client dies: so its loop makes finitely many rounds (tcp.go:53-63).
THEOREM NeverOversends ==
  LinkSpec => [](sent <= 1 \/ sent * Chunk <= PayloadSize)
<1>1. LinkInit => BoundInv
  BY DEF LinkInit, Init, BoundInv
<1>2. LinkIInv /\ LinkIInv' /\ BoundInv /\ [LinkNext]_allVars => BoundInv'
  <2> SUFFICES ASSUME LinkIInv, LinkIInv', BoundInv, [Next]_vars
               PROVE  BoundInv'
    BY StepMaps
  <2>1. CASE Write
    BY <2>1, WriteBound DEF LinkIInv
  <2>2. CASE Connect \/ Fail \/ UNCHANGED vars
    <3>1. sent' = sent /\ PayloadSize' = PayloadSize
      BY <2>2 DEF Connect, Fail, vars, PayloadSize, PayloadOf
    <3>2. pc' # "done" => ~ failed'
      BY <2>2 DEF Connect, Fail, vars, BoundInv
    <3> QED
      BY <3>1, <3>2 DEF BoundInv
  <2> QED
    BY <2>1, <2>2 DEF Next
<1>3. BoundInv => sent <= 1 \/ sent * Chunk <= PayloadSize
  BY DEF BoundInv
<1> QED
  BY <1>1, <1>2, <1>3, LinkInductive, PTL DEF LinkSpec

\* An open connection has a server at its other end.
PeerInv == net = "open" => server \notin {"none", "dead"}

\* Who writes into an open connection has a reader: the server has not gone on
\* before the client has, so a full buffer is going to be read (tcp.go:54,
\* tcpserver.go:105).
THEOREM WriterHasAReader ==
  LinkSpec => [](net = "open" /\ pc = "write" =>
                   server \in {"backlog", "reading"})
<1>1. LinkInit => PeerInv
  BY DEF LinkInit, PeerInv
<1>2. PeerInv /\ [LinkNext]_allVars => PeerInv'
  BY DEF PeerInv, LinkNext, ClientStep, ServerStep, Misfortune, LinkConnect,
         LinkWrite, LinkFail, ClientDies, Accept, Read, ReadWhile, ReadEnds,
         ReadEndsWhen, RunWorkload, Break, ServerDies, Server, allVars, linkVars
<1>3. LinkIInv /\ PeerInv =>
        (net = "open" /\ pc = "write" =>
           server \in {"backlog", "reading"})
  BY LinkAssumption DEF LinkIInv, LinkTypeOK, WorkloadAfterPayload, PeerInv
<1> QED
  BY <1>1, <1>2, <1>3, LinkInductive, PTL DEF LinkSpec
================================================================================
