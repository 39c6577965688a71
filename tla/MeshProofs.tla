------------------------------- MODULE MeshProofs ------------------------------
(***************************************************************************)
(* Proofs about Mesh: any services, any topologies with cycles or without, *)
(* calls of any depth, any number of deaths and restarts.                  *)
(***************************************************************************)
EXTENDS Mesh, SequenceTheorems, WellFoundedInduction, TLAPS

Hop == Nat \X Services

\* The way of a call: each call was made by the one its name says, as an entry
\* of the list of that service.
Lineage ==
  \A q \in Made : \A n \in 1 .. Len(q) :
    /\ SubSeq(q, 1, n) \in Made
    /\ n < Len(q) => SubSeq(q, 1, n + 1) \in Subs(SubSeq(q, 1, n))

\* The tree of p has a failure, or is complete.
Covered(p) ==
  \/ \E q \in Below(p) : client[q] \in Failure
  \/ \A q \in {p} \cup Below(p) :
       work[q] = "answered" /\ Subs(q) \subseteq Made

IInv ==
  /\ TypeOK
  /\ Made \subseteq Seq(Hop) \ {<<>>}
  /\ Lineage
  /\ \A p \in Made : work[p] = "answered" => Covered(p)

--------------------------------------------------------------------------------
(* Prefixes, subcalls and the calls below a call.                          *)

\* Prefixes of a prefix, and of a sequence that was extended.
LEMMA Prefixes ==
  ASSUME NEW S, NEW s \in Seq(S), NEW n \in 0 .. Len(s)
  PROVE  /\ SubSeq(s, 1, n) \in Seq(S)
         /\ Len(SubSeq(s, 1, n)) = n
         /\ \A i \in 1 .. n : SubSeq(s, 1, n)[i] = s[i]
         /\ n = Len(s) => SubSeq(s, 1, n) = s
         /\ \A m \in 0 .. n : SubSeq(SubSeq(s, 1, n), 1, m) = SubSeq(s, 1, m)
         /\ \A x \in S : SubSeq(Append(s, x), 1, n) = SubSeq(s, 1, n)
  OBVIOUS

\* What a subcall is called: the name of its caller and one hop more.
LEMMA SubcallNames ==
  ASSUME IInv, NEW p \in Made, NEW q \in Subs(p)
  PROVE  /\ q \in Seq(Hop) \ {<<>>}
         /\ Len(q) = Len(p) + 1
         /\ \A n \in 0 .. Len(p) : SubSeq(q, 1, n) = SubSeq(p, 1, n)
         /\ SubSeq(q, 1, Len(p)) = p
         /\ q \in Made => q \in Below(p)
<1>1. p \in Seq(Hop) /\ p # <<>> /\ Len(p) \in Nat \ {0}
  BY DEF IInv
<1>2. Target(p) \in Services
  BY <1>1 DEF Target, Hop
<1>3. requests[Target(p)] \in Seq(Services)
  BY <1>2, MeshAssumption DEF IInv, TypeOK
<1>4. PICK i \in DOMAIN requests[Target(p)] :
        q = Append(p, <<i, requests[Target(p)][i]>>)
  BY DEF Subs
<1>5. <<i, requests[Target(p)][i]>> \in Hop
  BY <1>3, <1>4 DEF Hop
<1>6. /\ q \in Seq(Hop) \ {<<>>}
      /\ Len(q) = Len(p) + 1
      /\ \A n \in 0 .. Len(p) : SubSeq(q, 1, n) = SubSeq(p, 1, n)
  BY <1>1, <1>4, <1>5, Prefixes
<1>7. SubSeq(p, 1, Len(p)) = p
  BY <1>1, Prefixes
<1> QED
  BY <1>1, <1>6, <1>7 DEF Below

\* A call below p is a subcall of p or below one.
LEMMA BelowSplits ==
  ASSUME IInv, NEW p \in Made, NEW z \in Below(p)
  PROVE  \E q \in Subs(p) \cap Made : z = q \/ z \in Below(q)
<1> DEFINE q == SubSeq(z, 1, Len(p) + 1)
<1>1. /\ p \in Seq(Hop) /\ Len(p) \in Nat \ {0}
      /\ z \in Made /\ z \in Seq(Hop) /\ Len(z) > Len(p) /\ Len(z) \in Nat
      /\ SubSeq(z, 1, Len(p)) = p
  BY DEF IInv, Below
<1>2. q \in Made /\ q \in Subs(p)
  <2>1. Len(p) \in 1 .. Len(z) /\ Len(p) + 1 \in 1 .. Len(z)
    BY <1>1
  <2> QED
    BY <1>1, <2>1 DEF IInv, Lineage
<1>3. Len(q) = Len(p) + 1 /\ (Len(z) = Len(p) + 1 => z = q)
  BY <1>1, Prefixes
<1>4. z = q \/ z \in Below(q)
  BY <1>1, <1>3 DEF Below
<1> QED
  BY <1>2, <1>4

\* Below is transitive.
LEMMA BelowBelow ==
  ASSUME IInv, NEW p \in Made, NEW q \in Below(p), NEW z \in Below(q)
  PROVE  z \in Below(p)
<1>1. /\ Len(p) \in Nat /\ Len(q) \in Nat /\ Len(z) \in Nat
      /\ z \in Made /\ z \in Seq(Hop)
      /\ Len(z) > Len(q) /\ Len(q) > Len(p)
      /\ SubSeq(z, 1, Len(q)) = q /\ SubSeq(q, 1, Len(p)) = p
  BY DEF IInv, Below
<1>2. SubSeq(z, 1, Len(p)) = p
  BY <1>1, Prefixes
<1> QED
  BY <1>1, <1>2 DEF Below

\* A complete list of subcalls whose trees are covered covers the tree above.
LEMMA CoverUp ==
  ASSUME IInv, NEW p \in Made, Subs(p) \subseteq Made,
         \A q \in Subs(p) : client[q] \in Failure \/ Covered(q)
  PROVE  \/ \E z \in Below(p) : client[z] \in Failure
         \/ \A z \in Below(p) : work[z] = "answered" /\ Subs(z) \subseteq Made
<1> SUFFICES ASSUME \A z \in Below(p) : client[z] \notin Failure,
                    NEW z \in Below(p)
             PROVE  work[z] = "answered" /\ Subs(z) \subseteq Made
  OBVIOUS
<1>1. PICK q \in Subs(p) \cap Made : z = q \/ z \in Below(q)
  BY BelowSplits
<1>2. q \in Below(p)
  BY <1>1, SubcallNames
<1>3. Covered(q)
  BY <1>2
<1>4. ~ \E x \in Below(q) : client[x] \in Failure
  BY <1>2, BelowBelow
<1> QED
  BY <1>1, <1>3, <1>4 DEF Covered

--------------------------------------------------------------------------------
(* Steps.                                                                  *)

\* A step that makes no call: what is over stays over, and nobody is answered
\* but by Answer.
Quiet ==
  /\ Made' = Made /\ requests' = requests
  /\ \A p \in Made :
       /\ client[p] \in Over => client'[p] = client[p]
       /\ work[p] = "answered" <=> work'[p] = "answered"

\* A step that makes no call and gives no answer keeps the strengthening.
LEMMA QuietKeepsCover ==
  ASSUME IInv, TypeOK', Quiet
  PROVE  IInv'
<1> USE DEF Quiet
<1>1. \A p \in Made : Subs(p)' = Subs(p)
  BY DEF Subs
<1>2. \A p \in Made : Below(p)' = Below(p)
  BY DEF Below
<1>3. (Made \subseteq Seq(Hop) \ {<<>>})'
  BY DEF IInv, Hop
<1>4. Lineage'
  <2> SUFFICES ASSUME NEW q \in Made, NEW n \in 1 .. Len(q)
               PROVE  /\ SubSeq(q, 1, n) \in Made
                      /\ n < Len(q) =>
                           SubSeq(q, 1, n + 1) \in Subs(SubSeq(q, 1, n))'
    BY DEF Lineage
  <2> QED
    BY <1>1 DEF IInv, Lineage
<1>5. ASSUME NEW p \in Made, work'[p] = "answered"
      PROVE  Covered(p)'
  <2>1. Covered(p)
    BY <1>5 DEF IInv
  <2>2. CASE \E q \in Below(p) : client[q] \in Failure
    <3>1. PICK q \in Below(p) : client[q] \in Failure
      BY <2>2
    <3>2. q \in Below(p)' /\ client'[q] \in Failure
      BY <3>1, <1>2 DEF Below, Over
    <3> QED
      BY <3>2 DEF Covered, Failure
  <2>3. CASE \A q \in {p} \cup Below(p) :
               work[q] = "answered" /\ Subs(q) \subseteq Made
    <3>1. \A q \in {p} \cup Below(p) :
            work'[q] = "answered" /\ Subs(q)' \subseteq Made'
      BY <2>3, <1>1 DEF Below
    <3>2. ({p} \cup Below(p))' = {p} \cup Below(p)
      BY <1>2
    <3> QED
      BY <3>1, <3>2 DEF Covered
  <2> QED
    BY <2>1, <2>2, <2>3 DEF Covered
<1> QED
  BY <1>3, <1>4, <1>5 DEF IInv

\* Most steps only touch one call that goes on.
LEMMA GetsInv ==
  ASSUME IInv, NEW p \in Made, NEW outcome \in Over \cup {"gone"},
         outcome = "ok" => work[p] = "answered", Gets(p, outcome)
  PROVE  IInv'
<1>1. TypeOK'
  BY DEF IInv, TypeOK, Made, Gets, Range, Over, Failure
<1>2. Quiet
  BY DEF Quiet, Made, Gets, Over, Failure
<1> QED
  BY <1>1, <1>2, QuietKeepsCover

\* A handler that begins answers nobody.
LEMMA AcceptInv ==
  ASSUME IInv, NEW p \in Made, Accept(p)
  PROVE  IInv'
<1>1. TypeOK'
  <2>1. /\ DOMAIN work' = DOMAIN work
        /\ Range(work') \subseteq Range(work) \cup {"working"}
    BY DEF Accept, Works, Range
  <2>2. \A q \in Made : work[q] = "answered" => work'[q] = "answered"
    BY DEF IInv, TypeOK, Accept, Works
  <2> QED
    BY <2>1, <2>2 DEF IInv, TypeOK, Made, Accept, Works
<1>2. Quiet
  BY DEF IInv, TypeOK, Made, Quiet, Accept, Works
<1> QED
  BY <1>1, <1>2, QuietKeepsCover

\* A death ends handlers and callers, and answers nobody.
LEMMA CrashInv ==
  ASSUME IInv, NEW s \in Services, Crash(s)
  PROVE  IInv'
<1>1. Quiet
  BY DEF IInv, TypeOK, Made, Quiet, Crash, Over, Failure
<1>2. TypeOK'
  <2>1. DOMAIN client' = Made /\ DOMAIN work' = Made
    BY DEF Crash, Made
  <2>2. /\ Range(client') \subseteq Range(client) \cup {"gone"}
        /\ Range(work') \subseteq Range(work) \cup {"died"}
    BY <2>1 DEF Crash, Range, IInv, TypeOK, Made
  <2>3. \A p \in Made : client'[p] = "ok" => work'[p] = "answered"
    BY DEF Crash, IInv, TypeOK
  <2>4. crashes' \in 0 .. MaxCrashes /\ up' \subseteq Services
    BY MeshAssumption DEF Crash, IInv, TypeOK
  <2> QED
    BY <2>1, <2>2, <2>3, <2>4 DEF IInv, TypeOK, Crash, Made
<1> QED
  BY <1>1, <1>2, QuietKeepsCover

\* The start of a service changes no call.
LEMMA RestartInv ==
  ASSUME IInv, NEW s \in Services, Restart(s)
  PROVE  IInv'
<1>1. TypeOK'
  BY DEF IInv, TypeOK, Restart, Made
<1>2. Quiet
  BY DEF Quiet, Restart, Made
<1> QED
  BY <1>1, <1>2, QuietKeepsCover

\* A new call joins no tree in which everyone has answered: its caller is still at
\* work.
LEMMA NoNewCallInside ==
  ASSUME IInv, NEW p \in Made, work[p] = "working", NEW q \in Subs(p),
         NEW r \in Made, \A z \in {r} \cup Below(r) : work[z] = "answered"
  PROVE  ~ (Len(q) > Len(r) /\ SubSeq(q, 1, Len(r)) = r)
<1> SUFFICES ASSUME Len(q) > Len(r), SubSeq(q, 1, Len(r)) = r
             PROVE  FALSE
  OBVIOUS
<1>1. p \notin {r} \cup Below(r)
  OBVIOUS
<1>2. /\ Len(p) \in Nat /\ Len(r) \in Nat
      /\ Len(q) = Len(p) + 1
      /\ \A n \in 0 .. Len(p) : SubSeq(q, 1, n) = SubSeq(p, 1, n)
      /\ SubSeq(q, 1, Len(p)) = p
  BY SubcallNames DEF IInv
<1>3. Len(r) = Len(p) \/ Len(r) < Len(p)
  <2>1. \A a, b \in Nat : b + 1 > a => a = b \/ a < b
    OBVIOUS
  <2> QED
    BY <2>1, <1>2
<1>4. CASE Len(r) = Len(p)
  BY <1>1, <1>2, <1>4
<1>5. CASE Len(r) < Len(p)
  <2>1. Len(r) \in 0 .. Len(p)
    BY <1>2, <1>5
  <2>2. SubSeq(p, 1, Len(r)) = r
    BY <2>1, <1>2
  <2> QED
    BY <2>2, <1>1, <1>5 DEF Below
<1> QED
  BY <1>3, <1>4, <1>5

\* A new call has its caller's way behind it, and joins no covered tree.
LEMMA IssueInv ==
  ASSUME IInv, NEW p \in Made, Issue(p)
  PROVE  IInv'
<1> USE DEF IInv
<1>1. PICK q \in Subs(p) \ Made :
        /\ client' = [r \in Made \cup {q} |->
                        IF r = q THEN "waiting" ELSE client[r]]
        /\ work' = [r \in Made \cup {q} |-> IF r = q THEN "none" ELSE work[r]]
  BY DEF Issue, IssueUpTo
<1>2. /\ work[p] = "working" /\ Len(p) < MaxDepth
      /\ requests' = requests /\ up' = up /\ crashes' = crashes
  BY DEF Issue, IssueUpTo
<1>3. Made' = Made \cup {q} /\ DOMAIN work' = Made \cup {q}
  BY <1>1 DEF Made
<1>4. \A r \in Made : client'[r] = client[r] /\ work'[r] = work[r]
  BY <1>1
<1>5. \A r : Subs(r)' = Subs(r)
  BY <1>2 DEF Subs
<1>6. /\ q \in Seq(Hop) \ {<<>>} /\ q # Root
      /\ Len(p) \in Nat \ {0} /\ Len(q) = Len(p) + 1
      /\ \A n \in 0 .. Len(p) : SubSeq(q, 1, n) = SubSeq(p, 1, n)
      /\ SubSeq(q, 1, Len(p)) = p /\ SubSeq(q, 1, Len(q)) = q
  BY <1>1, SubcallNames, Prefixes DEF TypeOK
<1>7. TypeOK'
  <2>1. SubSeq(q, 1, Len(q) - 1) \in Made /\ Len(q) <= MaxDepth
    <3>1. Len(q) - 1 = Len(p) /\ MaxDepth \in Nat
      BY <1>6, MeshAssumption
    <3>2. SubSeq(q, 1, Len(q) - 1) = p
      BY <3>1, <1>6, Zenon
    <3>3. Len(q) <= MaxDepth
      BY <3>1, <1>2, <1>6
    <3> QED
      BY <3>2, <3>3, Zenon
  <2>2. /\ Range(client') \subseteq Range(client) \cup {"waiting"}
        /\ Range(work') \subseteq Range(work) \cup {"none"}
    BY <1>1 DEF Range, TypeOK, Made
  <2>3. \A r \in Made' : client'[r] = "ok" => work'[r] = "answered"
    BY <1>1, <1>3 DEF TypeOK
  <2> QED
    BY <1>2, <1>3, <2>1, <2>2, <2>3 DEF TypeOK
<1>8. (Made \subseteq Seq(Hop) \ {<<>>})'
  BY <1>3, <1>6 DEF Hop
<1>9. Lineage'
  <2> SUFFICES ASSUME NEW r \in Made', NEW n \in 1 .. Len(r)
               PROVE  /\ SubSeq(r, 1, n) \in Made'
                      /\ n < Len(r) =>
                           SubSeq(r, 1, n + 1) \in Subs(SubSeq(r, 1, n))
    BY <1>5 DEF Lineage
  <2>1. CASE r \in Made
    BY <2>1, <1>3 DEF Lineage
  <2>2. CASE r = q /\ n = Len(q)
    BY <2>2, <1>3, <1>6
  <2>3. CASE r = q /\ n = Len(p)
    BY <2>3, <1>1, <1>3, <1>6
  <2>4. CASE r = q /\ n < Len(p)
    <3>1. /\ n \in 1 .. Len(p) /\ n + 1 \in 0 .. Len(p) /\ n \in 0 .. Len(p)
      BY <2>4, <1>6
    <3> QED
      BY <3>1, <2>4, <1>3, <1>6 DEF Lineage
  <2>5. r = q => n = Len(q) \/ n = Len(p) \/ n < Len(p)
    <3>1. \A a \in Nat : \A b \in 1 .. a + 1 : b = a + 1 \/ b = a \/ b < a
      OBVIOUS
    <3> QED
      BY <3>1, <1>6
  <2> QED
    BY <2>1, <2>2, <2>3, <2>4, <2>5, <1>3
<1>10. ASSUME NEW r \in Made', work'[r] = "answered"
       PROVE  Covered(r)'
  <2>1. r \in Made /\ work[r] = "answered" /\ Covered(r)
    BY <1>10, <1>1, <1>3
  <2>2. Below(r) \subseteq Below(r)'
    BY <1>3 DEF Below
  <2>3. CASE \E z \in Below(r) : client[z] \in Failure
    <3>1. PICK z \in Below(r) : client[z] \in Failure
      BY <2>3
    <3>2. z \in Made
      BY DEF Below
    <3> QED
      BY <3>1, <3>2, <2>2, <1>4 DEF Covered, Failure
  <2>4. CASE \A z \in {r} \cup Below(r) :
               work[z] = "answered" /\ Subs(z) \subseteq Made
    <3>1. q \notin Below(r)'
      BY <2>1, <2>4, <1>1, <1>2, NoNewCallInside DEF Below
    <3>2. Below(r)' = Below(r)
      BY <3>1, <1>3 DEF Below
    <3>3. \A z \in {r} \cup Below(r) : z \in Made
      BY <2>1 DEF Below
    <3> QED
      BY <2>4, <3>2, <3>3, <1>3, <1>4, <1>5 DEF Covered
  <2> QED
    BY <2>1, <2>3, <2>4 DEF Covered
<1> QED
  BY <1>7, <1>8, <1>9, <1>10

\* An answer is given when every subcall has failed or has its own tree covered.
LEMMA AnswerInv ==
  ASSUME IInv, NEW p \in Made, Answer(p)
  PROVE  IInv'
<1> USE DEF IInv
<1>1. /\ Subs(p) \subseteq Made
      /\ \A q \in Subs(p) : client[q] \in Over
      /\ work[p] = "working" /\ work' = [work EXCEPT ![p] = "answered"]
      /\ requests' = requests /\ client' = client
      /\ up' = up /\ crashes' = crashes
  BY DEF Answer, AnswerAfter, Works
<1>2. Made' = Made
  BY <1>1 DEF Made
<1>3. work'[p] = "answered" /\ \A q \in Made \ {p} : work'[q] = work[q]
  BY <1>1 DEF TypeOK
<1>4. TypeOK'
  <2>1. /\ DOMAIN work' = DOMAIN work
        /\ Range(work') \subseteq Range(work) \cup {"answered"}
    BY <1>1 DEF Range
  <2>2. \A q \in Made : client'[q] = "ok" => work'[q] = "answered"
    BY <1>1, <1>3 DEF TypeOK
  <2> QED
    BY <1>1, <1>2, <2>1, <2>2 DEF TypeOK
<1>5. \A q : Subs(q)' = Subs(q) /\ Below(q)' = Below(q)
  BY <1>1, <1>2 DEF Subs, Below
<1>6. Lineage'
  BY <1>2, <1>5 DEF Lineage
<1>7. ASSUME NEW q \in Made, Covered(q)
      PROVE  Covered(q)'
  <2>1. \A z \in {q} \cup Below(q) : z \in Made
    BY DEF Below
  <2>2. \A z \in {q} \cup Below(q) :
          work[z] = "answered" => work'[z] = "answered"
    BY <2>1, <1>3
  <2> QED
    BY <1>7, <2>2, <1>1, <1>2, <1>5 DEF Covered
<1>8. Covered(p)'
  <2>1. \A q \in Subs(p) : client[q] \in Failure \/ Covered(q)
    BY <1>1 DEF TypeOK, Over
  <2>2. CASE \E z \in Below(p) : client[z] \in Failure
    BY <2>2, <1>1, <1>5 DEF Covered, Failure
  <2>3. CASE \A z \in Below(p) : work[z] = "answered" /\ Subs(z) \subseteq Made
    <3>1. \A z \in Below(p) : z \in Made
      BY DEF Below
    <3>2. \A z \in Below(p) : work'[z] = "answered" /\ Subs(z)' \subseteq Made'
      BY <2>3, <3>1, <1>2, <1>3, <1>5
    <3>3. work'[p] = "answered" /\ Subs(p)' \subseteq Made'
      BY <1>1, <1>2, <1>3, <1>5
    <3> QED
      BY <3>2, <3>3, <1>5 DEF Covered
  <2> QED
    BY <2>1, <2>2, <2>3, <1>1, CoverUp
<1> QED
  BY <1>2, <1>3, <1>4, <1>6, <1>7, <1>8

\* The first call has nothing below it.
LEMMA InitInv == Init => IInv
<1> SUFFICES ASSUME Init PROVE IInv
  OBVIOUS
<1>1. Made = {Root} /\ DOMAIN work = {Root}
  BY DEF Init, Made
<1>2. /\ Root \in Seq(Hop) \ {<<>>} /\ Len(Root) = 1
      /\ SubSeq(Root, 1, 1) = Root
  <2>1. ASSUME NEW h \in Hop
        PROVE  /\ <<h>> \in Seq(Hop) \ {<<>>} /\ Len(<<h>>) = 1
               /\ <<h>> = SubSeq(<<h>>, 1, 1)
    <3>1. <<h>> \in Seq(Hop) /\ Len(<<h>>) = 1 /\ <<h>> # <<>>
      OBVIOUS
    <3> QED
      BY <3>1, Prefixes
  <2>2. <<1, Entry>> \in Hop
    BY MeshAssumption DEF Hop
  <2> QED
    BY <2>1, <2>2 DEF Root
<1>3. TypeOK
  BY <1>1, MeshAssumption DEF Init, TypeOK, Range
<1>4. Lineage
  <2> SUFFICES ASSUME NEW n \in 1 .. Len(Root)
               PROVE  SubSeq(Root, 1, n) \in Made /\ ~ (n < Len(Root))
    BY <1>1 DEF Lineage
  <2>1. n = 1
    BY <1>2
  <2> QED
    BY <2>1, <1>1, <1>2
<1> QED
  BY <1>1, <1>2, <1>3, <1>4 DEF Init, IInv

\* Every step keeps the strengthening.
LEMMA StepInv == IInv /\ [Next]_vars => IInv'
<1> SUFFICES ASSUME IInv, [Next]_vars PROVE IInv'
  OBVIOUS
<1>1. CASE UNCHANGED vars
  <2>1. Quiet
    BY <1>1 DEF vars, Quiet, Made
  <2>2. TypeOK'
    BY <1>1 DEF vars, IInv, TypeOK, Made, Range
  <2> QED
    BY <2>1, <2>2, QuietKeepsCover
<1>2. ASSUME NEW p \in Made, Accept(p) \/ Issue(p) \/ Answer(p) PROVE IInv'
  BY <1>2, AcceptInv, IssueInv, AnswerInv
<1>3. ASSUME NEW p \in Made, Receive(p) PROVE IInv'
  BY <1>3, GetsInv DEF Receive, Over
<1>4. ASSUME NEW p \in Made, CallFails(p) PROVE IInv'
  BY <1>4, GetsInv DEF CallFails, Over, Failure
<1>5. ASSUME NEW p \in Made, Refused(p) PROVE IInv'
  BY <1>5, GetsInv DEF Refused, Over, Failure
<1>6. ASSUME NEW p \in Made, Lose(p) PROVE IInv'
  BY <1>6, GetsInv DEF Lose, Over, Failure
<1>7. CASE GiveUp
  <2>1. Root \in Made
    BY DEF IInv, TypeOK
  <2> QED
    BY <2>1, <1>7, GetsInv DEF GiveUp
<1>8. ASSUME NEW s \in Services, Crash(s) \/ Restart(s) PROVE IInv'
  BY <1>8, CrashInv, RestartInv
<1> QED
  BY <1>1, <1>2, <1>3, <1>4, <1>5, <1>6, <1>7, <1>8
     DEF Next, Progress, Misfortune

--------------------------------------------------------------------------------
\* The strengthening holds in every behaviour of Mesh.
THEOREM InductiveInvariant == Spec => []IInv
BY InitInv, StepInv, PTL DEF Spec

\* Mesh is type correct: who was answered was answered by a handler, and every
\* call but the first has a caller that was called itself.
THEOREM TypeCorrect == Spec => []TypeOK
<1>1. IInv => TypeOK
  BY DEF IInv
<1> QED
  BY <1>1, InductiveInvariant, PTL

\* An answer stands for a whole tree or for a failure in it, in every topology
\* and at every depth, whatever dies, breaks or comes back (httpserver.go:73,
\* grpcserver.go:117).
THEOREM AnswersCoverTrees == Spec => []AnswerCoversTree
<1>1. IInv => AnswerCoversTree
  BY DEF IInv, TypeOK, AnswerCoversTree, Covered
<1> QED
  BY <1>1, InductiveInvariant, PTL

--------------------------------------------------------------------------------
(* Cycles.                                                                 *)

\* A set of natural numbers has a least element.
LEMMA LeastNumber ==
  ASSUME NEW T \in SUBSET Nat, T # {}
  PROVE  \E x \in T : \A y \in T : ~ (y < x)
<1> DEFINE R == OpToRel(<, Nat)
<1>1. IsWellFoundedOn(R, Nat)
  BY NatLessThanWellFounded, Zenon
<1>2. \A x, y \in Nat : y < x => <<y, x>> \in R
  BY Zenon DEF OpToRel
<1>3. PICK x \in T : \A y \in T : ~ (<<y, x>> \in R)
  <2> HIDE DEF R
  <2> QED
    BY <1>1, WFMin
<1> QED
  BY <1>2, <1>3

\* Where each service of X has a request into X, a tree with a call of one of
\* them is never complete.
LEMMA NoEndInACycle ==
  ASSUME IInv, NEW p \in Made,
         \A q \in {p} \cup Below(p) : Subs(q) \subseteq Made,
         NEW X \in SUBSET Services,
         \A s \in X : Range(requests[s]) \cap X # {}
  PROVE  Target(p) \notin X
<1> SUFFICES ASSUME Target(p) \in X
             PROVE  FALSE
  OBVIOUS
<1> DEFINE Inside == {q \in {p} \cup Below(p) : Target(q) \in X}
           T == {MaxDepth - Len(q) : q \in Inside}
<1>1. \A q \in Made : Len(q) \in Nat /\ MaxDepth - Len(q) \in Nat
  <2>1. \A q \in Made : Len(q) \in Nat
    BY DEF IInv
  <2>2. \A q \in Made : Len(q) <= MaxDepth
    <3>1. Len(Root) = 1
      BY DEF Root
    <3>2. Len(Root) <= MaxDepth
      BY <3>1, MeshAssumption
    <3> QED
      BY <3>2 DEF IInv, TypeOK
  <2> QED
    BY <2>1, <2>2, MeshAssumption
<1>2. Inside \subseteq Made
  BY DEF Below
<1>3. T \in SUBSET Nat /\ T # {}
  BY <1>1, <1>2
<1>4. PICK x \in T : \A y \in T : ~ (y < x)
  BY <1>3, LeastNumber
<1>5. PICK q \in Inside : x = MaxDepth - Len(q)
  BY <1>4
<1>6. q \in Made /\ q \in Seq(Hop) /\ Target(q) \in X /\ Subs(q) \subseteq Made
  BY <1>2, <1>5 DEF IInv
<1>7. PICK i \in DOMAIN requests[Target(q)] : requests[Target(q)][i] \in X
  BY <1>6 DEF Range
<1> DEFINE z == Append(q, <<i, requests[Target(q)][i]>>)
<1>8. z \in Subs(q) /\ z \in Below(q) /\ Len(z) = Len(q) + 1
  <2>1. z \in Subs(q)
    BY <1>7 DEF Subs
  <2> HIDE DEF z
  <2> QED
    BY <2>1, <1>6, SubcallNames
<1>9. Target(z) \in X
  <2>1. z[Len(q) + 1] = <<i, requests[Target(q)][i]>>
    BY <1>6
  <2> HIDE DEF z
  <2> QED
    BY <2>1, <1>7, <1>8 DEF Target
<1>10. z \in Inside
  <2> HIDE DEF z
  <2>1. q = p \/ q \in Below(p)
    BY <1>5
  <2>2. z \in Below(p)
    BY <2>1, <1>8, BelowBelow
  <2> QED
    BY <2>2, <1>9
<1>11. MaxDepth - Len(z) \in T /\ MaxDepth - Len(z) < x
  <2> HIDE DEF z
  <2>1. Len(z) \in Nat /\ Len(q) \in Nat
    BY <1>1, <1>2, <1>10, <1>6
  <2>2. MaxDepth - Len(z) < x
    BY <2>1, <1>5, <1>8, MeshAssumption
  <2> QED
    BY <2>2, <1>10
<1> QED
  BY <1>4, <1>11

\* Nobody is answered out of a cycle but for a failure below: for each call, not
\* only the first one.
THEOREM NoAnswerFromACycle ==
  Spec => [](\A p \in Made :
               client[p] = "ok" /\ Target(p) \in Endless =>
                 \E q \in Below(p) : client[q] \in Failure)
<1>1. ASSUME IInv, NEW p \in Made, client[p] = "ok", Target(p) \in Endless
      PROVE  \E q \in Below(p) : client[q] \in Failure
  <2>1. PICK X \in SUBSET Services :
          Target(p) \in X /\ \A s \in X : Range(requests[s]) \cap X # {}
    BY <1>1 DEF Endless
  <2>2. Covered(p)
    BY <1>1 DEF IInv, TypeOK
  <2>3. ~ \A q \in {p} \cup Below(p) : Subs(q) \subseteq Made
    BY <1>1, <2>1, NoEndInACycle
  <2> QED
    BY <2>2, <2>3 DEF Covered
<1>2. IInv => \A p \in Made :
                client[p] = "ok" /\ Target(p) \in Endless =>
                  \E q \in Below(p) : client[q] \in Failure
  BY <1>1
<1> QED
  BY <1>2, InductiveInvariant, PTL

--------------------------------------------------------------------------------
(* An answer stands.                                                       *)

\* What every step leaves alone: an outcome, an answer, the lists.  A new call is
\* one of a handler at work, a new answer one of a handler that has heard of all
\* its calls.
Steady ==
  /\ requests' = requests
  /\ \A p \in Made :
       /\ p \in Made'
       /\ client[p] \in Over => client'[p] = client[p]
       /\ work[p] = "answered" => work'[p] = "answered"
  /\ \A q \in Made' \ Made :
       \E p \in Made : work[p] = "working" /\ q \in Subs(p)
  /\ \A p \in Made' : work'[p] = "answered" =>
       /\ p \in Made
       /\ work[p] # "answered" =>
            \A q \in Subs(p) : q \in Made /\ client[q] \in Over

\* Every step of Mesh is steady.
LEMMA StepIsSteady ==
  ASSUME IInv, [Next]_vars
  PROVE  Steady
<1>1. Quiet => Steady
  BY DEF Quiet, Steady
<1>2. CASE UNCHANGED vars
  BY <1>2 DEF vars, Steady, Made
<1>3. ASSUME NEW p \in Made, Accept(p)
      PROVE  Quiet
  BY <1>3 DEF IInv, TypeOK, Made, Quiet, Accept, Works
<1>4. ASSUME NEW p \in Made, Receive(p) \/ CallFails(p) \/ Refused(p) \/ Lose(p)
      PROVE  Quiet
  BY <1>4 DEF Made, Over, Failure, Quiet, Receive, CallFails, Refused, Lose, Gets
<1>5. CASE GiveUp
  BY <1>1, <1>5 DEF Made, Over, Failure, Quiet, GiveUp, Gets
<1>6. ASSUME NEW s \in Services, Crash(s) \/ Restart(s)
      PROVE  Quiet
  BY <1>6 DEF IInv, TypeOK, Made, Over, Failure, Quiet, Crash, Restart
<1>7. ASSUME NEW p \in Made, Answer(p)
      PROVE  Steady
  <2>1. /\ requests' = requests /\ client' = client /\ Made' = Made
        /\ \A q \in Made : q # p => work'[q] = work[q]
        /\ work'[p] = "answered"
        /\ \A q \in Subs(p) : q \in Made /\ client[q] \in Over
    BY <1>7 DEF IInv, TypeOK, Made, Answer, AnswerAfter, Works
  <2> QED
    BY <2>1 DEF Steady
<1>8. ASSUME NEW p \in Made, Issue(p)
      PROVE  Steady
  <2>1. PICK q \in Subs(p) \ Made :
          /\ requests' = requests /\ work[p] = "working"
          /\ Made' = Made \cup {q}
          /\ \A r \in Made : client'[r] = client[r] /\ work'[r] = work[r]
          /\ work'[q] = "none"
    BY <1>8 DEF Made, Issue, IssueUpTo
  <2> QED
    BY <2>1 DEF Steady
<1> QED
  BY <1>1, <1>2, <1>3, <1>4, <1>5, <1>6, <1>7, <1>8
     DEF Next, Progress, Misfortune

\* Who has answered has heard of all its calls.
HeardInv ==
  \A p \in Made : work[p] = "answered" =>
    \A q \in Subs(p) : q \in Made /\ client[q] \in Over

\* Who has answered has heard of all its calls, and hears nothing else later.
LEMMA HeardStays ==
  IInv /\ HeardInv /\ [Next]_vars => HeardInv'
<1> SUFFICES ASSUME IInv, HeardInv, [Next]_vars,
                    NEW p \in Made', work'[p] = "answered", NEW q \in Subs(p)'
             PROVE  q \in Made' /\ client'[q] \in Over
  BY DEF HeardInv, Over, Failure
<1>1. Steady
  BY StepIsSteady
<1>2. q \in Subs(p)
  BY <1>1 DEF Steady, Subs
<1>3. p \in Made /\ q \in Made /\ client[q] \in Over
  BY <1>1, <1>2 DEF Steady, HeardInv
<1> QED
  BY <1>1, <1>3 DEF Steady

\* The tree of p has no failure.
Clean(p) == \A q \in Below(p) : client[q] \notin Failure

\* Where everyone below has answered and nothing has failed, each call got its
\* answer, and nothing is left that a step could add or change.
LEMMA CleanStays ==
  ASSUME IInv, HeardInv, [Next]_vars,
         NEW p \in Made, work[p] = "answered", Clean(p)
  PROVE  /\ p \in Made' /\ work'[p] = "answered" /\ Clean(p)'
         /\ Below(p)' = Below(p)
<1>1. Steady
  BY StepIsSteady
<1>2. \A q \in {p} \cup Below(p) : work[q] = "answered" /\ Subs(q) \subseteq Made
  BY DEF IInv, Covered, Clean
<1>3. Below(p)' = Below(p)
  <2>1. ASSUME NEW q \in Made' \ Made
        PROVE  ~ (Len(q) > Len(p) /\ SubSeq(q, 1, Len(p)) = p)
    <3>1. PICK r \in Made : work[r] = "working" /\ q \in Subs(r)
      BY <1>1 DEF Steady
    <3> QED
      BY <3>1, <1>2, NoNewCallInside
  <2>2. Made \subseteq Made'
    BY <1>1 DEF Steady
  <2> QED
    BY <2>1, <2>2 DEF Below
<1>4. ASSUME NEW q \in Below(p)
      PROVE  client[q] \in Over
  <2>1. PICK c \in {p} \cup Below(p) : q \in Subs(c)
    <3> DEFINE n == Len(q) - 1
               c == SubSeq(q, 1, n)
    <3>1. /\ p \in Seq(Hop) /\ Len(p) \in Nat \ {0}
          /\ q \in Made /\ q \in Seq(Hop) /\ Len(q) \in Nat /\ Len(q) > Len(p)
          /\ SubSeq(q, 1, Len(p)) = p
      BY DEF IInv, Below
    <3>2. n \in 1 .. Len(q) /\ n < Len(q) /\ n + 1 = Len(q) /\ n >= Len(p)
      BY <3>1
    <3> HIDE DEF n
    <3>3. c \in Made /\ SubSeq(q, 1, n + 1) \in Subs(c)
      BY <3>1, <3>2 DEF IInv, Lineage
    <3>4. SubSeq(q, 1, n + 1) = q /\ Len(c) = n /\ SubSeq(c, 1, Len(p)) = p
      BY <3>1, <3>2, Prefixes
    <3>5. n = Len(p) \/ n > Len(p)
      <4>1. \A a, b \in Int : a >= b => a = b \/ a > b
        OBVIOUS
      <4>2. n \in Int /\ Len(p) \in Int
        BY <3>1, <3>2
      <4> QED
        BY <4>1, <4>2, <3>2
    <3>6. n = Len(p) => c = p
      BY <3>1
    <3>7. n > Len(p) => c \in Below(p)
      BY <3>3, <3>4 DEF Below
    <3> QED
      BY <3>3, <3>4, <3>5, <3>6, <3>7
  <2>2. c \in Made /\ work[c] = "answered"
    BY <2>1, <1>2 DEF Below
  <2> QED
    BY <2>1, <2>2 DEF HeardInv
<1>5. \A q \in Below(p) : client'[q] = client[q]
  BY <1>1, <1>4 DEF Steady, Below
<1>6. Clean(p)'
  BY <1>3, <1>5 DEF Clean, Failure
<1> QED
  BY <1>1, <1>3, <1>6 DEF Steady

\* An answer that stands for a complete tree does so for good: no step adds a call
\* to the tree, and no call of it fails afterwards, whatever dies or breaks.
THEOREM CleanAnswersStand ==
  Spec => [][\A p \in Made :
               work[p] = "answered" /\ Clean(p) =>
                 /\ p \in Made' /\ work'[p] = "answered" /\ Clean(p)'
                 /\ Below(p)' = Below(p)]_vars
<1>1. Init => HeardInv
  BY DEF Init, HeardInv, Made
<1>2. Spec => [](IInv /\ HeardInv)
  BY <1>1, InitInv, StepInv, HeardStays, PTL DEF Spec
<1>3. IInv /\ HeardInv /\ [Next]_vars =>
        [\A p \in Made :
           work[p] = "answered" /\ Clean(p) =>
             /\ p \in Made' /\ work'[p] = "answered" /\ Clean(p)'
             /\ Below(p)' = Below(p)]_vars
  BY CleanStays
<1> QED
  BY <1>2, <1>3, PTL DEF Spec
===============================================================================
