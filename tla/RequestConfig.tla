----------------------------- MODULE RequestConfig -----------------------------
(***************************************************************************)
(* CreateRequestsFromStringSlice: from the entries of REQUESTS (or of one  *)
(* of the per-server lists) to a list of requests.                         *)
(*                                                                         *)
(* An entry is URL#count.  It is abstracted to the number of pieces that   *)
(* '#' cuts it into, the kind of URL in front, and the count (BadCount     *)
(* when ParseUint refuses it).  The variable `request` is declared outside *)
(* the loop, so an entry of three or more pieces, which no branch handles, *)
(* adds the request of an earlier entry again.                             *)
(***************************************************************************)
EXTENDS TcpPayload, Sequences, FiniteSetsExt

CONSTANTS
  Inputs,     \* the slices of entries it may be given
  BadCount,   \* a count that is not a number
  NoRequest   \* a nil interface: the initial `request`, or an appended nil

\* What url.Parse and the switch of AddRequest tell apart.
Good == {"http", "grpc", "tcp", "kafka-consume", "kafka-produce"}
Malformed ==
  {"no-scheme",      \* or unparsable, or without a host
   "grpc-no-method", "tcp-no-port", "kafka-no-query"}
Unknown == {"unknown-scheme"}
Urls == Good \cup Malformed \cup Unknown

Entry == [pieces : 1 .. 3, url : Urls, count : (0 .. Word - 1) \cup {BadCount}]

\* What the variable `request` holds.
HTTPRequest == [url : Urls, count : 0 .. Word - 1]

ASSUME ConfigAssumption ==
  /\ BadCount \notin Nat
  /\ NoRequest \notin HTTPRequest
  /\ Inputs \subseteq Seq(Entry)

VARIABLES
  reqs,       \* the argument
  at,         \* the index of the entry the loop is at
  request,    \* the variable `request`: an HTTPRequest, or nil at first
  requests,   \* the list so far
  outcome     \* "running", "ok", "error" or "panic"

listVars == <<reqs, at, request, requests, outcome>>

\* The request AddRequest appends: a TCP request is made once, and its count is
\* a payload in MiB.
Added(r) ==
  CASE r.url \in Unknown -> NoRequest
    [] r.url = "tcp"     -> [url |-> "tcp", count |-> 1,
                             payload |-> PayloadOf(r.count)]
    [] OTHER             -> [url |-> r.url, count |-> r.count, payload |-> 0]

ListInit ==
  /\ reqs \in Inputs
  /\ at = 1
  /\ request = NoRequest
  /\ requests = <<>>
  /\ outcome = "running"

InLoop == outcome = "running" /\ at <= Len(reqs)

\* The entry assigns `request`.
Parsed(e) == e.pieces = 1 \/ (e.pieces = 2 /\ e.count # BadCount)
AsRequest(e) == [url |-> e.url, count |-> IF e.pieces = 1 THEN 0 ELSE e.count]

\* `request` after the two ifs of the loop.
Assigned == IF Parsed(reqs[at]) THEN AsRequest(reqs[at]) ELSE request

\* ParseUint fails: continue.
SkipBadCount ==
  /\ InLoop
  /\ reqs[at].pieces = 2 /\ reqs[at].count = BadCount
  /\ at' = at + 1
  /\ UNCHANGED <<reqs, request, requests, outcome>>

\* The type assertion request.(HTTPRequest) on a nil interface.
AssertionPanics ==
  /\ InLoop
  /\ reqs[at].pieces = 3
  /\ request = NoRequest
  /\ outcome' = "panic"
  /\ UNCHANGED <<reqs, at, request, requests>>

\* The type assertion on `request` holds.
Usable ==
  /\ InLoop
  /\ Parsed(reqs[at]) \/ (reqs[at].pieces = 3 /\ request # NoRequest)

Refuse(how, next) ==
  /\ Usable
  /\ Assigned.url \in Malformed
  /\ request' = Assigned
  /\ outcome' = how
  /\ at' = next
  /\ UNCHANGED <<reqs, requests>>

\* Mutant: an entry AddRequest refuses is logged and left out.
AddFailsQuietly == Refuse("running", at + 1)

\* AddRequest returns an error, and with it the whole call.
AddFails == Refuse("error", at)

AddUrl(url) ==
  /\ Usable
  /\ Assigned.url \notin Malformed
  /\ requests' = Append(requests, Added([Assigned EXCEPT !.url = url]))
  /\ request' = Assigned
  /\ at' = at + 1
  /\ UNCHANGED <<reqs, outcome>>

\* Mutant: pieces beyond the second are ignored, the first is kept.
AddOwn == AddUrl(reqs[at].url)

\* AddRequest appends a request, or nil for a scheme it does not know.
Add == AddUrl(Assigned.url)

Return ==
  /\ outcome = "running"
  /\ at > Len(reqs)
  /\ outcome' = "ok"
  /\ UNCHANGED <<reqs, at, request, requests>>

ListNext == SkipBadCount \/ AssertionPanics \/ AddFails \/ Add \/ Return

ListSpec == ListInit /\ [][ListNext]_listVars

--------------------------------------------------------------------------------
(* What the loop computes, without the loop.                               *)

\* The entry whose request the i-th entry stands for: itself, or the last one
\* before it that could be parsed; 0 if there is none.
Source(i) == Max({j \in 1 .. i : Parsed(reqs[j])} \cup {0})

\* The entries that are not skipped.
Kept == {i \in DOMAIN reqs : reqs[i].pieces = 3 \/ Parsed(reqs[i])}

Fatal(i) == i \in Kept /\ (Source(i) = 0 \/ reqs[Source(i)].url \in Malformed)
FirstFatal == Min({i \in DOMAIN reqs : Fatal(i)} \cup {Len(reqs) + 1})

\* The call succeeds exactly when no entry is fatal; it fails as a whole at the
\* first one that is, by an error if that entry stands for a malformed URL and
\* by a panic if it stands for no URL at all.  Bad counts never fail it.
OutcomeIsRight ==
  outcome # "running" =>
    outcome = IF FirstFatal > Len(reqs) THEN "ok"
              ELSE IF Source(FirstFatal) = 0 THEN "panic" ELSE "error"

\* At every point the list has one request per entry kept so far, in the order
\* of the entries; it is nil exactly for an unknown scheme.  An entry of three
\* pieces repeats the last entry that could be parsed, jumping over bad counts.
ListIsRight ==
  LET done == {i \in Kept : i < at}
      nth(n) == CHOOSE i \in done : Cardinality({j \in done : j <= i}) = n
  IN  /\ Len(requests) = Cardinality(done)
      /\ \A n \in DOMAIN requests :
           requests[n] = Added(AsRequest(reqs[Source(nth(n))]))
===============================================================================
