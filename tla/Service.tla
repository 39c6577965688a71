-------------------------------- MODULE Service --------------------------------
(***************************************************************************)
(* What an AllSpark process promises for every incoming call, whatever the *)
(* server: each configured request is made Count() times, no more, and an  *)
(* HTTP request or an RPC is answered only when all of them have returned. *)
(* No loops, counters or goroutines here: Serving shows how the code does  *)
(* it.                                                                     *)
(***************************************************************************)
EXTENDS RequestLists

VARIABLES
  alive,      \* the process runs
  kind,       \* the server each call arrives at
  phase,      \* "new", "open", "answered" or "dropped"
  out,        \* downstream calls in flight, per incoming call
  back        \* downstream calls that have returned

svcVars == <<alive, kind, phase, out, back>>

Init ==
  /\ alive = TRUE
  /\ kind \in [Calls -> Kinds]
  /\ phase = [c \in Calls |-> "new"]
  /\ out = [c \in Calls |-> {}]
  /\ back = [c \in Calls |-> {}]

Open(c) ==
  /\ phase[c] = "new"
  /\ phase' = [phase EXCEPT ![c] = "open"]
  /\ UNCHANGED <<alive, kind, out, back>>

\* A call that is still to be made is made, once.
Issue(c, s) ==
  /\ phase[c] \in IF Sync(kind[c]) THEN {"open"} ELSE {"open", "answered"}
  /\ s \in Slots(kind[c]) \ (out[c] \cup back[c])
  /\ out' = [out EXCEPT ![c] = @ \cup {s}]
  /\ UNCHANGED <<alive, kind, phase, back>>

Return(c, s) ==
  /\ s \in out[c]
  /\ out' = [out EXCEPT ![c] = @ \ {s}]
  /\ back' = [back EXCEPT ![c] = @ \cup {s}]
  /\ UNCHANGED <<alive, kind, phase>>

\* The handler is through.
Answer(c) ==
  /\ phase[c] = "open"
  /\ Sync(kind[c]) => back[c] = Slots(kind[c])
  /\ phase' = [phase EXCEPT ![c] = "answered"]
  /\ UNCHANGED <<alive, kind, out, back>>

\* Only net/http survives a panic of a handler: the connection is closed.
Drop(c) ==
  /\ phase[c] = "open"
  /\ kind[c] = "http"
  /\ phase' = [phase EXCEPT ![c] = "dropped"]
  /\ UNCHANGED <<alive, kind, out, back>>

Halt ==
  /\ alive' = FALSE
  /\ UNCHANGED <<kind, phase, out, back>>

Next ==
  /\ alive
  /\ \/ \E c \in Calls :
          \/ Open(c)
          \/ Answer(c)
          \/ Drop(c)
          \/ \E s \in Slots(kind[c]) : Issue(c, s) \/ Return(c, s)
     \/ Halt

Spec == Init /\ [][Next]_svcVars
===============================================================================
