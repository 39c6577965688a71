------------------------------ MODULE KafkaServer ------------------------------
(***************************************************************************)
(* The loop of the Kafka server over one partition, with crashes: Consume  *)
(* fetches a message and commits its offset before it returns (ReadMessage *)
(* of kafka-go with a group), and the loop then starts a goroutine for it. *)
(* The broker and its committed offset are external and survive; the       *)
(* process may die at any time, and is started again (README's Deployment).*)
(***************************************************************************)
EXTENDS Naturals, FiniteSets

CONSTANTS
  Messages,     \* how many messages there will be: 1 .. Messages
  MaxCrashes    \* bound on crashes, for model checking only

ASSUME KafkaServerAssumption == Messages \in Nat /\ MaxCrashes \in Nat

VARIABLES
  committed,    \* the offset the broker keeps for the group
  fetched,      \* the last message this run of the process has fetched
  run,          \* Run: "fetch", "commit", "start", "returned"; "down"
  started,      \* started[m]: how often Incoming was started for m
  working,      \* messages whose goroutines are at work
  finished,     \* messages whose requests have been made
  crashes,      \* how often the process died
  failures      \* how often Consume failed

serverVars == <<committed, fetched, run, started, working, finished, crashes,
                failures>>

ServerInit ==
  /\ committed = 0
  /\ fetched = 0
  /\ run = "fetch"
  /\ started = [m \in 1 .. Messages |-> 0]
  /\ working = {}
  /\ finished = {}
  /\ crashes = 0
  /\ failures = 0

--------------------------------------------------------------------------------
FetchTo(step) ==
  /\ run = "fetch"
  /\ fetched < Messages
  /\ fetched' = fetched + 1
  /\ run' = step
  /\ UNCHANGED <<committed, started, working, finished, crashes, failures>>

\* Mutant: FetchMessage in place of ReadMessage: the offset is not committed.
FetchUncommitted == FetchTo("start")

\* ReadMessage has the next message.
Fetch == FetchTo("commit")

\* ... and commits it.
Commit ==
  /\ run = "commit"
  /\ committed' = fetched
  /\ run' = "start"
  /\ UNCHANGED <<fetched, started, working, finished, crashes, failures>>

\* Fetching or committing fails; the commit may have reached the broker all the
\* same.  Consume closes the reader and Run returns for good, while the other
\* servers keep the process up.
ConsumeFails ==
  /\ run \in {"fetch", "commit"}
  /\ \E reached \in BOOLEAN :
       committed' = IF run = "commit" /\ reached THEN fetched ELSE committed
  /\ failures' = failures + 1
  /\ run' = "returned"
  /\ UNCHANGED <<fetched, started, working, finished, crashes>>

\* `go s.Incoming(message)`.
StartIncoming ==
  /\ run = "start"
  /\ started' = [started EXCEPT ![fetched] = @ + 1]
  /\ working' = working \cup {fetched}
  /\ run' = "fetch"
  /\ UNCHANGED <<committed, fetched, finished, crashes, failures>>

\* The requests of a message have all been made (Serving).
Finish(m) ==
  /\ m \in working
  /\ run # "down"
  /\ working' = working \ {m}
  /\ finished' = finished \cup {m}
  /\ UNCHANGED <<committed, fetched, run, started, crashes, failures>>

--------------------------------------------------------------------------------
\* The process dies, and its goroutines with it.
Crash ==
  /\ run # "down"
  /\ crashes < MaxCrashes
  /\ crashes' = crashes + 1
  /\ run' = "down"
  /\ working' = {}
  /\ UNCHANGED <<committed, fetched, started, finished, failures>>

RestartAt(offsets) ==
  /\ run = "down"
  /\ fetched' \in offsets
  /\ run' = "fetch"
  /\ UNCHANGED <<committed, started, working, finished, crashes, failures>>

\* Mutant: a new process starts at some later offset of the topic.
RestartAhead == RestartAt(committed .. Messages)

\* A new process reads on from the committed offset.
Restart == RestartAt({committed})

Loop == Fetch \/ Commit \/ StartIncoming
ServerNext ==
  \/ Loop \/ ConsumeFails \/ Crash \/ Restart
  \/ \E m \in 1 .. Messages : Finish(m)

ServerSpec == ServerInit /\ [][ServerNext]_serverVars

\* The loop and the goroutines of the messages run, their downstream calls
\* return, and a process that died is started again.
ServerFairness ==
  /\ WF_serverVars(Loop)
  /\ WF_serverVars(Restart)
  /\ \A m \in 1 .. Messages : WF_serverVars(Finish(m))
ServerFairSpec == ServerSpec /\ ServerFairness

--------------------------------------------------------------------------------
ServerTypeOK ==
  /\ committed \in 0 .. Messages
  /\ fetched \in 0 .. Messages
  /\ run \in {"fetch", "commit", "start", "returned", "down"}
  /\ started \in [1 .. Messages -> Nat]
  /\ working \subseteq 1 .. Messages
  /\ finished \subseteq 1 .. Messages
  /\ crashes \in Nat
  /\ failures \in Nat

\* No message triggers the requests twice, whatever crashes and failed commits
\* there are: the offset is committed before the message is handed over.
AtMostOnce == \A m \in 1 .. Messages : started[m] <= 1

\* The messages that were committed and will never be handed over are at most
\* as many as there were crashes and failures: nothing else loses a message.
Handing == IF run = "start" THEN {fetched} ELSE {}
Skipped == {m \in 1 .. committed : started[m] = 0} \ Handing
LossIsBounded == Cardinality(Skipped) <= crashes + failures

\* The group gets through all messages however often the process dies, unless
\* Consume fails; and if nothing fails every message has its requests made.
EveryMessageCounts ==
  <>(\/ failures > 0
     \/ /\ committed = Messages
        /\ crashes = 0 => finished = 1 .. Messages)
===============================================================================
