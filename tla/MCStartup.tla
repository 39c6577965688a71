------------------------------- MODULE MCStartup -------------------------------
(***************************************************************************)
(* Constant values for the run of Startup.                                 *)
(***************************************************************************)
EXTENDS Startup

AllKinds == {"http", "grpc", "tcp", "kafka"}
MainOrder == <<"http", "grpc", "tcp", "kafka">>

\* The ports of the defaults.
Ports == 8080 .. 8083
DefaultPort == [http |-> 8080, health |-> 8081, grpc |-> 8082, tcp |-> 8083]

NoAddresses == [l \in DOMAIN DefaultPort |-> Unset]
AllEmpty == [k \in AllKinds |-> "empty"]

\* What can be wrong before a server starts,
Faults ==
  [fault : {"none", "file", "types", "format"}, flag : {"none", "exit"},
   sql : Dsns, shared : Lists, own : {AllEmpty},
   kafka : {FALSE}, addr : {NoAddresses}, wildcard : {{}}]

\* every combination of lists,
ListsOfAll ==
  [fault : {"none"}, flag : {"none"}, sql : {"none"}, shared : {"empty", "some"},
   own : [AllKinds -> {"empty", "some", "error"}], kafka : BOOLEAN,
   addr : {NoAddresses}, wildcard : {{}}]

\* and of addresses, with clashes of two, three and four, and of endpoints.
AddressesOfAll ==
  [fault : {"none"}, flag : {"none"}, sql : {"none"}, shared : {"some"},
   own : {AllEmpty}, kafka : {FALSE},
   addr : [DOMAIN DefaultPort -> {Unset, 8082}],
   wildcard : {{}, {"http"}, {"health"}}]

AllConfigs == Faults \cup ListsOfAll \cup AddressesOfAll
===============================================================================
