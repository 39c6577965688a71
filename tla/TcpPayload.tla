------------------------------- MODULE TcpPayload -------------------------------
(***************************************************************************)
(* The payload of a TCP request, which RequestConfig fixes when it parses  *)
(* an entry and TcpRequest sends: the count of the entry in MiB, as a uint.*)
(***************************************************************************)
EXTENDS Integers

CONSTANTS
  Word,     \* 2^64: counts and sizes are uint
  MiB       \* 1024 * 1024

ASSUME PayloadAssumption == Word \in Nat \ {0} /\ MiB \in Nat \ {0}

PayloadOf(n) == (n * MiB) % Word
===============================================================================
