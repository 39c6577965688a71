------------------------------ MODULE TcpRequest ------------------------------
(***************************************************************************)
(* Do of a TCP request: it sends its payload in chunks and stops when the  *)
(* sum, an int, converted to uint, has reached the payload size.  Both are *)
(* as wide as Word, a parameter, so that a model can make them wrap.       *)
(***************************************************************************)
EXTENDS TcpPayload

CONSTANT Chunk    \* 1024

ASSUME TcpAssumption ==
  /\ Chunk \in Nat \ {0}
  /\ Word % 2 = 0
  /\ MiB % Chunk = 0      \* a payload is a whole number of chunks,
  /\ Word % MiB = 0       \* even one that wrapped

VARIABLES
  count,    \* the count of the entry; never changes
  pc,       \* "dial", "write" or "done"
  sum,      \* bytes sent so far, as the int of the code
  sent,     \* chunks sent, however many: what the peer gets
  failed    \* Dial or Write failed

vars == <<count, pc, sum, sent, failed>>

PayloadSize == PayloadOf(count)

\* int arithmetic, and the conversion uint(sum).
Signed(n) == ((n + Word \div 2) % Word) - Word \div 2
Unsigned(n) == n % Word

Init ==
  /\ count \in 0 .. Word - 1
  /\ pc = "dial"
  /\ sum = 0
  /\ sent = 0
  /\ failed = FALSE

Connect ==
  /\ pc = "dial"
  /\ pc' = "write"
  /\ UNCHANGED <<count, sum, sent, failed>>

\* Dial or Write returns an error: it is logged, and Do returns.
Fail ==
  /\ pc \in {"dial", "write"}
  /\ pc' = "done"
  /\ failed' = TRUE
  /\ UNCHANGED <<count, sum, sent>>

Summed == Signed(sum + Chunk)

Writes(isEnough) ==
  /\ pc = "write"
  /\ sum' = Summed
  /\ sent' = sent + 1
  /\ pc' = IF isEnough THEN "done" ELSE "write"
  /\ UNCHANGED <<count, failed>>

\* Mutant: the comparison is made between ints.
WriteSigned == Writes(Summed >= Signed(PayloadSize))

\* A chunk is written, and the loop ends when enough has been.
Write == Writes(Unsigned(Summed) >= PayloadSize)

Next == Connect \/ Fail \/ Write
Spec == Init /\ [][Next]_vars

\* The peer reads (TcpLink shows that the TCP server does), and the loop runs.
FairSpec == Spec /\ WF_vars(Connect \/ Write)

--------------------------------------------------------------------------------
\* The int has wrapped exactly when the bytes sent are past its largest value.
TypeOK ==
  /\ count \in 0 .. Word - 1
  /\ pc \in {"dial", "write", "done"}
  /\ sum = Signed(sent * Chunk)
  /\ failed \in BOOLEAN

\* Unless an error stops it the loop sends the payload size to the byte, past
\* the largest int too, and one chunk when the size is zero, which a count of
\* zero or a product that wraps to zero makes it (tcp.go:52-63, request.go:127).
SentExactly ==
  pc = "done" /\ ~failed =>
    sent * Chunk = IF PayloadSize = 0 THEN Chunk ELSE PayloadSize
===============================================================================
