------------------------------- MODULE MCServing -------------------------------
(***************************************************************************)
(* Constant values for the runs of Serving.                                *)
(***************************************************************************)
EXTENDS Serving, TLC

\* Calls can be renamed, in a run that checks no liveness.
Renaming == Permutations(Calls)

AllKinds == {"http", "grpc", "tcp", "kafka"}

\* One request made twice, one written without a count, lists of two; each
\* server has a list of its own.
PlainLists == [http  |-> <<1, 0, 1>>, tcp   |-> <<1, 1>>,
               grpc  |-> <<0, 2>>,    kafka |-> <<2>>]

\* An entry of unknown scheme at the head and among good ones; a server of
\* each style without one.
NilLists == [http  |-> <<2, NilRequest, 1>>, tcp   |-> <<NilRequest, 1>>,
             grpc  |-> <<1, 1>>,             kafka |-> <<1, 1>>]

OkOrError == {"ok", "error"}
OnlyOk == {"ok"}
===============================================================================
