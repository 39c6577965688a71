---------------------------- MODULE MCRequestConfig ----------------------------
(***************************************************************************)
(* Constant values for the run of RequestConfig.                           *)
(***************************************************************************)
EXTENDS RequestConfig

\* The entries the code tells apart: no count, a count, a bad count, too many
\* pieces; an URL that is good, refused or of an unknown scheme.  A word of 16
\* and a MiB of 4 let a TCP payload wrap at a count of 4.
SmallWord == 16
SmallMiB == 4

Short == {[pieces |-> 1, url |-> u, count |-> 0] :
            u \in {"http", "kafka-consume", "no-scheme"}}
Full == {[pieces |-> 2, url |-> u, count |-> n] :
            u \in {"grpc", "tcp", "unknown-scheme", "tcp-no-port"}, n \in {1, 5}}
Wrong == {[pieces |-> 2, url |-> u, count |-> BadCount] :
            u \in {"http", "grpc-no-method"}}
Long == {[pieces |-> 3, url |-> u, count |-> 2] :
            u \in {"kafka-produce", "kafka-no-query"}}

AllInputs == UNION {[1 .. n -> Short \cup Full \cup Wrong \cup Long] : n \in 0 .. 4}
===============================================================================
