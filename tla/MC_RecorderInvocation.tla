------------------------- MODULE MC_RecorderInvocation ------------------------
(* Two clients create the same invocation "u:a": c1 with request id "r1"  *)
(* and no deadline, c2 with no request id and a deadline in an hour.      *)
EXTENDS RecorderInvocation, TLC

CONSTANTS c1, c2

MCClients == {c1, c2}

MCRequests ==
    (c1 :> [invocationId |-> <<"u:", "a">>, requestId |-> "r1", deadline |-> None])
    @@ (c2 :> [invocationId |-> <<"u:", "a">>, requestId |-> "", deadline |-> 3600])

=============================================================================
