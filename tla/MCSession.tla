----------------------------- MODULE MCSession ------------------------------
(* The instance of Session that TLC checks: who asks for what.              *)
EXTENDS Session

CONSTANTS S1, S2

Wishes ==
    {[wants |-> {<<"join", S1>>, <<"get", S2>>},    asks |-> 1, faults |-> 0],
     [wants |-> {<<"join", S1>>, <<"put", S1>>},    asks |-> 0, faults |-> 1],
     [wants |-> {<<"list">>, <<"get", S2>>},        asks |-> 2, faults |-> 1],
     [wants |-> {<<"create", S1>>, <<"join", S1>>}, asks |-> 1, faults |-> 1],
     [wants |-> {<<"join", S1>>},                   asks |-> 1, faults |-> 0]}
=============================================================================
