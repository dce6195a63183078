------------------------------ MODULE MapSpec ------------------------------
(***************************************************************************)
(* What the cache's tree promises: a map from keys to values in which the  *)
(* entry of the last call, and no other, is added or replaced.             *)
(***************************************************************************)
CONSTANTS Keys, Values, NULL

VARIABLES map, last

TypeOK ==
    /\ map \in [Keys -> Values \cup {NULL}]
    /\ last \in (Keys \X Values) \cup {NULL}

Init ==
    /\ map = [k \in Keys |-> NULL]
    /\ last = NULL

Put ==
    LET old == map IN
    \E k \in Keys, v \in Values :
        /\ last' = <<k, v>>
        /\ map' = [old EXCEPT ![k] = v]

Spec == Init /\ [][Put]_<<map, last>>
=============================================================================
