----------------------------- MODULE MotionFeed -----------------------------
(***************************************************************************)
(* What the server is promised about motion messages: for each camera and  *)
(* rule a sequence of starts and ends, in which one period of motion has   *)
(* one event id, an id never serves two rules and no end comes twice.      *)
(***************************************************************************)
EXTENDS Naturals

CONSTANTS
    Keys,       \* pairs of a camera and a rule
    Ids         \* event ids

VARIABLES
    last,       \* the last message of each key
    used        \* the ids each key has had

None == [active |-> FALSE, id |-> 0]

Init ==
    /\ last = [k \in Keys |-> None]
    /\ used = [k \in Keys |-> {}]

Unused == Ids \ UNION {used[k] : k \in Keys}

Says(k, active, id) ==
    /\ last' = [last EXCEPT ![k] = [active |-> active, id |-> id]]
    /\ used' = [used EXCEPT ![k] = @ \cup {id}]

\* A period begins: under a new id, or as the continuation of the last one.
Start(k) ==
    /\ ~last[k].active
    /\ \E id \in Unused \cup (IF last[k].id = 0 THEN {} ELSE {last[k].id}) : Says(k, TRUE, id)

\* The period goes on: the start is told again, nothing new is said.
StartAgain(k) ==
    /\ last[k].active
    /\ Says(k, TRUE, last[k].id)

End(k) ==
    /\ last[k].active
    /\ Says(k, FALSE, last[k].id)

\* The end of a period whose start was lost before anything was sent.
EndOnly(k) ==
    /\ last[k] = None
    /\ \E id \in Unused : Says(k, FALSE, id)

Next == \E k \in Keys : Start(k) \/ StartAgain(k) \/ End(k) \/ EndOnly(k)

Spec == Init /\ [][Next]_<<last, used>>
=============================================================================
