------------------------------ MODULE TaskRuns -----------------------------
(***************************************************************************)
(* What the claims of a task promise whoever reads the bucket: a run is    *)
(* closed with one outcome or not at all, for good, and its agent works    *)
(* only before that.                                                       *)
(***************************************************************************)
CONSTANTS Runs, Outcomes

VARIABLES
    closed,  \* the outcomes published of each run
    working  \* the runs whose agent may write

Init ==
    /\ closed = [i \in Runs |-> {}]
    /\ working = {}

\* An agent is prompted.
Prompt(i) ==
    /\ i \notin working
    /\ working' = working \cup {i}
    /\ closed[i] = {}
    /\ UNCHANGED closed

\* It ends, is killed, or dies with its engine.
Stop(i) ==
    /\ i \in working
    /\ working' = working \ {i}
    /\ UNCHANGED closed

Close(i) ==
    /\ i \notin working
    /\ closed'[i] # {} /\ closed[i] = {}
    /\ \E o \in Outcomes : closed' = [closed EXCEPT ![i] = {o}]
    /\ UNCHANGED working

Next == \E i \in Runs : Prompt(i) \/ Stop(i) \/ Close(i)

Spec == Init /\ [][Next]_<<closed, working>>

=============================================================================
