--------------------------- MODULE ExclusiveLock ---------------------------
(***************************************************************************)
(* What a writer is promised by Storage::lock_exclusive: one holder at a   *)
(* time, in this process or any other, until it drops the guard or dies.   *)
(***************************************************************************)
CONSTANTS Tasks, Free

VARIABLE holder

Init == holder = Free

Acquire(t) == holder = Free /\ holder' = t

Release(t) == holder = t /\ holder' = Free

Next == \E t \in Tasks : Acquire(t) \/ Release(t)

Spec == Init /\ [][Next]_holder

=============================================================================
