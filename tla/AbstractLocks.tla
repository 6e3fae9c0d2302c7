--------------------------- MODULE AbstractLocks ---------------------------
(***************************************************************************)
(* What synch.h promises of struct lock: it can be held by at most a       *)
(* single thread at any given time, and only its holder releases it.       *)
(***************************************************************************)
CONSTANTS Thread, Lock

VARIABLE held   \* the locks each thread has acquired and not released

Init == held = [t \in Thread |-> {}]

Acquire(t, l) ==
  /\ \A u \in Thread : l \notin held[u]
  /\ held' = [held EXCEPT ![t] = @ \cup {l}]

Release(t, l) ==
  /\ l \in held[t]
  /\ held' = [held EXCEPT ![t] = @ \ {l}]

Next == \E t \in Thread, l \in Lock : Acquire(t, l) \/ Release(t, l)

Spec == Init /\ [][Next]_held
=============================================================================
