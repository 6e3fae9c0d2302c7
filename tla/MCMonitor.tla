----------------------------- MODULE MCMonitor -----------------------------
(* One monitor lock and one condition for three threads besides idle. *)
EXTENDS Monitor, TLC

CONSTANTS main, idle, t1, t2, l1, c1, w0, w1, w2, w3

MCMonitorLock == c1 :> l1
MCWaiter == [t \in Thread |-> (main :> w0 @@ idle :> w1 @@ t1 :> w2 @@ t2 :> w3)[t]]
=============================================================================
