---------------------------- MODULE JobLedger ----------------------------
(***************************************************************************)
(* What the service promises about jobs, with no files, channel, goroutine *)
(* or restart: a job that was accepted stays pending until it is settled,  *)
(* that is, until its handler returned no error or one not to be retried.  *)
(***************************************************************************)
CONSTANT Jobs

VARIABLES pending, settled

vars == <<pending, settled>>

Init == pending = {} /\ settled = {}

Accept(j) ==
  /\ j \notin settled
  /\ pending' = pending \cup {j}
  /\ UNCHANGED settled

SettleJob(j) ==
  /\ j \in pending
  /\ pending' = pending \ {j}
  /\ settled' = settled \cup {j}

Next == \E j \in Jobs : Accept(j) \/ SettleJob(j)

Spec == Init /\ [][Next]_vars
=============================================================================
